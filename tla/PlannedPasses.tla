---------------------------- MODULE PlannedPasses ----------------------------
(***************************************************************************)
(* A module as PlannedNetlist has it, compiled with eager passes: Eager    *)
(* instantiates the netlist and what the tables must promise with what     *)
(* follows from the assignment graph.                                      *)
(***************************************************************************)
EXTENDS PlannedNetlist, EagerPlan

Eager == INSTANCE PassTables WITH
    WireFn <- WireOf, HoldFn <- HoldOf, EnFn <- EnableOf, AddrFn <- AddressOf,
    DataFn <- DataOf, Fails <- FailsOf, Wires <- Cached, Scalar <- ScalarIds

(* Names are sorted, keys are numbers and what is compared is cached.      *)
NamesSorted ==
    /\ NameRank \in [Names -> Int]
    /\ \A m, n \in Names : NameRank[m] = NameRank[n] => m = n
    /\ SkipKey \in [Cached -> Nat \ {0}]
    /\ ScalarIds \subseteq Cached

(* A grouping: the rank of its match for every cached wire that matches.   *)
GroupingOK(grouping) ==
    /\ grouping = [w \in DOMAIN grouping |-> grouping[w]]
    /\ DOMAIN grouping \subseteq Cached
    /\ \A w \in DOMAIN grouping : grouping[w] \in Int

(* A way to cut wires into passes: no wire is in two passes, those of a    *)
(* pass have the same leaves, and each comes after those it reads.         *)
PassesOK(passes) ==
    /\ passes \in Seq(Seq(Cached))
    /\ \A r \in DOMAIN passes :
          /\ passes[r] # <<>>
          /\ \A i, j \in DOMAIN passes[r] :
                /\ passes[r][i] = passes[r][j] => i = j
                /\ ConeLeaves(passes[r][i]) = ConeLeaves(passes[r][j])
                /\ passes[r][j] \in CachedDeps[passes[r][i]] => j < i
    /\ \A q, r \in DOMAIN passes :
          Range(passes[q]) \cap Range(passes[r]) # {} => q = r
=============================================================================
