----------------------------- MODULE SkipTables -----------------------------
(***************************************************************************)
(* The tables that emit_cpp compiles into the skip kernel, and what they   *)
(* must promise about the netlist for the kernel to be right.  SkipPlan    *)
(* says how they are computed; PlannedNetlist puts the two together.       *)
(***************************************************************************)
EXTENDS Netlist, FiniteSets

CONSTANTS
    Arrays,      \* registers with unpacked depth, committed by _commit_ac
    Pages,       \* skip partitions, each with a generation counter
    Part,        \* Part[w]: the page whose generation stamps wire w
    LeafParts,   \* LeafParts[x]: pages bumped when element x changes
    Tabled,      \* page sets longer than _BUMP_INLINE, bumped once per commit
    LeafHolds,   \* LeafHolds[x]: holds woken when element x changes
    Deps,        \* Deps[w]: cached wires that eval_w evaluates first
    GateReads,   \* GateReads[h]: cached wires hold h evaluates on entry
    BranchReads(_, _), \* BranchReads(h, e): those of the branch it takes under e
    EnReads,     \* EnReads[j]: cached wires named by the enable of port j, and
                 \* the caches below them
    EnTemps,     \* EnTemps[j]: those it reads through uncached temporaries
    PortReads,   \* PortReads[j]: cached wires read by its data and address
    AssertReads, \* cached wires read by the clocked assertions
    Outputs      \* cached wires a host reads by calling eval_<output>()

(* An environment with everything hidden that an expression does not read. *)
Mask(e, names) == [x \in Sigs \cup Wires |-> IF x \in Sigs \cup names THEN e[x] ELSE Zero]

TablesTyped ==
    /\ Arrays \subseteq Regs
    /\ Part \in [Wires -> Pages]
    /\ LeafParts \in [Sigs -> SUBSET Pages]
    /\ LeafHolds \in [Sigs -> SUBSET Holds]
    /\ Deps \in [Wires -> SUBSET Wires]
    /\ GateReads \in [Holds -> SUBSET Wires]
    /\ \A h \in Holds, e \in Env : BranchReads(h, e) \subseteq Wires
    /\ EnReads \in [Ports -> SUBSET Wires]
    /\ EnTemps \in [Ports -> SUBSET Wires]
    /\ PortReads \in [Ports -> SUBSET Wires]
    /\ AssertReads \subseteq Wires /\ Outputs \subseteq Wires
    /\ Tabled \subseteq SUBSET Pages /\ {} \notin Tabled

(* Expressions read state elements and the cached wires named for them.    *)
ReadsNamed ==
    \A e \in Env :
        /\ \A w \in Wires : WireFn(w, e) = WireFn(w, Mask(e, Deps[w]))
        /\ \A h \in Holds :
              /\ BranchReads(h, e) = BranchReads(h, Mask(e, GateReads[h]))
              /\ HoldFn(h, e) = HoldFn(h, Mask(e, GateReads[h] \cup BranchReads(h, e)))
        /\ \A j \in Ports :
              /\ EnFn(j, e) = EnFn(j, Mask(e, EnReads[j] \cup EnTemps[j]))
              /\ AddrFn(j, e) = AddrFn(j, Mask(e, PortReads[j]))
              /\ DataFn(j, e) = DataFn(j, Mask(e, PortReads[j]))
        /\ Fails(e) = Fails(Mask(e, AssertReads))

(* A changed element that does not bump a wire's page cannot move the wire, *)
(* and one that does not wake a hold cannot change what the hold does.      *)
ChangesWake ==
    \A s \in State, x \in Sigs, v \in Val :
        LET t == [s EXCEPT ![x] = v] IN
        /\ \A w \in Wires : Part[w] \notin LeafParts[x] => Settled(t)[w] = Settled(s)[w]
        /\ \A h \in Holds : h \notin LeafHolds[x] =>
                HoldFn(h, Settled(t)) = HoldFn(h, Settled(s))

(* An element that bumps no page is not read by the enable of any port.    *)
EnablesPaged ==
    \A s \in State, x \in Sigs, v \in Val, j \in Ports :
        LeafParts[x] = {} => EnFn(j, Settled([s EXCEPT ![x] = v])) = EnFn(j, Settled(s))
=============================================================================
