--------------------------- MODULE PlannedNetlist ---------------------------
(***************************************************************************)
(* A module as emit_cpp has it before the kernel is written: an assignment *)
(* graph with an expression for every name, and statements, write ports    *)
(* and assertions over all names.  A name without a cache is bound as a    *)
(* local wherever an expression needs it (_emit_compute), so to the kernel *)
(* an expression is a function of the state and of the cached wires.       *)
(* Tables instantiates the kernel's netlist and tables with what follows   *)
(* from the graph.                                                         *)
(***************************************************************************)
EXTENDS SkipPlan

CONSTANTS
    Inputs, Regs, Cells, Arrays, Val, Zero,
    Expr(_, _),        \* Expr(n, f): the expression of n when names have values f
    NHolds, SourceRank,
    Stmt(_, _),        \* Stmt(h, f): the assignments hold h performs
    BranchIds(_, _),   \* BranchIds(h, f): names in the branches that h takes
    NPorts,
    Enable(_, _), Address(_, _), Data(_, _),  \* of a write port
    EnableIds,         \* EnableIds[j]: names in the enable of port j
    StoreIds,          \* StoreIds[j]: names in its data and address
    Failure(_),        \* Failure(f): some assertion fails
    FailureIds,        \* names in the assertions
    Outputs            \* cached wires that are ports

Temps == Assigned \ Cached
Values == [Names -> Val]
Only(f, names) == [x \in Names |-> IF x \in names THEN f[x] ELSE Zero]

(* The values of all names, given those of the state and the cached wires. *)
Bound(e) ==
    LET with(v) == [x \in Names |-> IF x \in Temps THEN v[x] ELSE e[x]]
    IN  CHOOSE f \in {with(v) : v \in [Temps -> Val]} :
            \A n \in Temps : f[n] = Expr(n, f)

(* What the kernel's methods compute.                                      *)
WireOf(w, e) == Expr(w, Bound(e))
HoldOf(h, e) == Stmt(h, Bound(e))
EnableOf(j, e) == Enable(j, Bound(e))
AddressOf(j, e) == Address(j, Bound(e))
DataOf(j, e) == Data(j, Bound(e))
FailsOf(e) == Failure(Bound(e))

(* What they evaluate first, as _cached_deps_for_expr finds it; assertions *)
(* and the scan of the enables take the names that are cached themselves.  *)
BranchReadsOf(h, e) == CachedBelow(BranchIds(h, Bound(e)))
EnReadsOf   == [j \in 1 .. NPorts |-> EnableIds[j] \cap Cached]
EnTempsOf   == [j \in 1 .. NPorts |-> CachedBelow(EnableIds[j])]
PortReadsOf == [j \in 1 .. NPorts |-> CachedBelow(StoreIds[j])]
AssertReadsOf == FailureIds \cap Cached

Tables == INSTANCE SkipTables WITH
    WireFn <- WireOf, HoldFn <- HoldOf, EnFn <- EnableOf, AddrFn <- AddressOf,
    DataFn <- DataOf, Fails <- FailsOf, BranchReads <- BranchReadsOf,
    Wires <- Cached, Pages <- PageSet, Part <- WirePart, LeafParts <- LeafPartsOf,
    Tabled <- InvalidationTables, LeafHolds <- LeafHoldsOf, Deps <- CachedDeps,
    GateReads <- GateReadsOf, EnReads <- EnReadsOf, EnTemps <- EnTempsOf,
    PortReads <- PortReadsOf, AssertReads <- AssertReadsOf
-----------------------------------------------------------------------------
(* What a module is.                                                       *)

(* Some order has every name after what it reads: no combinational loop.   *)
Ordered(rank) == \A n \in Assigned : \A m \in Reads[n] \cap Assigned : rank[m] < rank[n]
LoopFree == \E rank \in [Assigned -> 0 .. Cardinality(Assigned)] : Ordered(rank)

Typed ==
    /\ Stop = Inputs \cup Regs \cup Cells /\ Arrays \subseteq Regs
    /\ Inputs \cap Regs = {} /\ Inputs \cap Cells = {} /\ Regs \cap Cells = {}
    /\ Zero \in Val /\ NHolds \in Nat /\ NPorts \in Nat /\ Outputs \subseteq Cached
    /\ SourceRank \in [0 .. NHolds - 1 -> Int]
    /\ DOMAIN StmtIds = 0 .. NHolds - 1 /\ DOMAIN GateIds = 0 .. NHolds - 1
    /\ \A f \in Values :
          /\ \A n \in Assigned : Expr(n, f) \in Val
          /\ \A h \in 0 .. NHolds - 1 :
                /\ DOMAIN Stmt(h, f) \subseteq Regs
                /\ \A r \in DOMAIN Stmt(h, f) : Stmt(h, f)[r] \in Val
          /\ \A j \in 1 .. NPorts :
                Enable(j, f) \in BOOLEAN /\ Address(j, f) \in Cells /\ Data(j, f) \in Val
          /\ Failure(f) \in BOOLEAN

(* An expression is determined by the names in it (expr_ids).              *)
IdsRight ==
    \A f \in Values :
        /\ \A n \in Assigned : Expr(n, f) = Expr(n, Only(f, Reads[n]))
        /\ \A h \in 0 .. NHolds - 1 :
              LET taken == GateIds[h] \cup BranchIds(h, f) IN
              /\ taken \subseteq StmtIds[h] /\ StmtIds[h] \subseteq Names
              /\ BranchIds(h, f) = BranchIds(h, Only(f, GateIds[h]))
              /\ Stmt(h, f) = Stmt(h, Only(f, taken))
        /\ \A j \in 1 .. NPorts :
              /\ EnableIds[j] \subseteq Names /\ StoreIds[j] \subseteq Names
              /\ Enable(j, f) = Enable(j, Only(f, EnableIds[j]))
              /\ Address(j, f) = Address(j, Only(f, StoreIds[j]))
              /\ Data(j, f) = Data(j, Only(f, StoreIds[j]))
        /\ Failure(f) = Failure(Only(f, FailureIds))

(* cached_wires gives a cache to every name that an assertion reads.       *)
RootsCached == FailureIds \subseteq Stop \cup Cached

DesignOK == GraphOK /\ LoopFree /\ Typed /\ IdsRight /\ RootsCached
=============================================================================
