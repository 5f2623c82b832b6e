---------------------------- MODULE MCSkipKernel ----------------------------
(***************************************************************************)
(* Small modules for the skip kernel: two inputs, two scalar registers and *)
(* one array register, a two-cell memory with two ordered ports, a chain   *)
(* of cached wires (we reads g, q reads the memory, both y through the     *)
(* temporary t) and one assertion.  SkipPlan computes the kernel's tables  *)
(* from the assignment graph.  Three variants, chosen by Design:           *)
(*   "plain"          every register has one writer;                       *)
(*   "two_writers"    two statements assign x, neither excluding the other *)
(*                    (accepted by the native frontend, parse.py);         *)
(*   "direct_enable"  the enable of port 2 is an input pin that no cached  *)
(*                    wire reads, beside a port with a cached enable.      *)
(***************************************************************************)
EXTENDS SkipKernel

CONSTANT Design

MCInputs == {"a", "en"}
MCArrays == {"z"}
MCRegs   == {"x", "y", "z"}
MCCells  == {"m0", "m1"}
MCWires  == {"g", "we", "q"}
MCVal    == {0, 1}
MCRank   == [h \in Holds |-> h]

IsSet(e, n) == e[n] = 1
Bit(b) == IF b THEN 1 ELSE 0
Direct == Design = "direct_enable"
Load == IF Direct THEN "a" ELSE "en"      \* the input that loads q into x

\* The wires, t being the value of the temporary that two of them read.
Wire(w, e, t) ==
    CASE w = "g"  -> Bit((IsSet(e, "x") \/ t = 1 \/ IsSet(e, "z"))
                         /\ (Direct \/ IsSet(e, "en")))
      [] w = "we" -> Bit(IsSet(e, "g") /\ IsSet(e, "a"))
      [] w = "q"  -> ((IF t = 1 THEN e["m1"] ELSE e["m0"] + 1) + e["x"]) % 2
MCWireFn(w, e) == Wire(w, e, e["y"])

MCHoldFn(h, e) ==
    LET none == [r \in {} |-> 0] IN
    CASE h = 0 -> IF IsSet(e, Load) THEN [x |-> e["q"]] ELSE none
      [] h = 1 -> IF Design = "two_writers"
                  THEN IF IsSet(e, "en") THEN [x |-> 1] ELSE none
                  ELSE IF IsSet(e, "g") THEN [y |-> 1 - e["y"]] ELSE none
      [] h = 2 -> IF IsSet(e, "y") THEN [z |-> e["a"]] ELSE none
      [] h = 3 -> IF ~Direct /\ ~IsSet(e, "en") THEN [x |-> e["a"]] ELSE none
      [] h = 4 -> IF ~IsSet(e, "g") /\ IsSet(e, "a") THEN [y |-> 0] ELSE none

MCEnFn(j, e) ==
    CASE j = 1 -> IsSet(e, "we")
      [] j = 2 -> IF Direct THEN IsSet(e, "en") ELSE IsSet(e, "g")
MCAddrFn(j, e) ==
    CASE j = 1 -> IF IsSet(e, "y") THEN "m1" ELSE "m0"
      [] j = 2 -> IF IsSet(e, "z") THEN "m1" ELSE "m0"
MCDataFn(j, e) ==
    CASE j = 1 -> e["a"]
      [] j = 2 -> IF Direct THEN 1 ELSE 1 - e["q"]
MCFails(e) == IsSet(e, "g") /\ IsSet(e, "a") /\ IsSet(e, "z") /\ ~IsSet(e, "x")

(* The assignment graph.  The temporary te is the enable of port 1.        *)
MCGuard == IF Direct THEN {} ELSE {"en"}
MCReads == [g |-> {"x", "t", "z"} \cup MCGuard, we |-> {"g", "a"}, t |-> {"y"},
            te |-> {"we"}, q |-> {"m0", "m1", "t", "x"}]
MCExpr(n, f) ==
    CASE n = "t" -> f["y"] [] n = "te" -> f["we"] [] OTHER -> Wire(n, f, f["t"])
MCStmtIds ==
    [h \in Holds |->
        CASE h = 0 -> {"q"} \cup {Load}
          [] h = 1 -> IF Design = "two_writers" THEN {"en"} ELSE {"g", "y"}
          [] h = 2 -> {"y", "a"}
          [] h = 3 -> {"a"} \cup MCGuard
          [] h = 4 -> {"g", "a"}]
MCGateIds == [MCStmtIds EXCEPT ![0] = {Load}]
MCBranchIds(h, e) == IF h = 0 /\ IsSet(e, Load) THEN {"q"} ELSE {}
MCEnable(j, f) == IF j = 1 THEN IsSet(f, "te") ELSE MCEnFn(j, f)
MCEnableIds == <<{"te"}, IF Direct THEN {"en"} ELSE {"g"}>>
MCStoreIds == <<{"y", "a"}, IF Direct THEN {"z"} ELSE {"z", "q"}>>
MCFailureIds == {"g", "a", "z", "x"}
MCOutputs    == {"we"}

Plan == INSTANCE PlannedNetlist WITH
            Stop <- MCInputs \cup MCRegs \cup MCCells,
            Assigned <- {"g", "we", "t", "te", "q"}, Reads <- MCReads,
            Cached <- MCWires, StmtIds <- MCStmtIds,
            GateIds <- MCGateIds, Inline <- 1,
            Expr <- MCExpr, Stmt <- MCHoldFn, BranchIds <- MCBranchIds,
            Enable <- MCEnable, Address <- MCAddrFn, Data <- MCDataFn,
            EnableIds <- MCEnableIds, StoreIds <- MCStoreIds,
            Failure <- MCFails, FailureIds <- MCFailureIds

MCPart        == Plan!WirePart
MCPages       == Plan!PageSet
MCLeafParts   == Plan!LeafPartsOf
MCTabled      == Plan!InvalidationTables
MCLeafHolds   == Plan!LeafHoldsOf
MCDeps        == Plan!CachedDeps
MCGateReads   == Plan!GateReadsOf
MCBranchReads(h, e) == Plan!CachedBelow(MCBranchIds(h, e))
MCEnReads     == Plan!EnReadsOf
MCEnTemps     == Plan!EnTempsOf
MCPortReads   == Plan!PortReadsOf
MCAssertReads == Plan!AssertReadsOf

(* The netlist above is the one of the graph.                              *)
ASSUME Plan!DesignOK
ASSUME \A e \in Env :
    /\ \A w \in Wires : WireFn(w, e) = Plan!WireOf(w, e)
    /\ \A h \in Holds : /\ HoldFn(h, e) = Plan!HoldOf(h, e)
                        /\ BranchReads(h, e) = Plan!BranchReadsOf(h, e)
    /\ \A j \in Ports : /\ EnFn(j, e) = Plan!EnableOf(j, e) /\ AddrFn(j, e) = Plan!AddressOf(j, e)
                        /\ DataFn(j, e) = Plan!DataOf(j, e)
    /\ Fails(e) = Plan!FailsOf(e)
ASSUME Design = "plain" => ExclusiveWriters /\ EnablesPaged

(* States that differ only by the absolute value of a generation counter   *)
(* behave alike: the counters only grow, and the kernel only compares a    *)
(* stamp with the counter it was copied from.                              *)
Alike ==
    <<pc, hostVars, wval, {w \in Wires : Stale(w)}, {p \in Pages : seqSeen[p] = pg[p]},
      demandGen = pgGen, demand, want, holdVars, sw, swBits,
      IF pc \in {"word", "hold"} THEN <<word, bits, hold>> ELSE <<>>,
      nxt, flags, list, ac, todo, {t \in Tabled : bst[t] = bep}, memVars, chg>>
=============================================================================
