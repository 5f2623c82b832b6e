--------------------------- MODULE MCEagerPasses ---------------------------
(***************************************************************************)
(* A module of two inputs, two registers and seven cached wires, v a wide  *)
(* one, compiled with several groupings: all wires in one region (the      *)
(* default), two regions beside a lazy wire, a region that pulls in a wire *)
(* between two of its own, regions that share a wire and are merged, and   *)
(* (Reversed) a region that reads one of a later match.                    *)
(***************************************************************************)
EXTENDS EagerPasses

MCInputs == {"a", "b"}
MCRegs   == {"x", "y"}
MCWires  == {"p", "q", "r", "n", "v", "s", "u"}
MCVal    == {0, 1}
MCScalar == MCWires \ {"v"}
MCOutputs == {"n", "u"}
MCRank   == [h \in Holds |-> h]
NoPort(j, e) == FALSE
MCFails(e) == FALSE

\* The wires, t being the value of the temporary that one of them reads.
Wire(w, e, t) ==
    CASE w = "p" -> e["a"]
      [] w = "q" -> 1 - e["x"]
      [] w = "r" -> e["p"] * e["q"]
      [] w = "n" -> 1 - e["r"]
      [] w = "v" -> (e["x"] + e["y"]) % 2
      [] w = "s" -> IF e["r"] + e["v"] + t > 0 THEN 1 ELSE 0
      [] w = "u" -> e["v"] * e["n"]
MCWireFn(w, e) == Wire(w, e, e["y"] * e["b"])

MCHoldFn(h, e) ==
    CASE h = 0 -> IF e["b"] = 1 THEN [x |-> e["s"]] ELSE [i \in {} |-> 0]
      [] h = 1 -> [y |-> (e["u"] + e["s"]) % 2]
      [] h = 2 -> IF e["b"] = 0 THEN [x |-> e["q"] * e["v"]] ELSE [i \in {} |-> 0]

Reads == [p |-> {"a"}, q |-> {"x"}, r |-> {"p", "q"}, n |-> {"r"}, v |-> {"x", "y"},
          t |-> {"y", "b"}, s |-> {"r", "v", "t"}, u |-> {"v", "n"}]
StmtIds == [h \in Holds |-> CASE h = 0 -> {"b", "s"} [] h = 1 -> {"u", "s"}
                              [] h = 2 -> {"b", "q", "v"}]
Ranks == [a |-> 1, b |-> 2, n |-> 3, p |-> 4, q |-> 5, r |-> 6, s |-> 7, t |-> 8,
          u |-> 9, v |-> 10, x |-> 11, y |-> 12]

MCExpr(n, f) == IF n = "t" THEN f["y"] * f["b"] ELSE Wire(n, f, f["t"])
NoIds(h, f) == {}

Plan == INSTANCE PlannedPasses WITH
            Stop <- MCInputs \cup MCRegs, Assigned <- MCWires \cup {"t"},
            Cached <- MCWires, GateIds <- StmtIds, Inline <- 6,
            NameRank <- Ranks, ScalarIds <- MCScalar,
            SkipKey <- [w \in MCWires |-> 1],
            Arrays <- {}, Expr <- MCExpr, Stmt <- MCHoldFn, BranchIds <- NoIds,
            Enable <- NoPort, Address <- NoPort, Data <- NoPort,
            EnableIds <- <<>>, StoreIds <- <<>>, Failure <- MCFails, FailureIds <- {}

AllWires == [w \in MCWires |-> 1]
TwoRegions == [w \in MCWires \ {"v"} |-> IF w \in {"s", "u"} THEN 2 ELSE 1]
PulledIn == [q |-> 1, v |-> 1, p |-> 2, s |-> 2]
Merged == [p |-> 1, u |-> 1, r |-> 2]
Reversed == [w \in MCWires |-> IF w \in {"s", "u"} THEN 1 ELSE 2]

MCPlans == {Plan!PlanOf(g) : g \in {AllWires, TwoRegions, PulledIn, Merged}}
CustomPlans == {Plan!PlanOf(Reversed)}

(* The netlist above is the one of the graph, and it and the groupings are *)
(* what EagerPlanProofs starts from.                                       *)
ASSUME Plan!DesignOK /\ Plan!NamesSorted
ASSUME \A e \in Env :
    /\ \A w \in Wires : WireFn(w, e) = Plan!WireOf(w, e)
    /\ \A h \in Holds : HoldFn(h, e) = Plan!HoldOf(h, e)
ASSUME \A g \in {AllWires, TwoRegions, PulledIn, Merged, Reversed} :
    Plan!GroupingOK(g) /\ Plan!PassesOK(Plan!PassesOf(g))
ASSUME AscendingPlans /\ ExclusiveWriters

(* States that differ only by the absolute value of the counters behave    *)
(* alike: a stamp is only compared with the counter it was copied from.    *)
Alike ==
    <<plan, pc, cur, prev, inited, wval, {w \in Wires : Stale(w)},
      {r \in Passes : ed[r] = pg[plan.dataPage[r]]}, up, workVars,
      IF pc \in {"drain", "passes"} THEN scanVars ELSE <<>>, want, awake, turn,
      IF pc = "holds" THEN <<nxt, list>> ELSE <<>> >>
=============================================================================
