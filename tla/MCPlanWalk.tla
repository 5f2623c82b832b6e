----------------------------- MODULE MCPlanWalk -----------------------------
(***************************************************************************)
(* Graphs of three assigned names over two state elements, with shared     *)
(* subexpressions and with combinational loops through p.                  *)
(***************************************************************************)
EXTENDS PlanWalk

MCStop == {"x", "y"}
MCAssigned == {"p", "q", "r"}
MCGraphs == [p : SUBSET {"x", "r"}, q : SUBSET {"x", "y", "p"}, r : SUBSET {"y", "p", "q"}]
=============================================================================
