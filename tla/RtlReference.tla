---------------------------- MODULE RtlReference ----------------------------
(***************************************************************************)
(* The gold model of FlashSim's README: a cycle-accurate evaluation that   *)
(* recomputes everything at every rising edge.  What can be observed is    *)
(* the value of every input (as the model last sampled it), register and   *)
(* memory cell after each edge.                                            *)
(***************************************************************************)
EXTENDS Netlist

VARIABLES
    state,      \* the value of every input, register and memory cell
    cycle       \* rising edges since the start

vars == <<state, cycle>>

Init == state = [x \in Sigs |-> Zero] /\ cycle = 0

(* The host changes input pins between edges.                              *)
Drive == /\ \E v \in [Inputs -> Val] :
               state' = [x \in Sigs |-> IF x \in Inputs THEN v[x] ELSE state[x]]
         /\ UNCHANGED cycle

(* One rising edge.                                                        *)
Posedge == state' = NextState(state) /\ cycle' = cycle + 1

Next == Drive \/ Posedge

Spec == Init /\ [][Next]_vars
=============================================================================
