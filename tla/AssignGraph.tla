---------------------------- MODULE AssignGraph ----------------------------
(***************************************************************************)
(* The names of a module (flashsim/ir.py: Module): elements of the state,  *)
(* where a cone ends, and names with an assignment.                        *)
(***************************************************************************)
EXTENDS Integers, FiniteSets

CONSTANTS
    Stop,      \* registers, inputs and memory cells
    Assigned   \* names with an assignment, cached or local temporaries

Names == Stop \cup Assigned

ASSUME GraphAssumption == IsFiniteSet(Names) /\ Stop \cap Assigned = {}
=============================================================================
