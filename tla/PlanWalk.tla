------------------------------ MODULE PlanWalk ------------------------------
(***************************************************************************)
(* The worklists behind the planner's tables: cone_leaves and cached_deps  *)
(* (flashsim/emit.py) pop a name, skip it if it was seen, and push what    *)
(* its expression reads.  expr_ids iterates in the order of the names; the *)
(* result must not depend on it, so any order is taken here.  SkipPlan     *)
(* says what the two calls must return.                                    *)
(***************************************************************************)
EXTENDS AssignGraph, Sequences, SequencesExt

CONSTANT Graphs     \* the assignment graphs considered: functions on Assigned

ASSUME WalkAssumption == Graphs \subseteq [Assigned -> SUBSET Names]

VARIABLES
    reads, cached,      \* the graph and the cached names, chosen at the start
    call,               \* "leaves" (cone_leaves) or "deps" (cached_deps)
    root, stack, seen,  \* locals of the call
    found, done

vars == <<reads, cached, call, root, stack, seen, found, done>>
input == <<reads, cached, call, root>>

Plan == INSTANCE SkipPlan WITH
            Reads <- reads, Cached <- cached,
            StmtIds <- <<>>, GateIds <- <<>>, Inline <- 0

Init ==
    /\ reads \in Graphs /\ cached \in SUBSET Assigned
    /\ call \in {"leaves", "deps"} /\ root \in Names
    /\ call = "deps" => root \in cached
    /\ stack = <<root>> /\ seen = {} /\ found = {} /\ done = FALSE

(* Pop the last name and decide what it is.                                *)
Push(S) == \E order \in SetToSeqs(S) : stack' = Front(stack) \o order

(* A walk that takes a cached root for its own dependency.                 *)
FoundRoot(name) == IF call = "leaves" THEN name \in Stop ELSE name \in cached

Found(name) ==
    IF call = "leaves" THEN name \in Stop
    ELSE name # root /\ name \in cached

(* A walk that forgets what it has expanded.                               *)
DroppedStop(name) == call = "deps" /\ name \in Stop

Dropped(name) == name \in seen \/ (call = "deps" /\ name \in Stop)

Pop ==
    /\ stack # <<>>
    /\ LET name == Last(stack) IN
       IF Dropped(name)
       THEN stack' = Front(stack) /\ UNCHANGED <<seen, found>>
       ELSE /\ seen' = seen \cup {name}
            /\ IF Found(name)
               THEN found' = found \cup {name} /\ stack' = Front(stack)
               ELSE found' = found /\ Push(reads[name])
    /\ UNCHANGED <<input, done>>

Return ==
    /\ stack = <<>> /\ ~done
    /\ done' = TRUE
    /\ UNCHANGED <<input, stack, seen, found>>

Next == Pop \/ Return
Spec == Init /\ [][Next]_vars /\ WF_vars(Next)
-----------------------------------------------------------------------------
(* Skipping a name that was seen loses nothing: what is found and what     *)
(* lies below the stack always add up to the answer, so a call that ends   *)
(* returns exactly the leaves, or the nearest caches, below its root.      *)
Wanted(names) ==
    IF call = "leaves" THEN Plan!LeavesBelow(names)
    ELSE Plan!CachedBelow(names) \ {root}
Answer == IF call = "leaves" THEN Plan!ConeLeaves(root) ELSE Plan!CachedDeps[root]
NothingLost == root \in seen => found \cup Wanted(ToSet(stack)) = Answer

(* Every leaf of a cached wire that another one reads is a leaf of the     *)
(* reader: a stale dependency makes its reader stale too.                  *)
ReaderStaleWithDep ==
    \A w \in cached : \A d \in Plan!CachedDeps[w] :
        Plan!WirePart[d] \subseteq Plan!WirePart[w]

(* The worklist empties although shared names are pushed again and again,  *)
(* and although nothing has rejected a combinational loop yet.             *)
WalkReturns == <>done
=============================================================================
