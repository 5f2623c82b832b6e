------------------------------ MODULE AxiMemory ------------------------------
(***************************************************************************)
(* What a memory behind an AXI port promises its master.  Bursts of each   *)
(* direction are numbered in the order the master presents them.           *)
(*   - The beats of the writes reach the memory in order, each at its own  *)
(*     address under its own strobe.                                       *)
(*   - A write is answered once, after its last beat, and the answer is an *)
(*     error exactly if a part of the write failed.                        *)
(*   - A read looks at the memory at one instant; the master then sees its *)
(*     beats in order, each once, the last one marked.                     *)
(***************************************************************************)
EXTENDS Naturals, Sequences

CONSTANTS Lanes     \* the parts of a beat that a strobe selects

VARIABLES
    writes,         \* the master's write bursts: [addr, strobes]
    reads,          \* the master's read bursts: [addr, len]
    mem,            \* the memory: address -> lane -> what was written last
    landed,         \* write -> number of its beats that reached the memory
    failed,         \* the writes of which a part failed
    answers,        \* the write answers the master has seen
    owed,           \* the read beats taken from memory and not yet seen
    taken,          \* number of reads whose data has been taken
    seen            \* the read beats the master has seen

vars == <<writes, reads, mem, landed, failed, answers, owed, taken, seen>>

Initial == <<0, 0>>         \* contents of a lane nobody wrote
Lost == <<>>                \* contents of a read beat that failed

Beats(k) == Len(writes[k].strobes)

\* Lanes of beat j of write k that the callbacks stored, given those that failed.
Stored(m, addr, value, lanes) ==
    [m EXCEPT ![addr] = [l \in Lanes |-> IF l \in lanes THEN value ELSE @[l]]]

\* The beats of a read of `burst` in memory m when the beats in `bad` fail.
BeatsOf(m, id, burst, bad) ==
    [j \in 1 .. burst.len |->
        [id |-> id,
         data |-> IF j \in bad THEN Lost ELSE m[burst.addr + j - 1],
         ok |-> j \notin bad,
         last |-> j = burst.len]]

Land(k, bad) ==
    LET j == landed[k] + 1
        lanes == writes[k].strobes[j]
    IN  /\ landed[k] < Beats(k)
        /\ \A i \in 1 .. k - 1 : landed[i] = Beats(i)
        /\ bad \subseteq lanes
        /\ mem' = Stored(mem, writes[k].addr + j - 1, <<k, j>>, lanes \ bad)
        /\ landed' = [landed EXCEPT ![k] = j]
        /\ failed' = IF bad = {} THEN failed ELSE failed \union {k}
        /\ UNCHANGED <<writes, reads, answers, owed, taken, seen>>

Take(bad) ==
    LET k == taken + 1
    IN  /\ k \in DOMAIN reads
        /\ bad \subseteq 1 .. reads[k].len
        /\ owed' = owed \o BeatsOf(mem, k, reads[k], bad)
        /\ taken' = k
        /\ UNCHANGED <<writes, reads, mem, landed, failed, answers, seen>>

\* One clock edge delivers a write answer, a read beat, or both.
Deliver(answer, beat) ==
    LET k == Len(answers) + 1
    IN  /\ answer \/ beat
        /\ answer => k \in DOMAIN writes /\ landed[k] = Beats(k)
        /\ answers' = IF answer
                      THEN Append(answers, [id |-> k, ok |-> k \notin failed])
                      ELSE answers
        /\ beat => owed # <<>>
        /\ seen' = IF beat THEN Append(seen, Head(owed)) ELSE seen
        /\ owed' = IF beat THEN Tail(owed) ELSE owed
        /\ UNCHANGED <<writes, reads, mem, landed, failed, taken>>

Init ==
    /\ landed = [k \in DOMAIN writes |-> 0]
    /\ failed = {}
    /\ answers = <<>> /\ owed = <<>> /\ taken = 0 /\ seen = <<>>

Next ==
    \/ \E k \in DOMAIN writes : \E bad \in SUBSET Lanes : Land(k, bad)
    \/ \E bad \in SUBSET (IF taken + 1 \in DOMAIN reads
                          THEN 1 .. reads[taken + 1].len ELSE {}) : Take(bad)
    \/ \E answer, beat \in BOOLEAN : Deliver(answer, beat)

Spec == Init /\ [][Next]_vars
=============================================================================
