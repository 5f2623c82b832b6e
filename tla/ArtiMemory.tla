------------------------------ MODULE ArtiMemory ------------------------------
(***************************************************************************)
(* The memory side of the ARTI host (arti_model.py, SYSTEM_SOURCE): the    *)
(* AXI slave that the bridge plays towards the device's master port.  One  *)
(* call of tick_with drives the slave's outputs, captures what the device  *)
(* offers, steps the clock and pops what the device took:                  *)
(*                                                                         *)
(*   Drive -> CaptureAw -> CaptureW -> WriteBeat -> CaptureAr -> Edge ->   *)
(*   Pop, and the next tick begins.                                        *)
(*                                                                         *)
(* The device is external.  It presents its bursts in order, holds a valid *)
(* until it is accepted, may send write data before its address, and is    *)
(* ready or not at any edge.  Bursts carry their number as AXI id.         *)
(***************************************************************************)
EXTENDS Integers, Sequences

CONSTANTS
    WritePrograms,  \* write bursts a device may present, as sequences
    ReadPrograms,   \* read bursts a device may present, as sequences
    Addrs,          \* addresses, in beats
    Lanes,          \* the parts of a beat with a strobe of their own
    MaxLen,         \* longest read burst in beats (a cache line, 16)
    RespLimit       \* queued read beats at which admission stops (64)

WriteBurst == [addr : Addrs, strobes : Seq(SUBSET Lanes)]
ReadBurst == [addr : Addrs, len : 1 .. MaxLen]

ASSUME ProgramsAssumption ==
    /\ WritePrograms \subseteq Seq(WriteBurst)
    /\ \A p \in WritePrograms : \A k \in DOMAIN p : p[k].strobes # <<>>
    /\ ReadPrograms \subseteq Seq(ReadBurst)

\* Every beat of a burst has its place in Addrs.
ASSUME AddrsAssumption ==
    /\ Addrs \subseteq Nat
    /\ \A p \in WritePrograms : \A k \in DOMAIN p :
           \A j \in DOMAIN p[k].strobes : p[k].addr + j - 1 \in Addrs
    /\ \A p \in ReadPrograms : \A k \in DOMAIN p :
           \A j \in 1 .. p[k].len : p[k].addr + j - 1 \in Addrs

ASSUME LimitsAssumption == MaxLen \in Nat \ {0} /\ RespLimit \in Nat \ {0}

VARIABLES
    \* the device
    writes, reads,          \* its bursts
    awk, awvalid,           \* the write whose address comes next; is it offered
    wk, wj, wvalid,         \* the write and beat that come next; is it offered
    ark, arvalid,           \* the read whose address comes next; is it offered
    bready, rready,
    answers, seen,          \* what it has been told
    \* the bridge
    phase,                  \* where tick_with is
    io,                     \* the inputs of the device that mem_drive sets
    awActive, awId, awBeat, status,
    wbeats, bresp, rresp,   \* the deques
    bFire, rFire,           \* the handshakes sampled before the edge
    mem                     \* host memory behind the callbacks

device == <<awk, awvalid, wk, wj, wvalid, ark, arvalid, bready, rready, answers, seen>>
latch == <<awActive, awId, awBeat, status>>
program == <<writes, reads>>
vars == <<program, device, phase, io, latch, wbeats, bresp, rresp, bFire, rFire, mem>>

Nothing == <<>>             \* front of an empty deque
Initial == <<0, 0>>         \* contents of a lane nobody wrote
Lost == <<>>                \* contents of a read beat whose callback failed

Beats(k) == Len(writes[k].strobes)

-----------------------------------------------------------------------------
(* The bridge. *)

FrontOf(q) == IF q = <<>> THEN Nothing ELSE Head(q)

\* Bug: admission is off by one.
AdmitsAtLimit == Len(rresp) <= RespLimit

Admits == Len(rresp) < RespLimit

\* mem_drive.  wready is always one, and so is not kept.
Driven ==
    [awready |-> ~awActive,
     arready |-> Admits,
     b |-> FrontOf(bresp),
     r |-> FrontOf(rresp)]

\* mem_drive and the combinational evaluation, then the two handshakes.
Drive ==
    /\ phase = "drive"
    /\ io' = Driven
    /\ bFire' = (io'.b # Nothing /\ bready)
    /\ rFire' = (io'.r # Nothing /\ rready)
    /\ phase' = "aw"
    /\ UNCHANGED <<program, device, latch, wbeats, bresp, rresp, mem>>

\* Bug: the beat counter of the previous burst is kept.
OldBeat == awBeat

FirstBeat == 0

CaptureAw ==
    /\ phase = "aw"
    /\ IF awvalid /\ io.awready
       THEN /\ awActive' = TRUE
            /\ awId' = awk
            /\ awBeat' = FirstBeat
            /\ status' = FALSE
       ELSE UNCHANGED latch
    /\ phase' = "w"
    /\ UNCHANGED <<program, device, io, wbeats, bresp, rresp, bFire, rFire, mem>>

\* Bug: a buffered beat does not carry its last flag.
OfferedUnmarked == [data |-> <<wk, wj>>, strb |-> writes[wk].strobes[wj], last |-> FALSE]

\* The write beat that the device offers.
Offered ==
    [data |-> <<wk, wj>>,
     strb |-> writes[wk].strobes[wj],
     last |-> wj = Beats(wk)]

CaptureW ==
    /\ phase = "w"
    /\ wbeats' = IF wvalid THEN Append(wbeats, Offered) ELSE wbeats
    /\ phase' = "beat"
    /\ UNCHANGED <<program, device, io, latch, bresp, rresp, bFire, rFire, mem>>

\* Memory after the callbacks of one beat; those for the lanes in `bad` fail.
Written(w, addr, bad) ==
    [mem EXCEPT ![addr] =
        [l \in Lanes |-> IF l \in w.strb \ bad THEN w.data ELSE @[l]]]

\* Bug: a later success turns SLVERR into OKAY.
LastStatus(bad) == bad # {}

Sticky(bad) == status \/ bad # {}

\* At most one buffered beat is written in a tick.
WriteBeat ==
    /\ phase = "beat"
    /\ IF awActive /\ wbeats # <<>>
       THEN LET w == Head(wbeats)
            IN  \E bad \in SUBSET w.strb :
                /\ mem' = Written(w, writes[awId].addr + awBeat, bad)
                /\ status' = Sticky(bad)
                /\ wbeats' = Tail(wbeats)
                /\ awBeat' = awBeat + 1
                /\ IF w.last
                   THEN /\ bresp' = Append(bresp, [id |-> awId, ok |-> ~status'])
                        /\ awActive' = FALSE
                   ELSE UNCHANGED <<bresp, awActive>>
                /\ UNCHANGED awId
       ELSE UNCHANGED <<latch, wbeats, bresp, mem>>
    /\ phase' = "ar"
    /\ UNCHANGED <<program, device, io, rresp, bFire, rFire>>

\* The beats of read k; the callbacks of those in `bad` fail.
ReadBeats(k, bad) ==
    [j \in 1 .. reads[k].len |->
        [id |-> k,
         data |-> IF j \in bad THEN Lost ELSE mem[reads[k].addr + j - 1],
         ok |-> j \notin bad,
         last |-> j = reads[k].len]]

CaptureAr ==
    /\ phase = "ar"
    /\ IF arvalid /\ io.arready
       THEN \E bad \in SUBSET (1 .. reads[ark].len) :
                rresp' = rresp \o ReadBeats(ark, bad)
       ELSE UNCHANGED rresp
    /\ phase' = "edge"
    /\ UNCHANGED <<program, device, io, latch, wbeats, bresp, bFire, rFire, mem>>

\* Bug: the handshakes are looked at after the edge.
TakenLate == [b |-> io.b # Nothing /\ bready, r |-> io.r # Nothing /\ rready]

Fired == [b |-> bFire, r |-> rFire]

\* The deques lose what the device took at the edge that has just passed.
Pop ==
    /\ phase = "pop"
    /\ bresp' = IF Fired.b /\ bresp # <<>> THEN Tail(bresp) ELSE bresp
    /\ rresp' = IF Fired.r /\ rresp # <<>> THEN Tail(rresp) ELSE rresp
    /\ bFire' = FALSE /\ rFire' = FALSE      \* locals of tick_with
    /\ phase' = "drive"
    /\ UNCHANGED <<program, device, io, latch, wbeats, mem>>

\* Bug: only the queues count, not an address that waits for its data.
QueuesBusy ==
    \/ wbeats # <<>> \/ bresp # <<>> \/ rresp # <<>>
    \/ arvalid \/ awvalid \/ wvalid

\* axi_busy, which the settle loop and the interrupt pump ask after a tick.
AxiBusy ==
    \/ awActive \/ wbeats # <<>> \/ bresp # <<>> \/ rresp # <<>>
    \/ arvalid \/ awvalid \/ wvalid

-----------------------------------------------------------------------------
(* The device at a clock edge. *)

\* A channel's valid after an edge: it stays up while refused, and is up only if
\* there is something to offer.
Offer(valid, accepted, left, next) ==
    /\ next \in BOOLEAN
    /\ valid /\ ~accepted => next
    /\ next => left

Edge ==
    /\ phase = "edge"
    /\ LET aw == awvalid /\ io.awready
           ar == arvalid /\ io.arready
           lastBeat == wvalid /\ wj = Beats(wk)
       IN  /\ awk' = IF aw THEN awk + 1 ELSE awk
           /\ Offer(awvalid, aw, awk' \in DOMAIN writes, awvalid')
           /\ wk' = IF lastBeat THEN wk + 1 ELSE wk
           /\ wj' = CASE lastBeat -> 1
                      [] wvalid /\ ~lastBeat -> wj + 1
                      [] OTHER -> wj
           /\ Offer(wvalid, wvalid, wk' \in DOMAIN writes, wvalid')
           /\ ark' = IF ar THEN ark + 1 ELSE ark
           /\ Offer(arvalid, ar, ark' \in DOMAIN reads, arvalid')
    /\ answers' = IF io.b # Nothing /\ bready THEN Append(answers, io.b) ELSE answers
    /\ seen' = IF io.r # Nothing /\ rready THEN Append(seen, io.r) ELSE seen
    /\ bready' \in BOOLEAN
    /\ rready' \in BOOLEAN
    /\ phase' = "pop"
    /\ UNCHANGED <<program, io, latch, wbeats, bresp, rresp, bFire, rFire, mem>>

-----------------------------------------------------------------------------
Init ==
    /\ writes \in WritePrograms /\ reads \in ReadPrograms
    /\ awk = 1 /\ awvalid = FALSE
    /\ wk = 1 /\ wj = 1 /\ wvalid = FALSE
    /\ ark = 1 /\ arvalid = FALSE
    /\ bready = FALSE /\ rready = FALSE
    /\ answers = <<>> /\ seen = <<>>
    /\ phase = "drive"
    /\ io = [awready |-> FALSE, arready |-> FALSE, b |-> Nothing, r |-> Nothing]
    /\ awActive = FALSE /\ awId = 0 /\ awBeat = 0 /\ status = FALSE
    /\ wbeats = <<>> /\ bresp = <<>> /\ rresp = <<>>
    /\ bFire = FALSE /\ rFire = FALSE
    /\ mem = [a \in Addrs |-> [l \in Lanes |-> Initial]]

Next ==
    \/ Drive \/ CaptureAw \/ CaptureW \/ WriteBeat \/ CaptureAr \/ Edge \/ Pop

\* The bridge ticks for ever, and the device is, again and again, ready for
\* both answers while it offers all it has left.
EagerEdge ==
    /\ Edge
    /\ bready' /\ rready'
    /\ awk' \in DOMAIN writes => awvalid'
    /\ wk' \in DOMAIN writes => wvalid'
    /\ ark' \in DOMAIN reads => arvalid'

Spec == Init /\ [][Next]_vars
LiveSpec == Spec /\ WF_vars(Next) /\ SF_vars(EagerEdge)
-----------------------------------------------------------------------------
(* Properties. *)

Beat == [data : Nat \X Nat, strb : SUBSET Lanes, last : BOOLEAN]
WriteResp == [id : Nat, ok : BOOLEAN]
Contents == [Lanes -> Nat \X Nat]
ReadResp == [id : Nat, data : Contents \union {Lost}, ok : BOOLEAN, last : BOOLEAN]

\* The deques hold what their types in the source say, the device's positions
\* are positions in its programs, the beat counter stays within the latched burst,
\* and tick_with is at one of its places.
TypeOK ==
    /\ writes \in WritePrograms /\ reads \in ReadPrograms
    /\ awk \in 1 .. Len(writes) + 1 /\ wk \in 1 .. Len(writes) + 1 /\ wj \in Nat
    /\ ark \in 1 .. Len(reads) + 1
    /\ awvalid \in BOOLEAN /\ (awvalid => awk \in DOMAIN writes)
    /\ wvalid \in BOOLEAN /\ (wk \in DOMAIN writes => wj \in 1 .. Beats(wk))
    /\ (wvalid => wk \in DOMAIN writes)
    /\ arvalid \in BOOLEAN /\ (arvalid => ark \in DOMAIN reads)
    /\ bready \in BOOLEAN /\ rready \in BOOLEAN
    /\ answers \in Seq(WriteResp) /\ seen \in Seq(ReadResp)
    /\ phase \in {"drive", "aw", "w", "beat", "ar", "edge", "pop"}
    /\ io \in [awready : BOOLEAN, arready : BOOLEAN,
               b : WriteResp \union {Nothing}, r : ReadResp \union {Nothing}]
    /\ awActive \in BOOLEAN /\ awId \in 0 .. Len(writes)
    /\ awBeat \in IF awId = 0 THEN {0} ELSE 0 .. Beats(awId)
    /\ status \in BOOLEAN
    /\ wbeats \in Seq(Beat) /\ bresp \in Seq(WriteResp) /\ rresp \in Seq(ReadResp)
    /\ bFire \in BOOLEAN /\ rFire \in BOOLEAN
    /\ mem \in [Addrs -> Contents]

\* Admission stops at RespLimit beats, so the read queue never holds more than
\* one burst beyond that ("bound admission by pending beats": arready was
\* decided before the tick's pushes and pops).
RespQueueBounded == Len(rresp) <= RespLimit + MaxLen - 1

\* Between ticks, while any address or data the device handed over is not yet
\* answered in full, axi_busy is true: a settle or a pump that stops for quiet
\* never leaves a memory access half served.
HandedOver ==
    \/ Len(answers) < awk - 1
    \/ Len(answers) < wk - 1 \/ (wk \in DOMAIN writes /\ wj > 1)
    \/ /\ ark > 1
       /\ ~ \E i \in DOMAIN seen : seen[i].id = ark - 1 /\ seen[i].last
OwedMeansBusy == phase = "drive" /\ HandedOver => AxiBusy

\* A response that the device has not taken is offered again unchanged ("Preserve
\* the queued head under R backpressure"), and one it took is not offered twice.
TookLast(h, x) == h # <<>> /\ h[Len(h)] = x
HeadHeld ==
    [][/\ io.b # Nothing /\ io'.b # io.b => TookLast(answers, io.b)
       /\ io.r # Nothing /\ io'.r # io.r => TookLast(seen, io.r)]_io

\* The bridge is a memory: every beat lands where its burst says, each write is
\* answered once with the right status, and the device sees each read beat once
\* and in order.  A beat popped or kept at the wrong side of the edge, write data
\* paired with another burst's address or a status that does not stick break it.
Landed ==
    [k \in DOMAIN writes |->
        CASE k < awId -> Beats(k)
          [] k = awId -> awBeat
          [] OTHER -> 0]
BadAnswer(q) == {x \in {q[i] : i \in DOMAIN q} : ~x.ok}
Failed == {x.id : x \in BadAnswer(answers) \union BadAnswer(bresp)}
              \union (IF status THEN {awId} ELSE {})
Owed == IF phase = "pop" /\ rFire THEN Tail(rresp) ELSE rresp
Taken == IF phase = "edge" /\ arvalid /\ io.arready THEN ark ELSE ark - 1

Axi == INSTANCE AxiMemory WITH
    landed <- Landed, failed <- Failed, owed <- Owed, taken <- Taken
IsMemory == Axi!Spec

\* With a device that keeps offering and keeps getting ready, every write is
\* answered and every read is seen to its last beat.
AllServed ==
    <>(/\ Len(answers) = Len(writes)
       /\ \A k \in DOMAIN reads : \E i \in DOMAIN seen : seen[i].id = k /\ seen[i].last)
=============================================================================
