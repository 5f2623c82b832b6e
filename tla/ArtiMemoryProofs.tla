--------------------------- MODULE ArtiMemoryProofs ---------------------------
(***************************************************************************)
(* The bridge of ArtiMemory implements the memory of AxiMemory, for every  *)
(* device program, burst length and admission limit; its state stays in    *)
(* its types, its busy flag covers every access it owes, a response that   *)
(* was refused is offered again, and its queue of read beats is bounded.   *)
(*                                                                         *)
(* One invariant carries all five.  It relates the queues to the positions *)
(* of both sides: the buffered write beats are exactly the beats between   *)
(* the next one to land and the next one to capture, the answers seen and  *)
(* queued are numbered 1, 2, ... up to the last finished write, the last   *)
(* beat of the last read taken is seen or queued, and the inputs that the  *)
(* bridge drives are the fronts of its queues until the edge.              *)
(***************************************************************************)
EXTENDS ArtiMemory, SequenceTheorems, TLAPS

Ticking == {"aw", "w", "beat", "ar", "edge"}    \* from the drive to the edge

\* The answers given to the device or queued for it, each once: the one that the
\* device took at the last edge is in both places until Pop.
Given == answers \o (IF phase = "pop" /\ bFire THEN Tail(bresp) ELSE bresp)

\* The read beats seen or owed.
Stream == seen \o Owed

\* The write of the latched address is the last one whose address was accepted.
AddressTaken == phase \in {"w", "beat", "ar", "edge"} /\ awvalid /\ io.awready
LatchInv ==
    /\ awId = IF AddressTaken THEN awk ELSE awk - 1
    /\ phase = "aw" /\ io.awready => ~awActive
    /\ awActive => awId >= 1 /\ awBeat < Beats(awId)
    /\ ~awActive /\ awId >= 1 => awBeat = Beats(awId)

\* The position after write beat <<k, j>>.
Follows(p) == IF p[2] = Beats(p[1]) THEN <<p[1] + 1, 1>> ELSE <<p[1], p[2] + 1>>

LandPos == IF awActive THEN <<awId, awBeat + 1>> ELSE <<awId + 1, 1>>
DataTaken == phase \in {"beat", "ar", "edge"} /\ wvalid
CapturePos == IF DataTaken THEN Follows(<<wk, wj>>) ELSE <<wk, wj>>

IsBeat(w) ==
    /\ w.data \in (DOMAIN writes) \X (Nat \ {0})
    /\ w.data[2] <= Beats(w.data[1])
    /\ w.strb = writes[w.data[1]].strobes[w.data[2]]
    /\ w.last <=> w.data[2] = Beats(w.data[1])

\* The buffered beats are those from LandPos up to CapturePos, in order.
BeatsInv ==
    /\ \A i \in 1 .. Len(wbeats) : IsBeat(wbeats[i])
    /\ \A i \in 1 .. Len(wbeats) - 1 : wbeats[i + 1].data = Follows(wbeats[i].data)
    /\ IF wbeats = <<>>
       THEN LandPos = CapturePos
       ELSE wbeats[1].data = LandPos /\ Follows(wbeats[Len(wbeats)].data) = CapturePos

\* Every finished write has its answer, with its number and its status.
AnswersInv ==
    /\ Len(Given) = IF awActive THEN awId - 1 ELSE awId
    /\ \A i \in 1 .. Len(Given) : Given[i].id = i
    /\ ~awActive /\ awId >= 1 => Given[awId].ok = ~status
    /\ awId = 0 => ~status

\* The last read taken still has its last beat in the queue, or it was seen.
ReadsInv ==
    Taken >= 1 => /\ Stream # <<>>
                  /\ Stream[Len(Stream)].id = Taken
                  /\ Stream[Len(Stream)].last

\* What one response channel offers is the front of its queue until the edge; after
\* it, it is the front or what the device took.
ChannelInv(offer, fire, ready, queue, told) ==
    LET held == queue # <<>> /\ Head(queue) = offer
    IN  /\ phase \in Ticking =>
               /\ fire <=> offer # Nothing /\ ready
               /\ offer # Nothing => held
        /\ phase = "pop" =>
               IF fire THEN held /\ TookLast(told, offer)
                       ELSE offer # Nothing => held
        /\ phase = "drive" => ~fire /\ (offer # Nothing => held \/ TookLast(told, offer))

HandshakeInv ==
    /\ ChannelInv(io.b, bFire, bready, bresp, answers)
    /\ ChannelInv(io.r, rFire, rready, rresp, seen)

BridgeInv ==
    TypeOK /\ LatchInv /\ BeatsInv /\ AnswersInv /\ ReadsInv /\ HandshakeInv

-----------------------------------------------------------------------------
(* The programs and the sequences. *)

LEMMA WriteProgram ==
    ASSUME writes \in WritePrograms
    PROVE  /\ Len(writes) \in Nat /\ DOMAIN writes = 1 .. Len(writes)
           /\ \A k \in DOMAIN writes :
                  /\ writes[k].addr \in Nat
                  /\ Beats(k) \in Nat \ {0}
                  /\ \A j \in 1 .. Beats(k) :
                        /\ writes[k].strobes[j] \in SUBSET Lanes
                        /\ writes[k].addr + j - 1 \in Addrs
  <1>1. writes \in Seq(WriteBurst)
    BY ProgramsAssumption
  <1> SUFFICES ASSUME NEW k \in DOMAIN writes
               PROVE  /\ writes[k].addr \in Nat
                      /\ Beats(k) \in Nat \ {0}
                      /\ \A j \in 1 .. Beats(k) :
                            /\ writes[k].strobes[j] \in SUBSET Lanes
                            /\ writes[k].addr + j - 1 \in Addrs
    BY <1>1
  <1>2. writes[k] \in WriteBurst
    BY <1>1
  <1>3. writes[k].addr \in Nat /\ writes[k].strobes \in Seq(SUBSET Lanes)
    BY <1>2, AddrsAssumption DEF WriteBurst
  <1>4. writes[k].strobes # <<>>
    BY ProgramsAssumption
  <1>5. Beats(k) \in Nat \ {0} /\ DOMAIN writes[k].strobes = 1 .. Beats(k)
    BY <1>3, <1>4, EmptySeq DEF Beats
  <1>6. \A j \in 1 .. Beats(k) : writes[k].strobes[j] \in SUBSET Lanes
    BY <1>3, <1>5
  <1>7. \A j \in 1 .. Beats(k) : writes[k].addr + j - 1 \in Addrs
    BY <1>5, AddrsAssumption
  <1> QED BY <1>3, <1>5, <1>6, <1>7

LEMMA ReadProgram ==
    ASSUME reads \in ReadPrograms
    PROVE  /\ Len(reads) \in Nat /\ DOMAIN reads = 1 .. Len(reads)
           /\ \A k \in DOMAIN reads :
                  /\ reads[k].len \in Nat \ {0}
                  /\ \A j \in 1 .. reads[k].len : reads[k].addr + j - 1 \in Addrs
  <1>1. reads \in Seq(ReadBurst)
    BY ProgramsAssumption
  <1>2. ASSUME NEW k \in DOMAIN reads PROVE reads[k].len \in Nat \ {0}
    <2>1. reads[k] \in ReadBurst
      BY <1>1
    <2> QED BY <2>1, LimitsAssumption DEF ReadBurst
  <1>3. \A k \in DOMAIN reads : \A j \in 1 .. reads[k].len : reads[k].addr + j - 1 \in Addrs
    BY AddrsAssumption
  <1> QED BY <1>1, <1>2, <1>3

\* A response is not the empty front of a queue.
LEMMA SomethingOffered ==
    /\ \A x \in WriteResp : x # Nothing
    /\ \A x \in ReadResp : x # Nothing
  <1>1. ASSUME NEW x \in WriteResp PROVE x # Nothing
    <2>1. "id" \in DOMAIN x
      BY DEF WriteResp
    <2> QED BY <2>1 DEF Nothing
  <1>2. ASSUME NEW x \in ReadResp PROVE x # Nothing
    <2>1. "id" \in DOMAIN x
      BY DEF ReadResp
    <2> QED BY <2>1 DEF Nothing
  <1> QED BY <1>1, <1>2

\* Moving the head of a queue to the end of what was told changes neither.
LEMMA MoveHead ==
    ASSUME NEW S, NEW t \in Seq(S), NEW q \in Seq(S), q # <<>>
    PROVE  Append(t, Head(q)) \o Tail(q) = t \o q
  <1>1. Head(q) \in S /\ Tail(q) \in Seq(S) /\ <<Head(q)>> \in Seq(S)
    BY HeadTailProperties
  <1>2. Append(t, Head(q)) = t \o <<Head(q)>>
    BY <1>1, AppendIsConcat
  <1>3. <<Head(q)>> \o Tail(q) = q
    BY <1>1
  <1> QED BY <1>1, <1>2, <1>3, ConcatAssociative

LEMMA AppendAfter ==
    ASSUME NEW S, NEW t \in Seq(S), NEW q \in Seq(S), NEW x \in S
    PROVE  t \o Append(q, x) = Append(t \o q, x)
  <1>1. <<x>> \in Seq(S) /\ Append(q, x) = q \o <<x>>
    BY AppendIsConcat
  <1>2. t \o q \in Seq(S)
    BY ConcatProperties
  <1>3. Append(t \o q, x) = (t \o q) \o <<x>>
    BY <1>2, AppendIsConcat
  <1> QED BY <1>1, <1>3, ConcatAssociative

-----------------------------------------------------------------------------
(* Every step preserves the invariant. *)

LEMMA BridgeInit == Init => BridgeInv
  <1> SUFFICES ASSUME Init PROVE BridgeInv
    OBVIOUS
  <1> USE DEF Init
  <1>1. Len(<<>>) = 0 /\ \A S : <<>> \in Seq(S)
    BY EmptySeq
  <1>2. TypeOK
    <2>1. [l \in Lanes |-> Initial] \in Contents
      BY DEF Contents, Initial
    <2>2. mem \in [Addrs -> Contents]
      BY <2>1
    <2>3. /\ 1 \in DOMAIN writes => wj \in 1 .. Beats(1)
          /\ Len(writes) \in Nat /\ Len(reads) \in Nat
      BY WriteProgram, ReadProgram
    <2>4. io \in [awready : BOOLEAN, arready : BOOLEAN,
                  b : WriteResp \union {Nothing}, r : ReadResp \union {Nothing}]
      OBVIOUS
    <2>5. /\ answers \in Seq(WriteResp) /\ seen \in Seq(ReadResp)
          /\ wbeats \in Seq(Beat) /\ bresp \in Seq(WriteResp) /\ rresp \in Seq(ReadResp)
      BY <1>1
    <2>6. /\ awk \in 1 .. Len(writes) + 1 /\ wk \in 1 .. Len(writes) + 1
          /\ ark \in 1 .. Len(reads) + 1 /\ awId \in 0 .. Len(writes)
          /\ wk \in DOMAIN writes => wj \in 1 .. Beats(wk)
      BY <2>3
    <2> QED BY <2>2, <2>4, <2>5, <2>6 DEF TypeOK
  <1>3. LatchInv
    BY DEF LatchInv, AddressTaken
  <1>4. BeatsInv
    BY <1>1 DEF BeatsInv, LandPos, CapturePos, DataTaken
  <1>5. Given = <<>> /\ Stream = <<>> /\ Taken = 0
    <2>1. <<>> \o <<>> = <<>>
      BY <1>1, ConcatEmptySeq
    <2> QED BY <2>1 DEF Given, Stream, Owed, Taken
  <1>6. AnswersInv /\ ReadsInv
    BY <1>1, <1>5 DEF AnswersInv, ReadsInv
  <1>7. HandshakeInv
    BY DEF HandshakeInv, ChannelInv, Ticking
  <1> QED BY <1>2, <1>3, <1>4, <1>6, <1>7 DEF BridgeInv

LEMMA DriveStep == BridgeInv /\ Drive => BridgeInv'
  <1> SUFFICES ASSUME BridgeInv, Drive PROVE BridgeInv'
    OBVIOUS
  <1>1. /\ phase = "drive" /\ phase' = "aw" /\ io' = Driven
        /\ bFire' = (io'.b # Nothing /\ bready) /\ rFire' = (io'.r # Nothing /\ rready)
        /\ UNCHANGED <<program, device, latch, wbeats, bresp, rresp, mem>>
    BY DEF Drive
  <1> USE <1>1 DEF BridgeInv, program, device, latch
  <1>2. FrontOf(bresp) \in WriteResp \union {Nothing} /\ FrontOf(rresp) \in ReadResp \union {Nothing}
    BY HeadTailProperties DEF TypeOK, FrontOf
  <1>3. TypeOK'
    <2>1. io' \in [awready : BOOLEAN, arready : BOOLEAN,
                   b : WriteResp \union {Nothing}, r : ReadResp \union {Nothing}]
      BY <1>2 DEF Driven, Admits, TypeOK
    <2>2. bFire' \in BOOLEAN /\ rFire' \in BOOLEAN
      OBVIOUS
    <2> QED BY <2>1, <2>2 DEF TypeOK, Beats
  <1>4. LatchInv'
    BY DEF LatchInv, AddressTaken, Driven, Beats, TypeOK
  <1>5. BeatsInv'
    BY DEF BeatsInv, LandPos, CapturePos, DataTaken, Follows, IsBeat, Beats
  <1>6. Given' = Given /\ Stream' = Stream /\ Taken' = Taken
    BY DEF Given, Stream, Owed, Taken, HandshakeInv, ChannelInv
  <1>7. AnswersInv' /\ ReadsInv'
    BY <1>6 DEF AnswersInv, ReadsInv
  <1>8. HandshakeInv'
    BY DEF HandshakeInv, ChannelInv, Ticking, Driven, FrontOf
  <1> QED BY <1>3, <1>4, <1>5, <1>7, <1>8

LEMMA CaptureAwStep == BridgeInv /\ CaptureAw => BridgeInv'
  <1> SUFFICES ASSUME BridgeInv, CaptureAw PROVE BridgeInv'
    OBVIOUS
  <1>1. /\ phase = "aw" /\ phase' = "w"
        /\ IF awvalid /\ io.awready
           THEN awActive' = TRUE /\ awId' = awk /\ awBeat' = 0 /\ status' = FALSE
           ELSE UNCHANGED <<awActive, awId, awBeat, status>>
        /\ UNCHANGED <<program, device, io, wbeats, bresp, rresp, bFire, rFire, mem>>
    BY DEF CaptureAw, FirstBeat, latch
  <1> USE <1>1 DEF BridgeInv, program, device
  <1>2. /\ Len(writes) \in Nat /\ \A k \in DOMAIN writes : Beats(k) \in Nat \ {0}
        /\ DOMAIN writes = 1 .. Len(writes)
    BY WriteProgram DEF TypeOK
  <1>3. awvalid /\ io.awready => awk \in DOMAIN writes /\ awk = awId + 1 /\ ~awActive
    BY <1>2 DEF TypeOK, LatchInv, AddressTaken
  <1>4. TypeOK'
    <2>1. /\ awActive' \in BOOLEAN /\ awId' \in 0 .. Len(writes) /\ status' \in BOOLEAN
          /\ awBeat' \in IF awId' = 0 THEN {0} ELSE 0 .. Beats(awId')
      <3>1. CASE awvalid /\ io.awready
        <4>1. awk \in 1 .. Len(writes) /\ Beats(awk) \in Nat
          BY <1>2, <1>3, <3>1
        <4>2. awActive' = TRUE /\ awId' = awk /\ awBeat' = 0 /\ status' = FALSE
          BY <3>1
        <4>3. awId' # 0 /\ awId' \in 0 .. Len(writes)
          BY <1>2, <4>1, <4>2
        <4>4. awBeat' \in 0 .. Len(writes[awId'].strobes)
          BY <4>1, <4>2 DEF Beats
        <4> QED BY <4>2, <4>3, <4>4 DEF Beats
      <3>2. CASE ~(awvalid /\ io.awready)
        BY <3>2 DEF TypeOK
      <3> QED BY <3>1, <3>2
    <2> QED BY <2>1 DEF TypeOK, Beats
  <1>5. LatchInv'
    BY <1>2, <1>3 DEF LatchInv, AddressTaken, Beats, TypeOK
  <1>6. BeatsInv'
    <2>1. LandPos' = LandPos /\ CapturePos' = CapturePos
      BY <1>3 DEF LandPos, CapturePos, DataTaken
    <2> QED BY <2>1 DEF BeatsInv, Follows, IsBeat, Beats
  <1>7. Given' = Given /\ Stream' = Stream /\ Taken' = Taken
    BY DEF Given, Stream, Owed, Taken
  <1>8. AnswersInv'
    <2>1. CASE awvalid /\ io.awready
      <3>1. awActive' /\ awId' = awId + 1 /\ awId' \in 1 .. Len(writes) /\ status' = FALSE
        BY <1>2, <1>3, <2>1 DEF TypeOK
      <3>2. awId \in Nat /\ Len(Given) = awId
        BY <1>3, <2>1 DEF AnswersInv, TypeOK
      <3>3. \A i \in 1 .. Len(Given) : Given[i].id = i
        BY DEF AnswersInv
      <3> QED BY <1>7, <3>1, <3>2, <3>3 DEF AnswersInv
    <2>2. CASE ~(awvalid /\ io.awready)
      BY <1>7, <2>2 DEF AnswersInv
    <2> QED BY <2>1, <2>2
  <1>9. ReadsInv'
    BY <1>7 DEF ReadsInv
  <1>10. HandshakeInv'
    BY DEF HandshakeInv, ChannelInv, Ticking
  <1> QED BY <1>4, <1>5, <1>6, <1>8, <1>9, <1>10

LEMMA CaptureWStep == BridgeInv /\ CaptureW => BridgeInv'
  <1> SUFFICES ASSUME BridgeInv, CaptureW PROVE BridgeInv'
    OBVIOUS
  <1>1. /\ phase = "w" /\ phase' = "beat"
        /\ wbeats' = IF wvalid THEN Append(wbeats, Offered) ELSE wbeats
        /\ UNCHANGED <<program, device, io, latch, bresp, rresp, bFire, rFire, mem>>
    BY DEF CaptureW
  <1> USE <1>1 DEF BridgeInv, program, device, latch
  <1>2. /\ DOMAIN writes = 1 .. Len(writes) /\ Len(writes) \in Nat
        /\ \A k \in DOMAIN writes : \A j \in 1 .. Beats(k) : writes[k].strobes[j] \in SUBSET Lanes
    BY WriteProgram DEF TypeOK
  <1>3. ASSUME wvalid
        PROVE  /\ Offered \in Beat /\ IsBeat(Offered) /\ Offered.data = <<wk, wj>>
    <2>1. wk \in DOMAIN writes /\ wj \in 1 .. Beats(wk)
      BY <1>3 DEF TypeOK
    <2>2. Beats(wk) \in Nat
      BY <2>1, WriteProgram DEF TypeOK
    <2>3. /\ Offered.data = <<wk, wj>> /\ Offered.strb = writes[wk].strobes[wj]
          /\ Offered.last = (wj = Beats(wk))
      BY DEF Offered
    <2>4. Offered \in Beat
      <3>1. <<wk, wj>> \in Nat \X Nat /\ writes[wk].strobes[wj] \in SUBSET Lanes
        BY <1>2, <2>1, <2>2
      <3> QED BY <3>1 DEF Offered, Beat
    <2>5. IsBeat(Offered)
      <3>1. wj \in Nat \ {0} /\ wj <= Beats(wk) /\ wk \in DOMAIN writes
        BY <2>1, <2>2
      <3>2. Offered.data \in (DOMAIN writes) \X (Nat \ {0})
        BY <2>3, <3>1
      <3>3. Offered.data[1] = wk /\ Offered.data[2] = wj
        BY <2>3
      <3>4. Offered.last <=> wj = Beats(wk)
        BY DEF Offered
      <3> QED BY <2>3, <3>1, <3>2, <3>3, <3>4 DEF IsBeat, Beats
    <2> QED BY <2>3, <2>4, <2>5
  <1>4. TypeOK'
    <2>1. wbeats' \in Seq(Beat)
      BY <1>3, AppendProperties DEF TypeOK
    <2> QED BY <2>1 DEF TypeOK, Beats
  <1>5. LatchInv'
    BY DEF LatchInv, AddressTaken, Beats
  <1>6. LandPos' = LandPos
    BY DEF LandPos
  <1>7. BeatsInv'
    <2>1. CASE wvalid
      <3>1. /\ CapturePos = <<wk, wj>> /\ CapturePos' = Follows(<<wk, wj>>)
        BY <2>1 DEF CapturePos, DataTaken, Follows, Beats
      <3>2. /\ wbeats' # <<>> /\ Len(wbeats') = Len(wbeats) + 1 /\ Len(wbeats) \in Nat
            /\ \A i \in 1 .. Len(wbeats) : wbeats'[i] = wbeats[i]
            /\ wbeats'[Len(wbeats) + 1] = Offered
        <4>1. Offered \in Beat /\ wbeats \in Seq(Beat) /\ wbeats' = Append(wbeats, Offered)
          BY <1>3, <2>1 DEF TypeOK
        <4> HIDE <1>1
        <4> QED BY <4>1, AppendProperties
      <3>3. wbeats = <<>> => Len(wbeats) = 0
        BY EmptySeq
      <3>4. wbeats # <<>> => Len(wbeats) >= 1
        BY EmptySeq DEF TypeOK
      <3>5. wbeats # <<>> => Follows(wbeats[Len(wbeats)].data) = <<wk, wj>>
        BY <3>1 DEF BeatsInv
      <3>6. \A i \in 1 .. Len(wbeats') : IsBeat(wbeats'[i])
        <4> SUFFICES ASSUME NEW i \in 1 .. Len(wbeats') PROVE IsBeat(wbeats'[i])
          OBVIOUS
        <4>1. CASE i \in 1 .. Len(wbeats)
          <5>1. wbeats'[i] = wbeats[i] /\ IsBeat(wbeats[i])
            BY <3>2, <4>1 DEF BeatsInv
          <5> QED BY <5>1 DEF IsBeat
        <4>2. CASE i = Len(wbeats) + 1
          <5>1. wbeats'[i] = Offered
            BY <3>2, <4>2
          <5> QED BY <1>3, <2>1, <5>1 DEF IsBeat
        <4> QED BY <3>2, <4>1, <4>2
      <3>7. ASSUME NEW i \in 1 .. Len(wbeats') - 1
            PROVE  wbeats'[i + 1].data = Follows(wbeats'[i].data)
        <4>1. CASE i \in 1 .. Len(wbeats) - 1
          <5>1. wbeats'[i] = wbeats[i] /\ wbeats'[i + 1] = wbeats[i + 1]
            BY <3>2, <4>1
          <5>2. wbeats[i + 1].data = Follows(wbeats[i].data)
            BY <4>1 DEF BeatsInv
          <5> QED BY <5>1, <5>2 DEF Follows
        <4>2. CASE i = Len(wbeats)
          <5>1. wbeats'[i] = wbeats[i] /\ wbeats'[i + 1] = Offered /\ wbeats # <<>>
            BY <3>2, <3>3, <4>2
          <5>2. <<wk, wj>> = Follows(wbeats[i].data)
            BY <3>5, <4>2, <5>1
          <5> QED BY <1>3, <2>1, <5>1, <5>2 DEF Follows
        <4> QED BY <3>2, <4>1, <4>2
      <3>8. Follows(wbeats'[Len(wbeats')].data) = CapturePos'
        BY <1>3, <2>1, <3>1, <3>2 DEF Follows
      <3>9. wbeats'[1].data = LandPos'
        <4>1. CASE wbeats = <<>>
          <5>1. wbeats'[1] = Offered /\ LandPos = <<wk, wj>>
            BY <3>1, <3>2, <3>3, <4>1 DEF BeatsInv
          <5> QED BY <1>3, <1>6, <2>1, <5>1
        <4>2. CASE wbeats # <<>>
          BY <1>6, <3>2, <3>4, <4>2 DEF BeatsInv
        <4> QED BY <4>1, <4>2
      <3> HIDE <1>1
      <3>10. writes' = writes
        BY <1>1
      <3> QED BY <3>2, <3>6, <3>7, <3>8, <3>9, <3>10 DEF BeatsInv, IsBeat, Follows, Beats
    <2>2. CASE ~wvalid
      <3>1. CapturePos' = CapturePos /\ wbeats' = wbeats
        BY <2>2 DEF CapturePos, DataTaken
      <3> QED BY <1>6, <3>1 DEF BeatsInv, Follows, IsBeat, Beats
    <2> QED BY <2>1, <2>2 DEF TypeOK
  <1>8. Given' = Given /\ Stream' = Stream /\ Taken' = Taken
    BY DEF Given, Stream, Owed, Taken
  <1>9. AnswersInv' /\ ReadsInv'
    BY <1>8 DEF AnswersInv, ReadsInv
  <1>10. HandshakeInv'
    BY DEF HandshakeInv, ChannelInv, Ticking
  <1> QED BY <1>4, <1>5, <1>7, <1>9, <1>10

\* What one landing beat is, and what it does to the latch.
LandsBeat(w, bad) ==
    /\ awActive /\ wbeats # <<>> /\ w = Head(wbeats) /\ bad \in SUBSET w.strb
    /\ mem' = Written(w, writes[awId].addr + awBeat, bad)
    /\ status' = (status \/ bad # {})
    /\ wbeats' = Tail(wbeats)
    /\ awBeat' = awBeat + 1 /\ awId' = awId
    /\ IF w.last
       THEN bresp' = Append(bresp, [id |-> awId, ok |-> ~status']) /\ awActive' = FALSE
       ELSE bresp' = bresp /\ awActive' = awActive

LEMMA LandingBeat ==
    ASSUME BridgeInv, NEW w, NEW bad, LandsBeat(w, bad)
    PROVE  /\ w \in Beat /\ w = wbeats[1] /\ w.data = <<awId, awBeat + 1>>
           /\ awId \in DOMAIN writes /\ awId \in Nat \ {0}
           /\ awBeat \in Nat /\ awBeat + 1 \in 1 .. Beats(awId) /\ Beats(awId) \in Nat
           /\ w.strb = writes[awId].strobes[awBeat + 1]
           /\ w.last <=> awBeat + 1 = Beats(awId)
           /\ writes[awId].addr + awBeat \in Addrs
           /\ writes[awId].addr \in Nat
  <1> USE DEF BridgeInv, LandsBeat
  <1>1. wbeats \in Seq(Beat) /\ awId \in 0 .. Len(writes) /\ writes \in WritePrograms
    BY DEF TypeOK
  <1>2. awId \in DOMAIN writes /\ awId \in Nat \ {0}
    BY <1>1, WriteProgram DEF LatchInv
  <1>3. /\ Beats(awId) \in Nat \ {0}
        /\ \A j \in 1 .. Beats(awId) : writes[awId].addr + j - 1 \in Addrs
        /\ writes[awId].addr \in Nat
    BY <1>1, <1>2, WriteProgram
  <1>4. awBeat \in Nat /\ awBeat + 1 \in 1 .. Beats(awId)
    <2>1. awBeat \in IF awId = 0 THEN {0} ELSE 0 .. Beats(awId)
      BY DEF TypeOK
    <2>2. awBeat < Beats(awId)
      BY DEF LatchInv
    <2> QED BY <1>2, <1>3, <2>1, <2>2
  <1>5. Len(wbeats) \in Nat \ {0} /\ w = wbeats[1] /\ w \in Beat
    BY <1>1, EmptySeq, HeadTailProperties
  <1>6. IsBeat(w) /\ w.data = LandPos
    BY <1>5 DEF BeatsInv
  <1>7. w.data = <<awId, awBeat + 1>>
    BY <1>6 DEF LandPos
  <1>8. w.strb = writes[awId].strobes[awBeat + 1] /\ (w.last <=> awBeat + 1 = Beats(awId))
    BY <1>6, <1>7 DEF IsBeat, Beats
  <1>9. writes[awId].addr + awBeat \in Addrs
    <2>1. writes[awId].addr + (awBeat + 1) - 1 \in Addrs
      BY <1>3, <1>4
    <2> QED BY <1>3, <1>4, <2>1
  <1> QED BY <1>2, <1>3, <1>4, <1>5, <1>7, <1>8, <1>9

LEMMA WriteBeatStep == BridgeInv /\ WriteBeat => BridgeInv'
  <1> SUFFICES ASSUME BridgeInv, WriteBeat PROVE BridgeInv'
    OBVIOUS
  <1>1. /\ phase = "beat" /\ phase' = "ar"
        /\ UNCHANGED <<program, device, io, rresp, bFire, rFire>>
    BY DEF WriteBeat
  <1>2. /\ Given = answers \o bresp /\ Given' = answers \o bresp'
        /\ Stream' = Stream /\ Taken' = Taken
    BY <1>1 DEF Given, Stream, Owed, Taken, device, program
  <1>3. ReadsInv'
    BY <1>2 DEF ReadsInv, BridgeInv
  <1>4. AddressTaken' = AddressTaken /\ CapturePos' = CapturePos
    BY <1>1 DEF AddressTaken, CapturePos, DataTaken, Follows, Beats, device, program
  <1>5. CASE UNCHANGED <<latch, wbeats, bresp, mem>>
    <2> USE <1>1, <1>5 DEF BridgeInv, device, program, latch
    <2>1. TypeOK'
      BY DEF TypeOK, Beats
    <2>2. LatchInv' /\ AnswersInv'
      BY <1>2, <1>4 DEF LatchInv, AnswersInv, Beats
    <2>3. BeatsInv'
      BY <1>4 DEF BeatsInv, LandPos, Follows, IsBeat, Beats
    <2>4. HandshakeInv'
      BY DEF HandshakeInv, ChannelInv, Ticking
    <2> QED BY <1>3, <2>1, <2>2, <2>3, <2>4
  <1>6. ASSUME NEW w, NEW bad, LandsBeat(w, bad) PROVE BridgeInv'
    <2>1. /\ w \in Beat /\ w = wbeats[1] /\ w.data = <<awId, awBeat + 1>>
          /\ awId \in DOMAIN writes /\ awId \in Nat \ {0}
          /\ awBeat \in Nat /\ awBeat + 1 \in 1 .. Beats(awId) /\ Beats(awId) \in Nat
          /\ w.last <=> awBeat + 1 = Beats(awId)
      BY <1>6, LandingBeat
    <2>2. /\ answers \in Seq(WriteResp) /\ bresp \in Seq(WriteResp) /\ wbeats \in Seq(Beat)
          /\ status \in BOOLEAN /\ awActive /\ wbeats # <<>>
      BY <1>6 DEF BridgeInv, TypeOK, LandsBeat
    <2>3. status' \in BOOLEAN /\ [id |-> awId, ok |-> ~status'] \in WriteResp
      BY <1>6, <2>1, <2>2 DEF LandsBeat, WriteResp
    <2> DEFINE x == [id |-> awId, ok |-> ~status']
    <2>4. /\ wbeats' \in Seq(Beat) /\ Len(wbeats') = Len(wbeats) - 1 /\ Len(wbeats) \in Nat \ {0}
          /\ \A i \in 1 .. Len(wbeats') : wbeats'[i] = wbeats[i + 1]
      <3>1. wbeats' = Tail(wbeats)
        BY <1>6 DEF LandsBeat
      <3> QED BY <2>2, <3>1, EmptySeq, HeadTailProperties
    <2>5. /\ bresp' \in Seq(WriteResp)
          /\ bresp # <<>> => bresp' # <<>> /\ Head(bresp') = Head(bresp)
      <3>1. CASE w.last
        <4>1. bresp' = Append(bresp, x) /\ x \in WriteResp
          BY <1>6, <2>3, <3>1 DEF LandsBeat
        <4> HIDE DEF x
        <4> QED BY <2>2, <4>1, AppendProperties, HeadTailAppend
      <3>2. CASE ~w.last
        BY <1>6, <2>2, <3>2 DEF LandsBeat
      <3> QED BY <3>1, <3>2
    <2>6. /\ awId' = awId /\ awBeat' = awBeat + 1 /\ writes' = writes
          /\ awActive' \in BOOLEAN /\ (awActive' <=> awBeat + 1 # Beats(awId))
      <3>1. CASE w.last
        BY <1>1, <1>6, <2>1, <3>1 DEF LandsBeat, program
      <3>2. CASE ~w.last
        BY <1>1, <1>6, <2>1, <2>2, <3>2 DEF LandsBeat, program, BridgeInv, TypeOK
      <3> QED BY <3>1, <3>2
    <2>7. Beats(awId)' = Beats(awId)
      BY <2>6 DEF Beats
    <2>8. TypeOK'
      <3>1. mem' \in [Addrs -> Contents]
        <4>1. mem \in [Addrs -> Contents] /\ w.data \in Nat \X Nat
          BY <2>1 DEF BridgeInv, TypeOK
        <4>2. mem' = Written(w, writes[awId].addr + awBeat, bad)
          BY <1>6 DEF LandsBeat
        <4>3. \A a \in Addrs : mem[a] \in [Lanes -> Nat \X Nat]
          BY <4>1 DEF Contents
        <4>4. \A a \in Addrs :
                 [l \in Lanes |-> IF l \in w.strb \ bad THEN w.data ELSE mem[a][l]] \in Contents
          BY <4>1, <4>3 DEF Contents
        <4> QED BY <4>1, <4>2, <4>4 DEF Written
      <3>2. /\ awActive' \in BOOLEAN /\ awId' \in 0 .. Len(writes)
            /\ awBeat' \in IF awId' = 0 THEN {0} ELSE 0 .. Beats(awId)'
        <4>1. awId \in 0 .. Len(writes) /\ awId # 0
          BY <2>1 DEF BridgeInv, TypeOK
        <4>2. awBeat' \in 0 .. Beats(awId)'
          BY <2>1, <2>6, <2>7
        <4> QED BY <2>6, <4>1, <4>2
      <3> QED BY <1>1, <2>3, <2>4, <2>5, <3>1, <3>2
            DEF BridgeInv, TypeOK, Beats, program, device, LandsBeat
    <2>9. LatchInv'
      <3>1. awId' = (IF AddressTaken' THEN awk' ELSE awk' - 1)
        BY <1>1, <1>4, <2>6 DEF BridgeInv, LatchInv, device
      <3>2. (awActive => awId >= 1 /\ awBeat < Beats(awId))'
        BY <2>1, <2>6, <2>7
      <3>3. (~awActive /\ awId >= 1 => awBeat = Beats(awId))'
        BY <2>1, <2>6, <2>7
      <3> QED BY <1>1, <3>1, <3>2, <3>3 DEF LatchInv
    <2>10. /\ wbeats[1].data = LandPos
           /\ \A i \in 1 .. Len(wbeats) - 1 : wbeats[i + 1].data = Follows(wbeats[i].data)
           /\ Follows(wbeats[Len(wbeats)].data) = CapturePos
           /\ \A i \in 1 .. Len(wbeats) : IsBeat(wbeats[i])
      BY <1>6 DEF LandsBeat, BridgeInv, BeatsInv
    <2>11. LandPos' = Follows(wbeats[1].data)
      <3>1. Follows(<<awId, awBeat + 1>>) = IF awBeat + 1 = Beats(awId)
                                           THEN <<awId + 1, 1>> ELSE <<awId, awBeat + 2>>
        BY <2>1 DEF Follows, Beats
      <3> QED BY <2>1, <2>6, <3>1 DEF LandPos
    <2>12. BeatsInv'
      <3>1. \A i \in 1 .. Len(wbeats') : IsBeat(wbeats'[i])
        <4> SUFFICES ASSUME NEW i \in 1 .. Len(wbeats') PROVE IsBeat(wbeats'[i])
          OBVIOUS
        <4>1. wbeats'[i] = wbeats[i + 1] /\ i + 1 \in 1 .. Len(wbeats)
          BY <2>4
        <4>2. IsBeat(wbeats[i + 1])
          BY <2>10, <4>1
        <4> QED BY <4>1, <4>2 DEF IsBeat
      <3>2. ASSUME NEW i \in 1 .. Len(wbeats') - 1
            PROVE  wbeats'[i + 1].data = Follows(wbeats'[i].data)
        <4>1. /\ wbeats'[i] = wbeats[i + 1] /\ wbeats'[i + 1] = wbeats[i + 1 + 1]
              /\ i + 1 \in 1 .. Len(wbeats) - 1
          BY <2>4
        <4>2. wbeats[i + 1 + 1].data = Follows(wbeats[i + 1].data)
          BY <2>10, <4>1
        <4> QED BY <4>1, <4>2 DEF Follows
      <3>3. CASE wbeats' = <<>>
        <4>1. Len(wbeats) = 1
          BY <2>4, <3>3, EmptySeq
        <4>2. LandPos' = CapturePos'
          <5>1. wbeats[Len(wbeats)] = wbeats[1] /\ Follows(wbeats[Len(wbeats)].data) = CapturePos'
            BY <1>4, <2>10, <4>1
          <5> QED BY <2>11, <5>1 DEF Follows
        <4> QED BY <1>1, <3>1, <3>2, <3>3, <4>2 DEF BeatsInv, IsBeat, Follows, Beats, program
      <3>4. CASE wbeats' # <<>>
        <4>1. Len(wbeats') \in Nat \ {0}
          BY <2>4, <3>4, EmptySeq
        <4>2. wbeats'[1] = wbeats[2] /\ wbeats'[Len(wbeats')] = wbeats[Len(wbeats)]
          BY <2>4, <4>1
        <4>3. wbeats'[1].data = LandPos'
          <5>1. wbeats[1 + 1].data = Follows(wbeats[1].data)
            BY <2>4, <2>10, <4>1
          <5> QED BY <2>11, <4>2, <5>1
        <4>4. Follows(wbeats'[Len(wbeats')].data) = CapturePos'
          <5>1. Follows(wbeats[Len(wbeats)].data) = CapturePos'
            BY <1>4, <2>10
          <5> QED BY <4>2, <5>1 DEF Follows
        <4> QED BY <1>1, <3>1, <3>2, <3>4, <4>3, <4>4
              DEF BeatsInv, IsBeat, Follows, Beats, program
      <3> QED BY <3>3, <3>4
    <2>13. AnswersInv'
      <3>1. Given \in Seq(WriteResp) /\ Len(Given) = awId - 1 /\ \A i \in 1 .. Len(Given) : Given[i].id = i
        BY <1>2, <2>2, ConcatProperties DEF BridgeInv, AnswersInv
      <3>2. CASE w.last
        <4>1. Given' = Append(Given, x) /\ awActive' = FALSE /\ awId' = awId
          BY <1>2, <1>6, <2>2, <2>3, <3>2, AppendAfter DEF LandsBeat
        <4>2. /\ Len(Given') = awId /\ Given'[awId] = x
              /\ \A i \in 1 .. Len(Given) : Given'[i] = Given[i]
          BY <2>1, <2>3, <3>1, <4>1, AppendProperties
        <4> QED BY <2>1, <2>3, <3>1, <4>1, <4>2 DEF AnswersInv
      <3>3. CASE ~w.last
        <4>1. Given' = Given /\ awActive' /\ awId' = awId
          BY <1>2, <1>6, <2>2, <3>3 DEF LandsBeat
        <4> QED BY <2>1, <3>1, <4>1 DEF AnswersInv
      <3> QED BY <3>2, <3>3
    <2>14. HandshakeInv'
      <3>1. bresp # <<>> => bresp' # <<>> /\ Head(bresp') = Head(bresp)
        BY <2>5
      <3> QED BY <1>1, <3>1 DEF BridgeInv, HandshakeInv, ChannelInv, Ticking, device
    <2> QED BY <1>3, <2>8, <2>9, <2>12, <2>13, <2>14 DEF BridgeInv
  <1>7. CASE awActive /\ wbeats # <<>>
    <2>1. PICK bad : LandsBeat(Head(wbeats), bad)
      BY <1>7 DEF WriteBeat, LandsBeat, Sticky
    <2> QED BY <1>6, <2>1
  <1>8. CASE ~(awActive /\ wbeats # <<>>)
    BY <1>5, <1>8 DEF WriteBeat
  <1> QED BY <1>7, <1>8

\* The beats of a read whose address is being captured.
LEMMA CapturedBeats ==
    ASSUME TypeOK, NEW k \in DOMAIN reads, NEW bad \in SUBSET (1 .. reads[k].len)
    PROVE  /\ ReadBeats(k, bad) \in Seq(ReadResp)
           /\ Len(ReadBeats(k, bad)) = reads[k].len /\ reads[k].len \in Nat \ {0}
           /\ ReadBeats(k, bad)[reads[k].len].id = k
           /\ ReadBeats(k, bad)[reads[k].len].last
  <1> DEFINE n == reads[k].len
             beat(j) == [id |-> k,
                         data |-> IF j \in bad THEN Lost ELSE mem[reads[k].addr + j - 1],
                         ok |-> j \notin bad,
                         last |-> j = n]
             B == [j \in 1 .. n |-> beat(j)]
  <1>1. n \in Nat \ {0} /\ k \in Nat /\ \A j \in 1 .. n : reads[k].addr + j - 1 \in Addrs
    BY ReadProgram DEF TypeOK
  <1>2. ASSUME NEW j \in 1 .. n PROVE beat(j) \in ReadResp
    <2>1. mem[reads[k].addr + j - 1] \in Contents
      BY <1>1 DEF TypeOK
    <2> QED BY <1>1, <2>1 DEF ReadResp
  <1>3. B \in [1 .. n -> ReadResp]
    BY <1>2
  <1>4. B \in Seq(ReadResp) /\ Len(B) = n
    <2> HIDE DEF B, n
    <2> QED BY <1>1, <1>3
  <1>5. B[n] = beat(n)
    BY <1>1
  <1>6. B[n].id = k /\ B[n].last
    <2>1. beat(n).id = k /\ beat(n).last = (n = n)
      OBVIOUS
    <2> HIDE DEF B, beat, n
    <2> QED BY <1>5, <2>1
  <1>7. ReadBeats(k, bad) = B
    BY DEF ReadBeats
  <1> HIDE DEF B
  <1> QED BY <1>1, <1>4, <1>6, <1>7

LEMMA CaptureArStep == BridgeInv /\ CaptureAr => BridgeInv'
  <1> SUFFICES ASSUME BridgeInv, CaptureAr PROVE BridgeInv'
    OBVIOUS
  <1>1. /\ phase = "ar" /\ phase' = "edge"
        /\ UNCHANGED <<program, device, io, latch, wbeats, bresp, bFire, rFire, mem>>
    BY DEF CaptureAr
  <1> USE <1>1 DEF BridgeInv, program, device, latch
  <1>2. rresp \in Seq(ReadResp) /\ seen \in Seq(ReadResp)
    BY DEF TypeOK
  <1>3. LatchInv' /\ BeatsInv'
    <2>1. AddressTaken' = AddressTaken /\ LandPos' = LandPos /\ CapturePos' = CapturePos
      BY DEF AddressTaken, LandPos, CapturePos, DataTaken, Follows, Beats
    <2> QED BY <2>1 DEF LatchInv, BeatsInv, Follows, IsBeat, Beats
  <1>4. AnswersInv'
    <2>1. Given' = Given
      BY DEF Given
    <2> QED BY <2>1 DEF AnswersInv
  <1>5. /\ Stream = seen \o rresp /\ Taken = ark - 1
        /\ Stream' = seen \o rresp'
        /\ Taken' = IF arvalid /\ io.arready THEN ark ELSE ark - 1
    BY DEF Stream, Owed, Taken
  <1>6. CASE arvalid /\ io.arready
    <2>1. PICK bad \in SUBSET (1 .. reads[ark].len) : rresp' = rresp \o ReadBeats(ark, bad)
      BY <1>6 DEF CaptureAr
    <2>2. ark \in DOMAIN reads
      BY <1>6 DEF TypeOK
    <2> DEFINE B == ReadBeats(ark, bad)
               n == reads[ark].len
    <2>3. B \in Seq(ReadResp) /\ Len(B) = n /\ n \in Nat \ {0} /\ B[n].id = ark /\ B[n].last
      BY <2>2, CapturedBeats
    <2> HIDE DEF B, n
    <2>4. rresp' = rresp \o B
      BY <2>1 DEF B
    <2>5. rresp' \in Seq(ReadResp) /\ (rresp # <<>> => rresp' # <<>> /\ Head(rresp') = Head(rresp))
      <3>1. rresp' \in Seq(ReadResp) /\ Len(rresp') = Len(rresp) + n
        BY <1>2, <2>3, <2>4, ConcatProperties
      <3>2. ASSUME rresp # <<>> PROVE rresp' # <<>> /\ Head(rresp') = Head(rresp)
        <4>1. Len(rresp) \in Nat \ {0}
          BY <1>2, <3>2, EmptySeq
        <4>2. rresp'[1] = rresp[1]
          BY <1>2, <2>3, <2>4, <4>1, ConcatProperties
        <4>3. rresp' # <<>>
          BY <2>3, <3>1, <4>1, EmptySeq
        <4> QED BY <1>2, <3>1, <3>2, <4>2, <4>3
      <3> QED BY <3>1, <3>2
    <2>6. TypeOK'
      BY <2>5 DEF TypeOK, Beats
    <2>7. ReadsInv'
      <3>1. Stream' = (seen \o rresp) \o B
        BY <1>2, <1>5, <2>3, <2>4, ConcatAssociative
      <3>2. seen \o rresp \in Seq(ReadResp) /\ Len(seen \o rresp) \in Nat
        BY <1>2, ConcatProperties
      <3>3. /\ Stream' \in Seq(ReadResp) /\ Len(Stream') = Len(seen \o rresp) + n
            /\ Stream'[Len(seen \o rresp) + n] = B[n]
        <4> DEFINE Q == seen \o rresp
        <4>1. Q \in Seq(ReadResp) /\ Len(Q) \in Nat /\ Stream' = Q \o B
          BY <3>1, <3>2
        <4> HIDE DEF Q
        <4>2. /\ Q \o B \in Seq(ReadResp) /\ Len(Q \o B) = Len(Q) + n
              /\ (Q \o B)[Len(Q) + n] = B[n]
          <5>1. Q \o B \in Seq(ReadResp) /\ Len(Q \o B) = Len(Q) + n
            BY <2>3, <4>1, ConcatProperties
          <5>2. (Q \o B)[Len(Q) + n] = B[Len(Q) + n - Len(Q)]
            BY <2>3, <4>1, ConcatProperties
          <5>3. Len(Q) + n - Len(Q) = n
            BY <2>3, <4>1
          <5> QED BY <5>1, <5>2, <5>3
        <4> USE DEF Q
        <4> QED BY <4>1, <4>2
      <3>4. Stream' # <<>>
        BY <2>3, <3>2, <3>3, EmptySeq
      <3> QED BY <1>5, <1>6, <2>3, <3>3, <3>4 DEF ReadsInv
    <2>8. HandshakeInv'
      BY <2>5 DEF HandshakeInv, ChannelInv, Ticking
    <2> QED BY <1>3, <1>4, <2>6, <2>7, <2>8
  <1>7. CASE ~(arvalid /\ io.arready)
    <2>1. rresp' = rresp
      BY <1>7 DEF CaptureAr
    <2>2. TypeOK' /\ HandshakeInv'
      BY <2>1 DEF TypeOK, Beats, HandshakeInv, ChannelInv, Ticking
    <2>3. ReadsInv'
      BY <1>5, <1>7, <2>1 DEF ReadsInv
    <2> QED BY <1>3, <1>4, <2>2, <2>3
  <1> QED BY <1>6, <1>7

\* At the edge the device takes exactly the heads of the queues that fired.
LEMMA EdgeTakesHeads ==
    ASSUME BridgeInv, Edge
    PROVE  /\ bresp \in Seq(WriteResp) /\ answers \in Seq(WriteResp)
           /\ rresp \in Seq(ReadResp) /\ seen \in Seq(ReadResp)
           /\ bFire => bresp # <<>> /\ io.b = Head(bresp) /\ answers' = Append(answers, Head(bresp))
           /\ ~bFire => answers' = answers
           /\ rFire => rresp # <<>> /\ io.r = Head(rresp) /\ seen' = Append(seen, Head(rresp))
           /\ ~rFire => seen' = seen
  <1>1. /\ phase = "edge"
        /\ answers' = IF io.b # Nothing /\ bready THEN Append(answers, io.b) ELSE answers
        /\ seen' = IF io.r # Nothing /\ rready THEN Append(seen, io.r) ELSE seen
    BY DEF Edge
  <1>2. (bFire <=> io.b # Nothing /\ bready) /\ (rFire <=> io.r # Nothing /\ rready)
    BY <1>1 DEF BridgeInv, HandshakeInv, ChannelInv, Ticking
  <1>3. /\ io.b # Nothing => bresp # <<>> /\ Head(bresp) = io.b
        /\ io.r # Nothing => rresp # <<>> /\ Head(rresp) = io.r
    BY <1>1 DEF BridgeInv, HandshakeInv, ChannelInv, Ticking
  <1>4. /\ bresp \in Seq(WriteResp) /\ answers \in Seq(WriteResp)
        /\ rresp \in Seq(ReadResp) /\ seen \in Seq(ReadResp)
    BY DEF BridgeInv, TypeOK
  <1> QED BY <1>1, <1>2, <1>3, <1>4

LEMMA EdgeStep == BridgeInv /\ Edge => BridgeInv'
  <1> SUFFICES ASSUME BridgeInv, Edge PROVE BridgeInv'
    OBVIOUS
  <1>1. /\ phase = "edge" /\ phase' = "pop" /\ UNCHANGED <<writes, reads>>
        /\ UNCHANGED <<io, awActive, awId, awBeat, status, wbeats, bresp, rresp, bFire, rFire, mem>>
        /\ bready' \in BOOLEAN /\ rready' \in BOOLEAN
    BY DEF Edge, program, latch
  <1>2. /\ Len(writes) \in Nat /\ DOMAIN writes = 1 .. Len(writes)
        /\ Len(reads) \in Nat /\ DOMAIN reads = 1 .. Len(reads)
        /\ \A k \in DOMAIN writes : Len(writes[k].strobes) \in Nat \ {0}
    BY WriteProgram, ReadProgram DEF BridgeInv, TypeOK, Beats
  <1>3. /\ awk' = IF awvalid /\ io.awready THEN awk + 1 ELSE awk
        /\ awvalid' \in BOOLEAN /\ (awvalid' => awk' \in DOMAIN writes)
    BY DEF Edge, Offer
  <1>4. /\ ark' = IF arvalid /\ io.arready THEN ark + 1 ELSE ark
        /\ arvalid' \in BOOLEAN /\ (arvalid' => ark' \in DOMAIN reads)
    BY DEF Edge, Offer
  <1>5. /\ <<wk', wj'>> = IF wvalid THEN Follows(<<wk, wj>>) ELSE <<wk, wj>>
        /\ wvalid' \in BOOLEAN /\ (wvalid' => wk' \in DOMAIN writes)
    <2>1. /\ wk' = IF wvalid /\ wj = Beats(wk) THEN wk + 1 ELSE wk
          /\ wvalid' \in BOOLEAN /\ (wvalid' => wk' \in DOMAIN writes)
      BY DEF Edge, Offer
    <2>2. wj' = IF wvalid THEN IF wj = Beats(wk) THEN 1 ELSE wj + 1 ELSE wj
      BY DEF Edge
    <2> QED BY <2>1, <2>2 DEF Follows
  <1>6. awk \in 1 .. Len(writes) + 1 /\ ark \in 1 .. Len(reads) + 1
    BY DEF BridgeInv, TypeOK
  <1>7. TypeOK'
    <2>1. /\ awk' \in 1 .. Len(writes) + 1 /\ ark' \in 1 .. Len(reads) + 1
      <3>1. awvalid => awk \in DOMAIN writes
        BY DEF BridgeInv, TypeOK
      <3>2. arvalid => ark \in DOMAIN reads
        BY DEF BridgeInv, TypeOK
      <3> QED BY <1>2, <1>3, <1>4, <1>6, <3>1, <3>2
    <2>2. /\ wk' \in 1 .. Len(writes) + 1 /\ wj' \in Nat
          /\ wk' \in DOMAIN writes => wj' \in 1 .. Len(writes[wk'].strobes)
      <3>1. /\ wk \in 1 .. Len(writes) + 1 /\ wj \in Nat
            /\ wk \in DOMAIN writes => wj \in 1 .. Len(writes[wk].strobes)
            /\ wvalid => wk \in DOMAIN writes
        BY DEF BridgeInv, TypeOK, Beats
      <3>2. CASE wvalid
        <4>1. wk \in 1 .. Len(writes) /\ wj \in 1 .. Len(writes[wk].strobes)
              /\ Len(writes[wk].strobes) \in Nat
          BY <1>2, <3>1, <3>2
        <4>2. CASE wj = Len(writes[wk].strobes)
          <5>1. wk' = wk + 1 /\ wj' = 1
            BY <1>5, <3>2, <4>2 DEF Follows, Beats
          <5> QED BY <1>2, <4>1, <5>1
        <4>3. CASE wj # Len(writes[wk].strobes)
          <5>1. wk' = wk /\ wj' = wj + 1
            BY <1>5, <3>2, <4>3 DEF Follows, Beats
          <5> QED BY <1>2, <4>1, <4>3, <5>1
        <4> QED BY <4>2, <4>3
      <3>3. CASE ~wvalid
        <4>1. wk' = wk /\ wj' = wj
          BY <1>5, <3>3
        <4> QED BY <3>1, <4>1
      <3> QED BY <3>2, <3>3
    <2>3. answers' \in Seq(WriteResp) /\ seen' \in Seq(ReadResp)
      <3>1. /\ bFire => Head(bresp) \in WriteResp
            /\ rFire => Head(rresp) \in ReadResp
        BY EdgeTakesHeads, HeadTailProperties
      <3>2. answers' \in Seq(WriteResp)
        <4>1. CASE bFire
          <5>1. answers' = Append(answers, Head(bresp)) /\ answers \in Seq(WriteResp)
            BY <4>1, EdgeTakesHeads
          <5> QED BY <3>1, <4>1, <5>1, AppendProperties
        <4> QED BY <4>1, EdgeTakesHeads
      <3>3. seen' \in Seq(ReadResp)
        <4>1. CASE rFire
          <5>1. seen' = Append(seen, Head(rresp)) /\ seen \in Seq(ReadResp)
            BY <4>1, EdgeTakesHeads
          <5> QED BY <3>1, <4>1, <5>1, AppendProperties
        <4> QED BY <4>1, EdgeTakesHeads
      <3> QED BY <3>2, <3>3
    <2> QED BY <1>1, <1>3, <1>4, <1>5, <2>1, <2>2, <2>3 DEF BridgeInv, TypeOK, Beats
  <1>8. LatchInv'
    <2>1. awId = (IF awvalid /\ io.awready THEN awk ELSE awk - 1)
      BY <1>1 DEF BridgeInv, LatchInv, AddressTaken
    <2>2. awId' = awk' - 1 /\ ~AddressTaken'
      BY <1>1, <1>3, <1>6, <2>1 DEF AddressTaken
    <2> QED BY <1>1, <2>2 DEF BridgeInv, LatchInv, Beats
  <1>9. BeatsInv'
    <2>1. CapturePos' = CapturePos /\ LandPos' = LandPos
      BY <1>1, <1>5 DEF CapturePos, DataTaken, LandPos
    <2> QED BY <1>1, <2>1 DEF BridgeInv, BeatsInv, Follows, IsBeat, Beats
  <1>10. Given' = Given
    <2>1. Given = answers \o bresp /\ Given' = answers' \o (IF bFire THEN Tail(bresp) ELSE bresp)
      BY <1>1 DEF Given
    <2> QED BY <2>1, EdgeTakesHeads, MoveHead
  <1>11. Stream' = Stream
    <2>1. Stream = seen \o rresp /\ Stream' = seen' \o (IF rFire THEN Tail(rresp) ELSE rresp)
      BY <1>1 DEF Stream, Owed
    <2> QED BY <2>1, EdgeTakesHeads, MoveHead
  <1>12. Taken' = Taken
    BY <1>1, <1>4, <1>6 DEF Taken
  <1>13. AnswersInv' /\ ReadsInv'
    BY <1>1, <1>10, <1>11, <1>12 DEF BridgeInv, AnswersInv, ReadsInv
  <1>14. HandshakeInv'
    <2>1. bFire => TookLast(answers', io.b)
      BY EdgeTakesHeads, HeadTailProperties, AppendProperties DEF TookLast
    <2>2. rFire => TookLast(seen', io.r)
      BY EdgeTakesHeads, HeadTailProperties, AppendProperties DEF TookLast
    <2>3. /\ io.b # Nothing => bresp # <<>> /\ Head(bresp) = io.b
          /\ io.r # Nothing => rresp # <<>> /\ Head(rresp) = io.r
      BY <1>1 DEF BridgeInv, HandshakeInv, ChannelInv, Ticking
    <2>4. /\ bFire => bresp # <<>> /\ Head(bresp) = io.b
          /\ rFire => rresp # <<>> /\ Head(rresp) = io.r
      BY EdgeTakesHeads
    <2> QED BY <1>1, <2>1, <2>2, <2>3, <2>4 DEF HandshakeInv, ChannelInv, Ticking, TookLast
  <1> QED BY <1>7, <1>8, <1>9, <1>13, <1>14 DEF BridgeInv

LEMMA PopStep == BridgeInv /\ Pop => BridgeInv'
  <1> SUFFICES ASSUME BridgeInv, Pop PROVE BridgeInv'
    OBVIOUS
  <1>1. /\ phase = "pop" /\ phase' = "drive" /\ bFire' = FALSE /\ rFire' = FALSE
        /\ bresp' = IF bFire /\ bresp # <<>> THEN Tail(bresp) ELSE bresp
        /\ rresp' = IF rFire /\ rresp # <<>> THEN Tail(rresp) ELSE rresp
        /\ UNCHANGED <<program, device, io, latch, wbeats, mem>>
    BY DEF Pop, Fired
  <1> USE DEF BridgeInv, program, device, latch
  <1>2. bresp \in Seq(WriteResp) /\ rresp \in Seq(ReadResp)
    BY DEF TypeOK
  <1>3. (bFire => bresp # <<>>) /\ (rFire => rresp # <<>>)
    BY <1>1 DEF HandshakeInv, ChannelInv
  <1>4. bresp' \in Seq(WriteResp) /\ rresp' \in Seq(ReadResp)
    BY <1>1, <1>2, HeadTailProperties
  <1>5. TypeOK'
    <2>1. phase' = "drive" /\ bFire' \in BOOLEAN /\ rFire' \in BOOLEAN
      BY <1>1
    <2>2. UNCHANGED <<program, device, io, latch, wbeats, mem>>
      BY <1>1
    <2> QED BY <1>4, <2>1, <2>2 DEF TypeOK, Beats
  <1>6. LatchInv' /\ BeatsInv'
    <2>1. ~AddressTaken /\ ~AddressTaken' /\ LandPos' = LandPos /\ CapturePos' = CapturePos
      BY <1>1 DEF AddressTaken, LandPos, CapturePos, DataTaken
    <2> QED BY <1>1, <2>1 DEF LatchInv, BeatsInv, Follows, IsBeat, Beats
  <1>7. Given' = Given /\ Stream' = Stream /\ Taken' = Taken
    BY <1>1, <1>3 DEF Given, Stream, Owed, Taken
  <1>8. AnswersInv' /\ ReadsInv'
    BY <1>1, <1>7 DEF AnswersInv, ReadsInv
  <1>9. HandshakeInv'
    BY <1>1, <1>3 DEF HandshakeInv, ChannelInv, Ticking
  <1> QED BY <1>5, <1>6, <1>8, <1>9

LEMMA BridgeStep == BridgeInv /\ [Next]_vars => BridgeInv'
  <1> SUFFICES ASSUME BridgeInv, UNCHANGED vars PROVE BridgeInv'
    BY DriveStep, CaptureAwStep, CaptureWStep, WriteBeatStep, CaptureArStep, EdgeStep, PopStep
       DEF Next
  <1> USE DEF vars, program, device, latch
  <1>1. TypeOK'
    BY DEF BridgeInv, TypeOK, Beats
  <1>2. LatchInv' /\ BeatsInv'
    BY DEF BridgeInv, LatchInv, BeatsInv, AddressTaken, LandPos, CapturePos, DataTaken,
           Follows, IsBeat, Beats
  <1>3. Given' = Given /\ Stream' = Stream /\ Taken' = Taken
    BY DEF Given, Stream, Owed, Taken
  <1>4. AnswersInv' /\ ReadsInv'
    BY <1>3 DEF BridgeInv, AnswersInv, ReadsInv
  <1>5. HandshakeInv'
    BY DEF BridgeInv, HandshakeInv, ChannelInv
  <1> QED BY <1>1, <1>2, <1>4, <1>5 DEF BridgeInv

LEMMA BridgeHolds == Spec => []BridgeInv
  <1> QED BY BridgeInit, BridgeStep, PTL DEF Spec

-----------------------------------------------------------------------------
\* Whatever the device offers and takes, and whichever callbacks fail, the deques
\* and the latch of tick_with keep their types, and the latched write address with
\* its beat counter stays within a burst that the device presented.
THEOREM BridgeIsTyped == Spec => []TypeOK
  <1>1. BridgeInv => TypeOK
    BY DEF BridgeInv
  <1> QED BY <1>1, BridgeHolds, PTL

\* Between ticks axi_busy covers every access that is not answered in full: a settle
\* or a pump that stops for quiet leaves none half served.
THEOREM QuietOwesNothing == Spec => []OwedMeansBusy
  <1>1. BridgeInv => OwedMeansBusy
    <2> SUFFICES ASSUME BridgeInv, phase = "drive", HandedOver, ~AxiBusy PROVE FALSE
      BY DEF OwedMeansBusy
    <2> USE DEF BridgeInv
    <2>1. ~awActive /\ wbeats = <<>> /\ bresp = <<>> /\ rresp = <<>>
      BY DEF AxiBusy
    <2>2. answers \in Seq(WriteResp) /\ seen \in Seq(ReadResp)
      BY DEF TypeOK
    <2>3. Given = answers /\ Stream = seen
      BY <2>1, <2>2, ConcatEmptySeq DEF Given, Stream, Owed
    <2>4. Len(answers) = awk - 1
      BY <2>1, <2>3 DEF AnswersInv, LatchInv, AddressTaken
    <2>5. wk = awId + 1 /\ wj = 1 /\ awId = awk - 1
      BY <2>1 DEF BeatsInv, LandPos, CapturePos, DataTaken, LatchInv, AddressTaken
    <2>6. awk \in Nat /\ ark \in Nat
      <3>1. Len(writes) \in Nat /\ Len(reads) \in Nat
        BY WriteProgram, ReadProgram DEF TypeOK
      <3> QED BY <3>1 DEF TypeOK
    <2>7. ark > 1 => \E i \in DOMAIN seen : seen[i].id = ark - 1 /\ seen[i].last
      <3> SUFFICES ASSUME ark > 1 PROVE \E i \in DOMAIN seen : seen[i].id = ark - 1 /\ seen[i].last
        OBVIOUS
      <3>1. Taken = ark - 1 /\ Taken >= 1
        BY <2>6 DEF Taken
      <3>2. seen # <<>> /\ seen[Len(seen)].id = ark - 1 /\ seen[Len(seen)].last
        BY <2>3, <3>1 DEF ReadsInv
      <3>3. Len(seen) \in DOMAIN seen
        BY <2>2, <3>2, EmptySeq
      <3> QED BY <3>2, <3>3
    <2> QED BY <2>4, <2>5, <2>6, <2>7 DEF HandedOver
  <1> QED BY <1>1, BridgeHolds, PTL

\* "Preserve the queued head under R backpressure" (mem_drive): a response that is
\* offered stays as it is until the device has taken it.
THEOREM OffersAreHeld == Spec => HeadHeld
  <1> DEFINE Held == /\ io.b # Nothing /\ io'.b # io.b => TookLast(answers, io.b)
                     /\ io.r # Nothing /\ io'.r # io.r => TookLast(seen, io.r)
  <1>1. BridgeInv /\ [Next]_vars => [Held]_io
    <2> SUFFICES ASSUME BridgeInv, [Next]_vars, io' # io PROVE Held
      OBVIOUS
    <2>1. Drive
      BY DEF Next, CaptureAw, CaptureW, WriteBeat, CaptureAr, Edge, Pop, vars
    <2>2. io'.b = FrontOf(bresp) /\ io'.r = FrontOf(rresp) /\ phase = "drive"
      BY <2>1 DEF Drive, Driven
    <2> QED BY <2>2 DEF BridgeInv, HandshakeInv, ChannelInv, FrontOf
  <1> QED BY <1>1, BridgeHolds, PTL DEF Spec, HeadHeld
-----------------------------------------------------------------------------
(* The queue of read beats. *)

\* The bound is not inductive by itself.  What makes it hold is that arready, decided
\* at the start of a tick, is still true of the queue when the address is captured.
QueueInv ==
    /\ phase \in {"aw", "w", "beat", "ar"} /\ io.arready => Len(rresp) < RespLimit
    /\ RespQueueBounded

LEMMA QueueStep ==
    ASSUME BridgeInv, QueueInv, [Next]_vars
    PROVE  QueueInv'
  <1> USE DEF BridgeInv, QueueInv
  <1>0. rresp \in Seq(ReadResp) /\ Len(rresp) \in Nat
    BY DEF TypeOK
  <1>1. CASE Drive
    <2>1. rresp' = rresp /\ io'.arready = (Len(rresp) < RespLimit)
      BY <1>1 DEF Drive, Driven, Admits, device, program
    <2> QED BY <2>1 DEF RespQueueBounded
  <1>2. CASE CaptureAw \/ CaptureW \/ WriteBeat
    <2>1. rresp' = rresp /\ io' = io /\ phase \in {"aw", "w", "beat"}
      BY <1>2 DEF CaptureAw, CaptureW, WriteBeat
    <2> QED BY <2>1 DEF RespQueueBounded
  <1>3. CASE CaptureAr
    <2>1. phase = "ar" /\ phase' = "edge"
      BY <1>3 DEF CaptureAr
    <2>2. CASE arvalid /\ io.arready
      <3>1. PICK bad \in SUBSET (1 .. reads[ark].len) : rresp' = rresp \o ReadBeats(ark, bad)
        BY <1>3, <2>2 DEF CaptureAr
      <3>2. ark \in DOMAIN reads /\ reads \in Seq(ReadBurst)
        BY <2>2, ProgramsAssumption DEF TypeOK
      <3>3. ReadBeats(ark, bad) \in Seq(ReadResp) /\ Len(ReadBeats(ark, bad)) = reads[ark].len
        BY <3>2, CapturedBeats
      <3>4. reads[ark].len \in 1 .. MaxLen
        <4>1. reads[ark] \in ReadBurst
          BY <3>2
        <4> QED BY <4>1 DEF ReadBurst
      <3>5. Len(rresp') = Len(rresp) + reads[ark].len
        BY <1>0, <3>1, <3>3, ConcatProperties
      <3>6. Len(rresp) < RespLimit
        BY <2>1, <2>2
      <3> QED BY <1>0, <2>1, <3>4, <3>5, <3>6, LimitsAssumption DEF RespQueueBounded
    <2>3. CASE ~(arvalid /\ io.arready)
      BY <1>3, <2>1, <2>3 DEF CaptureAr, RespQueueBounded
    <2> QED BY <2>2, <2>3
  <1>4. CASE Edge
    BY <1>4 DEF Edge, RespQueueBounded
  <1>5. CASE Pop
    <2>1. /\ phase' = "drive"
          /\ rresp' = IF rFire /\ rresp # <<>> THEN Tail(rresp) ELSE rresp
      BY <1>5 DEF Pop, Fired
    <2>2. rresp # <<>> => Len(Tail(rresp)) = Len(rresp) - 1
      BY <1>0
    <2> QED BY <1>0, <2>1, <2>2, LimitsAssumption DEF RespQueueBounded
  <1>6. CASE UNCHANGED vars
    BY <1>6 DEF vars, program, device, RespQueueBounded
  <1> QED BY <1>1, <1>2, <1>3, <1>4, <1>5, <1>6 DEF Next

\* However the device offers its bursts and takes its beats, the bridge never
\* holds more read beats than the admission limit and one burst (arready in
\* mem_drive, the pushes in mem_capture, the pop in tick_with).
THEOREM ReadQueueIsBounded == Spec => []RespQueueBounded
  <1>1. Init => QueueInv
    <2> SUFFICES ASSUME Init PROVE QueueInv
      OBVIOUS
    <2>1. rresp = <<>> /\ Len(rresp) = 0 /\ phase = "drive"
      BY DEF Init
    <2> QED BY <2>1, LimitsAssumption DEF QueueInv, RespQueueBounded
  <1>2. BridgeInv /\ QueueInv /\ [Next]_vars => QueueInv'
    BY QueueStep
  <1>3. QueueInv => RespQueueBounded
    BY DEF QueueInv
  <1> QED BY <1>1, <1>2, <1>3, BridgeHolds, PTL DEF Spec
-----------------------------------------------------------------------------
(* The refinement. *)

\* The writes with a failed part, in terms of the answers given.
FailedGiven == {i \in 1 .. Len(Given) : ~Given[i].ok} \union (IF status THEN {awId} ELSE {})

LEMMA GivenIsTyped ==
    ASSUME BridgeInv
    PROVE  /\ Given \in Seq(WriteResp) /\ Len(Given) \in Nat
           /\ answers \in Seq(WriteResp) /\ bresp \in Seq(WriteResp)
           /\ phase = "pop" /\ bFire => bresp # <<>>
  <1>1. answers \in Seq(WriteResp) /\ bresp \in Seq(WriteResp)
    BY DEF BridgeInv, TypeOK
  <1>2. phase = "pop" /\ bFire => bresp # <<>>
    BY DEF BridgeInv, HandshakeInv, ChannelInv
  <1>3. (IF phase = "pop" /\ bFire THEN Tail(bresp) ELSE bresp) \in Seq(WriteResp)
    BY <1>1, <1>2, HeadTailProperties
  <1> QED BY <1>1, <1>2, <1>3, ConcatProperties DEF Given

\* Every answer seen or queued is one of those given.
LEMMA AllAreGiven ==
    ASSUME BridgeInv
    PROVE  {answers[i] : i \in DOMAIN answers} \union {bresp[i] : i \in DOMAIN bresp}
               = {Given[i] : i \in 1 .. Len(Given)}
  <1> DEFINE q == IF phase = "pop" /\ bFire THEN Tail(bresp) ELSE bresp
             A == {answers[i] : i \in DOMAIN answers}
             B == {bresp[i] : i \in DOMAIN bresp}
             Q == {q[i] : i \in DOMAIN q}
  <1>1. answers \in Seq(WriteResp) /\ bresp \in Seq(WriteResp) /\ q \in Seq(WriteResp)
    BY GivenIsTyped, HeadTailProperties
  <1>2. {Given[i] : i \in 1 .. Len(Given)} = A \union Q
    <2>1. Given = answers \o q
      BY DEF Given
    <2> HIDE DEF q
    <2>2. /\ Len(Given) = Len(answers) + Len(q) /\ Len(answers) \in Nat /\ Len(q) \in Nat
          /\ DOMAIN answers = 1 .. Len(answers) /\ DOMAIN q = 1 .. Len(q)
          /\ \A i \in 1 .. Len(Given) :
                Given[i] = IF i <= Len(answers) THEN answers[i] ELSE q[i - Len(answers)]
      BY <1>1, <2>1, ConcatProperties
    <2>3. ASSUME NEW i \in 1 .. Len(Given) PROVE Given[i] \in A \union Q
      BY <2>2
    <2>4. ASSUME NEW i \in DOMAIN answers PROVE \E n \in 1 .. Len(Given) : answers[i] = Given[n]
      BY <2>2
    <2>5. ASSUME NEW i \in DOMAIN q PROVE \E n \in 1 .. Len(Given) : q[i] = Given[n]
      <3>1. Len(answers) + i \in 1 .. Len(Given) /\ q[i] = Given[Len(answers) + i]
        BY <2>2
      <3> QED BY <3>1
    <2> QED BY <2>3, <2>4, <2>5
  <1>3. A \union B = A \union Q
    <2>1. CASE phase = "pop" /\ bFire
      <3>1. /\ bresp # <<>> /\ q = Tail(bresp) /\ Head(bresp) = io.b
            /\ answers # <<>> /\ answers[Len(answers)] = io.b
        BY <2>1 DEF BridgeInv, HandshakeInv, ChannelInv, TookLast
      <3>2. Len(answers) \in DOMAIN answers
        BY <1>1, <3>1, EmptySeq
      <3>3. bresp[1] \in A
        BY <1>1, <3>1, <3>2
      <3>4. /\ DOMAIN bresp = 1 .. Len(bresp) /\ Len(bresp) \in Nat \ {0}
            /\ DOMAIN q = 1 .. Len(bresp) - 1
            /\ \A i \in DOMAIN q : q[i] = bresp[i + 1]
        <4>1. Tail(bresp) \in Seq(WriteResp) /\ Len(Tail(bresp)) = Len(bresp) - 1
          BY <1>1, <3>1, HeadTailProperties
        <4>2. DOMAIN Tail(bresp) = 1 .. Len(bresp) - 1
          BY <4>1
        <4> QED BY <1>1, <3>1, <4>2, EmptySeq, HeadTailProperties
      <3> HIDE DEF q
      <3>5. ASSUME NEW i \in DOMAIN bresp PROVE bresp[i] \in A \union Q
        <4>1. CASE i = 1
          BY <3>3, <4>1
        <4>2. CASE i # 1
          <5>1. i - 1 \in DOMAIN q /\ q[i - 1] = bresp[i - 1 + 1]
            BY <3>4, <4>2
          <5>2. q[i - 1] = bresp[i]
            BY <3>4, <5>1
          <5> QED BY <5>1, <5>2
        <4> QED BY <4>1, <4>2
      <3>6. ASSUME NEW i \in DOMAIN q PROVE q[i] \in B
        BY <3>4
      <3> QED BY <3>5, <3>6
    <2>2. CASE ~(phase = "pop" /\ bFire)
      BY <2>2
    <2> QED BY <2>1, <2>2
  <1> QED BY <1>2, <1>3

LEMMA FailedIsGiven ==
    ASSUME BridgeInv
    PROVE  Failed = FailedGiven
  <1> DEFINE Told == {answers[i] : i \in DOMAIN answers} \union {bresp[i] : i \in DOMAIN bresp}
  <1>1. Failed = {x.id : x \in {y \in Told : ~y.ok}} \union (IF status THEN {awId} ELSE {})
    BY DEF Failed, BadAnswer
  <1>2. Told = {Given[i] : i \in 1 .. Len(Given)}
    BY AllAreGiven
  <1>3. \A i \in 1 .. Len(Given) : Given[i].id = i
    BY DEF BridgeInv, AnswersInv
  <1>4. {x.id : x \in {y \in Told : ~y.ok}} = {i \in 1 .. Len(Given) : ~Given[i].ok}
    <2> HIDE DEF Told
    <2>1. ASSUME NEW x \in Told, ~x.ok PROVE x.id \in {i \in 1 .. Len(Given) : ~Given[i].ok}
      BY <1>2, <1>3, <2>1
    <2>2. ASSUME NEW i \in 1 .. Len(Given), ~Given[i].ok
          PROVE  i \in {x.id : x \in {y \in Told : ~y.ok}}
      BY <1>2, <1>3, <2>2
    <2> QED BY <2>1, <2>2
  <1> QED BY <1>1, <1>4 DEF FailedGiven

\* A step that leaves the latch, the answers given and the read stream alone, and
\* gives the device nothing, is a stutter.
LEMMA Stutters ==
    ASSUME BridgeInv, BridgeInv',
           UNCHANGED <<writes, reads, mem, answers, seen>>,
           Landed' = Landed, FailedGiven' = FailedGiven, Owed' = Owed, Taken' = Taken
    PROVE  UNCHANGED Axi!vars
  <1>1. Failed = FailedGiven /\ Failed' = FailedGiven'
    <2>1. Failed = FailedGiven
      BY FailedIsGiven
    <2>2. (BridgeInv => Failed = FailedGiven)'
      BY FailedIsGiven, PTL
    <2> QED BY <2>1, <2>2
  <1> QED BY <1>1 DEF Axi!vars

LEMMA DriveMaps == BridgeInv /\ Drive => UNCHANGED Axi!vars
  <1> SUFFICES ASSUME BridgeInv, Drive PROVE UNCHANGED Axi!vars
    OBVIOUS
  <1>1. BridgeInv'
    BY DriveStep
  <1>2. /\ phase = "drive" /\ phase' = "aw"
        /\ UNCHANGED <<program, device, latch, wbeats, bresp, rresp, mem>>
    BY DEF Drive
  <1>3. Landed' = Landed /\ Owed' = Owed /\ Taken' = Taken
    BY <1>2 DEF Landed, Beats, Owed, Taken, program, device, latch
  <1>4. Given' = Given
    BY <1>2 DEF Given, device
  <1>5. FailedGiven' = FailedGiven
    BY <1>2, <1>4 DEF FailedGiven, latch
  <1> QED BY <1>1, <1>2, <1>3, <1>5, Stutters DEF program, device

LEMMA CaptureAwMaps == BridgeInv /\ CaptureAw => UNCHANGED Axi!vars
  <1> SUFFICES ASSUME BridgeInv, CaptureAw PROVE UNCHANGED Axi!vars
    OBVIOUS
  <1>1. BridgeInv'
    BY CaptureAwStep
  <1>2. /\ phase = "aw" /\ phase' = "w"
        /\ UNCHANGED <<program, device, wbeats, bresp, rresp, mem>>
    BY DEF CaptureAw
  <1>3. Owed' = Owed /\ Taken' = Taken /\ Given' = Given
    BY <1>2 DEF Owed, Taken, Given, program, device
  <1>4. CASE awvalid /\ io.awready
    <2>1. /\ awActive' = TRUE /\ awId' = awk /\ awBeat' = 0 /\ status' = FALSE
          /\ ~awActive /\ awId = awk - 1 /\ awk \in Nat \ {0}
      <3>1. awk \in 1 .. Len(writes) + 1 /\ Len(writes) \in Nat
        BY WriteProgram DEF BridgeInv, TypeOK
      <3> QED BY <1>2, <1>4, <3>1 DEF CaptureAw, FirstBeat, BridgeInv, LatchInv, AddressTaken
    <2>2. awId \in Nat /\ awId' = awId + 1
      BY <2>1
    <2>3. awId >= 1 => awBeat = Beats(awId)
      BY <2>1 DEF BridgeInv, LatchInv
    <2>4. DOMAIN writes = 1 .. Len(writes) /\ Len(writes) \in Nat
      BY WriteProgram DEF BridgeInv, TypeOK
    <2>5. Landed' = Landed
      <3> DEFINE old(k) == CASE k < awId -> Beats(k) [] k = awId -> awBeat [] OTHER -> 0
                 new(k) == CASE k < awId + 1 -> Beats(k) [] k = awId + 1 -> 0 [] OTHER -> 0
      <3>1. ASSUME NEW k \in DOMAIN writes PROVE old(k) = new(k)
        <4>1. k \in Nat \ {0}
          BY <2>4
        <4>2. CASE k = awId
          BY <2>2, <2>3, <4>1, <4>2
        <4>3. CASE k # awId
          BY <2>2, <4>1, <4>3
        <4> QED BY <4>2, <4>3
      <3>2. Landed = [k \in DOMAIN writes |-> old(k)]
        BY DEF Landed
      <3>3. Landed' = [k \in DOMAIN writes |-> new(k)]
        BY <1>2, <2>1, <2>2 DEF Landed, Beats, program
      <3> HIDE DEF old, new
      <3> QED BY <3>1, <3>2, <3>3
    <2>6. FailedGiven' = FailedGiven
      <3>1. Len(Given) = awId /\ (awId >= 1 => Given[awId].ok = ~status) /\ (awId = 0 => ~status)
        BY <2>1 DEF BridgeInv, AnswersInv
      <3>2. ASSUME status PROVE awId \in 1 .. Len(Given) /\ ~Given[awId].ok
        <4>1. awId >= 1
          BY <2>2, <3>1, <3>2
        <4>2. Given[awId].ok = FALSE
          BY <3>1, <3>2, <4>1
        <4> QED BY <2>2, <3>1, <4>1, <4>2
      <3> QED BY <1>3, <2>1, <3>2 DEF FailedGiven
    <2> QED BY <1>1, <1>2, <1>3, <2>5, <2>6, Stutters DEF program, device
  <1>5. CASE ~(awvalid /\ io.awready)
    <2>1. UNCHANGED latch
      BY <1>5 DEF CaptureAw
    <2>2. Landed' = Landed /\ FailedGiven' = FailedGiven
      BY <1>2, <1>3, <2>1 DEF Landed, FailedGiven, Beats, program, latch
    <2> QED BY <1>1, <1>2, <1>3, <2>2, Stutters DEF program, device
  <1> QED BY <1>4, <1>5

LEMMA CaptureWMaps == BridgeInv /\ CaptureW => UNCHANGED Axi!vars
  <1> SUFFICES ASSUME BridgeInv, CaptureW PROVE UNCHANGED Axi!vars
    OBVIOUS
  <1>1. BridgeInv'
    BY CaptureWStep
  <1>2. /\ phase = "w" /\ phase' = "beat"
        /\ UNCHANGED <<program, device, latch, bresp, rresp, mem>>
    BY DEF CaptureW
  <1>3. Landed' = Landed /\ Owed' = Owed /\ Taken' = Taken /\ Given' = Given
    BY <1>2 DEF Landed, Beats, Owed, Taken, Given, program, device, latch
  <1>4. FailedGiven' = FailedGiven
    BY <1>2, <1>3 DEF FailedGiven, latch
  <1> QED BY <1>1, <1>2, <1>3, <1>4, Stutters DEF program, device

LEMMA PopMaps == BridgeInv /\ Pop => UNCHANGED Axi!vars
  <1> SUFFICES ASSUME BridgeInv, Pop PROVE UNCHANGED Axi!vars
    OBVIOUS
  <1>1. BridgeInv'
    BY PopStep
  <1>2. /\ phase = "pop" /\ phase' = "drive"
        /\ bresp' = IF bFire /\ bresp # <<>> THEN Tail(bresp) ELSE bresp
        /\ rresp' = IF rFire /\ rresp # <<>> THEN Tail(rresp) ELSE rresp
        /\ UNCHANGED <<program, device, latch, mem>>
    BY DEF Pop, Fired
  <1>3. (bFire => bresp # <<>>) /\ (rFire => rresp # <<>>)
    BY <1>2 DEF BridgeInv, HandshakeInv, ChannelInv
  <1>4. Landed' = Landed /\ Owed' = Owed /\ Taken' = Taken /\ Given' = Given
    BY <1>2, <1>3 DEF Landed, Beats, Owed, Taken, Given, program, device, latch
  <1>5. FailedGiven' = FailedGiven
    BY <1>2, <1>4 DEF FailedGiven, latch
  <1> QED BY <1>1, <1>2, <1>4, <1>5, Stutters DEF program, device

\* A captured read address is the abstract memory's Take.
LEMMA CaptureArMaps == BridgeInv /\ CaptureAr => [Axi!Next]_(Axi!vars)
  <1> SUFFICES ASSUME BridgeInv, CaptureAr PROVE Axi!Next \/ UNCHANGED Axi!vars
    OBVIOUS
  <1>1. BridgeInv'
    BY CaptureArStep
  <1>2. /\ phase = "ar" /\ phase' = "edge"
        /\ UNCHANGED <<program, device, io, latch, wbeats, bresp, bFire, rFire, mem>>
    BY DEF CaptureAr
  <1>3. Landed' = Landed /\ Given' = Given
    BY <1>2 DEF Landed, Beats, Given, program, device, latch
  <1>4. FailedGiven' = FailedGiven
    BY <1>2, <1>3 DEF FailedGiven, latch
  <1>5. Owed = rresp /\ Owed' = rresp' /\ Taken = ark - 1
        /\ Taken' = IF arvalid /\ io.arready THEN ark ELSE ark - 1
    BY <1>2 DEF Owed, Taken, device
  <1>6. CASE arvalid /\ io.arready
    <2>1. PICK bad \in SUBSET (1 .. reads[ark].len) : rresp' = rresp \o ReadBeats(ark, bad)
      BY <1>6 DEF CaptureAr
    <2>2. ark \in DOMAIN reads /\ ark \in Nat
      BY <1>6, ReadProgram DEF BridgeInv, TypeOK
    <2>3. Taken + 1 = ark
      BY <1>5, <2>2
    <2>4. ReadBeats(ark, bad) = Axi!BeatsOf(mem, ark, reads[ark], bad)
      BY DEF ReadBeats, Axi!BeatsOf, Lost, Axi!Lost
    <2>5. Failed = FailedGiven /\ Failed' = FailedGiven'
      <3>1. (BridgeInv => Failed = FailedGiven)'
        BY FailedIsGiven, PTL
      <3> QED BY <1>1, <3>1, FailedIsGiven
    <2>6. Axi!Take(bad)
      <3>1. UNCHANGED <<writes, reads, mem, Landed, Failed, answers, seen>>
        BY <1>2, <1>3, <1>4, <2>5 DEF program, device
      <3>2. Owed' = Owed \o Axi!BeatsOf(mem, ark, reads[ark], bad) /\ Taken' = ark
        BY <1>5, <1>6, <2>1, <2>4
      <3> QED BY <2>2, <2>3, <3>1, <3>2 DEF Axi!Take
    <2>7. bad \in SUBSET (IF Taken + 1 \in DOMAIN reads THEN 1 .. reads[Taken + 1].len ELSE {})
      BY <2>2, <2>3
    <2> QED BY <2>6, <2>7 DEF Axi!Next
  <1>7. CASE ~(arvalid /\ io.arready)
    <2>1. rresp' = rresp
      BY <1>7 DEF CaptureAr
    <2> QED BY <1>1, <1>2, <1>3, <1>4, <1>5, <1>7, <2>1, Stutters DEF program, device
  <1> QED BY <1>6, <1>7

\* A beat written is the abstract memory's Land.
LEMMA WriteBeatMaps == BridgeInv /\ WriteBeat => [Axi!Next]_(Axi!vars)
  <1> SUFFICES ASSUME BridgeInv, WriteBeat PROVE Axi!Next \/ UNCHANGED Axi!vars
    OBVIOUS
  <1>1. BridgeInv'
    BY WriteBeatStep
  <1>2. /\ phase = "beat" /\ phase' = "ar"
        /\ UNCHANGED <<program, device, io, rresp, bFire, rFire>>
    BY DEF WriteBeat
  <1>3. /\ Given = answers \o bresp /\ Given' = answers \o bresp'
        /\ Owed' = Owed /\ Taken' = Taken
    BY <1>2 DEF Given, Owed, Taken, device, program
  <1>4. CASE UNCHANGED <<latch, wbeats, bresp, mem>>
    <2>1. Landed' = Landed /\ Given' = Given
      BY <1>2, <1>3, <1>4 DEF Landed, Beats, program, latch
    <2>2. FailedGiven' = FailedGiven
      BY <1>4, <2>1 DEF FailedGiven, latch
    <2> QED BY <1>1, <1>2, <1>3, <1>4, <2>1, <2>2, Stutters DEF program, device
  <1>5. ASSUME NEW w, NEW bad, LandsBeat(w, bad) PROVE Axi!Next
    <2>1. /\ w \in Beat /\ w = wbeats[1] /\ w.data = <<awId, awBeat + 1>>
          /\ awId \in DOMAIN writes /\ awId \in Nat \ {0}
          /\ awBeat \in Nat /\ awBeat + 1 \in 1 .. Beats(awId) /\ Beats(awId) \in Nat
          /\ w.strb = writes[awId].strobes[awBeat + 1]
          /\ w.last <=> awBeat + 1 = Beats(awId)
          /\ writes[awId].addr \in Nat
      BY <1>5, LandingBeat
    <2>2. DOMAIN writes = 1 .. Len(writes) /\ Len(writes) \in Nat
      BY WriteProgram DEF BridgeInv, TypeOK
    <2>3. /\ awActive /\ awId' = awId /\ awBeat' = awBeat + 1 /\ bad \in SUBSET w.strb
          /\ status \in BOOLEAN /\ status' = (status \/ bad # {})
          /\ mem' = Written(w, writes[awId].addr + awBeat, bad)
          /\ bresp' = IF w.last THEN Append(bresp, [id |-> awId, ok |-> ~status']) ELSE bresp
      BY <1>5 DEF LandsBeat, BridgeInv, TypeOK
    <2>4. \A k \in DOMAIN writes : Landed[k] = IF k < awId THEN Beats(k) ELSE IF k = awId THEN awBeat ELSE 0
      BY <2>1, <2>2 DEF Landed
    <2>5. Landed[awId] = awBeat /\ \A i \in 1 .. awId - 1 : Landed[i] = Beats(i)
      BY <2>1, <2>2, <2>4
    <2>6. Landed' = [Landed EXCEPT ![awId] = awBeat + 1]
      <3> DEFINE new(k) == CASE k < awId -> Beats(k) [] k = awId -> awBeat + 1 [] OTHER -> 0
      <3>1. Landed' = [k \in DOMAIN writes |-> new(k)]
        BY <1>2, <2>3 DEF Landed, Beats, program
      <3>2. ASSUME NEW k \in DOMAIN writes
            PROVE  new(k) = IF k = awId THEN awBeat + 1 ELSE Landed[k]
        BY <2>1, <2>2, <2>4
      <3>3. Landed = [k \in DOMAIN writes |-> Landed[k]]
        BY DEF Landed
      <3> HIDE DEF new
      <3> QED BY <3>1, <3>2, <3>3
    <2>7. mem' = Axi!Stored(mem, writes[awId].addr + (awBeat + 1) - 1, <<awId, awBeat + 1>>,
                            w.strb \ bad)
      <3>1. writes[awId].addr + (awBeat + 1) - 1 = writes[awId].addr + awBeat
        BY <2>1
      <3> QED BY <2>1, <2>3, <3>1 DEF Written, Axi!Stored
    <2>8. Given \in Seq(WriteResp) /\ answers \in Seq(WriteResp) /\ bresp \in Seq(WriteResp)
          /\ Len(Given) = awId - 1
      BY <2>3, GivenIsTyped DEF BridgeInv, AnswersInv
    <2>9. FailedGiven' = IF bad = {} THEN FailedGiven ELSE FailedGiven \union {awId}
      <3>1. CASE w.last
        <4> DEFINE x == [id |-> awId, ok |-> ~status']
        <4>1. x \in WriteResp
          BY <2>1, <2>3 DEF WriteResp
        <4>2. Given' = Append(Given, x)
          <5>1. bresp' = Append(bresp, x)
            BY <2>3, <3>1
          <5> HIDE DEF x
          <5> QED BY <1>3, <2>8, <4>1, <5>1, AppendAfter
        <4>3. /\ Len(Given') = awId /\ Given'[awId] = x
              /\ \A i \in 1 .. awId - 1 : Given'[i] = Given[i]
          <5> HIDE DEF x
          <5> QED BY <2>1, <2>8, <4>1, <4>2, AppendProperties
        <4>4. Given'[awId].ok = ~status'
          BY <4>3
        <4>5. {i \in 1 .. Len(Given') : ~Given'[i].ok}
                = {i \in 1 .. Len(Given) : ~Given[i].ok} \union (IF status' THEN {awId} ELSE {})
          <5>1. ~Given'[awId].ok <=> status'
            BY <2>3, <4>4
          <5>2. /\ 1 .. Len(Given') = (1 .. Len(Given)) \union {awId}
                /\ awId \notin 1 .. Len(Given)
                /\ \A i \in 1 .. Len(Given) : Given'[i] = Given[i]
            BY <2>1, <2>8, <4>3
          <5> QED BY <5>1, <5>2
        <4> QED BY <2>3, <4>5 DEF FailedGiven
      <3>2. CASE ~w.last
        <4>1. Given' = Given
          BY <1>3, <2>3, <3>2
        <4> QED BY <2>3, <4>1 DEF FailedGiven
      <3> QED BY <3>1, <3>2
    <2>10. Failed = FailedGiven /\ Failed' = FailedGiven'
      <3>1. (BridgeInv => Failed = FailedGiven)'
        BY FailedIsGiven, PTL
      <3> QED BY <1>1, <3>1, FailedIsGiven
    <2>11. Axi!Land(awId, bad)
      <3>1. Landed[awId] < Axi!Beats(awId)
        BY <2>1, <2>5 DEF Beats, Axi!Beats
      <3>2. \A i \in 1 .. awId - 1 : Landed[i] = Axi!Beats(i)
        BY <2>5 DEF Beats, Axi!Beats
      <3>3. w.strb = writes[awId].strobes[Landed[awId] + 1] /\ Landed[awId] + 1 = awBeat + 1
        BY <2>1, <2>5
      <3>4. UNCHANGED <<writes, reads, answers, Owed, Taken, seen>>
        BY <1>2, <1>3 DEF program, device
      <3>5. Failed' = IF bad = {} THEN Failed ELSE Failed \union {awId}
        BY <2>9, <2>10
      <3> QED BY <2>3, <2>6, <2>7, <3>1, <3>2, <3>3, <3>4, <3>5 DEF Axi!Land
    <2>12. bad \in SUBSET Lanes
      BY <2>1, <2>3 DEF Beat
    <2> QED BY <2>1, <2>11, <2>12 DEF Axi!Next
  <1>6. CASE awActive /\ wbeats # <<>>
    <2>1. PICK bad : LandsBeat(Head(wbeats), bad)
      BY <1>6 DEF WriteBeat, LandsBeat, Sticky
    <2> QED BY <1>5, <2>1
  <1>7. CASE ~(awActive /\ wbeats # <<>>)
    BY <1>4, <1>7 DEF WriteBeat
  <1> QED BY <1>6, <1>7

\* An edge at which the device takes a response is the abstract memory's Deliver.
LEMMA EdgeMaps == BridgeInv /\ Edge => [Axi!Next]_(Axi!vars)
  <1> SUFFICES ASSUME BridgeInv, Edge PROVE Axi!Next \/ UNCHANGED Axi!vars
    OBVIOUS
  <1>1. BridgeInv'
    BY EdgeStep
  <1>2. /\ phase = "edge" /\ phase' = "pop"
        /\ UNCHANGED <<writes, reads, latch, bresp, rresp, bFire, rFire, mem>>
        /\ bFire \in BOOLEAN /\ rFire \in BOOLEAN
    BY DEF Edge, program, BridgeInv, TypeOK
  <1>3. Landed' = Landed
    BY <1>2 DEF Landed, Beats, latch
  <1>4. Owed = rresp /\ Owed' = (IF rFire THEN Tail(rresp) ELSE rresp)
    BY <1>2 DEF Owed
  <1>5. Taken' = Taken
    <2>1. ark \in Nat
      BY ReadProgram DEF BridgeInv, TypeOK
    <2> QED BY <1>2, <2>1 DEF Edge, Taken
  <1>6. Given' = Given
    <2>1. Given = answers \o bresp /\ Given' = answers' \o (IF bFire THEN Tail(bresp) ELSE bresp)
      BY <1>2 DEF Given
    <2> QED BY <2>1, EdgeTakesHeads, MoveHead
  <1>7. FailedGiven' = FailedGiven
    BY <1>2, <1>6 DEF FailedGiven, latch
  <1>8. CASE bFire \/ rFire
    <2>1. Failed = FailedGiven /\ Failed' = FailedGiven'
      <3>1. (BridgeInv => Failed = FailedGiven)'
        BY FailedIsGiven, PTL
      <3> QED BY <1>1, <3>1, FailedIsGiven
    <2> DEFINE k == Len(answers) + 1
    <2>2. ASSUME bFire
          PROVE  /\ k \in DOMAIN writes /\ Landed[k] = Beats(k)
                 /\ Head(bresp) = [id |-> k, ok |-> k \notin Failed]
      <3>1. /\ answers \in Seq(WriteResp) /\ bresp \in Seq(WriteResp) /\ bresp # <<>>
            /\ Len(answers) \in Nat /\ Len(bresp) \in Nat \ {0}
        BY <2>2, EdgeTakesHeads, EmptySeq
      <3>2. Given = answers \o bresp
        BY <1>2 DEF Given
      <3>3. Len(Given) = Len(answers) + Len(bresp) /\ Given[k] = bresp[1]
        <4>1. (answers \o bresp)[k] = bresp[k - Len(answers)] /\ k - Len(answers) = 1
          BY <3>1, ConcatProperties
        <4> QED BY <3>1, <3>2, <4>1, ConcatProperties
      <3>4. k \in 1 .. Len(Given) /\ Head(bresp) = Given[k] /\ Head(bresp) \in WriteResp
        BY <3>1, <3>3, HeadTailProperties
      <3>5. /\ awId \in 0 .. Len(writes) /\ Len(writes) \in Nat /\ DOMAIN writes = 1 .. Len(writes)
            /\ awActive \in BOOLEAN /\ status \in BOOLEAN
        BY WriteProgram DEF BridgeInv, TypeOK
      <3>6. Len(Given) = (IF awActive THEN awId - 1 ELSE awId)
        BY DEF BridgeInv, AnswersInv
      <3>7. k \in DOMAIN writes /\ (k < awId \/ (k = awId /\ ~awActive))
        BY <3>1, <3>4, <3>5, <3>6
      <3>8. Landed[k] = Beats(k)
        <4>1. CASE k < awId
          BY <3>7, <4>1 DEF Landed
        <4>2. CASE k = awId /\ ~awActive
          <5>1. awBeat = Beats(awId) /\ awId \in Nat
            BY <3>1, <3>5, <4>2 DEF BridgeInv, LatchInv
          <5>2. Landed[k] = awBeat
            BY <3>7, <4>2, <5>1 DEF Landed
          <5> QED BY <4>2, <5>1, <5>2 DEF Beats
        <4> QED BY <3>7, <4>1, <4>2
      <3>9. Given[k].id = k
        BY <3>4 DEF BridgeInv, AnswersInv
      <3>10. k \in FailedGiven <=> ~Given[k].ok
        <4>1. status /\ k = awId => ~Given[k].ok
          <5> SUFFICES ASSUME status, k = awId PROVE ~Given[k].ok
            OBVIOUS
          <5>1. ~awActive /\ awId >= 1
            BY <3>1, <3>5, <3>7
          <5>2. Given[awId].ok = ~status
            BY <5>1 DEF BridgeInv, AnswersInv
          <5> QED BY <5>2
        <4> HIDE DEF k
        <4> QED BY <3>4, <4>1 DEF FailedGiven
      <3>11. Given[k] = [id |-> k, ok |-> k \notin Failed]
        <4>1. Given[k] \in [id : Nat, ok : BOOLEAN]
          BY <3>4 DEF WriteResp
        <4>2. Given[k].ok = (k \notin Failed)
          BY <2>1, <3>10, <4>1
        <4> HIDE DEF k
        <4> QED BY <3>9, <4>1, <4>2
      <3> QED BY <3>4, <3>7, <3>8, <3>11
    <2>3. Axi!Deliver(bFire, rFire)
      <3>1. bFire => k \in DOMAIN writes /\ Landed[k] = Axi!Beats(k)
        BY <2>2 DEF Axi!Beats, Beats
      <3>2. answers' = IF bFire THEN Append(answers, [id |-> k, ok |-> k \notin Failed]) ELSE answers
        BY <2>2, EdgeTakesHeads
      <3>3. /\ rFire => Owed # <<>>
            /\ seen' = IF rFire THEN Append(seen, Head(Owed)) ELSE seen
            /\ Owed' = IF rFire THEN Tail(Owed) ELSE Owed
        BY <1>4, EdgeTakesHeads
      <3>4. UNCHANGED <<writes, reads, mem, Landed, Failed, Taken>>
        BY <1>2, <1>3, <1>5, <1>7, <2>1
      <3> QED BY <1>8, <3>1, <3>2, <3>3, <3>4 DEF Axi!Deliver
    <2> QED BY <1>2, <2>3 DEF Axi!Next
  <1>9. CASE ~bFire /\ ~rFire
    <2>1. answers' = answers /\ seen' = seen /\ Owed' = Owed
      BY <1>4, <1>9, EdgeTakesHeads
    <2> QED BY <1>1, <1>2, <1>3, <1>5, <1>7, <2>1, Stutters
  <1> QED BY <1>2, <1>8, <1>9

LEMMA MapsInit == Init => Axi!Init
  <1> SUFFICES ASSUME Init PROVE Axi!Init
    OBVIOUS
  <1>1. Landed = [k \in DOMAIN writes |-> 0]
    <2>1. DOMAIN writes = 1 .. Len(writes) /\ Len(writes) \in Nat
      BY WriteProgram DEF Init
    <2>2. awId = 0 /\ awBeat = 0
      BY DEF Init
    <2> QED BY <2>1, <2>2 DEF Landed
  <1>2. Failed = {}
    BY DEF Init, Failed, BadAnswer
  <1>3. Owed = <<>> /\ Taken = 0 /\ answers = <<>> /\ seen = <<>>
    BY DEF Init, Owed, Taken
  <1> QED BY <1>1, <1>2, <1>3 DEF Axi!Init

LEMMA MapsStep == BridgeInv /\ [Next]_vars => [Axi!Next]_(Axi!vars)
  <1> SUFFICES ASSUME BridgeInv, UNCHANGED vars PROVE UNCHANGED Axi!vars
    BY DriveMaps, CaptureAwMaps, CaptureWMaps, WriteBeatMaps, CaptureArMaps, EdgeMaps, PopMaps
       DEF Next
  <1>1. BridgeInv'
    BY BridgeStep
  <1>2. Landed' = Landed /\ Owed' = Owed /\ Taken' = Taken /\ Given' = Given
    BY DEF vars, program, device, latch, Landed, Beats, Owed, Taken, Given
  <1>3. FailedGiven' = FailedGiven
    BY <1>2 DEF vars, latch, FailedGiven
  <1> QED BY <1>1, <1>2, <1>3, Stutters DEF vars, program, device

\* The bridge of tick_with is a memory behind an AXI port: every beat lands at its
\* own address in order, each write is answered once with the status of all of its
\* beats, and each read beat reaches the device once, in order, as memory was at one
\* instant, for every program, admission limit and choice of failing callbacks.
THEOREM BridgeIsMemory == Spec => IsMemory
  <1> QED BY MapsInit, MapsStep, BridgeHolds, PTL DEF Spec, IsMemory, Axi!Spec
=============================================================================
