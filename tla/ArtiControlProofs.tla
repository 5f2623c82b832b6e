--------------------------- MODULE ArtiControlProofs ---------------------------
(***************************************************************************)
(* The safety of the ARTI host's calls, for every time-out, budget and     *)
(* device that serves one write and one read at a time, however late.      *)
(*                                                                         *)
(* One invariant carries all of it.  It says, place by place, what the     *)
(* control inputs ask for, which call is running, how far the slave has    *)
(* come with the latest request, and how the activity counters relate to   *)
(* the time since the last memory traffic.                                 *)
(***************************************************************************)
EXTENDS ArtiControl, TLAPS

\* What each place of a call knows about the inputs and the call.
PlaceInv ==
    /\ pc = "waddr" => mode = "aw" /\ call = "write" /\ saw \subseteq {"aw", "w"}
    /\ pc = "wresp" => mode = "b" /\ call = "write"
    /\ pc = "raddr" => mode = "ar" /\ call = "read"
    /\ pc = "rdata" => mode = "r" /\ call = "read"
    /\ pc \in {"rtake", "rdone"} => call = "read"
    /\ pc = "settle" => mode = "none"
    /\ pc \in {"waddr", "wresp", "raddr", "rdata", "rtake", "rdone", "settle"} => op # 0

\* The slave accepts only what it has room for.
RoomInv ==
    /\ slave.awready => slave.aw = 0 /\ ~slave.bvalid
    /\ slave.wready => slave.w = 0 /\ ~slave.bvalid
    /\ slave.arready => slave.r = 0

\* From its address on, the read being served is the latest.
ReadInv ==
    /\ pc = "raddr" /\ "ar" \in saw => slave.r = op
    /\ pc = "rdata" => slave.r = op
    /\ ReadIsItsOwn

\* Both halves of the latest write are held, or it has just taken effect.
Served == effects = 1 /\ slave.aw = 0 /\ slave.w = 0
Held == ~slave.bvalid /\ effects = 0 /\ slave.aw = op /\ slave.w = op

\* Until both halves are accepted, either an answer to some earlier write blocks
\* the slave, or what has been accepted is still there.
WriteInv ==
    /\ pc = "waddr" /\ ~BothAccepted =>
        \/ slave.bvalid
        \/ /\ effects = 0
           /\ "aw" \in saw => slave.aw = op
           /\ "w" \in saw => slave.w = op
    /\ pc = "waddr" /\ BothAccepted => Held \/ (slave.bvalid /\ Served)
    /\ pc = "wresp" /\ "b" \notin saw => Held \/ (slave.bvalid /\ Served)
    /\ pc = "wresp" /\ "b" \in saw => Served
    /\ pc = "settle" /\ call = "write" => Served

\* In a loop the tail counts the silent ticks up to its budget, and past the
\* budget the idle counter counts them.
LoopInv ==
    /\ pc = "settle" =>
        /\ tail = IF silentFor < ChgTail THEN silentFor ELSE ChgTail
        /\ silentFor >= ChgTail => idle > IdleGrace \/ idle + ChgTail > silentFor
        /\ n >= SettleMin => idle <= IdleGrace
    /\ pc = "pump" =>
        /\ silentFor <= ChgTail /\ tail = silentFor
        /\ axi => silentFor = 0

IInv == TypeOK /\ DeviceSeesInputs /\ PlaceInv /\ RoomInv /\ ReadInv /\ WriteInv /\ LoopInv

SlaveType == [aw : 0 .. Tags, w : 0 .. Tags, r : 0 .. Tags,
              bvalid : BOOLEAN, rvalid : BOOLEAN,
              awready : BOOLEAN, wready : BOOLEAN, arready : BOOLEAN]

Constants == 
    /\ Timeout \in Nat /\ Timeout > 0
    /\ SettleMin \in Nat /\ SettleMin > 0
    /\ IdleGrace \in Nat /\ IdleGrace > 0
    /\ ChgTail \in Nat /\ ChgTail > 0
    /\ Advance \in Nat /\ Advance > 0
    /\ PumpCap \in Nat /\ PumpCap > 0
    /\ Tags \in Nat /\ Tags > 0
    /\ MaxJob \in Nat /\ MaxSilence \in Nat /\ MaxTickN \in Nat
    /\ WallClock \in BOOLEAN /\ FreeRunning \in BOOLEAN /\ Prompt \in BOOLEAN

LEMMA ConstantFacts == Constants
  BY ControlAssumption DEF Constants

-----------------------------------------------------------------------------
(* One edge. *)

AwAfter(m) == IF m = "aw" /\ slave.awready THEN op ELSE slave.aw
WAfter(m) == IF m = "aw" /\ slave.wready THEN op ELSE slave.w
RAfter(m) == IF slave.rvalid /\ m = "r" THEN 0
             ELSE IF m = "ar" /\ slave.arready THEN op ELSE slave.r

\* What an edge does to the control slave.
SlaveMoves(m, perform) ==
    /\ perform => AwAfter(m) # 0 /\ WAfter(m) # 0 /\ ~slave.bvalid
    /\ effects' = IF perform /\ AwAfter(m) = op /\ WAfter(m) = op
                  THEN effects + 1 ELSE effects
    /\ slave'.aw = IF perform THEN 0 ELSE AwAfter(m)
    /\ slave'.w = IF perform THEN 0 ELSE WAfter(m)
    /\ slave'.bvalid = (perform \/ (slave.bvalid /\ m # "b"))
    /\ slave'.r = RAfter(m)
    /\ slave' \in SlaveType
    /\ job' \in 0 .. MaxJob

LEMMA ChoiceFacts ==
    ASSUME NEW may \in BOOLEAN, NEW x \in Choice(may)
    PROVE  x \in BOOLEAN /\ (x => may)
  BY DEF Choice

LEMMA SlaveEdgeFacts ==
    ASSUME TypeOK, NEW m, SlaveEdge(m)
    PROVE  RoomInv' /\ \E perform \in BOOLEAN : SlaveMoves(m, perform)
  <1> USE ConstantFacts DEF Constants
  <1> DEFINE aw == AwAfter(m)
             w == WAfter(m)
             bLeft == slave.bvalid /\ m # "b"
             rLeft == slave.rvalid /\ m # "r"
             ar == IF m = "ar" /\ slave.arready THEN op ELSE slave.r
             r == IF slave.rvalid /\ ~rLeft THEN 0 ELSE ar
  <1>0. /\ slave \in SlaveType /\ op \in 0 .. Tags /\ job \in 0 .. MaxJob
    BY DEF TypeOK, SlaveType
  <1>1. PICK perform \in Choice(aw # 0 /\ w # 0 /\ ~slave.bvalid), answer \in Choice(r # 0) :
        /\ effects' = IF perform /\ aw = op /\ w = op THEN effects + 1 ELSE effects
        /\ job' \in IF perform /\ job = 0 THEN 0 .. MaxJob
                   ELSE {IF job > 0 THEN job - 1 ELSE 0}
        /\ \E awready \in Choice((IF perform THEN 0 ELSE aw) = 0 /\ ~(perform \/ bLeft)),
              wready \in Choice((IF perform THEN 0 ELSE w) = 0 /\ ~(perform \/ bLeft)),
              arready \in Choice(r = 0) :
               slave' = [aw |-> IF perform THEN 0 ELSE aw,
                         w |-> IF perform THEN 0 ELSE w,
                         bvalid |-> perform \/ bLeft,
                         r |-> r, rvalid |-> rLeft \/ answer,
                         awready |-> awready, wready |-> wready, arready |-> arready]
    BY DEF SlaveEdge, AwAfter, WAfter
  <1>2. PICK awready \in Choice((IF perform THEN 0 ELSE aw) = 0 /\ ~(perform \/ bLeft)),
             wready \in Choice((IF perform THEN 0 ELSE w) = 0 /\ ~(perform \/ bLeft)),
             arready \in Choice(r = 0) :
               slave' = [aw |-> IF perform THEN 0 ELSE aw,
                         w |-> IF perform THEN 0 ELSE w,
                         bvalid |-> perform \/ bLeft,
                         r |-> r, rvalid |-> rLeft \/ answer,
                         awready |-> awready, wready |-> wready, arready |-> arready]
    BY <1>1
  <1>3. perform \in BOOLEAN /\ (perform => aw # 0 /\ w # 0 /\ ~slave.bvalid)
    BY ChoiceFacts
  <1>4. answer \in BOOLEAN
    BY ChoiceFacts
  <1>5. awready \in BOOLEAN /\ (awready => (IF perform THEN 0 ELSE aw) = 0 /\ ~(perform \/ bLeft))
    BY ChoiceFacts
  <1>6. wready \in BOOLEAN /\ (wready => (IF perform THEN 0 ELSE w) = 0 /\ ~(perform \/ bLeft))
    BY ChoiceFacts
  <1>7. arready \in BOOLEAN /\ (arready => r = 0)
    BY ChoiceFacts
  <1>8. aw \in 0 .. Tags /\ w \in 0 .. Tags /\ r \in 0 .. Tags
    BY <1>0 DEF SlaveType, AwAfter, WAfter
  <1>9. r = RAfter(m)
    BY <1>0 DEF RAfter, SlaveType
  <1>10. bLeft \in BOOLEAN /\ rLeft \in BOOLEAN
    OBVIOUS
  <1>11. job' \in 0 .. MaxJob
    BY <1>0, <1>1
  <1>12. effects' = IF perform /\ aw = op /\ w = op THEN effects + 1 ELSE effects
    BY <1>1
  <1>13. /\ slave'.aw = IF perform THEN 0 ELSE aw
         /\ slave'.w = IF perform THEN 0 ELSE w
         /\ slave'.bvalid = (perform \/ bLeft)
         /\ slave'.r = r
         /\ slave'.awready = awready /\ slave'.wready = wready /\ slave'.arready = arready
    <2> HIDE DEF aw, w, r, bLeft, rLeft
    <2> QED BY <1>2
  <1>14. slave' \in SlaveType
    <2>1. (IF perform THEN 0 ELSE aw) \in 0 .. Tags /\ (IF perform THEN 0 ELSE w) \in 0 .. Tags
      BY <1>8
    <2>2. (perform \/ bLeft) \in BOOLEAN /\ (rLeft \/ answer) \in BOOLEAN
      OBVIOUS
    <2> HIDE DEF aw, w, r, bLeft, rLeft
    <2> QED BY <1>2, <1>5, <1>6, <1>7, <1>8, <2>1, <2>2 DEF SlaveType
  <1>15. RoomInv'
    <2> HIDE DEF aw, w, r, bLeft, rLeft
    <2> QED BY <1>5, <1>6, <1>7, <1>13 DEF RoomInv
  <1>16. SlaveMoves(m, perform)
    <2>1. aw = AwAfter(m) /\ w = WAfter(m) /\ bLeft = (slave.bvalid /\ m # "b")
      OBVIOUS
    <2> HIDE DEF aw, w, r, bLeft, rLeft
    <2> QED BY <1>3, <1>9, <1>11, <1>12, <1>13, <1>14, <2>1 DEF SlaveMoves
  <1> QED BY <1>3, <1>15, <1>16

\* A tick: the device has the inputs, and every part keeps its range.
LEMMA TickFacts ==
    ASSUME TypeOK, DeviceSeesInputs, TickWith
    PROVE  /\ memIn' \in {0, 1} /\ image' = <<mode, memIn'>>
           /\ RoomInv' /\ \E perform \in BOOLEAN : SlaveMoves(mode, perform)
           /\ silence' \in 0 .. MaxSilence
           /\ axi' \in BOOLEAN /\ chg' \in BOOLEAN
           /\ tail' = IF axi' THEN 0 ELSE Spent
           /\ idle' = IF Active' THEN 0 ELSE IF idle > IdleGrace THEN idle ELSE idle + 1
           /\ silentFor' = IF axi' THEN 0
                           ELSE IF silentFor > SilenceLimit THEN silentFor ELSE silentFor + 1
           /\ idle' \in 0 .. IdleGrace + 1 /\ tail' \in 0 .. ChgTail
           /\ silentFor' \in 0 .. SilenceLimit + 1
  <1> USE ConstantFacts DEF Constants
  <1>1. memIn' \in {0, 1}
    BY DEF TickWith
  <1>2. image' = <<mode, memIn'>>
    BY DEF TickWith, Poked, DeviceSeesInputs
  <1>3. image'[1] = mode
    BY <1>2
  <1>4. DeviceEdge(mode) /\ Counted
    BY <1>3 DEF TickWith
  <1>5. RoomInv' /\ \E perform \in BOOLEAN : SlaveMoves(mode, perform)
    BY <1>4, SlaveEdgeFacts DEF DeviceEdge
  <1>6. axi' \in BOOLEAN /\ (job' # 0 /\ silence >= MaxSilence => axi')
    BY <1>4 DEF DeviceEdge
  <1>7. silence' = IF axi' \/ job' = 0 THEN 0 ELSE silence + 1
    BY <1>4 DEF DeviceEdge
  <1>8. silence \in 0 .. MaxSilence
    BY DEF TypeOK
  <1>9. silence' \in 0 .. MaxSilence
    BY <1>6, <1>7, <1>8
  <1>10. chg' \in BOOLEAN
    BY <1>4 DEF DeviceEdge
  <1>11. /\ tail' = IF axi' THEN 0 ELSE Spent
         /\ idle' = IF Active' THEN 0 ELSE IF idle > IdleGrace THEN idle ELSE idle + 1
         /\ silentFor' = IF axi' THEN 0
                         ELSE IF silentFor > SilenceLimit THEN silentFor ELSE silentFor + 1
    BY <1>4 DEF Counted
  <1>12. /\ idle \in 0 .. IdleGrace + 1 /\ tail \in 0 .. ChgTail
         /\ silentFor \in 0 .. SilenceLimit + 1
    BY DEF TypeOK
  <1>13. tail' \in 0 .. ChgTail
    BY <1>11, <1>12 DEF Spent
  <1>14. idle' \in 0 .. IdleGrace + 1
    BY <1>11, <1>12
  <1>15. silentFor' \in 0 .. SilenceLimit + 1
    BY <1>11, <1>12 DEF SilenceLimit
  <1> QED BY <1>1, <1>2, <1>5, <1>6, <1>9, <1>10, <1>11, <1>13, <1>14, <1>15

-----------------------------------------------------------------------------
(* Type correctness. *)

\* TypeOK, except for what an edge changes.
QuietType == settleQuiet \in BOOLEAN /\ (settleQuiet <=> pc \in {"settle", "pump"})

HostType ==
    /\ pc \in Places /\ call \in {"init", "write", "read", "irq", "ticks"}
    /\ op \in 0 .. Tags /\ data \in 0 .. Tags
    /\ saw \subseteq {"aw", "w", "b", "ar"}
    /\ n \in Nat
    /\ pc \in {"waddr", "wresp", "raddr", "rdata", "rtake", "rdone"} => n <= Timeout
    /\ pc = "settle" => n < Advance
    /\ pc = "pump" => n <= PumpCap
    /\ pc = "ticks" => n \in 1 .. MaxTickN
    /\ pc = "idle" => n = 0
    /\ mode \in Modes
    /\ QuietType

EdgeType ==
    /\ memIn \in {0, 1} /\ image \in Modes \X {0, 1}
    /\ idle \in 0 .. IdleGrace + 1 /\ tail \in 0 .. ChgTail
    /\ silentFor \in 0 .. SilenceLimit + 1
    /\ slave \in SlaveType
    /\ job \in 0 .. MaxJob /\ silence \in 0 .. MaxSilence
    /\ axi \in BOOLEAN /\ chg \in BOOLEAN /\ effects \in Nat

LEMMA TypeSplit == TypeOK <=> HostType /\ EdgeType
  BY DEF TypeOK, HostType, QuietType, EdgeType, SlaveType

\* A tick keeps the device and the counters in range.
LEMMA TickType ==
    ASSUME TypeOK, DeviceSeesInputs, TickWith, mode' = mode
    PROVE  EdgeType' /\ DeviceSeesInputs' /\ RoomInv'
  <1>1. PICK perform \in BOOLEAN : SlaveMoves(mode, perform)
    BY TickFacts
  <1>2. slave' \in SlaveType /\ job' \in 0 .. MaxJob
    BY <1>1 DEF SlaveMoves
  <1>3. effects' \in Nat
    BY <1>1 DEF SlaveMoves, TypeOK
  <1>4. DeviceSeesInputs'
    BY TickFacts DEF DeviceSeesInputs
  <1>5. memIn' \in {0, 1} /\ image' \in Modes \X {0, 1}
    BY TickFacts DEF TypeOK
  <1>6. RoomInv'
    BY TickFacts
  <1> QED BY <1>2, <1>3, <1>4, <1>5, <1>6, TickFacts DEF EdgeType

\* The steps that tick.
Ticking ==
    \/ WriteAddr \/ WriteResp \/ ReadAddr \/ (ReadData /\ ~slave.rvalid)
    \/ ReadTake \/ Settle \/ Pump \/ TickN

\* The steps between two ticks.
Between ==
    \/ BeginWrite \/ BeginRead \/ CheckIrq
    \/ \E k \in 1 .. MaxTickN : BeginTicks(k)
    \/ WriteAddrDone \/ WriteRespDone \/ ReadAddrDone
    \/ (ReadData /\ slave.rvalid) \/ ReadTimeout \/ ReadDone \/ PumpDone

LEMMA NextCases == Next => Ticking \/ Between
  BY DEF Next, Continue, Ticking, Between

LEMMA TickingTicks == Ticking => TickWith /\ mode' = mode /\ call' = call /\ op' = op
  BY DEF Ticking, WriteAddr, WriteResp, ReadAddr, ReadData, ReadTake, Settle, Pump, TickN,
         Turn, Return

LEMMA EmptyFacts == {} \subseteq {"aw", "w", "b", "ar"} /\ 0 \in 0 .. Tags
  BY ConstantFacts DEF Constants

LEMMA InitInv == Init => IInv
  <1> SUFFICES ASSUME Init PROVE IInv
    OBVIOUS
  <1> USE ConstantFacts DEF Constants
  <1>1. HostType
    <2>1. QuietType
      BY DEF Init, QuietType
    <2> QED BY <2>1, EmptyFacts DEF Init, HostType, Places, Modes
  <1>2. EdgeType
    <2>1. slave \in SlaveType
      BY DEF Init, SlaveType
    <2>2. /\ memIn \in {0, 1} /\ image \in Modes \X {0, 1}
          /\ axi \in BOOLEAN /\ chg \in BOOLEAN
      BY DEF Init, Modes
    <2>3. /\ idle \in 0 .. IdleGrace + 1 /\ tail \in 0 .. ChgTail
          /\ silentFor \in 0 .. SilenceLimit + 1
          /\ job \in 0 .. MaxJob /\ silence \in 0 .. MaxSilence /\ effects \in Nat
      BY DEF Init, SilenceLimit
    <2> QED BY <2>1, <2>2, <2>3 DEF EdgeType
  <1>3. TypeOK
    BY <1>1, <1>2, TypeSplit
  <1>4. PlaceInv /\ RoomInv /\ ReadInv /\ WriteInv /\ LoopInv /\ DeviceSeesInputs
    BY DEF Init, PlaceInv, RoomInv, ReadInv, ReadIsItsOwn, WriteInv, LoopInv, DeviceSeesInputs
  <1> QED BY <1>3, <1>4 DEF IInv

LEMMA TickingHost ==
    ASSUME TypeOK, Ticking
    PROVE  HostType'
  <1> USE ConstantFacts DEF Constants
  <1>0. HostType
    BY TypeSplit
  <1>1. CASE WriteAddr \/ WriteResp \/ ReadAddr \/ (ReadData /\ ~slave.rvalid)
    <2>1. PICK seen \in SUBSET {"aw", "w", "b", "ar"} : Turn(seen)
      BY <1>1 DEF WriteAddr, WriteResp, ReadAddr, ReadData
    <2>2. pc \in {"waddr", "wresp", "raddr", "rdata"} /\ n < Timeout
      BY <1>1 DEF WriteAddr, WriteResp, ReadAddr, ReadData
    <2>3. saw' \subseteq {"aw", "w", "b", "ar"} /\ n' \in Nat /\ n' <= Timeout
      BY <1>0, <2>1, <2>2 DEF Turn, HostType
    <2>4. UNCHANGED <<pc, call, op, data, mode, settleQuiet>>
      BY <2>1 DEF Turn
    <2> QED BY <1>0, <2>2, <2>3, <2>4 DEF HostType, QuietType
  <1>2. CASE ReadTake
    BY <1>0, <1>2 DEF ReadTake, HostType, QuietType, Places
  <1>3. CASE Settle
    <2>1. CASE Return /\ settleQuiet' = FALSE
      <3>1. QuietType'
        BY <2>1 DEF Return, QuietType
      <3>2. UNCHANGED <<call, op, mode>>
        BY <1>3 DEF Settle
      <3> QED BY <1>0, <2>1, <3>1, <3>2, EmptyFacts DEF Return, HostType, Places
    <2>2. CASE n' = n + 1 /\ n + 1 # Advance /\ UNCHANGED <<pc, saw, data, settleQuiet>>
      BY <1>0, <1>3, <2>2 DEF Settle, HostType, QuietType
    <2> QED BY <1>3, <2>1, <2>2 DEF Settle
  <1>4. CASE Pump
    <2>1. n' \in Nat /\ n' <= PumpCap
      BY <1>0, <1>4 DEF Pump, HostType
    <2> QED BY <1>0, <1>4, <2>1 DEF Pump, HostType, QuietType
  <1>5. CASE TickN
    <2>1. QuietType'
      BY <1>0, <1>5 DEF TickN, HostType, QuietType
    <2> QED BY <1>0, <1>5, <2>1 DEF TickN, HostType, Places
  <1> QED BY <1>1, <1>2, <1>3, <1>4, <1>5 DEF Ticking

LEMMA BetweenEdge ==
    ASSUME TypeOK, DeviceSeesInputs, Between
    PROVE  EdgeType' /\ DeviceSeesInputs'
  <1> USE ConstantFacts DEF Constants
  <1>0. EdgeType /\ mode \in Modes
    BY TypeSplit DEF HostType
  <1>1. CASE \E m \in Modes : Ask(m) /\ UNCHANGED <<memIn, slave, job, silence, axi, chg>>
                              /\ effects' \in {0, effects}
                              /\ tail' \in {0, tail} /\ silentFor' \in {0, silentFor}
                              /\ idle' \in {0, idle}
    BY <1>0, <1>1 DEF Ask, EdgeType, DeviceSeesInputs, SilenceLimit
  <1>2. CASE UNCHANGED <<mode, image, memIn, slave, job, silence, axi, chg>>
             /\ effects' \in {0, effects}
             /\ tail' \in {0, tail} /\ silentFor' \in {0, silentFor} /\ idle' \in {0, idle}
    BY <1>0, <1>2 DEF EdgeType, DeviceSeesInputs, SilenceLimit
  <1>3. CASE BeginWrite \/ BeginRead
    BY <1>1, <1>3 DEF BeginWrite, BeginRead, Begin, Modes
  <1>4. CASE CheckIrq
    BY <1>0, <1>1, <1>2, <1>4 DEF CheckIrq, FullTail, device
  <1>5. CASE PumpDone
    BY <1>0, <1>1, <1>5 DEF PumpDone, device
  <1>6. CASE \E k \in 1 .. MaxTickN : BeginTicks(k)
    BY <1>2, <1>6 DEF BeginTicks, ticking, device
  <1>7. CASE ReadData /\ slave.rvalid
    BY <1>2, <1>7 DEF ReadData, ticking, device
  <1>8. CASE Fail
    BY <1>2, <1>8 DEF Fail, ticking, device
  <1>9. CASE Enter("wresp", "b") \/ Enter("rdata", "r")
    BY <1>1, <1>9 DEF Enter, Modes, device
  <1>10. CASE BeginSettle
    BY <1>1, <1>10 DEF BeginSettle, FullTail, Modes, device
  <1> QED BY <1>3, <1>4, <1>5, <1>6, <1>7, <1>8, <1>9, <1>10
          DEF Between, WriteAddrDone, ReadAddrDone, ReadTimeout, WriteRespDone, ReadDone

LEMMA BetweenHost ==
    ASSUME TypeOK, Between
    PROVE  HostType'
  <1> USE ConstantFacts DEF Constants
  <1>0. HostType
    BY TypeSplit
  <1>1. CASE BeginWrite \/ BeginRead
    <2>1. (op % Tags) + 1 \in 0 .. Tags
      BY <1>0 DEF HostType
    <2> QED BY <1>0, <1>1, <2>1 DEF BeginWrite, BeginRead, Begin, Ask, HostType, QuietType, Places, Modes
  <1>2. CASE CheckIrq
    <2>1. CASE Active
      BY <1>0, <1>2, <2>1 DEF CheckIrq, HostType, QuietType, Places
    <2>2. CASE ~Active
      BY <1>0, <1>2, <2>2 DEF CheckIrq, Ask, HostType, QuietType
    <2> QED BY <2>1, <2>2
  <1>3. CASE \E k \in 1 .. MaxTickN : BeginTicks(k)
    <2>1. PICK k \in 1 .. MaxTickN : BeginTicks(k)
      BY <1>3
    <2> QED BY <1>0, <2>1 DEF BeginTicks, HostType, QuietType, Places
  <1>4. CASE Fail /\ pc \in {"waddr", "wresp", "raddr", "rdata"}
    BY <1>0, <1>4, EmptyFacts DEF Fail, Return, HostType, QuietType, Places
  <1>5. CASE /\ Enter("wresp", "b") \/ Enter("rdata", "r")
             /\ pc \in {"waddr", "raddr"}
    <2>1. /\ pc' \in {"wresp", "rdata"} /\ mode' \in {"b", "r"} /\ n' = 0
          /\ UNCHANGED <<call, op, saw, data, settleQuiet>>
      BY <1>5 DEF Enter, Ask
    <2>2. QuietType'
      BY <1>0, <1>5, <2>1 DEF HostType, QuietType
    <2> QED BY <1>0, <2>1, <2>2 DEF HostType, Places, Modes
  <1>6. CASE BeginSettle
    <2>1. QuietType'
      BY <1>6 DEF BeginSettle, QuietType
    <2> QED BY <1>0, <1>6, <2>1 DEF BeginSettle, Ask, HostType, Places, Modes
  <1>7. CASE ReadData /\ slave.rvalid
    <2>1. slave.r \in 0 .. Tags
      BY TypeSplit DEF EdgeType, SlaveType
    <2> QED BY <1>0, <1>7, <2>1 DEF ReadData, HostType, QuietType, Places
  <1>8. CASE PumpDone
    <2>1. QuietType'
      BY <1>8 DEF PumpDone, Return, QuietType
    <2>2. UNCHANGED <<call, op, mode>> /\ Return
      BY <1>8 DEF PumpDone, Ask
    <2> QED BY <1>0, <2>1, <2>2, EmptyFacts DEF Return, HostType, Places
  <1>9. CASE WriteAddrDone \/ ReadAddrDone \/ ReadTimeout \/ WriteRespDone \/ ReadDone
    BY <1>4, <1>5, <1>6, <1>9
    DEF WriteAddrDone, ReadAddrDone, ReadTimeout, WriteRespDone, ReadDone
  <1> QED BY <1>1, <1>2, <1>3, <1>7, <1>8, <1>9 DEF Between

-----------------------------------------------------------------------------
(* The places, and what the slave has room for. *)

LEMMA PlaceStep ==
    ASSUME TypeOK, PlaceInv, Next
    PROVE  PlaceInv'
  <1> USE ConstantFacts DEF Constants, PlaceInv
  <1>1. CASE BeginWrite \/ BeginRead
    <2>1. (op % Tags) + 1 # 0
      BY DEF TypeOK
    <2> QED BY <1>1, <2>1 DEF BeginWrite, BeginRead, Begin, Ask
  <1>2. CASE CheckIrq \/ PumpDone \/ \E k \in 1 .. MaxTickN : BeginTicks(k)
    BY <1>2 DEF CheckIrq, PumpDone, BeginTicks, Return
  <1>3. CASE WriteAddr
    BY <1>3 DEF WriteAddr, Turn
  <1>4. CASE WriteResp \/ ReadAddr
    BY <1>4 DEF WriteResp, ReadAddr, Turn
  <1>5. CASE ReadData
    BY <1>5 DEF ReadData, Turn
  <1>6. CASE ReadTake
    BY <1>6 DEF ReadTake
  <1>7. CASE Settle
    BY <1>7 DEF Settle, Return
  <1>8. CASE Pump \/ TickN
    BY <1>8 DEF Pump, TickN
  <1>9. CASE WriteAddrDone \/ ReadAddrDone
    BY <1>9 DEF WriteAddrDone, ReadAddrDone, Enter, Ask, Fail, Return
  <1>10. CASE WriteRespDone \/ ReadDone \/ ReadTimeout
    BY <1>10 DEF WriteRespDone, ReadDone, ReadTimeout, BeginSettle, Ask, Fail, Return
  <1> QED BY <1>1, <1>2, <1>3, <1>4, <1>5, <1>6, <1>7, <1>8, <1>9, <1>10 DEF Next, Continue

LEMMA BetweenSlave == Between => UNCHANGED <<slave, job, silence, axi, chg>>
  BY DEF Between, BeginWrite, BeginRead, Begin, CheckIrq, BeginTicks, WriteAddrDone,
         WriteRespDone, ReadAddrDone, ReadData, ReadTimeout, ReadDone, PumpDone,
         Enter, Fail, BeginSettle, ticking, device

\* A tick, as the slave sees it.
LEMMA TickMoves ==
    ASSUME TypeOK, DeviceSeesInputs, TickWith
    PROVE  \E perform \in BOOLEAN : SlaveMoves(mode, perform)
  BY TickFacts

-----------------------------------------------------------------------------
(* The read in progress. *)

LEMMA ReadStep ==
    ASSUME TypeOK, DeviceSeesInputs, PlaceInv, ReadInv, Next
    PROVE  ReadInv'
  <1> USE DEF ReadInv, ReadIsItsOwn
  <1>1. CASE BeginWrite \/ BeginRead
    BY <1>1 DEF BeginWrite, BeginRead, Begin
  <1>2. CASE CheckIrq \/ PumpDone \/ \E k \in 1 .. MaxTickN : BeginTicks(k)
    BY <1>2 DEF CheckIrq, PumpDone, BeginTicks, Return
  <1>3. CASE WriteAddr \/ WriteResp \/ Pump \/ TickN
    BY <1>3 DEF WriteAddr, WriteResp, Turn, Pump, TickN, PlaceInv
  <1>4. CASE ReadAddr
    <2>1. PICK perform \in BOOLEAN : SlaveMoves(mode, perform)
      BY <1>4, TickMoves DEF ReadAddr, Turn
    <2>2. slave'.r = IF slave.arready THEN op ELSE slave.r
      BY <1>4, <2>1 DEF SlaveMoves, RAfter, ReadAddr, PlaceInv
    <2>3. "ar" \in saw' => slave.arready
      BY <1>4 DEF ReadAddr, Turn
    <2>4. UNCHANGED <<pc, op>> /\ pc = "raddr"
      BY <1>4 DEF ReadAddr, Turn
    <2> QED BY <2>2, <2>3, <2>4
  <1>5. CASE ReadData /\ slave.rvalid
    BY <1>5 DEF ReadData
  <1>6. CASE ReadData /\ ~slave.rvalid
    <2>1. PICK perform \in BOOLEAN : SlaveMoves(mode, perform)
      BY <1>6, TickMoves DEF ReadData, Turn
    <2>2. slave'.r = slave.r
      BY <1>6, <2>1 DEF SlaveMoves, RAfter, ReadData, PlaceInv
    <2>3. UNCHANGED <<pc, op>> /\ pc = "rdata"
      BY <1>6 DEF ReadData, Turn
    <2> QED BY <2>2, <2>3
  <1>7. CASE ReadTake
    BY <1>7 DEF ReadTake, PlaceInv
  <1>8. CASE Settle
    BY <1>8 DEF Settle, Return
  <1>9. CASE WriteAddrDone \/ WriteRespDone
    BY <1>9 DEF WriteAddrDone, WriteRespDone, Enter, BeginSettle, Fail, Return, PlaceInv
  <1>10. CASE ReadAddrDone
    BY <1>10 DEF ReadAddrDone, Enter, Fail, Return, device
  <1>11. CASE ReadTimeout \/ ReadDone
    BY <1>11 DEF ReadTimeout, ReadDone, BeginSettle, Fail, Return, PlaceInv
  <1> QED BY <1>1, <1>2, <1>3, <1>4, <1>5, <1>6, <1>7, <1>8, <1>9, <1>10, <1>11
          DEF Next, Continue

-----------------------------------------------------------------------------
(* The write in progress. *)

LEMMA WriteAddrStep ==
    ASSUME TypeOK, DeviceSeesInputs, PlaceInv, RoomInv, WriteInv, WriteAddr
    PROVE  WriteInv'
  <1>1. PICK perform \in BOOLEAN : SlaveMoves("aw", perform)
    BY TickMoves DEF WriteAddr, Turn, PlaceInv
  <1>2. /\ pc = "waddr" /\ pc' = "waddr" /\ op' = op /\ ~BothAccepted
        /\ "aw" \in saw' <=> "aw" \in saw \/ slave.awready
        /\ "w" \in saw' <=> "w" \in saw \/ slave.wready
    BY DEF WriteAddr, Turn
  <1>3. effects \in Nat
    BY DEF TypeOK
  <1>4. CASE slave.bvalid
    <2>1. ~slave.awready /\ ~slave.wready
      BY <1>4 DEF RoomInv
    <2>2. slave'.bvalid
      BY <1>1, <1>4 DEF SlaveMoves
    <2>3. ~BothAccepted'
      BY <1>2, <2>1 DEF BothAccepted
    <2> QED BY <1>2, <2>2, <2>3 DEF WriteInv
  <1>5. CASE ~slave.bvalid
    <2>1. effects = 0 /\ ("aw" \in saw => slave.aw = op) /\ ("w" \in saw => slave.w = op)
      BY <1>2, <1>5 DEF WriteInv
    <2>2. "aw" \in saw' => AwAfter("aw") = op
      BY <1>2, <2>1 DEF AwAfter
    <2>3. "w" \in saw' => WAfter("aw") = op
      BY <1>2, <2>1 DEF WAfter
    <2>4. BothAccepted' <=> "aw" \in saw' /\ "w" \in saw'
      BY DEF BothAccepted
    <2>5. CASE perform
      <3>1. slave'.bvalid /\ slave'.aw = 0 /\ slave'.w = 0
        BY <1>1, <2>5 DEF SlaveMoves
      <3>2. BothAccepted' => effects' = 1
        BY <1>1, <2>1, <2>2, <2>3, <2>4, <2>5 DEF SlaveMoves
      <3> QED BY <1>2, <3>1, <3>2 DEF WriteInv, Served
    <2>6. CASE ~perform
      <3>1. ~slave'.bvalid /\ effects' = 0
        BY <1>1, <1>5, <2>1, <2>6 DEF SlaveMoves
      <3>2. slave'.aw = AwAfter("aw") /\ slave'.w = WAfter("aw")
        BY <1>1, <2>6 DEF SlaveMoves
      <3> QED BY <1>2, <2>2, <2>3, <2>4, <3>1, <3>2 DEF WriteInv, Held
    <2> QED BY <2>5, <2>6
  <1> QED BY <1>4, <1>5

LEMMA WriteRespStep ==
    ASSUME TypeOK, DeviceSeesInputs, PlaceInv, WriteInv, WriteResp
    PROVE  WriteInv'
  <1>1. PICK perform \in BOOLEAN : SlaveMoves("b", perform)
    BY TickMoves DEF WriteResp, Turn, PlaceInv
  <1>2. /\ pc = "wresp" /\ pc' = "wresp" /\ op' = op /\ "b" \notin saw
        /\ "b" \in saw' <=> slave.bvalid
    BY DEF WriteResp, Turn
  <1>3. AwAfter("b") = slave.aw /\ WAfter("b") = slave.w
    BY DEF AwAfter, WAfter
  <1>4. CASE Held
    <2>1. CASE perform
      <3>1. slave'.bvalid /\ slave'.aw = 0 /\ slave'.w = 0
        BY <1>1, <2>1 DEF SlaveMoves
      <3>2. effects' = 1
        BY <1>1, <1>3, <1>4, <2>1 DEF SlaveMoves, Held
      <3>3. "b" \notin saw'
        BY <1>2, <1>4 DEF Held
      <3> QED BY <1>2, <3>1, <3>2, <3>3 DEF WriteInv, Served
    <2>2. CASE ~perform
      BY <1>1, <1>2, <1>3, <1>4, <2>2 DEF SlaveMoves, WriteInv, Held
    <2> QED BY <2>1, <2>2
  <1>5. CASE slave.bvalid /\ Served
    <2>1. ~perform
      BY <1>1, <1>5 DEF SlaveMoves
    <2> QED BY <1>1, <1>2, <1>3, <1>5, <2>1 DEF SlaveMoves, WriteInv, Served
  <1> QED BY <1>2, <1>4, <1>5 DEF WriteInv

\* Nothing more happens to a write that was served, while the slave is idle.
LEMMA WriteSettleStep ==
    ASSUME TypeOK, DeviceSeesInputs, PlaceInv, WriteInv, Settle
    PROVE  WriteInv'
  <1>1. PICK perform \in BOOLEAN : SlaveMoves("none", perform)
    BY TickMoves DEF Settle, PlaceInv
  <1>2. pc = "settle" /\ pc' \in {"settle", "idle"} /\ call' = call
    BY DEF Settle, Return
  <1>3. Served => Served'
    BY <1>1 DEF SlaveMoves, Served, AwAfter, WAfter
  <1> QED BY <1>2, <1>3 DEF WriteInv

LEMMA WriteStep ==
    ASSUME TypeOK, DeviceSeesInputs, PlaceInv, RoomInv, WriteInv, Next
    PROVE  WriteInv'
  <1>1. CASE BeginWrite \/ BeginRead
    BY <1>1 DEF BeginWrite, BeginRead, Begin, WriteInv, BothAccepted
  <1>2. CASE CheckIrq \/ PumpDone \/ \E k \in 1 .. MaxTickN : BeginTicks(k)
    BY <1>2 DEF CheckIrq, PumpDone, BeginTicks, Return, WriteInv
  <1>3. CASE ReadAddr \/ ReadData \/ ReadTake \/ Pump \/ TickN
    BY <1>3 DEF ReadAddr, ReadData, ReadTake, Turn, Pump, TickN, WriteInv
  <1>4. CASE WriteAddrDone
    <2>1. CASE BothAccepted
      <3>1. Enter("wresp", "b") /\ "b" \notin saw
        BY <1>4, <2>1 DEF WriteAddrDone, PlaceInv
      <3>2. Held \/ (slave.bvalid /\ Served)
        BY <1>4, <2>1 DEF WriteAddrDone, WriteInv
      <3> QED BY <3>1, <3>2 DEF Enter, device, WriteInv, Held, Served
    <2>2. CASE ~BothAccepted
      BY <1>4, <2>2 DEF WriteAddrDone, Fail, Return, WriteInv
    <2> QED BY <2>1, <2>2
  <1>5. CASE WriteRespDone
    BY <1>5 DEF WriteRespDone, BeginSettle, Fail, Return, device, WriteInv, Served
  <1>6. CASE ReadAddrDone \/ ReadTimeout
    BY <1>6 DEF ReadAddrDone, ReadTimeout, Enter, Fail, Return, WriteInv
  <1>7. CASE ReadDone
    BY <1>7 DEF ReadDone, BeginSettle, PlaceInv, WriteInv
  <1> QED BY <1>1, <1>2, <1>3, <1>4, <1>5, <1>6, <1>7,
             WriteAddrStep, WriteRespStep, WriteSettleStep DEF Next, Continue

-----------------------------------------------------------------------------
(* The activity counters of a loop. *)

LEMMA SettleLoopStep ==
    ASSUME TypeOK, DeviceSeesInputs, LoopInv, Settle
    PROVE  LoopInv'
  <1> USE ConstantFacts DEF Constants
  <1>0. /\ n \in Nat /\ idle \in Nat /\ tail \in Nat /\ silentFor \in Nat /\ pc = "settle"
    BY DEF TypeOK, Settle
  <1>1. /\ axi' \in BOOLEAN /\ chg' \in BOOLEAN
        /\ tail' = IF axi' THEN 0 ELSE Spent
        /\ idle' = IF Active' THEN 0 ELSE IF idle > IdleGrace THEN idle ELSE idle + 1
        /\ silentFor' = IF axi' THEN 0
                        ELSE IF silentFor > SilenceLimit THEN silentFor ELSE silentFor + 1
    BY TickFacts DEF Settle
  <1>2. /\ tail = IF silentFor < ChgTail THEN silentFor ELSE ChgTail
        /\ silentFor >= ChgTail => idle > IdleGrace \/ idle + ChgTail > silentFor
    BY <1>0 DEF LoopInv
  <1>3. tail' = IF silentFor' < ChgTail THEN silentFor' ELSE ChgTail
    BY <1>0, <1>1, <1>2 DEF Spent, SilenceLimit
  <1>4. silentFor' >= ChgTail => idle' > IdleGrace \/ idle' + ChgTail > silentFor'
    <2>1. SUFFICES ASSUME silentFor' >= ChgTail
                   PROVE  idle' > IdleGrace \/ idle' + ChgTail > silentFor'
      OBVIOUS
    <2>2. ~axi' /\ tail' = ChgTail
      BY <1>1, <1>3, <2>1
    <2>3. ~Active'
      BY <2>2 DEF Active
    <2>4. idle' = IF idle > IdleGrace THEN idle ELSE idle + 1
      BY <1>1, <2>3
    <2>5. silentFor' \in {silentFor, silentFor + 1} /\ silentFor >= ChgTail - 1
      BY <1>0, <1>1, <2>1, <2>2
    <2> QED BY <1>0, <1>2, <2>1, <2>4, <2>5
  <1>5. pc' = "settle" => (n' >= SettleMin => idle' <= IdleGrace)
    <2>1. idle' \in Nat
      BY TickFacts DEF Settle
    <2> QED BY <1>0, <2>1 DEF Settle, Return
  <1>6. pc' # "pump"
    BY <1>0 DEF Settle, Return
  <1> QED BY <1>3, <1>4, <1>5, <1>6 DEF LoopInv

LEMMA PumpLoopStep ==
    ASSUME TypeOK, DeviceSeesInputs, LoopInv, Pump
    PROVE  LoopInv'
  <1> USE ConstantFacts DEF Constants
  <1>0. tail \in Nat /\ silentFor \in Nat /\ pc = "pump" /\ pc' = "pump"
    BY DEF TypeOK, Pump
  <1>1. /\ axi' \in BOOLEAN
        /\ tail' = IF axi' THEN 0 ELSE Spent
        /\ silentFor' = IF axi' THEN 0
                        ELSE IF silentFor > SilenceLimit THEN silentFor ELSE silentFor + 1
    BY TickFacts DEF Pump
  <1>2. tail = silentFor /\ silentFor < ChgTail
    BY <1>0 DEF LoopInv, Pump, Active
  <1> QED BY <1>0, <1>1, <1>2 DEF LoopInv, Spent, SilenceLimit

LEMMA LoopStep ==
    ASSUME TypeOK, DeviceSeesInputs, LoopInv, Next
    PROVE  LoopInv'
  <1> USE ConstantFacts DEF Constants
  <1>1. CASE BeginWrite \/ BeginRead \/ \E k \in 1 .. MaxTickN : BeginTicks(k)
    BY <1>1 DEF BeginWrite, BeginRead, Begin, BeginTicks, LoopInv
  <1>2. CASE CheckIrq
    <2>1. CASE Active
      <3>1. pc' = "pump" /\ tail' = 0 /\ silentFor' = 0
        BY <1>2, <2>1 DEF CheckIrq, FullTail
      <3> QED BY <3>1 DEF LoopInv
    <2>2. CASE ~Active
      BY <1>2, <2>2 DEF CheckIrq, LoopInv
    <2> QED BY <2>1, <2>2
  <1>3. CASE BeginSettle
    <2>1. pc' = "settle" /\ tail' = 0 /\ silentFor' = 0 /\ n' = 0
      BY <1>3 DEF BeginSettle, FullTail
    <2> QED BY <2>1 DEF LoopInv
  <1>4. CASE WriteAddrDone \/ ReadAddrDone \/ ReadTimeout \/ PumpDone \/ Fail
    BY <1>4 DEF WriteAddrDone, ReadAddrDone, ReadTimeout, PumpDone, Enter, Fail, Return, LoopInv
  <1>5. CASE WriteAddr \/ WriteResp \/ ReadAddr \/ ReadData \/ ReadTake \/ TickN
    BY <1>5 DEF WriteAddr, WriteResp, ReadAddr, ReadData, ReadTake, TickN, Turn, LoopInv
  <1>6. CASE WriteRespDone \/ ReadDone
    BY <1>3, <1>4, <1>6 DEF WriteRespDone, ReadDone
  <1> QED BY <1>1, <1>2, <1>4, <1>5, <1>6, SettleLoopStep, PumpLoopStep DEF Next, Continue

-----------------------------------------------------------------------------
(* The invariant, and what follows from it. *)

LEMMA NextInv ==
    ASSUME IInv, Next
    PROVE  IInv'
  <1> USE DEF IInv
  <1>1. EdgeType' /\ DeviceSeesInputs' /\ RoomInv'
    <2>1. CASE Ticking
      BY <2>1, TickType, TickingTicks
    <2>2. CASE Between
      <3>1. RoomInv'
        BY <2>2, BetweenSlave DEF RoomInv
      <3> QED BY <2>2, <3>1, BetweenEdge
    <2> QED BY <2>1, <2>2, NextCases
  <1>2. HostType'
    BY TickingHost, BetweenHost, NextCases
  <1>3. TypeOK'
    <2>1. TypeOK' <=> HostType' /\ EdgeType'
      BY DEF TypeOK, HostType, QuietType, EdgeType, SlaveType, Modes, Places
    <2> QED BY <1>1, <1>2, <2>1
  <1>4. PlaceInv' /\ ReadInv' /\ WriteInv' /\ LoopInv'
    BY PlaceStep, ReadStep, WriteStep, LoopStep
  <1> QED BY <1>1, <1>3, <1>4

LEMMA StepInv == IInv /\ [Next]_vars => IInv'
  <1> SUFFICES ASSUME IInv, [Next]_vars PROVE IInv'
    OBVIOUS
  <1>1. CASE Next
    BY <1>1, NextInv
  <1>2. CASE UNCHANGED vars
    BY <1>2 DEF vars, host, ticking, device, IInv, TypeOK, DeviceSeesInputs, PlaceInv, RoomInv,
                ReadInv, ReadIsItsOwn, WriteInv, BothAccepted, Held, Served, LoopInv,
                Modes, Places, SilenceLimit
  <1> QED BY <1>1, <1>2

LEMMA Invariance == Spec => []IInv
  BY InitInv, StepInv, PTL DEF Spec

\* Every loop of a call stays within its limit and every counter within its
\* range, for every limit (the loops of arti_rtl_model_*).
THEOREM ControlTypeCorrect == Spec => []TypeOK
  <1>1. IInv => TypeOK
    BY DEF IInv
  <1> QED BY <1>1, Invariance, PTL

\* The device is never clocked with inputs other than those the host has set,
\* although settle and pump skip the compare of poke_inputs.
THEOREM InputsAreSeen == Spec => []DeviceSeesInputs
  <1>1. IInv => DeviceSeesInputs
    BY DEF IInv
  <1> QED BY <1>1, Invariance, PTL

\* arti_rtl_model_read never hands out the answer to an earlier, timed-out read.
THEOREM ReadsAreOwn == Spec => []ReadIsItsOwn
  <1>1. IInv => ReadIsItsOwn
    BY DEF IInv, ReadInv
  <1> QED BY <1>1, Invariance, PTL

\* arti_rtl_model_write reports success only when the device has performed
\* exactly this write once, whatever was left in the device by earlier time-outs.
THEOREM WritesTakeEffect == Spec => []WriteTookEffect
  <1>1. IInv => WriteTookEffect
    BY DEF IInv, WriteInv, WriteTookEffect, Served
  <1> QED BY <1>1, Invariance, PTL

\* No register activity holds settle or pump open past the tail and the grace.
THEOREM LoopsEnd == Spec => []LoopsLetGo
  <1>1. IInv => LoopsLetGo
    <2> SUFFICES ASSUME IInv PROVE LoopsLetGo
      OBVIOUS
    <2>1. n \in Nat /\ idle \in Nat /\ silentFor \in Nat
      BY DEF IInv, TypeOK
    <2>2. pc = "settle" /\ n >= SettleMin => silentFor < SilenceLimit
      BY <2>1, ConstantFacts DEF IInv, LoopInv, SilenceLimit, Constants
    <2>3. pc = "pump" => silentFor <= ChgTail
      BY DEF IInv, LoopInv
    <2> QED BY <2>2, <2>3 DEF LoopsLetGo
  <1> QED BY <1>1, Invariance, PTL
-----------------------------------------------------------------------------
(* A settle that stops for quiet. *)

\* The device answers in time, no job is silent for the whole tail, and no wall
\* clock cuts a settle short.
JobsShow == Prompt /\ ~WallClock /\ MaxSilence < ChgTail

\* A slave that acts at once holds no half of a write between two edges.
AtOnce ==
    /\ slave.aw = 0 /\ slave.w = 0
    /\ slave.awready = ~slave.bvalid /\ slave.wready = ~slave.bvalid

\* In a settle a job under way has been silent for at least the used tail.
DrainInv ==
    /\ AtOnce
    /\ pc = "settle" /\ job > 0 => tail <= silence

LEMMA PromptChoice ==
    ASSUME Prompt, NEW may \in BOOLEAN, NEW x \in Choice(may)
    PROVE  x = may
  BY DEF Choice

LEMMA PromptEdge ==
    ASSUME JobsShow, TypeOK, AtOnce, NEW m, SlaveEdge(m)
    PROVE  /\ AtOnce'
           /\ m # "aw" => job' = IF job > 0 THEN job - 1 ELSE 0
  <1> DEFINE aw == AwAfter(m)
             w == WAfter(m)
             bLeft == slave.bvalid /\ m # "b"
             rLeft == slave.rvalid /\ m # "r"
             r == IF slave.rvalid /\ ~rLeft THEN 0
                  ELSE IF m = "ar" /\ slave.arready THEN op ELSE slave.r
  <1>1. PICK perform \in Choice(aw # 0 /\ w # 0 /\ ~slave.bvalid), answer \in Choice(r # 0) :
        /\ job' \in IF perform /\ job = 0 THEN 0 .. MaxJob
                   ELSE {IF job > 0 THEN job - 1 ELSE 0}
        /\ \E awready \in Choice((IF perform THEN 0 ELSE aw) = 0 /\ ~(perform \/ bLeft)),
              wready \in Choice((IF perform THEN 0 ELSE w) = 0 /\ ~(perform \/ bLeft)),
              arready \in Choice(r = 0) :
               slave' = [aw |-> IF perform THEN 0 ELSE aw,
                         w |-> IF perform THEN 0 ELSE w,
                         bvalid |-> perform \/ bLeft,
                         r |-> r, rvalid |-> rLeft \/ answer,
                         awready |-> awready, wready |-> wready, arready |-> arready]
    BY DEF SlaveEdge, AwAfter, WAfter
  <1>2. PICK awready \in Choice((IF perform THEN 0 ELSE aw) = 0 /\ ~(perform \/ bLeft)),
             wready \in Choice((IF perform THEN 0 ELSE w) = 0 /\ ~(perform \/ bLeft)),
             arready \in Choice(r = 0) :
               slave' = [aw |-> IF perform THEN 0 ELSE aw,
                         w |-> IF perform THEN 0 ELSE w,
                         bvalid |-> perform \/ bLeft,
                         r |-> r, rvalid |-> rLeft \/ answer,
                         awready |-> awready, wready |-> wready, arready |-> arready]
    BY <1>1
  <1>3. perform = (aw # 0 /\ w # 0 /\ ~slave.bvalid)
    BY PromptChoice DEF JobsShow
  <1>4. /\ awready = ((IF perform THEN 0 ELSE aw) = 0 /\ ~(perform \/ bLeft))
        /\ wready = ((IF perform THEN 0 ELSE w) = 0 /\ ~(perform \/ bLeft))
    BY PromptChoice DEF JobsShow
  <1>5. /\ slave'.aw = IF perform THEN 0 ELSE aw
        /\ slave'.w = IF perform THEN 0 ELSE w
        /\ slave'.bvalid = (perform \/ bLeft)
        /\ slave'.awready = awready /\ slave'.wready = wready
    <2> HIDE DEF aw, w, r, bLeft, rLeft
    <2> QED BY <1>2
  <1>6. (aw = 0 <=> w = 0) /\ (slave.bvalid => aw = 0) /\ (m # "aw" => aw = 0)
    BY DEF AtOnce, AwAfter, WAfter
  <1>7. (IF perform THEN 0 ELSE aw) = 0 /\ (IF perform THEN 0 ELSE w) = 0
    <2> HIDE DEF aw, w
    <2> QED BY <1>3, <1>6
  <1>8. slave'.awready = ~slave'.bvalid /\ slave'.wready = ~slave'.bvalid
    <2> HIDE DEF aw, w, bLeft
    <2> QED BY <1>4, <1>5, <1>7
  <1>9. AtOnce'
    <2> HIDE DEF aw, w, bLeft
    <2> QED BY <1>5, <1>7, <1>8 DEF AtOnce
  <1>10. ASSUME m # "aw" PROVE ~perform
    <2> HIDE DEF aw, w
    <2> QED BY <1>3, <1>6, <1>10
  <1> QED BY <1>1, <1>9, <1>10

LEMMA PromptTick ==
    ASSUME JobsShow, TypeOK, DeviceSeesInputs, AtOnce, TickWith
    PROVE  /\ AtOnce'
           /\ mode # "aw" => job' = IF job > 0 THEN job - 1 ELSE 0
           /\ silence' = IF axi' \/ job' = 0 THEN 0 ELSE silence + 1
           /\ job > 0 => chg'
  <1>1. image' = <<mode, memIn'>>
    BY TickFacts
  <1>2. DeviceEdge(mode)
    BY <1>1 DEF TickWith
  <1>3. SlaveEdge(mode)
    BY <1>2 DEF DeviceEdge
  <1>4. /\ silence' = IF axi' \/ job' = 0 THEN 0 ELSE silence + 1
        /\ job > 0 => chg'
    BY <1>2 DEF DeviceEdge
  <1> QED BY <1>3, <1>4, PromptEdge

\* One turn of a settle with a job that is not finished by it.
LEMMA SettleTurn ==
    ASSUME JobsShow, IInv, DrainInv, Settle, job' > 0
    PROVE  tail' <= silence' /\ idle' = 0
  <1> USE ConstantFacts DEF Constants
  <1>1. /\ pc = "settle" /\ mode = "none" /\ job \in Nat /\ job' \in Nat
        /\ tail \in 0 .. ChgTail /\ silence \in 0 .. MaxSilence
    <2>1. pc = "settle" /\ mode = "none"
      BY DEF Settle, IInv, PlaceInv
    <2>2. job \in Nat /\ tail \in 0 .. ChgTail /\ silence \in 0 .. MaxSilence
      BY DEF IInv, TypeOK
    <2>3. job' \in Nat
      BY TickMoves DEF Settle, SlaveMoves, IInv
    <2> QED BY <2>1, <2>2, <2>3
  <1>2. /\ silence' \in 0 .. MaxSilence /\ axi' \in BOOLEAN /\ chg' \in BOOLEAN
        /\ tail' = IF axi' THEN 0 ELSE Spent
        /\ idle' = IF Active' THEN 0 ELSE IF idle > IdleGrace THEN idle ELSE idle + 1
    BY TickFacts DEF Settle, IInv
  <1>3. job > 0 /\ chg' /\ silence' = IF axi' THEN 0 ELSE silence + 1
    BY <1>1, PromptTick DEF Settle, IInv, DrainInv
  <1>4. tail <= silence
    BY <1>1, <1>3 DEF DrainInv
  <1>5. tail' <= silence'
    BY <1>1, <1>2, <1>3, <1>4 DEF Spent
  <1>6. tail' < ChgTail
    BY <1>1, <1>2, <1>5 DEF Spent, JobsShow
  <1>7. Active'
    BY <1>3, <1>6 DEF Active
  <1> QED BY <1>2, <1>5, <1>7

LEMMA DrainInit == Init => DrainInv
  <1> SUFFICES ASSUME Init PROVE DrainInv
    OBVIOUS
  <1>1. slave.aw = 0 /\ slave.w = 0 /\ slave.bvalid = FALSE
        /\ slave.awready = TRUE /\ slave.wready = TRUE
    BY DEF Init
  <1>2. AtOnce
    BY <1>1 DEF AtOnce
  <1> QED BY <1>2 DEF Init, DrainInv

\* A loop is entered with the tail given back.
LEMMA DrainStep ==
    ASSUME JobsShow, IInv, DrainInv, [Next]_vars
    PROVE  DrainInv'
  <1>1. CASE Settle
    <2>1. AtOnce'
      BY <1>1, PromptTick DEF Settle, IInv, DrainInv
    <2> QED BY <1>1, <2>1, SettleTurn DEF DrainInv
  <1>2. CASE Ticking /\ ~Settle
    <2>1. AtOnce'
      BY <1>2, PromptTick, TickingTicks DEF IInv, DrainInv
    <2>2. pc' # "settle"
      BY <1>2 DEF Ticking, WriteAddr, WriteResp, ReadAddr, ReadData, ReadTake, Pump, TickN, Turn
    <2> QED BY <2>1, <2>2 DEF DrainInv
  <1>3. CASE Between
    <2>1. slave' = slave /\ job' = job /\ silence' = silence
      BY <1>3, BetweenSlave
    <2>2. pc' = "settle" => tail' = 0
      BY <1>3 DEF Between, BeginWrite, BeginRead, Begin, CheckIrq, BeginTicks, WriteAddrDone,
                  WriteRespDone, ReadAddrDone, ReadData, ReadTimeout, ReadDone, PumpDone,
                  Enter, Fail, Return, BeginSettle, FullTail
    <2>3. silence \in Nat
      BY DEF IInv, TypeOK
    <2> QED BY <2>1, <2>2, <2>3 DEF DrainInv, AtOnce
  <1>4. CASE UNCHANGED vars
    BY <1>4 DEF vars, host, ticking, device, DrainInv, AtOnce
  <1> QED BY <1>1, <1>2, <1>3, <1>4, NextCases

\* If the device answers in time, its jobs show memory traffic within the tail and
\* no wall clock strikes, then a settle that returns before its cap has drained
\* the job (arti_model_settle: "so a job still drains").
THEOREM QuietMeansDrained ==
    ASSUME JobsShow
    PROVE  Spec => SettleDrainsJob
  <1>1. ASSUME IInv, DrainInv, Next, pc = "settle", pc' = "idle", n + 1 < Advance
        PROVE  job' = 0
    <2> USE ConstantFacts DEF Constants
    <2>1. Settle
      BY <1>1 DEF Next, Continue, BeginWrite, BeginRead, Begin, CheckIrq, BeginTicks, WriteAddr,
                  WriteAddrDone, WriteResp, WriteRespDone, ReadAddr, ReadAddrDone, ReadData,
                  ReadTimeout, ReadTake, ReadDone, Pump, PumpDone, TickN
    <2>2. n \in Nat
      BY <1>1 DEF IInv, TypeOK
    <2>3. idle' > IdleGrace
      BY <1>1, <2>1, <2>2 DEF Settle, JobsShow
    <2>4. job' \in Nat
      BY <1>1, <2>1, TickMoves DEF Settle, SlaveMoves, IInv
    <2> QED BY <1>1, <2>1, <2>3, <2>4, SettleTurn
  <1>2. IInv /\ DrainInv /\ [Next]_vars
        => (pc = "settle" /\ pc' = "idle" /\ n + 1 < Advance => job' = 0) \/ UNCHANGED vars
    BY <1>1
  <1>3. IInv /\ DrainInv /\ [Next]_vars => DrainInv'
    BY DrainStep
  <1> QED BY <1>2, <1>3, DrainInit, Invariance, PTL DEF Spec, SettleDrainsJob
=============================================================================
