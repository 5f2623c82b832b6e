------------------------------ MODULE ArtiControl ------------------------------
(***************************************************************************)
(* The control side of the ARTI host (arti_model.py, SYSTEM_SOURCE): MMIO  *)
(* reads and writes with their time-outs, the settle loop after each, the  *)
(* interrupt poll with its pump, and the two heuristics that decide when   *)
(* to stop ticking.  Everything runs on the thread of the caller; one      *)
(* action is one clock tick of the device or one piece of a call between   *)
(* two ticks.                                                              *)
(*                                                                         *)
(* The device is external.  Its control slave serves one write and one     *)
(* read at a time and answers when it likes, later than the host's         *)
(* time-out if it likes.  A write may start a job, which changes state at  *)
(* every tick until it is done and shows memory traffic now and then.  The *)
(* memory side of the bridge (ArtiMemory) is seen through axi_busy and     *)
(* through the device inputs that mem_drive sets.                          *)
(***************************************************************************)
EXTENDS Integers

CONSTANTS
    Timeout,        \* TIMEOUT_CYCLES
    SettleMin, IdleGrace, ChgTail, Advance,
    PumpCap,        \* ARTI_MODEL_IRQ_PUMP_CYCLES
    WallClock,      \* a wall-clock limit on settle and pump is configured
    FreeRunning,    \* some register of the device changes at every tick
    MaxJob,         \* ticks that a job takes at most
    MaxSilence,     \* ticks that a job goes without memory traffic at most
    Tags,           \* number of calls that are told apart
    Prompt,         \* the control slave answers at the first opportunity
    MaxTickN        \* argument of arti_rtl_model_tick_n at most

ASSUME ControlAssumption ==
    /\ {Timeout, SettleMin, IdleGrace, ChgTail, Advance, PumpCap, Tags} \subseteq Nat \ {0}
    /\ {MaxJob, MaxSilence, MaxTickN} \subseteq Nat
    /\ WallClock \in BOOLEAN /\ FreeRunning \in BOOLEAN /\ Prompt \in BOOLEAN

VARIABLES
    \* the host
    pc,             \* where the call in progress is, "idle" between calls
    call,           \* which call it is
    op,             \* tag of the latest MMIO call
    n,              \* the loop counter of the loop it is in
    saw,            \* handshakes seen: subset of {"aw", "w", "b", "ar"}
    data,           \* tag of the read data it holds, 0 for none
    mode,           \* what the control inputs ask for: "none", "aw", "b", "ar", "r"
    memIn,          \* the inputs set by mem_drive
    image,          \* the inputs as the device last saw them (poke_inputs)
    settleQuiet,    \* g_settle_quiet
    idle, tail,     \* g_arti_idle, g_chg_tail
    silentFor,      \* ticks of this loop since the last memory traffic (history)
    \* the device
    slave,          \* its control port
    job, silence,   \* ticks left of its job, and since it last showed traffic
    axi, chg,       \* axi_busy and _chg != 0 after the last tick
    effects         \* times the write of the latest call took effect (history)

host == <<pc, call, op, n, saw, data, mode, settleQuiet>>
device == <<slave, job, silence, axi, chg, effects>>
ticking == <<memIn, image, idle, tail, silentFor, device>>
vars == <<host, ticking>>

-----------------------------------------------------------------------------
(* The device at a clock edge, with control inputs m. *)

\* What the slave does when it may do something: do it, or leave it for later.
Choice(may) == IF Prompt THEN {may} ELSE {may, FALSE}

SlaveEdge(m) ==
    LET aw == IF m = "aw" /\ slave.awready THEN op ELSE slave.aw
        w == IF m = "aw" /\ slave.wready THEN op ELSE slave.w
        ar == IF m = "ar" /\ slave.arready THEN op ELSE slave.r
        bLeft == slave.bvalid /\ m # "b"
        rLeft == slave.rvalid /\ m # "r"
        r == IF slave.rvalid /\ ~rLeft THEN 0 ELSE ar
    IN  \E perform \in Choice(aw # 0 /\ w # 0 /\ ~slave.bvalid),
           answer \in Choice(r # 0) :
        /\ effects' = IF perform /\ aw = op /\ w = op THEN effects + 1 ELSE effects
        /\ job' \in IF perform /\ job = 0 THEN 0 .. MaxJob
                   ELSE {IF job > 0 THEN job - 1 ELSE 0}
        /\ LET awHeld == IF perform THEN 0 ELSE aw
               wHeld == IF perform THEN 0 ELSE w
               bvalid == perform \/ bLeft
           IN  \E awready \in Choice(awHeld = 0 /\ ~bvalid),
                  wready \in Choice(wHeld = 0 /\ ~bvalid),
                  arready \in Choice(r = 0) :
               slave' = [aw |-> awHeld, w |-> wHeld, bvalid |-> bvalid,
                         r |-> r, rvalid |-> rLeft \/ answer,
                         awready |-> awready, wready |-> wready, arready |-> arready]

\* While it has a job the device shows traffic at least every MaxSilence ticks.
DeviceEdge(m) ==
    /\ SlaveEdge(m)
    /\ axi' \in IF job' = 0 THEN {FALSE}
                ELSE IF silence >= MaxSilence THEN {TRUE} ELSE BOOLEAN
    /\ silence' = IF axi' \/ job' = 0 THEN 0 ELSE silence + 1
    /\ chg' = (FreeRunning \/ job > 0 \/ slave' # slave)

-----------------------------------------------------------------------------
(* tick_with *)

\* Bug: without the tail, a register that changes for ever is work for ever.
AnyChange == axi \/ chg

\* Bug: only memory traffic counts.
TrafficOnly == axi

\* gpu_active
Active == axi \/ (chg /\ tail < ChgTail)

\* Bug: settle and pump never poke.
NeverPoked(in) == IF settleQuiet THEN image ELSE <<mode, in>>

\* poke_inputs before the edge: in a settle or a pump the compare is skipped
\* when mem_drive reported that it changed nothing.
Poked(in) == IF settleQuiet /\ in = memIn THEN image ELSE <<mode, in>>

\* Bug: off by one.
SpentPast == IF tail <= ChgTail THEN tail + 1 ELSE tail

Spent == IF tail < ChgTail THEN tail + 1 ELSE tail

\* The activity counters after the edge.  The model lets the idle counter rest
\* once it is past the grace, and the history once it is past its limit.
SilenceLimit == ChgTail + IdleGrace
Counted ==
    /\ tail' = IF axi' THEN 0 ELSE Spent
    /\ idle' = IF Active' THEN 0 ELSE IF idle > IdleGrace THEN idle ELSE idle + 1
    /\ silentFor' = IF axi' THEN 0
                    ELSE IF silentFor > SilenceLimit THEN silentFor ELSE silentFor + 1

TickWith ==
    /\ memIn' \in {0, 1}
    /\ image' = Poked(memIn')
    /\ DeviceEdge(image'[1])
    /\ Counted

-----------------------------------------------------------------------------
(* The calls. *)

\* Setting the control inputs and combo(), which pokes them.
Ask(m) ==
    /\ mode' = m
    /\ image' = <<m, memIn>>

Begin(name, m, where) ==
    /\ pc = "idle"
    /\ pc' = where /\ call' = name
    /\ op' = (op % Tags) + 1
    /\ n' = 0 /\ saw' = {} /\ data' = 0
    /\ Ask(m)
    /\ effects' = 0
    /\ UNCHANGED <<memIn, settleQuiet, idle, tail, silentFor, slave, job, silence, axi, chg>>

\* The locals of a call end with it.
Return == pc' = "idle" /\ n' = 0 /\ saw' = {} /\ data' = 0

\* Give up: the control inputs stay as they are.
Fail ==
    /\ Return
    /\ UNCHANGED <<call, op, mode, settleQuiet, ticking>>

\* Next phase of an MMIO call, with control inputs m.
Enter(where, m) ==
    /\ pc' = where /\ n' = 0
    /\ Ask(m)
    /\ UNCHANGED <<call, op, saw, data, settleQuiet, memIn, idle, tail, silentFor, device>>

\* Bug: the tail that an earlier burst used up is not given back.
UsedTail == tail

FullTail == 0

\* idle_slave, combo, and arti_model_settle up to its loop.
BeginSettle ==
    /\ pc' = "settle" /\ n' = 0
    /\ Ask("none")
    /\ idle' = 0 /\ tail' = FullTail /\ silentFor' = 0
    /\ settleQuiet' = TRUE
    /\ UNCHANGED <<call, op, saw, data, memIn, device>>

\* One turn of a loop that ticks once.
Turn(seen) ==
    /\ n' = n + 1
    /\ saw' = saw \union seen
    /\ TickWith
    /\ UNCHANGED <<pc, call, op, data, mode, settleQuiet>>

BeginWrite == Begin("write", "aw", "waddr")

\* Bug: the first acceptance is enough.
EitherAccepted == saw # {}

\* Address and data stay offered until both have been accepted.
BothAccepted == {"aw", "w"} \subseteq saw

WriteAddr ==
    /\ pc = "waddr" /\ n < Timeout /\ ~BothAccepted
    /\ Turn({x \in {"aw", "w"} : IF x = "aw" THEN slave.awready ELSE slave.wready})

WriteAddrDone ==
    /\ pc = "waddr" /\ (n = Timeout \/ BothAccepted)
    /\ IF BothAccepted THEN Enter("wresp", "b") ELSE Fail

WriteResp ==
    /\ pc = "wresp" /\ n < Timeout /\ "b" \notin saw
    /\ Turn({x \in {"b"} : slave.bvalid})

WriteRespDone ==
    /\ pc = "wresp" /\ (n = Timeout \/ "b" \in saw)
    /\ IF "b" \in saw THEN BeginSettle ELSE Fail

BeginRead == Begin("read", "ar", "raddr")

ReadAddr ==
    /\ pc = "raddr" /\ n < Timeout /\ "ar" \notin saw
    /\ Turn({x \in {"ar"} : slave.arready})

\* Bug: the address phase is not checked.
ReadAddrUnchecked ==
    /\ pc = "raddr" /\ (n = Timeout \/ "ar" \in saw)
    /\ Enter("rdata", "r")

ReadAddrDone ==
    /\ pc = "raddr" /\ (n = Timeout \/ "ar" \in saw)
    /\ IF "ar" \in saw THEN Enter("rdata", "r") ELSE Fail

\* The data is looked at before each tick, and taken by one more tick.
ReadData ==
    /\ pc = "rdata" /\ n < Timeout
    /\ IF slave.rvalid
       THEN /\ data' = slave.r /\ pc' = "rtake"
            /\ UNCHANGED <<call, op, n, saw, mode, settleQuiet, ticking>>
       ELSE Turn({})

ReadTimeout == pc = "rdata" /\ n = Timeout /\ Fail

ReadTake ==
    /\ pc = "rtake" /\ pc' = "rdone"
    /\ TickWith
    /\ UNCHANGED <<call, op, n, saw, data, mode, settleQuiet>>

ReadDone == pc = "rdone" /\ BeginSettle

\* One turn of the settle loop: stop when quiet for long enough, at the cap, or
\* when the wall clock says so.
Settle ==
    /\ pc = "settle"
    /\ TickWith
    /\ LET ticks == n + 1
           quiet == ticks >= SettleMin /\ idle' > IdleGrace
       IN  \E late \in IF WallClock THEN BOOLEAN ELSE {FALSE} :
            IF quiet \/ ticks = Advance \/ late
            THEN Return /\ settleQuiet' = FALSE
            ELSE n' = ticks /\ UNCHANGED <<pc, saw, data, settleQuiet>>
    /\ UNCHANGED <<call, op, mode>>

\* arti_rtl_model_check_irq.  A device that is not active is not ticked.
CheckIrq ==
    /\ pc = "idle"
    /\ call' = "irq"
    /\ IF Active
       THEN /\ pc' = "pump" /\ n' = 0
            /\ tail' = FullTail /\ silentFor' = 0
            /\ settleQuiet' = TRUE
            /\ UNCHANGED <<mode, image>>
       ELSE /\ Ask(mode)
            /\ UNCHANGED <<pc, n, tail, silentFor, settleQuiet>>
    /\ UNCHANGED <<op, saw, data, memIn, idle, device>>

Pump ==
    /\ pc = "pump" /\ n < PumpCap /\ Active
    /\ TickWith
    /\ \E late \in IF WallClock THEN BOOLEAN ELSE {FALSE} :
            n' = IF late THEN PumpCap ELSE n + 1
    /\ UNCHANGED <<pc, call, op, saw, data, mode, settleQuiet>>

PumpDone ==
    /\ pc = "pump" /\ ~(n < PumpCap /\ Active)
    /\ Return /\ settleQuiet' = FALSE
    /\ Ask(mode)
    /\ UNCHANGED <<call, op, memIn, idle, tail, silentFor, device>>

\* arti_rtl_model_tick_n, called with k ticks.
BeginTicks(k) ==
    /\ pc = "idle"
    /\ pc' = "ticks" /\ call' = "ticks" /\ n' = k
    /\ UNCHANGED <<op, saw, data, mode, settleQuiet, ticking>>

TickN ==
    /\ pc = "ticks" /\ n > 0
    /\ TickWith
    /\ n' = n - 1
    /\ pc' = IF n' = 0 THEN "idle" ELSE pc
    /\ UNCHANGED <<call, op, saw, data, mode, settleQuiet>>

-----------------------------------------------------------------------------
\* After arti_rtl_model_init: the control port is idle and the inputs are poked.
Init ==
    /\ pc = "idle" /\ call = "init" /\ op = 0 /\ n = 0 /\ saw = {} /\ data = 0
    /\ mode = "none" /\ memIn = 0 /\ image = <<mode, memIn>>
    /\ settleQuiet = FALSE
    /\ idle = 0 /\ tail = 0 /\ silentFor = 0
    /\ slave = [aw |-> 0, w |-> 0, bvalid |-> FALSE, r |-> 0, rvalid |-> FALSE,
                awready |-> TRUE, wready |-> TRUE, arready |-> TRUE]
    /\ job = 0 /\ silence = 0 /\ axi = FALSE /\ chg = FreeRunning /\ effects = 0

\* What continues a call that has begun.
Continue ==
    \/ WriteAddr \/ WriteAddrDone \/ WriteResp \/ WriteRespDone
    \/ ReadAddr \/ ReadAddrDone \/ ReadData \/ ReadTimeout \/ ReadTake \/ ReadDone
    \/ Settle \/ Pump \/ PumpDone \/ TickN

Next ==
    \/ BeginWrite \/ BeginRead \/ CheckIrq
    \/ \E k \in 1 .. MaxTickN : BeginTicks(k)
    \/ Continue

Spec == Init /\ [][Next]_vars

\* Every call goes on until it returns, and the poll timer keeps firing.
TimerPolling == Spec /\ WF_vars(Continue) /\ WF_vars(CheckIrq)

-----------------------------------------------------------------------------
(* Properties. *)

Modes == {"none", "aw", "b", "ar", "r"}
Places == {"idle", "waddr", "wresp", "raddr", "rdata", "rtake", "rdone",
           "settle", "pump", "ticks"}

\* Every loop counter stays within its limit, the tail within its budget, and
\* the quiet flag is up exactly in the two loops that set it.
TypeOK ==
    /\ pc \in Places /\ call \in {"init", "write", "read", "irq", "ticks"}
    /\ op \in 0 .. Tags /\ data \in 0 .. Tags
    /\ saw \subseteq {"aw", "w", "b", "ar"}
    /\ n \in Nat
    /\ pc \in {"waddr", "wresp", "raddr", "rdata", "rtake", "rdone"} => n <= Timeout
    /\ pc = "settle" => n < Advance
    /\ pc = "pump" => n <= PumpCap
    /\ pc = "ticks" => n \in 1 .. MaxTickN
    /\ pc = "idle" => n = 0
    /\ mode \in Modes /\ memIn \in {0, 1} /\ image \in Modes \X {0, 1}
    /\ settleQuiet \in BOOLEAN /\ (settleQuiet <=> pc \in {"settle", "pump"})
    /\ idle \in 0 .. IdleGrace + 1 /\ tail \in 0 .. ChgTail
    /\ silentFor \in 0 .. SilenceLimit + 1
    /\ slave \in [aw : 0 .. Tags, w : 0 .. Tags, r : 0 .. Tags,
                  bvalid : BOOLEAN, rvalid : BOOLEAN,
                  awready : BOOLEAN, wready : BOOLEAN, arready : BOOLEAN]
    /\ job \in 0 .. MaxJob /\ silence \in 0 .. MaxSilence
    /\ axi \in BOOLEAN /\ chg \in BOOLEAN /\ effects \in Nat

\* At every edge the device has the inputs that the host has set: the compare
\* that settle and pump skip never hides a change ("Skipping poke here left
\* write-through depth stores invisible").
DeviceSeesInputs == image = <<mode, memIn>>

\* A read returns the answer to itself, whatever earlier reads timed out and
\* however late the device answers.
ReadIsItsOwn == call = "read" /\ pc \in {"rtake", "rdone", "settle"} => data = op

\* A write that reports success took effect exactly once, with its own address
\* and data, although both stay offered until the later one is accepted.
WriteTookEffect == call = "write" /\ pc = "settle" => effects = 1

\* A register that changes at every tick does not hold a settle or a pump open:
\* past its minimum neither goes on for longer than the tail and the grace
\* without memory traffic ("a free-running counter cannot").
LoopsLetGo ==
    /\ pc = "settle" /\ n >= SettleMin => silentFor < SilenceLimit
    /\ pc = "pump" => silentFor <= ChgTail

\* A settle that stops for quiet leaves no job behind, if the device answers in
\* time and its jobs are never silent for the whole tail ("so a job still drains").
SettleDrainsJob ==
    [][pc = "settle" /\ pc' = "idle" /\ n + 1 < Advance => job' = 0]_vars

\* The comment in arti_rtl_model_check_irq: the pump runs while a job is live "so
\* fence waits make progress".  A job gets done while the guest only polls.
FenceCompletes == job > 0 ~> job = 0
=============================================================================
