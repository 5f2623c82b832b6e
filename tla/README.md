# FlashSim: a verification development

FlashSim compiles one synthesizable RTL module into a C++ object that skips the
work a clock edge does not need. Its promise (`src/README.md:11`) is that, given
the same stimulus, it shows the same outputs as Verilator on every cycle. The
skipping is where that promise can break: a wire is not re-evaluated because its
stamp looks current, a register statement is not run because nothing it reads
moved, a memory port is not looked at because no page moved. A mistake in any of
these is a value that is silently old, and it needs a particular sequence of
pokes, ticks and reads to show. This directory models that machinery in TLA+,
checks it with TLC on small designs, and proves the main properties with TLAPS
for every design, plan and size that satisfies the stated assumptions.

## 1. Inventory

| Part | State it keeps | Operations | Talks to | What is hard | Correct when |
|---|---|---|---|---|---|
| Generated skip kernel (`emit.py`, `emit_cpp`) | signal fields, `X__prev`, wire values and stamps `X__ok`, page generations `_pg`/`_pg_gen`, hold bitmaps `_h_need`/`_h_busy`, summary `_h_any`/`_h_words`, staged values `X__n` with flags and dirty list, array marks `_ac`, memory staging `__we/__wa/__wd`, `_bst`/`_bep`, `_chg` | `poke_inputs`, `tick`, `tick_nba`, `eval_<output>`, `_force_wake_all` | called by a host; reads the planner's tables | order of evaluation, staging and commit; stale stamps; bits set while they are scanned | every edge gives what a full evaluation gives; no stale wire is read; no woken hold is lost |
| Planner (`emit.py`: `cone_leaves`, `cached_deps`, `_partition_maps`, `_stmt_stop_leaves`, ...) | tables computed once | worklists over the assignment graph | feeds the kernel | sharing, loops, memoisation | a leaf that can move a wire bumps its page, and one that can change a hold wakes it |
| Eager passes (more than 128 caches) | `_up`, `_eg`, `_ed`, `_p_need`, `_p_any`, `_p_words` | `_eager_regions`, ascending drain, cut-wire wakes | kernel, planner | a pass that wakes another while bitmaps are scanned; a pass that stamps itself and does not compute; a hold whose leaves no longer wake it | a wire that holds read unguarded has settled before they run, and no change is missed |
| Generated expressions (`emit_expr`, the limb emitters, the `fs_` helpers) | C integers of 32, 64 and 128 bits, arrays of 64-bit limbs, kept from tick to tick | one emitter for narrow values, four that call each other for wide ones | kernel | bits above the width of a value; straddled limbs; widths that fill a type; shift amounts | each signal has the value the design gives it |
| Optimizer (`opt.py`) | a module being rewritten | constants, concatenations as shifts, inlining, folding, muxes lowered to ifs, flattening, merging, self-gating, sticky wraps, shared prefixes, ORs recombined, ANDs shared, dead wires | frontends, planner | order of assignments to one register; a wire that a port or the body still reads; conditions of more than a bit | after every pass next state, outputs and memory ports are the source's |
| Frontends (`circt_frontend.py`, `parse.py`, `circt_assertions.py`, `data_regions.py`, `ir.py`) | none between calls | text to IR | optimizer | none a model reaches | translation |
| ARTI host, memory bridge (`arti_model.py`) | deques `g_wbeats`, `g_bresp`, `g_rresp`, the latched write address, the sticky status | `mem_drive`, `mem_capture`, pops, all inside `tick_with` | memory callbacks; the device's AXI master port | pop after the edge, sample before it; data before its address; admission decided a tick earlier; partial failure | it is an in-order memory with a bounded queue, and never looks idle while it owes an answer |
| ARTI host, calls (`arti_model.py`) | `g_arti_idle`, `g_chg_tail`, `g_settle_quiet`, `g_hold_boost`, the control inputs | MMIO read/write, settle, IRQ poll and pump, `tick_n` | QEMU on one side, the kernel and the bridge on the other | time-outs racing late answers; inputs that are not poked; deciding when the device is quiet | a call's answer is its own; the loops drain jobs and let go of free-running counters |
| Compile cache (`compile.py`) | `hw.mlir`, its top, mode and fingerprint sidecars, the generated files | compile, reuse | frontends, shard build | interrupted writes, edits while CIRCT runs, another top or mode in the same directory | what is emitted is the requested design, mode and a text no older than the build |
| Shard build (`harness.py`, `experiment.py`, `benches.py`) | objects, the flag stamp | split, reuse, compile in parallel, link | C++ compiler | a shard that fails beside others that are new; changed flags; fewer shards than before | every linked object is of the text, header and flags of this build |
| Clocked partitioning (`partition_clocked.py`) | a module being split | partition of always blocks | optimizer | shared registers | union of the parts is the whole |
| Command line, toolchain, experiment, QEMU drivers | none | launch processes, parse output | all | I/O | not modelled |

Each part's status is in `PROJECT.json` ("components"), and the places where
things can go wrong are under "hazards", each with the property that guards it
or the reason none does yet.

Everything in the generated kernel runs on the host's one thread. The behaviours
that are hard come from the order of calls (poke, tick, reading an output,
announcing quiet inputs, forcing a wake, an assertion that throws half way) and
from loops that read bitmaps which the code they call is changing.

## 2. Modules

```
Netlist ------- RtlReference          what an edge means; the gold model
   |  \              ^
   |  NetlistProofs  | Ref == INSTANCE RtlReference WITH state, cycle
   |                 |
   +- SkipTables -- SkipKernel        the generated object, method by method
   |      ^           |      \
   |      |    MCSkipKernel  SkipKernelProofs
   |      |           |
   |      |           | Plan == INSTANCE PlannedNetlist
   |      | Tables    v
   |   PlannedNetlist                 a module, and the kernel's view of it
   |      |
   |   SkipPlan                       the tables, from the assignment graph
   |      |
   |   AssignGraph ---- PlanWalk -- MCPlanWalk      the planner's worklists
   |                        \------ PlannerProofs (also of PlannedNetlist)
   |
   +- PassTables -- EagerPasses       the kernel with passes; Ref as above
          ^           |      \
          |  MCEagerPasses    EagerPassesProofs
          |           |
          |           | Plan == INSTANCE PlannedPasses
          | Eager     v
       PlannedPasses -- EagerPlanProofs (also EXTENDS PlannerProofs)
          |
       EagerPlan (EXTENDS SkipPlan)   regions, passes and their tables

AxiMemory                             what a memory promises
   ^
   | Axi == INSTANCE AxiMemory WITH landed, failed, owed, taken
ArtiMemory ---- MCArtiMemory          the host as AXI slave of the device
        \------ ArtiMemoryProofs
ArtiControl --- ArtiControlProofs     the host's calls, settle and poll

RtlExpr ------------------------      the IR: expressions, statements, values
   |            |              \
HoldRewrite  WireRewrite      LimbOps the fs_ helpers
        \      |                 |
        Optimize              LimbEmit   what the C++ of an expression computes
           |                     |
       MCOptimize             Datapath --- MCDatapath

BuildCache ---- MCBuildCache          one output directory, build after build
        \------ BuildCacheProofs
```

* **Netlist**: a module as state elements (inputs, registers, memory cells),
  cached wires, statement groups, ordered memory ports and assertions, with
  expressions as operator constants over an environment. `Settled(s)` is the
  unique assignment of the wires in state `s`; `NextState(s)` one edge by
  non-blocking semantics (last writer in source order wins, last enabled port at
  an address wins). Mapped to the classes of `ir.py`.
* **RtlReference**: the abstract specification. Its variables are the value of
  every element and the number of edges; inputs change between edges, an edge
  applies `NextState`. The gold model of the repository is Verilator, which is
  not under `src/`, so the map marks its definitions external.
* **SkipKernel**: the object `emit_cpp` generates for a large module (at least
  256 written registers) with at most 128 cached wires. `pc` is the place inside
  the running method; each action is one step of a method that another part can
  observe:
  - host calls: `DriveInput`, `AnnounceFresh` (`_in_fresh`), `Poke`, `Tick`,
    `TickNba`, `EvalOutput`, `ForceWakeAll`;
  - lazy evaluation in any method: `PullDeps` (the calls to `eval_*` of the wires
    an expression names) and `EvalWire` (compute and stamp);
  - `tick_nba` in its order: `Posedge` and `AssertThrow`/`AssertPass` (assertions
    first), `StartDispatch`, the two-level scan `NextSum`/`NextWord`/`EnterHold`/
    `TakeBranch`/`RunHold`/`LeaveWord`, `Prepare` and `CapturePorts`
    (`_mem_prepare`), `CommitReg`/`CommitDone` (`_commit`, `_commit_ac`),
    `StorePort`/`StoreDone` (`_mem_store`).
* **SkipTables**: the planner's tables as constants, and what they must promise:
  an expression reads what the plan says it reads (`ReadsNamed`), and a change that
  does not bump a wire's page, or wake a hold, cannot move that wire, or change what
  that hold does (`ChangesWake`). SkipKernel assumes these promises (`PlanTypes`,
  `ReadsSound`, `WakesSound`), and TLC evaluates them on every run.
* **AssignGraph, SkipPlan**: the names of a module, and the tables as `emit.py`
  computes them from its assignments (cones, nearest caches, pages by leaf set,
  invalidation tables, hold wake lists).
* **PlannedNetlist**: a module before the kernel is written, with an expression for
  every name, and what the kernel's methods make of it: a name without a cache is a
  local (`Bound`), so a method is a function of the state and of the caches. It
  instantiates SkipTables with the tables of SkipPlan. `DesignOK` says what a module
  is: no combinational loop, values of the right kind, expressions that depend on the
  names in them, and a cache for what assertions read. `MCSkipKernel` takes its
  tables from here, so a run checks plan and kernel together.
* **PlanWalk**: the worklists `cone_leaves` and `cached_deps` step by step, over
  every assignment graph on three names, loops included, against SkipPlan's
  answers.
* **AxiMemory**: what a memory behind an AXI port promises: the beats of writes
  land in order (`Land`), a read looks at memory at one instant (`Take`), an edge
  delivers a write answer, a read beat or both (`Deliver`). An answer is an error
  exactly if a part of its write failed.
* **ArtiMemory**: one `tick_with` of the ARTI host towards the device's master
  port, in the order of the code: `Drive` (`mem_drive`, and sampling `b_fire`
  and `r_fire`), `CaptureAw`, `CaptureW`, `WriteBeat`, `CaptureAr`
  (`mem_capture`), `Edge` (`tick_nba`), `Pop`. The device is external: it offers
  its bursts in order, holds a refused valid, may send data before its address,
  and is ready for an answer or not. Refines AxiMemory.
* **ArtiControl**: the calls of the host on its one thread, one action per clock
  tick or per piece of a call between two ticks: `BeginWrite`, `WriteAddr`,
  `WriteAddrDone`, `WriteResp`, `WriteRespDone`; `BeginRead` ... `ReadDone`;
  `Settle`; `CheckIrq`, `Pump`, `PumpDone`; `BeginTicks`, `TickN`. `TickWith` is
  shared by all that tick. The control slave and the jobs it starts are external.
  It sees ArtiMemory through two things, each chosen freely: whether memory
  traffic is outstanding (`axi`) and whether `mem_drive` changed an input
  (`memIn`). `OwedMeansBusy` is what justifies the first: a job whose memory access
  is under way is one with traffic.
* **EagerPlan**: the tables for a module with more than 128 cached wires:
  `_eager_regions` with closure and merging, one pass per leaf set in the order of
  `_ordered_leaf_sets`, what a pass reads itself and from others, which passes are
  woken and which of them the worklist can run without their dependencies, the
  holds that are cut at pass wires.
* **PassTables, PlannedPasses**: these tables as one record and what they must promise,
  one definition per promise; and the instance of it with what EagerPlan computes for a
  module of PlannedNetlist.
* **EagerPasses**: the kernel over these tables: `RunPass` (`_eager<r>`) with its
  stamp `eg`, its data stamp `ed` and its mark `up`; `WakePasses`
  (`_emit_pass_wake`); the drain of `tick_nba` in one ascending scan (`StartDrain`,
  `NextWord`, `RunReadyPass`, `CallPass`, `SkipTail`, `LeaveWord`, `NextSum`); then
  the holds and the commit, coarse, since SkipKernel has them in detail. Refines
  RtlReference. What the tables promise is assumed: `PlanTypes`,
  `BitsSound`, `ReadsSound`, `PagesSound`, `PassesSound`, `HoldsSound` are proved of every
  grouping, custom ones included (section 5); `AscendingPlans` (a pass reads earlier passes only) is a
  condition that the default grouping meets and some custom ones do not. TLC evaluates all of
  them on EagerPlan's tables.
* **RtlExpr**: the part of `ir.py` that the optimizer and the emitter work on:
  expressions as tuples, statements, and what they mean (`Value`, `Edge`).
* **HoldRewrite, WireRewrite, Optimize**: `optimize()`. The first two define each pass
  as a function of the body or the wires; Optimize has one action per pass, in
  the order of the code, with the second round that only modules with many written
  registers get. Every pass is compared with what the source computes.
* **LimbOps, LimbEmit, Datapath**: the generated arithmetic. LimbOps has the `fs_`
  helpers on limb arrays; LimbEmit the emitters, by what the C++ they write computes
  (`Scalar` is `emit_expr`; `FromWide`, `Bind`, `Materialize` and `WideAssign` are the
  four that call each other, which `Emit` ties together); Datapath runs a design by
  them, `Poke`, `Tick`, `Evaluate`, beside the numbers that the design means.
* **BuildCache**: `compile_verilog`, `compile_file` and `_compile_flash` on one output
  directory, a step per file that is written (`WriteMlir`, `WriteTop`, `WriteFlag`,
  `WritePrints`, `WriteHeader`, `WriteShard`, `Unlink`, `CompileShard`, `WriteStamp`).
  `Edit`, `FailShard` and `BreakOff` are the world.
* **MCSkipKernel, MCPlanWalk, MCArtiMemory, MCEagerPasses, MCOptimize, MCDatapath,
  MCBuildCache**: the small designs, graphs, burst programs, modules and requests.
  ArtiControl is checked directly.
* **SkipKernelProofs, PlannerProofs, EagerPassesProofs, EagerPlanProofs,
  ArtiMemoryProofs, ArtiControlProofs, BuildCacheProofs**: the theorems of section 5.
  **NetlistProofs** has the lemmas that both kernels need.

Operators whose comment starts with "Bug:" (and `OwnLeaves`, `FoundRoot`,
`DroppedStop`) are wrong variants of the definition that follows them. Nothing
uses them: substituted for the right definition they make a property fail, which
shows that the property depends on that code.

### Correspondence with the code

A summary word is `_h_any[sw]`, a hold word one `uint64_t` of `_h_need` and
`_h_busy`; `W` is 64 in the code and 2 in the runs, so five holds give three hold
words and two summary words with unused tail bits in both. `need`, `busy` and
`hAny` are the sets of bits that are one. `want` is the set of wires whose
`eval_*` is on the C++ call stack or still to be called by the current step.
`flags`/`list` are the scalar dirty flags and the dirty list of the current tick,
`ac` the array marks. `cycle` of the reference is `_bep`, which counts commits.

Abstractions, and why they are harmless:

* Generation counters are naturals; in the code they are `uint32_t`. A wrap
  needs 2^32 bumps of a page between two reads of one wire (listed as a hazard
  with no property).
* `poke_inputs` may compare an image of the inputs first (`_in_snap`); the model
  has the per-input comparison it stands for.
* Registers commit in any order: the code follows the dirty list, and no commit
  reads what another writes. TLC covers all orders.
* The bodies that evaluate several wires take them in any order the dependencies
  allow; the code sorts by name.
* `_pg` has no initialiser; nothing reads it before the first poke sets it, and
  `~inited => pc = "idle"` is part of the proved invariant.
* In ArtiMemory a burst's AXI id is its number and an address counts beats. The
  chunks of a beat (`WRITE_CALLBACK_BYTES`, bus boundaries) are `Lanes`, each with
  its own strobe and its own failing callback. `g_wbeats` of a device that sends
  all its data early is bounded only by the device's program.
* In ArtiControl the calls of one kind are told apart by a tag that wraps at
  `Tags`; the slave keeps at most one request per direction, so two tags would do. A
  wall-clock limit may strike at any tick. `idle` and the history `silentFor` rest
  one above the largest value anything compares them with. `mem_capture` also
  clears `g_arti_idle`; what it captured leaves the bridge busy, and a busy tick
  clears it anyway. The hold boost is left out: it calls `_force_wake_all`, which
  SkipKernel has at every point of the host. The registers `_chg` counts move when
  a job runs, the slave moves, or always (`FreeRunning`).
* In EagerPasses inputs are poked and registers committed in one step, the bitmap of
  holds is a set and a hold evaluates all it may read before its branches: SkipKernel
  has the steps. Chunks of a pass are one pass.
* In Optimize a register's partition is a number: the skip partition key
  decides only which ifs are in one bucket, and the longest key names a statement's
  bucket. The runs put both registers in one, where the most is merged. Arrays,
  memory reads inside expressions and registers wider than a C compare (128 bits)
  are left out. Worklists whose order cannot change the result are taken in one order.
  The thresholds are parameters (`ManyWrites` 256 in the code, `ElseMax` 4, `CseNodes`
  24, `CseGroup` 3, `LitsMax`, `TermsMax`, `FewTerms` 64, `AndMax`); the runs make them small.
* In Datapath a limb has 4 bits for the 64 of the code and a word 3 for 32; types below
  32 bits count as one. A wide value is the limb array the helpers leave, stray bits
  included; a narrow one what its C type holds. Where the C++ has undefined behaviour
  (signed overflow in `_signed_cast` at a full type) `SignedCast` takes what compilers make
  of it in comparisons, and division there is not in the runs. Division by zero is not
  modelled.
* In BuildCache only the order of file times counts (`newer`, `older`); contents are
  records of what they came from. An edit changes the header and the first shard. In a
  build without checks sources are not edited while it runs: it cannot notice
  (section 4).
* `tick_nba` of a design with observed clocks also sets and pokes the clock pin;
  that pin is not modelled. The small kernel is
  not modelled (section 6).

## 3. Runs

| Run | What it asks | Result |
|---|---|---|
| `kernel` | Over every order of host calls on the plain design: type invariant; `CacheFresh`; `SleepingHoldIsNoOp`; `PendingHoldIsArmed`; `DispatchDrains`; `QuietPortsAreOff`; `QuietTickIsFixpoint`; `AssertionsSampleSettledState`; refinement `MatchesReference` | holds, 1.9 million states |
| `kernel_live` | Does every call return (`CallsReturn`)? | holds |
| `direct_enable` | A write enable that no cached wire reads: is the reference matched? | violated |
| `plan_walk` | Do the worklists return exactly the cone (`NothingLost`) and the nearest caches (`ReaderStaleWithDep`), whatever the order and the sharing, and end on loops (`WalkReturns`)? | holds |
| `eager` | With passes: is a stamped wire settled although its pass did not compute (`StampedIsSettled`), is the worklist empty and every unguarded wire settled when holds run (`DrainSettles`), is a pending pass found from the summary (`PendingPassIsArmed`), would a sleeping hold change nothing (`SleepersSettled`), does evaluation in dispatch wake no hold (`NoLateWake`), and is the reference matched? | holds for four groupings |
| `arti_memory` | Is the bridge a memory (`IsMemory`), does it hold a refused head (`HeadHeld`), is its queue bounded (`RespQueueBounded`), does it look busy while it owes something (`OwedMeansBusy`), is every burst served to its last beat (`AllServed`)? | holds, 2.8 million states |
| `arti_control` | Through any sequence of calls with any time-outs: `DeviceSeesInputs`, `ReadIsItsOwn`, `WriteTookEffect`, `LoopsLetGo` | holds |
| `fence_poll` | With a slave that answers in time and jobs that are never silent for the whole tail: does a settle that stops for quiet leave no job (`SettleDrainsJob`), and do polls alone finish a job that a capped settle left (`FenceCompletes`)? | holds |
| `optimize` | After every pass: the next state, outputs and memory ports of the source (`SameBehaviour`), no name undriven and no cycle (`NothingDangles`), conditions of one bit and no new writes (`TypeOK`), each in all states and for all inputs? | holds, 1045 modules |
| `datapath` | Does every signal have its value (`Exact`) and every stored one its range (`TypeOK`), over ticks that feed stored values back? | holds, 457 programs |
| `inlined_shift` | A left shift inlined into a right shift: is the value right? | violated |
| `build_cache` | Whatever is edited, fails or is broken off: is what is emitted current (`EmittedIsCurrent`), what is linked of one build (`LinkedIsCurrent`) and of its flags (`FlagsReach`)? | holds |

The plain design has two inputs, two scalar registers and an array register, a
memory with two cells and two ports that can hit the same cell, a chain of
cached wires (one read through an uncached temporary, one that reads the memory),
two registers that share an invalidation table, a hold with a branch that
evaluates a wire of its own, and one assertion that can fail. So each mechanism
has an instance, and the interesting meetings happen: both ports on one cell, a
hold waking one in an earlier and in a later word, an array and a scalar in one
commit, an assertion thrown between two ticks, an output read between a poke and
a tick.

**Bounds.** Counters only grow, and the kernel compares a stamp only with the
counter it was copied from. `VIEW Alike` therefore identifies states with the
same comparisons, and the state space is finite without a useful bound on ticks:
`MaxTicks = 1000` and `MaxGen = 10000` are never reached by a shortest
behaviour. (Two states with one view have the same enabled actions, and their
successors by one action have one view: every guard and every property mentions
a counter only in such a comparison, except `cycle`, which the refinement compares
only between the two ends of a step.) `PlanWalk` takes 256 graphs over three
assigned names and two leaves, every choice of cached names and every root; a third
name is enough for a shared subexpression inside a loop.

`MCArtiMemory` has write programs with a sparse strobe, a zero strobe and a burst
whose second beat lands where the next burst writes, and two reads that fill the
response queue (limit 2 for the code's 64, bursts of 2 for its 16) past its limit.
`ArtiControl.cfg` takes every limit as small as it can be and still be told apart:
three ticks of time-out, so that an answer can come before, at and after it, and
then during the settle, the poll or a later call; a free-running register; wall
clocks that strike anywhere. `FencePoll.cfg` has jobs longer than a settle
(8 ticks against a cap of 6) and silences of up to 4 against a tail of 5.

`EagerPasses.cfg` has seven cached wires, one of them wide, and one that is not cached, in four
groupings of `FLASHSIM_EAGER_RE`: one region (the default), two beside a lazy wire, one that pulls in a wire between
two of its own, two that share a wire. With words of two bits the passes
fill more than one word and leave a tail; `Alike` is as in the kernel.

`Optimize.cfg` has bodies as CIRCT hands them over (one assignment per
register, of trees of up to two muxes, of holds `enable & (set | x)` and
`enable & (toggle ^ x)`, directly or through a wire), nested ifs as the native parser
does, with an else of one hold (lifted at `ElseMax = 1`) and of two (kept), siblings that share
prefixes, and wires made for the other passes: constants that reach ports, concatenations that are
shifts, wires read once, twice, by a port or not at all, ORs of products whose
terms recombine through negations, ANDs that share operands.

`Datapath.cfg` has signals of whole limbs (12 bits) and of others (9), values that fill the widest C
integer (8) or a limb (4), and every operator in every emitter: as a register's
next value, as an operand, as an output read from what a tick stored. Three
sets of inputs take every value near its limits; two ticks suffice for a stray bit to
be stored and then read.

`BuildCache.cfg` has two designs, one with two contents, builds with and without checks, two
sets of flags and one or two shards, so that a build can meet what any other left
behind.

**Fairness.** `WF_vars(KernelNext)`: the methods are straight-line C++ with finite
loops on one thread, so a method that has been entered keeps executing. Nothing
is assumed of the host. In `LiveSpec` of ArtiMemory the host goes on ticking, as
settle and pump do while the bridge is busy, and the device is at infinitely many
edges ready for both answers while it offers all it has (`SF_vars(EagerEdge)`; a
device that never takes an answer is not the host's fault). `TimerPolling`: a call
that has begun goes on, its loops being counted, and the poll timer keeps firing
when the host is idle (`arti_model.py:1346`, every 100us). EagerPasses, Optimize, Datapath and BuildCache state
no fairness: nothing there may be expected of the host.

## 4. Disagreements between the code and what it says

Two of these are runs. The others were found with the same modules under other
constants, named with each.

* **Two writers** (`emit.py:2211`; `kernel` with `Design = "two_writers"`): "Any statement can be skipped ... re-running
  it would recommit the value already in the register". Not so when another
  statement assigns the same register: the sleeping later writer no longer
  overrides the earlier one that woke. The native frontend accepts such a module;
  CIRCT's output has one expression per register and is not affected
  (`ExclusiveWriters` in Netlist).
* **Direct enable** (`emit.py:2990`; `direct_enable`): "When no page has changed since the last
  scan, the enable wires are still current". An input that a write enable reads
  directly and no cached wire reads belongs to no page; when it rises on a quiet
  model no page moves, `_mem_prepare` is skipped, and the write of that edge is
  lost. `EnablesPaged` in SkipKernel is the condition that excludes it.
* **Idle summary** (`emit.py:2932`; no run): "a word is only touched when awake". The
  initial masks set bits behind the last hold and word that nothing clears until
  `_force_wake_all`, so the scan keeps visiting words with nothing to do.
  Harmless for values, and it defeats the early exit on `_h_words`.
* **Silent job** (`arti_model.py:1347`; `fence_poll` with `MaxSilence` past the tail): the poll pumps "while a job/DMA FSM is
  actually live so fence waits make progress", and `:619` says that "each poll
  advances a fresh settle". The poll asks `gpu_active()` before it refills the
  tail. A job that changes state without memory traffic until a settle has used
  the tail up looks idle to every later poll and is not ticked again until the
  guest makes an MMIO access, which a guest asleep on a fence does not.
* **Default and override** (`opt.py:1313`; `optimize` with `DefaultSources`): "`if (en) x <= c` is a no-op once x
  already holds c". In `x <= d; if (en) x <= 3` it is not: it overrides the default.
  The gate `x != 3` drops it, and d is stored.
* **Merged ifs** (`opt.py:1266`; with `SplitSources`): joining ifs with one condition "is safe for NBA:
  arms only write `__n` and do not observe siblings". Around a statement that assigns the
  same register the order of the writes changes, and with it the register.
* **Wide conditions** (`opt.py:1235`; with `WideSources`, without `TypeOK`): nested conditions are joined by `&`, and
  `_not_expr` strips `~`. Both are right for one bit; the parser takes
  conditions of any width, and `if (v) if (en)` becomes `v & en`, false for v = 2.

  These three concern the native frontend, as the two writers do: `SameBehaviour` holds
  for bodies that assign a register once on a path (`AssignsOnce`) under one-bit
  conditions, which CIRCT's are. Three more do too: an output that is a constant loses its
  driver (`opt.py:194`), `!` of a constant of several bits folds to its
  complement (`opt.py:267`), and a constant `<<` is folded at the wider of its two
  operands (`opt.py:276`). The sources of the run have none of them.
* **Inlined shift** (`emit.py:2037`; `inlined_shift`): a narrow `<<` is not masked, its C type is wider
  than the value, and `optimize` inlines a wire with one reader: `(p << n) >> n` brings back
  the bits above the width.
* **Wide values that do not fill their limbs** (`emit.py:4305-4431`): sums, differences, complements and left shifts leave
  bits above the width in the top limb. Storing and extracting is not affected, but a
  comparison or a right shift of such a value sees them: at 130 bits `~a == b`,
  `(a + b) >> n` and `~a < a` differ from Verilog. The run `datapath` asks for the whole of
  such a value only after assignments that leave none (`Clean`).
* **Full types** (`emit.py:2010`): `_signed_cast` overflows for operands of exactly 64 or
  128 bits; signed division there is wrong under optimization. An extract of exactly 64 bits of a value
  of 65 to 127 gets no mask (`mask_expr`). Shift amounts are cut to 32 bits
  when passed to a helper (`AmountBits`), and `fs_mul_limbs` and `fs_divrem_limbs` have
  buffers of 64 limbs. The programs of the run stay within these limits.
* **Custom groupings** (`test_ready_group_safety.py:1`; `eager` with `Plans <- CustomPlans`, without `AscendingPlans` in MCEagerPasses): when an
  earlier match of `FLASHSIM_EAGER_RE` reads a wire of a later one, the wire is in a later pass than its
  reader. Which passes a leaf must wake is decided from the last pass backwards, so the later one
  is found to reach no hold and is not woken; `DrainSettles`, `SleepersSettled` and `MatchesReference` fail. By default all
  wires are one region, whose passes are ordered by leaf set, and this cannot happen. `AscendingPlans` is the
  condition that excludes it.
* **Interrupted compile** (`compile.py:46`; `build_cache` with `Strikes <- BeforeTop`): `hw.mlir` is written before
  its sidecars. Broken off in between, the new file stands beside the old
  top, mode and fingerprints, and a later build of what those name takes it for its own.
* **Two designs of one stem** in different directories share a cache (`compile.py:47` compares the stem
  only), and a build without checks compares file times alone: an edit while CIRCT runs is older than the
  file it is missing from (`compile.py:156`).
* **Mixed flags** (`experiment.py:197`; `test_compile_options.py:1` asks that changed flags rebuild): a build with new flags that fails half way
  has replaced some objects and keeps the old stamp. The next build with the old
  flags finds the stamp and every object newer than its shard, and links both kinds.
  `FlagsReach` says exactly this much: flags are those of the request, or of a build that broke off.

## 5. Theorems

`SkipKernelProofs` proves, for every netlist, every plan and every word size that
satisfy `NetlistAssumption`, `NoCombinationalLoop`, `PlanTypes`, `ReadsSound` and
`WakesSound`:

| Theorem | Statement |
|---|---|
| `TypeCorrectness` | `Spec => []TypeOK` |
| `PendingHoldsAreArmed` | `Spec => []PendingHoldIsArmed` |
| `DispatchIsComplete` | `Spec => []DispatchDrains` |
| `CachedWiresAreFresh` | `Spec => []CacheFresh` |
| `AssertionsSample` | `Spec => AssertionsSampleSettledState` |

*Types and bitmaps.* `TypeInv` adds two parts to the types. `HoldsOK` is needed
because "`_h_words` never underflows" follows only from "`_h_words` is exactly the
number of live summary words"; `Cursor` is needed because disarming a word
subtracts from that count, which is right only if the word being left was armed.
`WakeKeepsHoldsOK`, `ArmCount` and `DisarmCount` do the counting with the library's
cardinality theorems. `LeastElement` shows that the bit the scan extracts exists.

*Dispatch.* `Ahead` says that each hold still marked as woken is in the snapshot
of the current word, in a listed word, or in a later summary word; with the
cursors at the end nothing is left. It needs `HoldsOK`, because a word that is not
armed is not listed.

*Freshness.* `FreshInv` adds `Phases` (nothing is evaluated before the first poke or
while an input is unannounced; no evaluation is pending in the phases that change
state), `Stamps` (a stamp is never ahead of its page, and within a commit every
wire of an already bumped table is stale, which is why bumping a shared table
once per commit is enough) and `AssertsWait`. `EvalKeepsFresh` is the heart: an
expression evaluated when its named caches are fresh reads what the settled state
has. `ChangeKeepsFresh` is the other half: a changed element leaves the wires of
unbumped pages alone, by `WakesSound`.

It goes on to the reference model. The conditions of section 4 are its hypotheses: without
them the runs `direct_enable` and a design with two writers are counterexamples.

| Theorem | Statement |
|---|---|
| `SkippedScanIsSafe` | under `EnablesPaged`, `Spec => []QuietPortsAreOff` |
| `SleepersWouldDoNothing` | under `ExclusiveWriters`, `Spec => []SleepingHoldIsNoOp` |
| `QuietTicksAreFixpoints` | under both, `Spec => []QuietTickIsFixpoint` |
| `KernelMatchesReference` | under both, `Spec => MatchesReference` |

*Sleeping and staging.* While holds are dispatched the settled state stands still. `SleepOK`: a
hold that nobody woke would assign what its registers have, since no element in its wake list
has moved since it ran. `StagingOK`: a hold that did run has staged what it does in this state, in the
dirty list or the array marks, or what it does is there already. One writer per register makes
the two meet: what one hold staged is not what another one sleeps on. When the scan ends,
`DispatchIsComplete` leaves no third kind of hold, so the staged values are `NextState`
(`StagedIsNext`).

*Ports.* `GenOK` and `EnablesOK`: the generation that the enables were last scanned at is
never ahead, and while it is current every enable is off in the settled state. `EnablesPaged` is what
carries this over an input that moves no page.

*The commit.* `EdgeOK` says what is left to do: the registers in `todo` and the ports not yet
stored. The abstract state is what the elements become when that is finished, so it
moves once, at the start of the commit, and every later step of it is a stutter.

`EagerPassesProofs` proves, for every netlist and every set of groupings whose tables satisfy the assumptions:

| Theorem | Statement |
|---|---|
| `PendingPassesAreArmed` | `Spec => []PendingPassIsArmed` |
| `StampedWiresSettled` | under `AscendingPlans`, `Spec => []StampedIsSettled` |
| `DrainLeavesNothing` | under `AscendingPlans`, `Spec => []DrainSettles` |
| `WakesComeBeforeHolds` | under `AscendingPlans`, `Spec => NoLateWake` |
| `SleepersWouldRest` | under `AscendingPlans` and `ExclusiveWriters`, `Spec => []SleepersSettled` |
| `PassesMatchReference` | under `AscendingPlans` and `ExclusiveWriters`, `Spec => MatchesReference` |

*A stamp without a computation.* A pass may set its stamp `eg` because neither its leaves (`ed`)
nor the passes it reads (`up`) told it to compute. `StampedIsSettled` is not inductive: a stored value is
right only because the stored values it was computed from are. `CleanOK` says just that: a pass that is
not dirty has the values of its expressions over the stored values of others, however
stale. `Calm` is the largest set of passes that are not dirty and read calm passes only, and `CalmOK`
puts every pass with a current stamp in it. `CalmIsSettled` then argues over the order of the passes, and of the
wires in a pass: in the first calm pass with an unsettled wire, its first such wire is computed from settled ones.
`AscendingPlans` makes that order exist.

*The drain.* `DueOK`: a dirty pass that can wake a hold is on the worklist, or is the one under
way. `ScanOK`: nothing pending is behind the cursors. The scan is complete although
it reads a word once, because what a pass calls or tells lies in its own word or in later
ones (`CallsUpTo`, `TakesLowest`).

*Cut holds.* A hold cut at a wire of a pass is not woken by the leaves behind the wire. `SleepOK`
cannot say that its leaves have not moved. It says that there is a state in which they have not and in which the
wires it is cut at settle to what is stored now; the hold did its work in such a state, and
`HoldsSound` carries that over to the present once the drain has settled those wires.

`PlannerProofs` proves, for every finite assignment graph, loops included, every choice of cached names and
every order in which names are pushed (`GraphAssumption`, `WalkAssumption`):

| Theorem | Statement |
|---|---|
| `WalksFindAll` | `Spec => []NothingLost` |
| `ReadersGoStale` | `Spec => []ReaderStaleWithDep` |

and that the tables of SkipPlan are what SkipKernel assumes, for every module that meets `DesignOK`:

| Theorem | Statement | is the assumption |
|---|---|---|
| `PlannedNetlists` | `DesignOK => Tables!WellTyped /\ Tables!SettlesOnce` | `NetlistAssumption`, `NoCombinationalLoop` |
| `PlannedTables` | `DesignOK => Tables!TablesTyped` | `PlanTypes` |
| `NothingReadUnevaluated` | `DesignOK => Tables!ReadsNamed` | `ReadsSound` |
| `EveryChangeWakes` | `DesignOK => Tables!ChangesWake` | `WakesSound` |
| `CachedEnablesArePaged` | if only cached names are in the enables, `Tables!EnablesPaged` | hypothesis of the refinement |

*Closures.* SkipPlan computes a closure in as many stages as there are assigned names. `ClosureIs` shows that
this is the least set that has the given names and is closed under reading through open ones: a stage that is not
closed has more open names than the one before, and there are only so many (`StagesClosed`).

*The walk.* `NothingLost` is not inductive, since it does not say why a name may be skipped. `WalkInv` adds that
what a seen name reads is seen, on the stack or a name where the walk ends. So the seen names and all that
lies below the stack are closed together and hold the answer (`AnswerIsReached`), and nothing that is not below the root
gets there (`NothingElse`).

*The tables.* Under `LoopFree` the equations of the names have exactly one solution over every state
(`LoopFreeSolves`, `LoopFreeDetermines`), and `Settled` is that solution at the cached names
(`SettledIsSolved`). Two solutions that agree where a cone ends agree at its root
(`ConeDetermines`, and `CutDetermines` for cones that end at caches too): by least counterexample, in the
order that `LoopFree` gives. So an element outside `cone_leaves` of a wire cannot move it, and the
nearest caches with the leaves found on the way settle an expression. The last table says no more than the code grants:
the module of `direct_enable` has an enable that names an input. `MCSkipKernel` and `MCEagerPasses` have TLC evaluate the hypotheses on their modules.

`EagerPlanProofs` proves what EagerPasses assumes, for every module with `DesignOK` and `NamesSorted` (names have an
order, skip keys are positive, only caches are compared). `GroupingOK` is a function from some cached wires to ranks:

| Theorem | Statement |
|---|---|
| `EveryGroupingCuts` | for every grouping, `PassesOK(PassesOf(grouping))`, and every wire that matches is in a pass |
| `PassTablesTyped`, `BitsInOrder` | with `PassesOK(passes)`, `PlanTyped` and `BitsNumbered` of `TablesOf(passes)` |
| `PassReadsListed` | likewise `ReadsListed` |
| `PassPagesCover` | likewise `PagesCover` |
| `PassesAreTold` | likewise `PassesTold` |
| `HoldsAreCut` | likewise `HoldsCut` |
| `PlannedPassTables` | all six of `PlanOf(grouping)`, for every grouping |
| `DefaultAscends` | for the grouping where all cached wires have one rank, `Ascending(PlanOf(grouping))` |

*Regions and passes.* `InOrderIs`: a strict order on a finite set numbers it, which is used for the ranks, for
leaf sets (`SetsInOrder`, by size and then by first name) and for the wires of a pass (`WiresInOrder`: a dependency has
fewer caches below it, `FewerBelow`). Every merge shortens the list of regions or finds it
`Untangled`, so the loop of `_eager_regions` ends with regions that share no wire (`RegionsAre`).

*Tables.* Only four facts about passes are used (`PassesOK`), so the six promises hold of any way to cut
wires into passes of one leaf set each. `WokenIs` and `DrainedIs` unfold the two sweeps over the passes.
`HoldsAreCut` compares two states in which the leaves of a cut cone and the wires at the cut agree.

*Ascending.* In one region the passes are ordered by the size of their leaf sets, and what a pass reads from
others has fewer leaves: it comes earlier, and is woken because its reader is (`DefaultAscends`). With several
regions this is not so (section 4), and TLC checks `AscendingPlans` for the groupings of the run.

`NetlistProofs` has the facts about a settled environment and one edge that both
kernels use, and `LeastNatural`. The library's induction theorems cannot be used here, so an
induction is an argument by least counterexample: the set of naturals where the claim
fails has a least element, by well-foundedness of strict inclusion of finite sets.

`ArtiMemoryProofs` and `ArtiControlProofs` prove, for every limit, burst program and
number of tags (`LimitsAssumption`, `ProgramsAssumption`, `AddrsAssumption`, `ControlAssumption`):

| Theorem | Statement |
|---|---|
| `ReadQueueIsBounded` | `Spec => []RespQueueBounded` |
| `BridgeIsTyped` | `Spec => []TypeOK` |
| `QuietOwesNothing` | `Spec => []OwedMeansBusy` |
| `OffersAreHeld` | `Spec => HeadHeld` |
| `BridgeIsMemory` | `Spec => IsMemory` |
| `ControlTypeCorrect` | `Spec => []TypeOK` |
| `InputsAreSeen` | `Spec => []DeviceSeesInputs` |
| `ReadsAreOwn` | `Spec => []ReadIsItsOwn` |
| `WritesTakeEffect` | `Spec => []WriteTookEffect` |
| `LoopsEnd` | `Spec => []LoopsLetGo` |
| `QuietMeansDrained` | under `JobsShow`, `Spec => SettleDrainsJob` |

*The read queue.* The bound is not inductive: `arready` was decided at the
start of the tick. `QueueInv` adds that, from then until the push, an admitting
`arready` means the queue is still below the limit, since nothing is pushed in
between and pops come last.

*The bridge.* One invariant (`BridgeInv`) carries the other four. `LatchInv` and `BeatsInv`: the
buffered beats are exactly those from the next one to land (`LandPos`) to the next one
to capture (`CapturePos`), in order, also when data overtakes its address. `AnswersInv`: the
answers given and queued are numbered 1, 2, ... up to the last finished write, and carry
its status; `ReadsInv`: the beats seen and owed end with the last read taken. `HandshakeInv`: from the
drive to the edge the inputs show the fronts of the queues, which is why a pop after the edge
removes what the device took. Under the refinement mapping `WriteBeat` is `Land`, `CaptureAr` is `Take`, `Edge` is
`Deliver`, and every other step is a stutter.

*Calls.* One invariant, place by place. `PlaceInv` ties place, call and control
inputs together; `RoomInv` says that the slave accepts only what it has room for.
`ReadInv`: from its accepted address on, the read being served is the latest; the
slave takes an address only when no older answer is left.
`WriteInv`: until both halves are accepted either an older answer blocks the slave
or what has been accepted is still there; afterwards both halves are held
(`Held`), or the write has been performed once and left nothing behind (`Served`).
`LoopInv`: in a settle the tail counts the silent ticks up to its budget and the
idle counter those past it, so silence cannot outrun `ChgTail + IdleGrace`; in a
pump the tail is the silence. `TickFacts` states once what a tick does.

*Draining.* `JobsShow` is what `FencePoll.cfg` sets: the slave acts at once, a job is silent for less than
the tail, no wall clock. `AtOnce`: between two edges such a slave holds no half of a write, so no job
starts within a settle. `DrainInv`: the tail that a settle has used is at most the silence of the job, so
a live job always counts as active and keeps the idle counter at zero.

`BuildCacheProofs` proves, for all designs, versions, requests, shard counts and places where
builds break off (`BuildAssumption`):

| Theorem | Statement |
|---|---|
| `LinksCurrentObjects` | `Spec => []LinkedIsCurrent` |
| `LinksWithFlags` | `Spec => []FlagsReach` |
| `EmitsRequested` | under `StemsDiffer` and `SidecarsFollow`, `Spec => []EmittedIsCurrent` |

*Objects.* None of the two is inductive, since they speak of the link only. `KeptInv` says it
of every object on disk: one not older than its shard is of that shard and of the header, and has the flags
of the stamp, of a broken build or of this one. A header that changes makes all
objects older, a shard that appears again after a smaller split makes its own
older, and the stamp is only written when every present object is new.

*The cache.* `SidecarsTell` says that the sidecars describe `hw.mlir` whenever no build is
among them, `SidecarsSoFar` what holds while they are written, and `TimesTell` that a cache without checks is
of the sources as they are unless these are newer. The theorem's two hypotheses are
what section 4 shows to be needed: two designs of one stem, or a build broken off among the
sidecars, do break it.

Only model-checked: everything about the optimizer and the generated arithmetic, whose
definitions recurse over trees (`Optimize`, `Datapath`). Out of the prover's
reach: liveness (`CallsReturn`, `WalkReturns`, `AllServed`, `FenceCompletes`). That custom
groupings ascend is checked for those of the run. The theorems about the planner and those about the kernels
meet in the promises of SkipTables and PassTables: the first prove them of the tables, the second start from them.

## 6. Plan

Next, in this order.

1. The walk over the bytes of an unaligned beat of the ARTI host, as operators against
   a byte-wise definition.
2. `partition_clocked.py`: a module whose clocked processes are split, against the whole.
3. The small kernel (fewer than 256 written registers): no hold words, flags only.

### Not modelled

* Frontends (`circt_frontend.py`, `parse.py`, `circt_assertions.py`, `data_regions.py`): text to IR, no
  state between calls.
* Clocked partitioning: item 2.
* C++ sharding of a generated header and text generation as such: the methods keep
  their bodies. What the text computes is LimbEmit, where it runs SkipKernel.
* `_compiled_dut_fresh` (`FLASHSIM_REUSE_EMIT`, `experiment.py:348`): skips the emitter when
  the header is newer than its inputs; used by experiments only.
* Sources that change and change back while CIRCT runs.
* Command line, toolchain discovery, process launching, QEMU, fixtures, benchmarks: I/O.
* Wrap-around of the 32-bit page counters (hazard without a property).
* Arrays and memory reads inside expressions, in RtlExpr and LimbEmit; the kernel has
  both as elements of the state.

## 7. Running

    tlc -workers 2 -config SkipKernel.cfg MCSkipKernel
    tlc -workers 2 -config PlanWalk.cfg MCPlanWalk
    tlc -workers 2 -config ArtiMemory.cfg MCArtiMemory
    tlc -workers 2 -config ArtiControl.cfg ArtiControl
    tlc -workers 2 -config EagerPasses.cfg MCEagerPasses
    tlc -workers 2 -config Optimize.cfg MCOptimize
    tlc -workers 2 -config Datapath.cfg MCDatapath
    tlc -workers 2 -config BuildCache.cfg MCBuildCache
    tlapm NetlistProofs.tla
    tlapm SkipKernelProofs.tla
    tlapm PlannerProofs.tla
    tlapm EagerPassesProofs.tla
    tlapm EagerPlanProofs.tla
    tlapm ArtiMemoryProofs.tla
    tlapm ArtiControlProofs.tla
    tlapm BuildCacheProofs.tla
