---------------------------- MODULE EagerPasses ----------------------------
(***************************************************************************)
(* The generated kernel (flashsim/emit.py, emit_cpp) for a module with     *)
(* more than 128 cached wires: wires are evaluated in passes, and a pass   *)
(* that reaches what a hold reads is put on a worklist that tick_nba       *)
(* drains, in one ascending scan of a two-level bitmap, before any hold is *)
(* dispatched.  A wire of a pass wakes the holds that read it when its     *)
(* value moves, so a hold may sleep although the leaves below it change.   *)
(*                                                                         *)
(* What SkipKernel shows in detail is coarse here: inputs are poked and    *)
(* staged registers committed in one step, the bitmap of holds is a set,   *)
(* and a hold evaluates all wires it may read before its branches.  There  *)
(* are no memories.  The tables come from EagerPlan, one record per        *)
(* grouping of the wires; `plan` is the one the module was compiled with.  *)
(***************************************************************************)
EXTENDS PassTables

CONSTANTS
    Plans,       \* the tables of the groupings considered
    Outputs,     \* cached wires a host reads by calling eval_<output>()
    W,           \* bits in a bitmap word (64 in the code)
    MaxTicks     \* bound: rising edges in a behaviour

VARIABLES
    plan,               \* the compiled-in tables
    pc,                 \* place in the running method; "idle" between calls
    cur, prev, inited,  \* struct fields, the inputs last poked, __inited
    wval, ok, pg,       \* cached wires, X__ok of the lazy ones, _pg
    eg, ed, up,         \* per pass: _eg, _ed, _up
    pNeed, pAny, pWords,\* _p_need, _p_any, _p_words
    sw, swBits, word,   \* cursors of the drain
    want,               \* wires whose eval_ call is under way
    awake, turn,        \* _h_need and _h_busy, next hold to dispatch
    nxt, list,          \* X__n, the dirty list
    cycle               \* _nt

hostVars == <<plan, cur, prev, inited>>
passVars == <<wval, ok, eg, ed, up>>
workVars == <<pNeed, pAny, pWords>>
scanVars == <<sw, swBits, word>>
holdVars == <<turn, nxt, list>>
vars == <<pc, hostVars, passVars, pg, workVars, scanVars, want, awake, holdVars, cycle>>
-----------------------------------------------------------------------------
Passes == DOMAIN plan.order
Eager  == DOMAIN plan.passOf
WiresOf(r) == {plan.order[r][i] : i \in DOMAIN plan.order[r]}
PageOf(r)  == plan.page[plan.order[r][1]]

NPasses == Cardinality(DOMAIN plan.bit)
NWords  == (NPasses + W - 1) \div W
NSums   == (NWords + W - 1) \div W
SumOf(w) == w \div W
Least(S) == CHOOSE i \in S : \A k \in S : i <= k

(* What an expression reads: fields of the struct, fresh or not.           *)
Now == [x \in Sigs \cup Wires |-> IF x \in Sigs THEN cur[x] ELSE wval[x]]

UsedInputs == {i \in Inputs :
    plan.leafPages[i] # {} \/ plan.leafHolds[i] # {} \/ plan.leafPasses[i] # {}}
Seen == [x \in Sigs |-> IF x \in UsedInputs THEN prev[x] ELSE cur[x]]

Stale(w) == IF w \in Eager THEN eg[plan.passOf[w]] # pg[plan.page[w]]
                           ELSE ok[w] # pg[plan.page[w]]
StaleIn(S) == {w \in S : Stale(w)}

(* Bug: of the passes a change concerns only the first is put on the list. *)
FirstBit(rs) ==
    IF rs \cap DOMAIN plan.bit = {} THEN {} ELSE {Least({plan.bit[r] : r \in rs \cap DOMAIN plan.bit})}

BitsOf(rs) == {plan.bit[r] : r \in rs \cap DOMAIN plan.bit}
BitsIn(w) == w * W .. w * W + W - 1

(* Bug: _p_need is set and the summary left alone.                         *)
WakeUnsummarised(rs, taken) ==
    /\ pNeed' = (pNeed \ taken) \cup BitsOf(rs)
    /\ UNCHANGED <<pAny, pWords>>

(* _emit_pass_wake, in a step that also takes the bits `taken`.            *)
WakePasses(rs, taken) ==
    LET words == {b \div W : b \in BitsOf(rs)} IN
    /\ pNeed' = (pNeed \ taken) \cup BitsOf(rs)
    /\ pAny' = pAny \cup words
    /\ pWords' = pWords + Cardinality({SumOf(w) : w \in words} \ {SumOf(w) : w \in pAny})

(* _bump_parts for the changed elements X: their pages, holds and passes.  *)
Bump(X) ==
    /\ pg' = [p \in DOMAIN pg |-> pg[p] + Cardinality({x \in X : p \in plan.leafPages[x]})]
    /\ awake' = awake \cup UNION {plan.leafHolds[x] : x \in X}
    /\ WakePasses(UNION {plan.leafPasses[x] : x \in X}, {})
-----------------------------------------------------------------------------
Init ==
    /\ plan \in Plans
    /\ pc = "idle" /\ inited = FALSE
    /\ cur = [x \in Sigs |-> Zero] /\ prev = [i \in Inputs |-> Zero]
    /\ wval = [w \in Wires |-> Zero] /\ ok = [w \in Wires |-> 0]
    /\ pg = [p \in plan.pages |-> 0]
    /\ eg = [r \in Passes |-> 0] /\ ed = [r \in Passes |-> 0]
    /\ up = [r \in Passes |-> FALSE]
    /\ pNeed = 0 .. NWords * W - 1 /\ pAny = 0 .. NWords - 1 /\ pWords = NSums
    /\ sw = 0 /\ swBits = {} /\ word = 0 /\ want = {}
    /\ awake = Holds /\ turn = 0
    /\ nxt = [r \in Regs |-> Zero] /\ list = {} /\ cycle = 0

-----------------------------------------------------------------------------
(* Host calls. *)

DriveInput(i, v) ==
    /\ pc = "idle" /\ cur[i] # v
    /\ cur' = [cur EXCEPT ![i] = v]
    /\ UNCHANGED <<pc, plan, prev, inited, passVars, pg, workVars, scanVars, want,
                   awake, holdVars, cycle>>

(* poke_inputs(): the first call only starts the page counters.            *)
PokeInputs ==
    /\ inited' = TRUE
    /\ prev' = [i \in Inputs |-> IF i \in UsedInputs THEN cur[i] ELSE prev[i]]
    /\ IF inited
       THEN Bump({i \in UsedInputs : cur[i] # prev[i]})
       ELSE /\ pg' = [p \in DOMAIN pg |-> 1]
            /\ UNCHANGED <<awake, workVars>>

Poke ==
    /\ pc = "idle" /\ PokeInputs
    /\ UNCHANGED <<pc, plan, cur, passVars, scanVars, want, holdVars, cycle>>

(* The words of summary word s that are live.                              *)
LiveWords(s) == {w \in pAny : SumOf(w) = s}

(* tick() of a host, up to the start of tick_nba().                        *)
Tick ==
    /\ pc = "idle" /\ cycle < MaxTicks /\ PokeInputs
    /\ pc' = "posedge" /\ cycle' = cycle + 1
    /\ UNCHANGED <<plan, cur, passVars, scanVars, want, holdVars>>

(* eval_<output>() of a host that reads a port.                            *)
EvalOutput(w) ==
    /\ pc = "idle" /\ inited /\ Seen = cur /\ Stale(w)
    /\ pc' = "eval" /\ want' = {w}
    /\ UNCHANGED <<hostVars, passVars, pg, workVars, scanVars, awake, holdVars, cycle>>

EvalReturn ==
    /\ pc = "eval" /\ want = {}
    /\ pc' = "idle"
    /\ UNCHANGED <<hostVars, passVars, pg, workVars, scanVars, want, awake, holdVars, cycle>>

(* _force_wake_all(): every page moves, every hold and pass is pending.    *)
ForceWakeAll ==
    /\ pc = "idle"
    /\ pg' = [p \in DOMAIN pg |-> pg[p] + 1]
    /\ pNeed' = 0 .. NPasses - 1 /\ pAny' = 0 .. NWords - 1 /\ pWords' = NSums
    /\ awake' = Holds
    /\ UNCHANGED <<pc, hostVars, passVars, scanVars, want, holdVars, cycle>>

-----------------------------------------------------------------------------
(* Passes. *)

(* The wires of pass r computed in order, each from those before it.       *)
Computed(r) ==
    LET order == plan.order[r]
        upTo[i \in 0 .. Len(order)] ==
            IF i = 0 THEN Now
            ELSE [upTo[i - 1] EXCEPT ![order[i]] = WireFn(order[i], upTo[i - 1])]
    IN  [w \in Wires |-> upTo[Len(order)][w]]

(* Bug: the pass forgets the changes that are reported while it runs, by   *)
(* clearing the mark of every pass that reads it.                          *)
ClearUps(r, told) == [q \in Passes |-> q # r /\ q \notin told /\ up[q]]

(* A pass takes its own mark down and puts up those of the passes it told. *)
MarkUps(r, told) == [q \in Passes |-> q \in told \/ (q # r /\ up[q])]

(* Bug: only drained passes wake holds, the others being called by them.   *)
WakenByDrained(moved) ==
    UNION {plan.cutHolds[w] : w \in {v \in moved : plan.passOf[v] \in plan.drained}}

(* The holds whose cones are cut at wires that moved.                      *)
WakenBy(moved) == UNION {plan.cutHolds[w] : w \in moved}

(* _eager<r>() after its dependencies: it stamps itself, returns if none   *)
(* of its leaves moved and no pass it reads reported a change, else        *)
(* computes.  A compared wire that moved, or a wide wire in any case, tells *)
(* its readers; a compared wire that moved wakes the holds it is cut for.  *)
RunPass(r, taken) ==
    /\ eg' = [eg EXCEPT ![r] = pg[PageOf(r)]]
    /\ IF ed[r] = pg[plan.dataPage[r]] /\ ~up[r]
       THEN UNCHANGED <<wval, ed, up, awake>> /\ WakePasses({}, taken)
       ELSE LET moved == {w \in WiresOf(r) \cap Scalar : Computed(r)[w] # wval[w]}
                told  == UNION {plan.consumers[w] : w \in moved \cup (WiresOf(r) \ Scalar)}
            IN  /\ wval' = Computed(r)
                /\ ed' = [ed EXCEPT ![r] = pg[plan.dataPage[r]]]
                /\ up' = MarkUps(r, told)
                /\ awake' = awake \cup WakenBy(moved)
                /\ WakePasses(told, taken)

(* Bug: a pass takes the lazy wires it reads as they are.                  *)
PassDeps(w) ==
    StaleIn(IF w \in Eager THEN plan.foreign[plan.passOf[w]] \cap Eager ELSE plan.lazyDeps[w])

(* A call first evaluates the stale dependencies of its wire or pass.      *)
CallDeps(w) ==
    StaleIn(IF w \in Eager THEN plan.foreign[plan.passOf[w]] ELSE plan.lazyDeps[w])

PullDeps(w) ==
    /\ w \in want /\ ~ CallDeps(w) \subseteq want
    /\ want' = want \cup CallDeps(w)
    /\ UNCHANGED <<pc, hostVars, passVars, pg, workVars, scanVars, awake, holdVars, cycle>>

EvalPass(w) ==
    /\ w \in want \cap Eager /\ CallDeps(w) = {}
    /\ want' = want \ WiresOf(plan.passOf[w])
    /\ RunPass(plan.passOf[w], {})
    /\ UNCHANGED <<pc, hostVars, ok, pg, scanVars, holdVars, cycle>>

EvalLazy(w) ==
    /\ w \in want \ Eager /\ CallDeps(w) = {}
    /\ want' = want \ {w}
    /\ wval' = [wval EXCEPT ![w] = WireFn(w, Now)]
    /\ ok' = [ok EXCEPT ![w] = pg[plan.page[w]]]
    /\ UNCHANGED <<pc, hostVars, eg, ed, up, pg, workVars, scanVars, awake, holdVars, cycle>>

-----------------------------------------------------------------------------
(* The drain of woken passes (_emit_pass_dispatch). *)

DispatchHolds == pc' = "holds" /\ turn' = 0

StartDrain ==
    /\ pc = "posedge"
    /\ IF pWords = 0
       THEN DispatchHolds /\ UNCHANGED <<sw, swBits>>
       ELSE /\ pc' = "drain" /\ sw' = 0 /\ swBits' = LiveWords(0)
            /\ UNCHANGED turn
    /\ list' = {}
    /\ UNCHANGED <<hostVars, passVars, pg, workVars, word, want, awake, nxt, cycle>>

NextWord ==
    /\ pc = "drain" /\ swBits # {}
    /\ word' = Least(swBits) /\ swBits' = swBits \ {word'}
    /\ pc' = "passes"
    /\ UNCHANGED <<hostVars, passVars, pg, workVars, sw, want, awake, holdVars, cycle>>

PendingHere == pNeed \cap BitsIn(word)
NextPass == CHOOSE r \in DOMAIN plan.bit : plan.bit[r] = Least(PendingHere)

(* The tail of the last word has bits without a pass.                      *)
SkipTail ==
    /\ pc = "passes" /\ want = {} /\ PendingHere # {} /\ Least(PendingHere) >= NPasses
    /\ pNeed' = pNeed \ {Least(PendingHere)}
    /\ UNCHANGED <<pc, hostVars, passVars, pg, pAny, pWords, scanVars, want, awake,
                   holdVars, cycle>>

TakePass ==
    pc = "passes" /\ want = {} /\ PendingHere # {} /\ Least(PendingHere) < NPasses

(* A drained pass runs without looking at its dependencies.                *)
RunReadyPass ==
    /\ TakePass /\ NextPass \in plan.drained
    /\ IF eg[NextPass] = pg[PageOf(NextPass)]
       THEN UNCHANGED <<wval, eg, ed, up, awake>>
                /\ WakePasses({}, {Least(PendingHere)})
       ELSE RunPass(NextPass, {Least(PendingHere)})
    /\ UNCHANGED <<pc, hostVars, ok, pg, scanVars, want, holdVars, cycle>>

(* Any other pass is called as an output would be.                         *)
CallPass ==
    /\ TakePass /\ NextPass \notin plan.drained
    /\ pNeed' = pNeed \ {Least(PendingHere)}
    /\ want' = StaleIn({plan.order[NextPass][1]})
    /\ UNCHANGED <<pc, hostVars, passVars, pg, pAny, pWords, scanVars, awake, holdVars,
                   cycle>>

(* Bug: the words seen live when the summary word was entered are final.   *)
SnapshotOnly(live) == swBits

(* Words above the cursor that were woken meanwhile are still visited.     *)
StillToVisit(live) == swBits \cup {w \in live : SumOf(w) = sw /\ w > word}

CountLive(live) == IF \E w \in live : SumOf(w) = sw THEN pWords ELSE pWords - 1

LeaveWord ==
    /\ pc = "passes" /\ want = {} /\ PendingHere = {}
    /\ pAny' = pAny \ {word}
    /\ pWords' = CountLive(pAny')
    /\ swBits' = StillToVisit(pAny')
    /\ pc' = "drain"
    /\ UNCHANGED <<hostVars, passVars, pg, pNeed, sw, word, want, awake, holdVars, cycle>>

NextSum ==
    /\ pc = "drain" /\ swBits = {}
    /\ IF sw + 1 < NSums
       THEN sw' = sw + 1 /\ swBits' = LiveWords(sw + 1) /\ UNCHANGED <<pc, turn>>
       ELSE DispatchHolds /\ UNCHANGED <<sw, swBits>>
    /\ UNCHANGED <<hostVars, passVars, pg, workVars, word, want, awake, nxt, list, cycle>>

-----------------------------------------------------------------------------
(* Holds and commit. *)

Demanded == StaleIn(plan.holdReads[turn])

SkipHold ==
    /\ pc = "holds" /\ turn \in Holds \ awake
    /\ turn' = turn + 1
    /\ UNCHANGED <<pc, hostVars, passVars, pg, workVars, scanVars, want, awake, nxt, list,
                   cycle>>

(* A hold calls the wires it reads, except those of drained passes.        *)
DemandReads ==
    /\ pc = "holds" /\ turn \in awake /\ want = {} /\ Demanded # {}
    /\ want' = Demanded
    /\ UNCHANGED <<pc, hostVars, passVars, pg, workVars, scanVars, awake, holdVars, cycle>>

(* It stages what differs and stays awake if anything did.                 *)
RunHold ==
    /\ pc = "holds" /\ turn \in awake /\ want = {} /\ Demanded = {}
    /\ LET a == HoldFn(turn, Now)
           moved == {r \in DOMAIN a : a[r] # cur[r]}
       IN  /\ nxt' = [r \in Regs |-> IF r \in DOMAIN a THEN a[r] ELSE nxt[r]]
           /\ list' = list \cup moved
           /\ awake' = IF moved = {} THEN awake \ {turn} ELSE awake
    /\ turn' = turn + 1
    /\ UNCHANGED <<pc, hostVars, passVars, pg, workVars, scanVars, want, cycle>>

Commit ==
    /\ pc = "holds" /\ turn \notin Holds /\ want = {}
    /\ LET moved == {r \in list : nxt[r] # cur[r]}
       IN  /\ Bump(moved)
           /\ cur' = [x \in Sigs |-> IF x \in moved THEN nxt[x] ELSE cur[x]]
    /\ pc' = "idle"
    /\ UNCHANGED <<plan, prev, inited, passVars, scanVars, want, holdVars, cycle>>

-----------------------------------------------------------------------------
Drain == StartDrain \/ NextWord \/ SkipTail \/ RunReadyPass \/ CallPass \/ LeaveWord \/ NextSum
Lazily == \E w \in Wires : PullDeps(w) \/ EvalPass(w) \/ EvalLazy(w)
HoldSteps == SkipHold \/ DemandReads \/ RunHold \/ Commit
Host == \/ \E i \in Inputs, v \in Val : DriveInput(i, v)
        \/ \E w \in Outputs : EvalOutput(w)
        \/ Poke \/ Tick \/ ForceWakeAll

Next == Host \/ EvalReturn \/ Lazily \/ Drain \/ HoldSteps

Spec == Init /\ [][Next]_vars

ASSUME EagerAssumption ==
    /\ NPorts = 0 /\ Cells = {} /\ IsFiniteSet(Sigs)
    /\ W \in Nat \ {0} /\ MaxTicks \in Nat
    /\ Scalar \subseteq Wires /\ Outputs \subseteq Wires

(* What the tables of each plan promise.                                   *)
ASSUME PlanTypes   == \A p \in Plans : PlanTyped(p)
ASSUME BitsSound   == \A p \in Plans : BitsNumbered(p)
ASSUME ReadsSound  == \A p \in Plans : ReadsListed(p)
ASSUME PagesSound  == \A p \in Plans : PagesCover(p)
ASSUME PassesSound == \A p \in Plans : PassesTold(p)
ASSUME HoldsSound  == \A p \in Plans : HoldsCut(p)

AscendingPlans == \A p \in Plans : Ascending(p)
-----------------------------------------------------------------------------
(* Correctness.                                                            *)

(* A wire whose stamp equals its page has the value of a full evaluation,  *)
(* although a pass stamps itself before it computes and often does not     *)
(* compute at all.                                                         *)
StampedIsSettled ==
    LET e == Settled(Seen)
    IN  inited => \A w \in Wires : ~Stale(w) => wval[w] = e[w]

(* When the holds are dispatched, the one ascending scan has left no pass  *)
(* on the worklist and every wire of a drained pass has settled: holds     *)
(* read these wires without a guard (_EAGER_DONE).                         *)
DrainSettles ==
    LET e == Settled(Seen)
    IN  pc = "holds" => /\ pNeed = {} /\ pAny = {}
                        /\ \A r \in plan.drained : \A w \in WiresOf(r) : wval[w] = e[w]

(* A pending pass is found from the summary, whose live words are counted  *)
(* exactly, and no bit above the passes is ever set in either bitmap but   *)
(* in the tail of the last word.                                           *)
PendingPassIsArmed ==
    /\ pNeed \subseteq 0 .. NWords * W - 1 /\ pAny \subseteq 0 .. NWords - 1
    /\ \A b \in pNeed : b \div W \in pAny \/ (pc = "passes" /\ b \div W = word)
    /\ pWords = Cardinality({SumOf(w) : w \in pAny})

(* Before dispatch, a hold that sleeps would assign what its registers     *)
(* hold already, although its cone is cut at the wires of passes and the   *)
(* leaves behind them never wake it.                                       *)
SleepersSettled ==
    LET e == Settled(Seen)
    IN  pc = "holds" /\ turn = 0 /\ want = {} =>
            \A h \in Holds \ awake :
                LET a == HoldFn(h, e) IN \A r \in DOMAIN a : a[r] = cur[r]

(* What holds evaluate wakes no hold: a hold before the cursor would be    *)
(* missed by this tick.                                                    *)
NoLateWake ==
    [][ pc = "holds" /\ pc' = "holds" => awake' \subseteq awake ]_vars

(* The kernel with passes implements the reference model.                  *)
Edges == IF pc \in {"posedge", "drain", "passes", "holds"} THEN cycle - 1 ELSE cycle
Ref == INSTANCE RtlReference WITH state <- Seen, cycle <- Edges
MatchesReference == Ref!Spec
=============================================================================
