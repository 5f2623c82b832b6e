----------------------------- MODULE SkipKernel -----------------------------
(***************************************************************************)
(* The generated skip-simulation kernel (flashsim/emit.py, emit_cpp) for a *)
(* module with at least _LARGE_WRITES written registers and at most 128    *)
(* cached wires: lazily evaluated wires stamped with page generations,     *)
(* hold methods dispatched through a summary bitmap, a dirty list, gated   *)
(* memory ports.  The kernel is one C++ object driven by one host thread;  *)
(* pc is the place inside the method that is running, and "idle" means the *)
(* host is between calls.                                                  *)
(*                                                                         *)
(* The tables emit_cpp computes from the netlist are constants; SkipTables *)
(* says what they must satisfy.                                            *)
(***************************************************************************)
EXTENDS SkipTables

CONSTANTS
    W,           \* bits in a bitmap word (64 in the code)
    MaxTicks,    \* bound: rising edges in a behaviour
    MaxGen       \* bound: page bumps (the counters are uint32_t in the code)

VARIABLES
    pc, ret,                            \* method being run, where poke returns
    cur, prev, inited, inFresh,         \* struct fields and their __prev copies
    wval, ok, pg, pgGen, seqSeen,       \* cached wires, X__ok, _pg, _pg_gen
    demandGen, demand, want,            \* _demand_gen, _demand, pending eval_*
    need, busy, hAny, hWords,           \* _h_need, _h_busy, _h_any, _h_words
    sw, swBits, word, bits, hold,       \* cursors of the dispatch loop
    nxt, flags, list, ac,               \* X__n, _w, _wl/_nw, _ac
    todo, bep, bst,                     \* commit cursor, _bep, _bst
    weAny, we, wa, wd, port,            \* _we_any, __we, __wa, __wd, store loop
    chg, threw                          \* _chg, an assertion has thrown

hostVars  == <<cur, prev, inited, inFresh, ret, threw>>
cacheVars == <<wval, ok, seqSeen, demandGen, demand, want>>
pageVars  == <<pg, pgGen>>
holdVars  == <<need, busy, hAny, hWords>>
scanVars  == <<sw, swBits, word, bits, hold>>
stageVars == <<nxt, flags, list, ac, todo, bep, bst>>
memVars   == <<weAny, we, wa, wd, port>>
vars == <<pc, hostVars, cacheVars, pageVars, holdVars, scanVars, stageVars,
          memVars, chg>>
-----------------------------------------------------------------------------
NWords == (NHolds + W - 1) \div W
NSums  == (NWords + W - 1) \div W
HoldBits == 0 .. NWords * W - 1          \* the last word has unused tail bits
SumBits  == 0 .. NSums * W - 1
WordOf(h) == h \div W
SumOf(w)  == w \div W
Least(S) == CHOOSE i \in S : \A k \in S : i <= k

Scalars == Regs \ Arrays
EnWires == UNION {EnReads[j] : j \in Ports}
EnTempWires == UNION {EnTemps[j] : j \in Ports}
UsedInputs == {i \in Inputs : LeafParts[i] # {} \/ LeafHolds[i] # {}}

(* What an inlined expression reads: fields of the struct, cached or not.  *)
Now == [x \in Sigs \cup Wires |-> IF x \in Sigs THEN cur[x] ELSE wval[x]]

(* The state the model has been told about: inputs as last poked.          *)
Seen == [x \in Sigs |-> IF x \in UsedInputs THEN prev[x] ELSE cur[x]]
Poked == \A i \in UsedInputs : cur[i] = prev[i]

Stale(w) == ok[w] # pg[Part[w]]
StaleIn(S) == {w \in S : Stale(w)}

(* Bug: a wake that sets the hold's bit and leaves the summary alone.      *)
WakeUnarmed(H) == need' = need \cup H /\ UNCHANGED <<busy, hAny, hWords>>

(* Waking a hold arms the summary bit of its word and counts newly live    *)
(* summary words (fs_wake and its inlined form).                           *)
Wake(H) ==
    LET ws == {WordOf(h) : h \in H} IN
    /\ need' = need \cup H
    /\ hAny' = hAny \cup ws
    /\ hWords' = hWords + Cardinality({SumOf(w) : w \in ws} \ {SumOf(w) : w \in hAny})
    /\ UNCHANGED busy

(* Bug: a shared table is bumped without moving the page generation.       *)
BumpQuietly(x) ==
    /\ pg' = [p \in Pages |-> IF p \in LeafParts[x] THEN pg[p] + 1 ELSE pg[p]]
    /\ pgGen' = IF LeafParts[x] \in {{}} \cup Tabled THEN pgGen ELSE pgGen + 1
    /\ Wake(LeafHolds[x])

(* The effect of a changed element on pages and holds: fs_bump + wake.     *)
BumpAll(x) ==
    /\ pg' = [p \in Pages |-> IF p \in LeafParts[x] THEN pg[p] + 1 ELSE pg[p]]
    /\ pgGen' = IF LeafParts[x] = {} THEN pgGen ELSE pgGen + 1
    /\ Wake(LeafHolds[x])
Bump(x) == BumpAll(x) /\ UNCHANGED bst

(* Bugs: the wake is inside the once-per-commit test; the stamp records    *)
(* that the table was ever bumped instead of the commit that did it.       *)
WakeOnce(x) ==
    IF LeafParts[x] \in Tabled /\ bst[LeafParts[x]] = bep
    THEN UNCHANGED <<pageVars, holdVars, bst>>
    ELSE /\ BumpAll(x)
         /\ bst' = [t \in Tabled |-> IF t = LeafParts[x] THEN bep ELSE bst[t]]
BumpEver(x) ==
    IF LeafParts[x] \in Tabled /\ bst[LeafParts[x]] # 0
    THEN Wake(LeafHolds[x]) /\ UNCHANGED <<pageVars, bst>>
    ELSE /\ BumpAll(x)
         /\ bst' = [t \in Tabled |-> IF t = LeafParts[x] THEN bep ELSE bst[t]]

(* Registers that share an invalidation table bump it once per commit.     *)
BumpOnce(x) ==
    IF LeafParts[x] \in Tabled
    THEN IF bst[LeafParts[x]] # bep
         THEN /\ BumpAll(x)
              /\ bst' = [bst EXCEPT ![LeafParts[x]] = bep]
         ELSE /\ Wake(LeafHolds[x])
              /\ UNCHANGED <<pageVars, bst>>
    ELSE Bump(x)
-----------------------------------------------------------------------------
Init ==
    /\ pc = "idle" /\ ret = "idle" /\ threw = FALSE
    /\ cur = [x \in Sigs |-> Zero] /\ prev = [i \in Inputs |-> Zero]
    /\ inited = FALSE /\ inFresh = FALSE
    /\ wval = [w \in Wires |-> Zero] /\ ok = [w \in Wires |-> 0]
    /\ pg = [p \in Pages |-> 0] /\ pgGen = 1 /\ seqSeen = [p \in Pages |-> 0]
    /\ demandGen = 0 /\ demand = FALSE /\ want = {}
    /\ need = {} /\ busy = HoldBits /\ hAny = SumBits /\ hWords = NSums
    /\ sw = 0 /\ swBits = {} /\ word = 0 /\ bits = {} /\ hold = 0
    /\ nxt = [r \in Regs |-> Zero] /\ flags = {} /\ list = {} /\ ac = {}
    /\ todo = {} /\ bep = 0 /\ bst = [t \in Tabled |-> 0]
    /\ weAny = FALSE /\ we = [j \in Ports |-> FALSE]
    /\ wa = [j \in Ports |-> CHOOSE c \in Cells : TRUE]
    /\ wd = [j \in Ports |-> Zero] /\ port = 1
    /\ chg = 0
-----------------------------------------------------------------------------
(* Host calls.  They start only when the kernel is idle.                   *)

Bounded == bep < MaxTicks /\ pgGen < MaxGen

(* The host drives an input pin.  A host that has announced unchanged      *)
(* inputs through _in_fresh does not change one before the next poke.      *)
DriveInput(i, v) ==
    /\ pc = "idle" /\ ~inFresh
    /\ cur' = [cur EXCEPT ![i] = v]
    /\ UNCHANGED <<pc, ret, threw, prev, inited, inFresh, cacheVars, pageVars,
                   holdVars, scanVars, stageVars, memVars, chg>>

(* _in_fresh: every driven input still holds the value poke last recorded. *)
AnnounceFresh ==
    /\ pc = "idle" /\ inited /\ Poked /\ ~inFresh /\ Bounded
    /\ inFresh' = TRUE
    /\ UNCHANGED <<pc, ret, threw, cur, prev, inited, cacheVars, pageVars,
                   holdVars, scanVars, stageVars, memVars, chg>>

(* poke_inputs(), called by the host or by tick().                         *)
Resume(r) == IF r = "tick" THEN "posedge" ELSE "idle"

EnterPoke ==
    \/ /\ inited /\ inFresh
       /\ inFresh' = FALSE /\ pc' = Resume(ret')
       /\ UNCHANGED <<prev, inited, pageVars>>
    \/ /\ ~inited
       /\ pg' = [p \in Pages |-> 1]
       /\ prev' = [i \in Inputs |-> IF i \in UsedInputs THEN cur[i] ELSE prev[i]]
       /\ inited' = TRUE /\ pc' = Resume(ret')
       /\ UNCHANGED <<inFresh, pgGen>>
    \/ /\ inited /\ ~inFresh
       /\ pc' = "poke"
       /\ UNCHANGED <<prev, inited, inFresh, pageVars>>

Poke ==
    /\ pc = "idle" /\ (Bounded \/ inFresh)
    /\ ret' = "idle" /\ EnterPoke
    /\ UNCHANGED <<threw, cur, cacheVars, holdVars, scanVars, stageVars,
                   memVars, chg>>

Tick ==
    /\ pc = "idle" /\ Bounded
    /\ ret' = "tick" /\ chg' = 0 /\ EnterPoke
    /\ UNCHANGED <<threw, cur, cacheVars, holdVars, scanVars, stageVars, memVars>>

PokeInput(i) ==
    /\ pc = "poke" /\ cur[i] # prev[i]
    /\ Bump(i)
    /\ prev' = [prev EXCEPT ![i] = cur[i]]
    /\ UNCHANGED <<pc, ret, threw, cur, inited, inFresh, cacheVars, scanVars,
                   nxt, flags, list, ac, todo, bep, memVars, chg>>

PokeDone ==
    /\ pc = "poke" /\ Poked
    /\ pc' = Resume(ret)
    /\ UNCHANGED <<hostVars, cacheVars, pageVars, holdVars, scanVars, stageVars,
                   memVars, chg>>

(* tick_nba() of a host that has poked already.                            *)
TickNba ==
    /\ pc = "idle" /\ inited /\ Poked /\ ~inFresh /\ Bounded
    /\ pc' = "posedge" /\ ret' = "tick"
    /\ UNCHANGED <<cur, prev, inited, inFresh, threw, cacheVars, pageVars,
                   holdVars, scanVars, stageVars, memVars, chg>>

(* eval_<output>() of a host that reads a port.                            *)
EvalOutput(w) ==
    /\ pc = "idle" /\ inited /\ Poked /\ Stale(w)
    /\ pc' = "eval" /\ want' = {w}
    /\ UNCHANGED <<hostVars, wval, ok, seqSeen, demandGen, demand, pageVars,
                   holdVars, scanVars, stageVars, memVars, chg>>

EvalReturn ==
    /\ pc = "eval" /\ want = {}
    /\ pc' = "idle"
    /\ UNCHANGED <<hostVars, cacheVars, pageVars, holdVars, scanVars, stageVars,
                   memVars, chg>>

(* _force_wake_all(): every page moves and every hold is made busy; only   *)
(* here are the bitmaps masked to existing holds and words.                *)
ForceWakeAll ==
    /\ pc = "idle" /\ Bounded
    /\ pg' = [p \in Pages |-> pg[p] + 1] /\ pgGen' = pgGen + 1
    /\ busy' = Holds /\ hAny' = 0 .. NWords - 1 /\ hWords' = NSums
    /\ UNCHANGED <<pc, hostVars, cacheVars, need, scanVars, stageVars, memVars, chg>>

-----------------------------------------------------------------------------
(* Lazy evaluation inside any method: eval_w returns when its stamp equals *)
(* its page, else evaluates the cached wires it reads, computes, stamps.   *)

PullDeps(w) ==
    /\ w \in want
    /\ ~ StaleIn(Deps[w]) \subseteq want
    /\ want' = want \cup StaleIn(Deps[w])
    /\ UNCHANGED <<pc, hostVars, wval, ok, seqSeen, demandGen, demand, pageVars,
                   holdVars, scanVars, stageVars, memVars, chg>>

EvalWire(w) ==
    /\ w \in want /\ StaleIn(Deps[w]) = {}
    /\ wval' = [wval EXCEPT ![w] = WireFn(w, Now)]
    /\ ok' = [ok EXCEPT ![w] = pg[Part[w]]]
    /\ want' = want \ {w}
    /\ UNCHANGED <<pc, hostVars, seqSeen, demandGen, demand, pageVars, holdVars,
                   scanVars, stageVars, memVars, chg>>

-----------------------------------------------------------------------------
(* tick_nba(), phase by phase.                                             *)

(* Bug: the assertions read whatever the caches hold.                      *)
PosedgeUnsettled ==
    /\ pc = "posedge"
    /\ chg' = 0 /\ pc' = "assert"
    /\ UNCHANGED <<hostVars, cacheVars, pageVars, holdVars, scanVars, stageVars,
                   memVars>>

(* Clocked assertions sample the settled state before anything is staged.  *)
Posedge ==
    /\ pc = "posedge"
    /\ chg' = 0 /\ want' = StaleIn(AssertReads) /\ pc' = "assert"
    /\ UNCHANGED <<hostVars, wval, ok, seqSeen, demandGen, demand, pageVars,
                   holdVars, scanVars, stageVars, memVars>>

AssertThrow ==
    /\ pc = "assert" /\ want = {} /\ Fails(Now)
    /\ threw' = TRUE /\ pc' = "idle"
    /\ UNCHANGED <<cur, prev, inited, inFresh, ret, cacheVars, pageVars, holdVars,
                   scanVars, stageVars, memVars, chg>>

(* The enables' wires are looked at only if some page moved since the last *)
(* scan, and a partition's group only if that partition's page moved.      *)
AssertPass ==
    /\ pc = "assert" /\ want = {} /\ ~Fails(Now)
    /\ pc' = "demand"
    /\ demand' = (demandGen # pgGen) /\ demandGen' = pgGen
    /\ want' = IF demandGen = pgGen THEN {}
               ELSE {w \in StaleIn(EnWires) : seqSeen[Part[w]] # pg[Part[w]]}
    /\ UNCHANGED <<hostVars, wval, ok, seqSeen, pageVars, holdVars, scanVars,
                   stageVars, memVars, chg>>

(* Bug: the wires below the enables' temporaries are taken as they are.    *)
DispatchedStale == pc' = "prepare" /\ want' = {}

(* After the dispatch loop, a tick that saw a page move refreshes the      *)
(* cached wires the enables read through temporaries.                      *)
Dispatched ==
    /\ pc' = "prepare"
    /\ want' = IF demand THEN StaleIn(EnWires \cup EnTempWires) ELSE {}

(* Bug: the last hold word is not scanned.                                 *)
AllButLast(s) == {w \in hAny : SumOf(w) = s /\ w + 1 < NWords}

(* The words a summary word lists as live.                                 *)
LiveWords(s) == {w \in hAny : SumOf(w) = s}

(* The previous tick's dirty list clears its own flags; then the dispatch  *)
(* loop starts unless no summary word is live.                             *)
StartDispatch ==
    /\ pc = "demand" /\ want = {}
    /\ seqSeen' = [p \in Pages |-> IF demand /\ \E w \in EnWires : Part[w] = p
                                   THEN pg[p] ELSE seqSeen[p]]
    /\ flags' = flags \ list /\ list' = {} /\ ac' = {}
    /\ IF hWords = 0
       THEN Dispatched /\ UNCHANGED <<sw, swBits>>
       ELSE /\ pc' = "scan" /\ sw' = 0 /\ swBits' = LiveWords(0)
            /\ UNCHANGED want
    /\ UNCHANGED <<hostVars, wval, ok, demandGen, demand, pageVars, holdVars,
                   word, bits, hold, nxt, todo, bep, bst, memVars, chg>>

(* Next live word of this summary word; bits is a snapshot of its holds.   *)
NextWord ==
    /\ pc = "scan" /\ swBits # {}
    /\ LET w == Least(swBits) IN
       IF w >= NWords
       THEN swBits' = {} /\ UNCHANGED <<pc, word, bits>>
       ELSE /\ swBits' = swBits \ {w} /\ word' = w
            /\ bits' = {h \in (need \cup busy) \cap Holds : WordOf(h) = w}
            /\ pc' = "word"
    /\ UNCHANGED <<hostVars, cacheVars, pageVars, holdVars, sw, hold, stageVars,
                   memVars, chg>>

NextSum ==
    /\ pc = "scan" /\ swBits = {}
    /\ IF sw + 1 < NSums
       THEN /\ sw' = sw + 1 /\ UNCHANGED <<pc, want>>
            /\ swBits' = LiveWords(sw + 1)
       ELSE Dispatched /\ UNCHANGED <<sw, swBits>>
    /\ UNCHANGED <<hostVars, wval, ok, seqSeen, demandGen, demand, pageVars, holdVars,
                   word, bits, hold, stageVars, memVars, chg>>

EnterHold ==
    /\ pc = "word" /\ bits # {}
    /\ LET h == Least(bits) IN
       /\ hold' = h /\ bits' = bits \ {h}
       /\ need' = need \ {h} /\ busy' = busy \ {h}
       /\ want' = StaleIn(GateReads[h])
    /\ pc' = "hold"
    /\ UNCHANGED <<hostVars, wval, ok, seqSeen, demandGen, demand, pageVars, hAny,
                   hWords, sw, swBits, word, stageVars, memVars, chg>>

(* With its gates settled, a hold evaluates what the branch it takes reads. *)
TakeBranch ==
    /\ pc = "hold" /\ want = {} /\ StaleIn(BranchReads(hold, Now)) # {}
    /\ want' = StaleIn(BranchReads(hold, Now))
    /\ UNCHANGED <<pc, hostVars, wval, ok, seqSeen, demandGen, demand, pageVars,
                   holdVars, scanVars, stageVars, memVars, chg>>

(* The body stages next values.  A scalar that moves is noted once, an     *)
(* array is always marked; either re-arms the hold (_HOLD_TAKEN).          *)
RunHold ==
    /\ pc = "hold" /\ want = {} /\ StaleIn(BranchReads(hold, Now)) = {}
    /\ LET a == HoldFn(hold, Now)
           moved == {r \in DOMAIN a \cap Scalars : a[r] # cur[r]}
           arrays == DOMAIN a \cap Arrays IN
       /\ nxt' = [r \in Regs |-> IF r \in DOMAIN a THEN a[r] ELSE nxt[r]]
       /\ flags' = flags \cup moved
       /\ list' = list \cup (moved \ flags)
       /\ ac' = ac \cup arrays
       /\ IF moved \cup arrays = {}
          THEN UNCHANGED <<busy, hAny, hWords>>
          ELSE /\ busy' = busy \cup {hold}
               /\ hWords' = IF \E w \in hAny : SumOf(w) = SumOf(word)
                            THEN hWords ELSE hWords + 1
               /\ hAny' = hAny \cup {word}
    /\ pc' = "word"
    /\ UNCHANGED <<hostVars, cacheVars, pageVars, need, scanVars, todo, bep, bst,
                   memVars, chg>>

(* Bug: the count drops with every word that goes quiet.                   *)
DisarmEach ==
    /\ hAny' = hAny \ {word}
    /\ hWords' = hWords - 1

Disarm ==
    /\ hAny' = hAny \ {word}
    /\ hWords' = IF \E w \in hAny \ {word} : SumOf(w) = SumOf(word)
                 THEN hWords ELSE hWords - 1

(* Bug: a word is drained until it is empty, as the pass worklist is.      *)
DrainWord ==
    /\ pc = "word" /\ bits = {}
    /\ LET left == {h \in (need \cup busy) \cap Holds : WordOf(h) = word} IN
       IF left # {} THEN bits' = left /\ UNCHANGED <<pc, hAny, hWords>>
                    ELSE pc' = "scan" /\ Disarm /\ UNCHANGED bits
    /\ UNCHANGED <<hostVars, cacheVars, pageVars, need, busy, sw, swBits, word, hold,
                   stageVars, memVars, chg>>

(* The word stays armed while a hold of it is pending or re-armed itself.  *)
LeaveWord ==
    /\ pc = "word" /\ bits = {}
    /\ IF \E b \in need \cup busy : WordOf(b) = word
       THEN UNCHANGED <<hAny, hWords>>
       ELSE Disarm
    /\ pc' = "scan"
    /\ UNCHANGED <<hostVars, cacheVars, pageVars, need, busy, scanVars, stageVars,
                   memVars, chg>>

(* Ports: enables are recomputed if a page moved or one was on last tick.  *)
(* Data and address are taken before commit, for enabled ports only.       *)
Prepare ==
    /\ pc = "prepare" /\ want = {}
    /\ IF demand \/ weAny
       THEN /\ we' = [j \in Ports |-> EnFn(j, Now)]
            /\ weAny' = \E j \in Ports : EnFn(j, Now)
            /\ want' = StaleIn(UNION {PortReads[j] : j \in {k \in Ports : EnFn(k, Now)}})
       ELSE UNCHANGED <<we, weAny, want>>
    /\ pc' = "ports"
    /\ UNCHANGED <<hostVars, wval, ok, seqSeen, demandGen, demand, pageVars, holdVars,
                   scanVars, stageVars, wa, wd, port, chg>>

CapturePorts ==
    /\ pc = "ports" /\ want = {}
    /\ wa' = [j \in Ports |-> IF weAny /\ we[j] THEN AddrFn(j, Now) ELSE wa[j]]
    /\ wd' = [j \in Ports |-> IF weAny /\ we[j] THEN DataFn(j, Now) ELSE wd[j]]
    /\ todo' = list \cup ac /\ bep' = bep + 1 /\ port' = 1
    /\ pc' = "commit"
    /\ UNCHANGED <<hostVars, cacheVars, pageVars, holdVars, scanVars, nxt, flags,
                   list, ac, bst, weAny, we, chg>>

(* _commit() walks the dirty list, then _commit_ac() the marked arrays; no *)
(* effect of one depends on another, so their order is left open.          *)
CommitReg(r) ==
    /\ pc = "commit" /\ r \in todo
    /\ r \in Arrays => todo \subseteq Arrays
    /\ todo' = todo \ {r}
    /\ IF nxt[r] # cur[r]
       THEN /\ cur' = [cur EXCEPT ![r] = nxt[r]]
            /\ chg' = chg + 1
            /\ IF r \in Arrays THEN Bump(r) ELSE BumpOnce(r)
       ELSE UNCHANGED <<cur, chg, pageVars, holdVars, bst>>
    /\ UNCHANGED <<pc, ret, threw, prev, inited, inFresh, cacheVars, scanVars, nxt,
                   flags, list, ac, bep, memVars>>

CommitDone ==
    /\ pc = "commit" /\ todo = {}
    /\ pc' = IF weAny THEN "store" ELSE "idle"
    /\ UNCHANGED <<hostVars, cacheVars, pageVars, holdVars, scanVars, stageVars,
                   memVars, chg>>

(* _mem_store(): enabled ports in order.                                   *)
StorePort ==
    /\ pc = "store" /\ port \in Ports
    /\ IF we[port]
       THEN /\ cur' = [cur EXCEPT ![wa[port]] = wd[port]]
            /\ IF cur[wa[port]] # wd[port]
               THEN Bump(wa[port]) /\ chg' = chg + 1
               ELSE UNCHANGED <<pageVars, holdVars, bst, chg>>
       ELSE UNCHANGED <<cur, pageVars, holdVars, bst, chg>>
    /\ port' = port + 1
    /\ UNCHANGED <<pc, ret, threw, prev, inited, inFresh, cacheVars, scanVars, nxt,
                   flags, list, ac, todo, bep, weAny, we, wa, wd>>

StoreDone ==
    /\ pc = "store" /\ port \notin Ports
    /\ pc' = "idle"
    /\ UNCHANGED <<hostVars, cacheVars, pageVars, holdVars, scanVars, stageVars,
                   memVars, chg>>
-----------------------------------------------------------------------------
HostNext ==
    \/ \E i \in Inputs, v \in Val : DriveInput(i, v)
    \/ AnnounceFresh \/ Poke \/ Tick \/ TickNba \/ ForceWakeAll
    \/ \E w \in Outputs : EvalOutput(w)

KernelNext ==
    \/ \E i \in UsedInputs : PokeInput(i)
    \/ PokeDone \/ EvalReturn
    \/ \E w \in Wires : PullDeps(w) \/ EvalWire(w)
    \/ Posedge \/ AssertThrow \/ AssertPass \/ StartDispatch
    \/ NextWord \/ NextSum \/ EnterHold \/ TakeBranch \/ RunHold \/ LeaveWord
    \/ Prepare \/ CapturePorts
    \/ \E r \in Regs : CommitReg(r)
    \/ CommitDone \/ StorePort \/ StoreDone

Next == HostNext \/ KernelNext

Spec == Init /\ [][Next]_vars

(* The methods are straight-line code with finite loops run by one thread: *)
(* once entered, they keep taking steps.                                   *)
FairSpec == Spec /\ WF_vars(KernelNext)
-----------------------------------------------------------------------------
(* What the planner must guarantee.                                        *)

ASSUME PlanTypes ==
    TablesTyped /\ W \in Nat \ {0} /\ MaxTicks \in Nat /\ MaxGen \in Nat
ASSUME ReadsSound == ReadsNamed
ASSUME WakesSound == ChangesWake
-----------------------------------------------------------------------------
(* Correctness.                                                            *)

(* Every field keeps the range of its C++ declaration, and every bitmap    *)
(* its width.                                                              *)
TypeOK ==
    /\ pc \in {"idle", "poke", "eval", "posedge", "assert", "demand", "scan", "word",
               "hold", "prepare", "ports", "commit", "store"}
    /\ ret \in {"idle", "tick"} /\ threw \in BOOLEAN
    /\ cur \in State /\ prev \in [Inputs -> Val]
    /\ inited \in BOOLEAN /\ inFresh \in BOOLEAN
    /\ wval \in [Wires -> Val] /\ ok \in [Wires -> Nat]
    /\ pg \in [Pages -> Nat] /\ pgGen \in Nat /\ seqSeen \in [Pages -> Nat]
    /\ demandGen \in Nat /\ demand \in BOOLEAN /\ want \subseteq Wires
    /\ need \subseteq Holds /\ busy \subseteq HoldBits
    /\ hAny \subseteq SumBits /\ hWords \in Nat
    /\ sw \in Nat /\ swBits \subseteq SumBits /\ word \in Nat
    /\ bits \subseteq Holds /\ hold \in Nat
    /\ nxt \in [Regs -> Val]
    /\ flags \subseteq Scalars /\ list \subseteq Scalars /\ ac \subseteq Arrays
    /\ todo \subseteq Regs /\ bep \in Nat /\ bst \in [Tabled -> Nat]
    /\ weAny \in BOOLEAN /\ we \in [Ports -> BOOLEAN]
    /\ wa \in [Ports -> Cells] /\ wd \in [Ports -> Val] /\ port \in Nat
    /\ chg \in Nat

(* A cached wire whose stamp equals its page holds the value a complete    *)
(* re-evaluation would give it: skipping eval_* loses nothing, whatever    *)
(* order pokes, ticks, forced wakes and output reads came in.              *)
CacheFresh ==
    inited => \A w \in Wires : ~Stale(w) => wval[w] = Settled(Seen)[w]

(* A hold left asleep between ticks would only assign what its registers   *)
(* already hold (comment at the bucketing of always_body).                 *)
SleepingHoldIsNoOp ==
    pc = "idle" /\ inited =>
        \A h \in Holds \ (need \cup busy) :
            LET a == HoldFn(h, Settled(Seen))
            IN  \A r \in DOMAIN a : a[r] = cur[r]

(* A hold with a pending bit is found by the dispatch loop: its word is    *)
(* armed in the summary, and the count of live summary words is exact.     *)
PendingHoldIsArmed ==
    /\ \A h \in need \cup busy : WordOf(h) \in hAny
    /\ hWords = Cardinality({SumOf(w) : w \in hAny})

(* No woken hold is carried past the dispatch loop of its tick.            *)
DispatchDrains == pc \in {"prepare", "ports"} => need = {}

(* With no page moved since the last scan of the enables, a skipped        *)
(* _mem_prepare would have found every port disabled.                      *)
QuietPortsAreOff ==
    pc = "idle" /\ demandGen = pgGen /\ ~weAny =>
        \A j \in Ports : ~EnFn(j, Settled(Seen))

(* A tick that reports _chg = 0 left a fixpoint: with the same inputs the  *)
(* next edge changes nothing.  Hosts stop ticking on this signal.          *)
QuietTickIsFixpoint ==
    (\/ pc = "commit" /\ todo = {} /\ ~weAny
     \/ pc = "store" /\ port \notin Ports)
        => (chg = 0 => NextState(Seen) = Seen)

(* An assertion throws exactly when it fails in the settled state before   *)
(* the edge.                                                               *)
AssertionsSampleSettledState ==
    [][ /\ (pc = "assert" /\ pc' = "idle") => Fails(Settled(Seen))
        /\ (pc = "assert" /\ pc' = "demand") => ~Fails(Settled(Seen)) ]_vars

(* Every call of the host returns: lazy evaluation and the dispatch and    *)
(* commit loops terminate although holds re-arm themselves.                *)
CallsReturn == pc # "idle" ~> pc = "idle"
-----------------------------------------------------------------------------
(* Refinement.  The edge happens when everything is staged; the commit and *)
(* store loops then only copy what has been decided.                       *)
Pending(c) == {j \in Ports : weAny /\ j >= port /\ we[j] /\ wa[j] = c}
Edge == pc \in {"commit", "store"}

AbsState ==
    [x \in Sigs |->
        CASE x \in Inputs -> Seen[x]
          [] x \in Regs   -> IF pc = "commit" /\ x \in todo THEN nxt[x] ELSE cur[x]
          [] x \in Cells  -> IF Edge /\ Pending(x) # {}
                             THEN wd[CHOOSE j \in Pending(x) : \A k \in Pending(x) : k <= j]
                             ELSE cur[x]]

Ref == INSTANCE RtlReference WITH state <- AbsState, cycle <- bep

(* The kernel implements the reference model.                              *)
MatchesReference == Ref!Spec
=============================================================================
