-------------------------- MODULE SkipKernelProofs --------------------------
(***************************************************************************)
(* Theorems about the skip kernel for every module, plan and bound that    *)
(* satisfies the assumptions of Netlist and SkipKernel: no cached wire is  *)
(* read stale, every woken hold is found, and the kernel implements the    *)
(* reference model.                                                        *)
(***************************************************************************)
EXTENDS SkipKernel, NetlistProofs

(* What the constants are assumed to be, wherever an assumption is cited.  *)
USE DEF WellTyped, SettlesOnce, TablesTyped, ReadsNamed, ChangesWake

(***************************************************************************)
(* Bitmap arithmetic.                                                      *)
(***************************************************************************)
(* A non-empty set of naturals has the least element that ctz finds.       *)
LEMMA LeastElement ==
    ASSUME NEW S \in SUBSET Nat, S # {}
    PROVE  Least(S) \in S /\ \A k \in S : Least(S) <= k
BY LeastNatural DEF Least

LEMMA WordRange ==
    /\ NWords \in Nat /\ NSums \in Nat
    /\ NHolds <= NWords * W /\ NWords <= NSums * W
BY NetlistAssumption, PlanTypes DEF NWords, NSums

LEMMA WordOfHold ==
    ASSUME NEW h \in HoldBits
    PROVE  WordOf(h) \in 0 .. NWords - 1 /\ WordOf(h) \in SumBits
<1>1. h \in Nat /\ h < NWords * W
  BY WordRange, PlanTypes DEF HoldBits
<1>2. h \div W \in 0 .. NWords - 1
  BY <1>1, WordRange, PlanTypes
<1>3. QED
  BY <1>2, WordRange, PlanTypes DEF WordOf, SumBits

LEMMA HoldsAreBits == Holds \subseteq HoldBits
BY WordRange, NetlistAssumption, PlanTypes DEF Holds, HoldBits

(* The summary words of a set of live words.                               *)
Sums(A) == {SumOf(w) : w \in A}

LEMMA SumsFinite ==
    ASSUME NEW A \in SUBSET SumBits
    PROVE  IsFiniteSet(Sums(A)) /\ Cardinality(Sums(A)) \in Nat
<1>1. IsFiniteSet(SumBits)
  BY FS_Interval, WordRange, PlanTypes DEF SumBits
<1>2. \A w \in SumBits : SumOf(w) \in SumBits
  BY WordRange, PlanTypes DEF SumBits, SumOf
<1>3. Sums(A) \in SUBSET SumBits
  BY <1>2 DEF Sums
<1>4. IsFiniteSet(Sums(A))
  BY <1>1, <1>3, FS_Subset
<1>5. QED
  BY <1>4, FS_CardinalityType
-----------------------------------------------------------------------------
(***************************************************************************)
(* The hold bitmaps and their summary count.                               *)
(***************************************************************************)
HoldsOK ==
    /\ need \subseteq Holds /\ busy \subseteq HoldBits /\ hAny \subseteq SumBits
    /\ PendingHoldIsArmed

(* The cursors of the dispatch loop point at armed words of pending holds. *)
Cursor ==
    /\ pc \in {"scan", "word", "hold"} => swBits \subseteq hAny
    /\ pc \in {"word", "hold"} =>
          /\ word \in hAny /\ word \notin swBits
          /\ bits \subseteq Holds
          /\ \A h \in bits : WordOf(h) = word
    /\ pc = "hold" => hold \in Holds /\ WordOf(hold) = word

LEMMA HoldsOKStutter ==
    ASSUME HoldsOK, UNCHANGED holdVars
    PROVE  HoldsOK'
BY DEF HoldsOK, PendingHoldIsArmed, holdVars, SumOf, WordOf, Holds, HoldBits, SumBits, NWords, NSums

LEMMA WakeKeepsHoldsOK ==
    ASSUME HoldsOK, NEW H \in SUBSET Holds, Wake(H)
    PROVE  HoldsOK'
<1> DEFINE ws == {WordOf(h) : h \in H}
           new == Sums(ws) \ Sums(hAny)
<1>1. ws \in SUBSET SumBits
  BY WordOfHold, HoldsAreBits
<1>2. hAny \cup ws \in SUBSET SumBits
  BY <1>1 DEF HoldsOK
<1>3. /\ need' = need \cup H /\ hAny' = hAny \cup ws /\ busy' = busy
      /\ hWords' = hWords + Cardinality(new)
  BY DEF Wake, Sums
<1>4. hWords = Cardinality(Sums(hAny))
  BY DEF HoldsOK, PendingHoldIsArmed, Sums
<1>5. Sums(hAny') = Sums(hAny) \cup new
  BY <1>3 DEF Sums
<1>6. IsFiniteSet(Sums(hAny)) /\ IsFiniteSet(new)
  BY <1>1, SumsFinite, FS_Difference DEF HoldsOK
<1>7. Sums(hAny) \cap new = {}
  OBVIOUS
<1>8. hWords' = Cardinality(Sums(hAny'))
  <2> HIDE DEF ws, new
  <2>1. Cardinality(Sums(hAny) \cup new) = Cardinality(Sums(hAny)) + Cardinality(new)
    <3>1. Cardinality(Sums(hAny) \cup new)
            = Cardinality(Sums(hAny)) + Cardinality(new) - Cardinality(Sums(hAny) \cap new)
      BY <1>6, FS_Union
    <3>2. Cardinality(Sums(hAny) \cap new) = 0
      BY <1>7, FS_EmptySet
    <3>3. Cardinality(Sums(hAny)) \in Nat /\ Cardinality(new) \in Nat
      BY <1>6, FS_CardinalityType
    <3>4. QED
      BY <3>1, <3>2, <3>3
  <2>2. Cardinality(Sums(hAny')) = Cardinality(Sums(hAny) \cup new)
    BY <1>5, Zenon
  <2>3. QED
    BY <2>1, <2>2, <1>3, <1>4, Zenon
<1>9. \A h \in need' \cup busy' : WordOf(h) \in hAny'
  BY <1>3 DEF HoldsOK, PendingHoldIsArmed
<1>10. QED
  BY <1>2, <1>3, <1>8, <1>9 DEF HoldsOK, PendingHoldIsArmed, Sums, SumOf, WordOf,
     Holds, HoldBits, SumBits, NWords, NSums

(* Arming one word.                                                        *)
LEMMA ArmCount ==
    ASSUME NEW A \in SUBSET SumBits, NEW w \in SumBits
    PROVE  Cardinality(Sums(A \cup {w})) =
             IF \E v \in A : SumOf(v) = SumOf(w)
             THEN Cardinality(Sums(A)) ELSE Cardinality(Sums(A)) + 1
<1>1. Sums(A \cup {w}) = Sums(A) \cup {SumOf(w)}
  BY DEF Sums
<1>2. SumOf(w) \in Sums(A) <=> \E v \in A : SumOf(v) = SumOf(w)
  BY DEF Sums
<1>3. Cardinality(Sums(A) \cup {SumOf(w)}) =
        IF SumOf(w) \in Sums(A) THEN Cardinality(Sums(A)) ELSE Cardinality(Sums(A)) + 1
  BY SumsFinite, FS_AddElement
<1>4. Cardinality(Sums(A \cup {w})) = Cardinality(Sums(A) \cup {SumOf(w)})
  BY <1>1, Zenon
<1>5. QED
  BY <1>2, <1>3, <1>4

(* Disarming one armed word.                                               *)
LEMMA DisarmCount ==
    ASSUME NEW A \in SUBSET SumBits, NEW w \in A
    PROVE  Cardinality(Sums(A \ {w})) =
             IF \E v \in A \ {w} : SumOf(v) = SumOf(w)
             THEN Cardinality(Sums(A)) ELSE Cardinality(Sums(A)) - 1
<1>1. A = (A \ {w}) \cup {w} /\ A \ {w} \in SUBSET SumBits /\ w \in SumBits
  OBVIOUS
<1>2. Cardinality(Sums((A \ {w}) \cup {w})) =
        IF \E v \in A \ {w} : SumOf(v) = SumOf(w)
        THEN Cardinality(Sums(A \ {w})) ELSE Cardinality(Sums(A \ {w})) + 1
  BY <1>1, ArmCount
<1>3. Cardinality(Sums(A \ {w})) \in Nat
  BY <1>1, SumsFinite
<1>4. QED
  BY <1>1, <1>2, <1>3

(* Which steps touch the bitmaps.                                          *)
LEMMA BumpWakes ==
    ASSUME NEW x \in Sigs, BumpAll(x) \/ Bump(x) \/ BumpOnce(x)
    PROVE  Wake(LeafHolds[x]) \/ UNCHANGED holdVars
BY DEF BumpAll, Bump, BumpOnce

(* Every summary word lists some word when all words are armed.            *)
LEMMA AllSums ==
    ASSUME NEW A \in SUBSET SumBits, 0 .. NWords - 1 \subseteq A
    PROVE  Cardinality(Sums(A)) = NSums
<1>1. \A w \in SumBits : SumOf(w) \in 0 .. NSums - 1
  <2> TAKE w \in SumBits
  <2>1. w \in Nat /\ w < NSums * W
    BY WordRange, PlanTypes DEF SumBits
  <2>2. w \div W \in 0 .. NSums - 1
    BY <2>1, WordRange, PlanTypes
  <2>3. QED
    BY <2>2 DEF SumOf
<1>2. ASSUME NEW s \in 0 .. NSums - 1
      PROVE  \E w \in 0 .. NWords - 1 : SumOf(w) = s
  <2>1. s * W \in 0 .. NWords - 1
    BY WordRange, PlanTypes DEF NSums
  <2>2. SumOf(s * W) = s
    BY PlanTypes DEF SumOf
  <2>3. QED
    BY <2>1, <2>2
<1>3. Sums(A) = 0 .. NSums - 1
  BY <1>1, <1>2 DEF Sums
<1>4. Cardinality(0 .. NSums - 1) = NSums
  BY FS_Interval, WordRange
<1>5. QED
  BY <1>3, <1>4, Zenon

LEMMA HoldsOKInit == Init => HoldsOK
<1> SUFFICES ASSUME Init PROVE HoldsOK
  OBVIOUS
<1>1. need = {} /\ busy = HoldBits /\ hAny = SumBits /\ hWords = NSums
  BY DEF Init
<1>2. 0 .. NWords - 1 \subseteq SumBits
  BY WordRange, PlanTypes DEF SumBits
<1>3. \A h \in HoldBits : WordOf(h) \in SumBits
  BY WordOfHold
<1>4. hWords = Cardinality(Sums(hAny))
  BY <1>1, <1>2, AllSums
<1>5. QED
  BY <1>1, <1>3, <1>4 DEF HoldsOK, PendingHoldIsArmed, Sums

LEMMA HoldsOKStep ==
    ASSUME HoldsOK, Cursor, wa \in [Ports -> Cells], [Next]_vars
    PROVE  HoldsOK'
<1>1. CASE UNCHANGED holdVars
  BY <1>1, HoldsOKStutter
<1>2. CASE \E x \in Sigs : Wake(LeafHolds[x])
  <2>1. \A x \in Sigs : LeafHolds[x] \in SUBSET Holds
    BY PlanTypes
  <2>2. QED
    BY <1>2, <2>1, WakeKeepsHoldsOK
<1>3. CASE ForceWakeAll
  <2>1. /\ need' = need /\ busy' = Holds /\ hAny' = 0 .. NWords - 1
        /\ hWords' = NSums
    BY <1>3 DEF ForceWakeAll
  <2>2. \A h \in HoldBits : WordOf(h) \in 0 .. NWords - 1
    BY WordOfHold
  <2>3. 0 .. NWords - 1 \in SUBSET SumBits
    BY WordRange, PlanTypes DEF SumBits
  <2>4. hWords' = Cardinality(Sums(hAny'))
    BY <2>1, <2>3, AllSums
  <2>5. QED
    BY <2>1, <2>2, <2>3, <2>4, HoldsAreBits DEF HoldsOK, PendingHoldIsArmed, Sums
<1>4. CASE EnterHold
  <2>1. /\ need' \subseteq need /\ busy' \subseteq busy
        /\ hAny' = hAny /\ hWords' = hWords
    BY <1>4 DEF EnterHold
  <2>2. QED
    BY <2>1 DEF HoldsOK, PendingHoldIsArmed
<1>5. CASE RunHold
  <2>1. CASE UNCHANGED <<busy, hAny, hWords>>
    BY <1>5, <2>1, HoldsOKStutter DEF RunHold, holdVars
  <2>2. CASE ~ UNCHANGED <<busy, hAny, hWords>>
    <3>1. /\ need' = need /\ busy' = busy \cup {hold} /\ hAny' = hAny \cup {word}
          /\ hWords' = IF \E w \in hAny : SumOf(w) = SumOf(word)
                       THEN hWords ELSE hWords + 1
      BY <1>5, <2>2 DEF RunHold
    <3>2. hold \in Holds /\ WordOf(hold) = word /\ word \in SumBits
      BY <1>5 DEF Cursor, RunHold, HoldsOK
    <3>3. hWords = Cardinality(Sums(hAny))
      BY DEF HoldsOK, PendingHoldIsArmed, Sums
    <3>4. hWords' = Cardinality(Sums(hAny \cup {word}))
      BY <3>1, <3>2, <3>3, ArmCount DEF HoldsOK
    <3>5. hWords' = Cardinality(Sums(hAny'))
      BY <3>1, <3>4, Zenon
    <3>6. QED
      BY <3>1, <3>2, <3>5, HoldsAreBits DEF HoldsOK, PendingHoldIsArmed, Sums
  <2>3. QED
    BY <2>1, <2>2
<1>6. CASE LeaveWord
  <2>1. CASE UNCHANGED <<hAny, hWords>>
    BY <1>6, <2>1, HoldsOKStutter DEF LeaveWord, holdVars
  <2>2. CASE ~ UNCHANGED <<hAny, hWords>>
    <3>1. /\ need' = need /\ busy' = busy /\ hAny' = hAny \ {word}
          /\ hWords' = IF \E w \in hAny \ {word} : SumOf(w) = SumOf(word)
                       THEN hWords ELSE hWords - 1
          /\ ~ \E b \in need \cup busy : WordOf(b) = word
      BY <1>6, <2>2 DEF LeaveWord, Disarm
    <3>2. word \in hAny
      BY <1>6 DEF Cursor, LeaveWord
    <3>3. hWords = Cardinality(Sums(hAny))
      BY DEF HoldsOK, PendingHoldIsArmed, Sums
    <3>4. hWords' = Cardinality(Sums(hAny \ {word}))
      BY <3>1, <3>2, <3>3, DisarmCount DEF HoldsOK
    <3>5. hWords' = Cardinality(Sums(hAny'))
      BY <3>1, <3>4, Zenon
    <3>6. QED
      BY <3>1, <3>5 DEF HoldsOK, PendingHoldIsArmed, Sums
  <2>3. QED
    BY <2>1, <2>2
<1>7. CASE HostNext
  <2>1. CASE \E i \in Inputs, v \in Val : DriveInput(i, v)
    BY <1>1, <2>1 DEF DriveInput
  <2>2. CASE AnnounceFresh \/ Poke \/ Tick \/ TickNba
    BY <1>1, <2>2 DEF AnnounceFresh, Poke, Tick, TickNba
  <2>3. CASE \E w \in Outputs : EvalOutput(w)
    BY <1>1, <2>3 DEF EvalOutput
  <2>4. QED
    BY <1>3, <1>7, <2>1, <2>2, <2>3 DEF HostNext
<1>8. CASE KernelNext
  <2>1. CASE \E i \in UsedInputs : PokeInput(i)
    <3>1. PICK i \in UsedInputs : PokeInput(i)
      BY <2>1
    <3>2. i \in Sigs /\ Bump(i)
      BY <3>1 DEF UsedInputs, Sigs, PokeInput
    <3>3. QED
      BY <3>2, <1>1, <1>2, BumpWakes
  <2>2. CASE \E r \in Regs : CommitReg(r)
    <3>1. PICK r \in Regs : CommitReg(r)
      BY <2>2
    <3>2. r \in Sigs
      BY DEF Sigs
    <3>3. Bump(r) \/ BumpOnce(r) \/ UNCHANGED holdVars
      BY <3>1 DEF CommitReg
    <3>4. QED
      BY <3>2, <3>3, <1>1, <1>2, BumpWakes
  <2>3. CASE StorePort
    <3>1. wa[port] \in Sigs
      BY <2>3 DEF StorePort, Sigs
    <3>2. Bump(wa[port]) \/ UNCHANGED holdVars
      BY <2>3 DEF StorePort
    <3>3. QED
      BY <3>1, <3>2, <1>1, <1>2, BumpWakes
  <2>4. CASE \E w \in Wires : PullDeps(w) \/ EvalWire(w)
    BY <2>4, <1>1 DEF PullDeps, EvalWire
  <2>5. CASE \/ PokeDone \/ EvalReturn \/ Posedge \/ AssertThrow \/ AssertPass
             \/ StartDispatch \/ NextWord \/ NextSum \/ TakeBranch
             \/ Prepare \/ CapturePorts \/ CommitDone \/ StoreDone
    BY <2>5, <1>1 DEF PokeDone, EvalReturn, Posedge, AssertThrow, AssertPass,
       StartDispatch, NextWord, NextSum, TakeBranch, Prepare, CapturePorts,
       CommitDone, StoreDone
  <2>6. QED
    BY <1>8, <1>4, <1>5, <1>6, <2>1, <2>2, <2>3, <2>4, <2>5 DEF KernelNext
<1>9. CASE UNCHANGED vars
  BY <1>1, <1>9 DEF vars
<1>10. QED
  BY <1>7, <1>8, <1>9 DEF Next
-----------------------------------------------------------------------------
(***************************************************************************)
(* Type correctness.                                                       *)
(***************************************************************************)
HoldTypes ==
    need \subseteq Holds /\ busy \subseteq HoldBits /\ hAny \subseteq SumBits /\ hWords \in Nat

LEMMA HoldsOKTypes ==
    ASSUME HoldsOK
    PROVE  HoldTypes
<1>1. hWords = Cardinality(Sums(hAny))
  BY DEF HoldsOK, PendingHoldIsArmed, Sums
<1>2. Cardinality(Sums(hAny)) \in Nat
  BY SumsFinite DEF HoldsOK
<1>3. QED
  BY <1>1, <1>2 DEF HoldsOK, HoldTypes

(* Everything but the bitmaps.                                             *)
OtherTypes ==
    /\ pc \in {"idle", "poke", "eval", "posedge", "assert", "demand", "scan", "word",
               "hold", "prepare", "ports", "commit", "store"}
    /\ ret \in {"idle", "tick"} /\ threw \in BOOLEAN
    /\ cur \in State /\ prev \in [Inputs -> Val]
    /\ inited \in BOOLEAN /\ inFresh \in BOOLEAN
    /\ wval \in [Wires -> Val] /\ ok \in [Wires -> Nat]
    /\ pg \in [Pages -> Nat] /\ pgGen \in Nat /\ seqSeen \in [Pages -> Nat]
    /\ demandGen \in Nat /\ demand \in BOOLEAN /\ want \subseteq Wires
    /\ sw \in Nat /\ swBits \subseteq SumBits /\ word \in Nat
    /\ bits \subseteq Holds /\ hold \in Nat
    /\ nxt \in [Regs -> Val]
    /\ flags \subseteq Scalars /\ list \subseteq Scalars /\ ac \subseteq Arrays
    /\ todo \subseteq Regs /\ bep \in Nat /\ bst \in [Tabled -> Nat]
    /\ weAny \in BOOLEAN /\ we \in [Ports -> BOOLEAN]
    /\ wa \in [Ports -> Cells] /\ wd \in [Ports -> Val] /\ port \in Nat
    /\ chg \in Nat

LEMMA TypeOKSplit == TypeOK <=> OtherTypes /\ HoldTypes
BY DEF TypeOK, OtherTypes, HoldTypes

LEMMA NowIsEnv ==
    ASSUME cur \in State, wval \in [Wires -> Val]
    PROVE  Now \in Env
BY DEF Now, Env, State

LEMMA BumpTypes ==
    ASSUME pg \in [Pages -> Nat], pgGen \in Nat, bst \in [Tabled -> Nat], bep \in Nat,
           NEW x \in Sigs, Bump(x) \/ BumpOnce(x)
    PROVE  pg' \in [Pages -> Nat] /\ pgGen' \in Nat /\ bst' \in [Tabled -> Nat]
BY DEF Bump, BumpOnce, BumpAll, pageVars

LEMMA OtherTypesInit == Init => OtherTypes
<1> SUFFICES ASSUME Init PROVE OtherTypes
  OBVIOUS
<1>1. [x \in Sigs \cup Wires |-> Zero] \in Env
  BY NetlistAssumption DEF Env
<1>2. \A j \in Ports : Cells # {}
  BY <1>1, NetlistAssumption
<1>3. wa \in [Ports -> Cells]
  <2>1. wa = [j \in Ports |-> CHOOSE c \in Cells : TRUE]
    BY DEF Init
  <2>2. QED
    BY <1>2, <2>1
<1>4. QED
  BY <1>3, NetlistAssumption DEF Init, OtherTypes, State

LEMMA EnterPokeTypes ==
    ASSUME OtherTypes, EnterPoke, ret' \in {"idle", "tick"}
    PROVE  /\ pc' \in {"idle", "poke", "posedge"}
           /\ prev' \in [Inputs -> Val] /\ inited' \in BOOLEAN /\ inFresh' \in BOOLEAN
           /\ pg' \in [Pages -> Nat] /\ pgGen' \in Nat
<1>1. \A i \in Inputs : cur[i] \in Val /\ prev[i] \in Val
  BY DEF OtherTypes, State, Sigs
<1>2. Resume(ret') \in {"idle", "posedge"}
  BY DEF Resume
<1>3. CASE inited /\ inFresh
  BY <1>2, <1>3 DEF OtherTypes, EnterPoke, pageVars
<1>4. CASE ~inited
  <2>1. /\ pg' = [p \in Pages |-> 1] /\ pgGen' = pgGen /\ inFresh' = inFresh
        /\ prev' = [i \in Inputs |-> IF i \in UsedInputs THEN cur[i] ELSE prev[i]]
        /\ inited' = TRUE /\ pc' = Resume(ret')
    BY <1>4 DEF EnterPoke
  <2>2. pg' \in [Pages -> Nat]
    BY <2>1
  <2>3. prev' \in [Inputs -> Val]
    BY <1>1, <2>1
  <2>4. QED
    BY <1>2, <2>1, <2>2, <2>3 DEF OtherTypes
<1>5. CASE inited /\ ~inFresh
  BY <1>5 DEF OtherTypes, EnterPoke, pageVars
<1>6. QED
  BY <1>3, <1>4, <1>5 DEF OtherTypes

LEMMA OtherTypesStep ==
    ASSUME OtherTypes, HoldTypes, Cursor, [Next]_vars
    PROVE  OtherTypes'
<1> USE DEF OtherTypes, hostVars, cacheVars, pageVars, holdVars, scanVars, stageVars, memVars
<1>1. CASE HostNext
  <2>1. ASSUME NEW i \in Inputs, NEW v \in Val, DriveInput(i, v) PROVE OtherTypes'
    BY <2>1 DEF DriveInput, State
  <2>2. CASE AnnounceFresh
    BY <2>2 DEF AnnounceFresh
  <2>3. CASE Poke
    BY <2>3, EnterPokeTypes DEF Poke
  <2>4. CASE Tick
    BY <2>4, EnterPokeTypes DEF Tick
  <2>5. CASE TickNba
    BY <2>5 DEF TickNba
  <2>6. CASE ForceWakeAll
    BY <2>6 DEF ForceWakeAll
  <2>7. ASSUME NEW w \in Outputs, EvalOutput(w) PROVE OtherTypes'
    BY <2>7, PlanTypes DEF EvalOutput
  <2>8. QED
    BY <1>1, <2>1, <2>2, <2>3, <2>4, <2>5, <2>6, <2>7 DEF HostNext
<1>2. CASE KernelNext
  <2>1. ASSUME NEW i \in UsedInputs, PokeInput(i) PROVE OtherTypes'
    <3>1. i \in Sigs /\ i \in Inputs
      BY DEF UsedInputs, Sigs
    <3>2. pg' \in [Pages -> Nat] /\ pgGen' \in Nat /\ bst' \in [Tabled -> Nat]
      BY <2>1, <3>1, BumpTypes DEF PokeInput
    <3>3. QED
      BY <2>1, <3>1, <3>2 DEF PokeInput, State
  <2>2. CASE PokeDone \/ EvalReturn
    BY <2>2 DEF PokeDone, EvalReturn, Resume
  <2>3. ASSUME NEW w \in Wires, PullDeps(w) PROVE OtherTypes'
    BY <2>3, PlanTypes DEF PullDeps, StaleIn
  <2>4. ASSUME NEW w \in Wires, EvalWire(w) PROVE OtherTypes'
    <3>1. WireFn(w, Now) \in Val
      BY NowIsEnv, NetlistAssumption
    <3>2. pg[Part[w]] \in Nat
      BY PlanTypes
    <3>3. QED
      BY <2>4, <3>1, <3>2 DEF EvalWire
  <2>5. CASE Posedge
    BY <2>5, PlanTypes DEF Posedge, StaleIn
  <2>6. CASE AssertThrow
    BY <2>6 DEF AssertThrow
  <2>7. CASE AssertPass
    <3>1. EnWires \subseteq Wires
      BY PlanTypes DEF EnWires
    <3>2. QED
      BY <2>7, <3>1 DEF AssertPass, StaleIn
  <2>8. EnWires \cup EnTempWires \subseteq Wires
    BY PlanTypes DEF EnWires, EnTempWires
  <2>9. CASE StartDispatch
    BY <2>9, <2>8 DEF StartDispatch, Dispatched, StaleIn, LiveWords, HoldTypes
  <2>10. CASE NextWord
    <3>1. swBits \in SUBSET Nat /\ swBits # {}
      BY <2>10, WordRange, PlanTypes DEF NextWord, SumBits
    <3>2. Least(swBits) \in Nat
      BY <3>1, LeastElement
    <3>3. QED
      BY <2>10, <3>2 DEF NextWord
  <2>11. CASE NextSum
    BY <2>11, <2>8 DEF NextSum, Dispatched, StaleIn, LiveWords, HoldTypes
  <2>12. CASE EnterHold
    <3>1. bits \in SUBSET Nat /\ bits # {}
      BY <2>12, NetlistAssumption DEF EnterHold, Holds
    <3>2. Least(bits) \in bits
      BY <3>1, LeastElement
    <3>3. GateReads[Least(bits)] \subseteq Wires
      BY <3>2, PlanTypes
    <3>4. QED
      BY <2>12, <3>1, <3>2, <3>3 DEF EnterHold, StaleIn
  <2>13. CASE TakeBranch
    <3>1. BranchReads(hold, Now) \subseteq Wires
      BY <2>13, NowIsEnv, PlanTypes DEF TakeBranch, Cursor
    <3>2. QED
      BY <2>13, <3>1 DEF TakeBranch, StaleIn
  <2>14. CASE RunHold
    <3> DEFINE a == HoldFn(hold, Now)
    <3>1. DOMAIN a \subseteq Regs /\ \A r \in DOMAIN a : a[r] \in Val
      BY <2>14, NowIsEnv, NetlistAssumption DEF RunHold, Cursor
    <3>2. /\ nxt' = [r \in Regs |-> IF r \in DOMAIN a THEN a[r] ELSE nxt[r]]
          /\ flags' = flags \cup {r \in DOMAIN a \cap Scalars : a[r] # cur[r]}
          /\ list' = list \cup ({r \in DOMAIN a \cap Scalars : a[r] # cur[r]} \ flags)
          /\ ac' = ac \cup (DOMAIN a \cap Arrays)
          /\ pc' = "word"
          /\ UNCHANGED <<hostVars, cacheVars, pageVars, need, scanVars, todo, bep, bst,
                         memVars, chg>>
      BY <2>14 DEF RunHold
    <3> HIDE DEF a
    <3>3. nxt' \in [Regs -> Val]
      BY <3>1, <3>2
    <3>4. flags' \subseteq Scalars /\ list' \subseteq Scalars /\ ac' \subseteq Arrays
      BY <3>2
    <3>5. QED
      BY <3>2, <3>3, <3>4
  <2>15. CASE LeaveWord
    BY <2>15 DEF LeaveWord
  <2>16. CASE Prepare
    <3>1. \A j \in Ports : EnFn(j, Now) \in BOOLEAN
      BY NowIsEnv, NetlistAssumption
    <3>2. UNION {PortReads[j] : j \in {k \in Ports : EnFn(k, Now)}} \subseteq Wires
      BY PlanTypes
    <3>3. QED
      BY <2>16, <3>1, <3>2 DEF Prepare, StaleIn
  <2>17. CASE CapturePorts
    <3>1. \A j \in Ports : AddrFn(j, Now) \in Cells /\ DataFn(j, Now) \in Val
      BY NowIsEnv, NetlistAssumption
    <3>2. Scalars \subseteq Regs /\ Arrays \subseteq Regs
      BY PlanTypes DEF Scalars
    <3>3. QED
      BY <2>17, <3>1, <3>2 DEF CapturePorts
  <2>18. ASSUME NEW r \in Regs, CommitReg(r) PROVE OtherTypes'
    <3>1. r \in Sigs /\ nxt[r] \in Val
      BY DEF Sigs
    <3>2. pg' \in [Pages -> Nat] /\ pgGen' \in Nat /\ bst' \in [Tabled -> Nat]
      BY <2>18, <3>1, BumpTypes DEF CommitReg
    <3>3. cur' \in State
      BY <2>18, <3>1 DEF CommitReg, State
    <3>4. QED
      BY <2>18, <3>2, <3>3 DEF CommitReg
  <2>19. CASE CommitDone \/ StoreDone
    BY <2>19 DEF CommitDone, StoreDone
  <2>20. CASE StorePort
    <3>1. port \in Ports /\ wa[port] \in Sigs /\ wd[port] \in Val
      BY <2>20 DEF StorePort, Sigs
    <3>2. pg' \in [Pages -> Nat] /\ pgGen' \in Nat /\ bst' \in [Tabled -> Nat]
      BY <2>20, <3>1, BumpTypes DEF StorePort
    <3>3. cur' \in State
      BY <2>20, <3>1 DEF StorePort, State
    <3>4. QED
      BY <2>20, <3>2, <3>3 DEF StorePort
  <2>21. QED
    BY <1>2, <2>1, <2>2, <2>3, <2>4, <2>5, <2>6, <2>7, <2>9, <2>10, <2>11, <2>12, <2>13,
       <2>14, <2>15, <2>16, <2>17, <2>18, <2>19, <2>20 DEF KernelNext
<1>3. CASE UNCHANGED vars
  BY <1>3 DEF vars
<1>4. QED
  BY <1>1, <1>2, <1>3 DEF Next

LEMMA CursorStep ==
    ASSUME OtherTypes, HoldTypes, HoldsOK, Cursor, [Next]_vars
    PROVE  Cursor'
<1> USE DEF hostVars, cacheVars, pageVars, holdVars, scanVars, stageVars, memVars
<1>1. CASE pc' \notin {"scan", "word", "hold"}
  BY <1>1 DEF Cursor
<1>2. CASE StartDispatch
  BY <1>2 DEF StartDispatch, LiveWords, Dispatched, Cursor
<1>3. CASE NextWord
  <2>1. swBits \in SUBSET Nat /\ swBits # {}
    BY <1>3, WordRange, PlanTypes DEF NextWord, SumBits, OtherTypes
  <2>2. Least(swBits) \in swBits
    BY <2>1, LeastElement
  <2>3. QED
    BY <1>3, <2>2 DEF NextWord, Cursor
<1>4. CASE NextSum
  BY <1>4 DEF NextSum, LiveWords, Dispatched, Cursor
<1>5. CASE EnterHold
  <2>1. bits \in SUBSET Nat /\ bits # {}
    BY <1>5, NetlistAssumption DEF EnterHold, Holds, OtherTypes
  <2>2. Least(bits) \in bits
    BY <2>1, LeastElement
  <2>3. QED
    BY <1>5, <2>2 DEF EnterHold, Cursor
<1>6. CASE TakeBranch
  BY <1>6 DEF TakeBranch, Cursor
<1>7. CASE RunHold
  <2>1. UNCHANGED scanVars /\ pc' = "word" /\ hAny \subseteq hAny'
    BY <1>7 DEF RunHold
  <2>2. QED
    BY <1>7, <2>1 DEF RunHold, Cursor
<1>8. CASE LeaveWord
  <2>1. UNCHANGED scanVars /\ pc' = "scan" /\ hAny \ {word} \subseteq hAny'
    BY <1>8 DEF LeaveWord, Disarm
  <2>2. QED
    BY <1>8, <2>1 DEF LeaveWord, Cursor
<1>9. CASE UNCHANGED <<pc, scanVars, hAny>>
  BY <1>9 DEF Cursor
<1>10. CASE HostNext
  BY <1>1, <1>9, <1>10 DEF HostNext, DriveInput, AnnounceFresh, Poke, Tick, TickNba,
     ForceWakeAll, EvalOutput, EnterPoke, Resume, Cursor
<1>11. CASE KernelNext
  <2>1. CASE \E i \in UsedInputs : PokeInput(i)
    BY <1>1, <2>1 DEF PokeInput
  <2>2. CASE \E w \in Wires : PullDeps(w) \/ EvalWire(w)
    BY <1>9, <2>2 DEF PullDeps, EvalWire
  <2>3. CASE \E r \in Regs : CommitReg(r)
    BY <1>1, <2>3 DEF CommitReg
  <2>4. CASE \/ PokeDone \/ EvalReturn \/ Posedge \/ AssertThrow \/ AssertPass
             \/ Prepare \/ CapturePorts \/ CommitDone \/ StorePort \/ StoreDone
    BY <1>1, <2>4 DEF PokeDone, EvalReturn, Posedge, AssertThrow, AssertPass, Prepare,
       CapturePorts, CommitDone, StorePort, StoreDone, Resume
  <2>5. QED
    BY <1>2, <1>3, <1>4, <1>5, <1>6, <1>7, <1>8, <1>11, <2>1, <2>2, <2>3, <2>4
    DEF KernelNext
<1>12. CASE UNCHANGED vars
  BY <1>9, <1>12 DEF vars
<1>13. QED
  BY <1>10, <1>11, <1>12 DEF Next

(* The inductive invariant behind type correctness.                        *)
TypeInv == OtherTypes /\ HoldsOK /\ Cursor

LEMMA TypeInvariance == Spec => []TypeInv
<1>1. Init => TypeInv
  BY OtherTypesInit, HoldsOKInit DEF TypeInv, Cursor, Init
<1>2. TypeInv /\ [Next]_vars => TypeInv'
  <2> SUFFICES ASSUME TypeInv, [Next]_vars PROVE TypeInv'
    OBVIOUS
  <2>1. OtherTypes /\ HoldsOK /\ Cursor /\ HoldTypes /\ wa \in [Ports -> Cells]
    BY HoldsOKTypes DEF TypeInv, OtherTypes
  <2>2. QED
    BY <2>1, OtherTypesStep, HoldsOKStep, CursorStep DEF TypeInv
<1>3. QED
  BY <1>1, <1>2, PTL DEF Spec

(* Every field of the generated struct keeps the range of its declaration  *)
(* and every bitmap its width, for every module, plan and word size.       *)
THEOREM TypeCorrectness == Spec => []TypeOK
<1>1. TypeInv => TypeOK
  BY HoldsOKTypes, TypeOKSplit DEF TypeInv
<1>2. QED
  BY <1>1, TypeInvariance, PTL

(* No pending hold is lost by the two-level bitmap: its word is armed, and *)
(* the count that lets a tick skip the whole dispatch is exact.            *)
THEOREM PendingHoldsAreArmed == Spec => []PendingHoldIsArmed
<1>1. TypeInv => PendingHoldIsArmed
  BY DEF TypeInv, HoldsOK
<1>2. QED
  BY <1>1, TypeInvariance, PTL
-----------------------------------------------------------------------------
(***************************************************************************)
(* Cached wires are never stale when they look fresh.                      *)
(***************************************************************************)
(* Changing one element leaves the wires of unbumped pages alone.          *)
LEMMA UnbumpedWiresStay ==
    ASSUME NEW s \in State, NEW x \in Sigs, NEW v \in Val,
           NEW w \in Wires, Part[w] \notin LeafParts[x]
    PROVE  Settled([s EXCEPT ![x] = v])[w] = Settled(s)[w]
BY WakesSound

LEMMA MaskAgree ==
    ASSUME NEW d \in Env, NEW e \in Env, NEW names \in SUBSET Wires,
           \A x \in Sigs \cup names : d[x] = e[x]
    PROVE  Mask(d, names) = Mask(e, names)
BY DEF Mask

LEMMA SeenIsState ==
    ASSUME OtherTypes
    PROVE  Seen \in State
BY DEF OtherTypes, Seen, State, UsedInputs

(* The order of the phases: nothing is evaluated before the first poke, or *)
(* with an input the model has not been told about.                        *)
Phases ==
    /\ ~inited => pc = "idle" /\ \A w \in Wires : ok[w] = 0
    /\ inFresh => inited /\ Poked
    /\ pc \notin {"idle", "poke"} => Poked
    /\ pc \in {"idle", "poke", "posedge", "scan", "word", "commit", "store"} => want = {}

(* A stamp never runs ahead of its page, and a table bumped in this commit *)
(* has left every wire of its pages stale.                                 *)
Stamps ==
    /\ inited => \A w \in Wires : ok[w] <= pg[Part[w]]
    /\ \A t \in Tabled : bst[t] <= bep
    /\ pc = "commit" => \A t \in Tabled, w \in Wires :
                           bst[t] = bep /\ Part[w] \in t => Stale(w)

(* The clocked assertions wait for every stale wire they read.             *)
AssertsWait == pc = "assert" => StaleIn(AssertReads) \subseteq want

LEMMA FreshMask ==
    ASSUME OtherTypes, CacheFresh, inited, Poked,
           NEW names \in SUBSET Wires, StaleIn(names) = {}
    PROVE  Mask(Now, names) = Mask(Settled(Seen), names)
<1>1. Now \in Env /\ Seen \in State
  BY NowIsEnv, SeenIsState DEF OtherTypes
<1>2. Settled(Seen) \in Env /\ \A x \in Sigs : Settled(Seen)[x] = Seen[x]
  BY <1>1, SettledFacts
<1>3. \A x \in Sigs : Now[x] = Seen[x]
  BY DEF Now, Seen, Poked
<1>4. \A w \in names : Now[w] = Settled(Seen)[w]
  BY NetlistAssumption DEF CacheFresh, StaleIn, Now
<1>5. QED
  BY <1>1, <1>2, <1>3, <1>4, MaskAgree

(* One element moves, its pages move or are already stale.                 *)
LEMMA ChangeKeepsFresh ==
    ASSUME OtherTypes, CacheFresh, inited, UNCHANGED <<wval, ok, inited>>,
           NEW x \in Sigs, NEW v \in Val,
           Seen' = [Seen EXCEPT ![x] = v],
           \A w \in Wires :
              IF Part[w] \in LeafParts[x] THEN ok[w] < pg'[Part[w]]
                                         ELSE pg'[Part[w]] = pg[Part[w]]
    PROVE  CacheFresh'
<1>1. ASSUME NEW w \in Wires, ok[w] = pg'[Part[w]]
      PROVE  wval[w] = Settled(Seen')[w]
  <2>1. ok[w] \in Nat
    BY DEF OtherTypes
  <2>2. Part[w] \notin LeafParts[x]
    BY <1>1, <2>1
  <2>3. wval[w] = Settled(Seen)[w]
    BY <1>1, <2>2 DEF CacheFresh, Stale
  <2>4. Settled([Seen EXCEPT ![x] = v])[w] = Settled(Seen)[w]
    BY <2>2, SeenIsState, UnbumpedWiresStay
  <2>5. QED
    BY <2>3, <2>4
<1>2. QED
  BY <1>1 DEF CacheFresh, Stale

LEMMA StutterKeepsFresh ==
    ASSUME CacheFresh, UNCHANGED <<wval, ok, inited, pg>>, Seen' = Seen
    PROVE  CacheFresh'
BY DEF CacheFresh, Stale

LEMMA EvalKeepsFresh ==
    ASSUME OtherTypes, CacheFresh, inited, Poked, NEW w \in Wires, EvalWire(w)
    PROVE  CacheFresh'
<1>1. Deps[w] \in SUBSET Wires /\ StaleIn(Deps[w]) = {}
  BY PlanTypes DEF EvalWire
<1>2. Mask(Now, Deps[w]) = Mask(Settled(Seen), Deps[w])
  BY <1>1, FreshMask
<1>3. Now \in Env /\ Settled(Seen) \in Env /\ IsSettled(Settled(Seen))
  BY NowIsEnv, SeenIsState, SettledFacts DEF OtherTypes
<1>4. WireFn(w, Now) = WireFn(w, Settled(Seen))
  <2>1. WireFn(w, Now) = WireFn(w, Mask(Now, Deps[w]))
    BY <1>3, ReadsSound
  <2>2. WireFn(w, Settled(Seen)) = WireFn(w, Mask(Settled(Seen), Deps[w]))
    BY <1>3, ReadsSound
  <2>3. QED
    BY <2>1, <2>2, <1>2, Zenon
<1>5. Settled(Seen)[w] = WireFn(w, Now)
  BY <1>3, <1>4 DEF IsSettled
<1>6. /\ wval' = [wval EXCEPT ![w] = WireFn(w, Now)]
      /\ ok' = [ok EXCEPT ![w] = pg[Part[w]]]
      /\ UNCHANGED <<cur, prev, pg, inited>>
  BY DEF EvalWire, hostVars, pageVars
<1>7. Seen' = Seen
  BY <1>6 DEF Seen
<1>8. ASSUME NEW y \in Wires, ok'[y] = pg[Part[y]]
      PROVE  wval'[y] = Settled(Seen)[y]
  BY <1>5, <1>6, <1>8 DEF CacheFresh, Stale, OtherTypes
<1>9. QED
  BY <1>6, <1>7, <1>8 DEF CacheFresh, Stale

LEMMA PokedStays ==
    ASSUME Poked, UNCHANGED <<cur, prev>>
    PROVE  Poked'
BY DEF Poked, UsedInputs

LEMMA PhasesStep ==
    ASSUME OtherTypes, Phases, [Next]_vars
    PROVE  Phases'
<1> USE DEF OtherTypes, hostVars, cacheVars, pageVars, holdVars, scanVars, stageVars, memVars
<1>1. CASE HostNext
  <2>1. ASSUME NEW i \in Inputs, NEW v \in Val, DriveInput(i, v) PROVE Phases'
    BY <2>1 DEF DriveInput, Phases
  <2>2. CASE AnnounceFresh
    BY <2>2, PokedStays DEF AnnounceFresh, Phases
  <2>3. CASE Poke \/ Tick
    <3>1. pc = "idle" /\ EnterPoke /\ UNCHANGED <<cur, ok, want>>
      BY <2>3 DEF Poke, Tick
    <3>2. CASE inited /\ inFresh
      BY <3>1, <3>2, PokedStays DEF EnterPoke, Resume, Phases
    <3>3. CASE ~inited
      <4>1. Poked'
        BY <3>1, <3>3 DEF EnterPoke, Poked, UsedInputs
      <4>2. QED
        BY <3>1, <3>3, <4>1 DEF EnterPoke, Phases
    <3>4. CASE inited /\ ~inFresh
      <4>1. pc' = "poke" /\ inited' = inited /\ inFresh' = inFresh
        BY <3>1, <3>4 DEF EnterPoke
      <4>2. want' = {}
        BY <3>1 DEF Phases
      <4>3. QED
        BY <3>4, <4>1, <4>2 DEF Phases
    <3>5. QED
      BY <3>2, <3>3, <3>4
  <2>4. CASE TickNba
    BY <2>4, PokedStays DEF TickNba, Phases
  <2>5. CASE ForceWakeAll
    BY <2>5, PokedStays DEF ForceWakeAll, Phases
  <2>6. ASSUME NEW w \in Outputs, EvalOutput(w) PROVE Phases'
    BY <2>6, PokedStays DEF EvalOutput, Phases
  <2>7. QED
    BY <1>1, <2>1, <2>2, <2>3, <2>4, <2>5, <2>6 DEF HostNext
<1>2. CASE KernelNext
  <2>1. ASSUME NEW i \in UsedInputs, PokeInput(i) PROVE Phases'
    BY <2>1, PokedStays DEF PokeInput, Phases, Poked, UsedInputs
  <2>2. CASE PokeDone \/ EvalReturn
    BY <2>2, PokedStays DEF PokeDone, EvalReturn, Resume, Phases
  <2>3. ASSUME NEW w \in Wires, PullDeps(w) \/ EvalWire(w) PROVE Phases'
    BY <2>3, PokedStays DEF PullDeps, EvalWire, Phases
  <2>4. CASE Posedge \/ AssertThrow \/ AssertPass
    BY <2>4, PokedStays DEF Posedge, AssertThrow, AssertPass, Phases
  <2>5. CASE StartDispatch \/ NextWord \/ NextSum
    BY <2>5, PokedStays DEF StartDispatch, NextWord, NextSum, Dispatched, Phases
  <2>6. CASE EnterHold \/ TakeBranch \/ LeaveWord
    BY <2>6, PokedStays DEF EnterHold, TakeBranch, LeaveWord, Phases
  <2>7. CASE RunHold
    <3>1. pc = "hold" /\ want = {} /\ pc' = "word" /\ UNCHANGED <<hostVars, cacheVars>>
      BY <2>7 DEF RunHold
    <3>2. QED
      BY <3>1, PokedStays DEF Phases
  <2>8. CASE Prepare \/ CapturePorts
    BY <2>8, PokedStays DEF Prepare, CapturePorts, Phases
  <2>9. ASSUME NEW r \in Regs, CommitReg(r) PROVE Phases'
    <3>1. r \notin Inputs
      BY NetlistAssumption
    <3>2. Poked => Poked'
      BY <2>9, <3>1 DEF CommitReg, Poked, State, Sigs, UsedInputs
    <3>3. QED
      BY <2>9, <3>2 DEF CommitReg, Phases
  <2>10. CASE CommitDone \/ StoreDone
    BY <2>10, PokedStays DEF CommitDone, StoreDone, Phases
  <2>11. CASE StorePort
    <3>1. wa[port] \notin Inputs
      BY <2>11, NetlistAssumption DEF StorePort
    <3>2. Poked => Poked'
      BY <2>11, <3>1 DEF StorePort, Poked, State, Sigs, UsedInputs
    <3>3. QED
      BY <2>11, <3>2 DEF StorePort, Phases
  <2>12. QED
    BY <1>2, <2>1, <2>2, <2>3, <2>4, <2>5, <2>6, <2>7, <2>8, <2>9, <2>10, <2>11
    DEF KernelNext
<1>3. CASE UNCHANGED vars
  BY <1>3, PokedStays DEF vars, Phases
<1>4. QED
  BY <1>1, <1>2, <1>3 DEF Next

(* What a bump does to stamps and pages, in a commit or outside one.       *)
LEMMA BumpAllPages ==
    ASSUME OtherTypes, inited, Stamps, NEW x \in Sigs, BumpAll(x)
    PROVE  /\ \A w \in Wires : ok[w] <= pg'[Part[w]]
           /\ \A w \in Wires : ok[w] < pg[Part[w]] => ok[w] < pg'[Part[w]]
           /\ \A w \in Wires :
                IF Part[w] \in LeafParts[x] THEN ok[w] < pg'[Part[w]]
                                           ELSE pg'[Part[w]] = pg[Part[w]]
<1>1. \A w \in Wires : Part[w] \in Pages /\ pg[Part[w]] \in Nat /\ ok[w] \in Nat
  BY PlanTypes DEF OtherTypes
<1>2. pg' = [p \in Pages |-> IF p \in LeafParts[x] THEN pg[p] + 1 ELSE pg[p]]
  BY DEF BumpAll
<1>3. QED
  BY <1>1, <1>2 DEF Stamps

LEMMA BumpPages ==
    ASSUME OtherTypes, inited, Stamps, NEW x \in Sigs,
           Bump(x) \/ (pc = "commit" /\ BumpOnce(x)),
           UNCHANGED <<ok, inited, bep>>, pc' = pc
    PROVE  /\ \A w \in Wires :
                IF Part[w] \in LeafParts[x] THEN ok[w] < pg'[Part[w]]
                                           ELSE pg'[Part[w]] = pg[Part[w]]
           /\ Stamps'
<1>1. \A w \in Wires : Part[w] \in Pages /\ pg[Part[w]] \in Nat /\ ok[w] \in Nat
  BY PlanTypes DEF OtherTypes
<1>2. \A t \in Tabled : bst[t] \in Nat /\ bep \in Nat
  BY DEF OtherTypes
<1>3. CASE Bump(x)
  <2>1. BumpAll(x) /\ bst' = bst
    BY <1>3 DEF Bump
  <2>2. QED
    BY <1>1, <2>1, BumpAllPages DEF Stamps, Stale
<1>4. CASE BumpOnce(x) /\ pc = "commit" /\ ~Bump(x)
  <2>1. LeafParts[x] \in Tabled
    BY <1>4 DEF BumpOnce
  <2>2. CASE bst[LeafParts[x]] # bep
    <3>1. BumpAll(x) /\ bst' = [bst EXCEPT ![LeafParts[x]] = bep]
      BY <1>4, <2>1, <2>2 DEF BumpOnce
    <3>2. \A t \in Tabled : bst'[t] = IF t = LeafParts[x] THEN bep ELSE bst[t]
      BY <2>1, <3>1 DEF OtherTypes
    <3>3. /\ \A w \in Wires : ok[w] <= pg'[Part[w]]
          /\ \A w \in Wires : ok[w] < pg[Part[w]] => ok[w] < pg'[Part[w]]
          /\ \A w \in Wires :
                IF Part[w] \in LeafParts[x] THEN ok[w] < pg'[Part[w]]
                                           ELSE pg'[Part[w]] = pg[Part[w]]
      BY <3>1, BumpAllPages
    <3>4. ASSUME NEW t \in Tabled, NEW w \in Wires, bst'[t] = bep, Part[w] \in t
          PROVE  ok[w] < pg'[Part[w]]
      <4>1. CASE t = LeafParts[x]
        BY <3>3, <3>4, <4>1
      <4>2. CASE t # LeafParts[x]
        <5>1. bst[t] = bep
          BY <3>2, <3>4, <4>2
        <5>2. ok[w] # pg[Part[w]] /\ ok[w] <= pg[Part[w]]
          BY <1>4, <3>4, <5>1 DEF Stamps, Stale
        <5>3. QED
          BY <1>1, <5>2, <3>3
      <4>3. QED
        BY <4>1, <4>2
    <3>5. \A t \in Tabled : bst'[t] <= bep
      BY <1>2, <3>2 DEF Stamps
    <3>6. \A w \in Wires : ok[w] < pg'[Part[w]] => ok[w] # pg'[Part[w]]
      BY <1>1
    <3>7. QED
      BY <3>3, <3>4, <3>5, <3>6 DEF Stamps, Stale
  <2>3. CASE bst[LeafParts[x]] = bep
    <3>1. UNCHANGED <<pg, bst>>
      BY <1>4, <2>1, <2>3 DEF BumpOnce, pageVars
    <3>2. \A w \in Wires : Part[w] \in LeafParts[x] => ok[w] < pg[Part[w]]
      BY <1>1, <1>4, <2>1, <2>3 DEF Stamps, Stale
    <3>3. QED
      BY <3>1, <3>2 DEF Stamps, Stale
  <2>4. QED
    BY <2>2, <2>3
<1>5. QED
  BY <1>3, <1>4

FreshInv == TypeInv /\ Phases /\ Stamps /\ AssertsWait /\ CacheFresh

(* A step that leaves stamps, pages, values and the seen state alone.      *)
LEMMA QuietStep ==
    ASSUME Stamps, CacheFresh, UNCHANGED <<wval, ok, inited, pg, bst, bep>>, Seen' = Seen,
           pc' = "commit" => pc = "commit"
    PROVE  Stamps' /\ CacheFresh'
BY StutterKeepsFresh DEF Stamps, Stale

LEMMA SameSeen ==
    ASSUME UNCHANGED <<cur, prev>>
    PROVE  Seen' = Seen
BY DEF Seen

LEMMA FreshStep ==
    ASSUME OtherTypes, Phases, Stamps, CacheFresh, [Next]_vars
    PROVE  Stamps' /\ CacheFresh'
<1> USE DEF hostVars, cacheVars, pageVars, holdVars, scanVars, stageVars, memVars
<1>1. ASSUME UNCHANGED <<wval, ok, inited, pg, bst, bep, cur, prev>>,
             pc' = "commit" => pc = "commit"
      PROVE  Stamps' /\ CacheFresh'
  BY <1>1, QuietStep, SameSeen
<1>2. CASE HostNext
  <2>1. ASSUME NEW i \in Inputs, NEW v \in Val, DriveInput(i, v)
        PROVE  Stamps' /\ CacheFresh'
    <3>1. UNCHANGED <<wval, ok, inited, pg, bst, bep, prev, pc>> /\ cur' = [cur EXCEPT ![i] = v]
      BY <2>1 DEF DriveInput
    <3>2. CASE i \in UsedInputs
      <4>1. Seen' = Seen
        BY <3>1, <3>2 DEF Seen, OtherTypes, State
      <4>2. QED
        BY <3>1, <4>1, QuietStep
    <3>3. CASE i \notin UsedInputs
      <4>1. i \in Sigs /\ LeafParts[i] = {}
        BY <3>3 DEF UsedInputs, Sigs
      <4>2. Seen' = [Seen EXCEPT ![i] = v]
        BY <3>1, <3>3, <4>1 DEF Seen, OtherTypes, State
      <4>3. CASE inited
        BY <3>1, <4>1, <4>2, <4>3, ChangeKeepsFresh DEF Stamps, Stale
      <4>4. QED
        BY <3>1, <4>3 DEF Stamps, Stale, CacheFresh
    <3>4. QED
      BY <3>2, <3>3
  <2>2. CASE AnnounceFresh
    BY <2>2, <1>1 DEF AnnounceFresh
  <2>3. CASE Poke \/ Tick
    <3>1. EnterPoke /\ UNCHANGED <<cur, wval, ok, bst, bep>> /\ pc = "idle"
      BY <2>3 DEF Poke, Tick
    <3>2. pc' # "commit"
      BY <3>1, <2>3 DEF EnterPoke, Resume
    <3>3. CASE inited
      BY <3>1, <3>2, <3>3, <1>1 DEF EnterPoke
    <3>4. CASE ~inited
      <4>1. pg' = [p \in Pages |-> 1] /\ \A w \in Wires : ok[w] = 0
        BY <3>1, <3>4 DEF EnterPoke, Phases
      <4>2. \A w \in Wires : ok'[w] = 0 /\ pg'[Part[w]] = 1
        BY <3>1, <4>1, PlanTypes
      <4>3. QED
        BY <3>1, <3>2, <4>2 DEF Stamps, CacheFresh, Stale
    <3>5. QED
      BY <3>3, <3>4
  <2>4. CASE TickNba
    BY <2>4, <1>1 DEF TickNba
  <2>5. CASE ForceWakeAll
    <3>1. /\ pg' = [p \in Pages |-> pg[p] + 1]
          /\ UNCHANGED <<ok, bst, bep, pc, inited>> /\ pc = "idle"
      BY <2>5 DEF ForceWakeAll
    <3>2. \A w \in Wires : Part[w] \in Pages /\ pg[Part[w]] \in Nat /\ ok[w] \in Nat
      BY PlanTypes DEF OtherTypes
    <3>3. inited => \A w \in Wires : ok'[w] < pg'[Part[w]]
      BY <3>1, <3>2 DEF Stamps
    <3>4. QED
      BY <3>1, <3>2, <3>3 DEF Stamps, CacheFresh, Stale
  <2>6. ASSUME NEW w \in Outputs, EvalOutput(w) PROVE Stamps' /\ CacheFresh'
    BY <2>6, <1>1 DEF EvalOutput
  <2>7. QED
    BY <1>2, <2>1, <2>2, <2>3, <2>4, <2>5, <2>6 DEF HostNext
<1>3. CASE KernelNext
  <2>1. ASSUME NEW i \in UsedInputs, PokeInput(i) PROVE Stamps' /\ CacheFresh'
    <3>1. /\ Bump(i) /\ prev' = [prev EXCEPT ![i] = cur[i]] /\ pc' = pc /\ inited
          /\ UNCHANGED <<wval, ok, inited, bep, cur>>
      BY <2>1 DEF PokeInput, Phases
    <3>2. i \in Sigs /\ i \in Inputs /\ cur[i] \in Val
      BY DEF UsedInputs, Sigs, OtherTypes, State
    <3>3. Seen' = [Seen EXCEPT ![i] = cur[i]]
      BY <3>1, <3>2 DEF Seen, OtherTypes, UsedInputs
    <3>4. QED
      BY <3>1, <3>2, <3>3, BumpPages, ChangeKeepsFresh
  <2>2. CASE PokeDone \/ EvalReturn
    BY <2>2, <1>1 DEF PokeDone, EvalReturn, Resume
  <2>3. ASSUME NEW w \in Wires, PullDeps(w) PROVE Stamps' /\ CacheFresh'
    BY <2>3, <1>1 DEF PullDeps
  <2>4. ASSUME NEW w \in Wires, EvalWire(w) PROVE Stamps' /\ CacheFresh'
    <3>1. inited /\ Poked /\ pc # "commit"
      BY <2>4 DEF EvalWire, Phases
    <3>2. CacheFresh'
      BY <2>4, <3>1, EvalKeepsFresh
    <3>3. ok' = [ok EXCEPT ![w] = pg[Part[w]]] /\ UNCHANGED <<pg, inited, bst, bep, pc>>
      BY <2>4 DEF EvalWire
    <3>4. \A y \in Wires : ok'[y] <= pg[Part[y]]
      <4>1. \A y \in Wires : pg[Part[y]] \in Nat
        BY PlanTypes DEF OtherTypes
      <4>2. QED
        BY <3>1, <3>3, <4>1 DEF Stamps, OtherTypes
    <3>5. QED
      BY <3>1, <3>2, <3>3, <3>4 DEF Stamps
  <2>5. CASE \/ Posedge \/ AssertThrow \/ AssertPass \/ StartDispatch \/ NextWord
             \/ NextSum \/ EnterHold \/ TakeBranch \/ LeaveWord \/ Prepare
    BY <2>5, <1>1 DEF Posedge, AssertThrow, AssertPass, StartDispatch, NextWord, NextSum,
       EnterHold, TakeBranch, LeaveWord, Prepare, Dispatched
  <2>6. CASE RunHold
    <3>1. UNCHANGED <<hostVars, cacheVars, pageVars, bep, bst>> /\ pc' = "word"
      BY <2>6 DEF RunHold
    <3>2. QED
      BY <3>1, <1>1
  <2>7. CASE CapturePorts
    <3>1. bep' = bep + 1 /\ UNCHANGED <<wval, ok, inited, pg, bst, cur, prev>>
      BY <2>7 DEF CapturePorts
    <3>2. \A t \in Tabled : bst'[t] <= bep' /\ bst'[t] # bep'
      BY <3>1 DEF Stamps, OtherTypes
    <3>3. QED
      BY <3>1, <3>2, SameSeen, StutterKeepsFresh DEF Stamps
  <2>8. ASSUME NEW r \in Regs, CommitReg(r) PROVE Stamps' /\ CacheFresh'
    <3>1. /\ pc = "commit" /\ pc' = pc /\ inited
          /\ UNCHANGED <<wval, ok, inited, bep, prev>>
      BY <2>8 DEF CommitReg, Phases
    <3>2. CASE nxt[r] = cur[r]
      <4>1. UNCHANGED <<cur, pg, bst>>
        BY <2>8, <3>2 DEF CommitReg
      <4>2. QED
        BY <3>1, <4>1, <1>1
    <3>3. CASE nxt[r] # cur[r]
      <4>1. cur' = [cur EXCEPT ![r] = nxt[r]] /\ (Bump(r) \/ BumpOnce(r))
        BY <2>8, <3>3 DEF CommitReg
      <4>2. r \in Sigs /\ r \notin UsedInputs /\ nxt[r] \in Val
        BY NetlistAssumption DEF Sigs, UsedInputs, OtherTypes
      <4>3. Seen' = [Seen EXCEPT ![r] = nxt[r]]
        BY <3>1, <4>1, <4>2 DEF Seen, OtherTypes, State
      <4>4. QED
        BY <3>1, <4>1, <4>2, <4>3, BumpPages, ChangeKeepsFresh
    <3>4. QED
      BY <3>2, <3>3
  <2>9. CASE CommitDone \/ StoreDone
    BY <2>9, <1>1 DEF CommitDone, StoreDone
  <2>10. CASE StorePort
    <3> DEFINE c == wa[port]
    <3>1. /\ pc = "store" /\ pc' = pc /\ inited
          /\ UNCHANGED <<wval, ok, inited, bep, prev>>
      BY <2>10 DEF StorePort, Phases
    <3>2. /\ c \in Sigs /\ c \notin UsedInputs /\ wd[port] \in Val
      BY <2>10, NetlistAssumption DEF StorePort, Sigs, UsedInputs, OtherTypes
    <3>3. CASE ~we[port] \/ cur[c] = wd[port]
      <4>1. UNCHANGED <<cur, pg, bst>>
        BY <2>10, <3>2, <3>3 DEF StorePort, OtherTypes, State
      <4>2. QED
        BY <3>1, <4>1, <1>1
    <3>4. CASE we[port] /\ cur[c] # wd[port]
      <4>1. cur' = [cur EXCEPT ![c] = wd[port]] /\ Bump(c)
        BY <2>10, <3>4 DEF StorePort
      <4>2. Seen' = [Seen EXCEPT ![c] = wd[port]]
        BY <3>1, <3>2, <4>1 DEF Seen, OtherTypes, State
      <4>3. QED
        BY <3>1, <3>2, <4>1, <4>2, BumpPages, ChangeKeepsFresh
    <3>5. QED
      BY <3>3, <3>4
  <2>11. QED
    BY <1>3, <2>1, <2>2, <2>3, <2>4, <2>5, <2>6, <2>7, <2>8, <2>9, <2>10 DEF KernelNext
<1>4. CASE UNCHANGED vars
  BY <1>1, <1>4 DEF vars
<1>5. QED
  BY <1>2, <1>3, <1>4 DEF Next

LEMMA AssertsWaitStep ==
    ASSUME OtherTypes, Phases, AssertsWait, [Next]_vars
    PROVE  AssertsWait'
<1> USE DEF hostVars, cacheVars, pageVars, holdVars, scanVars, stageVars, memVars
<1>1. CASE pc' # "assert"
  BY <1>1 DEF AssertsWait
<1>2. CASE pc' = "assert" /\ pc # "assert"
  <2>1. Posedge
    <3>1. CASE HostNext
      BY <1>2, <3>1 DEF HostNext, DriveInput, AnnounceFresh, Poke, Tick, TickNba,
         ForceWakeAll, EvalOutput, EnterPoke, Resume
    <3>2. CASE KernelNext
      BY <1>2, <3>2 DEF KernelNext, PokeInput, PokeDone, EvalReturn, PullDeps, EvalWire,
         AssertThrow, AssertPass, StartDispatch, NextWord, NextSum, EnterHold, TakeBranch,
         RunHold, LeaveWord, Prepare, CapturePorts, CommitReg, CommitDone, StorePort,
         StoreDone, Dispatched, Resume
    <3>3. CASE UNCHANGED vars
      BY <1>2, <3>3 DEF vars
    <3>4. QED
      BY <3>1, <3>2, <3>3 DEF Next
  <2>2. want' = StaleIn(AssertReads) /\ UNCHANGED <<ok, pg>>
    BY <2>1 DEF Posedge
  <2>3. QED
    BY <2>2 DEF AssertsWait, StaleIn, Stale
<1>3. CASE pc' = "assert" /\ pc = "assert"
  <2>1. \/ UNCHANGED <<ok, pg, want>>
        \/ \E w \in Wires : PullDeps(w) \/ EvalWire(w)
    <3>1. CASE HostNext
      BY <1>3, <3>1 DEF HostNext, DriveInput, AnnounceFresh, Poke, Tick, TickNba,
         ForceWakeAll, EvalOutput
    <3>2. CASE KernelNext
      BY <1>3, <3>2 DEF KernelNext, PokeInput, PokeDone, EvalReturn, Posedge,
         AssertThrow, AssertPass, StartDispatch, NextWord, NextSum, EnterHold, TakeBranch,
         RunHold, LeaveWord, Prepare, CapturePorts, CommitReg, CommitDone, StorePort,
         StoreDone
    <3>3. CASE UNCHANGED vars
      BY <3>3 DEF vars
    <3>4. QED
      BY <3>1, <3>2, <3>3 DEF Next
  <2>2. CASE UNCHANGED <<ok, pg, want>>
    BY <1>3, <2>2 DEF AssertsWait, StaleIn, Stale
  <2>3. ASSUME NEW w \in Wires, PullDeps(w) PROVE AssertsWait'
    BY <1>3, <2>3 DEF AssertsWait, StaleIn, Stale, PullDeps
  <2>4. ASSUME NEW w \in Wires, EvalWire(w) PROVE AssertsWait'
    <3>1. ok' = [ok EXCEPT ![w] = pg[Part[w]]] /\ pg' = pg /\ want' = want \ {w}
      BY <2>4 DEF EvalWire
    <3>2. \A y \in Wires : ok'[y] # pg'[Part[y]] => y # w /\ ok[y] # pg[Part[y]]
      BY <3>1 DEF OtherTypes
    <3>3. AssertReads \subseteq Wires
      BY PlanTypes
    <3>4. QED
      BY <1>3, <3>1, <3>2, <3>3 DEF AssertsWait, StaleIn, Stale
  <2>5. QED
    BY <2>1, <2>2, <2>3, <2>4
<1>4. QED
  BY <1>1, <1>2, <1>3

LEMMA FreshInvariance == Spec => []FreshInv
<1>1. Init => FreshInv
  <2> SUFFICES ASSUME Init PROVE FreshInv
    OBVIOUS
  <2>1. TypeInv
    BY OtherTypesInit, HoldsOKInit DEF TypeInv, Cursor, Init
  <2>2. QED
    BY <2>1 DEF FreshInv, Init, Phases, Stamps, AssertsWait, CacheFresh
<1>2. FreshInv /\ [Next]_vars => FreshInv'
  <2> SUFFICES ASSUME FreshInv, [Next]_vars PROVE FreshInv'
    OBVIOUS
  <2>1. OtherTypes /\ HoldsOK /\ Cursor /\ HoldTypes /\ wa \in [Ports -> Cells]
    BY HoldsOKTypes DEF FreshInv, TypeInv, OtherTypes
  <2>2. TypeInv'
    BY <2>1, OtherTypesStep, HoldsOKStep, CursorStep DEF TypeInv
  <2>3. QED
    BY <2>1, <2>2, PhasesStep, FreshStep, AssertsWaitStep DEF FreshInv
<1>3. QED
  BY <1>1, <1>2, PTL DEF Spec

(* A cached wire whose stamp equals its page has the value of a complete   *)
(* re-evaluation, for every netlist and every plan whose bump lists are    *)
(* sound: what eval_* skips was not needed.                                *)
THEOREM CachedWiresAreFresh == Spec => []CacheFresh
<1>1. FreshInv => CacheFresh
  BY DEF FreshInv
<1>2. QED
  BY <1>1, FreshInvariance, PTL

(* The clocked assertions throw exactly when one fails in the settled      *)
(* state before the edge, although they read lazily evaluated wires.       *)
THEOREM AssertionsSample == Spec => AssertionsSampleSettledState
<1> DEFINE Samples ==
        /\ (pc = "assert" /\ pc' = "idle") => Fails(Settled(Seen))
        /\ (pc = "assert" /\ pc' = "demand") => ~Fails(Settled(Seen))
<1>1. ASSUME FreshInv, Next, pc = "assert", pc' # "assert" PROVE Samples
  <2>1. AssertThrow \/ AssertPass
    <3>1. CASE HostNext
      BY <1>1, <3>1 DEF HostNext, DriveInput, AnnounceFresh, Poke, Tick, TickNba,
         ForceWakeAll, EvalOutput
    <3>2. CASE KernelNext
      BY <1>1, <3>2 DEF KernelNext, PokeInput, PokeDone, EvalReturn, PullDeps, EvalWire,
         Posedge, StartDispatch, NextWord, NextSum, EnterHold, TakeBranch, RunHold,
         LeaveWord, Prepare, CapturePorts, CommitReg, CommitDone, StorePort, StoreDone
    <3>3. QED
      BY <1>1, <3>1, <3>2 DEF Next
  <2>2. want = {}
    BY <2>1 DEF AssertThrow, AssertPass
  <2>3. OtherTypes /\ CacheFresh /\ inited /\ Poked
    BY <1>1 DEF FreshInv, TypeInv, Phases
  <2>4. AssertReads \in SUBSET Wires /\ StaleIn(AssertReads) = {}
    BY <1>1, <2>2, PlanTypes DEF FreshInv, AssertsWait
  <2>5. Mask(Now, AssertReads) = Mask(Settled(Seen), AssertReads)
    BY <2>3, <2>4, FreshMask
  <2>6. Now \in Env /\ Settled(Seen) \in Env
    BY <2>3, NowIsEnv, SeenIsState, SettledFacts DEF OtherTypes
  <2>7. Fails(Now) = Fails(Settled(Seen))
    <3>1. Fails(Now) = Fails(Mask(Now, AssertReads))
      BY <2>6, ReadsSound
    <3>2. Fails(Settled(Seen)) = Fails(Mask(Settled(Seen), AssertReads))
      BY <2>6, ReadsSound
    <3>3. QED
      BY <2>5, <3>1, <3>2, Zenon
  <2>8. CASE AssertThrow
    <3>1. Fails(Now) /\ pc' = "idle"
      BY <2>8 DEF AssertThrow
    <3>2. QED
      BY <2>7, <3>1
  <2>9. CASE AssertPass
    <3>1. ~Fails(Now) /\ pc' = "demand"
      BY <2>9 DEF AssertPass
    <3>2. QED
      BY <2>7, <3>1
  <2>10. QED
    BY <2>1, <2>8, <2>9
<1>2. FreshInv /\ [Next]_vars => [Samples]_vars
  BY <1>1
<1>3. QED
  BY <1>2, FreshInvariance, PTL DEF Spec, AssertionsSampleSettledState
-----------------------------------------------------------------------------
(***************************************************************************)
(* The dispatch loop leaves no woken hold behind.                          *)
(***************************************************************************)
(* Every hold still marked as woken lies ahead of the cursors.             *)
Ahead ==
    /\ pc \in {"scan", "word", "hold"} => sw < NSums
    /\ pc \in {"scan", "word", "hold"} => \A h \in need :
          \/ WordOf(h) \in swBits
          \/ sw < SumOf(WordOf(h))
          \/ pc # "scan" /\ h \in bits
    /\ pc \in {"prepare", "ports"} => need = {}

LEMMA SumOfHold ==
    ASSUME NEW h \in Holds
    PROVE  /\ WordOf(h) \in 0 .. NWords - 1
           /\ SumOf(WordOf(h)) \in 0 .. NSums - 1
<1>1. WordOf(h) \in 0 .. NWords - 1
  BY WordOfHold, HoldsAreBits
<1>2. WordOf(h) \in Nat /\ WordOf(h) < NSums * W
  BY <1>1, WordRange, PlanTypes
<1>3. WordOf(h) \div W \in 0 .. NSums - 1
  BY <1>2, WordRange, PlanTypes
<1>4. QED
  BY <1>1, <1>3 DEF SumOf

LEMMA AheadStep ==
    ASSUME OtherTypes, HoldTypes, HoldsOK, Cursor, Ahead, [Next]_vars
    PROVE  Ahead'
<1> USE DEF hostVars, cacheVars, pageVars, holdVars, scanVars, stageVars, memVars
<1>1. CASE pc' \notin {"scan", "word", "hold", "prepare", "ports"}
  BY <1>1 DEF Ahead
<1>2. \A h \in need : WordOf(h) \in hAny /\ h \in Holds
  BY DEF HoldsOK, PendingHoldIsArmed
<1>3. CASE StartDispatch
  <2>1. CASE hWords = 0
    <3>1. Sums(hAny) = {}
      BY <2>1, SumsFinite, FS_EmptySet DEF HoldsOK, PendingHoldIsArmed, Sums
    <3>2. need = {}
      BY <1>2, <3>1 DEF Sums
    <3>3. QED
      BY <1>3, <2>1, <3>2 DEF StartDispatch, Dispatched, Ahead
  <2>2. CASE hWords # 0
    <3>1. /\ pc' = "scan" /\ sw' = 0 /\ swBits' = {w \in hAny : SumOf(w) = 0}
          /\ need' = need
      BY <1>3, <2>2 DEF StartDispatch, LiveWords
    <3>2. hAny # {}
      <4>1. hAny = {} => Sums(hAny) = {}
        BY DEF Sums
      <4>2. Cardinality({}) = 0
        BY FS_EmptySet
      <4>3. hWords = Cardinality(Sums(hAny))
        BY DEF HoldsOK, PendingHoldIsArmed, Sums
      <4>4. QED
        BY <2>2, <4>1, <4>2, <4>3
    <3>3. NSums # 0
      <4>1. PICK w \in SumBits : w \in hAny
        BY <3>2 DEF HoldsOK
      <4>2. 0 <= w /\ w < NSums * W
        BY WordRange, PlanTypes DEF SumBits
      <4>3. w \in Nat /\ (NSums = 0 => NSums * W = 0)
        BY PlanTypes, WordRange DEF SumBits
      <4>4. QED
        BY <4>2, <4>3
    <3>4. \A h \in need : SumOf(WordOf(h)) = 0 \/ 0 < SumOf(WordOf(h))
      BY <1>2, SumOfHold
    <3>5. QED
      BY <1>2, <3>1, <3>3, <3>4, WordRange DEF Ahead
  <2>3. QED
    BY <2>1, <2>2
<1>4. CASE NextWord
  <2>1. swBits \in SUBSET Nat /\ swBits # {}
    BY <1>4, WordRange, PlanTypes DEF NextWord, SumBits, OtherTypes
  <2>2. Least(swBits) \in swBits /\ \A k \in swBits : Least(swBits) <= k
    BY <2>1, LeastElement
  <2>3. need' = need /\ sw' = sw /\ pc = "scan"
    BY <1>4 DEF NextWord
  <2>4. CASE Least(swBits) >= NWords
    <3>1. pc' = "scan" /\ swBits' = {}
      BY <1>4, <2>4 DEF NextWord
    <3>2. ASSUME NEW h \in need, WordOf(h) \in swBits
          PROVE  FALSE
      <4>1. WordOf(h) \in 0 .. NWords - 1
        BY <1>2, SumOfHold
      <4>2. Least(swBits) <= WordOf(h) /\ Least(swBits) \in Nat
        BY <2>1, <2>2, <3>2
      <4>3. QED
        BY <4>1, <4>2, <2>4, WordRange
    <3>3. QED
      BY <2>3, <3>1, <3>2 DEF Ahead
  <2>5. CASE ~(Least(swBits) >= NWords)
    <3>1. /\ pc' = "word" /\ swBits' = swBits \ {Least(swBits)}
          /\ bits' = {h \in (need \cup busy) \cap Holds : WordOf(h) = Least(swBits)}
      BY <1>4, <2>5 DEF NextWord
    <3>2. QED
      BY <1>2, <2>3, <3>1 DEF Ahead
  <2>6. QED
    BY <2>4, <2>5
<1>5. CASE NextSum
  <2>1. need' = need /\ pc = "scan" /\ swBits = {}
    BY <1>5 DEF NextSum
  <2>2. \A h \in need : sw < SumOf(WordOf(h)) /\ SumOf(WordOf(h)) \in 0 .. NSums - 1
    BY <1>2, <2>1, SumOfHold DEF Ahead
  <2>3. CASE sw + 1 < NSums
    <3>1. sw' = sw + 1 /\ pc' = "scan" /\ swBits' = {w \in hAny : SumOf(w) = sw + 1}
      BY <1>5, <2>3 DEF NextSum, LiveWords
    <3>2. \A h \in need : SumOf(WordOf(h)) = sw + 1 \/ sw + 1 < SumOf(WordOf(h))
      BY <2>2, WordRange DEF OtherTypes
    <3>3. QED
      BY <1>2, <2>1, <2>3, <3>1, <3>2 DEF Ahead
  <2>4. CASE ~(sw + 1 < NSums)
    <3>1. need = {}
      BY <2>2, <2>4, WordRange DEF OtherTypes
    <3>2. QED
      BY <1>5, <2>1, <2>4, <3>1 DEF NextSum, Dispatched, Ahead
  <2>5. QED
    BY <2>3, <2>4
<1>6. CASE EnterHold
  BY <1>6 DEF EnterHold, Ahead
<1>7. CASE TakeBranch
  BY <1>7 DEF TakeBranch, Ahead
<1>8. CASE RunHold
  <2>1. UNCHANGED scanVars /\ pc' = "word" /\ pc = "hold" /\ need' = need
    BY <1>8 DEF RunHold
  <2>2. QED
    BY <2>1 DEF Ahead
<1>9. CASE LeaveWord
  <2>1. UNCHANGED scanVars /\ pc' = "scan" /\ pc = "word" /\ bits = {} /\ need' = need
    BY <1>9 DEF LeaveWord
  <2>2. QED
    BY <2>1 DEF Ahead
<1>10. CASE Prepare
  BY <1>10 DEF Prepare, Ahead
<1>11. CASE UNCHANGED <<pc, scanVars, need>>
  BY <1>11 DEF Ahead
<1>12. CASE HostNext
  BY <1>1, <1>11, <1>12 DEF HostNext, DriveInput, AnnounceFresh, Poke, Tick, TickNba,
     ForceWakeAll, EvalOutput, EnterPoke, Resume
<1>13. CASE KernelNext
  <2>1. CASE \E i \in UsedInputs : PokeInput(i)
    BY <1>1, <2>1 DEF PokeInput
  <2>2. CASE \E w \in Wires : PullDeps(w) \/ EvalWire(w)
    BY <1>11, <2>2 DEF PullDeps, EvalWire
  <2>3. CASE \E r \in Regs : CommitReg(r)
    BY <1>1, <2>3 DEF CommitReg
  <2>4. CASE \/ PokeDone \/ EvalReturn \/ Posedge \/ AssertThrow \/ AssertPass
             \/ CapturePorts \/ CommitDone \/ StorePort \/ StoreDone
    BY <1>1, <2>4 DEF PokeDone, EvalReturn, Posedge, AssertThrow, AssertPass,
       CapturePorts, CommitDone, StorePort, StoreDone, Resume
  <2>5. QED
    BY <1>3, <1>4, <1>5, <1>6, <1>7, <1>8, <1>9, <1>10, <1>13, <2>1, <2>2, <2>3, <2>4
    DEF KernelNext
<1>14. CASE UNCHANGED vars
  BY <1>11, <1>14 DEF vars
<1>15. QED
  BY <1>12, <1>13, <1>14 DEF Next

(* Every hold woken before a tick runs in that tick: none is carried past  *)
(* the dispatch loop, whatever the number of holds and the word size.      *)
THEOREM DispatchIsComplete == Spec => []DispatchDrains
<1>1. Init => Ahead
  BY DEF Init, Ahead
<1>2. TypeInv /\ Ahead /\ [Next]_vars => Ahead'
  BY HoldsOKTypes, AheadStep DEF TypeInv
<1>3. Ahead => DispatchDrains
  BY DEF Ahead, DispatchDrains
<1>4. QED
  BY <1>1, <1>2, <1>3, TypeInvariance, PTL DEF Spec
-----------------------------------------------------------------------------
(***************************************************************************)
(* The skip kernel implements the reference model, for every netlist and   *)
(* every sound plan in which each register has one writer and every        *)
(* element that an enable reads bumps a page.  On the way: a hold left     *)
(* asleep would assign nothing new, a skipped scan of the enables would    *)
(* have found every port off, and a tick that reports no change has left   *)
(* a fixpoint.                                                             *)
(*                                                                         *)
(* The argument follows one tick.  While the holds are dispatched the      *)
(* settled state stands still, and every hold has either staged what it    *)
(* does in that state, or still lies ahead of the cursors (StagingOK); a   *)
(* hold that nobody woke has nothing to stage (SleepOK).  So when the      *)
(* ports are captured, the staged values are the reference's next state,   *)
(* and the commit and store loops only copy it, element by element, while  *)
(* AbsState stands still (EdgeOK).                                         *)
(***************************************************************************)

(* What hold h assigns in the settled environment of state s.              *)
Does(h, s) == HoldFn(h, Settled(s))
NoOpAt(h, s) == \A r \in DOMAIN Does(h, s) : Does(h, s)[r] = s[r]
AllOff(s) == \A j \in Ports : ~EnFn(j, Settled(s))

Dispatching == pc \in {"scan", "word", "hold"}
Running(h) == pc = "hold" /\ h = hold

(* A method that needs cached wires has asked for every stale one.         *)
Waits ==
    /\ pc = "hold" => StaleIn(GateReads[hold]) \subseteq want
    /\ pc = "prepare" /\ demand => StaleIn(EnWires \cup EnTempWires) \subseteq want
    /\ pc = "ports" => \A j \in Ports :
          weAny /\ we[j] => StaleIn(PortReads[j]) \subseteq want

(* The generation that the enables were last scanned at never runs ahead,  *)
(* and is behind once a commit has bumped a table.                         *)
GenOK ==
    /\ demandGen <= pgGen
    /\ ~inited => demandGen < pgGen
    /\ pc \in {"demand", "scan", "word", "hold", "prepare", "ports"} => demandGen = pgGen
    /\ pc = "commit" => \A t \in Tabled : bst[t] = bep => demandGen < pgGen

(* With no page moved since the last scan, its result still stands.        *)
Scanned ==
    /\ demandGen = pgGen
    /\ ~(demand /\ pc \in {"demand", "scan", "word", "hold", "prepare"})
EnablesOK ==
    /\ Scanned => StaleIn(EnWires \cup EnTempWires) = {}
    /\ Scanned /\ ~weAny => AllOff(Seen)
    /\ pc = "ports" /\ weAny => \A j \in Ports : we[j] = EnFn(j, Settled(Seen))

(* A hold that is not marked assigns nothing new, nor will the registers   *)
(* it assigns move in the commit under way.                                *)
Marked(h) == h \in need \cup busy
SleepOK ==
    /\ ~inited => Holds \subseteq busy
    /\ \A h \in Holds : Marked(h) \/ Running(h) \/ NoOpAt(h, Seen)
    /\ pc = "commit" => \A h \in Holds, r \in todo :
          Marked(h) \/ r \notin DOMAIN Does(h, Seen) \/ nxt[r] = cur[r]

(* What the tick has staged so far.                                        *)
Dirty == list \cup ac
Staged(h) ==
    \A r \in DOMAIN Does(h, Seen) :
        Does(h, Seen)[r] = IF r \in Dirty THEN nxt[r] ELSE cur[r]
ToCome(h) ==
    /\ Marked(h)
    /\ \/ WordOf(h) \in swBits
       \/ sw < SumOf(WordOf(h))
       \/ pc # "scan" /\ h \in bits
StagingOK ==
    /\ flags = list
    /\ Dispatching \/ pc \in {"prepare", "ports"} =>
          \A r \in Dirty : \E h \in Holds : r \in DOMAIN Does(h, Seen)
    /\ Dispatching => \A h \in Holds : Staged(h) \/ Running(h) \/ ToCome(h)
    /\ pc \in {"prepare", "ports"} => \A h \in Holds : Staged(h)

(* During the commit and the stores the reference has made its step.       *)
EdgeOK ==
    /\ Edge => port >= 1
    /\ pc = "store" => weAny /\ todo = {}
    /\ Edge /\ chg = 0 => AbsState = NextState(Seen)
-----------------------------------------------------------------------------
(***************************************************************************)
(* Waiting for wires.                                                      *)
(***************************************************************************)
LEMMA EvalSettlesWant ==
    ASSUME OtherTypes, NEW w \in Wires, PullDeps(w) \/ EvalWire(w),
           NEW S \in SUBSET Wires, \A y \in S : ok[y] # pg[Part[y]] => y \in want
    PROVE  \A y \in S : ok'[y] # pg'[Part[y]] => y \in want'
<1>1. CASE PullDeps(w)
  <2>1. UNCHANGED <<ok, pg>> /\ want \subseteq want'
    BY <1>1 DEF PullDeps, pageVars
  <2>2. QED
    BY <2>1
<1>2. CASE EvalWire(w)
  <2>1. ok' = [ok EXCEPT ![w] = pg[Part[w]]] /\ pg' = pg /\ want' = want \ {w}
    BY <1>2 DEF EvalWire, pageVars
  <2>2. \A y \in S : ok'[y] # pg'[Part[y]] => y # w /\ ok[y] # pg[Part[y]]
    BY <2>1 DEF OtherTypes
  <2>3. QED
    BY <2>1, <2>2
<1>3. QED
  BY <1>1, <1>2

LEMMA ReadsAreWires ==
    /\ \A h \in Holds : GateReads[h] \in SUBSET Wires
    /\ \A j \in Ports : PortReads[j] \in SUBSET Wires
    /\ \A j \in Ports : EnReads[j] \cup EnTemps[j] \subseteq EnWires \cup EnTempWires
    /\ EnWires \cup EnTempWires \in SUBSET Wires
BY PlanTypes DEF EnWires, EnTempWires

LEMMA WaitsStep ==
    ASSUME OtherTypes, Cursor, Waits, [Next]_vars
    PROVE  Waits'
<1> USE DEF hostVars, cacheVars, pageVars, holdVars, scanVars, stageVars, memVars
<1>1. CASE pc' \notin {"hold", "prepare", "ports"}
  BY <1>1 DEF Waits
<1>2. CASE UNCHANGED <<pc, hold, want, ok, pg, demand, weAny, we>>
  BY <1>2 DEF Waits, StaleIn, Stale
<1>3. CASE EnterHold
  <2>1. pc' = "hold" /\ UNCHANGED <<ok, pg>>
    BY <1>3 DEF EnterHold
  <2>2. want' = {w \in GateReads[hold'] : ok[w] # pg[Part[w]]}
    BY <1>3 DEF EnterHold, StaleIn, Stale
  <2>3. QED
    BY <2>1, <2>2 DEF Waits, StaleIn, Stale
<1>4. CASE StartDispatch \/ NextSum
  <2>1. CASE pc' = "scan"
    BY <1>1, <2>1
  <2>2. CASE pc' = "prepare" /\ Dispatched
    <3>1. UNCHANGED <<ok, pg, demand>>
      BY <1>4 DEF StartDispatch, NextSum
    <3>2. demand => want' = {w \in EnWires \cup EnTempWires : ok[w] # pg[Part[w]]}
      BY <2>2 DEF Dispatched, StaleIn, Stale
    <3>3. QED
      BY <2>2, <3>1, <3>2 DEF Waits, StaleIn, Stale
  <2>3. QED
    BY <1>4, <2>1, <2>2 DEF StartDispatch, NextSum, Dispatched
<1>5. CASE Prepare
  <2>1. pc' = "ports" /\ UNCHANGED <<ok, pg>>
    BY <1>5 DEF Prepare
  <2>2. CASE demand \/ weAny
    <3>1. /\ we' = [j \in Ports |-> EnFn(j, Now)]
          /\ want' = {w \in UNION {PortReads[j] : j \in {k \in Ports : EnFn(k, Now)}} :
                         ok[w] # pg[Part[w]]}
      BY <1>5, <2>2 DEF Prepare, StaleIn, Stale
    <3>2. \A j \in Ports : we'[j] =>
             PortReads[j] \subseteq UNION {PortReads[k] : k \in {i \in Ports : EnFn(i, Now)}}
      BY <3>1
    <3>3. QED
      BY <2>1, <3>1, <3>2 DEF Waits, StaleIn, Stale
  <2>3. CASE ~(demand \/ weAny)
    BY <1>5, <2>1, <2>3 DEF Prepare, Waits
  <2>4. QED
    BY <2>2, <2>3
<1>6. ASSUME NEW w \in Wires, PullDeps(w) \/ EvalWire(w)
      PROVE  Waits'
  <2>1. UNCHANGED <<pc, hold, demand, weAny, we>>
    BY <1>6 DEF PullDeps, EvalWire
  <2>2. CASE pc = "hold"
    <3>1. GateReads[hold] \in SUBSET Wires
      BY <2>2, ReadsAreWires DEF Cursor
    <3>2. \A y \in GateReads[hold] : ok[y] # pg[Part[y]] => y \in want
      BY <2>2 DEF Waits, StaleIn, Stale
    <3>3. \A y \in GateReads[hold] : ok'[y] # pg'[Part[y]] => y \in want'
      BY <1>6, <3>1, <3>2, EvalSettlesWant
    <3>4. QED
      BY <2>1, <2>2, <3>3 DEF Waits, StaleIn, Stale
  <2>3. CASE pc = "prepare"
    <3> DEFINE S == EnWires \cup EnTempWires
    <3>1. S \in SUBSET Wires
      BY ReadsAreWires
    <3> HIDE DEF S
    <3>2. demand => \A y \in S : ok[y] # pg[Part[y]] => y \in want
      BY <2>3 DEF Waits, StaleIn, Stale, S
    <3>3. demand => \A y \in S : ok'[y] # pg'[Part[y]] => y \in want'
      BY <1>6, <3>1, <3>2, EvalSettlesWant
    <3>4. QED
      BY <2>1, <2>3, <3>3 DEF Waits, StaleIn, Stale, S
  <2>4. CASE pc = "ports"
    <3>1. ASSUME NEW j \in Ports, weAny, we[j]
          PROVE  \A y \in PortReads[j] : ok'[y] # pg'[Part[y]] => y \in want'
      <4>1. PortReads[j] \in SUBSET Wires
        BY ReadsAreWires
      <4>2. \A y \in PortReads[j] : ok[y] # pg[Part[y]] => y \in want
        BY <2>4, <3>1 DEF Waits, StaleIn, Stale
      <4>3. QED
        BY <1>6, <4>1, <4>2, EvalSettlesWant
    <3>2. QED
      BY <2>1, <2>4, <3>1 DEF Waits, StaleIn, Stale
  <2>5. QED
    BY <1>1, <2>1, <2>2, <2>3, <2>4
<1>7. CASE TakeBranch
  <2>1. pc = "hold" /\ want = {} /\ UNCHANGED <<pc, hold, ok, pg>>
    BY <1>7 DEF TakeBranch
  <2>2. QED
    BY <2>1 DEF Waits, StaleIn, Stale
<1>8. CASE HostNext
  BY <1>1, <1>8 DEF HostNext, DriveInput, AnnounceFresh, Poke, Tick, TickNba,
     ForceWakeAll, EvalOutput, EnterPoke, Resume
<1>9. CASE KernelNext
  <2>1. CASE \E i \in UsedInputs : PokeInput(i)
    BY <1>1, <2>1 DEF PokeInput
  <2>2. CASE \E r \in Regs : CommitReg(r)
    BY <1>1, <2>2 DEF CommitReg
  <2>3. CASE \/ PokeDone \/ EvalReturn \/ Posedge \/ AssertThrow \/ AssertPass \/ NextWord
             \/ RunHold \/ LeaveWord \/ CapturePorts \/ CommitDone \/ StorePort \/ StoreDone
    BY <1>1, <2>3 DEF PokeDone, EvalReturn, Posedge, AssertThrow, AssertPass, NextWord,
       RunHold, LeaveWord, CapturePorts, CommitDone, StorePort, StoreDone, Resume
  <2>4. QED
    BY <1>3, <1>4, <1>5, <1>6, <1>7, <1>9, <2>1, <2>2, <2>3 DEF KernelNext
<1>10. CASE UNCHANGED vars
  BY <1>2, <1>10 DEF vars
<1>11. QED
  BY <1>8, <1>9, <1>10 DEF Next

LEMMA GenStep ==
    ASSUME OtherTypes, Phases, Stamps, GenOK, [Next]_vars
    PROVE  GenOK'
<1> USE DEF hostVars, cacheVars, pageVars, holdVars, scanVars, stageVars, memVars
<1> DEFINE Late == {"demand", "scan", "word", "hold", "prepare", "ports"}
<1>1. demandGen \in Nat /\ pgGen \in Nat /\ bep \in Nat /\ bst \in [Tabled -> Nat]
  BY DEF OtherTypes
<1>2. CASE /\ UNCHANGED <<demandGen, pgGen, inited, bst, bep>>
           /\ pc' \in Late => pc \in Late
           /\ pc' = "commit" => pc = "commit"
  BY <1>2 DEF GenOK
<1>3. ASSUME NEW x \in Sigs, Bump(x) \/ (pc = "commit" /\ BumpOnce(x)), inited,
             UNCHANGED <<pc, demandGen, inited, bep>>, pc \notin Late
      PROVE  GenOK'
  <2>1. CASE Bump(x)
    <3>1. pgGen' >= pgGen /\ bst' = bst
      BY <1>1, <2>1 DEF Bump, BumpAll
    <3>2. pgGen' \in Nat
      BY <1>1, <2>1 DEF Bump, BumpAll
    <3>3. QED
      BY <1>1, <1>3, <3>1, <3>2 DEF GenOK
  <2>2. CASE pc = "commit" /\ BumpOnce(x) /\ ~Bump(x)
    <3>1. LeafParts[x] \in Tabled /\ LeafParts[x] # {}
      BY <2>2, PlanTypes DEF BumpOnce
    <3>2. CASE bst[LeafParts[x]] = bep
      <4>1. UNCHANGED <<pgGen, bst>>
        BY <2>2, <3>1, <3>2 DEF BumpOnce
      <4>2. QED
        BY <1>3, <4>1 DEF GenOK
    <3>3. CASE bst[LeafParts[x]] # bep
      <4>1. pgGen' = pgGen + 1
        BY <2>2, <3>1, <3>3 DEF BumpOnce, BumpAll
      <4>2. demandGen' < pgGen' /\ demandGen' <= pgGen'
        BY <1>1, <1>3, <4>1 DEF GenOK
      <4>3. QED
        BY <1>3, <4>2 DEF GenOK
    <3>4. QED
      BY <3>2, <3>3
  <2>3. QED
    BY <1>3, <2>1, <2>2
<1>4. CASE HostNext
  <2>1. CASE \E i \in Inputs, v \in Val : DriveInput(i, v)
    BY <1>2, <2>1 DEF DriveInput
  <2>2. CASE AnnounceFresh \/ TickNba \/ \E w \in Outputs : EvalOutput(w)
    BY <1>2, <2>2 DEF AnnounceFresh, TickNba, EvalOutput
  <2>3. CASE Poke \/ Tick
    BY <2>3 DEF Poke, Tick, EnterPoke, Resume, GenOK
  <2>4. CASE ForceWakeAll
    <3>1. pgGen' = pgGen + 1 /\ UNCHANGED <<demandGen, inited, pc>> /\ pc = "idle"
      BY <2>4 DEF ForceWakeAll
    <3>2. QED
      BY <1>1, <3>1 DEF GenOK
  <2>5. QED
    BY <1>4, <2>1, <2>2, <2>3, <2>4 DEF HostNext
<1>5. CASE KernelNext
  <2>1. ASSUME NEW i \in UsedInputs, PokeInput(i) PROVE GenOK'
    <3>1. i \in Sigs /\ Bump(i) /\ inited /\ pc = "poke" /\ UNCHANGED <<pc, demandGen, inited, bep>>
      BY <2>1 DEF PokeInput, UsedInputs, Sigs, Phases
    <3>2. QED
      BY <3>1, <1>3
  <2>2. CASE AssertPass
    <3>1. demandGen' = pgGen /\ UNCHANGED <<pgGen, inited>> /\ pc = "assert" /\ pc' = "demand"
      BY <2>2 DEF AssertPass
    <3>2. inited
      BY <3>1 DEF Phases
    <3>3. QED
      BY <1>1, <3>1, <3>2 DEF GenOK
  <2>3. CASE CapturePorts
    <3>1. bep' = bep + 1 /\ UNCHANGED <<bst, demandGen, pgGen, inited>> /\ pc' = "commit"
      BY <2>3 DEF CapturePorts
    <3>2. \A t \in Tabled : bst'[t] # bep'
      BY <1>1, <3>1 DEF Stamps
    <3>3. QED
      BY <3>1, <3>2 DEF GenOK
  <2>4. ASSUME NEW r \in Regs, CommitReg(r) PROVE GenOK'
    <3>1. /\ r \in Sigs /\ inited /\ pc = "commit"
          /\ UNCHANGED <<pc, demandGen, inited, bep>>
      BY <2>4 DEF CommitReg, Sigs, Phases
    <3>2. CASE nxt[r] # cur[r]
      <4>1. Bump(r) \/ BumpOnce(r)
        BY <2>4, <3>2 DEF CommitReg
      <4>2. QED
        BY <3>1, <4>1, <1>3
    <3>3. CASE nxt[r] = cur[r]
      BY <1>2, <2>4, <3>1, <3>3 DEF CommitReg
    <3>4. QED
      BY <3>2, <3>3
  <2>5. CASE StorePort
    <3>1. /\ wa[port] \in Sigs /\ inited /\ pc = "store"
          /\ UNCHANGED <<pc, demandGen, inited, bep>>
      BY <2>5 DEF StorePort, Sigs, Phases, OtherTypes
    <3>2. CASE we[port] /\ cur[wa[port]] # wd[port]
      <4>1. Bump(wa[port])
        BY <2>5, <3>2 DEF StorePort
      <4>2. QED
        BY <3>1, <4>1, <1>3
    <3>3. CASE ~(we[port] /\ cur[wa[port]] # wd[port])
      BY <1>2, <2>5, <3>1, <3>3 DEF StorePort
    <3>4. QED
      BY <3>2, <3>3
  <2>6. CASE \E w \in Wires : PullDeps(w) \/ EvalWire(w)
    BY <1>2, <2>6 DEF PullDeps, EvalWire
  <2>7. CASE \/ PokeDone \/ EvalReturn \/ Posedge \/ AssertThrow \/ StartDispatch \/ NextWord
             \/ NextSum \/ EnterHold \/ TakeBranch \/ LeaveWord \/ Prepare
    BY <1>2, <2>7 DEF PokeDone, EvalReturn, Posedge, AssertThrow, StartDispatch, NextWord,
       NextSum, EnterHold, TakeBranch, LeaveWord, Prepare, Dispatched, Resume
  <2>8. CASE RunHold
    <3>1. pc = "hold" /\ pc' = "word" /\ UNCHANGED <<demandGen, pgGen, inited, bst, bep>>
      BY <2>8 DEF RunHold
    <3>2. QED
      BY <1>2, <3>1
  <2>9. CASE CommitDone \/ StoreDone
    BY <1>2, <2>9 DEF CommitDone, StoreDone
  <2>10. QED
    BY <1>5, <2>1, <2>2, <2>3, <2>4, <2>5, <2>6, <2>7, <2>8, <2>9 DEF KernelNext
<1>6. CASE UNCHANGED vars
  BY <1>2, <1>6 DEF vars
<1>7. QED
  BY <1>4, <1>5, <1>6 DEF Next
-----------------------------------------------------------------------------
(***************************************************************************)
(* Which steps move the state that the model has been told about.          *)
(***************************************************************************)
LEMMA SeenIsCurrent ==
    ASSUME NEW x \in Regs \cup Cells
    PROVE  x \in Sigs /\ Seen[x] = cur[x]
BY NetlistAssumption DEF Seen, Sigs, UsedInputs

(* Element x takes value v, and no other.                                  *)
SeesChange(x, v) == Seen' = [Seen EXCEPT ![x] = v]

(* A pin that disturbs nothing is seen when it is driven.                  *)
LEMMA DriveSeen ==
    ASSUME OtherTypes, NEW i \in Inputs, NEW v \in Val, DriveInput(i, v)
    PROVE  \/ Seen' = Seen
           \/ LeafParts[i] = {} /\ LeafHolds[i] = {} /\ SeesChange(i, v)
<1>1. cur' = [cur EXCEPT ![i] = v] /\ prev' = prev
  BY DEF DriveInput
<1>2. CASE i \in UsedInputs
  BY <1>1, <1>2 DEF Seen, OtherTypes, State
<1>3. CASE i \notin UsedInputs
  BY <1>1, <1>3 DEF Seen, OtherTypes, State, UsedInputs, SeesChange
<1>4. QED
  BY <1>2, <1>3

LEMMA PokeSeen ==
    ASSUME OtherTypes, NEW i \in UsedInputs, PokeInput(i)
    PROVE  i \in Sigs /\ cur[i] \in Val /\ SeesChange(i, cur[i]) /\ Bump(i)
BY DEF PokeInput, Seen, OtherTypes, State, UsedInputs, Sigs, SeesChange

LEMMA CommitSeen ==
    ASSUME OtherTypes, NEW r \in Regs, CommitReg(r)
    PROVE  /\ r \in Sigs /\ nxt[r] \in Val
           /\ IF nxt[r] = cur[r]
              THEN UNCHANGED <<cur, prev, chg, pageVars, holdVars, bst>>
              ELSE /\ SeesChange(r, nxt[r]) /\ (Bump(r) \/ BumpOnce(r))
                   /\ cur' = [cur EXCEPT ![r] = nxt[r]] /\ chg' = chg + 1
<1>1. r \in Sigs /\ nxt[r] \in Val /\ r \notin UsedInputs
  BY NetlistAssumption DEF Sigs, OtherTypes, UsedInputs
<1>2. CASE nxt[r] = cur[r]
  BY <1>1, <1>2 DEF CommitReg
<1>3. CASE nxt[r] # cur[r]
  <2>1. /\ cur' = [cur EXCEPT ![r] = nxt[r]] /\ chg' = chg + 1 /\ prev' = prev
        /\ Bump(r) \/ BumpOnce(r)
    BY <1>3 DEF CommitReg
  <2>2. SeesChange(r, nxt[r])
    BY <1>1, <2>1 DEF Seen, OtherTypes, State, SeesChange
  <2>3. QED
    BY <1>1, <1>3, <2>1, <2>2
<1>4. QED
  BY <1>2, <1>3

LEMMA StoreSeen ==
    ASSUME OtherTypes, StorePort
    PROVE  /\ wa[port] \in Cells /\ wa[port] \in Sigs /\ wd[port] \in Val
           /\ IF we[port] /\ cur[wa[port]] # wd[port]
              THEN /\ SeesChange(wa[port], wd[port]) /\ Bump(wa[port])
                   /\ cur' = [cur EXCEPT ![wa[port]] = wd[port]] /\ chg' = chg + 1
              ELSE UNCHANGED <<cur, prev, chg, pageVars, holdVars, bst>>
<1> DEFINE c == wa[port]
<1>1. c \in Cells /\ c \in Sigs /\ wd[port] \in Val
  BY DEF StorePort, Sigs, OtherTypes
<1>2. c \notin UsedInputs
  BY <1>1, NetlistAssumption DEF UsedInputs
<1>3. CASE we[port] /\ cur[c] # wd[port]
  <2>1. /\ cur' = [cur EXCEPT ![c] = wd[port]] /\ chg' = chg + 1 /\ prev' = prev /\ Bump(c)
    BY <1>3 DEF StorePort
  <2>2. SeesChange(c, wd[port])
    BY <1>1, <1>2, <2>1 DEF Seen, OtherTypes, State, SeesChange
  <2>3. QED
    BY <1>1, <1>3, <2>1, <2>2
<1>4. CASE ~(we[port] /\ cur[c] # wd[port])
  <2>1. UNCHANGED <<prev, chg, pageVars, holdVars, bst>>
    BY <1>4 DEF StorePort
  <2>2. cur' = cur
    BY <1>1, <1>4 DEF StorePort, OtherTypes, State
  <2>3. QED
    BY <1>1, <1>4, <2>1, <2>2
<1>5. QED
  BY <1>3, <1>4

(* Every other step, apart from the first poke.                            *)
LEMMA OthersSeeNothing ==
    ASSUME [Next]_vars,
           ~ \E i \in Inputs, v \in Val : DriveInput(i, v),
           ~ \E i \in UsedInputs : PokeInput(i),
           ~ \E r \in Regs : CommitReg(r), ~StorePort,
           ~ (~inited /\ (Poke \/ Tick))
    PROVE  UNCHANGED <<cur, prev>>
<1> USE DEF hostVars
<1>1. CASE HostNext
  BY <1>1 DEF HostNext, AnnounceFresh, Poke, Tick, TickNba, ForceWakeAll, EvalOutput,
     EnterPoke
<1>2. CASE \E w \in Wires : PullDeps(w) \/ EvalWire(w)
  BY <1>2 DEF PullDeps, EvalWire
<1>3. CASE KernelNext /\ ~ \E w \in Wires : PullDeps(w) \/ EvalWire(w)
  BY <1>3 DEF KernelNext, PokeDone, EvalReturn, Posedge, AssertThrow, AssertPass,
     StartDispatch, NextWord, NextSum, EnterHold, TakeBranch, RunHold, LeaveWord, Prepare,
     CapturePorts, CommitDone, StoreDone
<1>4. CASE UNCHANGED vars
  BY <1>4 DEF vars
<1>5. QED
  BY <1>1, <1>2, <1>3, <1>4 DEF Next
-----------------------------------------------------------------------------
(***************************************************************************)
(* A skipped scan of the enables would have found every port off.          *)
(***************************************************************************)
LEMMA EnablesAgree ==
    ASSUME OtherTypes, CacheFresh, inited, Poked, NEW j \in Ports,
           StaleIn(EnWires \cup EnTempWires) = {}
    PROVE  EnFn(j, Now) = EnFn(j, Settled(Seen)) /\ EnFn(j, Now) \in BOOLEAN
<1> DEFINE S == EnReads[j] \cup EnTemps[j]
<1>1. S \in SUBSET Wires /\ StaleIn(S) = {}
  BY ReadsAreWires DEF StaleIn
<1>2. Mask(Now, S) = Mask(Settled(Seen), S)
  BY <1>1, FreshMask
<1>3. Now \in Env /\ Settled(Seen) \in Env
  BY NowIsEnv, SeenIsState, SettledFacts DEF OtherTypes
<1>4. EnFn(j, Now) = EnFn(j, Mask(Now, S))
  BY <1>3, ReadsSound
<1>5. EnFn(j, Settled(Seen)) = EnFn(j, Mask(Settled(Seen), S))
  BY <1>3, ReadsSound
<1>6. QED
  BY <1>2, <1>3, <1>4, <1>5, NetlistAssumption

LEMMA OffStays ==
    ASSUME EnablesPaged, NEW s \in State, NEW x \in Sigs, NEW v \in Val,
           LeafParts[x] = {}, AllOff(s)
    PROVE  AllOff([s EXCEPT ![x] = v])
BY DEF EnablesPaged, AllOff

LEMMA EnablesStep ==
    ASSUME EnablesPaged, OtherTypes, Phases, CacheFresh, Waits, GenOK, EnablesOK,
           [Next]_vars, OtherTypes'
    PROVE  EnablesOK'
<1> USE DEF hostVars, cacheVars, pageVars, holdVars, scanVars, stageVars, memVars
<1> DEFINE Late == {"demand", "scan", "word", "hold", "prepare"}
<1>1. demandGen \in Nat /\ pgGen \in Nat /\ demand \in BOOLEAN /\ weAny \in BOOLEAN
  BY DEF OtherTypes
<1>2. ASSUME UNCHANGED <<demandGen, pgGen, demand, ok, pg, weAny, we>>, Seen' = Seen,
             demand /\ pc \in Late => pc' \in Late, pc' = "ports" => pc = "ports"
      PROVE  EnablesOK'
  <2>1. Scanned' => Scanned
    BY <1>2 DEF Scanned
  <2>2. QED
    BY <1>2, <2>1 DEF EnablesOK, StaleIn, Stale, AllOff
<1>3. ASSUME demandGen' < pgGen', pc' # "ports"
      PROVE  EnablesOK'
  <2>1. demandGen' # pgGen'
    BY <1>3 DEF OtherTypes
  <2>2. QED
    BY <1>3, <2>1 DEF EnablesOK, Scanned
<1>4. ASSUME NEW x \in Sigs, NEW v \in Val, SeesChange(x, v),
             Bump(x) \/ (pc = "commit" /\ BumpOnce(x)),
             UNCHANGED <<pc, demandGen, demand, ok, weAny, we, bep>>, pc \notin Late, pc # "ports"
      PROVE  EnablesOK'
  <2>1. CASE pgGen' = pgGen + 1
    <3>1. demandGen' < pgGen'
      BY <1>1, <1>4, <2>1 DEF GenOK
    <3>2. QED
      BY <1>3, <1>4, <3>1
  <2>2. CASE pgGen' # pgGen + 1 /\ LeafParts[x] = {}
    <3>1. UNCHANGED <<pgGen>> /\ pg' = pg
      BY <1>4, <2>2, PlanTypes DEF Bump, BumpOnce, BumpAll, OtherTypes
    <3>2. Scanned' => Scanned
      BY <1>4, <3>1 DEF Scanned
    <3>3. Seen \in State
      BY SeenIsState
    <3>4. AllOff(Seen) => AllOff(Seen')
      BY <1>4, <2>2, <3>3, OffStays DEF SeesChange
    <3>5. Scanned' => StaleIn(EnWires \cup EnTempWires)' = {}
      BY <1>4, <3>1, <3>2 DEF EnablesOK, StaleIn, Stale
    <3>6. QED
      BY <1>4, <3>2, <3>4, <3>5 DEF EnablesOK
  <2>3. CASE pgGen' # pgGen + 1 /\ LeafParts[x] # {}
    <3>1. pc = "commit" /\ BumpOnce(x) /\ ~BumpAll(x)
      BY <1>4, <2>3 DEF Bump, BumpAll, BumpOnce
    <3>2. LeafParts[x] \in Tabled /\ bst[LeafParts[x]] = bep /\ pgGen' = pgGen
      BY <3>1 DEF BumpOnce, Bump
    <3>3. demandGen' < pgGen'
      BY <1>4, <3>1, <3>2 DEF GenOK
    <3>4. QED
      BY <1>3, <1>4, <3>3
  <2>4. QED
    BY <2>1, <2>2, <2>3
<1>5. CASE HostNext
  <2>1. ASSUME NEW i \in Inputs, NEW v \in Val, DriveInput(i, v) PROVE EnablesOK'
    <3>1. UNCHANGED <<pc, demandGen, pgGen, demand, ok, pg, weAny, we>> /\ pc = "idle"
      BY <2>1 DEF DriveInput
    <3>2. CASE Seen' = Seen
      BY <1>2, <3>1, <3>2
    <3>3. CASE LeafParts[i] = {} /\ SeesChange(i, v)
      <4>1. Scanned' => Scanned
        BY <3>1 DEF Scanned
      <4>2. Seen \in State /\ i \in Sigs
        BY SeenIsState DEF Sigs
      <4>3. AllOff(Seen) => AllOff(Seen')
        BY <3>3, <4>2, OffStays DEF SeesChange
      <4>4. Scanned' => StaleIn(EnWires \cup EnTempWires)' = {}
        BY <3>1, <4>1 DEF EnablesOK, StaleIn, Stale
      <4>5. QED
        BY <3>1, <4>1, <4>3, <4>4 DEF EnablesOK
    <3>4. QED
      BY <2>1, <3>2, <3>3, DriveSeen
  <2>2. CASE AnnounceFresh \/ TickNba \/ \E w \in Outputs : EvalOutput(w)
    BY <1>2, <2>2, SameSeen DEF AnnounceFresh, TickNba, EvalOutput
  <2>3. CASE Poke \/ Tick
    <3>1. /\ UNCHANGED <<demandGen, demand, ok, weAny, we, cur>> /\ EnterPoke /\ pc = "idle"
          /\ pc' \in {"idle", "posedge", "poke"}
      BY <2>3 DEF Poke, Tick, EnterPoke, Resume
    <3>2. CASE inited
      <4>1. UNCHANGED <<prev, pg, pgGen>>
        BY <3>1, <3>2 DEF EnterPoke
      <4>2. QED
        BY <1>2, <3>1, <4>1, SameSeen
    <3>3. CASE ~inited
      <4>1. pgGen' = pgGen
        BY <3>1, <3>3 DEF EnterPoke
      <4>2. demandGen' < pgGen'
        BY <3>1, <3>3, <4>1 DEF GenOK
      <4>3. QED
        BY <1>3, <3>1, <4>2
    <3>4. QED
      BY <3>2, <3>3
  <2>4. CASE ForceWakeAll
    <3>1. pgGen' = pgGen + 1 /\ UNCHANGED <<demandGen, pc>> /\ pc = "idle"
      BY <2>4 DEF ForceWakeAll
    <3>2. demandGen' < pgGen'
      BY <1>1, <3>1 DEF GenOK
    <3>3. QED
      BY <1>3, <3>1, <3>2
  <2>5. QED
    BY <1>5, <2>1, <2>2, <2>3, <2>4 DEF HostNext
<1>6. CASE KernelNext
  <2>1. ASSUME NEW i \in UsedInputs, PokeInput(i) PROVE EnablesOK'
    <3>1. UNCHANGED <<pc, demandGen, demand, ok, weAny, we, bep>> /\ pc = "poke"
      BY <2>1 DEF PokeInput
    <3>2. QED
      BY <1>4, <2>1, <3>1, PokeSeen
  <2>2. CASE AssertPass
    <3>1. /\ UNCHANGED <<ok, pg, weAny, we, pgGen, cur, prev>>
          /\ pc = "assert" /\ pc' = "demand"
          /\ demandGen' = pgGen /\ demand' = (demandGen # pgGen)
      BY <2>2 DEF AssertPass
    <3>2. Scanned' => Scanned
      BY <3>1 DEF Scanned
    <3>3. Seen' = Seen
      BY <3>1, SameSeen
    <3>4. QED
      BY <3>1, <3>2, <3>3 DEF EnablesOK, StaleIn, Stale, AllOff
  <2>3. CASE Prepare
    <3>1. /\ UNCHANGED <<ok, pg, pgGen, demandGen, demand, cur, prev>>
          /\ pc = "prepare" /\ pc' = "ports" /\ want = {}
      BY <2>3 DEF Prepare
    <3>2. Seen' = Seen
      BY <3>1, SameSeen
    <3>3. demandGen = pgGen /\ inited /\ Poked
      BY <3>1 DEF GenOK, Phases
    <3>4. StaleIn(EnWires \cup EnTempWires) = {}
      <4>1. CASE demand
        BY <3>1, <4>1 DEF Waits
      <4>2. CASE ~demand
        BY <3>3, <4>2 DEF EnablesOK, Scanned
      <4>3. QED
        BY <1>1, <4>1, <4>2
    <3>5. \A j \in Ports : EnFn(j, Now) = EnFn(j, Settled(Seen)) /\ EnFn(j, Now) \in BOOLEAN
      BY <3>3, <3>4, EnablesAgree
    <3>6. StaleIn(EnWires \cup EnTempWires)' = {}
      BY <3>1, <3>4 DEF StaleIn, Stale
    <3>7. CASE demand \/ weAny
      <4>1. /\ we' = [j \in Ports |-> EnFn(j, Now)]
            /\ weAny' = \E j \in Ports : EnFn(j, Now)
        BY <2>3, <3>7 DEF Prepare
      <4>2. ~weAny' => AllOff(Seen')
        BY <3>2, <3>5, <4>1 DEF AllOff
      <4>3. \A j \in Ports : we'[j] = EnFn(j, Settled(Seen'))
        BY <3>2, <3>5, <4>1
      <4>4. QED
        BY <3>6, <4>2, <4>3 DEF EnablesOK
    <3>8. CASE ~(demand \/ weAny)
      <4>1. UNCHANGED <<we, weAny>>
        BY <2>3, <3>8 DEF Prepare
      <4>2. AllOff(Seen')
        BY <3>2, <3>3, <3>8 DEF EnablesOK, Scanned
      <4>3. QED
        BY <3>6, <3>8, <4>1, <4>2 DEF EnablesOK
    <3>9. QED
      BY <3>7, <3>8
  <2>4. ASSUME NEW r \in Regs, CommitReg(r) PROVE EnablesOK'
    <3>1. UNCHANGED <<pc, demandGen, demand, ok, weAny, we, bep>> /\ pc = "commit"
      BY <2>4 DEF CommitReg
    <3>2. CASE nxt[r] = cur[r]
      BY <1>2, <2>4, <3>1, <3>2, CommitSeen, SameSeen
    <3>3. CASE nxt[r] # cur[r]
      BY <1>4, <2>4, <3>1, <3>3, CommitSeen
    <3>4. QED
      BY <3>2, <3>3
  <2>5. CASE StorePort
    <3>1. UNCHANGED <<pc, demandGen, demand, ok, weAny, we, bep>> /\ pc = "store"
      BY <2>5 DEF StorePort
    <3>2. CASE we[port] /\ cur[wa[port]] # wd[port]
      BY <1>4, <2>5, <3>1, <3>2, StoreSeen
    <3>3. CASE ~(we[port] /\ cur[wa[port]] # wd[port])
      BY <1>2, <2>5, <3>1, <3>3, StoreSeen, SameSeen
    <3>4. QED
      BY <3>2, <3>3
  <2>6. ASSUME NEW w \in Wires, PullDeps(w) PROVE EnablesOK'
    BY <1>2, <2>6, SameSeen DEF PullDeps
  <2>7. ASSUME NEW w \in Wires, EvalWire(w) PROVE EnablesOK'
    <3>1. /\ UNCHANGED <<pc, cur, prev, demandGen, pgGen, demand, pg, weAny, we>>
          /\ ok' = [ok EXCEPT ![w] = pg[Part[w]]]
      BY <2>7 DEF EvalWire
    <3>2. Seen' = Seen /\ (Scanned' => Scanned)
      BY <3>1, SameSeen DEF Scanned
    <3>3. StaleIn(EnWires \cup EnTempWires) = {} => StaleIn(EnWires \cup EnTempWires)' = {}
      BY <3>1 DEF StaleIn, Stale, OtherTypes
    <3>4. QED
      BY <3>1, <3>2, <3>3 DEF EnablesOK, AllOff
  <2>8. CASE \/ PokeDone \/ EvalReturn \/ Posedge \/ AssertThrow \/ StartDispatch \/ NextWord
             \/ NextSum \/ EnterHold \/ TakeBranch \/ LeaveWord
    <3>1. /\ UNCHANGED <<demandGen, pgGen, demand, ok, pg, weAny, we, cur, prev>>
          /\ pc' # "ports"
      BY <2>8 DEF PokeDone, EvalReturn, Posedge, AssertThrow, StartDispatch, NextWord,
         NextSum, EnterHold, TakeBranch, LeaveWord, Dispatched, Resume
    <3>2. pc \in Late => pc' \in Late
      BY <2>8 DEF PokeDone, EvalReturn, Posedge, AssertThrow, StartDispatch, NextWord,
         NextSum, EnterHold, TakeBranch, LeaveWord, Dispatched
    <3>3. QED
      BY <1>2, <3>1, <3>2, SameSeen
  <2>9. CASE RunHold
    <3>1. /\ pc = "hold" /\ pc' = "word"
          /\ UNCHANGED <<demandGen, pgGen, demand, ok, pg, weAny, we, cur, prev>>
      BY <2>9 DEF RunHold
    <3>2. QED
      BY <1>2, <3>1, SameSeen
  <2>10. CASE CapturePorts \/ CommitDone \/ StoreDone
    <3>1. /\ UNCHANGED <<demandGen, pgGen, demand, ok, pg, weAny, we, cur, prev>>
          /\ pc \notin Late /\ pc' # "ports"
      BY <2>10 DEF CapturePorts, CommitDone, StoreDone
    <3>2. QED
      BY <1>2, <3>1, SameSeen
  <2>11. QED
    BY <1>6, <2>1, <2>2, <2>3, <2>4, <2>5, <2>6, <2>7, <2>8, <2>9, <2>10 DEF KernelNext
<1>7. CASE UNCHANGED vars
  BY <1>2, <1>7, SameSeen DEF vars
<1>8. QED
  BY <1>5, <1>6, <1>7 DEF Next
-----------------------------------------------------------------------------
(***************************************************************************)
(* A hold left asleep would assign nothing new.                            *)
(***************************************************************************)
LEMMA DoesTypes ==
    ASSUME NEW s \in State, NEW h \in Holds
    PROVE  /\ DOMAIN Does(h, s) \subseteq Regs
           /\ \A r \in DOMAIN Does(h, s) : Does(h, s)[r] \in Val
BY SettledFacts, NetlistAssumption DEF Does

(* With its gates and its branch settled, a hold does what it would do in  *)
(* the settled state.                                                      *)
LEMMA HoldAgrees ==
    ASSUME OtherTypes, CacheFresh, inited, Poked, NEW h \in Holds,
           StaleIn(GateReads[h]) = {}, StaleIn(BranchReads(h, Now)) = {}
    PROVE  HoldFn(h, Now) = Does(h, Seen)
<1> DEFINE G == GateReads[h]
           E == Settled(Seen)
           B == BranchReads(h, Now)
<1>1. Now \in Env /\ E \in Env
  BY NowIsEnv, SeenIsState, SettledFacts DEF OtherTypes
<1>2. G \in SUBSET Wires /\ B \in SUBSET Wires
  BY <1>1, PlanTypes
<1>3. Mask(Now, G) = Mask(E, G)
  BY <1>2, FreshMask
<1>4. BranchReads(h, E) = B
  <2>1. BranchReads(h, Now) = BranchReads(h, Mask(Now, G))
    BY <1>1, ReadsSound
  <2>2. BranchReads(h, E) = BranchReads(h, Mask(E, G))
    BY <1>1, ReadsSound
  <2>3. QED
    BY <1>3, <2>1, <2>2
<1>5. StaleIn(G \cup B) = {}
  BY DEF StaleIn
<1>6. Mask(Now, G \cup B) = Mask(E, G \cup B)
  BY <1>2, <1>5, FreshMask
<1>7. HoldFn(h, Now) = HoldFn(h, Mask(Now, G \cup B))
  BY <1>1, ReadsSound
<1>8. HoldFn(h, E) = HoldFn(h, Mask(E, G \cup BranchReads(h, E)))
  BY <1>1, ReadsSound
<1>9. QED
  BY <1>4, <1>6, <1>7, <1>8 DEF Does

(* The body of the hold that is running, in terms of the settled state.    *)
LEMMA RunDoes ==
    ASSUME OtherTypes, Cursor, Phases, CacheFresh, Waits, flags = list, RunHold
    PROVE  LET a == Does(hold, Seen)
               moved == {r \in DOMAIN a : r \in Arrays \/ a[r] # cur[r]}
           IN  /\ hold \in Holds /\ pc = "hold" /\ pc' = "word"
               /\ nxt' = [r \in Regs |-> IF r \in DOMAIN a THEN a[r] ELSE nxt[r]]
               /\ flags' = list' /\ Dirty' = Dirty \cup moved
               /\ busy' = IF moved = {} THEN busy ELSE busy \cup {hold}
               /\ UNCHANGED <<cur, prev, inited, need, scanVars>>
<1> DEFINE a == Does(hold, Seen)
           moved == {r \in DOMAIN a \cap Scalars : a[r] # cur[r]}
           arrays == DOMAIN a \cap Arrays
<1>1. pc = "hold" /\ pc' = "word" /\ hold \in Holds /\ inited /\ Poked /\ want = {}
  BY DEF RunHold, Cursor, Phases
<1>2. HoldFn(hold, Now) = a
  <2>1. StaleIn(GateReads[hold]) = {} /\ StaleIn(BranchReads(hold, Now)) = {}
    BY <1>1 DEF Waits, RunHold
  <2>2. QED
    BY <1>1, <2>1, HoldAgrees
<1>3. DOMAIN a \subseteq Regs
  BY <1>1, SeenIsState, DoesTypes
<1> HIDE DEF a
<1>4. /\ nxt' = [r \in Regs |-> IF r \in DOMAIN a THEN a[r] ELSE nxt[r]]
      /\ flags' = flags \cup moved /\ list' = list \cup (moved \ flags)
      /\ ac' = ac \cup arrays
      /\ busy' = IF moved \cup arrays = {} THEN busy ELSE busy \cup {hold}
  BY <1>2 DEF RunHold
<1>5. UNCHANGED <<cur, prev, inited, need, scanVars>>
  BY DEF RunHold, hostVars
<1>6. flags' = list' /\ Dirty' = Dirty \cup (moved \cup arrays)
  BY <1>4 DEF Dirty
<1>7. moved \cup arrays = {r \in DOMAIN a : r \in Arrays \/ a[r] # cur[r]}
  BY <1>3 DEF Scalars
<1>8. QED
  BY <1>1, <1>4, <1>5, <1>6, <1>7 DEF a

LEMMA BumpMarks ==
    ASSUME NEW x \in Sigs, Bump(x) \/ BumpOnce(x)
    PROVE  need' = need \cup LeafHolds[x] /\ busy' = busy
BY DEF Bump, BumpOnce, BumpAll, Wake

LEMMA UnwokenStays ==
    ASSUME NEW s \in State, NEW x \in Sigs, NEW v \in Val, NEW h \in Holds,
           h \notin LeafHolds[x]
    PROVE  /\ Does(h, [s EXCEPT ![x] = v]) = Does(h, s)
           /\ NoOpAt(h, s) /\ x \notin DOMAIN Does(h, s) => NoOpAt(h, [s EXCEPT ![x] = v])
<1>1. Does(h, [s EXCEPT ![x] = v]) = Does(h, s)
  BY WakesSound DEF Does
<1>2. DOMAIN Does(h, s) \subseteq Sigs
  BY DoesTypes DEF Sigs
<1>3. QED
  BY <1>1, <1>2 DEF NoOpAt, State

LEMMA SleepStep ==
    ASSUME OtherTypes, HoldsOK, Cursor, Phases, CacheFresh, Waits, SleepOK, StagingOK,
           [Next]_vars
    PROVE  SleepOK'
<1> USE DEF hostVars, cacheVars, pageVars, holdVars, scanVars, stageVars, memVars
<1>1. Seen \in State
  BY SeenIsState
<1>2. ASSUME Seen' = Seen, UNCHANGED <<need, busy, inited>>, pc # "hold" \/ UNCHANGED <<pc, hold>>,
             pc' = "commit" => pc = "commit" /\ UNCHANGED <<cur, nxt>> /\ todo' \subseteq todo
      PROVE  SleepOK'
  BY <1>2 DEF SleepOK, Marked, Running
(* One element moves, wakes what it may, and no sleeping hold assigns it.  *)
<1>3. ASSUME NEW x \in Sigs, NEW v \in Val, SeesChange(x, v),
             need' = need \cup LeafHolds[x], UNCHANGED <<busy, inited>>,
             pc # "hold", pc' = pc,
             \A h \in Holds : Marked(h) \/ x \notin DOMAIN Does(h, Seen),
             pc = "commit" => /\ nxt' = nxt /\ todo' \subseteq todo
                              /\ \A r \in todo' : cur'[r] = cur[r]
      PROVE  SleepOK'
  <2>1. ASSUME NEW h \in Holds, h \notin need' \cup busy'
        PROVE  ~Marked(h) /\ NoOpAt(h, Seen') /\ Does(h, Seen') = Does(h, Seen)
    <3>1. h \notin LeafHolds[x] /\ ~Marked(h)
      BY <1>3, <2>1 DEF Marked
    <3>2. NoOpAt(h, Seen) /\ x \notin DOMAIN Does(h, Seen)
      BY <1>3, <3>1 DEF SleepOK, Running
    <3>3. QED
      BY <1>1, <1>3, <3>1, <3>2, UnwokenStays DEF SeesChange
  <2>2. QED
    BY <1>3, <2>1 DEF SleepOK, Marked, Running
<1>4. CASE HostNext
  <2>1. ASSUME NEW i \in Inputs, NEW v \in Val, DriveInput(i, v) PROVE SleepOK'
    <3>1. UNCHANGED <<pc, need, busy, inited>> /\ pc = "idle"
      BY <2>1 DEF DriveInput
    <3>2. CASE Seen' = Seen
      BY <1>2, <3>1, <3>2
    <3>3. CASE LeafHolds[i] = {} /\ SeesChange(i, v)
      <4>1. i \in Sigs /\ i \notin Regs
        BY NetlistAssumption DEF Sigs
      <4>2. \A h \in Holds : i \notin DOMAIN Does(h, Seen)
        BY <1>1, <4>1, DoesTypes
      <4>3. QED
        BY <1>3, <3>1, <3>3, <4>1, <4>2
    <3>4. QED
      BY <2>1, <3>2, <3>3, DriveSeen
  <2>2. CASE AnnounceFresh \/ TickNba \/ \E w \in Outputs : EvalOutput(w)
    BY <1>2, <2>2, SameSeen DEF AnnounceFresh, TickNba, EvalOutput
  <2>3. CASE Poke \/ Tick
    <3>1. /\ UNCHANGED <<need, busy, cur>> /\ EnterPoke /\ pc = "idle"
          /\ pc' \in {"idle", "posedge", "poke"}
      BY <2>3 DEF Poke, Tick, EnterPoke, Resume
    <3>2. CASE inited
      <4>1. UNCHANGED <<prev, inited>>
        BY <3>1, <3>2 DEF EnterPoke
      <4>2. QED
        BY <1>2, <3>1, <4>1, SameSeen
    <3>3. CASE ~inited
      BY <3>1, <3>3 DEF SleepOK, Marked
    <3>4. QED
      BY <3>2, <3>3
  <2>4. CASE ForceWakeAll
    BY <2>4 DEF ForceWakeAll, SleepOK, Marked
  <2>5. QED
    BY <1>4, <2>1, <2>2, <2>3, <2>4 DEF HostNext
<1>5. CASE KernelNext
  <2>1. ASSUME NEW i \in UsedInputs, PokeInput(i) PROVE SleepOK'
    <3>1. UNCHANGED <<pc, inited>> /\ pc = "poke"
      BY <2>1 DEF PokeInput
    <3>2. i \in Sigs /\ i \notin Regs
      BY NetlistAssumption DEF Sigs, UsedInputs
    <3>3. \A h \in Holds : i \notin DOMAIN Does(h, Seen)
      BY <1>1, <3>2, DoesTypes
    <3>4. need' = need \cup LeafHolds[i] /\ busy' = busy
      BY <2>1, PokeSeen, BumpMarks
    <3>5. cur[i] \in Val /\ SeesChange(i, cur[i])
      BY <2>1, PokeSeen
    <3>6. QED
      BY <1>3, <3>1, <3>2, <3>3, <3>4, <3>5
  <2>2. CASE EnterHold
    <3>1. /\ UNCHANGED <<cur, prev, inited>> /\ pc = "word" /\ pc' = "hold"
          /\ need' = need \ {hold'} /\ busy' = busy \ {hold'}
      BY <2>2 DEF EnterHold
    <3>2. inited /\ Seen' = Seen
      BY <3>1, SameSeen DEF Phases
    <3>3. QED
      BY <3>1, <3>2 DEF SleepOK, Marked, Running
  <2>3. CASE RunHold
    <3> DEFINE a == Does(hold, Seen)
               moved == {r \in DOMAIN a : r \in Arrays \/ a[r] # cur[r]}
    <3>1. /\ hold \in Holds /\ pc = "hold" /\ pc' = "word"
          /\ UNCHANGED <<cur, prev, inited, need>>
          /\ busy' = IF moved = {} THEN busy ELSE busy \cup {hold}
      BY <2>3, RunDoes DEF StagingOK
    <3>2. Seen' = Seen /\ inited
      BY <3>1, SameSeen DEF Phases
    <3>3. moved = {} => NoOpAt(hold, Seen)
      <4>1. DOMAIN a \subseteq Regs
        BY <1>1, <3>1, DoesTypes
      <4>2. QED
        BY <4>1, SeenIsCurrent DEF NoOpAt
    <3> HIDE DEF moved
    <3>4. QED
      BY <3>1, <3>2, <3>3 DEF SleepOK, Marked, Running
  <2>4. CASE CapturePorts
    <3>1. /\ UNCHANGED <<cur, prev, inited, need, busy, nxt>>
          /\ pc = "ports" /\ pc' = "commit" /\ todo' = Dirty
      BY <2>4 DEF CapturePorts, Dirty
    <3>2. Seen' = Seen
      BY <3>1, SameSeen
    <3>3. ASSUME NEW h \in Holds, NEW r \in Dirty, ~Marked(h), r \in DOMAIN Does(h, Seen)
          PROVE  nxt[r] = cur[r]
      <4>1. NoOpAt(h, Seen) /\ Staged(h)
        BY <3>1, <3>3 DEF SleepOK, StagingOK, Running
      <4>2. r \in Regs
        BY <1>1, <3>3, DoesTypes
      <4>3. QED
        BY <3>3, <4>1, <4>2, SeenIsCurrent DEF NoOpAt, Staged
    <3>4. QED
      BY <3>1, <3>2, <3>3 DEF SleepOK, Marked, Running
  <2>5. ASSUME NEW r \in Regs, CommitReg(r) PROVE SleepOK'
    <3>1. /\ UNCHANGED <<pc, inited, nxt>> /\ pc = "commit"
          /\ r \in todo /\ todo' = todo \ {r}
      BY <2>5 DEF CommitReg
    <3>2. CASE nxt[r] = cur[r]
      <4>1. UNCHANGED <<cur, prev, need, busy>>
        BY <2>5, <3>2, CommitSeen
      <4>2. QED
        BY <1>2, <3>1, <4>1, SameSeen
    <3>3. CASE nxt[r] # cur[r]
      <4>1. /\ r \in Sigs /\ nxt[r] \in Val /\ SeesChange(r, nxt[r])
            /\ cur' = [cur EXCEPT ![r] = nxt[r]]
            /\ need' = need \cup LeafHolds[r] /\ busy' = busy
        BY <2>5, <3>3, CommitSeen, BumpMarks
      <4>2. \A h \in Holds : Marked(h) \/ r \notin DOMAIN Does(h, Seen)
        BY <3>1, <3>3 DEF SleepOK
      <4>3. \A q \in todo' : cur'[q] = cur[q]
        BY <3>1, <4>1 DEF OtherTypes, State
      <4>4. QED
        BY <1>3, <3>1, <4>1, <4>2, <4>3
    <3>4. QED
      BY <3>2, <3>3
  <2>6. CASE StorePort
    <3>1. UNCHANGED <<pc, inited>> /\ pc = "store"
      BY <2>6 DEF StorePort
    <3>2. CASE ~(we[port] /\ cur[wa[port]] # wd[port])
      <4>1. UNCHANGED <<cur, prev, need, busy>>
        BY <2>6, <3>2, StoreSeen
      <4>2. QED
        BY <1>2, <3>1, <4>1, SameSeen
    <3>3. CASE we[port] /\ cur[wa[port]] # wd[port]
      <4>1. /\ wa[port] \in Sigs /\ wa[port] \in Cells /\ wd[port] \in Val
            /\ SeesChange(wa[port], wd[port])
            /\ need' = need \cup LeafHolds[wa[port]] /\ busy' = busy
        BY <2>6, <3>3, StoreSeen, BumpMarks
      <4>2. \A h \in Holds : wa[port] \notin DOMAIN Does(h, Seen)
        BY <1>1, <4>1, DoesTypes, NetlistAssumption
      <4>3. QED
        BY <1>3, <3>1, <4>1, <4>2
    <3>4. QED
      BY <3>2, <3>3
  <2>7. CASE \E w \in Wires : PullDeps(w) \/ EvalWire(w)
    <3>1. UNCHANGED <<cur, prev, need, busy, inited, pc, hold, nxt, todo>>
      BY <2>7 DEF PullDeps, EvalWire
    <3>2. QED
      BY <1>2, <3>1, SameSeen
  <2>8. CASE \/ PokeDone \/ EvalReturn \/ Posedge \/ AssertThrow \/ AssertPass \/ StartDispatch
             \/ NextWord \/ NextSum \/ TakeBranch \/ LeaveWord \/ Prepare \/ CommitDone
             \/ StoreDone
    <3>1. /\ UNCHANGED <<cur, prev, need, busy, inited>> /\ pc' # "commit"
          /\ pc # "hold" \/ UNCHANGED <<pc, hold>>
      BY <2>8 DEF PokeDone, EvalReturn, Posedge, AssertThrow, AssertPass, StartDispatch,
         NextWord, NextSum, TakeBranch, LeaveWord, Prepare, CommitDone, StoreDone,
         Dispatched, Resume
    <3>2. QED
      BY <1>2, <3>1, SameSeen
  <2>9. QED
    BY <1>5, <2>1, <2>2, <2>3, <2>4, <2>5, <2>6, <2>7, <2>8 DEF KernelNext
<1>6. CASE UNCHANGED vars
  BY <1>2, <1>6, SameSeen DEF vars
<1>7. QED
  BY <1>4, <1>5, <1>6 DEF Next
-----------------------------------------------------------------------------
(***************************************************************************)
(* Every hold has staged what it does, or lies ahead of the cursors.       *)
(***************************************************************************)
LEMMA MarkedIsArmed ==
    ASSUME HoldsOK, NEW h \in Holds, Marked(h)
    PROVE  WordOf(h) \in hAny
BY DEF HoldsOK, PendingHoldIsArmed, Marked

LEMMA NoWordNoHold ==
    ASSUME HoldsOK, hWords = 0, NEW h \in Holds
    PROVE  ~Marked(h)
<1>1. Sums(hAny) = {}
  BY SumsFinite, FS_EmptySet DEF HoldsOK, PendingHoldIsArmed, Sums
<1>2. hAny = {}
  BY <1>1 DEF Sums
<1>3. QED
  BY <1>2, MarkedIsArmed

LEMMA StagingStep ==
    ASSUME ExclusiveWriters, OtherTypes, HoldsOK, Cursor, Phases, CacheFresh, Waits,
           SleepOK, StagingOK, [Next]_vars
    PROVE  StagingOK'
<1> USE DEF hostVars, cacheVars, pageVars, holdVars, scanVars, stageVars, memVars
<1>1. Seen \in State
  BY SeenIsState
<1>2. CASE flags' = list' /\ pc' \notin {"scan", "word", "hold", "prepare", "ports"}
  BY <1>2 DEF StagingOK, Dispatching
(* Nothing staged, nothing seen, and no hold loses its place.              *)
<1>3. ASSUME UNCHANGED <<cur, prev, flags, list, ac, nxt>>,
             pc \in {"scan", "word", "hold"}, pc' \in {"scan", "word", "hold"},
             \A h \in Holds : Running(h) \/ ToCome(h) => Running(h)' \/ ToCome(h)'
      PROVE  StagingOK'
  <2>1. Seen' = Seen
    BY <1>3, SameSeen
  <2>2. QED
    BY <1>3, <2>1 DEF StagingOK, Dispatching, Staged, Dirty
<1>4. ASSUME UNCHANGED <<cur, prev, flags, list, ac, nxt>>,
             pc \in {"scan", "word", "hold", "prepare", "ports"}, pc' \in {"prepare", "ports"},
             \A h \in Holds : Staged(h)
      PROVE  StagingOK'
  <2>1. Seen' = Seen
    BY <1>4, SameSeen
  <2>2. QED
    BY <1>4, <2>1 DEF StagingOK, Dispatching, Staged, Dirty
<1>5. CASE StartDispatch
  <2>1. /\ UNCHANGED <<cur, prev, need, busy>> /\ pc = "demand"
        /\ flags' = {} /\ list' = {} /\ ac' = {}
    BY <1>5 DEF StartDispatch, StagingOK
  <2>2. Seen' = Seen
    BY <2>1, SameSeen
  <2>3. ASSUME NEW h \in Holds, ~Marked(h)
        PROVE  Staged(h)'
    <3>1. NoOpAt(h, Seen)
      BY <2>1, <2>3 DEF SleepOK, Running
    <3>2. \A r \in DOMAIN Does(h, Seen) : Does(h, Seen)[r] = cur[r]
      BY <1>1, <3>1, DoesTypes, SeenIsCurrent DEF NoOpAt
    <3>3. QED
      BY <2>1, <2>2, <3>2 DEF Staged, Dirty
  <2>4. CASE hWords = 0
    <3>1. pc' = "prepare"
      BY <1>5, <2>4 DEF StartDispatch, Dispatched
    <3>2. \A h \in Holds : Staged(h)'
      BY <2>3, <2>4, NoWordNoHold
    <3>3. QED
      BY <2>1, <3>1, <3>2 DEF StagingOK, Dispatching, Dirty
  <2>5. CASE hWords # 0
    <3>1. pc' = "scan" /\ sw' = 0 /\ swBits' = {w \in hAny : SumOf(w) = 0}
      BY <1>5, <2>5 DEF StartDispatch, LiveWords
    <3>2. ASSUME NEW h \in Holds, Marked(h)
          PROVE  ToCome(h)'
      <4>1. WordOf(h) \in hAny /\ SumOf(WordOf(h)) \in 0 .. NSums - 1
        BY <3>2, MarkedIsArmed, SumOfHold
      <4>2. SumOf(WordOf(h)) = 0 \/ 0 < SumOf(WordOf(h))
        BY <4>1, WordRange
      <4>3. QED
        BY <2>1, <3>1, <3>2, <4>1, <4>2 DEF ToCome, Marked, SumOf, WordOf
    <3>3. QED
      BY <2>1, <2>3, <3>1, <3>2 DEF StagingOK, Dispatching, Dirty
  <2>6. QED
    BY <2>4, <2>5
<1>6. CASE NextWord
  <2>1. swBits \in SUBSET Nat /\ swBits # {}
    BY <1>6, WordRange, PlanTypes DEF NextWord, SumBits, OtherTypes
  <2>2. Least(swBits) \in swBits /\ \A k \in swBits : Least(swBits) <= k
    BY <2>1, LeastElement
  <2>3. UNCHANGED <<cur, prev, flags, list, ac, nxt, need, busy, sw>> /\ pc = "scan"
    BY <1>6 DEF NextWord
  <2>4. CASE Least(swBits) >= NWords
    <3>1. pc' = "scan" /\ swBits' = {}
      BY <1>6, <2>4 DEF NextWord
    <3>2. ASSUME NEW h \in Holds, WordOf(h) \in swBits
          PROVE  FALSE
      <4>1. WordOf(h) \in 0 .. NWords - 1
        BY SumOfHold
      <4>2. Least(swBits) <= WordOf(h) /\ Least(swBits) \in Nat
        BY <2>1, <2>2, <3>2
      <4>3. QED
        BY <4>1, <4>2, <2>4, WordRange
    <3>3. \A h \in Holds : Running(h) \/ ToCome(h) => ToCome(h)'
      BY <2>3, <3>1, <3>2 DEF Running, ToCome, Marked, WordOf, SumOf
    <3>4. QED
      BY <1>3, <2>3, <3>1, <3>3
  <2>5. CASE ~(Least(swBits) >= NWords)
    <3>1. /\ pc' = "word" /\ swBits' = swBits \ {Least(swBits)}
          /\ bits' = {h \in (need \cup busy) \cap Holds : WordOf(h) = Least(swBits)}
      BY <1>6, <2>5 DEF NextWord
    <3>2. \A h \in Holds : Running(h) \/ ToCome(h) => ToCome(h)'
      BY <2>3, <3>1 DEF Running, ToCome, Marked, WordOf, SumOf
    <3>3. QED
      BY <1>3, <2>3, <3>1, <3>2
  <2>6. QED
    BY <2>4, <2>5
<1>7. CASE NextSum
  <2>1. UNCHANGED <<cur, prev, flags, list, ac, nxt, need, busy>> /\ pc = "scan" /\ swBits = {}
    BY <1>7 DEF NextSum
  <2>2. ASSUME NEW h \in Holds, Running(h) \/ ToCome(h)
        PROVE  /\ WordOf(h) \in hAny /\ Marked(h)
               /\ sw < SumOf(WordOf(h)) /\ SumOf(WordOf(h)) \in 0 .. NSums - 1
    <3>1. Marked(h) /\ sw < SumOf(WordOf(h))
      BY <2>1, <2>2 DEF Running, ToCome
    <3>2. QED
      BY <3>1, MarkedIsArmed, SumOfHold
  <2>3. CASE sw + 1 < NSums
    <3>1. sw' = sw + 1 /\ pc' = "scan" /\ swBits' = {w \in hAny : SumOf(w) = sw + 1}
      BY <1>7, <2>3 DEF NextSum, LiveWords
    <3>2. ASSUME NEW h \in Holds, Running(h) \/ ToCome(h)
          PROVE  ToCome(h)'
      <4>1. SumOf(WordOf(h)) = sw + 1 \/ sw + 1 < SumOf(WordOf(h))
        BY <2>2, <3>2, WordRange DEF OtherTypes
      <4>2. QED
        BY <2>1, <2>2, <3>1, <3>2, <4>1 DEF ToCome, Marked, WordOf, SumOf
    <3>3. QED
      BY <1>3, <2>1, <3>1, <3>2
  <2>4. CASE ~(sw + 1 < NSums)
    <3>1. pc' = "prepare"
      BY <1>7, <2>4 DEF NextSum, Dispatched
    <3>2. \A h \in Holds : ~(Running(h) \/ ToCome(h))
      BY <2>2, <2>4, WordRange DEF OtherTypes
    <3>3. \A h \in Holds : Staged(h)
      BY <2>1, <3>2 DEF StagingOK, Dispatching
    <3>4. QED
      BY <1>4, <2>1, <3>1, <3>3
  <2>5. QED
    BY <2>3, <2>4
<1>8. CASE EnterHold
  <2>1. /\ UNCHANGED <<cur, prev, flags, list, ac, nxt, swBits, sw>>
        /\ pc = "word" /\ pc' = "hold" /\ bits' = bits \ {hold'}
        /\ need' = need \ {hold'} /\ busy' = busy \ {hold'}
    BY <1>8 DEF EnterHold
  <2>2. \A h \in Holds : Running(h) \/ ToCome(h) => Running(h)' \/ ToCome(h)'
    BY <2>1 DEF Running, ToCome, Marked, WordOf, SumOf
  <2>3. QED
    BY <1>3, <2>1, <2>2
<1>9. CASE RunHold
  <2> DEFINE a == Does(hold, Seen)
             moved == {r \in DOMAIN a : r \in Arrays \/ a[r] # cur[r]}
  <2>1. /\ hold \in Holds /\ pc = "hold" /\ pc' = "word"
        /\ nxt' = [r \in Regs |-> IF r \in DOMAIN a THEN a[r] ELSE nxt[r]]
        /\ flags' = list' /\ Dirty' = Dirty \cup moved
        /\ busy' = IF moved = {} THEN busy ELSE busy \cup {hold}
        /\ UNCHANGED <<cur, prev, need, scanVars>>
    BY <1>9, RunDoes DEF StagingOK
  <2>2. Seen' = Seen
    BY <2>1, SameSeen
  <2>3. DOMAIN a \subseteq Regs
    BY <1>1, <2>1, DoesTypes
  <2>4. \A r \in DOMAIN a : a[r] = IF r \in Dirty' THEN nxt'[r] ELSE cur[r]
    BY <2>1, <2>3
  <2>5. ASSUME NEW h \in Holds, h # hold, Staged(h)
        PROVE  \A r \in DOMAIN Does(h, Seen) :
                  Does(h, Seen)[r] = IF r \in Dirty' THEN nxt'[r] ELSE cur[r]
    <3> TAKE r \in DOMAIN Does(h, Seen)
    <3>1. r \in Regs
      BY <1>1, DoesTypes
    <3>2. r \notin DOMAIN a
      BY <1>1, <2>1, <2>5, <3>1 DEF ExclusiveWriters, Does
    <3>3. (r \in Dirty' <=> r \in Dirty) /\ nxt'[r] = nxt[r]
      BY <2>1, <3>1, <3>2
    <3>4. QED
      BY <2>5, <3>3 DEF Staged
  <2>6. \A h \in Holds : h # hold /\ ToCome(h) => ToCome(h)'
    BY <2>1 DEF ToCome, Marked, WordOf, SumOf
  <2>7. ASSUME NEW h \in Holds
        PROVE  ToCome(h)' \/ \A r \in DOMAIN Does(h, Seen) :
                  Does(h, Seen)[r] = IF r \in Dirty' THEN nxt'[r] ELSE cur[r]
    <3>1. CASE h = hold
      BY <2>4, <3>1
    <3>2. CASE h # hold
      <4>1. Staged(h) \/ ToCome(h)
        BY <2>1, <3>2 DEF StagingOK, Dispatching, Running
      <4>2. QED
        BY <2>5, <2>6, <3>2, <4>1
    <3>3. QED
      BY <3>1, <3>2
  <2>8. ASSUME NEW r \in Dirty'
        PROVE  \E h \in Holds : r \in DOMAIN Does(h, Seen)
    <3>1. r \in Dirty \/ r \in DOMAIN a
      BY <2>1, <2>8
    <3>2. QED
      BY <2>1, <3>1 DEF StagingOK, Dispatching
  <2> HIDE DEF a, moved
  <2>9. \A h \in Holds : Staged(h)' \/ ToCome(h)'
    BY <2>1, <2>2, <2>7 DEF Staged
  <2>10. QED
    BY <2>1, <2>2, <2>8, <2>9 DEF StagingOK, Dispatching
<1>10. CASE LeaveWord
  <2>1. /\ UNCHANGED <<cur, prev, flags, list, ac, nxt, need, busy, scanVars>>
        /\ pc = "word" /\ pc' = "scan" /\ bits = {}
    BY <1>10 DEF LeaveWord
  <2>2. \A h \in Holds : Running(h) \/ ToCome(h) => Running(h)' \/ ToCome(h)'
    BY <2>1 DEF Running, ToCome, Marked, WordOf, SumOf
  <2>3. QED
    BY <1>3, <2>1, <2>2
<1>11. CASE Prepare
  BY <1>4, <1>11 DEF Prepare, StagingOK
<1>12. CASE UNCHANGED <<pc, cur, prev, flags, list, ac, nxt, need, busy, scanVars>>
  <2>1. Seen' = Seen
    BY <1>12, SameSeen
  <2>2. QED
    BY <1>12, <2>1 DEF StagingOK, Dispatching, Staged, Dirty, Running, ToCome, Marked,
       WordOf, SumOf
<1>13. CASE HostNext
  BY <1>2, <1>13 DEF HostNext, DriveInput, AnnounceFresh, Poke, Tick, TickNba, ForceWakeAll,
     EvalOutput, EnterPoke, Resume, StagingOK
<1>14. CASE KernelNext
  <2>1. CASE \E i \in UsedInputs : PokeInput(i)
    BY <1>2, <2>1 DEF PokeInput, StagingOK
  <2>2. CASE \E w \in Wires : PullDeps(w) \/ EvalWire(w)
    BY <1>12, <2>2 DEF PullDeps, EvalWire
  <2>3. CASE \E r \in Regs : CommitReg(r)
    BY <1>2, <2>3 DEF CommitReg, StagingOK
  <2>4. CASE \/ PokeDone \/ EvalReturn \/ Posedge \/ AssertThrow \/ AssertPass \/ CapturePorts
             \/ CommitDone \/ StorePort \/ StoreDone
    BY <1>2, <2>4 DEF PokeDone, EvalReturn, Posedge, AssertThrow, AssertPass, CapturePorts,
       CommitDone, StorePort, StoreDone, Resume, StagingOK
  <2>5. CASE TakeBranch
    BY <1>12, <2>5 DEF TakeBranch
  <2>6. QED
    BY <1>5, <1>6, <1>7, <1>8, <1>9, <1>10, <1>11, <1>14, <2>1, <2>2, <2>3, <2>4, <2>5
    DEF KernelNext
<1>15. CASE UNCHANGED vars
  BY <1>12, <1>15 DEF vars
<1>16. QED
  BY <1>13, <1>14, <1>15 DEF Next
-----------------------------------------------------------------------------
(***************************************************************************)
(* The edge: what has been staged is the reference's next state.           *)
(***************************************************************************)
Last(S) == CHOOSE j \in S : \A k \in S : k <= j

LEMMA LastPort ==
    ASSUME NEW S \in SUBSET Ports, S # {}
    PROVE  Last(S) \in S /\ \A k \in S : k <= Last(S)
<1> DEFINE T == {NPorts - j : j \in S}
<1>0. NPorts \in Nat /\ \A j \in S : j \in 1 .. NPorts
  BY NetlistAssumption DEF Ports
<1>1. T \in SUBSET Nat /\ T # {}
  BY <1>0
<1>2. Least(T) \in T /\ \A k \in T : Least(T) <= k
  BY <1>1, LeastElement
<1>3. PICK j \in S : Least(T) = NPorts - j
  BY <1>2
<1>4. ASSUME NEW k \in S
      PROVE  k <= j
  <2>1. NPorts - j <= NPorts - k
    BY <1>2, <1>3
  <2>2. QED
    BY <1>0, <2>1
<1>5. QED
  BY <1>4 DEF Last

LEMMA LastIs ==
    ASSUME NEW S \in SUBSET Ports, NEW j \in S, \A k \in S : k <= j
    PROVE  Last(S) = j
<1>1. Last(S) \in S /\ \A k \in S : k <= Last(S)
  BY LastPort
<1>2. j <= Last(S) /\ Last(S) <= j
  BY <1>1
<1>3. j \in Nat /\ Last(S) \in Nat
  <2>1. \A k \in Ports : k \in Nat
    BY NetlistAssumption DEF Ports
  <2>2. QED
    BY <1>1, <2>1
<1>4. QED
  BY <1>2, <1>3

(* AbsState element by element.                                            *)
AbsElements ==
    /\ AbsState = [x \in Sigs |-> AbsState[x]]
    /\ \A x \in Inputs : AbsState[x] = Seen[x]
    /\ \A x \in Regs : AbsState[x] = IF pc = "commit" /\ x \in todo THEN nxt[x] ELSE cur[x]
    /\ \A x \in Cells : AbsState[x] = IF Edge /\ Pending(x) # {} THEN wd[Last(Pending(x))]
                                                              ELSE cur[x]
LEMMA AbsAt == AbsElements
BY NetlistAssumption DEF AbsElements, AbsState, Sigs, Last

LEMMA SameElements ==
    ASSUME NEW f, NEW g, f = [x \in Sigs |-> f[x]], g = [x \in Sigs |-> g[x]],
           \A x \in Inputs : f[x] = g[x], \A x \in Regs : f[x] = g[x],
           \A x \in Cells : f[x] = g[x]
    PROVE  f = g
BY DEF Sigs

(* With nothing left to copy, the abstract state is the one seen.          *)
LEMMA AbsIsSeen ==
    ASSUME pc = "commit" => todo = {}, Edge => \A c \in Cells : Pending(c) = {}
    PROVE  AbsState = Seen
<1>1. Seen = [x \in Sigs |-> Seen[x]]
  BY DEF Seen
<1>2. \A x \in Regs : AbsState[x] = Seen[x]
  BY AbsAt, SeenIsCurrent DEF AbsElements
<1>3. \A x \in Cells : AbsState[x] = Seen[x]
  BY AbsAt, SeenIsCurrent DEF AbsElements
<1>4. QED
  BY <1>1, <1>2, <1>3, AbsAt, SameElements DEF AbsElements

(* One writer per register: what it staged is the register's next value.   *)
LEMMA StagedIsNext ==
    ASSUME ExclusiveWriters, OtherTypes, NEW r \in Regs,
           \A h \in Holds : Staged(h),
           r \in Dirty => \E h \in Holds : r \in DOMAIN Does(h, Seen)
    PROVE  NextReg(r, Settled(Seen)) = IF r \in Dirty THEN nxt[r] ELSE cur[r]
<1> DEFINE E == Settled(Seen)
<1>1. Seen \in State /\ E[r] = cur[r]
  BY SeenIsState, SettledFacts, SeenIsCurrent
<1>2. \A h \in Holds : Does(h, Seen) = HoldFn(h, E)
  BY DEF Does
<1>3. CASE \E h \in Holds : r \in DOMAIN HoldFn(h, E)
  BY <1>1, <1>2, <1>3, SoleWriter DEF Staged
<1>4. CASE ~ \E h \in Holds : r \in DOMAIN HoldFn(h, E)
  BY <1>1, <1>2, <1>4 DEF NextReg, Writers
<1>5. QED
  BY <1>3, <1>4

(* The last enabled port at a cell, as captured, decides its next value.   *)
LEMMA CapturedIsNext ==
    ASSUME OtherTypes, Phases, CacheFresh, Waits, GenOK, EnablesOK, CapturePorts,
           NEW c \in Cells
    PROVE  LET P == Pending(c)'
           IN  NextCell(c, Settled(Seen)) = IF P = {} THEN cur[c] ELSE wd'[Last(P)]
<1> DEFINE E == Settled(Seen)
           P == {j \in Ports : weAny /\ we[j] /\ wa'[j] = c}
<1>1. /\ pc = "ports" /\ want = {} /\ inited /\ Poked
      /\ port' = 1 /\ UNCHANGED <<weAny, we>>
      /\ wa' = [j \in Ports |-> IF weAny /\ we[j] THEN AddrFn(j, Now) ELSE wa[j]]
      /\ wd' = [j \in Ports |-> IF weAny /\ we[j] THEN DataFn(j, Now) ELSE wd[j]]
  BY DEF CapturePorts, Phases
<1>2. Pending(c)' = P
  BY <1>1, NetlistAssumption DEF Pending, Ports
<1>3. Now \in Env /\ E \in Env /\ E[c] = cur[c]
  BY NowIsEnv, SeenIsState, SettledFacts, SeenIsCurrent DEF OtherTypes
<1>4. ASSUME NEW j \in Ports, weAny, we[j]
      PROVE  AddrFn(j, Now) = AddrFn(j, E) /\ DataFn(j, Now) = DataFn(j, E)
  <2>1. PortReads[j] \in SUBSET Wires /\ StaleIn(PortReads[j]) = {}
    BY <1>1, <1>4, ReadsAreWires DEF Waits
  <2>2. Mask(Now, PortReads[j]) = Mask(E, PortReads[j])
    BY <1>1, <2>1, FreshMask
  <2>3. /\ AddrFn(j, Now) = AddrFn(j, Mask(Now, PortReads[j]))
        /\ DataFn(j, Now) = DataFn(j, Mask(Now, PortReads[j]))
    BY <1>3, ReadsSound
  <2>4. /\ AddrFn(j, E) = AddrFn(j, Mask(E, PortReads[j]))
        /\ DataFn(j, E) = DataFn(j, Mask(E, PortReads[j]))
    BY <1>3, ReadsSound
  <2>5. QED
    BY <2>2, <2>3, <2>4
<1>5. \A j \in Ports : EnFn(j, E) <=> weAny /\ we[j]
  <2>1. CASE weAny
    BY <1>1, <2>1 DEF EnablesOK, OtherTypes
  <2>2. CASE ~weAny
    <3>1. AllOff(Seen)
      BY <1>1, <2>2 DEF EnablesOK, Scanned, GenOK
    <3>2. QED
      BY <2>2, <3>1 DEF AllOff
  <2>3. QED
    BY <2>1, <2>2 DEF OtherTypes
<1>6. Stores(c, E) = P
  <2>1. \A j \in Ports : weAny /\ we[j] => wa'[j] = AddrFn(j, E)
    BY <1>1, <1>4
  <2> HIDE DEF E
  <2>2. QED
    BY <1>5, <2>1 DEF Stores
<1>7. NextCell(c, E) = IF P = {} THEN cur[c] ELSE DataFn(Last(P), E)
  <2>1. NextCell(c, E) = IF Stores(c, E) = {} THEN E[c] ELSE DataFn(Last(Stores(c, E)), E)
    BY DEF NextCell, Last
  <2> HIDE DEF P, E
  <2>2. QED
    BY <1>3, <1>6, <2>1
<1>8. P # {} => wd'[Last(P)] = DataFn(Last(P), E)
  <2>1. SUFFICES ASSUME P # {} PROVE wd'[Last(P)] = DataFn(Last(P), E)
    OBVIOUS
  <2>2. Last(P) \in P
    BY <2>1, LastPort
  <2>3. Last(P) \in Ports /\ weAny /\ we[Last(P)]
    BY <2>2
  <2> HIDE DEF P, E
  <2>4. QED
    BY <1>1, <1>4, <2>3
<1>9. QED
  BY <1>2, <1>7, <1>8

LEMMA CaptureIsEdge ==
    ASSUME ExclusiveWriters, OtherTypes, Phases, CacheFresh, Waits, GenOK, EnablesOK,
           StagingOK, CapturePorts
    PROVE  AbsState' = NextState(Seen) /\ Seen' = Seen /\ AbsState = Seen
<1>1. /\ pc = "ports" /\ pc' = "commit" /\ todo' = Dirty /\ UNCHANGED <<cur, prev, nxt>>
  BY DEF CapturePorts, hostVars, Dirty
<1>2. Seen' = Seen /\ Seen \in State
  BY <1>1, SameSeen, SeenIsState
<1>3. /\ AbsState' = [x \in Sigs |-> AbsState'[x]]
      /\ \A x \in Inputs : AbsState'[x] = Seen'[x]
      /\ \A x \in Regs : AbsState'[x] =
            IF pc' = "commit" /\ x \in todo' THEN nxt'[x] ELSE cur'[x]
      /\ \A x \in Cells : AbsState'[x] =
            IF Edge' /\ Pending(x)' # {} THEN wd'[Last(Pending(x)')] ELSE cur'[x]
  <2>1. AbsElements'
    BY AbsAt, PTL
  <2>2. QED
    BY <2>1 DEF AbsElements
<1>4. \A x \in Regs : AbsState'[x] = NextState(Seen)[x]
  <2> TAKE x \in Regs
  <2>1. AbsState'[x] = IF x \in Dirty THEN nxt[x] ELSE cur[x]
    BY <1>1, <1>3
  <2>2. NextReg(x, Settled(Seen)) = IF x \in Dirty THEN nxt[x] ELSE cur[x]
    BY <1>1, StagedIsNext DEF StagingOK
  <2>3. QED
    BY <1>2, <2>1, <2>2, NextStateAt
<1>5. \A x \in Cells : AbsState'[x] = NextState(Seen)[x]
  <2> TAKE x \in Cells
  <2>1. AbsState'[x] = IF Pending(x)' = {} THEN cur[x] ELSE wd'[Last(Pending(x)')]
    BY <1>1, <1>3 DEF Edge
  <2>2. NextCell(x, Settled(Seen)) = AbsState'[x]
    BY <2>1, CapturedIsNext
  <2>3. QED
    BY <1>2, <2>2, NextStateAt
<1>6. AbsState' = NextState(Seen)
  BY <1>2, <1>3, <1>4, <1>5, NextStateAt, SameElements
<1>7. AbsState = Seen
  BY <1>1, AbsIsSeen DEF Edge
<1>8. QED
  BY <1>2, <1>6, <1>7
-----------------------------------------------------------------------------
(***************************************************************************)
(* The commit and store loops copy what has been decided.                  *)
(***************************************************************************)
LEMMA CommitKeepsAbs ==
    ASSUME OtherTypes, NEW r \in Regs, CommitReg(r)
    PROVE  AbsState' = AbsState
<1>1. /\ pc = "commit" /\ pc' = pc /\ r \in todo /\ todo' = todo \ {r}
      /\ UNCHANGED <<prev, nxt, port, weAny, we, wa, wd>>
  BY DEF CommitReg, memVars
<1>2. cur' = [cur EXCEPT ![r] = nxt[r]]
  BY CommitSeen DEF OtherTypes, State
<1>3. /\ \A x \in Inputs \cup Cells : cur'[x] = cur[x]
      /\ \A x \in Regs : cur'[x] = IF x = r THEN nxt[x] ELSE cur[x]
  BY <1>2, NetlistAssumption DEF OtherTypes, State, Sigs
<1>4. \A x \in Inputs : Seen'[x] = Seen[x]
  BY <1>1, <1>3 DEF Seen, UsedInputs, Sigs
<1>5. \A c \in Cells : Pending(c)' = Pending(c)
  BY <1>1 DEF Pending
<1>6. AbsElements /\ AbsElements'
  BY AbsAt, PTL
<1>7. \A x \in Regs : AbsState'[x] = AbsState[x]
  BY <1>1, <1>3, <1>6 DEF AbsElements
<1>8. \A x \in Cells : AbsState'[x] = AbsState[x]
  BY <1>1, <1>3, <1>5, <1>6 DEF AbsElements, Edge
<1>9. \A x \in Inputs : AbsState'[x] = AbsState[x]
  BY <1>4, <1>6 DEF AbsElements
<1>10. QED
  BY <1>6, <1>7, <1>8, <1>9, SameElements DEF AbsElements

LEMMA StoreKeepsAbs ==
    ASSUME OtherTypes, weAny, StorePort
    PROVE  AbsState' = AbsState
<1>1. /\ pc = "store" /\ pc' = pc /\ port \in Ports /\ port' = port + 1
      /\ UNCHANGED <<prev, weAny, we, wa, wd>>
      /\ cur' = IF we[port] THEN [cur EXCEPT ![wa[port]] = wd[port]] ELSE cur
  BY DEF StorePort
<1>2. /\ \A x \in Inputs \cup Regs : cur'[x] = cur[x]
      /\ \A x \in Cells : cur'[x] = IF we[port] /\ wa[port] = x THEN wd[port] ELSE cur[x]
  BY <1>1, NetlistAssumption DEF OtherTypes, State, Sigs
<1>3. \A x \in Inputs : Seen'[x] = Seen[x]
  BY <1>1, <1>2 DEF Seen, UsedInputs, Sigs
<1>4. AbsElements /\ AbsElements'
  BY AbsAt, PTL
<1>5. ASSUME NEW c \in Cells
      PROVE  AbsState'[c] = AbsState[c]
  <2> DEFINE P == Pending(c)
             Q == {j \in Ports : weAny /\ j >= port + 1 /\ we[j] /\ wa[j] = c}
  <2>0. P \in SUBSET Ports /\ Q \in SUBSET Ports /\ \A k \in Ports : k \in Nat
    BY NetlistAssumption DEF Pending, Ports
  <2>1. Pending(c)' = Q
    BY <1>1 DEF Pending
  <2>2. P = IF we[port] /\ wa[port] = c THEN Q \cup {port} ELSE Q
    BY <1>1, <2>0 DEF Pending
  <2>3. /\ AbsState[c] = IF P # {} THEN wd[Last(P)] ELSE cur[c]
        /\ AbsState'[c] = IF Q # {} THEN wd[Last(Q)] ELSE cur'[c]
    <3> HIDE DEF Q
    <3>1. QED
      BY <1>1, <1>4, <2>1 DEF AbsElements, Edge
  <2>4. \A k \in Q : port <= k
    BY <1>1, <2>0
  <2> HIDE DEF P, Q
  <2>5. CASE ~(we[port] /\ wa[port] = c)
    BY <1>2, <2>2, <2>3, <2>5
  <2>6. CASE we[port] /\ wa[port] = c /\ Q = {}
    <3>1. P = {port}
      BY <2>2, <2>6
    <3>2. Last(P) = port
      BY <1>1, <2>0, <3>1, LastIs
    <3>3. QED
      BY <1>2, <2>3, <2>6, <3>1, <3>2
  <2>7. CASE we[port] /\ wa[port] = c /\ Q # {}
    <3>1. P = Q \cup {port}
      BY <2>2, <2>7
    <3>2. Last(Q) \in Q /\ \A k \in Q : k <= Last(Q)
      BY <2>0, <2>7, LastPort
    <3>3. \A k \in P : k <= Last(Q)
      BY <2>4, <3>1, <3>2
    <3>4. Last(P) = Last(Q)
      BY <2>0, <3>1, <3>2, <3>3, LastIs
    <3>5. QED
      BY <2>3, <2>7, <3>1, <3>4
  <2>8. QED
    BY <2>5, <2>6, <2>7
<1>6. \A x \in Regs : AbsState'[x] = AbsState[x]
  BY <1>1, <1>2, <1>4 DEF AbsElements
<1>7. \A x \in Inputs : AbsState'[x] = AbsState[x]
  BY <1>3, <1>4 DEF AbsElements
<1>8. QED
  BY <1>4, <1>5, <1>6, <1>7, SameElements DEF AbsElements

(* The end of either loop.                                                 *)
LEMMA CopiedIsSeen ==
    ASSUME OtherTypes, EdgeOK,
           \/ pc = "commit" /\ todo = {} /\ ~weAny
           \/ pc = "store" /\ port \notin Ports
    PROVE  AbsState = Seen
<1>1. \A c \in Cells : Pending(c) = {}
  BY NetlistAssumption DEF EdgeOK, Edge, Pending, Ports, OtherTypes
<1>2. QED
  BY <1>1, AbsIsSeen

LEMMA AbsOutside == pc \notin {"commit", "store"} => AbsState = Seen
BY AbsIsSeen DEF Edge

LEMMA DoneKeepsAbs ==
    ASSUME OtherTypes, EdgeOK, CommitDone \/ StoreDone
    PROVE  AbsState' = AbsState
<1>1. /\ (pc = "commit" /\ todo = {}) \/ (pc = "store" /\ port \notin Ports)
      /\ pc' \in {"idle", "store"}
      /\ UNCHANGED <<todo, weAny, port, cur, prev, we, wa, wd>>
  <2>1. CASE CommitDone
    BY <2>1 DEF CommitDone, hostVars, stageVars, memVars
  <2>2. CASE StoreDone
    BY <2>2 DEF StoreDone, hostVars, stageVars, memVars
  <2>3. QED
    BY <2>1, <2>2
<1>2. Seen' = Seen
  BY <1>1, SameSeen
<1>3. CASE pc' = "store"
  <2>1. AbsElements /\ AbsElements'
    BY AbsAt, PTL
  <2>2. \A c \in Cells : Pending(c)' = Pending(c)
    BY <1>1 DEF Pending
  <2>3. pc = "commit" /\ todo = {}
    BY <1>1, <1>3 DEF CommitDone, StoreDone
  <2>4. QED
    BY <1>1, <1>2, <1>3, <2>1, <2>2, <2>3, SameElements DEF AbsElements, Edge
<1>4. CASE pc' = "idle"
  <2>1. AbsState = Seen
    BY <1>4, CopiedIsSeen DEF CommitDone, StoreDone
  <2>2. (pc \notin {"commit", "store"} => AbsState = Seen)'
    BY AbsOutside, PTL
  <2>3. QED
    BY <1>2, <1>4, <2>1, <2>2
<1>5. QED
  BY <1>1, <1>3, <1>4

LEMMA EdgeStep ==
    ASSUME ExclusiveWriters, OtherTypes, Phases, CacheFresh, Waits, GenOK, EnablesOK,
           StagingOK, EdgeOK, [Next]_vars
    PROVE  EdgeOK'
<1> USE DEF hostVars, cacheVars, pageVars, holdVars, scanVars, stageVars, memVars
<1>1. CASE pc' \notin {"commit", "store"}
  BY <1>1 DEF EdgeOK, Edge
<1>2. CASE UNCHANGED vars
  <2>1. AbsState' = AbsState
    <3>1. AbsElements /\ AbsElements'
      BY AbsAt, PTL
    <3>2. UNCHANGED <<cur, prev, pc, todo, nxt, wd, we, wa, weAny, port>>
      BY <1>2 DEF vars
    <3>3. Seen' = Seen /\ (Edge' <=> Edge) /\ \A c \in Cells : Pending(c)' = Pending(c)
      BY <3>2, SameSeen DEF Edge, Pending
    <3>4. QED
      BY <3>1, <3>2, <3>3, SameElements DEF AbsElements
  <2>2. QED
    BY <1>2, <2>1, SameSeen DEF vars, EdgeOK, Edge
<1>3. CASE CapturePorts
  <2>1. pc' = "commit" /\ port' = 1
    BY <1>3 DEF CapturePorts
  <2>2. AbsState' = NextState(Seen) /\ Seen' = Seen
    BY <1>3, CaptureIsEdge
  <2>3. QED
    BY <2>1, <2>2 DEF EdgeOK, Edge
<1>4. ASSUME NEW r \in Regs, CommitReg(r) PROVE EdgeOK'
  <2>1. pc = "commit" /\ pc' = "commit" /\ port' = port
    BY <1>4 DEF CommitReg
  <2>2. AbsState' = AbsState
    BY <1>4, CommitKeepsAbs
  <2>3. chg' = 0 => chg = 0 /\ Seen' = Seen
    BY <1>4, CommitSeen, SameSeen DEF OtherTypes
  <2>4. QED
    BY <2>1, <2>2, <2>3 DEF EdgeOK, Edge
<1>5. CASE CommitDone
  <2>1. /\ pc = "commit" /\ todo = {} /\ (pc' = "store" => weAny)
        /\ UNCHANGED <<todo, weAny, port, chg, cur, prev, we, wa, wd>>
    BY <1>5 DEF CommitDone
  <2>2. CASE pc' = "store"
    <3>1. Seen' = Seen /\ AbsState' = AbsState
      BY <1>5, <2>1, SameSeen, DoneKeepsAbs
    <3>2. QED
      BY <2>1, <2>2, <3>1 DEF EdgeOK, Edge
  <2>3. QED
    BY <1>1, <1>5, <2>2 DEF CommitDone
<1>6. CASE StorePort
  <2>1. pc = "store" /\ pc' = "store" /\ port' = port + 1 /\ UNCHANGED <<todo, weAny>>
    BY <1>6 DEF StorePort
  <2>2. weAny /\ AbsState' = AbsState
    BY <1>6, <2>1, StoreKeepsAbs DEF EdgeOK
  <2>3. chg' = 0 => chg = 0 /\ Seen' = Seen
    BY <1>6, StoreSeen, SameSeen DEF OtherTypes
  <2>4. QED
    BY <2>1, <2>2, <2>3 DEF EdgeOK, Edge, OtherTypes
<1>7. CASE HostNext
  BY <1>1, <1>7 DEF HostNext, DriveInput, AnnounceFresh, Poke, Tick, TickNba, ForceWakeAll,
     EvalOutput, EnterPoke, Resume
<1>8. CASE KernelNext
  <2>1. CASE \E i \in UsedInputs : PokeInput(i)
    BY <1>1, <2>1 DEF PokeInput
  <2>2. ASSUME NEW w \in Wires, PullDeps(w) \/ EvalWire(w) PROVE EdgeOK'
    <3>1. pc' = pc /\ w \in want
      BY <2>2 DEF PullDeps, EvalWire
    <3>2. QED
      BY <1>1, <3>1 DEF Phases
  <2>3. CASE \/ PokeDone \/ EvalReturn \/ Posedge \/ AssertThrow \/ AssertPass \/ StartDispatch
             \/ NextWord \/ NextSum \/ EnterHold \/ TakeBranch \/ LeaveWord \/ Prepare
             \/ StoreDone
    BY <1>1, <2>3 DEF PokeDone, EvalReturn, Posedge, AssertThrow, AssertPass, StartDispatch,
       NextWord, NextSum, EnterHold, TakeBranch, LeaveWord, Prepare, StoreDone, Dispatched,
       Resume
  <2>4. CASE RunHold
    <3>1. pc' = "word"
      BY <2>4 DEF RunHold
    <3>2. QED
      BY <1>1, <3>1
  <2>5. QED
    BY <1>3, <1>4, <1>5, <1>6, <1>8, <2>1, <2>2, <2>3, <2>4 DEF KernelNext
<1>9. QED
  BY <1>2, <1>7, <1>8 DEF Next
-----------------------------------------------------------------------------
(***************************************************************************)
(* The theorems.                                                           *)
(***************************************************************************)
PortInv == FreshInv /\ Waits /\ GenOK /\ EnablesOK
HoldInv == FreshInv /\ Waits /\ SleepOK /\ StagingOK

LEMMA InitFacts ==
    Init => FreshInv /\ Waits /\ GenOK /\ EnablesOK /\ SleepOK /\ StagingOK /\ EdgeOK
<1> SUFFICES ASSUME Init
             PROVE  FreshInv /\ Waits /\ GenOK /\ EnablesOK /\ SleepOK /\ StagingOK /\ EdgeOK
  OBVIOUS
<1>1. FreshInv
  <2>1. TypeInv
    BY OtherTypesInit, HoldsOKInit DEF TypeInv, Cursor, Init
  <2>2. QED
    BY <2>1 DEF FreshInv, Init, Phases, Stamps, AssertsWait, CacheFresh
<1>2. Waits /\ StagingOK /\ EdgeOK
  BY DEF Init, Waits, StagingOK, Dispatching, EdgeOK, Edge
<1>3. GenOK /\ EnablesOK
  BY DEF Init, GenOK, EnablesOK, Scanned
<1>4. SleepOK
  BY HoldsAreBits DEF Init, SleepOK, Marked
<1>5. QED
  BY <1>1, <1>2, <1>3, <1>4

LEMMA FreshParts ==
    ASSUME FreshInv
    PROVE  /\ OtherTypes /\ HoldsOK /\ Cursor /\ HoldTypes /\ wa \in [Ports -> Cells]
           /\ Phases /\ Stamps /\ AssertsWait /\ CacheFresh
BY HoldsOKTypes DEF FreshInv, TypeInv, OtherTypes

LEMMA FreshInvStep ==
    ASSUME FreshInv, [Next]_vars
    PROVE  FreshInv' /\ OtherTypes'
<1>1. TypeInv'
  BY FreshParts, OtherTypesStep, HoldsOKStep, CursorStep DEF TypeInv
<1>2. QED
  BY <1>1, FreshParts, PhasesStep, FreshStep, AssertsWaitStep DEF FreshInv, TypeInv

LEMMA PortInvariance ==
    ASSUME EnablesPaged
    PROVE  Spec => []PortInv
<1>1. Init => PortInv
  BY InitFacts DEF PortInv
<1>2. PortInv /\ [Next]_vars => PortInv'
  <2> SUFFICES ASSUME PortInv, [Next]_vars PROVE PortInv'
    OBVIOUS
  <2>1. FreshInv' /\ OtherTypes'
    BY FreshInvStep DEF PortInv
  <2>2. Waits' /\ GenOK' /\ EnablesOK'
    BY <2>1, FreshParts, WaitsStep, GenStep, EnablesStep DEF PortInv
  <2>3. QED
    BY <2>1, <2>2 DEF PortInv
<1>3. QED
  BY <1>1, <1>2, PTL DEF Spec

LEMMA HoldInvariance ==
    ASSUME ExclusiveWriters
    PROVE  Spec => []HoldInv
<1>1. Init => HoldInv
  BY InitFacts DEF HoldInv
<1>2. HoldInv /\ [Next]_vars => HoldInv'
  <2> SUFFICES ASSUME HoldInv, [Next]_vars PROVE HoldInv'
    OBVIOUS
  <2>1. FreshInv'
    BY FreshInvStep DEF HoldInv
  <2>2. Waits' /\ SleepOK' /\ StagingOK'
    BY FreshParts, WaitsStep, SleepStep, StagingStep DEF HoldInv
  <2>3. QED
    BY <2>1, <2>2 DEF HoldInv
<1>3. QED
  BY <1>1, <1>2, PTL DEF Spec

(* When no page has moved since the last scan of the enables, leaving the  *)
(* scan out skips no enabled port: true of every design in which each      *)
(* element that an enable reads bumps some page.                           *)
THEOREM SkippedScanIsSafe ==
    ASSUME EnablesPaged
    PROVE  Spec => []QuietPortsAreOff
<1>1. PortInv => QuietPortsAreOff
  BY DEF PortInv, EnablesOK, Scanned, QuietPortsAreOff, AllOff
<1>2. QED
  BY <1>1, PortInvariance, PTL

(* A hold that no change has woken and that did not re-arm itself would    *)
(* only assign what its registers hold: the dispatch loop that skips it    *)
(* loses nothing, in every design with one writer per register.            *)
THEOREM SleepersWouldDoNothing ==
    ASSUME ExclusiveWriters
    PROVE  Spec => []SleepingHoldIsNoOp
<1>1. HoldInv => SleepingHoldIsNoOp
  <2> SUFFICES ASSUME HoldInv, pc = "idle",
                      NEW h \in Holds, h \notin need \cup busy,
                      NEW r \in DOMAIN Does(h, Seen)
               PROVE  Does(h, Seen)[r] = cur[r]
    BY DEF SleepingHoldIsNoOp, Does
  <2>1. NoOpAt(h, Seen)
    BY DEF HoldInv, SleepOK, Marked, Running
  <2>2. r \in Regs
    BY FreshParts, SeenIsState, DoesTypes DEF HoldInv
  <2>3. QED
    BY <2>1, <2>2, SeenIsCurrent DEF NoOpAt
<1>2. QED
  BY <1>1, HoldInvariance, PTL

LEMMA EdgeInvariance ==
    ASSUME ExclusiveWriters, EnablesPaged
    PROVE  Spec => [](PortInv /\ HoldInv /\ EdgeOK)
<1>1. Init => EdgeOK
  BY InitFacts
<1>2. PortInv /\ HoldInv /\ EdgeOK /\ [Next]_vars => EdgeOK'
  BY FreshParts, EdgeStep DEF PortInv, HoldInv
<1>3. QED
  BY <1>1, <1>2, PortInvariance, HoldInvariance, PTL DEF Spec

(* A tick that counts no change has left a fixpoint of the reference: a    *)
(* host that stops ticking on _chg = 0 misses nothing.                     *)
THEOREM QuietTicksAreFixpoints ==
    ASSUME ExclusiveWriters, EnablesPaged
    PROVE  Spec => []QuietTickIsFixpoint
<1>1. PortInv /\ HoldInv /\ EdgeOK => QuietTickIsFixpoint
  <2> SUFFICES ASSUME PortInv, EdgeOK, chg = 0,
                      \/ pc = "commit" /\ todo = {} /\ ~weAny
                      \/ pc = "store" /\ port \notin Ports
               PROVE  NextState(Seen) = Seen
    BY DEF QuietTickIsFixpoint
  <2>1. AbsState = Seen
    BY FreshParts, CopiedIsSeen DEF PortInv
  <2>2. AbsState = NextState(Seen)
    BY DEF EdgeOK, Edge
  <2>3. QED
    BY <2>1, <2>2
<1>2. QED
  BY <1>1, EdgeInvariance, PTL

(***************************************************************************)
(* The refinement.                                                         *)
(***************************************************************************)
LEMMA RefNextState ==
    ASSUME NEW s
    PROVE  Ref!NextState(s) = NextState(s)
BY DEF Ref!NextState, NextState, Ref!NextReg, NextReg, Ref!NextCell, NextCell,
   Ref!Writers, Writers, Ref!LastWriter, LastWriter, Ref!Stores, Stores, Ref!Settled,
   Settled, Ref!Extensions, Extensions, Ref!Extend, Extend, Ref!IsSettled, IsSettled,
   Ref!Sigs, Sigs, Ref!Holds, Holds, Ref!Ports, Ports

LEMMA RefInit == Init => Ref!Init
<1> SUFFICES ASSUME Init PROVE Ref!Init
  OBVIOUS
<1>1. AbsState = Seen
  BY AbsOutside DEF Init
<1>2. Seen = [x \in Sigs |-> Zero]
  BY DEF Init, Seen, Sigs, UsedInputs
<1>3. bep = 0
  BY DEF Init
<1>4. QED
  BY <1>1, <1>2, <1>3 DEF Ref!Init, Ref!Sigs, Sigs

LEMMA SeenTyped == OtherTypes => Seen \in State
BY SeenIsState

(* The inputs take other values, and nothing else moves.                   *)
LEMMA InputsDrive ==
    ASSUME OtherTypes, OtherTypes', AbsState = Seen, AbsState' = Seen', bep' = bep,
           \A x \in Sigs \ Inputs : Seen'[x] = Seen[x]
    PROVE  Ref!Drive
<1>1. Seen \in State /\ Seen' \in State
  <2>1. (OtherTypes => Seen \in State)'
    BY SeenTyped, PTL
  <2>2. QED
    BY <2>1, SeenIsState
<1>2. [i \in Inputs |-> Seen'[i]] \in [Inputs -> Val]
  BY <1>1 DEF State, Sigs
<1>3. Seen' = [x \in Sigs |-> IF x \in Inputs THEN [i \in Inputs |-> Seen'[i]][x] ELSE Seen[x]]
  BY <1>1 DEF State
<1>4. QED
  BY <1>2, <1>3 DEF Ref!Drive, Ref!Sigs, Sigs

LEMMA RefStep ==
    ASSUME ExclusiveWriters, OtherTypes, OtherTypes', Phases, CacheFresh, Waits, GenOK,
           EnablesOK, StagingOK, EdgeOK, [Next]_vars
    PROVE  [Ref!Next]_(Ref!vars)
<1> USE DEF hostVars, cacheVars, pageVars, holdVars, scanVars, stageVars, memVars
<1>1. CASE CapturePorts
  <2>1. bep' = bep + 1
    BY <1>1 DEF CapturePorts
  <2>2. AbsState' = NextState(AbsState)
    BY <1>1, CaptureIsEdge
  <2>3. QED
    BY <2>1, <2>2, RefNextState DEF Ref!Next, Ref!Posedge
<1>2. CASE AbsState' = AbsState /\ bep' = bep
  BY <1>2 DEF Ref!vars
<1>3. CASE \E r \in Regs : CommitReg(r)
  BY <1>2, <1>3, CommitKeepsAbs DEF CommitReg
<1>4. CASE StorePort
  <2>1. weAny /\ bep' = bep
    BY <1>4 DEF StorePort, EdgeOK
  <2>2. QED
    BY <1>2, <1>4, <2>1, StoreKeepsAbs
<1>5. CASE CommitDone \/ StoreDone
  <2>1. bep' = bep
    BY <1>5 DEF CommitDone, StoreDone
  <2>2. QED
    BY <1>2, <1>5, <2>1, DoneKeepsAbs
(* Between the edges the abstract state is the one seen.                   *)
<1>6. ASSUME pc \notin {"commit", "store"}, pc' \notin {"commit", "store"}
      PROVE  AbsState = Seen /\ AbsState' = Seen'
  <2>1. (pc \notin {"commit", "store"} => AbsState = Seen)'
    BY AbsOutside, PTL
  <2>2. QED
    BY <1>6, <2>1, AbsOutside
<1>7. ASSUME bep' = bep, pc \notin {"commit", "store"}, pc' \notin {"commit", "store"},
             \A x \in Sigs \ Inputs : Seen'[x] = Seen[x]
      PROVE  [Ref!Next]_(Ref!vars)
  BY <1>6, <1>7, InputsDrive DEF Ref!Next
<1>8. ASSUME NEW i \in Inputs, NEW v \in Val, bep' = bep, SeesChange(i, v),
             pc \notin {"commit", "store"}, pc' \notin {"commit", "store"}
      PROVE  [Ref!Next]_(Ref!vars)
  <2>1. \A x \in Sigs \ Inputs : Seen'[x] = Seen[x]
    BY <1>8, SeenIsState DEF SeesChange, State
  <2>2. QED
    BY <1>7, <1>8, <2>1
<1>9. ASSUME bep' = bep, UNCHANGED <<cur, prev>>,
             pc \notin {"commit", "store"}, pc' \notin {"commit", "store"}
      PROVE  [Ref!Next]_(Ref!vars)
  BY <1>2, <1>6, <1>9, SameSeen
<1>10. CASE HostNext
  <2>1. ASSUME NEW i \in Inputs, NEW v \in Val, DriveInput(i, v)
        PROVE  [Ref!Next]_(Ref!vars)
    <3>1. bep' = bep /\ pc = "idle" /\ pc' = "idle"
      BY <2>1 DEF DriveInput
    <3>2. CASE Seen' = Seen
      BY <1>2, <1>6, <3>1, <3>2
    <3>3. CASE SeesChange(i, v)
      BY <1>8, <3>1, <3>3
    <3>4. QED
      BY <2>1, <3>2, <3>3, DriveSeen
  <2>2. CASE AnnounceFresh \/ TickNba \/ ForceWakeAll \/ \E w \in Outputs : EvalOutput(w)
    BY <1>9, <2>2 DEF AnnounceFresh, TickNba, ForceWakeAll, EvalOutput
  <2>3. CASE Poke \/ Tick
    <3>1. /\ bep' = bep /\ cur' = cur /\ pc = "idle" /\ pc' \in {"idle", "posedge", "poke"}
      BY <2>3 DEF Poke, Tick, EnterPoke, Resume
    <3>2. \A x \in Sigs \ Inputs : Seen'[x] = Seen[x]
      BY <3>1 DEF Seen, UsedInputs
    <3>3. QED
      BY <1>7, <3>1, <3>2
  <2>4. QED
    BY <1>10, <2>1, <2>2, <2>3 DEF HostNext
<1>11. CASE KernelNext
  <2>1. ASSUME NEW i \in UsedInputs, PokeInput(i)
        PROVE  [Ref!Next]_(Ref!vars)
    <3>1. i \in Inputs /\ bep' = bep /\ pc = "poke" /\ pc' = "poke"
      BY <2>1 DEF PokeInput, UsedInputs
    <3>2. QED
      BY <1>8, <2>1, <3>1, PokeSeen
  <2>2. ASSUME NEW w \in Wires, PullDeps(w) \/ EvalWire(w)
        PROVE  [Ref!Next]_(Ref!vars)
    <3>1. /\ bep' = bep /\ UNCHANGED <<cur, prev, pc>> /\ w \in want
      BY <2>2 DEF PullDeps, EvalWire
    <3>2. QED
      BY <1>9, <3>1 DEF Phases
  <2>3. CASE \/ PokeDone \/ EvalReturn \/ Posedge \/ AssertThrow \/ AssertPass \/ StartDispatch
             \/ NextWord \/ NextSum \/ EnterHold \/ TakeBranch \/ LeaveWord \/ Prepare
    BY <1>9, <2>3 DEF PokeDone, EvalReturn, Posedge, AssertThrow, AssertPass, StartDispatch,
       NextWord, NextSum, EnterHold, TakeBranch, LeaveWord, Prepare, Dispatched, Resume
  <2>4. CASE RunHold
    <3>1. pc = "hold" /\ pc' = "word" /\ bep' = bep /\ UNCHANGED <<cur, prev>>
      BY <2>4 DEF RunHold
    <3>2. QED
      BY <1>9, <3>1
  <2>5. QED
    BY <1>1, <1>3, <1>4, <1>5, <1>11, <2>1, <2>2, <2>3, <2>4 DEF KernelNext
<1>12. CASE UNCHANGED vars
  <2>1. bep' = bep /\ UNCHANGED <<cur, prev, pc, todo, nxt, wd, we, wa, weAny, port>>
    BY <1>12 DEF vars
  <2>2. Seen' = Seen /\ (Edge' <=> Edge) /\ \A c \in Cells : Pending(c)' = Pending(c)
    BY <2>1, SameSeen DEF Edge, Pending
  <2>3. AbsElements /\ AbsElements'
    BY AbsAt, PTL
  <2>4. AbsState' = AbsState
    BY <2>1, <2>2, <2>3, SameElements DEF AbsElements
  <2>5. QED
    BY <1>2, <2>1, <2>4
<1>13. QED
  BY <1>10, <1>11, <1>12 DEF Next

(* The generated kernel computes, edge by edge, what the reference model   *)
(* computes: for every netlist with one writer per register, every sound   *)
(* plan whose enables are paged, and whatever order the host pokes, ticks, *)
(* reads outputs and forces wakes in.                                      *)
THEOREM KernelMatchesReference ==
    ASSUME ExclusiveWriters, EnablesPaged
    PROVE  Spec => MatchesReference
<1>1. Spec => [](PortInv /\ HoldInv /\ EdgeOK)
  BY EdgeInvariance
<1>2. PortInv => OtherTypes
  BY FreshParts DEF PortInv
<1>3. PortInv /\ HoldInv /\ EdgeOK /\ OtherTypes' /\ [Next]_vars => [Ref!Next]_(Ref!vars)
  BY FreshParts, RefStep DEF PortInv, HoldInv
<1>4. QED
  BY <1>1, <1>2, <1>3, RefInit, PTL DEF Spec, MatchesReference, Ref!Spec
=============================================================================
