-------------------------- MODULE EagerPassesProofs --------------------------
(***************************************************************************)
(* Theorems about the kernel with eager passes, for every module and every *)
(* set of tables that satisfy the assumptions of EagerPasses.              *)
(***************************************************************************)
EXTENDS EagerPasses, NetlistProofs

(* What the constants are assumed to be, wherever an assumption is cited.  *)
USE DEF WellTyped, SettlesOnce, PlanTyped, BitsNumbered, ReadsListed, PagesCover,
        PassesTold, HoldsCut, Ascending

Bits == DOMAIN plan.bit
Fresh(r) == eg[r] = pg[PageOf(r)]
Dirty(r) == ed[r] # pg[plan.dataPage[r]] \/ up[r]
Does(h, s) == HoldFn(h, Settled(s))

(* Every variable keeps its type.                                          *)
TypeOK ==
    /\ plan \in Plans
    /\ pc \in {"idle", "eval", "posedge", "drain", "passes", "holds"}
    /\ cur \in State /\ prev \in [Inputs -> Val] /\ inited \in BOOLEAN
    /\ wval \in [Wires -> Val] /\ ok \in [Wires -> Nat]
    /\ pg \in [plan.pages -> Nat]
    /\ eg \in [Passes -> Nat] /\ ed \in [Passes -> Nat] /\ up \in [Passes -> BOOLEAN]
    /\ want \subseteq Wires /\ awake \subseteq Holds /\ turn \in Nat
    /\ nxt \in [Regs -> Val] /\ list \subseteq Regs /\ cycle \in Nat

(* The bitmap of pending passes and its summary.                           *)
Sums(A) == {SumOf(w) : w \in A}
WorkOK ==
    /\ pNeed \subseteq 0 .. NWords * W - 1 /\ pAny \subseteq 0 .. NWords - 1
    /\ \A b \in pNeed : b \div W \in pAny
    /\ pWords = Cardinality(Sums(pAny))

(* The cursors of the drain point at live words.                           *)
CursorOK ==
    /\ sw \in Nat /\ (pc = "drain" => swBits \subseteq LiveWords(sw))
    /\ pc = "passes" => /\ word \in pAny /\ SumOf(word) = sw
                        /\ swBits \subseteq {w \in LiveWords(sw) : w > word}

(* The scan leaves nothing behind.                                         *)
ScanOK ==
    /\ pc = "drain" => LiveWords(sw) \subseteq swBits /\ \A w \in pAny : SumOf(w) >= sw
    /\ pc = "passes" => \A w \in pAny : w >= word
    /\ pc = "holds" => pAny = {}

Phases ==
    /\ ~inited => /\ pc = "idle"
                  /\ \A r \in Passes : eg[r] = 0 /\ ed[r] = 0
                  /\ \A w \in Wires : ok[w] = 0
    /\ pc # "idle" => Seen = cur
    /\ pc \in {"idle", "posedge", "drain"} => want = {}
    /\ \A w \in want : Stale(w)

(* Until the first poke starts the pages everything is due.                *)
Unstarted == ~inited => awake = Holds /\ BitsOf(Bits) \subseteq pNeed

(* No stamp is ahead of its page.                                          *)
Stamps ==
    /\ \A r \in Passes : eg[r] <= pg[PageOf(r)] /\ ed[r] <= pg[plan.dataPage[r]]
    /\ \A w \in Wires \ Eager : ok[w] <= pg[plan.page[w]]

(* The passes whose values would not move if they were computed, nor would *)
(* those of the passes they read, at any distance.                         *)
Sources(r) == {plan.passOf[w] : w \in plan.foreign[r] \cap Eager}
Calm == UNION {D \in SUBSET Passes : \A r \in D : ~Dirty(r) /\ Sources(r) \subseteq D}
CalmOK == inited => \A r \in Passes : Fresh(r) => r \in Calm

(* A lazy wire whose stamp equals its page has settled.                    *)
LazyOK == inited => \A w \in Wires \ Eager : ~Stale(w) => wval[w] = Settled(Seen)[w]

(* A pass that nothing made dirty has the values of its expressions over   *)
(* the stored values of other passes, however stale.                       *)
Basis == Extend(Seen, [w \in Wires |-> IF w \in Eager THEN wval[w] ELSE Settled(Seen)[w]])
CleanOK == inited => \A r \in Passes :
    ~Dirty(r) => \A w \in WiresOf(r) : wval[w] = WireFn(w, Basis)

(* A dirty pass that can wake a hold is on the worklist, or is the one     *)
(* under way, and then the call stays below whatever is pending.           *)
DueOK ==
    /\ \A r \in Bits : Dirty(r) =>
          plan.bit[r] \in pNeed \/ (pc = "passes" /\ plan.order[r][1] \in want)
    /\ pc = "passes" =>
          /\ \A b \in pNeed : want \subseteq CallsUpTo(plan, b - 1)
          /\ \A r \in Bits : Dirty(r) /\ plan.bit[r] \notin pNeed =>
                want \subseteq CallsUpTo(plan, plan.bit[r]) /\ word <= plan.bit[r] \div W

(* What a sleeping hold did last it would do again: no element that wakes  *)
(* it has changed since, nor have the stored values of the wires its cone  *)
(* is cut at, and its registers still have what it assigned.               *)
Unmoved(h, t) ==
    /\ \A x \in Sigs : h \in plan.leafHolds[x] => t[x] = Seen[x]
    /\ \A w \in Eager : h \in plan.cutHolds[w] => Settled(t)[w] = wval[w]
SleepOK == \A h \in Holds \ awake : \E t \in State :
    Unmoved(h, t) /\ \A r \in DOMAIN Does(h, t) : Does(h, t)[r] = cur[r]

(* What the holds dispatched so far have staged.                           *)
StagedOK ==
    /\ pc \in {"drain", "passes"} => list = {}
    /\ pc = "holds" =>
          /\ \A r \in list : \E h \in awake : h < turn /\ r \in DOMAIN Does(h, Seen)
          /\ \A h \in Holds : h < turn => \A r \in DOMAIN Does(h, Seen) :
                Does(h, Seen)[r] = IF r \in list THEN nxt[r] ELSE cur[r]
-----------------------------------------------------------------------------
(***************************************************************************)
(* The tables.                                                             *)
(***************************************************************************)
LEMMA Tables ==
    ASSUME plan \in Plans
    PROVE  /\ Passes \subseteq Nat /\ Eager \subseteq Wires
           /\ \A r \in Passes : /\ plan.order[r] \in Seq(Wires)
                                /\ 1 \in DOMAIN plan.order[r]
           /\ \A w \in Eager : plan.passOf[w] \in Passes /\ w \in WiresOf(plan.passOf[w])
           /\ \A r \in Passes : \A w \in WiresOf(r) :
                 w \in Eager /\ plan.passOf[w] = r /\ plan.page[w] = PageOf(r)
<1>1. plan.order \in Seq(Seq(Wires))
  BY PlanTypes
<1>2. Passes \subseteq Nat /\ \A r \in Passes : plan.order[r] \in Seq(Wires)
  BY <1>1 DEF Passes
<1>3. \A r \in Passes : 1 \in DOMAIN plan.order[r]
  <2> TAKE r \in Passes
  <2>1. plan.order[r] \in Seq(Wires) /\ plan.order[r] # <<>>
    BY <1>2, PlanTypes DEF Passes
  <2>2. QED
    BY <2>1
<1>4. QED
  BY <1>2, <1>3, PlanTypes DEF Passes, Eager, WiresOf, InPass, PageOf

LEMMA BitFacts ==
    ASSUME plan \in Plans
    PROVE  /\ NPasses \in Nat /\ NWords \in Nat /\ NSums \in Nat
           /\ NPasses <= NWords * W /\ NWords <= NSums * W
           /\ Bits \subseteq Passes
           /\ \A r \in Bits : plan.bit[r] \in 0 .. NPasses - 1
           /\ \A b \in 0 .. NPasses - 1 : \E r \in Bits : plan.bit[r] = b
<1>1. NPasses \in Nat
  BY BitsSound, FS_CardinalityType DEF NPasses
<1>2. W \in Nat /\ W > 0
  BY EagerAssumption
<1>3. NWords \in Nat /\ NPasses <= NWords * W
  BY <1>1, <1>2 DEF NWords
<1>4. NSums \in Nat /\ NWords <= NSums * W
  BY <1>2, <1>3 DEF NSums
<1>5. {plan.bit[r] : r \in Bits} = 0 .. NPasses - 1
  BY BitsSound DEF Bits, NPasses
<1>6. Bits \subseteq Passes
  BY PlanTypes DEF Bits, Passes
<1>7. QED
  BY <1>1, <1>3, <1>4, <1>5, <1>6
-----------------------------------------------------------------------------
(***************************************************************************)
(* The worklist and its summary count.                                     *)
(***************************************************************************)
LEMMA BitsOfRange ==
    ASSUME plan \in Plans, NEW rs
    PROVE  /\ BitsOf(rs) \subseteq 0 .. NPasses - 1
           /\ BitsOf(rs) \subseteq 0 .. NWords * W - 1
<1>1. BitsOf(rs) \subseteq 0 .. NPasses - 1
  BY BitFacts DEF BitsOf, Bits
<1>2. NPasses \in Nat /\ NWords * W \in Nat /\ NPasses <= NWords * W
  BY BitFacts, EagerAssumption
<1>3. 0 .. NPasses - 1 \subseteq 0 .. NWords * W - 1
  <2> DEFINE n == NPasses  m == NWords * W
  <2>1. n \in Nat /\ m \in Nat /\ n <= m
    BY <1>2
  <2> HIDE DEF n, m
  <2>2. 0 .. n - 1 \subseteq 0 .. m - 1
    BY <2>1
  <2>3. QED
    BY <2>2 DEF n, m
<1>4. QED
  BY <1>1, <1>3

LEMMA WordOfBit ==
    ASSUME plan \in Plans, NEW b \in 0 .. NWords * W - 1
    PROVE  b \in Nat /\ b \div W \in 0 .. NWords - 1
<1> DEFINE n == NWords
<1>1. n \in Nat /\ W \in Nat \ {0}
  BY BitFacts, EagerAssumption
<1> HIDE DEF n
<1>2. b \in Nat /\ b < n * W
  BY <1>1 DEF n
<1>3. b \div W \in 0 .. n - 1
  BY <1>1, <1>2
<1>4. QED
  BY <1>2, <1>3 DEF n

LEMMA SumsFinite ==
    ASSUME plan \in Plans, NEW A \in SUBSET (0 .. NWords - 1)
    PROVE  IsFiniteSet(Sums(A)) /\ Cardinality(Sums(A)) \in Nat
<1> DEFINE n == NWords
<1>1. n \in Nat /\ W \in Nat \ {0}
  BY BitFacts, EagerAssumption
<1> HIDE DEF n
<1>2. \A w \in 0 .. n - 1 : w \div W \in 0 .. n - 1
  BY <1>1
<1>3. Sums(A) \in SUBSET (0 .. n - 1)
  BY <1>2 DEF Sums, SumOf, n
<1>4. IsFiniteSet(0 .. n - 1)
  BY FS_Interval, <1>1
<1>5. IsFiniteSet(Sums(A))
  BY <1>3, <1>4, FS_Subset
<1>6. QED
  BY <1>5, FS_CardinalityType

LEMMA SameSizes ==
    ASSUME UNCHANGED plan
    PROVE  NPasses' = NPasses /\ NWords' = NWords /\ NSums' = NSums /\ Bits' = Bits
BY DEF NPasses, NWords, NSums, Bits

LEMMA WakeKeepsWork ==
    ASSUME plan \in Plans, UNCHANGED plan, WorkOK, NEW rs, NEW taken, WakePasses(rs, taken)
    PROVE  WorkOK' /\ pAny \subseteq pAny'
<1> DEFINE ws == {b \div W : b \in BitsOf(rs)}
           new == Sums(ws) \ Sums(pAny)
<1>1. ws \subseteq 0 .. NWords - 1
  BY BitsOfRange, WordOfBit
<1>2. pAny \subseteq 0 .. NWords - 1 /\ pAny \cup ws \subseteq 0 .. NWords - 1
  BY <1>1 DEF WorkOK
<1>3. /\ pNeed' = (pNeed \ taken) \cup BitsOf(rs) /\ pAny' = pAny \cup ws
      /\ pWords' = pWords + Cardinality(new)
  BY DEF WakePasses, Sums
<1>4. pWords = Cardinality(Sums(pAny))
  BY DEF WorkOK
<1>5. Sums(pAny') = Sums(pAny) \cup new
  BY <1>3 DEF Sums
<1>6. IsFiniteSet(Sums(pAny)) /\ IsFiniteSet(new)
  BY <1>1, <1>2, SumsFinite, FS_Difference
<1>7. Sums(pAny) \cap new = {}
  OBVIOUS
<1>8. pWords' = Cardinality(Sums(pAny'))
  <2> HIDE DEF ws, new
  <2>1. Cardinality(Sums(pAny) \cup new)
          = Cardinality(Sums(pAny)) + Cardinality(new) - Cardinality(Sums(pAny) \cap new)
    BY <1>6, FS_Union
  <2>2. Cardinality(Sums(pAny) \cap new) = 0
    BY <1>7, FS_EmptySet
  <2>3. Cardinality(Sums(pAny)) \in Nat /\ Cardinality(new) \in Nat
    BY <1>6, FS_CardinalityType
  <2>4. Cardinality(Sums(pAny')) = Cardinality(Sums(pAny) \cup new)
    BY <1>5, Zenon
  <2>5. QED
    BY <2>1, <2>2, <2>3, <2>4, <1>3, <1>4
<1>9. \A b \in pNeed' : b \div W \in pAny'
  BY <1>3 DEF WorkOK
<1>10. pNeed' \subseteq 0 .. NWords * W - 1
  <2>1. pNeed \subseteq 0 .. NWords * W - 1
    BY DEF WorkOK
  <2>2. QED
    BY <2>1, <1>3, BitsOfRange
<1>11. NWords' = NWords
  BY SameSizes
<1>12. QED
  BY <1>2, <1>3, <1>8, <1>9, <1>10, <1>11 DEF WorkOK

(* Taking one live word off the summary.                                   *)
LEMMA LeaveCount ==
    ASSUME plan \in Plans, NEW A \in SUBSET (0 .. NWords - 1), NEW w \in A
    PROVE  Cardinality(Sums(A \ {w})) =
             IF \E v \in A \ {w} : SumOf(v) = SumOf(w)
             THEN Cardinality(Sums(A)) ELSE Cardinality(Sums(A)) - 1
<1>1. Sums(A) = Sums(A \ {w}) \cup {SumOf(w)}
  BY DEF Sums
<1>2. SumOf(w) \in Sums(A \ {w}) <=> \E v \in A \ {w} : SumOf(v) = SumOf(w)
  BY DEF Sums
<1>3. A \ {w} \in SUBSET (0 .. NWords - 1)
  OBVIOUS
<1>4. IsFiniteSet(Sums(A \ {w})) /\ Cardinality(Sums(A \ {w})) \in Nat
  BY <1>3, SumsFinite
<1>5. Cardinality(Sums(A \ {w}) \cup {SumOf(w)}) =
        IF SumOf(w) \in Sums(A \ {w}) THEN Cardinality(Sums(A \ {w}))
                                      ELSE Cardinality(Sums(A \ {w})) + 1
  BY <1>4, FS_AddElement
<1>6. Cardinality(Sums(A)) = Cardinality(Sums(A \ {w}) \cup {SumOf(w)})
  BY <1>1, Zenon
<1>7. QED
  BY <1>2, <1>4, <1>5, <1>6

(* All words are live: every word of the summary counts.                   *)
LEMMA AllSums ==
    ASSUME plan \in Plans
    PROVE  Cardinality(Sums(0 .. NWords - 1)) = NSums
<1> DEFINE n == NWords  m == NSums
<1>1. n \in Nat /\ m \in Nat /\ n <= m * W /\ W \in Nat \ {0} /\ m = (n + W - 1) \div W
  BY BitFacts, EagerAssumption DEF NSums
<1> HIDE DEF n, m
<1>2. \A w \in 0 .. n - 1 : w \div W \in 0 .. m - 1
  <2> TAKE w \in 0 .. n - 1
  <2>1. w \in Nat /\ w < m * W
    BY <1>1
  <2>2. QED
    BY <2>1, <1>1
<1>3. ASSUME NEW s \in 0 .. m - 1
      PROVE  s * W \in 0 .. n - 1 /\ (s * W) \div W = s
  <2>1. s * W \in 0 .. n - 1
    BY <1>1
  <2>2. (s * W) \div W = s
    BY <1>1
  <2>3. QED
    BY <2>1, <2>2
<1>4. Sums(0 .. n - 1) = 0 .. m - 1
  BY <1>2, <1>3 DEF Sums, SumOf
<1>5. Cardinality(0 .. m - 1) = m
  BY FS_Interval, <1>1
<1>6. Cardinality(Sums(0 .. n - 1)) = m
  BY <1>4, <1>5, Zenon
<1>7. QED
  BY <1>6 DEF n, m
-----------------------------------------------------------------------------
(***************************************************************************)
(* What a pass computes.                                                   *)
(***************************************************************************)
(* The wires of o are given their values one after the other; Stages(o, e, *)
(* n, f) says that f lists the environments after 0, 1, ..., n wires.      *)
Assign(e, w) == [e EXCEPT ![w] = WireFn(w, e)]
Stages(o, e, n, f) ==
    /\ f \in [0 .. n -> Env] /\ f[0] = e
    /\ \A i \in 1 .. n : f[i] = Assign(f[i - 1], o[i])

LEMMA AssignTypes ==
    ASSUME NEW e \in Env, NEW w \in Wires
    PROVE  /\ Assign(e, w) \in Env /\ Assign(e, w)[w] = WireFn(w, e)
           /\ \A x \in (Sigs \cup Wires) \ {w} : Assign(e, w)[x] = e[x]
BY NetlistAssumption DEF Assign, Env

LEMMA StagesExist ==
    ASSUME NEW o \in Seq(Wires), NEW e \in Env
    PROVE  \E f : Stages(o, e, Len(o), f)
<1> DEFINE Bad == {n \in 0 .. Len(o) : ~ \E f : Stages(o, e, n, f)}
<1>0. Len(o) \in 0 .. Len(o)
  OBVIOUS
<1>1. SUFFICES ASSUME Bad # {} PROVE FALSE
  BY <1>0, Zenon
<1>2. PICK n \in Bad : \A k \in Bad : n <= k
  <2>1. Bad \in SUBSET Nat
    <3>1. Bad \subseteq 0 .. Len(o)
      BY Zenon
    <3>2. QED
      <4> HIDE DEF Bad
      <4> QED BY <3>1
  <2> HIDE DEF Bad
  <2>2. QED
    BY <1>1, <2>1, LeastNatural
<1>3. CASE n = 0
  <2> DEFINE f == [i \in 0 .. 0 |-> e]
  <2>1. Stages(o, e, 0, f)
    BY DEF Stages
  <2>2. QED
    BY <1>2, <1>3, <2>1
<1>4. CASE n # 0
  <2>1. n \in 1 .. Len(o) /\ n - 1 \in 0 .. Len(o) /\ ~(n <= n - 1)
    BY <1>4
  <2>2. PICK g : Stages(o, e, n - 1, g)
    BY <1>2, <2>1
  <2> DEFINE f == [i \in 0 .. n |-> IF i = n THEN Assign(g[n - 1], o[n]) ELSE g[i]]
  <2>3. g \in [0 .. n - 1 -> Env] /\ g[0] = e
    BY <2>2 DEF Stages
  <2>4. Assign(g[n - 1], o[n]) \in Env
    BY <2>1, <2>3, AssignTypes
  <2>5. f \in [0 .. n -> Env] /\ f[0] = e
    BY <2>1, <2>3, <2>4
  <2>6. ASSUME NEW i \in 1 .. n
        PROVE  f[i] = Assign(f[i - 1], o[i])
    <3>1. CASE i = n
      BY <3>1, <2>1
    <3>2. CASE i # n
      <4>1. i \in 1 .. n - 1 /\ i - 1 \in 0 .. n /\ i - 1 # n /\ i \in 0 .. n
        BY <3>2, <2>1
      <4>2. f[i] = g[i] /\ f[i - 1] = g[i - 1]
        BY <3>2, <4>1
      <4>3. g[i] = Assign(g[i - 1], o[i])
        BY <2>2, <4>1 DEF Stages
      <4>4. QED
        BY <4>2, <4>3
    <3>3. QED
      BY <3>1, <3>2
  <2>7. Stages(o, e, n, f)
    <3> HIDE DEF f
    <3> QED BY <2>5, <2>6 DEF Stages
  <2>8. QED
    BY <1>2, <2>7
<1>5. QED
  BY <1>3, <1>4

(* A stage leaves all but the wires given before it, and these it keeps.   *)
LEMMA StagesKeep ==
    ASSUME NEW o \in Seq(Wires), NEW e \in Env, NEW f, Stages(o, e, Len(o), f),
           \A i, j \in DOMAIN o : o[i] = o[j] => i = j
    PROVE  \A n \in 0 .. Len(o) :
              /\ \A x \in (Sigs \cup Wires) \ {o[j] : j \in 1 .. n} : f[n][x] = e[x]
              /\ \A j \in 1 .. n : f[n][o[j]] = WireFn(o[j], f[j - 1])
<1> DEFINE Same(n) == \A x \in (Sigs \cup Wires) \ {o[j] : j \in 1 .. n} : f[n][x] = e[x]
           Done(n) == \A j \in 1 .. n : f[n][o[j]] = WireFn(o[j], f[j - 1])
           Bad == {n \in 0 .. Len(o) : ~(Same(n) /\ Done(n))}
<1>1. SUFFICES ASSUME Bad # {} PROVE FALSE
  OBVIOUS
<1>2. PICK n \in Bad : \A k \in Bad : n <= k
  <2>1. Bad \in SUBSET Nat
    OBVIOUS
  <2> HIDE DEF Bad
  <2>2. QED
    BY <1>1, <2>1, LeastNatural
<1>3. f \in [0 .. Len(o) -> Env] /\ f[0] = e
  BY DEF Stages
<1>4. n # 0
  BY <1>2, <1>3
<1>5. n \in 1 .. Len(o) /\ n - 1 \in 0 .. Len(o) /\ ~(n <= n - 1)
  BY <1>4
<1>6. Same(n - 1) /\ Done(n - 1)
  BY <1>2, <1>5
<1>7. f[n] = Assign(f[n - 1], o[n]) /\ f[n - 1] \in Env /\ o[n] \in Wires
  BY <1>3, <1>5 DEF Stages
<1>8. /\ f[n][o[n]] = WireFn(o[n], f[n - 1])
      /\ \A x \in (Sigs \cup Wires) \ {o[n]} : f[n][x] = f[n - 1][x]
  <2> DEFINE d == f[n - 1]  w == o[n]
  <2>1. d \in Env /\ w \in Wires
    BY <1>7
  <2> HIDE DEF d, w
  <2>2. /\ Assign(d, w)[w] = WireFn(w, d)
        /\ \A x \in (Sigs \cup Wires) \ {w} : Assign(d, w)[x] = d[x]
    BY <2>1, AssignTypes
  <2>3. QED
    BY <2>2, <1>7 DEF d, w
<1>9. Same(n)
  <2> SUFFICES ASSUME NEW x \in (Sigs \cup Wires) \ {o[j] : j \in 1 .. n}
               PROVE  f[n][x] = e[x]
    OBVIOUS
  <2>1. x # o[n]
    BY <1>5
  <2>2. x \in (Sigs \cup Wires) \ {o[j] : j \in 1 .. n - 1}
    BY <1>5
  <2>3. QED
    BY <2>1, <2>2, <1>6, <1>8
<1>10. Done(n)
  <2> SUFFICES ASSUME NEW j \in 1 .. n
               PROVE  f[n][o[j]] = WireFn(o[j], f[j - 1])
    OBVIOUS
  <2>1. CASE j = n
    BY <2>1, <1>8
  <2>2. CASE j # n
    <3>1. j \in 1 .. n - 1 /\ j \in DOMAIN o /\ n \in DOMAIN o
      BY <2>2, <1>5
    <3>2. o[j] \in Wires /\ o[j] # o[n]
      BY <3>1, <2>2
    <3>3. QED
      BY <3>1, <3>2, <1>6, <1>8
  <2>3. QED
    BY <2>1, <2>2
<1>11. QED
  BY <1>2, <1>9, <1>10

LEMMA StagesAre ==
    ASSUME NEW o \in Seq(Wires), NEW e \in Env, NEW f,
           f = [i \in 0 .. Len(o) |->
                  IF i = 0 THEN e ELSE [f[i - 1] EXCEPT ![o[i]] = WireFn(o[i], f[i - 1])]]
    PROVE  Stages(o, e, Len(o), f)
<1> DEFINE Bad == {i \in 0 .. Len(o) : f[i] \notin Env}
<1>1. f[0] = e
  OBVIOUS
<1>2. \A i \in 1 .. Len(o) : f[i] = Assign(f[i - 1], o[i])
  <2> TAKE i \in 1 .. Len(o)
  <2>1. i \in 0 .. Len(o) /\ i # 0
    OBVIOUS
  <2>2. f[i] = IF i = 0 THEN e ELSE [f[i - 1] EXCEPT ![o[i]] = WireFn(o[i], f[i - 1])]
    BY <2>1, Zenon
  <2>3. QED
    BY <2>1, <2>2, Zenon DEF Assign
<1>3. Bad = {}
  <2> SUFFICES ASSUME Bad # {} PROVE FALSE
    OBVIOUS
  <2>1. PICK n \in Bad : \A k \in Bad : n <= k
    <3>1. Bad \in SUBSET Nat
      OBVIOUS
    <3> HIDE DEF Bad
    <3>2. QED
      BY <3>1, LeastNatural
  <2>2. n \in 1 .. Len(o) /\ n - 1 \in 0 .. Len(o) /\ ~(n <= n - 1)
    BY <2>1, <1>1
  <2>3. f[n - 1] \in Env /\ o[n] \in Wires
    <3>1. o[n] \in Wires
      BY <2>2
    <3>2. n - 1 \notin Bad
      BY <2>1, <2>2
    <3>3. QED
      BY <3>1, <3>2, <2>2
  <2>4. Assign(f[n - 1], o[n]) \in Env
    BY <2>3, AssignTypes
  <2>5. QED
    BY <2>1, <2>2, <2>4, <1>2
<1>4. f = [i \in 0 .. Len(o) |-> f[i]]
  OBVIOUS
<1>5. f \in [0 .. Len(o) -> Env]
  BY <1>3, <1>4
<1>6. QED
  BY <1>1, <1>2, <1>5 DEF Stages

LEMMA KeptAgree ==
    ASSUME NEW d \in Env, NEW e \in Env, NEW names,
           \A x \in names \cap (Sigs \cup Wires) : d[x] = e[x]
    PROVE  Kept(d, names) = Kept(e, names)
BY DEF Kept, Env

LEMMA PassReads ==
    ASSUME plan \in Plans, NEW r \in Passes, NEW i \in DOMAIN plan.order[r],
           NEW d \in Env, NEW e \in Env,
           \A x \in Leaves(plan, plan.dataPage[r]) : d[x] = e[x],
           \A w \in plan.foreign[r] : d[w] = e[w],
           \A j \in 1 .. i - 1 : d[plan.order[r][j]] = e[plan.order[r][j]]
    PROVE  WireFn(plan.order[r][i], d) = WireFn(plan.order[r][i], e)
<1> DEFINE S == Leaves(plan, plan.dataPage[r]) \cup plan.foreign[r]
                    \cup {plan.order[r][j] : j \in 1 .. i - 1}
<1>1. \A x \in S : d[x] = e[x]
  OBVIOUS
<1>2. /\ WireFn(plan.order[r][i], d) = WireFn(plan.order[r][i], Kept(d, S))
      /\ WireFn(plan.order[r][i], e) = WireFn(plan.order[r][i], Kept(e, S))
  BY ReadsSound DEF Passes
<1> HIDE DEF S
<1>3. Kept(d, S) = Kept(e, S)
  BY <1>1, KeptAgree
<1>4. QED
  BY <1>2, <1>3

LEMMA NowIsEnv ==
    ASSUME cur \in State, wval \in [Wires -> Val]
    PROVE  Now \in Env
BY DEF Now, State, Env

(* A computed pass has the values of its expressions.                      *)
LEMMA Computes ==
    ASSUME plan \in Plans, cur \in State, wval \in [Wires -> Val], NEW r \in Passes
    PROVE  /\ Computed(r) \in [Wires -> Val]
           /\ \A w \in Wires \ WiresOf(r) : Computed(r)[w] = wval[w]
           /\ \A w \in WiresOf(r) : Computed(r)[w] = WireFn(w, Extend(cur, Computed(r)))
<1> DEFINE o == plan.order[r]
           N == Len(o)
           u[i \in 0 .. Len(plan.order[r])] ==
              IF i = 0 THEN Now
              ELSE [u[i - 1] EXCEPT ![plan.order[r][i]] = WireFn(plan.order[r][i], u[i - 1])]
<1>1. Now \in Env
  BY NowIsEnv
<1>2. o \in Seq(Wires) /\ \A i, j \in DOMAIN o : o[i] = o[j] => i = j
  BY Tables, PlanTypes DEF Passes
<1>3. u = [i \in 0 .. Len(plan.order[r]) |->
              IF i = 0 THEN Now
              ELSE [u[i - 1] EXCEPT ![plan.order[r][i]] = WireFn(plan.order[r][i], u[i - 1])]]
  <2> SUFFICES \E f : f = [i \in 0 .. Len(plan.order[r]) |->
              IF i = 0 THEN Now
              ELSE [f[i - 1] EXCEPT ![plan.order[r][i]] = WireFn(plan.order[r][i], f[i - 1])]]
    BY Zenon
  <2> HIDE DEF u
  <2>1. PICK f : Stages(o, Now, N, f)
    BY <1>1, <1>2, StagesExist
  <2>2. /\ f = [i \in 0 .. N |-> f[i]] /\ f[0] = Now
        /\ \A i \in 1 .. N : f[i] = Assign(f[i - 1], o[i])
    BY <2>1 DEF Stages
  <2>3. \A i \in 0 .. N : f[i] = IF i = 0 THEN Now ELSE Assign(f[i - 1], o[i])
    BY <2>2
  <2>4. f = [i \in 0 .. N |-> IF i = 0 THEN Now ELSE Assign(f[i - 1], o[i])]
    BY <2>2, <2>3, Zenon
  <2>5. QED
    BY <2>4, Zenon DEF Assign
<1>4. Computed(r) = [w \in Wires |-> u[Len(plan.order[r])][w]]
  BY Zenon DEF Computed
<1> HIDE DEF u
<1>5. Stages(o, Now, N, u)
  BY <1>1, <1>2, <1>3, StagesAre
<1>6. \A n \in 0 .. N :
         /\ \A x \in (Sigs \cup Wires) \ {o[j] : j \in 1 .. n} : u[n][x] = Now[x]
         /\ \A j \in 1 .. n : u[n][o[j]] = WireFn(o[j], u[j - 1])
  BY <1>1, <1>2, <1>5, StagesKeep
<1>7. u \in [0 .. N -> Env] /\ N \in 0 .. N /\ DOMAIN o = 1 .. N
  BY <1>2, <1>5 DEF Stages
<1>8. u[N] \in Env
  BY <1>7
<1>9. Computed(r) \in [Wires -> Val]
  BY <1>4, <1>8 DEF Env
<1>10. WiresOf(r) = {o[j] : j \in 1 .. N}
  BY <1>7 DEF WiresOf
<1>11. ASSUME NEW w \in Wires \ WiresOf(r)
       PROVE  Computed(r)[w] = wval[w]
  <2>1. u[N][w] = Now[w]
    BY <1>6, <1>7, <1>10
  <2>2. QED
    BY <2>1, <1>4, NetlistAssumption DEF Now
<1>12. \A x \in Sigs : u[N][x] = cur[x]
  <2> TAKE x \in Sigs
  <2>1. x \notin {o[j] : j \in 1 .. N}
    BY <1>2, <1>7, NetlistAssumption
  <2>2. u[N][x] = Now[x]
    BY <2>1, <1>6, <1>7
  <2>3. QED
    BY <2>2 DEF Now
<1>13. Extend(cur, Computed(r)) = u[N]
  BY <1>4, <1>8, <1>12 DEF Extend, Env
<1>14. ASSUME NEW j \in 1 .. N
       PROVE  Computed(r)[o[j]] = WireFn(o[j], u[N])
  <2>1. j - 1 \in 0 .. N /\ j \in DOMAIN plan.order[r] /\ o[j] \in Wires
    BY <1>2, <1>7
  <2>2. u[j - 1] \in Env
    BY <1>7, <2>1
  <2>3. \A x \in Leaves(plan, plan.dataPage[r]) : u[j - 1][x] = u[N][x]
    <3> TAKE x \in Leaves(plan, plan.dataPage[r])
    <3>1. x \in Sigs /\ x \notin {o[k] : k \in 1 .. N}
      BY <1>2, <1>7, NetlistAssumption DEF Leaves
    <3>2. x \notin {o[k] : k \in 1 .. j - 1}
      BY <3>1
    <3>3. QED
      BY <3>1, <3>2, <2>1, <1>6, <1>7
  <2>4. \A x \in plan.foreign[r] : u[j - 1][x] = u[N][x]
    <3> TAKE x \in plan.foreign[r]
    <3>1. x \in Wires /\ x \notin {o[k] : k \in 1 .. N}
      BY <1>7, PlanTypes, PassesSound DEF Passes, InPass
    <3>2. x \notin {o[k] : k \in 1 .. j - 1}
      BY <3>1
    <3>3. QED
      BY <3>1, <3>2, <2>1, <1>6, <1>7
  <2>5. \A k \in 1 .. j - 1 : u[j - 1][plan.order[r][k]] = u[N][plan.order[r][k]]
    <3> TAKE k \in 1 .. j - 1
    <3>1. u[j - 1][o[k]] = WireFn(o[k], u[k - 1])
      BY <2>1, <1>6
    <3>2. k \in 1 .. N
      OBVIOUS
    <3>3. u[N][o[k]] = WireFn(o[k], u[k - 1])
      BY <3>2, <1>6, <1>7
    <3>4. QED
      BY <3>1, <3>3
  <2>6. WireFn(o[j], u[j - 1]) = WireFn(o[j], u[N])
    BY <1>8, <2>1, <2>2, <2>3, <2>4, <2>5, PassReads
  <2>7. u[N][o[j]] = WireFn(o[j], u[j - 1])
    BY <1>6, <1>7
  <2>8. QED
    BY <2>1, <2>6, <2>7, <1>4
<1>15. QED
  BY <1>9, <1>10, <1>11, <1>13, <1>14
-----------------------------------------------------------------------------
(***************************************************************************)
(* Type correctness, and the summary counts what is live.                  *)
(***************************************************************************)
LEMMA LeastElement ==
    ASSUME NEW S \in SUBSET Nat, S # {}
    PROVE  Least(S) \in S /\ \A k \in S : Least(S) <= k
BY LeastNatural DEF Least

(* What the bump of the changed elements X does to the pages.              *)
LEMMA BumpPages ==
    ASSUME TypeOK, NEW X \in SUBSET Sigs, Bump(X)
    PROVE  /\ pg' \in [plan.pages -> Nat]
           /\ \A g \in plan.pages : IF X \cap Leaves(plan, g) = {} THEN pg'[g] = pg[g]
                                                                   ELSE pg'[g] > pg[g]
<1> DEFINE hit(g) == {x \in X : g \in plan.leafPages[x]}
<1>1. DOMAIN pg = plan.pages /\ \A g \in plan.pages : pg[g] \in Nat
  BY DEF TypeOK
<1>2. pg' = [g \in DOMAIN pg |-> pg[g] + Cardinality(hit(g))]
  BY DEF Bump
<1>3. ASSUME NEW g \in plan.pages
      PROVE  /\ Cardinality(hit(g)) \in Nat
             /\ X \cap Leaves(plan, g) = {} <=> Cardinality(hit(g)) = 0
  <2>1. hit(g) \subseteq Sigs /\ IsFiniteSet(Sigs)
    BY EagerAssumption
  <2>2. IsFiniteSet(hit(g))
    BY <2>1, FS_Subset
  <2>3. Cardinality(hit(g)) \in Nat /\ (Cardinality(hit(g)) = 0 <=> hit(g) = {})
    BY <2>2, FS_CardinalityType, FS_EmptySet
  <2>4. X \cap Leaves(plan, g) = hit(g)
    BY DEF Leaves
  <2>5. QED
    BY <2>3, <2>4
<1> HIDE DEF hit
<1>4. QED
  BY <1>1, <1>2, <1>3

LEMMA BumpWakes ==
    ASSUME TypeOK, NEW X \in SUBSET Sigs, Bump(X)
    PROVE  /\ awake' = awake \cup UNION {plan.leafHolds[x] : x \in X} /\ awake' \subseteq Holds
           /\ WakePasses(UNION {plan.leafPasses[x] : x \in X}, {})
<1>1. \A x \in Sigs : plan.leafHolds[x] \subseteq Holds
  BY PlanTypes DEF TypeOK
<1>2. QED
  BY <1>1 DEF Bump, TypeOK

(* The two ways a pass can run.                                            *)
Skips(r, taken) ==
    /\ ~Dirty(r) /\ UNCHANGED <<wval, ed, up, awake>> /\ WakePasses({}, taken)
Moved(r) == {w \in WiresOf(r) \cap Scalar : Computed(r)[w] # wval[w]}
Told(r) == UNION {plan.consumers[w] : w \in Moved(r) \cup (WiresOf(r) \ Scalar)}
Recomputes(r, taken) ==
    /\ Dirty(r) /\ wval' = Computed(r) /\ ed' = [ed EXCEPT ![r] = pg[plan.dataPage[r]]]
    /\ up' = [q \in Passes |-> q \in Told(r) \/ (q # r /\ up[q])]
    /\ awake' = awake \cup UNION {plan.cutHolds[w] : w \in Moved(r)}
    /\ WakePasses(Told(r), taken)

LEMMA RunCases ==
    ASSUME NEW r, NEW taken, RunPass(r, taken)
    PROVE  /\ eg' = [eg EXCEPT ![r] = pg[PageOf(r)]]
           /\ Skips(r, taken) \/ Recomputes(r, taken)
BY DEF RunPass, Skips, Recomputes, Dirty, Moved, Told, MarkUps, WakenBy

LEMMA ToldTypes ==
    ASSUME plan \in Plans, NEW r \in Passes
    PROVE  Told(r) \subseteq Passes /\ Moved(r) \subseteq Eager
BY Tables, PlanTypes DEF Told, Moved, Passes, Eager

LEMMA RunTypes ==
    ASSUME TypeOK, NEW r \in Passes, NEW taken, RunPass(r, taken)
    PROVE  /\ wval' \in [Wires -> Val] /\ awake' \subseteq Holds
           /\ eg' \in [Passes -> Nat] /\ ed' \in [Passes -> Nat] /\ up' \in [Passes -> BOOLEAN]
           /\ \E rs : WakePasses(rs, taken)
<1>1. plan \in Plans /\ PageOf(r) \in plan.pages /\ plan.dataPage[r] \in plan.pages
  <2>1. plan \in Plans /\ plan.order[r][1] \in Wires
    BY Tables DEF TypeOK
  <2>2. QED
    BY <2>1, PlanTypes DEF PageOf, Passes
<1>2. eg' \in [Passes -> Nat]
  BY <1>1, RunCases DEF TypeOK
<1>3. CASE Skips(r, taken)
  BY <1>2, <1>3 DEF Skips, TypeOK
<1>4. CASE Recomputes(r, taken)
  <2>1. wval' \in [Wires -> Val]
    BY <1>1, <1>4, Computes DEF Recomputes, TypeOK
  <2>2. ed' \in [Passes -> Nat] /\ up' \in [Passes -> BOOLEAN]
    BY <1>1, <1>4 DEF Recomputes, TypeOK
  <2>3. awake' \subseteq Holds
    <3>1. \A w \in Moved(r) : plan.cutHolds[w] \subseteq Holds
      BY <1>1, ToldTypes, PlanTypes DEF Eager
    <3>2. QED
      BY <3>1, <1>4 DEF Recomputes, TypeOK
  <2>4. QED
    BY <1>2, <1>4, <2>1, <2>2, <2>3 DEF Recomputes
<1>5. QED
  BY <1>3, <1>4, RunCases

(* The pass that the drain takes next.                                     *)
LEMMA TakenPass ==
    ASSUME plan \in Plans, WorkOK, TakePass
    PROVE  /\ NextPass \in Bits /\ NextPass \in Passes
           /\ plan.bit[NextPass] = Least(PendingHere)
           /\ Least(PendingHere) \in PendingHere
           /\ \A b \in PendingHere : Least(PendingHere) <= b
<1>1. PendingHere \in SUBSET Nat /\ PendingHere # {}
  <2>1. \A b \in pNeed : b \in Nat
    BY WordOfBit DEF WorkOK
  <2>2. QED
    BY <2>1 DEF PendingHere, TakePass
<1>2. /\ Least(PendingHere) \in PendingHere /\ Least(PendingHere) \in Nat
      /\ \A b \in PendingHere : Least(PendingHere) <= b
  BY <1>1, LeastElement
<1>3. Least(PendingHere) \in 0 .. NPasses - 1
  BY <1>2, BitFacts DEF TakePass
<1>4. \E r \in Bits : plan.bit[r] = Least(PendingHere)
  BY <1>3, BitFacts
<1>5. NextPass \in Bits /\ plan.bit[NextPass] = Least(PendingHere)
  BY <1>4 DEF NextPass, Bits
<1>6. QED
  BY <1>2, <1>5, BitFacts

LEMMA InitTypes == Init => TypeOK
<1> SUFFICES ASSUME Init PROVE TypeOK
  OBVIOUS
<1>1. plan \in Plans /\ Passes \subseteq Nat
  BY Tables DEF Init
<1>2. QED
  BY <1>1, NetlistAssumption, PlanTypes DEF Init, TypeOK, State

(* Poking keeps the types, and either starts the pages or bumps them.      *)
LEMMA PokeTypes ==
    ASSUME TypeOK, PokeInputs
    PROVE  /\ prev' \in [Inputs -> Val] /\ inited' \in BOOLEAN
           /\ pg' \in [plan.pages -> Nat] /\ awake' \subseteq Holds
           /\ (\E rs : WakePasses(rs, {})) \/ UNCHANGED workVars
<1>1. prev' \in [Inputs -> Val] /\ inited' \in BOOLEAN
  BY DEF PokeInputs, TypeOK, State, Sigs
<1>2. CASE inited
  <2> DEFINE X == {i \in UsedInputs : cur[i] # prev[i]}
  <2>1. X \in SUBSET Sigs /\ Bump(X)
    BY <1>2 DEF PokeInputs, UsedInputs, Sigs
  <2> HIDE DEF X
  <2>2. QED
    BY <1>1, <2>1, BumpPages, BumpWakes
<1>3. CASE ~inited
  BY <1>1, <1>3 DEF PokeInputs, TypeOK
<1>4. QED
  BY <1>2, <1>3

LEMMA TypeStep ==
    ASSUME TypeOK, WorkOK, [Next]_vars
    PROVE  TypeOK'
<1> USE DEF hostVars, passVars, workVars, scanVars, holdVars
<1>1. CASE UNCHANGED vars
  BY <1>1 DEF vars, TypeOK, Passes
<1>2. ASSUME NEW i \in Inputs, NEW v \in Val, DriveInput(i, v)
      PROVE  TypeOK'
  BY <1>2 DEF DriveInput, TypeOK, Passes, State, Sigs
<1>3. ASSUME NEW w \in Outputs, EvalOutput(w)
      PROVE  TypeOK'
  BY <1>3, EagerAssumption DEF EvalOutput, TypeOK, Passes
<1>4. CASE EvalReturn
  BY <1>4 DEF EvalReturn, TypeOK, Passes
<1>5. CASE Poke \/ Tick
  <2>1. PokeInputs /\ UNCHANGED <<plan, cur, passVars, scanVars, want, holdVars>>
    BY <1>5 DEF Poke, Tick
  <2>2. pc' \in {"idle", "posedge"} /\ cycle' \in Nat
    BY <1>5 DEF Poke, Tick, TypeOK
  <2>3. QED
    BY <2>1, <2>2, PokeTypes DEF TypeOK, Passes
<1>6. CASE ForceWakeAll
  BY <1>6 DEF ForceWakeAll, TypeOK, Passes
<1>7. ASSUME NEW w \in Wires, PullDeps(w)
      PROVE  TypeOK'
  <2>1. CallDeps(w) \subseteq Wires
    BY Tables, PlanTypes DEF CallDeps, StaleIn, Eager, Passes, TypeOK
  <2>2. QED
    BY <1>7, <2>1 DEF PullDeps, TypeOK, Passes
<1>8. ASSUME NEW w \in Wires, EvalPass(w)
      PROVE  TypeOK'
  <2>1. plan.passOf[w] \in Passes /\ RunPass(plan.passOf[w], {})
    BY <1>8, Tables DEF EvalPass, TypeOK
  <2>2. QED
    BY <1>8, <2>1, RunTypes DEF EvalPass, TypeOK, Passes
<1>9. ASSUME NEW w \in Wires, EvalLazy(w)
      PROVE  TypeOK'
  <2>1. WireFn(w, Now) \in Val /\ pg[plan.page[w]] \in Nat
    BY NowIsEnv, NetlistAssumption, PlanTypes DEF TypeOK
  <2>2. QED
    BY <1>9, <2>1 DEF EvalLazy, TypeOK, Passes
<1>10. CASE StartDrain \/ NextWord \/ SkipTail \/ LeaveWord \/ NextSum
  BY <1>10 DEF StartDrain, NextWord, SkipTail, LeaveWord, NextSum, DispatchHolds, TypeOK, Passes
<1>11. CASE CallPass
  <2>1. plan.order[NextPass][1] \in Wires
    BY <1>11, TakenPass, Tables DEF CallPass, TypeOK
  <2>2. QED
    BY <1>11, <2>1 DEF CallPass, TypeOK, Passes, StaleIn
<1>12. CASE RunReadyPass
  <2>1. NextPass \in Passes
    BY <1>12, TakenPass DEF RunReadyPass, TypeOK
  <2>2. CASE eg[NextPass] = pg[PageOf(NextPass)]
    BY <1>12, <2>2 DEF RunReadyPass, TypeOK, Passes
  <2>3. CASE RunPass(NextPass, {Least(PendingHere)})
    BY <1>12, <2>1, <2>3, RunTypes DEF RunReadyPass, TypeOK, Passes
  <2>4. QED
    BY <1>12, <2>2, <2>3 DEF RunReadyPass
<1>13. CASE SkipHold
  BY <1>13 DEF SkipHold, TypeOK, Passes
<1>14. CASE DemandReads
  <2>1. turn \in Holds
    BY <1>14 DEF DemandReads, TypeOK
  <2>2. Demanded \subseteq Wires
    BY <2>1, PlanTypes DEF Demanded, StaleIn, TypeOK
  <2>3. QED
    BY <1>14, <2>2 DEF DemandReads, TypeOK, Passes
<1>15. CASE RunHold
  <2>1. Now \in Env /\ turn \in Holds
    BY <1>15, NowIsEnv DEF RunHold, TypeOK
  <2>2. /\ DOMAIN HoldFn(turn, Now) \subseteq Regs
        /\ \A r \in DOMAIN HoldFn(turn, Now) : HoldFn(turn, Now)[r] \in Val
    BY <2>1, NetlistAssumption
  <2>3. nxt' \in [Regs -> Val] /\ list' \subseteq Regs /\ awake' \subseteq Holds
    BY <1>15, <2>2 DEF RunHold, TypeOK
  <2>4. QED
    BY <1>15, <2>3 DEF RunHold, TypeOK, Passes
<1>16. CASE Commit
  <2> DEFINE X == {r \in list : nxt[r] # cur[r]}
  <2>1. X \in SUBSET Regs /\ X \in SUBSET Sigs /\ Bump(X)
    BY <1>16 DEF Commit, TypeOK, Sigs
  <2>2. cur' \in State
    BY <1>16, <2>1 DEF Commit, TypeOK, State
  <2> HIDE DEF X
  <2>3. QED
    BY <1>16, <2>1, <2>2, BumpPages, BumpWakes DEF Commit, TypeOK, Passes
<1>17. QED
  BY <1>1, <1>2, <1>3, <1>4, <1>5, <1>6, <1>7, <1>8, <1>9, <1>10, <1>11, <1>12, <1>13,
     <1>14, <1>15, <1>16 DEF Next, Host, Lazily, Drain, HoldSteps

LEMMA InitWork == Init => WorkOK /\ CursorOK
<1> SUFFICES ASSUME Init PROVE WorkOK /\ CursorOK
  OBVIOUS
<1>1. /\ plan \in Plans /\ pc = "idle" /\ sw = 0
      /\ pNeed = 0 .. NWords * W - 1 /\ pAny = 0 .. NWords - 1 /\ pWords = NSums
  BY DEF Init
<1>2. \A b \in pNeed : b \div W \in pAny
  BY <1>1, WordOfBit
<1>3. pWords = Cardinality(Sums(pAny))
  BY <1>1, AllSums
<1>4. QED
  BY <1>1, <1>2, <1>3 DEF WorkOK, CursorOK

(* How a step can touch the bitmap of passes.                              *)
LEMMA WorkSteps ==
    ASSUME TypeOK, WorkOK, [Next]_vars
    PROVE  /\ UNCHANGED plan
           /\ \/ UNCHANGED workVars
              \/ \E rs, taken : WakePasses(rs, taken)
              \/ ForceWakeAll \/ SkipTail \/ CallPass \/ LeaveWord
<1>1. CASE UNCHANGED vars
  BY <1>1 DEF vars, workVars, hostVars
<1>2. CASE Poke \/ Tick
  BY <1>2, PokeTypes DEF Poke, Tick
<1>3. ASSUME NEW w \in Wires, EvalPass(w)
      PROVE  UNCHANGED plan /\ \E rs, taken : WakePasses(rs, taken)
  <2>1. plan.passOf[w] \in Passes /\ RunPass(plan.passOf[w], {}) /\ UNCHANGED plan
    BY <1>3, Tables DEF EvalPass, TypeOK, hostVars
  <2>2. QED
    BY <2>1, RunTypes
<1>4. CASE RunReadyPass
  <2>1. NextPass \in Passes /\ UNCHANGED plan
    BY <1>4, TakenPass DEF RunReadyPass, TypeOK, hostVars
  <2>2. QED
    BY <1>4, <2>1, RunTypes DEF RunReadyPass
<1>5. CASE Commit
  <2>1. {r \in list : nxt[r] # cur[r]} \in SUBSET Sigs
    BY DEF TypeOK, Sigs
  <2>2. QED
    BY <1>5, <2>1, BumpWakes DEF Commit
<1>6. CASE UNCHANGED workVars
  <2>1. UNCHANGED plan
    BY <1>1, <1>2, <1>3, <1>4, <1>5 DEF Next, Host, Lazily, Drain, HoldSteps, DriveInput,
       EvalOutput, EvalReturn, ForceWakeAll, PullDeps, EvalLazy, StartDrain, NextWord, SkipTail,
       CallPass, LeaveWord, NextSum, SkipHold, DemandReads, RunHold, hostVars
  <2>2. QED
    BY <1>6, <2>1
<1>7. QED
  BY <1>1, <1>2, <1>3, <1>4, <1>5, <1>6 DEF Next, Host, Lazily, Drain, HoldSteps, DriveInput,
     EvalOutput, EvalReturn, ForceWakeAll, PullDeps, EvalLazy, StartDrain, NextWord, SkipTail,
     CallPass, LeaveWord, NextSum, SkipHold, DemandReads, RunHold, hostVars

LEMMA WorkStep ==
    ASSUME TypeOK, WorkOK, CursorOK, [Next]_vars
    PROVE  WorkOK'
<1>1. plan \in Plans /\ UNCHANGED plan /\ NWords' = NWords
  BY WorkSteps, SameSizes DEF TypeOK
<1>2. CASE UNCHANGED workVars
  BY <1>1, <1>2 DEF WorkOK, workVars
<1>3. ASSUME NEW rs, NEW taken, WakePasses(rs, taken)
      PROVE  WorkOK'
  BY <1>1, <1>3, WakeKeepsWork
<1>4. CASE ForceWakeAll
  <2>1. pNeed' = 0 .. NPasses - 1 /\ pAny' = 0 .. NWords - 1 /\ pWords' = NSums
    BY <1>4 DEF ForceWakeAll
  <2>2. 0 .. NPasses - 1 \subseteq 0 .. NWords * W - 1
    <3> DEFINE n == NPasses  m == NWords * W
    <3>1. n \in Nat /\ m \in Nat /\ n <= m
      BY <1>1, BitFacts, EagerAssumption
    <3> HIDE DEF n, m
    <3>2. 0 .. n - 1 \subseteq 0 .. m - 1
      BY <3>1
    <3>3. QED
      BY <3>2 DEF n, m
  <2>3. \A b \in pNeed' : b \div W \in pAny'
    BY <1>1, <2>1, <2>2, WordOfBit
  <2>4. pWords' = Cardinality(Sums(pAny'))
    BY <1>1, <2>1, AllSums
  <2>5. QED
    BY <1>1, <2>1, <2>2, <2>3, <2>4 DEF WorkOK
<1>5. CASE SkipTail \/ CallPass
  BY <1>1, <1>5 DEF SkipTail, CallPass, WorkOK
<1>6. CASE LeaveWord
  <2>1. /\ pAny' = pAny \ {word} /\ pNeed' = pNeed /\ PendingHere = {}
        /\ pWords' = IF \E w \in pAny' : SumOf(w) = sw THEN pWords ELSE pWords - 1
        /\ word \in pAny /\ SumOf(word) = sw
    BY <1>6 DEF LeaveWord, CountLive, CursorOK
  <2>2. \A b \in pNeed : b \div W # word
    <3> TAKE b \in pNeed
    <3>1. b \in Nat /\ b \notin BitsIn(word)
      BY <1>1, <2>1, WordOfBit DEF WorkOK, PendingHere
    <3>2. word \in Nat /\ W \in Nat \ {0}
      BY <1>1, <2>1, BitFacts, EagerAssumption DEF WorkOK
    <3>3. b \div W = word => b \in word * W .. word * W + W - 1
      BY <3>1, <3>2
    <3>4. QED
      BY <3>1, <3>3 DEF BitsIn
  <2>3. pWords' = Cardinality(Sums(pAny'))
    <3>1. pAny \in SUBSET (0 .. NWords - 1) /\ pWords = Cardinality(Sums(pAny))
      BY DEF WorkOK
    <3>2. Cardinality(Sums(pAny \ {word})) =
            IF \E v \in pAny \ {word} : SumOf(v) = SumOf(word)
            THEN Cardinality(Sums(pAny)) ELSE Cardinality(Sums(pAny)) - 1
      BY <1>1, <2>1, <3>1, LeaveCount
    <3>3. QED
      BY <2>1, <3>1, <3>2
  <2>4. QED
    BY <1>1, <2>1, <2>2, <2>3 DEF WorkOK
<1>7. QED
  BY <1>2, <1>3, <1>4, <1>5, <1>6, WorkSteps

(* Waking passes moves no cursor and drops no live word.                   *)
LEMMA CursorKept ==
    ASSUME CursorOK, UNCHANGED <<pc, sw, swBits, word>>, pAny \subseteq pAny'
    PROVE  CursorOK'
BY DEF CursorOK, LiveWords, SumOf

LEMMA CursorStep ==
    ASSUME TypeOK, WorkOK, CursorOK, [Next]_vars
    PROVE  CursorOK'
<1> USE DEF hostVars, passVars, workVars, scanVars, holdVars
<1>1. plan \in Plans /\ UNCHANGED plan
  BY WorkSteps DEF TypeOK
<1>2. CASE UNCHANGED <<pc, sw, swBits, word, pAny>>
  BY <1>2, CursorKept
<1>3. CASE UNCHANGED sw /\ pc' \notin {"drain", "passes"}
  BY <1>3 DEF CursorOK
<1>4. ASSUME NEW w \in Wires, EvalPass(w)
      PROVE  CursorOK'
  <2>1. plan.passOf[w] \in Passes /\ RunPass(plan.passOf[w], {})
    BY <1>4, Tables DEF EvalPass, TypeOK
  <2>2. pAny \subseteq pAny'
    BY <1>1, <2>1, RunTypes, WakeKeepsWork
  <2>3. QED
    BY <1>4, <2>2, CursorKept DEF EvalPass
<1>5. CASE RunReadyPass
  <2>1. NextPass \in Passes
    BY <1>5, TakenPass DEF RunReadyPass, TypeOK
  <2>2. pAny \subseteq pAny'
    BY <1>1, <1>5, <2>1, RunTypes, WakeKeepsWork DEF RunReadyPass
  <2>3. QED
    BY <1>5, <2>2, CursorKept DEF RunReadyPass
<1>6. CASE StartDrain
  BY <1>6 DEF StartDrain, DispatchHolds, CursorOK, LiveWords
<1>7. CASE NextWord
  <2>1. swBits \subseteq LiveWords(sw) /\ LiveWords(sw) \in SUBSET Nat /\ swBits # {}
    <3>1. swBits \subseteq LiveWords(sw) /\ swBits # {}
      BY <1>7 DEF NextWord, CursorOK
    <3>2. pAny \in SUBSET Nat
      BY DEF WorkOK
    <3>3. QED
      BY <3>1, <3>2 DEF LiveWords
  <2>2. Least(swBits) \in swBits /\ \A k \in swBits : Least(swBits) <= k
    BY <2>1, LeastElement
  <2>3. word' = Least(swBits) /\ swBits' = swBits \ {word'} /\ UNCHANGED <<sw, pAny>>
    BY <1>7 DEF NextWord
  <2>4. \A k \in swBits' : k > word'
    BY <2>1, <2>2, <2>3
  <2>5. QED
    BY <1>7, <2>1, <2>2, <2>3, <2>4 DEF NextWord, CursorOK, LiveWords, SumOf
<1>8. CASE LeaveWord
  <2>1. /\ pAny' = pAny \ {word} /\ UNCHANGED sw /\ pc' = "drain"
        /\ swBits' = swBits \cup {w \in pAny' : SumOf(w) = sw /\ w > word}
        /\ swBits \subseteq {w \in LiveWords(sw) : w > word} /\ word \in Nat
    BY <1>1, <1>8, BitFacts DEF LeaveWord, StillToVisit, CursorOK, WorkOK
  <2>2. word \notin swBits
    BY <2>1
  <2>3. QED
    BY <2>1, <2>2 DEF CursorOK, LiveWords, SumOf
<1>9. CASE NextSum
  BY <1>9 DEF NextSum, DispatchHolds, CursorOK, LiveWords
<1>10. QED
  BY <1>2, <1>3, <1>4, <1>5, <1>6, <1>7, <1>8, <1>9 DEF Next, Host, Lazily, Drain, HoldSteps,
     vars, DriveInput, EvalOutput, EvalReturn, Poke, Tick, ForceWakeAll, PullDeps, EvalLazy,
     SkipTail, CallPass, SkipHold, DemandReads, RunHold, Commit

TypeInv == TypeOK /\ WorkOK /\ CursorOK

LEMMA TypeInvariance == Spec => []TypeInv
<1>1. Init => TypeInv
  BY InitTypes, InitWork DEF TypeInv
<1>2. TypeInv /\ [Next]_vars => TypeInv'
  BY TypeStep, WorkStep, CursorStep DEF TypeInv
<1>3. QED
  BY <1>1, <1>2, PTL DEF Spec

(* Whatever tables the module was compiled with, and however pokes, ticks, *)
(* forced wakes and output reads come in, a pending pass is in a live word *)
(* of the summary, and the count of live summary words is exact.           *)
THEOREM PendingPassesAreArmed == Spec => []PendingPassIsArmed
<1>1. TypeInv => PendingPassIsArmed
  BY DEF TypeInv, WorkOK, PendingPassIsArmed, Sums
<1>2. QED
  BY <1>1, TypeInvariance, PTL
-----------------------------------------------------------------------------
(***************************************************************************)
(* The order of the phases, and the stamps.                                *)
(***************************************************************************)
LEMMA PageTypes ==
    ASSUME plan \in Plans
    PROVE  /\ \A r \in Passes : PageOf(r) \in plan.pages /\ plan.dataPage[r] \in plan.pages
           /\ \A w \in Wires : plan.page[w] \in plan.pages
<1>1. \A r \in Passes : plan.order[r][1] \in Wires
  BY Tables
<1>2. QED
  BY <1>1, PlanTypes DEF PageOf, Passes

LEMMA SeenIsState ==
    ASSUME TypeOK
    PROVE  Seen \in State
BY DEF TypeOK, Seen, State, UsedInputs

(* Poking makes Seen the inputs as they stand.                             *)
LEMMA PokeSees ==
    ASSUME TypeOK, PokeInputs, UNCHANGED <<plan, cur>>
    PROVE  Seen' = cur /\ inited'
<1>1. \A i \in UsedInputs : i \in Inputs /\ prev'[i] = cur[i]
  BY DEF PokeInputs, UsedInputs
<1>2. UsedInputs' = UsedInputs
  BY DEF UsedInputs
<1>3. DOMAIN cur = Sigs /\ cur = [x \in Sigs |-> cur[x]]
  BY DEF TypeOK, State
<1>4. QED
  BY <1>1, <1>2, <1>3 DEF Seen, PokeInputs

LEMMA SeenKept ==
    ASSUME UNCHANGED <<plan, cur, prev>>
    PROVE  Seen' = Seen
BY DEF Seen, UsedInputs

(* Running pass r changes which wires are stale for its own wires only.    *)
LEMMA RunFreshens ==
    ASSUME TypeOK, UNCHANGED <<plan, pg, ok>>, NEW r \in Passes,
           eg' = [eg EXCEPT ![r] = pg[PageOf(r)]]
    PROVE  \A w \in Wires : Stale(w)' <=> Stale(w) /\ w \notin WiresOf(r)
<1>1. \A w \in Eager : plan.passOf[w] \in Passes /\ w \in WiresOf(plan.passOf[w])
  BY Tables DEF TypeOK
<1>2. \A w \in WiresOf(r) : w \in Eager /\ plan.passOf[w] = r /\ plan.page[w] = PageOf(r)
  BY Tables DEF TypeOK
<1>3. DOMAIN eg = Passes
  BY DEF TypeOK
<1>4. Eager' = Eager
  BY DEF Eager
<1>5. TAKE w \in Wires
<1>6. CASE w \in WiresOf(r)
  BY <1>2, <1>3, <1>4, <1>6 DEF Stale
<1>7. CASE w \notin WiresOf(r)
  BY <1>1, <1>3, <1>4, <1>7 DEF Stale
<1>8. QED
  BY <1>6, <1>7

LEMMA InitPhases == Init => Phases /\ Stamps
<1> SUFFICES ASSUME Init PROVE Phases /\ Stamps
  OBVIOUS
<1>1. plan \in Plans /\ \A g \in plan.pages : pg[g] = 0
  BY DEF Init
<1>2. QED
  BY <1>1, PageTypes DEF Init, Phases, Stamps

LEMMA StaleKept ==
    ASSUME UNCHANGED <<plan, pg, ok, eg>>, NEW w
    PROVE  Stale(w)' <=> Stale(w)
BY DEF Stale, Eager

LEMMA PhasesStep ==
    ASSUME TypeOK, WorkOK, Phases, [Next]_vars
    PROVE  Phases'
<1> USE DEF hostVars, passVars, workVars, scanVars, holdVars
<1>1. plan \in Plans /\ UNCHANGED plan /\ Passes' = Passes
  BY WorkSteps DEF TypeOK, Passes
<1>2. CASE UNCHANGED <<cur, prev, inited, pg, ok, eg, ed>>
  <2>1. Seen' = Seen
    BY <1>1, <1>2, SeenKept
  <2>2. \A w : Stale(w)' <=> Stale(w)
    BY <1>1, <1>2, StaleKept
  <2>3. CASE /\ inited \/ pc' = "idle"
             /\ pc' = "idle" \/ pc # "idle"
             /\ want' \subseteq want
             /\ pc' \in {"idle", "posedge", "drain"} => want' = {}
    BY <1>1, <1>2, <2>1, <2>2, <2>3 DEF Phases
  <2>4. ASSUME NEW w \in Outputs, EvalOutput(w)
        PROVE  Phases'
    BY <1>1, <1>2, <2>1, <2>2, <2>4 DEF Phases, EvalOutput
  <2>5. ASSUME NEW w \in Wires, PullDeps(w)
        PROVE  Phases'
    <3>1. \A v \in CallDeps(w) : Stale(v)
      BY DEF CallDeps, StaleIn
    <3>2. pc \notin {"idle", "posedge", "drain"} /\ pc' = pc /\ inited
      BY <2>5 DEF PullDeps, Phases
    <3>3. QED
      BY <1>1, <1>2, <2>1, <2>2, <2>5, <3>1, <3>2 DEF Phases, PullDeps
  <2>6. CASE CallPass
    BY <1>1, <1>2, <2>1, <2>2, <2>6 DEF Phases, CallPass, TakePass, StaleIn
  <2>7. CASE DemandReads
    BY <1>1, <1>2, <2>1, <2>2, <2>7 DEF Phases, DemandReads, Demanded, StaleIn
  <2>8. CASE UNCHANGED <<pc, want>>
    BY <2>3, <2>8 DEF Phases
  <2>9. CASE EvalReturn \/ StartDrain \/ NextWord \/ LeaveWord \/ NextSum
    BY <2>3, <2>9 DEF Phases, EvalReturn, StartDrain, NextWord, LeaveWord, NextSum,
       DispatchHolds, TypeOK
  <2>10. CASE \E w \in Wires : EvalPass(w) \/ EvalLazy(w)
    <3>1. PICK w \in Wires : EvalPass(w) \/ EvalLazy(w)
      BY <2>10
    <3>2. want' \subseteq want /\ w \in want /\ pc' = pc
      BY <3>1 DEF EvalPass, EvalLazy
    <3>3. QED
      BY <2>3, <3>2 DEF Phases
  <2>11. CASE (\E i \in Inputs, v \in Val : DriveInput(i, v)) \/ Poke \/ Tick \/ ForceWakeAll
               \/ Commit
    <3>1. CASE UNCHANGED <<pc, want>>
      BY <2>8, <3>1
    <3>2. CASE Tick
      <4>1. PokeInputs /\ UNCHANGED <<cur, want>> /\ pc' = "posedge" /\ pc = "idle"
        BY <3>2 DEF Tick
      <4>2. Seen' = cur' /\ inited'
        BY <1>1, <4>1, PokeSees
      <4>3. QED
        BY <4>1, <4>2 DEF Phases
    <3>3. CASE Commit
      BY <2>3, <3>3 DEF Commit, Phases
    <3>4. QED
      BY <2>11, <3>1, <3>2, <3>3 DEF DriveInput, Poke, ForceWakeAll
  <2>12. CASE SkipHold \/ RunHold \/ RunReadyPass \/ SkipTail
    BY <2>8, <2>12 DEF SkipHold, RunHold, RunReadyPass, SkipTail
  <2>13. QED
    BY <2>4, <2>5, <2>6, <2>7, <2>8, <2>9, <2>10, <2>11, <2>12 DEF Next, Host, Lazily, Drain,
       HoldSteps, vars
<1>3. ASSUME NEW i \in Inputs, NEW v \in Val, DriveInput(i, v)
      PROVE  Phases'
  <2>1. \A w : Stale(w)' <=> Stale(w)
    BY <1>1, <1>3, StaleKept DEF DriveInput
  <2>2. QED
    BY <1>1, <1>3, <2>1 DEF DriveInput, Phases
<1>4. CASE Poke \/ Tick
  <2>1. /\ PokeInputs /\ UNCHANGED <<cur, want>> /\ pc' \in {"idle", "posedge"} /\ pc = "idle"
    BY <1>4 DEF Poke, Tick
  <2>2. Seen' = cur' /\ inited'
    BY <1>1, <2>1, PokeSees
  <2>3. QED
    BY <2>1, <2>2 DEF Phases
<1>5. CASE ForceWakeAll
  BY <1>1, <1>5 DEF ForceWakeAll, Phases
<1>6. ASSUME NEW w \in Wires, EvalPass(w)
      PROVE  Phases'
  <2> DEFINE r == plan.passOf[w]
  <2>1. r \in Passes /\ w \in want
    BY <1>1, <1>6, Tables DEF EvalPass
  <2>2. eg' = [eg EXCEPT ![r] = pg[PageOf(r)]]
    BY <1>6, RunCases DEF EvalPass
  <2>3. \A v \in Wires : Stale(v)' <=> Stale(v) /\ v \notin WiresOf(r)
    BY <1>1, <1>6, <2>1, <2>2, RunFreshens DEF EvalPass
  <2>4. want' = want \ WiresOf(r) /\ UNCHANGED <<pc, cur, prev, inited>>
    BY <1>6 DEF EvalPass
  <2>5. Seen' = Seen
    BY <1>1, <2>4, SeenKept
  <2>6. inited
    BY <2>1 DEF Phases
  <2>7. \A v \in want' : Stale(v)'
    BY <2>3, <2>4 DEF Phases, TypeOK
  <2>8. QED
    BY <2>1, <2>4, <2>5, <2>6, <2>7 DEF Phases
<1>7. ASSUME NEW w \in Wires, EvalLazy(w)
      PROVE  Phases'
  <2>1. /\ want' = want \ {w} /\ UNCHANGED <<pc, cur, prev, inited>> /\ w \in want
        /\ ok' = [ok EXCEPT ![w] = pg[plan.page[w]]] /\ UNCHANGED <<eg, pg>>
    BY <1>7 DEF EvalLazy
  <2>2. Seen' = Seen
    BY <1>1, <2>1, SeenKept
  <2>3. \A v \in want' : Stale(v)' <=> Stale(v)
    BY <1>1, <2>1 DEF Stale, Eager, TypeOK
  <2>4. QED
    BY <2>1, <2>2, <2>3 DEF Phases
<1>8. CASE RunReadyPass
  <2>1. NextPass \in Passes /\ want = {} /\ UNCHANGED <<pc, want, cur, prev, inited>> /\ pc = "passes"
    BY <1>1, <1>8, TakenPass DEF RunReadyPass, TakePass
  <2>2. Seen' = Seen
    BY <1>1, <2>1, SeenKept
  <2>3. QED
    BY <2>1, <2>2 DEF Phases
<1>9. CASE Commit
  BY <1>1, <1>9 DEF Commit, Phases
<1>10. QED
  BY <1>2, <1>3, <1>4, <1>5, <1>6, <1>7, <1>8, <1>9 DEF Next, Host, Lazily, Drain, HoldSteps,
     vars, EvalOutput, EvalReturn, PullDeps, StartDrain, NextWord, SkipTail, CallPass,
     LeaveWord, NextSum, SkipHold, DemandReads, RunHold

LEMMA StampsStep ==
    ASSUME TypeOK, WorkOK, Phases, Stamps, [Next]_vars
    PROVE  Stamps'
<1> USE DEF hostVars, passVars, workVars, scanVars, holdVars
<1>1. plan \in Plans /\ UNCHANGED plan /\ Passes' = Passes /\ Eager' = Eager
  BY WorkSteps DEF TypeOK, Passes, Eager
<1>2. \A r \in Passes : PageOf(r)' = PageOf(r)
  BY <1>1 DEF PageOf
<1>3. ASSUME UNCHANGED <<ok, eg, ed>>, \A g \in plan.pages : pg[g] <= pg'[g], TypeOK'
      PROVE  Stamps'
  <2>1. \A r \in Passes : eg[r] \in Nat /\ ed[r] \in Nat
    BY DEF TypeOK
  <2>2. \A w \in Wires : ok[w] \in Nat
    BY DEF TypeOK
  <2>3. \A g \in plan.pages : pg[g] \in Nat /\ pg'[g] \in Nat
    BY <1>1, <1>3 DEF TypeOK
  <2>4. ASSUME NEW r \in Passes
        PROVE  eg[r] <= pg'[PageOf(r)] /\ ed[r] <= pg'[plan.dataPage[r]]
    <3>1. PageOf(r) \in plan.pages /\ plan.dataPage[r] \in plan.pages
      BY <1>1, PageTypes
    <3>2. eg[r] <= pg[PageOf(r)] /\ ed[r] <= pg[plan.dataPage[r]]
      BY DEF Stamps
    <3>3. QED
      BY <3>1, <3>2, <2>1, <2>3, <1>3
  <2>5. ASSUME NEW w \in Wires \ Eager
        PROVE  ok[w] <= pg'[plan.page[w]]
    <3>1. plan.page[w] \in plan.pages /\ ok[w] <= pg[plan.page[w]]
      BY <1>1, PageTypes DEF Stamps
    <3>2. QED
      BY <3>1, <2>2, <2>3, <1>3
  <2>6. QED
    BY <1>1, <1>2, <1>3, <2>4, <2>5 DEF Stamps
<1>4. TypeOK'
  BY TypeStep
<1>5. \A g \in plan.pages : pg[g] \in Nat
  BY DEF TypeOK
<1>6. CASE UNCHANGED <<ok, eg, ed, pg>>
  BY <1>3, <1>4, <1>5, <1>6
<1>7. CASE Poke \/ Tick
  <2>1. PokeInputs /\ UNCHANGED <<ok, eg, ed>>
    BY <1>7 DEF Poke, Tick
  <2>2. CASE inited
    <3> DEFINE X == {i \in UsedInputs : cur[i] # prev[i]}
    <3>1. X \in SUBSET Sigs /\ Bump(X)
      BY <2>1, <2>2 DEF PokeInputs, UsedInputs, Sigs
    <3> HIDE DEF X
    <3>2. \A g \in plan.pages : pg[g] <= pg'[g]
      BY <3>1, <1>4, <1>5, BumpPages DEF TypeOK
    <3>3. QED
      BY <2>1, <3>2, <1>3, <1>4
  <2>3. CASE ~inited
    <3>1. /\ \A r \in Passes : eg'[r] = 0 /\ ed'[r] = 0
          /\ \A w \in Wires : ok'[w] = 0
      BY <2>1, <2>3 DEF Phases
    <3>2. \A g \in plan.pages : pg'[g] = 1
      BY <2>1, <2>3 DEF PokeInputs, TypeOK
    <3>3. QED
      BY <3>1, <3>2, <1>1, <1>2, PageTypes DEF Stamps
  <2>4. QED
    BY <2>2, <2>3
<1>8. CASE ForceWakeAll
  <2>1. \A g \in plan.pages : pg[g] <= pg'[g]
    BY <1>8, <1>5 DEF ForceWakeAll, TypeOK
  <2>2. QED
    BY <1>3, <1>4, <1>8, <2>1 DEF ForceWakeAll
<1>9. CASE Commit
  <2> DEFINE X == {r \in list : nxt[r] # cur[r]}
  <2>1. X \in SUBSET Sigs /\ Bump(X) /\ UNCHANGED <<ok, eg, ed>>
    BY <1>9 DEF Commit, TypeOK, Sigs
  <2> HIDE DEF X
  <2>2. \A g \in plan.pages : pg[g] <= pg'[g]
    BY <2>1, <1>4, <1>5, BumpPages DEF TypeOK
  <2>3. QED
    BY <2>1, <2>2, <1>3, <1>4
<1>10. ASSUME NEW r \in Passes, NEW taken, RunPass(r, taken), UNCHANGED <<pg, ok>>
       PROVE  Stamps'
  <2>1. eg' = [eg EXCEPT ![r] = pg[PageOf(r)]]
    BY <1>10, RunCases
  <2>2. ed' = ed \/ ed' = [ed EXCEPT ![r] = pg[plan.dataPage[r]]]
    BY <1>10, RunCases DEF Skips, Recomputes
  <2>3. pg[PageOf(r)] \in Nat /\ pg[plan.dataPage[r]] \in Nat
    BY <1>1, <1>5, PageTypes
  <2>4. QED
    BY <1>1, <1>2, <1>10, <2>1, <2>2, <2>3 DEF Stamps, TypeOK
<1>11. ASSUME NEW w \in Wires, EvalPass(w)
       PROVE  Stamps'
  <2>1. plan.passOf[w] \in Passes
    BY <1>1, <1>11, Tables DEF EvalPass
  <2>2. QED
    BY <1>10, <1>11, <2>1 DEF EvalPass
<1>12. ASSUME NEW w \in Wires, EvalLazy(w)
       PROVE  Stamps'
  <2>1. ok' = [ok EXCEPT ![w] = pg[plan.page[w]]] /\ UNCHANGED <<pg, eg, ed>>
    BY <1>12 DEF EvalLazy
  <2>2. pg[plan.page[w]] \in Nat
    BY <1>1, <1>5, PageTypes
  <2>3. QED
    BY <1>1, <1>2, <2>1, <2>2 DEF Stamps, TypeOK
<1>13. CASE RunReadyPass
  <2>1. NextPass \in Passes /\ UNCHANGED <<pg, ok>>
    BY <1>1, <1>13, TakenPass DEF RunReadyPass
  <2>2. QED
    BY <1>6, <1>10, <1>13, <2>1 DEF RunReadyPass
<1>14. QED
  BY <1>6, <1>7, <1>8, <1>9, <1>11, <1>12, <1>13 DEF Next, Host, Lazily, Drain, HoldSteps, vars,
     DriveInput, EvalOutput, EvalReturn, PullDeps, StartDrain, NextWord, SkipTail, CallPass,
     LeaveWord, NextSum, SkipHold, DemandReads, RunHold

LEMMA UnstartedStep ==
    ASSUME TypeOK, WorkOK, Phases, Unstarted, [Next]_vars
    PROVE  Unstarted'
<1> USE DEF hostVars, passVars, workVars, scanVars, holdVars
<1>1. plan \in Plans /\ UNCHANGED plan /\ Bits' = Bits
  BY WorkSteps DEF TypeOK, Bits
<1>2. BitsOf(Bits)' = BitsOf(Bits)
  BY <1>1 DEF BitsOf
<1>3. CASE inited'
  BY <1>3 DEF Unstarted
<1>4. CASE ~inited /\ UNCHANGED <<awake, pNeed>>
  BY <1>2, <1>4 DEF Unstarted
<1>5. CASE ForceWakeAll
  <2>1. awake' = Holds /\ pNeed' = 0 .. NPasses - 1
    BY <1>5 DEF ForceWakeAll
  <2>2. QED
    BY <1>1, <1>2, <2>1, BitsOfRange DEF Unstarted
<1>6. CASE inited /\ inited' # TRUE
  BY <1>6 DEF Next, Host, Lazily, Drain, HoldSteps, vars, DriveInput, EvalOutput, EvalReturn,
     Poke, Tick, ForceWakeAll, PokeInputs, PullDeps, EvalPass, EvalLazy, StartDrain, NextWord,
     SkipTail, RunReadyPass, CallPass, LeaveWord, NextSum, SkipHold, DemandReads, RunHold, Commit,
     TypeOK
<1>7. CASE ~inited /\ ~inited'
  <2>1. pc = "idle" /\ want = {}
    BY <1>7 DEF Phases
  <2>2. QED
    BY <1>4, <1>5, <1>7, <2>1 DEF Next, Host, Lazily, Drain, HoldSteps, vars, DriveInput,
     EvalOutput, EvalReturn, Poke, Tick, PokeInputs, PullDeps, EvalPass, EvalLazy, StartDrain,
     NextWord, SkipTail, RunReadyPass, CallPass, LeaveWord, NextSum, SkipHold, DemandReads,
     RunHold, Commit, TakePass
<1>8. QED
  BY <1>3, <1>6, <1>7 DEF TypeOK
-----------------------------------------------------------------------------
(***************************************************************************)
(* What a step does to wires, pages and elements: the elements X change    *)
(* and are reported, or everything becomes stale, or a pass runs, or a     *)
(* lazy wire is evaluated.                                                 *)
(***************************************************************************)
Changes(X) ==
    /\ UNCHANGED <<plan, inited, wval, ok, eg, ed, up>>
    /\ \A g \in plan.pages : IF X \cap Leaves(plan, g) = {} THEN pg'[g] = pg[g]
                                                            ELSE pg'[g] > pg[g]
    /\ \A x \in Sigs \ X : Seen'[x] = Seen[x]
    /\ \A x \in X : plan.leafHolds[x] \subseteq awake' /\ BitsOf(plan.leafPasses[x]) \subseteq pNeed'

AllStale ==
    /\ UNCHANGED <<plan, wval>>
    /\ \A r \in Passes : ed'[r] # pg'[plan.dataPage[r]] /\ eg'[r] # pg'[PageOf(r)]
    /\ \A w \in Wires \ Eager : Stale(w)'
    /\ awake' = Holds /\ BitsOf(Bits) \subseteq pNeed'

CoreInv == TypeInv /\ Phases /\ Unstarted /\ Stamps

LEMMA CoreInvariance == Spec => []CoreInv
<1>1. Init => CoreInv
  <2> SUFFICES ASSUME Init PROVE CoreInv
    OBVIOUS
  <2>1. TypeInv /\ Phases /\ Stamps
    BY InitTypes, InitWork, InitPhases DEF TypeInv
  <2>2. awake = Holds /\ pNeed = 0 .. NWords * W - 1 /\ plan \in Plans
    BY DEF Init
  <2>3. QED
    BY <2>1, <2>2, BitsOfRange DEF CoreInv, Unstarted
<1>2. CoreInv /\ [Next]_vars => CoreInv'
  BY TypeStep, WorkStep, CursorStep, PhasesStep, UnstartedStep, StampsStep DEF CoreInv, TypeInv
<1>3. QED
  BY <1>1, <1>2, PTL DEF Spec

(* Bumping the changed elements reports them.                              *)
LEMMA BumpChanges ==
    ASSUME TypeOK, NEW X \in SUBSET Sigs, Bump(X), \A x \in Sigs \ X : Seen'[x] = Seen[x],
           UNCHANGED <<plan, inited, wval, ok, eg, ed, up>>
    PROVE  Changes(X)
<1>1. /\ awake' = awake \cup UNION {plan.leafHolds[x] : x \in X}
      /\ pNeed' = pNeed \cup BitsOf(UNION {plan.leafPasses[x] : x \in X})
  BY BumpWakes DEF WakePasses
<1>2. \A x \in X : plan.leafHolds[x] \subseteq awake'
  BY <1>1
<1>3. \A x \in X : BitsOf(plan.leafPasses[x]) \subseteq pNeed'
  BY <1>1 DEF BitsOf
<1>4. QED
  BY <1>2, <1>3, BumpPages DEF Changes

LEMMA NothingChanges ==
    ASSUME UNCHANGED <<plan, inited, wval, ok, eg, ed, up, pg, cur, prev>>
    PROVE  Changes({})
<1>1. Seen' = Seen
  BY SeenKept
<1>2. QED
  BY <1>1 DEF Changes

LEMMA PokeKinds ==
    ASSUME CoreInv, PokeInputs, UNCHANGED <<plan, cur, passVars>>
    PROVE  \/ inited /\ \E X \in SUBSET Inputs : Changes(X)
           \/ ~inited /\ AllStale
<1> USE DEF passVars
<1>1. TypeOK /\ Phases /\ Unstarted /\ plan \in Plans
  BY DEF CoreInv, TypeInv, TypeOK
<1>2. CASE inited
  <2> DEFINE X == {i \in UsedInputs : cur[i] # prev[i]}
  <2>1. X \in SUBSET Inputs /\ X \in SUBSET Sigs /\ Bump(X)
    BY <1>2 DEF PokeInputs, UsedInputs, Sigs
  <2>2. \A x \in Sigs \ X : Seen'[x] = Seen[x]
    <3>1. Seen' = cur
      BY <1>1, PokeSees
    <3>2. QED
      BY <3>1 DEF Seen
  <2>3. inited' = inited
    BY <1>1, <1>2 DEF PokeInputs, TypeOK
  <2> HIDE DEF X
  <2>4. QED
    BY <1>1, <1>2, <2>1, <2>2, <2>3, BumpChanges
<1>3. CASE ~inited
  <2>1. /\ \A r \in Passes : eg'[r] = 0 /\ ed'[r] = 0
        /\ \A w \in Wires : ok'[w] = 0
    BY <1>1, <1>3 DEF Phases
  <2>2. \A g \in plan.pages : pg'[g] = 1
    BY <1>1, <1>3 DEF PokeInputs, TypeOK
  <2>3. awake' = Holds /\ BitsOf(Bits) \subseteq pNeed'
    BY <1>1, <1>3 DEF PokeInputs, Unstarted, workVars
  <2>4. \A w \in Wires \ Eager : Stale(w)'
    BY <1>1, <2>1, <2>2, PageTypes DEF Stale, Eager
  <2>5. QED
    BY <1>1, <1>3, <2>1, <2>2, <2>3, <2>4, PageTypes DEF AllStale
<1>4. QED
  BY <1>2, <1>3

LEMMA StepKinds ==
    ASSUME CoreInv, [Next]_vars
    PROVE  \/ \E X \in SUBSET Sigs : Changes(X)
           \/ AllStale
           \/ \E w \in Wires : EvalPass(w) \/ EvalLazy(w)
           \/ RunReadyPass /\ RunPass(NextPass, {Least(PendingHere)})
<1> USE DEF hostVars, passVars, workVars, scanVars, holdVars
<1>1. TypeOK /\ WorkOK /\ Phases /\ Stamps /\ Unstarted
  BY DEF CoreInv, TypeInv
<1>2. plan \in Plans /\ UNCHANGED plan
  BY <1>1, WorkSteps DEF TypeOK
<1>3. CASE UNCHANGED <<inited, wval, ok, eg, ed, up, pg, cur, prev>>
  BY <1>2, <1>3, NothingChanges
<1>4. ASSUME NEW i \in Inputs, NEW v \in Val, DriveInput(i, v)
      PROVE  \E X \in SUBSET Sigs : Changes(X)
  <2>1. UNCHANGED <<plan, prev, inited, wval, ok, eg, ed, up, pg, awake, pNeed>>
    BY <1>4 DEF DriveInput
  <2>2. \A x \in Sigs \ {i} : Seen'[x] = Seen[x]
    BY <1>1, <1>4, <2>1 DEF DriveInput, Seen, UsedInputs, TypeOK, State
  <2>3. CASE i \in UsedInputs
    <3>1. Seen'[i] = Seen[i]
      BY <2>1, <2>3 DEF Seen, UsedInputs, Sigs
    <3>2. Changes({})
      BY <2>1, <2>2, <3>1 DEF Changes
    <3>3. QED
      BY <3>2
  <2>4. CASE i \notin UsedInputs
    <3>1. plan.leafPages[i] = {} /\ plan.leafHolds[i] = {} /\ plan.leafPasses[i] = {}
      BY <2>4 DEF UsedInputs
    <3>2. \A g : {i} \cap Leaves(plan, g) = {}
      BY <3>1 DEF Leaves
    <3>3. Changes({i})
      BY <2>1, <2>2, <3>1, <3>2 DEF Changes, BitsOf
    <3>4. QED
      BY <3>3 DEF Sigs
  <2>5. QED
    BY <2>3, <2>4
<1>5. CASE Poke \/ Tick
  <2>1. PokeInputs /\ UNCHANGED <<plan, cur, passVars>>
    BY <1>5 DEF Poke, Tick
  <2>2. QED
    BY <2>1, PokeKinds DEF Sigs
<1>6. CASE ForceWakeAll
  <2>1. /\ \A g \in plan.pages : pg'[g] = pg[g] + 1 /\ pg[g] \in Nat
        /\ pNeed' = 0 .. NPasses - 1 /\ awake' = Holds /\ UNCHANGED <<plan, wval, ok, eg, ed>>
    BY <1>1, <1>6 DEF ForceWakeAll, TypeOK
  <2>2. /\ \A r \in Passes : eg[r] <= pg[PageOf(r)] /\ ed[r] <= pg[plan.dataPage[r]]
        /\ \A w \in Wires \ Eager : ok[w] <= pg[plan.page[w]]
    BY <1>1 DEF Stamps
  <2>3. /\ \A r \in Passes : eg[r] \in Nat /\ ed[r] \in Nat
        /\ \A w \in Wires : ok[w] \in Nat
    BY <1>1 DEF TypeOK
  <2>4. \A r \in Passes : ed'[r] # pg'[plan.dataPage[r]] /\ eg'[r] # pg'[PageOf(r)]
    BY <1>2, <2>1, <2>2, <2>3, PageTypes
  <2>5. \A w \in Wires \ Eager : Stale(w)'
    <3>1. \A w \in Wires \ Eager : ok'[w] # pg'[plan.page[w]]
      BY <1>2, <2>1, <2>2, <2>3, PageTypes
    <3>2. QED
      BY <2>1, <3>1 DEF Stale, Eager
  <2>6. QED
    BY <1>2, <2>1, <2>4, <2>5, BitsOfRange DEF AllStale
<1>7. CASE Commit
  <2> DEFINE X == {r \in list : nxt[r] # cur[r]}
  <2>1. X \in SUBSET Sigs /\ X \in SUBSET Regs /\ Bump(X) /\ UNCHANGED <<plan, prev, inited, wval, ok, eg, ed, up>>
    BY <1>1, <1>7 DEF Commit, TypeOK, Sigs
  <2>2. \A x \in Sigs \ X : Seen'[x] = Seen[x]
    <3>1. \A x \in Sigs \ X : cur'[x] = cur[x]
      BY <1>7 DEF Commit
    <3>2. QED
      BY <2>1, <3>1 DEF Seen, UsedInputs
  <2> HIDE DEF X
  <2>3. QED
    BY <1>1, <2>1, <2>2, BumpChanges
<1>8. QED
  BY <1>2, <1>3, <1>4, <1>5, <1>6, <1>7 DEF Next, Host, Lazily, Drain, HoldSteps, vars,
     EvalOutput, EvalReturn, PullDeps, StartDrain, NextWord, SkipTail, CallPass, RunReadyPass,
     LeaveWord, NextSum, SkipHold, DemandReads, RunHold
-----------------------------------------------------------------------------
(***************************************************************************)
(* Calm passes.                                                            *)
(***************************************************************************)
CleanSet(D) == D \subseteq Passes /\ \A r \in D : ~Dirty(r) /\ Sources(r) \subseteq D

LEMMA CalmIs == CleanSet(Calm) /\ \A D : CleanSet(D) => D \subseteq Calm
BY DEF CleanSet, Calm

(* The same of the next state.                                             *)
LEMMA CalmNext ==
    ASSUME UNCHANGED plan, NEW S \in SUBSET Passes,
           \A r \in S : ed'[r] = pg'[plan.dataPage[r]] /\ ~up'[r] /\ Sources(r) \subseteq S
    PROVE  S \subseteq Calm'
<1>1. \A r \in S : ~Dirty(r)' /\ Sources(r)' = Sources(r)
  BY DEF Dirty, Sources, Eager
<1>2. Passes' = Passes
  BY DEF Passes
<1>3. QED
  BY <1>1, <1>2 DEF Calm

(* What pass r reads of other passes and lazy wires is up to date.         *)
Ready(r) ==
    /\ Sources(r) \subseteq Calm
    /\ \A w \in plan.foreign[r] \ Eager : wval[w] = Settled(Seen)[w]

(* The values of a calm pass have settled: by induction over the passes,   *)
(* and within a pass over its order.                                       *)
LEMMA CalmIsSettled ==
    ASSUME AscendingPlans, TypeOK, inited, CleanOK
    PROVE  \A r \in Calm : \A w \in WiresOf(r) : wval[w] = Settled(Seen)[w]
<1> DEFINE e == Settled(Seen)
           Bad == {r \in Calm : ~ \A w \in WiresOf(r) : wval[w] = e[w]}
<1>1. SUFFICES ASSUME Bad # {} PROVE FALSE
  OBVIOUS
<1>2. plan \in Plans /\ Calm \subseteq Passes /\ Passes \in SUBSET Nat
  BY Tables, CalmIs DEF TypeOK, CleanSet
<1>3. PICK r \in Bad : \A k \in Bad : r <= k
  <2>1. Bad \in SUBSET Nat
    BY <1>2
  <2> HIDE DEF Bad
  <2>2. QED
    BY <1>1, <2>1, LeastNatural
<1>4. r \in Passes /\ r \in Calm /\ r \in Nat
  BY <1>2, <1>3
<1>5. e \in Env /\ IsSettled(e) /\ \A x \in Sigs : e[x] = Seen[x]
  BY SeenIsState, SettledFacts
<1>6. Basis \in Env
  BY <1>5 DEF Basis, Extend, Env, TypeOK
<1>7. /\ \A x \in Sigs : Basis[x] = e[x]
      /\ \A w \in Eager : Basis[w] = wval[w]
      /\ \A w \in Wires \ Eager : Basis[w] = e[w]
  BY <1>2, <1>5, Tables, NetlistAssumption DEF Basis, Extend
<1>8. \A w \in plan.foreign[r] : Basis[w] = e[w]
  <2> TAKE w \in plan.foreign[r]
  <2>1. w \in Wires
    BY <1>2, <1>4, PlanTypes DEF Passes
  <2>2. CASE w \in Eager
    <3>1. plan.passOf[w] \in Calm
      BY <1>4, <2>2, CalmIs DEF CleanSet, Sources
    <3>2. plan.passOf[w] < r /\ plan.passOf[w] \in Nat
      BY <1>2, <1>4, <2>2, <3>1 DEF AscendingPlans, Passes, Eager
    <3>3. plan.passOf[w] \notin Bad
      BY <1>3, <1>4, <3>2
    <3>4. w \in WiresOf(plan.passOf[w])
      BY <1>2, <2>2, Tables
    <3>5. QED
      BY <3>1, <3>3, <3>4, <2>2, <1>7
  <2>3. QED
    BY <2>1, <2>2, <1>7
<1> DEFINE o == plan.order[r]
<1>9. o \in Seq(Wires) /\ \A i \in DOMAIN o : o[i] \in Eager /\ o[i] \in Wires /\ o[i] \in WiresOf(r)
  BY <1>2, <1>4, Tables DEF WiresOf
<1>10. \A i \in DOMAIN o : wval[o[i]] = WireFn(o[i], Basis)
  <2>1. ~Dirty(r)
    BY <1>4, CalmIs DEF CleanSet
  <2>2. QED
    BY <2>1, <1>4, <1>9 DEF CleanOK
<1> DEFINE Off == {i \in DOMAIN o : wval[o[i]] # e[o[i]]}
<1>11. PICK i \in Off : \A k \in Off : i <= k
  <2>1. Off \in SUBSET Nat
    BY <1>9
  <2>2. Off # {}
    BY <1>3 DEF WiresOf
  <2> HIDE DEF Off
  <2>3. QED
    BY <2>1, <2>2, LeastNatural
<1>12. \A j \in 1 .. i - 1 : Basis[o[j]] = e[o[j]]
  <2> TAKE j \in 1 .. i - 1
  <2>1. j \in DOMAIN o /\ ~(i <= j)
    BY <1>9, <1>11
  <2>2. j \notin Off
    BY <1>11, <2>1
  <2>3. wval[o[j]] = e[o[j]]
    BY <2>1, <2>2
  <2>4. QED
    BY <2>1, <2>3, <1>7, <1>9
<1>13. i \in DOMAIN plan.order[r]
  BY <1>11
<1>14. \A x \in Leaves(plan, plan.dataPage[r]) : Basis[x] = e[x]
  BY <1>7 DEF Leaves
<1>15. WireFn(o[i], Basis) = WireFn(o[i], e)
  <2> HIDE DEF e
  <2> QED BY <1>2, <1>4, <1>5, <1>6, <1>8, <1>12, <1>13, <1>14, PassReads
<1>16. QED
  BY <1>5, <1>9, <1>10, <1>11, <1>13, <1>15 DEF IsSettled

LEMMA DataOfPage ==
    ASSUME plan \in Plans, NEW r \in Passes
    PROVE  /\ Leaves(plan, plan.dataPage[r]) \subseteq Leaves(plan, PageOf(r))
           /\ \A q \in Sources(r) : q \in Passes /\ Leaves(plan, PageOf(q)) \subseteq Leaves(plan, PageOf(r))
<1>1. Leaves(plan, plan.dataPage[r]) \subseteq Leaves(plan, PageOf(r))
  BY PagesSound DEF PageOf, Passes
<1>2. ASSUME NEW w \in plan.foreign[r] \cap Eager
      PROVE  /\ plan.passOf[w] \in Passes
             /\ Leaves(plan, PageOf(plan.passOf[w])) \subseteq Leaves(plan, PageOf(r))
  <2>1. Leaves(plan, plan.page[w]) \subseteq Leaves(plan, PageOf(r))
    BY PagesSound DEF PageOf, Passes, Eager
  <2>2. plan.passOf[w] \in Passes /\ plan.page[w] = PageOf(plan.passOf[w])
    BY Tables
  <2>3. QED
    BY <2>1, <2>2
<1>3. QED
  BY <1>1, <1>2 DEF Sources

(* Calm passes stay calm, but for those whose pages are bumped.            *)
LEMMA CalmAfterChange ==
    ASSUME TypeOK, NEW X \in SUBSET Sigs, Changes(X)
    PROVE  {r \in Calm : pg'[PageOf(r)] = pg[PageOf(r)]} \subseteq Calm'
<1> DEFINE D == {r \in Calm : pg'[PageOf(r)] = pg[PageOf(r)]}
<1>1. plan \in Plans /\ UNCHANGED <<plan, ed, up>> /\ CleanSet(Calm)
  BY CalmIs DEF TypeOK, Changes
<1>2. D \in SUBSET Passes
  BY <1>1 DEF CleanSet
<1>3. ASSUME NEW r \in D
      PROVE  ed'[r] = pg'[plan.dataPage[r]] /\ ~up'[r] /\ Sources(r) \subseteq D
  <2>1. r \in Passes /\ ~Dirty(r) /\ Sources(r) \subseteq Calm
    BY <1>1, <1>2 DEF CleanSet
  <2>2. X \cap Leaves(plan, PageOf(r)) = {}
    <3>1. PageOf(r) \in plan.pages /\ pg[PageOf(r)] \in Nat
      BY <1>1, <2>1, PageTypes DEF TypeOK
    <3>2. QED
      BY <3>1 DEF Changes
  <2>3. ed'[r] = pg'[plan.dataPage[r]] /\ ~up'[r]
    <3>1. X \cap Leaves(plan, plan.dataPage[r]) = {} /\ plan.dataPage[r] \in plan.pages
      BY <1>1, <2>1, <2>2, DataOfPage, PageTypes
    <3>2. QED
      BY <1>1, <2>1, <3>1 DEF Changes, Dirty
  <2>4. ASSUME NEW q \in Sources(r)
        PROVE  q \in D
    <3>1. q \in Passes /\ X \cap Leaves(plan, PageOf(q)) = {} /\ PageOf(q) \in plan.pages
      BY <1>1, <2>1, <2>2, DataOfPage, PageTypes
    <3>2. QED
      BY <2>1, <3>1 DEF Changes
  <2>5. QED
    BY <2>3, <2>4
<1>4. QED
  <2> HIDE DEF D
  <2>1. D \subseteq Calm'
    BY <1>1, <1>2, <1>3, CalmNext
  <2>2. QED
    BY <2>1 DEF D

(* A pass that tells another is one of its sources.                        *)
LEMMA ToldReads ==
    ASSUME plan \in Plans, NEW r \in Passes, NEW q \in Told(r)
    PROVE  q \in Passes /\ r \in Sources(q) /\ q # r
<1>1. PICK w \in WiresOf(r) : q \in plan.consumers[w]
  BY DEF Told, Moved
<1>2. w \in Eager /\ plan.passOf[w] = r
  BY Tables
<1>3. q \in Passes /\ w \in plan.foreign[q]
  BY <1>1, <1>2, PlanTypes, PassesSound DEF Eager, Passes
<1>4. w \notin WiresOf(q)
  BY <1>3, PassesSound DEF WiresOf, InPass, Passes
<1>5. QED
  BY <1>2, <1>3, <1>4 DEF Sources

(* A pass that runs with all it reads up to date is calm afterwards, and   *)
(* so are those that were.                                                 *)
LEMMA CalmAfterRun ==
    ASSUME TypeOK, NEW r \in Passes, NEW taken, RunPass(r, taken), UNCHANGED <<plan, pg>>,
           Sources(r) \subseteq Calm
    PROVE  Calm \cup {r} \subseteq Calm'
<1>1. plan \in Plans /\ CleanSet(Calm)
  BY CalmIs DEF TypeOK
<1>2. Calm \cup {r} \in SUBSET Passes
  BY <1>1 DEF CleanSet
<1>3. CASE Skips(r, taken)
  <2>1. \A q \in Calm \cup {r} :
           ed'[q] = pg'[plan.dataPage[q]] /\ ~up'[q] /\ Sources(q) \subseteq Calm \cup {r}
    BY <1>1, <1>3 DEF CleanSet, Skips, Dirty
  <2>2. QED
    BY <1>2, <2>1, CalmNext
<1>4. CASE Recomputes(r, taken)
  <2>1. r \notin Calm
    BY <1>1, <1>4 DEF Recomputes, CleanSet
  <2>2. ASSUME NEW q \in Calm \cup {r}
        PROVE  ed'[q] = pg'[plan.dataPage[q]] /\ ~up'[q] /\ Sources(q) \subseteq Calm \cup {r}
    <3>1. q \notin Told(r)
      BY <1>1, <2>1, ToldReads DEF CleanSet
    <3>2. q \in Passes /\ Sources(q) \subseteq Calm /\ (q # r => ~Dirty(q))
      BY <1>1, <1>2 DEF CleanSet
    <3>3. QED
      BY <1>4, <3>1, <3>2 DEF Recomputes, Dirty, TypeOK
  <2>3. QED
    BY <1>2, <2>2, CalmNext
<1>5. QED
  BY <1>3, <1>4, RunCases

(* A wire whose stamp equals its page has settled, for good if it is one   *)
(* of a pass.                                                              *)
LEMMA FreshSettled ==
    ASSUME AscendingPlans, TypeOK, inited, CalmOK, CleanOK, LazyOK, NEW w \in Wires, ~Stale(w)
    PROVE  wval[w] = Settled(Seen)[w] /\ (w \in Eager => plan.passOf[w] \in Calm)
<1>1. CASE w \in Eager
  <2>1. plan.passOf[w] \in Passes /\ w \in WiresOf(plan.passOf[w])
    BY <1>1, Tables DEF TypeOK
  <2>2. plan.page[w] = PageOf(plan.passOf[w])
    BY <2>1, Tables DEF TypeOK
  <2>3. plan.passOf[w] \in Calm
    BY <1>1, <2>1, <2>2 DEF Stale, CalmOK, Fresh
  <2>4. QED
    BY <2>1, <2>3, CalmIsSettled
<1>2. CASE w \notin Eager
  BY <1>2 DEF LazyOK
<1>3. QED
  BY <1>1, <1>2

(* A call evaluates what it needs first.                                   *)
LEMMA ReadyForCall ==
    ASSUME AscendingPlans, TypeOK, inited, CalmOK, CleanOK, LazyOK, NEW w \in Wires,
           CallDeps(w) = {}
    PROVE  /\ w \in Eager => Ready(plan.passOf[w])
           /\ w \notin Eager => \A v \in plan.lazyDeps[w] : wval[v] = Settled(Seen)[v]
<1>1. CASE w \in Eager
  <2> DEFINE r == plan.passOf[w]
  <2>1. r \in Passes
    BY <1>1, Tables DEF TypeOK
  <2>2. \A v \in plan.foreign[r] : v \in Wires /\ ~Stale(v)
    BY <1>1, <2>1, PlanTypes DEF TypeOK, Passes, CallDeps, StaleIn
  <2>3. \A v \in plan.foreign[r] :
           wval[v] = Settled(Seen)[v] /\ (v \in Eager => plan.passOf[v] \in Calm)
    BY <2>2, FreshSettled
  <2>4. QED
    BY <1>1, <2>3 DEF Ready, Sources
<1>2. CASE w \notin Eager
  <2>1. \A v \in plan.lazyDeps[w] : v \in Wires /\ ~Stale(v)
    BY <1>2, PlanTypes DEF TypeOK, CallDeps, StaleIn
  <2>2. QED
    BY <1>2, <2>1, FreshSettled
<1>3. QED
  BY <1>1, <1>2

(* Bits of a later word are above those of word v.                         *)
LEMMA WordOrder ==
    ASSUME NEW b \in Nat, NEW c \in Nat, b <= c
    PROVE  b \div W <= c \div W
BY EagerAssumption

LEMMA BitWords ==
    ASSUME NEW b \in Nat, NEW v \in Nat
    PROVE  b \in BitsIn(v) <=> b \div W = v
<1>1. W \in Nat \ {0}
  BY EagerAssumption
<1>2. b \in v * W .. v * W + W - 1 <=> b \div W = v
  BY <1>1
<1>3. QED
  BY <1>2 DEF BitsIn

(* The drain takes the lowest pending bit of all.                          *)
LEMMA TakesLowest ==
    ASSUME TypeInv, ScanOK, TakePass
    PROVE  \A b \in pNeed : plan.bit[NextPass] <= b
<1>1. /\ plan \in Plans /\ NextPass \in Bits /\ plan.bit[NextPass] = Least(PendingHere)
      /\ Least(PendingHere) \in PendingHere /\ \A b \in PendingHere : Least(PendingHere) <= b
  BY TakenPass DEF TypeInv, TypeOK
<1>2. \A b \in pNeed : b \in Nat /\ b \div W \in pAny /\ b \div W >= word /\ b \div W \in Nat
  BY <1>1, WordOfBit DEF TypeInv, WorkOK, ScanOK, TakePass
<1>3. word \in Nat
  <2>1. word \in pAny
    BY DEF TypeInv, CursorOK, TakePass
  <2>2. pAny \subseteq 0 .. NWords - 1
    BY DEF TypeInv, WorkOK
  <2>3. QED
    BY <2>1, <2>2
<1> DEFINE l == Least(PendingHere)
<1>4. l \in Nat /\ l \div W = word
  BY <1>1, <1>2, <1>3, BitWords DEF PendingHere
<1> HIDE DEF l
<1>5. ASSUME NEW b \in pNeed
      PROVE  l <= b
  <2>1. CASE b \div W = word
    <3>1. b \in PendingHere
      BY <1>2, <1>3, <2>1, BitWords DEF PendingHere
    <3>2. QED
      BY <1>1, <3>1 DEF l
  <2>2. CASE b \div W # word
    <3>1. ~(b <= l)
      <4>1. b <= l => b \div W <= l \div W
        BY <1>2, <1>4, WordOrder
      <4>2. QED
        BY <4>1, <1>2, <1>3, <1>4, <2>2
    <3>2. QED
      BY <3>1, <1>2, <1>4
  <2>3. QED
    BY <2>1, <2>2
<1>6. QED
  BY <1>1, <1>5 DEF l

(* A drained pass needs no guard: whatever it reads was drained before.    *)
LEMMA ReadyForDrain ==
    ASSUME TypeInv, DueOK, ScanOK, TakePass, NextPass \in plan.drained
    PROVE  Ready(NextPass)
<1>1. plan \in Plans /\ NextPass \in Bits /\ NextPass \in Passes /\ want = {} /\ Passes \subseteq Nat
  BY TakenPass, Tables DEF TypeInv, TypeOK, TakePass
<1>2. plan.drained \subseteq Bits /\ Bits \subseteq Passes
  BY <1>1, PlanTypes, BitFacts DEF Bits
<1> DEFINE D == {q \in plan.drained : q < NextPass}
<1>3. ASSUME NEW r \in plan.drained, NEW w \in plan.foreign[r]
      PROVE  w \in Eager /\ plan.passOf[w] \in plan.drained /\ plan.passOf[w] < r
  BY <1>1, PassesSound DEF DrainedWires, Eager
<1>4. CleanSet(D)
  <2>1. D \subseteq Passes
    BY <1>2
  <2>2. ASSUME NEW q \in D
        PROVE  ~Dirty(q)
    <3>1. q \in Bits /\ plan.bit[q] < plan.bit[NextPass]
      BY <1>1, <1>2, BitsSound DEF Bits
    <3>2. plan.bit[q] \in Nat /\ plan.bit[NextPass] \in Nat
      BY <1>1, <3>1, BitFacts
    <3>3. plan.bit[q] \notin pNeed
      BY <3>1, <3>2, TakesLowest
    <3>4. QED
      BY <1>1, <3>1, <3>3 DEF DueOK
  <2>3. ASSUME NEW q \in D, NEW p \in Sources(q)
        PROVE  p \in D
    <3>1. p \in plan.drained /\ p < q
      BY <1>3 DEF Sources
    <3>2. p \in Nat /\ q \in Nat /\ NextPass \in Nat
      BY <1>1, <1>2, <3>1
    <3>3. QED
      BY <3>1, <3>2
  <2>4. QED
    BY <2>1, <2>2, <2>3 DEF CleanSet
<1>5. Sources(NextPass) \subseteq D
  BY <1>3 DEF Sources
<1>6. plan.foreign[NextPass] \ Eager = {}
  BY <1>3
<1> HIDE DEF D
<1>7. QED
  BY <1>4, <1>5, <1>6, CalmIs DEF Ready
-----------------------------------------------------------------------------
(***************************************************************************)
(* The values of passes and lazy wires.                                    *)
(***************************************************************************)
ValuesOK == CalmOK /\ CleanOK /\ LazyOK
MainInv == CoreInv /\ ValuesOK /\ DueOK /\ ScanOK

Runs(r) ==
    /\ r \in Passes /\ Ready(r) /\ \E taken : RunPass(r, taken)
    /\ inited /\ Seen = cur /\ UNCHANGED <<plan, cur, prev, inited, ok, pg>>
Evaluates(w) ==
    /\ w \in Wires \ Eager /\ wval' = [wval EXCEPT ![w] = Settled(Seen)[w]]
    /\ UNCHANGED <<plan, cur, prev, inited, pg, eg, ed, up>>
    /\ ok' = [ok EXCEPT ![w] = pg[plan.page[w]]]

LEMMA LazyReads ==
    ASSUME plan \in Plans, NEW w \in Wires \ Eager, NEW d \in Env, NEW e \in Env,
           \A x \in Sigs : d[x] = e[x], \A v \in plan.lazyDeps[w] : d[v] = e[v]
    PROVE  WireFn(w, d) = WireFn(w, e)
<1> DEFINE S == Sigs \cup plan.lazyDeps[w]
<1>1. WireFn(w, d) = WireFn(w, Kept(d, S)) /\ WireFn(w, e) = WireFn(w, Kept(e, S))
  BY ReadsSound DEF Eager
<1>2. \A x \in S : d[x] = e[x]
  OBVIOUS
<1> HIDE DEF S
<1>3. Kept(d, S) = Kept(e, S)
  BY <1>2, KeptAgree
<1>4. QED
  BY <1>1, <1>3

LEMMA CallRuns ==
    ASSUME AscendingPlans, MainInv, NEW w \in Wires, EvalPass(w)
    PROVE  Runs(plan.passOf[w])
<1>1. w \in want /\ w \in Eager /\ CallDeps(w) = {}
  BY DEF EvalPass
<1>2. /\ TypeOK /\ Phases /\ CalmOK /\ CleanOK /\ LazyOK /\ plan \in Plans
  BY DEF MainInv, CoreInv, TypeInv, ValuesOK, TypeOK
<1>3. inited /\ Seen = cur
  BY <1>1, <1>2 DEF Phases
<1>4. plan.passOf[w] \in Passes /\ Ready(plan.passOf[w])
  BY <1>1, <1>2, <1>3, Tables, ReadyForCall
<1>5. QED
  BY <1>3, <1>4 DEF EvalPass, Runs, hostVars

LEMMA DrainRuns ==
    ASSUME MainInv, RunReadyPass, RunPass(NextPass, {Least(PendingHere)})
    PROVE  Runs(NextPass)
<1>1. /\ TypeInv /\ DueOK /\ ScanOK /\ Phases /\ TakePass /\ NextPass \in plan.drained
      /\ UNCHANGED <<plan, cur, prev, inited, ok, pg>>
  BY DEF RunReadyPass, MainInv, CoreInv, hostVars
<1>2. inited /\ Seen = cur
  BY <1>1 DEF Phases, TakePass
<1>3. NextPass \in Passes
  BY <1>1, TakenPass DEF TypeInv, TypeOK
<1>4. QED
  BY <1>1, <1>2, <1>3, ReadyForDrain DEF Runs

LEMMA LazyEvaluates ==
    ASSUME AscendingPlans, MainInv, NEW w \in Wires, EvalLazy(w)
    PROVE  Evaluates(w)
<1>1. w \in want /\ w \notin Eager /\ CallDeps(w) = {}
  BY DEF EvalLazy
<1>2. /\ TypeOK /\ Phases /\ CalmOK /\ CleanOK /\ LazyOK /\ plan \in Plans
  BY DEF MainInv, CoreInv, TypeInv, ValuesOK, TypeOK
<1>3. inited /\ Seen = cur
  BY <1>1, <1>2 DEF Phases
<1> DEFINE e == Settled(Seen)
<1>4. e \in Env /\ IsSettled(e) /\ \A x \in Sigs : e[x] = Seen[x]
  BY <1>2, SeenIsState, SettledFacts
<1>5. Now \in Env /\ \A x \in Sigs : Now[x] = cur[x]
  BY <1>2, NowIsEnv DEF TypeOK, Now
<1>6. plan.lazyDeps[w] \subseteq Wires
  BY <1>2, PlanTypes
<1>7. \A v \in plan.lazyDeps[w] : Now[v] = e[v]
  <2>1. \A v \in plan.lazyDeps[w] : wval[v] = e[v]
    BY <1>1, <1>2, <1>3, ReadyForCall
  <2>2. \A v \in Wires : Now[v] = wval[v]
    BY NetlistAssumption DEF Now
  <2>3. QED
    BY <1>6, <2>1, <2>2
<1> HIDE DEF e
<1>8. WireFn(w, Now) = WireFn(w, e)
  BY <1>1, <1>2, <1>3, <1>4, <1>5, <1>7, LazyReads
<1>9. WireFn(w, Now) = Settled(Seen)[w]
  BY <1>4, <1>8 DEF e, IsSettled
<1>10. QED
  BY <1>1, <1>9 DEF EvalLazy, Evaluates, hostVars

LEMMA ValueSteps ==
    ASSUME AscendingPlans, MainInv, [Next]_vars
    PROVE  \/ \E X \in SUBSET Sigs : Changes(X)
           \/ AllStale
           \/ \E r : Runs(r)
           \/ \E w : Evaluates(w)
BY StepKinds, CallRuns, DrainRuns, LazyEvaluates DEF MainInv

LEMMA StaleAfterChange ==
    ASSUME TypeOK, TypeOK', NEW X \in SUBSET Sigs, Changes(X)
    PROVE  \A g \in plan.pages : pg[g] <= pg'[g] /\ (pg'[g] = pg[g] => X \cap Leaves(plan, g) = {})
<1>1. \A g \in plan.pages : pg[g] \in Nat /\ pg'[g] \in Nat
  BY DEF TypeOK, Changes
<1>2. TAKE g \in plan.pages
<1>3. CASE X \cap Leaves(plan, g) = {}
  BY <1>1, <1>3 DEF Changes
<1>4. CASE X \cap Leaves(plan, g) # {}
  <2>1. pg'[g] > pg[g]
    BY <1>4 DEF Changes
  <2>2. QED
    BY <2>1, <1>1, <1>4
<1>5. QED
  BY <1>3, <1>4

LEMMA CalmStep ==
    ASSUME AscendingPlans, MainInv, [Next]_vars
    PROVE  CalmOK'
<1>1. TypeOK /\ TypeOK' /\ Stamps /\ CalmOK /\ plan \in Plans
  BY TypeStep DEF MainInv, CoreInv, TypeInv, ValuesOK, TypeOK
<1>2. ASSUME NEW X \in SUBSET Sigs, Changes(X)
      PROVE  CalmOK'
  <2>1. UNCHANGED <<plan, eg, inited>>
    BY <1>2 DEF Changes
  <2>2. ASSUME NEW r \in Passes, Fresh(r)', inited
        PROVE  r \in Calm'
    <3>1. /\ eg[r] = pg'[PageOf(r)] /\ eg[r] <= pg[PageOf(r)] /\ pg[PageOf(r)] <= pg'[PageOf(r)]
          /\ pg[PageOf(r)] \in Nat /\ pg'[PageOf(r)] \in Nat
      BY <1>1, <1>2, <2>1, <2>2, PageTypes, StaleAfterChange DEF Fresh, Stamps, PageOf, TypeOK
    <3>2. pg'[PageOf(r)] = pg[PageOf(r)]
      BY <3>1
    <3>3. r \in Calm
      BY <1>1, <2>2, <3>1, <3>2 DEF CalmOK, Fresh
    <3>4. QED
      BY <1>1, <1>2, <3>2, <3>3, CalmAfterChange
  <2>3. QED
    BY <2>1, <2>2 DEF CalmOK, Passes
<1>3. CASE AllStale
  BY <1>3 DEF AllStale, CalmOK, Fresh, Passes, PageOf
<1>4. ASSUME NEW r, Runs(r)
      PROVE  CalmOK'
  <2>1. PICK taken : RunPass(r, taken)
    BY <1>4 DEF Runs
  <2>2. r \in Passes /\ Sources(r) \subseteq Calm /\ inited /\ UNCHANGED <<plan, pg>>
    BY <1>4 DEF Runs, Ready
  <2>3. Calm \cup {r} \subseteq Calm'
    BY <1>1, <2>1, <2>2, CalmAfterRun
  <2>4. eg' = [eg EXCEPT ![r] = pg[PageOf(r)]]
    BY <2>1, RunCases
  <2>5. \A q \in Passes : Fresh(q)' => q = r \/ Fresh(q)
    BY <1>1, <2>2, <2>4 DEF Fresh, PageOf, TypeOK
  <2>6. QED
    BY <1>1, <2>2, <2>3, <2>5 DEF CalmOK, Passes
<1>5. ASSUME NEW w, Evaluates(w)
      PROVE  CalmOK'
  <2>1. UNCHANGED <<plan, pg, eg, ed, up, inited>>
    BY <1>5 DEF Evaluates
  <2>2. Passes' = Passes /\ \A r \in Passes : Fresh(r)' <=> Fresh(r)
    BY <2>1 DEF Passes, Fresh, PageOf
  <2>3. Calm \subseteq Calm'
    <3>1. CleanSet(Calm)
      BY CalmIs
    <3>2. QED
      BY <2>1, <3>1, CalmNext DEF CleanSet, Dirty
  <2>4. QED
    BY <1>1, <2>1, <2>2, <2>3 DEF CalmOK
<1>6. QED
  BY <1>2, <1>3, <1>4, <1>5, ValueSteps

BasisKnown ==
    /\ Basis \in Env
    /\ \A x \in Sigs : Basis[x] = Seen[x]
    /\ \A w \in Eager : Basis[w] = wval[w]
    /\ \A w \in Wires \ Eager : Basis[w] = Settled(Seen)[w]

LEMMA BasisFacts == TypeOK => BasisKnown
<1> SUFFICES ASSUME TypeOK PROVE BasisKnown
  OBVIOUS
<1>1. Settled(Seen) \in Env /\ Eager \subseteq Wires
  BY SeenIsState, SettledFacts, Tables DEF TypeOK
<1>2. QED
  BY <1>1, NetlistAssumption DEF Basis, BasisKnown, Extend, Env, TypeOK, State, Seen, UsedInputs

LEMMA SeenTyped == TypeOK => Seen \in State
BY SeenIsState

(* States that agree on the leaves of its page give a wire one value.      *)
LEMMA SettledByLeaves ==
    ASSUME plan \in Plans, NEW s \in State, NEW t \in State
    PROVE  /\ \A w \in Wires : (\A x \in Leaves(plan, plan.page[w]) : s[x] = t[x])
                                  => Settled(s)[w] = Settled(t)[w]
           /\ \A r \in Passes : \A w \in plan.foreign[r] \ Eager :
                 (\A x \in Leaves(plan, plan.dataPage[r]) : s[x] = t[x])
                                  => Settled(s)[w] = Settled(t)[w]
<1>1. ASSUME NEW names, \A x \in names : x \in Sigs => s[x] = t[x]
      PROVE  Kept(s, names) = Kept(t, names)
  BY <1>1 DEF Kept, State
<1>2. ASSUME NEW w \in Wires, \A x \in Leaves(plan, plan.page[w]) : s[x] = t[x]
      PROVE  Settled(s)[w] = Settled(t)[w]
  <2>1. Kept(s, Leaves(plan, plan.page[w])) = Kept(t, Leaves(plan, plan.page[w]))
    BY <1>1, <1>2
  <2>2. QED
    BY <2>1, PagesSound
<1>3. ASSUME NEW r \in Passes, NEW w \in plan.foreign[r] \ Eager,
             \A x \in Leaves(plan, plan.dataPage[r]) : s[x] = t[x]
      PROVE  Settled(s)[w] = Settled(t)[w]
  <2>1. Kept(s, Leaves(plan, plan.dataPage[r])) = Kept(t, Leaves(plan, plan.dataPage[r]))
    BY <1>1, <1>3
  <2>2. QED
    BY <2>1, PagesSound DEF Passes, Eager
<1>4. QED
  BY <1>2, <1>3

(* A clean pass keeps its values if what it reads of other wires and       *)
(* elements does not move.                                                 *)
LEMMA CleanKept ==
    ASSUME TypeOK, BasisKnown, BasisKnown', UNCHANGED plan, NEW r \in Passes,
           \A w \in WiresOf(r) : wval[w] = WireFn(w, Basis) /\ wval'[w] = wval[w],
           \A x \in Leaves(plan, plan.dataPage[r]) : Seen'[x] = Seen[x],
           \A w \in plan.foreign[r] : Basis'[w] = Basis[w]
    PROVE  \A w \in WiresOf(r) : wval'[w] = WireFn(w, Basis')
<1>1. plan \in Plans /\ Eager' = Eager
  BY DEF TypeOK, Eager
<1> DEFINE o == plan.order[r]  b == Basis  c == Basis'
<1>2. b \in Env /\ c \in Env /\ \A w \in Eager : b[w] = wval[w] /\ c[w] = wval'[w]
  BY <1>1 DEF BasisKnown
<1>3. \A x \in Leaves(plan, plan.dataPage[r]) : b[x] = c[x]
  BY DEF BasisKnown, Leaves
<1>4. \A w \in plan.foreign[r] : b[w] = c[w]
  OBVIOUS
<1>5. o \in Seq(Wires) /\ \A i \in DOMAIN o : o[i] \in Eager /\ o[i] \in WiresOf(r)
  BY <1>1, Tables DEF WiresOf
<1> HIDE DEF b, c
<1>6. ASSUME NEW i \in DOMAIN o
      PROVE  WireFn(o[i], b) = WireFn(o[i], c)
  <2>1. \A j \in 1 .. i - 1 : j \in DOMAIN o
    BY <1>5
  <2>2. \A j \in 1 .. i - 1 : b[o[j]] = c[o[j]]
    BY <2>1, <1>2, <1>5
  <2>3. QED
    BY <1>1, <1>2, <1>3, <1>4, <2>2, PassReads
<1>7. QED
  BY <1>5, <1>6 DEF b, c, WiresOf

LEMMA CleanStep ==
    ASSUME AscendingPlans, MainInv, [Next]_vars
    PROVE  CleanOK'
<1>1. TypeOK /\ TypeOK' /\ Stamps /\ CleanOK /\ plan \in Plans
  BY TypeStep DEF MainInv, CoreInv, TypeInv, ValuesOK, TypeOK
<1>2. BasisKnown /\ BasisKnown' /\ Seen \in State /\ Seen' \in State
  <2>1. TypeOK' => BasisKnown'
    BY BasisFacts, PTL
  <2>2. TypeOK' => (Seen \in State)'
    BY SeenTyped, PTL
  <2>3. QED
    BY <1>1, <2>1, <2>2, BasisFacts, SeenTyped
<1>3. ASSUME NEW X \in SUBSET Sigs, Changes(X)
      PROVE  CleanOK'
  <2>1. UNCHANGED <<plan, ed, up, wval, inited>> /\ Passes' = Passes
    BY <1>3 DEF Changes, Passes
  <2>2. ASSUME NEW r \in Passes, ~Dirty(r)', inited
        PROVE  \A w \in WiresOf(r) : wval'[w] = WireFn(w, Basis')
    <3>1. /\ ed[r] = pg'[plan.dataPage[r]] /\ ed[r] <= pg[plan.dataPage[r]]
          /\ pg[plan.dataPage[r]] <= pg'[plan.dataPage[r]] /\ plan.dataPage[r] \in plan.pages
          /\ pg[plan.dataPage[r]] \in Nat /\ pg'[plan.dataPage[r]] \in Nat /\ ~up[r]
      BY <1>1, <1>3, <2>1, <2>2, PageTypes, StaleAfterChange DEF Dirty, Stamps, TypeOK
    <3>2. pg'[plan.dataPage[r]] = pg[plan.dataPage[r]]
      BY <3>1
    <3>3. X \cap Leaves(plan, plan.dataPage[r]) = {}
      BY <1>1, <1>3, <3>1, <3>2, StaleAfterChange
    <3>4. \A w \in WiresOf(r) : wval[w] = WireFn(w, Basis)
      BY <1>1, <2>2, <3>1, <3>2 DEF CleanOK, Dirty
    <3>5. \A x \in Leaves(plan, plan.dataPage[r]) : Seen'[x] = Seen[x]
      BY <1>3, <3>3 DEF Changes, Leaves
    <3>6. \A w \in plan.foreign[r] : Basis'[w] = Basis[w]
      <4> TAKE w \in plan.foreign[r]
      <4>1. w \in Wires /\ Eager' = Eager
        BY <1>1, <2>1, PlanTypes DEF Passes, Eager
      <4>2. CASE w \in Eager
        BY <1>2, <2>1, <4>1, <4>2 DEF BasisKnown
      <4>3. CASE w \notin Eager
        <5>1. Settled(Seen')[w] = Settled(Seen)[w]
          BY <1>1, <1>2, <3>5, <4>3, SettledByLeaves
        <5>2. QED
          BY <1>2, <4>1, <4>3, <5>1 DEF BasisKnown
      <4>4. QED
        BY <4>2, <4>3
    <3>7. QED
      BY <1>1, <1>2, <2>1, <3>4, <3>5, <3>6, CleanKept
  <2>3. QED
    BY <2>1, <2>2 DEF CleanOK, WiresOf
<1>4. CASE AllStale
  BY <1>4 DEF AllStale, CleanOK, Dirty, Passes
<1>5. ASSUME NEW r, Runs(r)
      PROVE  CleanOK'
  <2>1. PICK taken : RunPass(r, taken)
    BY <1>5 DEF Runs
  <2>2. r \in Passes /\ Ready(r) /\ inited /\ Seen = cur /\ UNCHANGED <<plan, cur, prev, inited, pg>>
    BY <1>5 DEF Runs
  <2>3. Seen' = Seen /\ Passes' = Passes /\ Eager' = Eager
    BY <2>2, SeenKept DEF Passes, Eager
  <2>4. CASE Skips(r, taken)
    <3>1. UNCHANGED <<wval, ed, up>>
      BY <2>4 DEF Skips
    <3>2. \A q \in Passes : Dirty(q)' <=> Dirty(q)
      BY <2>2, <3>1 DEF Dirty
    <3>3. Basis' = Basis
      BY <2>3, <3>1 DEF Basis
    <3>4. QED
      BY <1>1, <2>2, <2>3, <3>1, <3>2, <3>3 DEF CleanOK, WiresOf
  <2>5. CASE Recomputes(r, taken)
    <3>1. /\ wval' = Computed(r) /\ wval' \in [Wires -> Val]
          /\ \A w \in Wires \ WiresOf(r) : wval'[w] = wval[w]
          /\ \A w \in WiresOf(r) : wval'[w] = WireFn(w, Extend(cur, wval'))
      BY <1>1, <2>2, <2>5, Computes DEF Recomputes, TypeOK
    <3>2. \A w \in WiresOf(r) : wval'[w] = WireFn(w, Basis')
      <4> DEFINE o == plan.order[r]  b == Extend(cur, wval')  c == Basis'
      <4>1. /\ b \in Env /\ \A x \in Sigs : b[x] = cur[x]
            /\ \A w \in Wires : b[w] = wval'[w]
        BY <1>1, <3>1, NetlistAssumption DEF Extend, Env, TypeOK, State
      <4>2. /\ c \in Env /\ \A x \in Sigs : c[x] = cur[x]
            /\ \A w \in Eager : c[w] = wval'[w]
            /\ \A w \in Wires \ Eager : c[w] = Settled(Seen)[w]
        BY <1>2, <2>2, <2>3 DEF BasisKnown
      <4>3. o \in Seq(Wires) /\ Eager \subseteq Wires
            /\ \A i \in DOMAIN o : o[i] \in Eager /\ o[i] \in WiresOf(r)
        BY <1>1, <2>2, Tables DEF WiresOf
      <4>4. \A w \in plan.foreign[r] : b[w] = c[w]
        <5> TAKE w \in plan.foreign[r]
        <5>1. w \in Wires
          BY <1>1, <2>2, PlanTypes DEF Passes
        <5>2. CASE w \in Eager
          BY <4>1, <4>2, <5>1, <5>2
        <5>3. CASE w \notin Eager
          <6>1. wval[w] = Settled(Seen)[w]
            BY <2>2, <5>3 DEF Ready
          <6>2. w \notin WiresOf(r)
            BY <1>1, <2>2, <5>3, Tables
          <6>3. QED
            BY <3>1, <4>1, <4>2, <5>1, <5>3, <6>1, <6>2
        <5>4. QED
          BY <5>2, <5>3
      <4>5. \A x \in Leaves(plan, plan.dataPage[r]) : b[x] = c[x]
        BY <4>1, <4>2 DEF Leaves
      <4> HIDE DEF b, c
      <4>6. ASSUME NEW i \in DOMAIN o
            PROVE  WireFn(o[i], b) = WireFn(o[i], c)
        <5>1. \A j \in 1 .. i - 1 : j \in DOMAIN o
          BY <4>3
        <5>2. \A j \in 1 .. i - 1 : b[o[j]] = c[o[j]]
          BY <4>1, <4>2, <4>3, <5>1
        <5>3. QED
          BY <1>1, <2>2, <4>1, <4>2, <4>4, <4>5, <5>2, PassReads
      <4>7. QED
        BY <3>1, <4>6 DEF b, c, WiresOf
    <3>3. ASSUME NEW q \in Passes, q # r, ~Dirty(q)'
          PROVE  \A w \in WiresOf(q) : wval'[w] = WireFn(w, Basis')
      <4>1. ~Dirty(q) /\ q \notin Told(r)
        BY <1>1, <2>2, <2>5, <3>3 DEF Recomputes, Dirty, TypeOK
      <4>2. \A w \in WiresOf(q) : w \notin WiresOf(r) /\ w \in Wires
        BY <1>1, <2>2, <3>3, Tables
      <4>3. \A w \in plan.foreign[q] : Basis'[w] = Basis[w]
        <5> TAKE w \in plan.foreign[q]
        <5>1. w \in Wires
          BY <1>1, PlanTypes DEF Passes
        <5>2. CASE w \notin Eager
          BY <1>2, <2>3, <5>1, <5>2 DEF BasisKnown
        <5>3. CASE w \in Eager /\ w \notin WiresOf(r)
          BY <1>2, <2>3, <3>1, <5>1, <5>3 DEF BasisKnown
        <5>4. CASE w \in WiresOf(r)
          <6>1. w \in Eager /\ q \in plan.consumers[w]
            BY <1>1, <2>2, <5>4, Tables, PassesSound DEF Passes, Eager
          <6>2. w \notin Moved(r) /\ w \in Scalar
            BY <4>1, <5>4, <6>1 DEF Told
          <6>3. wval'[w] = wval[w]
            BY <3>1, <5>4, <6>2 DEF Moved
          <6>4. QED
            BY <1>2, <2>3, <6>1, <6>3 DEF BasisKnown
        <5>5. QED
          BY <5>2, <5>3, <5>4
      <4>4. \A w \in WiresOf(q) : wval[w] = WireFn(w, Basis) /\ wval'[w] = wval[w]
        BY <1>1, <2>2, <3>1, <4>1, <4>2 DEF CleanOK
      <4>5. \A x \in Leaves(plan, plan.dataPage[q]) : Seen'[x] = Seen[x]
        BY <2>3
      <4>6. QED
        BY <1>1, <1>2, <2>2, <4>3, <4>4, <4>5, CleanKept
    <3>4. QED
      BY <2>2, <2>3, <3>2, <3>3 DEF CleanOK, WiresOf
  <2>6. QED
    BY <2>1, <2>4, <2>5, RunCases
<1>6. ASSUME NEW w, Evaluates(w)
      PROVE  CleanOK'
  <2>1. UNCHANGED <<plan, cur, prev, inited, pg, ed, up>> /\ w \in Wires \ Eager
        /\ \A v \in Wires \ {w} : wval'[v] = wval[v]
    BY <1>1, <1>6 DEF Evaluates, TypeOK
  <2>2. Seen' = Seen /\ Passes' = Passes /\ Eager' = Eager
    BY <2>1, SeenKept DEF Passes, Eager
  <2>3. \A v \in Eager : v \in Wires \ {w}
    BY <1>1, <2>1, Tables
  <2>4. Basis' = Basis
    BY <2>1, <2>2, <2>3 DEF Basis, Extend
  <2>5. \A r \in Passes : (Dirty(r)' <=> Dirty(r)) /\ \A v \in WiresOf(r) : wval'[v] = wval[v]
    BY <1>1, <2>1, <2>3, Tables DEF Dirty
  <2>6. QED
    BY <1>1, <2>1, <2>2, <2>4, <2>5 DEF CleanOK, WiresOf
<1>7. QED
  BY <1>3, <1>4, <1>5, <1>6, ValueSteps

LEMMA LazyStep ==
    ASSUME AscendingPlans, MainInv, [Next]_vars
    PROVE  LazyOK'
<1>1. TypeOK /\ TypeOK' /\ Stamps /\ LazyOK /\ plan \in Plans
  BY TypeStep DEF MainInv, CoreInv, TypeInv, ValuesOK, TypeOK
<1>2. ASSUME NEW X \in SUBSET Sigs, Changes(X)
      PROVE  LazyOK'
  <2>1. UNCHANGED <<plan, ok, wval, inited>> /\ Eager' = Eager
    BY <1>2 DEF Changes, Eager
  <2>2. Seen \in State /\ Seen' \in State
    <3>1. TypeOK' => (Seen \in State)'
      BY SeenTyped, PTL
    <3>2. QED
      BY <1>1, <3>1, SeenTyped
  <2>3. ASSUME NEW w \in Wires \ Eager, ~Stale(w)', inited
        PROVE  wval'[w] = Settled(Seen')[w]
    <3>1. /\ ok[w] = pg'[plan.page[w]] /\ ok[w] <= pg[plan.page[w]]
          /\ pg[plan.page[w]] <= pg'[plan.page[w]] /\ plan.page[w] \in plan.pages
          /\ pg[plan.page[w]] \in Nat /\ pg'[plan.page[w]] \in Nat
      BY <1>1, <1>2, <2>1, <2>3, PageTypes, StaleAfterChange DEF Stale, Stamps, TypeOK
    <3>2. pg'[plan.page[w]] = pg[plan.page[w]]
      BY <3>1
    <3>3. X \cap Leaves(plan, plan.page[w]) = {}
      BY <1>1, <1>2, <3>1, <3>2, StaleAfterChange
    <3>4. \A x \in Leaves(plan, plan.page[w]) : Seen'[x] = Seen[x]
      BY <1>2, <3>3 DEF Changes, Leaves
    <3>5. wval[w] = Settled(Seen)[w]
      BY <1>1, <2>3, <3>1, <3>2 DEF LazyOK, Stale
    <3>6. Settled(Seen')[w] = Settled(Seen)[w]
      BY <1>1, <2>2, <3>4, SettledByLeaves
    <3>7. QED
      BY <2>1, <3>5, <3>6
  <2>4. QED
    BY <2>1, <2>3 DEF LazyOK
<1>3. CASE AllStale
  BY <1>3 DEF AllStale, LazyOK, Eager
<1>4. ASSUME NEW r, Runs(r)
      PROVE  LazyOK'
  <2>1. PICK taken : RunPass(r, taken)
    BY <1>4 DEF Runs
  <2>2. r \in Passes /\ inited /\ UNCHANGED <<plan, cur, prev, inited, pg, ok>>
    BY <1>4 DEF Runs
  <2>3. Seen' = Seen /\ Eager' = Eager
    BY <2>2, SeenKept DEF Eager
  <2>4. \A w \in Wires \ Eager : wval'[w] = wval[w]
    <3>1. CASE Skips(r, taken)
      BY <3>1 DEF Skips
    <3>2. CASE Recomputes(r, taken)
      BY <1>1, <2>2, <3>2, Computes, Tables DEF Recomputes, TypeOK
    <3>3. QED
      BY <2>1, <3>1, <3>2, RunCases
  <2>5. \A w \in Wires \ Eager : Stale(w)' <=> Stale(w)
    BY <2>2, <2>3 DEF Stale
  <2>6. QED
    BY <1>1, <2>2, <2>3, <2>4, <2>5 DEF LazyOK
<1>5. ASSUME NEW w, Evaluates(w)
      PROVE  LazyOK'
  <2>1. /\ UNCHANGED <<plan, cur, prev, inited, pg>> /\ w \in Wires \ Eager
        /\ \A v \in Wires \ {w} : wval'[v] = wval[v] /\ ok'[v] = ok[v]
        /\ wval'[w] = Settled(Seen)[w]
    BY <1>1, <1>5 DEF Evaluates, TypeOK
  <2>2. Seen' = Seen /\ Eager' = Eager
    BY <2>1, SeenKept DEF Eager
  <2>3. \A v \in (Wires \ Eager) \ {w} : Stale(v)' <=> Stale(v)
    BY <2>1, <2>2 DEF Stale
  <2>4. QED
    BY <1>1, <2>1, <2>2, <2>3 DEF LazyOK
<1>6. QED
  BY <1>2, <1>3, <1>4, <1>5, ValueSteps

-----------------------------------------------------------------------------
(***************************************************************************)
(* The worklist holds what is due, and one ascending scan clears it.       *)
(***************************************************************************)
(* Calls that stay below one bit stay below a higher one, and so do the    *)
(* calls they make.                                                        *)
LEMMA CallsGrow ==
    ASSUME plan \in Plans, NEW m \in Int, NEW n \in Int, m <= n
    PROVE  CallsUpTo(plan, m) \subseteq CallsUpTo(plan, n)
<1>1. \A r \in Bits : plan.bit[r] \in Int
  BY BitFacts
<1>2. QED
  BY <1>1 DEF CallsUpTo, Bits

LEMMA CallsClosed ==
    ASSUME NEW n, NEW w \in CallsUpTo(plan, n)
    PROVE  /\ CallDeps(w) \subseteq CallsUpTo(plan, n)
           /\ w \in Eager /\ plan.passOf[w] \in Bits => plan.bit[plan.passOf[w]] <= n
<1>1. CallDeps(w) \subseteq Needs(plan, w)
  BY DEF CallDeps, StaleIn, Needs, Eager
<1>2. QED
  BY <1>1 DEF CallsUpTo, Eager, Bits

(* A run leaves its pass clean, and the passes it makes dirty it puts on   *)
(* the list: readers of its wires, which come later.                       *)
LEMMA RunWork ==
    ASSUME TypeOK, NEW r \in Passes, NEW taken, RunPass(r, taken), UNCHANGED <<plan, pg>>
    PROVE  \E ts \in SUBSET Passes :
              /\ WakePasses(ts, taken) /\ (ts # {} => Dirty(r))
              /\ \A q \in ts : r \in Sources(q)
              /\ \A q \in Passes : Dirty(q)' => q # r /\ (Dirty(q) \/ q \in ts)
<1>1. plan \in Plans
  BY DEF TypeOK
<1>2. CASE Skips(r, taken)
  <2>1. \A q \in Passes : Dirty(q)' <=> Dirty(q)
    BY <1>2 DEF Skips, Dirty
  <2>2. WakePasses({}, taken) /\ ~Dirty(r)
    BY <1>2 DEF Skips
  <2>3. QED
    BY <2>1, <2>2
<1>3. CASE Recomputes(r, taken)
  <2>1. WakePasses(Told(r), taken) /\ Dirty(r) /\ Told(r) \in SUBSET Passes
    BY <1>1, <1>3, ToldTypes DEF Recomputes
  <2>2. \A q \in Told(r) : r \in Sources(q) /\ q # r
    BY <1>1, ToldReads
  <2>3. \A q \in Passes : Dirty(q)' => q # r /\ (Dirty(q) \/ q \in Told(r))
    BY <1>3, <2>2 DEF Recomputes, Dirty, TypeOK
  <2>4. QED
    BY <2>1, <2>2, <2>3
<1>4. QED
  BY <1>2, <1>3, RunCases

LEMMA ReadsAscend ==
    ASSUME AscendingPlans, plan \in Plans, NEW q \in Bits, NEW r \in Sources(q)
    PROVE  r \in Bits /\ plan.bit[r] < plan.bit[q]
<1>1. PICK w \in plan.foreign[q] \cap Eager : r = plan.passOf[w]
  BY DEF Sources
<1>2. q \in Passes
  BY BitFacts
<1>3. r < q /\ r \in Bits
  BY <1>1, <1>2 DEF AscendingPlans, Passes, Eager, Bits
<1>4. QED
  BY <1>3, BitsSound DEF Bits

(* A dirty woken pass that is run in a call is the one being drained.      *)
LEMMA CalledIsDue ==
    ASSUME TypeOK, DueOK, pc = "passes", NEW w \in want, w \in Eager,
           plan.passOf[w] \in Bits, Dirty(plan.passOf[w])
    PROVE  /\ plan.bit[plan.passOf[w]] \notin pNeed
           /\ want \subseteq CallsUpTo(plan, plan.bit[plan.passOf[w]])
           /\ word <= plan.bit[plan.passOf[w]] \div W
<1> DEFINE r == plan.passOf[w]
<1>1. plan \in Plans /\ plan.bit[r] \in Nat
  BY BitFacts DEF TypeOK
<1>2. plan.bit[r] \notin pNeed
  <2> SUFFICES ASSUME plan.bit[r] \in pNeed PROVE FALSE
    OBVIOUS
  <2>1. w \in CallsUpTo(plan, plan.bit[r] - 1)
    BY DEF DueOK
  <2>2. plan.bit[r] <= plan.bit[r] - 1
    BY <2>1, CallsClosed
  <2>3. QED
    BY <2>2, <1>1
<1>3. QED
  BY <1>2 DEF DueOK

LEMMA FirstWire ==
    ASSUME plan \in Plans, NEW r \in Passes
    PROVE  /\ plan.order[r][1] \in WiresOf(r) /\ plan.order[r][1] \in Eager
           /\ plan.passOf[plan.order[r][1]] = r /\ plan.order[r][1] \in Wires
BY Tables DEF WiresOf

LEMMA DueAfterHost ==
    ASSUME MainInv, TypeOK', pc # "passes", pc' # "passes", pNeed \subseteq pNeed',
           NEW X \in SUBSET Sigs, Changes(X)
    PROVE  DueOK'
<1>1. TypeOK /\ DueOK /\ plan \in Plans /\ UNCHANGED <<plan, ed, up>> /\ Bits' = Bits
  BY DEF MainInv, CoreInv, TypeInv, TypeOK, Changes, Bits
<1>2. ASSUME NEW r \in Bits, Dirty(r)'
      PROVE  plan.bit[r] \in pNeed'
  <2>1. r \in Passes /\ plan.dataPage[r] \in plan.pages
    BY <1>1, BitFacts, PageTypes
  <2>2. CASE Dirty(r)
    BY <1>1, <2>2 DEF DueOK
  <2>3. CASE ~Dirty(r)
    <3>1. pg'[plan.dataPage[r]] # pg[plan.dataPage[r]]
      BY <1>1, <1>2, <2>3 DEF Dirty
    <3>2. X \cap Leaves(plan, plan.dataPage[r]) # {}
      BY <2>1, <3>1 DEF Changes
    <3>3. PICK x \in X : x \in Leaves(plan, plan.dataPage[r])
      BY <3>2
    <3>4. r \in plan.leafPasses[x]
      BY <1>1, <3>3, PassesSound DEF Bits
    <3>5. plan.bit[r] \in BitsOf(plan.leafPasses[x])
      BY <3>4 DEF BitsOf, Bits
    <3>6. QED
      BY <3>5 DEF Changes
  <2>4. QED
    BY <2>2, <2>3
<1>3. QED
  BY <1>1, <1>2 DEF DueOK

(* Nothing is called, and what is taken off the list is due no more.       *)
LEMMA DueWhenQuiet ==
    ASSUME MainInv, UNCHANGED <<plan, ed, up, pg>>, pc = "passes" => want = {},
           pc' = "passes" => want' = {}, \A r \in Bits : plan.bit[r] \in pNeed => plan.bit[r] \in pNeed'
    PROVE  DueOK'
<1>1. Bits' = Bits /\ \A r \in Bits : Dirty(r)' <=> Dirty(r)
  BY DEF Bits, Dirty
<1>2. QED
  BY <1>1 DEF DueOK, MainInv

LEMMA DueAfterRun ==
    ASSUME AscendingPlans, MainInv, RunReadyPass
    PROVE  DueOK'
<1> DEFINE r == NextPass
<1>1. /\ TypeOK /\ TypeInv /\ DueOK /\ CalmOK /\ Phases /\ plan \in Plans /\ TakePass
      /\ want = {} /\ want' = {} /\ UNCHANGED <<plan, pg>> /\ Bits' = Bits
  BY DEF MainInv, CoreInv, TypeInv, ValuesOK, TypeOK, RunReadyPass, TakePass, hostVars, Bits
<1>2. r \in Bits /\ r \in Passes /\ plan.bit[r] = Least(PendingHere)
  BY <1>1, TakenPass DEF TypeInv
<1>3. \A q \in Bits : q # r => plan.bit[q] # plan.bit[r]
  <2> TAKE q \in Bits
  <2>1. q \in Nat /\ r \in Nat /\ plan.bit[q] \in Nat /\ plan.bit[r] \in Nat
    BY <1>1, <1>2, BitFacts, Tables
  <2>2. (q < r => plan.bit[q] < plan.bit[r]) /\ (r < q => plan.bit[r] < plan.bit[q])
    BY <1>1, <1>2, BitsSound DEF Bits
  <2>3. QED
    BY <2>1, <2>2
<1>4. PICK ts \in SUBSET Passes :
         /\ WakePasses(ts, {plan.bit[r]})
         /\ \A q \in Bits : Dirty(q)' => q # r /\ (Dirty(q) \/ q \in ts)
  <2>1. CASE RunPass(r, {Least(PendingHere)})
    <3>1. Bits \subseteq Passes
      BY <1>1, BitFacts
    <3>2. QED
      BY <1>1, <1>2, <2>1, <3>1, RunWork
  <2>2. CASE Fresh(r) /\ UNCHANGED <<eg, ed, up>> /\ WakePasses({}, {Least(PendingHere)})
    <3>1. ~Dirty(r)
      <4>1. inited
        BY <1>1 DEF Phases, TakePass
      <4>2. QED
        BY <1>2, <2>2, <4>1, <1>1, CalmIs DEF CalmOK, CleanSet
    <3>2. \A q \in Bits : Dirty(q)' <=> Dirty(q)
      BY <1>1, <2>2 DEF Dirty
    <3>3. QED
      BY <1>2, <2>2, <3>1, <3>2
  <2>3. QED
    BY <2>1, <2>2 DEF RunReadyPass, Fresh
<1>5. pNeed' = (pNeed \ {plan.bit[r]}) \cup BitsOf(ts)
  BY <1>4 DEF WakePasses
<1>6. ASSUME NEW q \in Bits, Dirty(q)'
      PROVE  plan.bit[q] \in pNeed'
  <2>1. q # r /\ (Dirty(q) \/ q \in ts)
    BY <1>4, <1>6
  <2>2. CASE Dirty(q)
    BY <1>1, <1>3, <1>5, <2>1, <2>2 DEF DueOK
  <2>3. CASE q \in ts
    BY <1>5, <2>3 DEF BitsOf, Bits
  <2>4. QED
    BY <2>1, <2>2, <2>3
<1>7. QED
  BY <1>1, <1>6 DEF DueOK

LEMMA DueAfterCall ==
    ASSUME AscendingPlans, MainInv, NEW w \in Wires, EvalPass(w)
    PROVE  DueOK'
<1> DEFINE r == plan.passOf[w]
<1>1. /\ TypeOK /\ DueOK /\ plan \in Plans /\ w \in want /\ w \in Eager /\ RunPass(r, {})
      /\ want' = want \ WiresOf(r) /\ UNCHANGED <<plan, pg, pc, word>> /\ Bits' = Bits
  BY DEF MainInv, CoreInv, TypeInv, TypeOK, EvalPass, hostVars, scanVars, Bits
<1>2. r \in Passes /\ Bits \subseteq Passes
  BY <1>1, Tables, BitFacts
<1>3. PICK ts \in SUBSET Passes :
         /\ WakePasses(ts, {}) /\ (ts # {} => Dirty(r))
         /\ \A q \in ts : r \in Sources(q)
         /\ \A q \in Passes : Dirty(q)' => q # r /\ (Dirty(q) \/ q \in ts)
  BY <1>1, <1>2, RunWork
<1>4. pNeed' = pNeed \cup BitsOf(ts)
  BY <1>3 DEF WakePasses
<1>5. \A q \in ts \cap Bits : plan.bit[q] \in pNeed'
  BY <1>4 DEF BitsOf, Bits
<1>6. ASSUME NEW q \in Bits, Dirty(q)'
      PROVE  plan.bit[q] \in pNeed' \/ (pc = "passes" /\ plan.order[q][1] \in want')
  <2>1. CASE Dirty(q)
    <3>1. q # r /\ plan.order[q][1] \in WiresOf(q)
      BY <1>1, <1>2, <1>3, <1>6, FirstWire
    <3>2. plan.order[q][1] \notin WiresOf(r)
      BY <1>1, <1>2, <3>1, Tables
    <3>3. QED
      BY <1>1, <1>4, <2>1, <3>2 DEF DueOK
  <2>2. QED
    BY <1>2, <1>3, <1>5, <1>6, <2>1
<1>7. ASSUME pc = "passes", NEW b \in pNeed'
      PROVE  want' \subseteq CallsUpTo(plan, b - 1)
  <2>1. CASE b \in pNeed
    BY <1>1, <1>7, <2>1 DEF DueOK
  <2>2. CASE b \in BitsOf(ts)
    <3>1. PICK q \in ts \cap Bits : b = plan.bit[q]
      BY <2>2 DEF BitsOf, Bits
    <3>2. r \in Bits /\ plan.bit[r] < plan.bit[q] /\ Dirty(r)
      BY <1>1, <1>3, <3>1, ReadsAscend
    <3>3. want \subseteq CallsUpTo(plan, plan.bit[r])
      BY <1>1, <1>7, <3>2, CalledIsDue
    <3>4. plan.bit[r] \in Int /\ b - 1 \in Int /\ plan.bit[r] <= b - 1
      BY <1>1, <3>1, <3>2, BitFacts
    <3>5. CallsUpTo(plan, plan.bit[r]) \subseteq CallsUpTo(plan, b - 1)
      BY <1>1, <3>4, CallsGrow
    <3>6. QED
      BY <1>1, <3>3, <3>5
  <2>3. QED
    BY <1>4, <2>1, <2>2
<1>8. ASSUME pc = "passes", NEW q \in Bits, Dirty(q)', plan.bit[q] \notin pNeed'
      PROVE  want' \subseteq CallsUpTo(plan, plan.bit[q]) /\ word <= plan.bit[q] \div W
  <2>1. Dirty(q) /\ plan.bit[q] \notin pNeed
    BY <1>2, <1>3, <1>4, <1>5, <1>8
  <2>2. QED
    BY <1>1, <1>8, <2>1 DEF DueOK
<1>9. QED
  BY <1>1, <1>6, <1>7, <1>8 DEF DueOK

LEMMA DueAfterTake ==
    ASSUME AscendingPlans, MainInv, CallPass
    PROVE  DueOK'
<1> DEFINE r == NextPass
<1>1. /\ TypeOK /\ TypeInv /\ DueOK /\ ScanOK /\ CalmOK /\ Phases /\ plan \in Plans /\ TakePass
      /\ want = {} /\ want' = StaleIn({plan.order[r][1]}) /\ pc = "passes"
      /\ pNeed' = pNeed \ {Least(PendingHere)}
      /\ UNCHANGED <<plan, pg, ed, up, pc, word>> /\ Bits' = Bits
  BY DEF MainInv, CoreInv, TypeInv, ValuesOK, TypeOK, CallPass, TakePass, hostVars, passVars,
     scanVars, Bits
<1>2. /\ r \in Bits /\ r \in Passes /\ plan.bit[r] = Least(PendingHere)
      /\ Least(PendingHere) \in PendingHere
  BY <1>1, TakenPass DEF TypeInv
<1>3. \A q \in Bits : Dirty(q)' <=> Dirty(q)
  BY <1>1 DEF Dirty
<1>4. \A q \in Bits : Dirty(q) => plan.bit[q] \in pNeed
  BY <1>1 DEF DueOK
<1>5. ASSUME NEW q \in Bits, Dirty(q), plan.bit[q] \notin pNeed'
      PROVE  q = r
  <2>1. plan.bit[q] = plan.bit[r]
    BY <1>1, <1>2, <1>4, <1>5
  <2>2. q \in Nat /\ r \in Nat /\ plan.bit[q] \in Nat
    BY <1>1, <1>2, BitFacts, Tables
  <2>3. (q < r => plan.bit[q] < plan.bit[r]) /\ (r < q => plan.bit[r] < plan.bit[q])
    BY <1>1, <1>2, BitsSound DEF Bits
  <2>4. QED
    BY <2>1, <2>2, <2>3
<1>6. Dirty(r) => plan.order[r][1] \in want'
  <2>1. inited
    BY <1>1 DEF Phases
  <2>2. Dirty(r) => ~Fresh(r)
    BY <1>1, <1>2, <2>1, CalmIs DEF CalmOK, CleanSet
  <2>3. ~Fresh(r) => Stale(plan.order[r][1])
    BY <1>1, <1>2, FirstWire, Tables DEF Stale, Fresh
  <2>4. QED
    BY <1>1, <2>2, <2>3 DEF StaleIn
<1>7. want' \subseteq CallsUpTo(plan, plan.bit[r])
  <2>1. plan.order[r][1] \in CallsUpTo(plan, plan.bit[r])
    BY <1>1, <1>2 DEF AscendingPlans, Bits
  <2>2. QED
    BY <1>1, <2>1 DEF StaleIn
<1>8. word <= plan.bit[r] \div W
  <2>1. word \in Nat
    <3>1. word \in pAny
      BY <1>1 DEF TypeInv, CursorOK
    <3>2. pAny \subseteq 0 .. NWords - 1
      BY <1>1 DEF TypeInv, WorkOK
    <3>3. QED
      BY <3>1, <3>2
  <2>2. plan.bit[r] \in Nat
    BY <1>1, <1>2, BitFacts
  <2>3. plan.bit[r] \in BitsIn(word)
    BY <1>2 DEF PendingHere
  <2>4. QED
    BY <2>1, <2>2, <2>3, BitWords
<1>9. ASSUME NEW b \in pNeed'
      PROVE  want' \subseteq CallsUpTo(plan, b - 1)
  <2>1. b \in pNeed /\ b # plan.bit[r] /\ plan.bit[r] <= b
    BY <1>1, <1>2, TakesLowest
  <2>2. b \in Nat /\ plan.bit[r] \in Nat
    BY <1>1, <1>2, <2>1, BitFacts, WordOfBit DEF TypeInv, WorkOK
  <2>3. plan.bit[r] <= b - 1 /\ plan.bit[r] \in Int /\ b - 1 \in Int
    BY <2>1, <2>2
  <2>4. QED
    BY <1>1, <1>7, <2>3, CallsGrow
<1>10. QED
  BY <1>1, <1>3, <1>4, <1>5, <1>6, <1>7, <1>8, <1>9 DEF DueOK

LEMMA DueStep ==
    ASSUME AscendingPlans, MainInv, [Next]_vars
    PROVE  DueOK'
<1> USE DEF hostVars, passVars, workVars, scanVars, holdVars
<1>1. /\ TypeOK /\ TypeOK' /\ TypeInv /\ DueOK /\ Phases /\ Phases' /\ plan \in Plans /\ UNCHANGED plan
  BY TypeStep, PhasesStep, WorkSteps DEF MainInv, CoreInv, TypeInv, TypeOK
<1>2. CASE UNCHANGED <<ed, up, pg, pNeed, pc, want, word>>
  BY <1>1, <1>2 DEF DueOK, Bits, Dirty
<1>3. ASSUME NEW w \in Wires, EvalPass(w)
      PROVE  DueOK'
  BY <1>3, DueAfterCall
<1>4. CASE RunReadyPass
  BY <1>4, DueAfterRun
<1>5. CASE CallPass
  BY <1>5, DueAfterTake
<1>6. ASSUME NEW w \in Wires, EvalLazy(w)
      PROVE  DueOK'
  <2>1. /\ want' = want \ {w} /\ w \notin Eager
        /\ UNCHANGED <<ed, up, pg, pNeed, pc, word>>
    BY <1>6 DEF EvalLazy
  <2>2. Bits' = Bits /\ \A r \in Bits : (Dirty(r)' <=> Dirty(r)) /\ plan.order[r][1] \in Eager
    BY <1>1, <2>1, BitFacts, FirstWire DEF Bits, Dirty
  <2>3. QED
    BY <1>1, <2>1, <2>2 DEF DueOK
<1>7. ASSUME NEW w \in Wires, PullDeps(w)
      PROVE  DueOK'
  <2>1. /\ w \in want /\ want' = want \cup CallDeps(w)
        /\ UNCHANGED <<ed, up, pg, pNeed, pc, word>>
    BY <1>7 DEF PullDeps
  <2>2. Bits' = Bits /\ \A r \in Bits : Dirty(r)' <=> Dirty(r)
    BY <1>1, <2>1 DEF Bits, Dirty
  <2>3. \A n : want \subseteq CallsUpTo(plan, n) => want' \subseteq CallsUpTo(plan, n)
    BY <2>1, CallsClosed
  <2>4. QED
    BY <1>1, <2>1, <2>2, <2>3 DEF DueOK
<1>8. CASE EvalReturn \/ StartDrain \/ NextWord \/ LeaveWord \/ NextSum \/ SkipHold
           \/ DemandReads \/ RunHold \/ \E w \in Outputs : EvalOutput(w)
  <2>1. UNCHANGED <<ed, up, pg, pNeed>>
    BY <1>8 DEF EvalReturn, StartDrain, NextWord, LeaveWord, NextSum, SkipHold,
       DemandReads, RunHold, EvalOutput
  <2>2. (pc = "passes" => want = {}) /\ (pc' = "passes" => want' = {})
    BY <1>1, <1>8 DEF EvalReturn, StartDrain, NextWord, LeaveWord, NextSum, SkipHold,
       DemandReads, RunHold, EvalOutput, DispatchHolds, Phases
  <2>3. QED
    BY <1>1, <2>1, <2>2, DueWhenQuiet
<1>9. CASE SkipTail
  <2>1. /\ UNCHANGED <<ed, up, pg>> /\ want = {} /\ want' = {}
        /\ pNeed' = pNeed \ {Least(PendingHere)} /\ Least(PendingHere) >= NPasses
    BY <1>9 DEF SkipTail
  <2>2. \A r \in Bits : plan.bit[r] # Least(PendingHere)
    <3> TAKE r \in Bits
    <3>1. NPasses \in Nat /\ plan.bit[r] \in 0 .. NPasses - 1
      BY <1>1, BitFacts
    <3>2. QED
      BY <2>1, <3>1
  <2>3. QED
    BY <1>1, <2>1, <2>2, DueWhenQuiet
<1>10. CASE (\E i \in Inputs, v \in Val : DriveInput(i, v)) \/ Poke \/ Tick \/ ForceWakeAll \/ Commit
  <2>1. pc # "passes" /\ pc' # "passes"
    BY <1>10 DEF DriveInput, Poke, Tick, ForceWakeAll, Commit
  <2>2. ASSUME NEW X \in SUBSET Sigs, Changes(X)
        PROVE  DueOK'
    <3>1. CASE ForceWakeAll
      <4>1. \A r \in Bits : plan.bit[r] \in pNeed'
        BY <1>1, <3>1, BitFacts DEF ForceWakeAll
      <4>2. Bits' = Bits
        BY <1>1 DEF Bits
      <4>3. QED
        BY <1>1, <2>1, <4>1, <4>2 DEF DueOK
    <3>2. CASE pNeed \subseteq pNeed'
      BY <1>1, <2>1, <2>2, <3>2, DueAfterHost
    <3>3. CASE Commit
      <4>1. {r \in list : nxt[r] # cur[r]} \in SUBSET Sigs
        BY <1>1 DEF TypeOK, Sigs
      <4>2. pNeed \subseteq pNeed'
        BY <1>1, <3>3, <4>1, BumpWakes DEF Commit, WakePasses
      <4>3. QED
        BY <3>2, <4>2
    <3>4. CASE Poke \/ Tick
      <4>1. PokeInputs
        BY <3>4 DEF Poke, Tick
      <4>2. pNeed \subseteq pNeed'
        BY <1>1, <4>1, PokeTypes DEF WakePasses
      <4>3. QED
        BY <3>2, <4>2
    <3>5. QED
      BY <1>10, <3>1, <3>2, <3>3, <3>4 DEF DriveInput
  <2>3. CASE AllStale
    <3>1. \A r \in Bits : plan.bit[r] \in pNeed' /\ Bits' = Bits
      BY <1>1, <2>3 DEF AllStale, BitsOf, Bits
    <3>2. QED
      BY <1>1, <2>1, <3>1 DEF DueOK, Bits
  <2>4. QED
    BY <1>3, <1>4, <1>6, <2>2, <2>3, StepKinds DEF MainInv
<1>11. QED
  BY <1>2, <1>3, <1>4, <1>5, <1>6, <1>7, <1>8, <1>9, <1>10 DEF Next, Host, Lazily, Drain,
     HoldSteps, vars

(* The passes that a run wakes lie ahead of the scan, and once the holds   *)
(* are dispatched there are none.                                          *)
LEMMA WokenAhead ==
    ASSUME AscendingPlans, MainInv, UNCHANGED plan, NEW r \in Passes, NEW ts \in SUBSET Passes,
           NEW taken, WakePasses(ts, taken), ts # {} => Dirty(r), \A q \in ts : r \in Sources(q),
           pc = "passes" /\ r \in Bits /\ Dirty(r) => word <= plan.bit[r] \div W
    PROVE  /\ pc = "passes" => \A w \in pAny' : w >= word
           /\ pc = "holds" => pAny' = {}
<1>1. plan \in Plans /\ DueOK /\ ScanOK /\ TypeInv
  BY DEF MainInv, CoreInv, TypeInv, TypeOK
<1>2. pAny' = pAny \cup {b \div W : b \in BitsOf(ts)}
  BY DEF WakePasses
<1>3. \A q \in ts \cap Bits : r \in Bits /\ plan.bit[r] < plan.bit[q] /\ Dirty(r)
  BY <1>1, ReadsAscend
<1>4. CASE pc = "passes"
  <2>1. ASSUME NEW b \in BitsOf(ts)
        PROVE  b \div W >= word
    <3>1. PICK q \in ts \cap Bits : b = plan.bit[q]
      BY DEF BitsOf, Bits
    <3>2. r \in Bits /\ plan.bit[r] < b /\ word <= plan.bit[r] \div W
      BY <1>3, <1>4, <3>1
    <3>3. plan.bit[r] \in Nat /\ b \in Nat
      BY <1>1, <3>1, <3>2, BitFacts
    <3>4. plan.bit[r] \div W <= b \div W
      BY <3>2, <3>3, WordOrder
    <3>5. word \in Int /\ plan.bit[r] \div W \in Int /\ b \div W \in Int
      <4>1. word \in pAny
        BY <1>1, <1>4 DEF TypeInv, CursorOK
      <4>2. pAny \subseteq 0 .. NWords - 1
        BY <1>1 DEF TypeInv, WorkOK
      <4>3. W \in Nat \ {0}
        BY EagerAssumption
      <4>4. QED
        BY <3>3, <4>1, <4>2, <4>3
    <3>6. QED
      BY <3>2, <3>4, <3>5
  <2>2. QED
    BY <1>1, <1>2, <1>4, <2>1 DEF ScanOK
<1>5. CASE pc = "holds"
  <2>1. pAny = {} /\ pNeed = {}
    BY <1>1, <1>5 DEF ScanOK, TypeInv, WorkOK
  <2>2. ts \cap Bits = {}
    <3> SUFFICES ASSUME NEW q \in ts \cap Bits PROVE FALSE
      OBVIOUS
    <3>1. r \in Bits /\ Dirty(r)
      BY <1>3
    <3>2. QED
      BY <1>1, <1>5, <2>1, <3>1 DEF DueOK
  <2>3. BitsOf(ts) = {}
    BY <2>2 DEF BitsOf, Bits
  <2>4. QED
    BY <1>2, <1>5, <2>1, <2>3
<1>6. QED
  BY <1>4, <1>5

LEMMA SumOrder ==
    ASSUME NEW v \in Nat, NEW w \in Nat
    PROVE  SumOf(v) \in Nat /\ SumOf(w) \in Nat /\ (SumOf(v) < SumOf(w) => v < w)
BY EagerAssumption DEF SumOf

LEMMA ScanStep ==
    ASSUME AscendingPlans, MainInv, [Next]_vars
    PROVE  ScanOK'
<1> USE DEF hostVars, passVars, workVars, scanVars, holdVars
<1>1. /\ TypeOK /\ TypeInv /\ DueOK /\ ScanOK /\ Phases /\ plan \in Plans /\ UNCHANGED plan
  BY WorkSteps DEF MainInv, CoreInv, TypeInv, TypeOK
<1>2. CASE UNCHANGED <<pc, sw, swBits, word, pAny>>
  <2>1. LiveWords(sw)' = LiveWords(sw)
    BY <1>2 DEF LiveWords, SumOf
  <2>2. CASE pc = "drain"
    BY <1>1, <1>2, <2>1, <2>2 DEF ScanOK, SumOf
  <2>3. CASE pc # "drain"
    BY <1>1, <1>2, <2>3 DEF ScanOK
  <2>4. QED
    BY <2>2, <2>3
<1>3. CASE pc' \notin {"drain", "passes", "holds"}
  BY <1>3 DEF ScanOK
<1>4. pAny \in SUBSET Nat /\ sw \in Nat
  <2>1. pAny \subseteq 0 .. NWords - 1
    BY <1>1 DEF TypeInv, WorkOK
  <2>2. QED
    BY <1>1, <2>1 DEF TypeInv, CursorOK
<1>5. ASSUME NEW w \in Wires, EvalPass(w)
      PROVE  ScanOK'
  <2> DEFINE r == plan.passOf[w]
  <2>1. w \in want /\ w \in Eager /\ RunPass(r, {}) /\ UNCHANGED <<pc, pg>> /\ r \in Passes
    BY <1>1, <1>5, Tables DEF EvalPass
  <2>2. PICK ts \in SUBSET Passes :
           WakePasses(ts, {}) /\ (ts # {} => Dirty(r)) /\ \A q \in ts : r \in Sources(q)
    BY <1>1, <2>1, RunWork
  <2>3. pc = "passes" /\ r \in Bits /\ Dirty(r) => word <= plan.bit[r] \div W
    BY <1>1, <2>1, CalledIsDue
  <2>4. pc # "drain" /\ word' = word
    BY <1>1, <1>5, <2>1 DEF Phases, EvalPass
  <2>5. /\ pc = "passes" => \A v \in pAny' : v >= word
        /\ pc = "holds" => pAny' = {}
    BY <1>1, <2>1, <2>2, <2>3, WokenAhead
  <2>6. QED
    BY <2>1, <2>4, <2>5 DEF ScanOK
<1>6. CASE RunReadyPass
  <2> DEFINE r == NextPass
  <2>1. pc = "passes" /\ UNCHANGED <<pc, word, pg>> /\ TakePass
    BY <1>6 DEF RunReadyPass, TakePass
  <2>2. r \in Bits /\ r \in Passes /\ plan.bit[r] \in PendingHere
    BY <1>1, <2>1, TakenPass DEF TypeInv
  <2>3. PICK ts \in SUBSET Passes :
           /\ WakePasses(ts, {Least(PendingHere)}) /\ (ts # {} => Dirty(r))
           /\ \A q \in ts : r \in Sources(q)
    <3>1. CASE RunPass(r, {Least(PendingHere)})
      BY <1>1, <2>1, <2>2, <3>1, RunWork
    <3>2. CASE WakePasses({}, {Least(PendingHere)})
      BY <3>2
    <3>3. QED
      BY <1>6, <3>1, <3>2 DEF RunReadyPass
  <2>4. word <= plan.bit[r] \div W
    <3>1. word \in Nat /\ plan.bit[r] \in BitsIn(word)
      BY <1>1, <1>4, <2>1, <2>2 DEF TypeInv, CursorOK, PendingHere
    <3>2. plan.bit[r] \in Nat
      BY <1>1, <2>2, BitFacts
    <3>3. QED
      BY <3>1, <3>2, BitWords
  <2>5. \A v \in pAny' : v >= word
    BY <1>1, <2>1, <2>2, <2>3, <2>4, WokenAhead
  <2>6. QED
    BY <2>1, <2>5 DEF ScanOK
<1>7. CASE StartDrain
  <2>1. CASE pWords = 0
    <3>1. pAny \in SUBSET (0 .. NWords - 1) /\ Cardinality(Sums(pAny)) = 0
      BY <1>1, <2>1 DEF TypeInv, WorkOK
    <3>2. IsFiniteSet(Sums(pAny))
      BY <1>1, <3>1, SumsFinite
    <3>3. Sums(pAny) = {}
      BY <3>1, <3>2, FS_EmptySet
    <3>4. pAny = {}
      BY <3>3 DEF Sums
    <3>5. QED
      BY <1>7, <2>1, <3>4 DEF StartDrain, DispatchHolds, ScanOK
  <2>2. CASE pWords # 0
    <3>1. pc' = "drain" /\ sw' = 0 /\ swBits' = LiveWords(0) /\ pAny' = pAny
      BY <1>7, <2>2 DEF StartDrain
    <3>2. \A w \in pAny : SumOf(w) >= 0
      BY <1>4, SumOrder
    <3>3. QED
      BY <3>1, <3>2 DEF ScanOK, LiveWords, SumOf
  <2>3. QED
    BY <2>1, <2>2
<1>8. CASE NextWord
  <2>1. /\ pc = "drain" /\ pc' = "passes" /\ word' = Least(swBits) /\ pAny' = pAny
        /\ swBits # {} /\ swBits \subseteq LiveWords(sw) /\ LiveWords(sw) \subseteq swBits
        /\ \A w \in pAny : SumOf(w) >= sw
    BY <1>1, <1>8 DEF NextWord, TypeInv, CursorOK, ScanOK
  <2>2. Least(swBits) \in swBits /\ \A k \in swBits : Least(swBits) <= k
    BY <1>4, <2>1, LeastElement DEF LiveWords
  <2> DEFINE l == Least(swBits)
  <2>3. l \in Nat /\ SumOf(l) = sw
    BY <1>4, <2>1, <2>2 DEF LiveWords
  <2>4. \A w \in pAny : w >= l
    <3> TAKE w \in pAny
    <3>1. CASE SumOf(w) = sw
      <4>1. w \in swBits
        BY <2>1, <3>1 DEF LiveWords
      <4>2. QED
        BY <1>4, <2>2, <2>3, <4>1
    <3>2. CASE SumOf(w) # sw
      <4> HIDE DEF l
      <4>1. w \in Nat /\ SumOf(w) \in Nat /\ SumOf(w) >= sw
        BY <1>4, <2>1, SumOrder
      <4>2. SumOf(l) < SumOf(w)
        BY <1>4, <2>3, <3>2, <4>1
      <4>3. l < w
        BY <2>3, <4>1, <4>2, SumOrder
      <4>4. QED
        BY <2>3, <4>1, <4>3
    <3>3. QED
      BY <3>1, <3>2
  <2>5. QED
    BY <2>1, <2>4 DEF ScanOK
<1>9. CASE LeaveWord
  <2>1. /\ pc = "passes" /\ pc' = "drain" /\ pAny' = pAny \ {word} /\ UNCHANGED sw
        /\ swBits' = swBits \cup {w \in pAny' : SumOf(w) = sw /\ w > word}
        /\ word \in pAny /\ SumOf(word) = sw /\ \A w \in pAny : w >= word
    BY <1>1, <1>9 DEF LeaveWord, StillToVisit, TypeInv, CursorOK, ScanOK
  <2>2. \A w \in pAny' : w > word
    BY <1>4, <2>1
  <2>3. {w \in pAny' : SumOf(w) = sw} \subseteq swBits'
    BY <2>1, <2>2
  <2>4. \A w \in pAny' : SumOf(w) >= sw
    <3> TAKE w \in pAny'
    <3>1. w \in Nat /\ word \in Nat /\ w > word
      BY <1>4, <2>1, <2>2
    <3>2. SumOf(w) \in Nat /\ SumOf(word) \in Nat /\ ~(SumOf(w) < SumOf(word))
      BY <3>1, SumOrder
    <3>3. QED
      BY <2>1, <3>2
  <2>5. QED
    BY <2>1, <2>3, <2>4 DEF ScanOK, LiveWords, SumOf
<1>10. CASE NextSum
  <2>1. /\ pc = "drain" /\ swBits = {} /\ pAny' = pAny /\ LiveWords(sw) = {}
        /\ \A w \in pAny : SumOf(w) >= sw
    BY <1>1, <1>10 DEF NextSum, ScanOK
  <2>2. \A w \in pAny : SumOf(w) \in Nat /\ SumOf(w) >= sw + 1
    <3> TAKE w \in pAny
    <3>1. SumOf(w) \in Nat /\ SumOf(w) # sw /\ SumOf(w) >= sw
      BY <1>4, <2>1, SumOrder DEF LiveWords
    <3>2. QED
      BY <1>4, <3>1
  <2>3. CASE sw + 1 < NSums
    <3>1. pc' = "drain" /\ sw' = sw + 1 /\ swBits' = LiveWords(sw + 1)
      BY <1>10, <2>1, <2>3 DEF NextSum
    <3>2. QED
      BY <2>1, <2>2, <3>1 DEF ScanOK, LiveWords, SumOf
  <2>4. CASE ~(sw + 1 < NSums)
    <3>1. \A w \in pAny : SumOf(w) < NSums
      <4> DEFINE n == NWords  m == NSums
      <4>1. n \in Nat /\ m \in Nat /\ n <= m * W /\ W \in Nat \ {0}
        BY <1>1, BitFacts, EagerAssumption
      <4>2. \A w \in pAny : w \in Nat /\ w < n
        <5>1. pAny \subseteq 0 .. n - 1
          BY <1>1 DEF TypeInv, WorkOK
        <5> HIDE DEF n
        <5>2. QED
          BY <1>4, <4>1, <5>1
      <4> HIDE DEF n, m
      <4>3. \A w \in Nat : w < n => w \div W < m
        BY <4>1
      <4>4. QED
        BY <4>2, <4>3 DEF SumOf, m
    <3>2. pAny = {}
      <4>1. NSums \in Nat
        BY <1>1, BitFacts
      <4>2. QED
        BY <1>4, <2>2, <2>4, <3>1, <4>1
    <3>3. pc' = "holds"
      BY <1>10, <2>4 DEF NextSum, DispatchHolds
    <3>4. QED
      BY <2>1, <3>2, <3>3 DEF ScanOK
  <2>5. QED
    BY <2>3, <2>4
<1>11. QED
  BY <1>2, <1>3, <1>5, <1>6, <1>7, <1>8, <1>9, <1>10 DEF Next, Host, Lazily, Drain, HoldSteps,
     vars, DriveInput, EvalOutput, EvalReturn, Poke, Tick, ForceWakeAll, PullDeps, EvalLazy,
     SkipTail, CallPass, SkipHold, DemandReads, RunHold, Commit

LEMMA InitMain == Init => MainInv
<1> SUFFICES ASSUME Init PROVE MainInv
  OBVIOUS
<1>1. ~inited /\ pc = "idle" /\ plan \in Plans
  BY DEF Init
<1>2. TypeInv /\ Phases /\ Stamps
  BY InitTypes, InitWork, InitPhases DEF TypeInv
<1>3. Unstarted
  <2>1. awake = Holds /\ pNeed = 0 .. NWords * W - 1
    BY DEF Init
  <2>2. QED
    BY <1>1, <2>1, BitsOfRange DEF Unstarted
<1>4. \A r \in Bits : ~Dirty(r)
  <2> TAKE r \in Bits
  <2>1. r \in Passes /\ plan.dataPage[r] \in plan.pages
    BY <1>1, BitFacts, PageTypes
  <2>2. QED
    BY <2>1 DEF Init, Dirty
<1>5. QED
  BY <1>1, <1>2, <1>3, <1>4 DEF MainInv, CoreInv, ValuesOK, CalmOK, CleanOK, LazyOK, DueOK, ScanOK

LEMMA MainInvariance ==
    ASSUME AscendingPlans
    PROVE  Spec => []MainInv
<1>1. Init => MainInv
  BY InitMain
<1>2. MainInv /\ [Next]_vars => MainInv'
  BY TypeStep, WorkStep, CursorStep, PhasesStep, UnstartedStep, StampsStep, CalmStep, CleanStep,
     LazyStep, DueStep, ScanStep DEF MainInv, CoreInv, TypeInv, ValuesOK
<1>3. QED
  BY <1>1, <1>2, PTL DEF Spec

(* Whatever a call, the drain or a hold reads of a wire whose stamp equals *)
(* its page is the value that a full evaluation gives it, in every         *)
(* grouping of the wires whose passes read earlier passes only.            *)
THEOREM StampedWiresSettled ==
    ASSUME AscendingPlans
    PROVE  Spec => []StampedIsSettled
<1>1. MainInv => StampedIsSettled
  BY FreshSettled DEF MainInv, CoreInv, TypeInv, ValuesOK, StampedIsSettled
<1>2. QED
  BY <1>1, MainInvariance, PTL

(* When the holds are dispatched no pass that can wake a hold is due.      *)
LEMMA DrainedAtHolds ==
    ASSUME AscendingPlans, MainInv, pc = "holds"
    PROVE  /\ pNeed = {} /\ pAny = {} /\ inited /\ Seen = cur
           /\ \A r \in Bits : /\ ~Dirty(r) /\ r \in Calm
                              /\ \A w \in WiresOf(r) : wval[w] = Settled(Seen)[w]
<1>1. /\ plan \in Plans /\ TypeOK /\ WorkOK /\ Phases /\ CleanOK /\ DueOK /\ ScanOK
  BY DEF MainInv, CoreInv, TypeInv, TypeOK, ValuesOK
<1>2. pNeed = {} /\ pAny = {}
  BY <1>1 DEF ScanOK, WorkOK
<1>3. inited /\ Seen = cur
  BY <1>1 DEF Phases
<1>4. \A r \in Bits : ~Dirty(r)
  BY <1>1, <1>2 DEF DueOK
<1>5. CleanSet(Bits)
  BY <1>1, <1>4, BitFacts, ReadsAscend DEF CleanSet
<1>6. Bits \subseteq Calm
  BY <1>5, CalmIs
<1>7. \A r \in Calm : \A w \in WiresOf(r) : wval[w] = Settled(Seen)[w]
  BY <1>1, <1>3, CalmIsSettled
<1>8. QED
  BY <1>2, <1>3, <1>4, <1>6, <1>7

(* The one ascending scan of the bitmap leaves no pass pending, and every  *)
(* wire of a drained pass has settled when a hold reads it unguarded.      *)
THEOREM DrainLeavesNothing ==
    ASSUME AscendingPlans
    PROVE  Spec => []DrainSettles
<1>1. MainInv => DrainSettles
  <2>1. plan \in Plans => plan.drained \subseteq Bits
    BY PlanTypes DEF Bits
  <2>2. QED
    BY <2>1, DrainedAtHolds DEF DrainSettles, MainInv, CoreInv, TypeInv, TypeOK
<1>2. QED
  BY <1>1, MainInvariance, PTL

(* A wire that moves while the holds are dispatched wakes none of them:    *)
(* the holds that would miss it are cut at drained passes only.            *)
LEMMA HoldsRunQuiet ==
    ASSUME AscendingPlans, MainInv, pc = "holds", NEW w \in Wires, EvalPass(w)
    PROVE  awake' = awake
<1> DEFINE r == plan.passOf[w]
<1>1. plan \in Plans /\ r \in Passes /\ RunPass(r, {})
  BY Tables DEF MainInv, CoreInv, TypeInv, TypeOK, EvalPass
<1>2. CASE Skips(r, {})
  BY <1>2 DEF Skips
<1>3. CASE Recomputes(r, {})
  <2>1. r \notin Bits
    BY <1>3, DrainedAtHolds DEF Recomputes
  <2>2. \A v \in WiresOf(r) : plan.cutHolds[v] = {}
    BY <1>1, <2>1, Tables, HoldsSound DEF Eager, Bits
  <2>3. QED
    BY <1>3, <2>2 DEF Recomputes, Moved
<1>4. QED
  BY <1>1, <1>2, <1>3, RunCases

(* No hold is woken while the holds are dispatched, so none before the     *)
(* cursor misses the wake of this tick.                                    *)
THEOREM WakesComeBeforeHolds ==
    ASSUME AscendingPlans
    PROVE  Spec => NoLateWake
<1>1. MainInv /\ [Next]_vars => [pc = "holds" /\ pc' = "holds" => awake' \subseteq awake]_vars
  <2> SUFFICES ASSUME MainInv, Next, pc = "holds", pc' = "holds"
               PROVE  awake' \subseteq awake
    BY DEF vars
  <2>1. \A w \in Wires : EvalPass(w) => awake' = awake
    BY HoldsRunQuiet
  <2>2. QED
    BY <2>1 DEF Next, Host, Lazily, Drain, HoldSteps, DriveInput, EvalOutput, EvalReturn, Poke,
       Tick, ForceWakeAll, PullDeps, EvalLazy, StartDrain, NextWord, SkipTail, RunReadyPass,
       CallPass, LeaveWord, NextSum, SkipHold, DemandReads, RunHold, Commit, TakePass
<1>2. QED
  BY <1>1, MainInvariance, PTL DEF Spec, NoLateWake
-----------------------------------------------------------------------------
(***************************************************************************)
(* Sleeping holds.                                                         *)
(***************************************************************************)
HoldInv == MainInv /\ SleepOK /\ StagedOK

LEMMA DoesTypes ==
    ASSUME NEW h \in Holds, NEW s \in State
    PROVE  /\ DOMAIN Does(h, s) \subseteq Regs
           /\ \A r \in DOMAIN Does(h, s) : Does(h, s)[r] \in Val
BY SettledFacts, NetlistAssumption DEF Does

(* A hold does the same in states that agree on what wakes it.             *)
LEMMA DoesSame ==
    ASSUME plan \in Plans, NEW h \in Holds, NEW s \in State, NEW t \in State,
           \A x \in Sigs : h \in plan.leafHolds[x] => s[x] = t[x],
           \A w \in Eager : h \in plan.cutHolds[w] => Settled(s)[w] = Settled(t)[w]
    PROVE  Does(h, s) = Does(h, t)
BY HoldsSound DEF Does, Eager

LEMMA CutsAreWoken ==
    ASSUME plan \in Plans, NEW w \in Eager, NEW h \in plan.cutHolds[w]
    PROVE  w \in Scalar /\ plan.passOf[w] \in Bits /\ w \in WiresOf(plan.passOf[w])
BY HoldsSound, Tables DEF Eager, Bits

LEMMA UnmovedSame ==
    ASSUME AscendingPlans, MainInv, pc = "holds", NEW h \in Holds, NEW t \in State, Unmoved(h, t)
    PROVE  Does(h, t) = Does(h, Seen)
<1>1. TypeOK /\ plan \in Plans
  BY DEF MainInv, CoreInv, TypeInv, TypeOK
<1>2. \A w \in Eager : h \in plan.cutHolds[w] => Settled(t)[w] = Settled(Seen)[w]
  BY <1>1, CutsAreWoken, DrainedAtHolds DEF Unmoved
<1>3. QED
  BY <1>1, <1>2, SeenIsState, DoesSame DEF Unmoved

(* When the holds are dispatched a sleeper would do what its registers     *)
(* have, as the cone it was cut at has settled.                            *)
LEMMA SleepersAgree ==
    ASSUME AscendingPlans, MainInv, SleepOK, pc = "holds", NEW h \in Holds \ awake
    PROVE  \A r \in DOMAIN Does(h, Seen) : Does(h, Seen)[r] = cur[r]
<1>1. TypeOK /\ plan \in Plans
  BY DEF MainInv, CoreInv, TypeInv, TypeOK
<1>2. PICK t \in State : Unmoved(h, t) /\ \A r \in DOMAIN Does(h, t) : Does(h, t)[r] = cur[r]
  BY DEF SleepOK
<1>3. QED
  BY <1>2, UnmovedSame

(* What a dispatched hold reads is settled.                                *)
LEMMA HoldReads ==
    ASSUME AscendingPlans, MainInv, RunHold
    PROVE  HoldFn(turn, Now) = Does(turn, Seen)
<1> DEFINE e == Settled(Seen)
           S == Sigs \cup plan.holdReads[turn] \cup DrainedWires(plan)
<1>1. /\ TypeOK /\ plan \in Plans /\ CalmOK /\ CleanOK /\ LazyOK
      /\ pc = "holds" /\ turn \in Holds /\ Demanded = {}
  BY DEF MainInv, CoreInv, TypeInv, TypeOK, ValuesOK, RunHold
<1>2. inited /\ Seen = cur
  BY <1>1, DrainedAtHolds
<1>3. e \in Env /\ Now \in Env /\ \A x \in Sigs : e[x] = cur[x] /\ Now[x] = cur[x]
  BY <1>1, <1>2, SeenIsState, SettledFacts, NowIsEnv DEF TypeOK, Now
<1>4. \A w \in Wires : Now[w] = wval[w]
  BY NetlistAssumption DEF Now
<1>5. ASSUME NEW w \in plan.holdReads[turn]
      PROVE  Now[w] = e[w]
  <2>1. w \in Wires /\ ~Stale(w)
    BY <1>1, PlanTypes DEF Demanded, StaleIn
  <2>2. QED
    BY <1>1, <1>2, <1>4, <2>1, FreshSettled
<1>6. ASSUME NEW w \in DrainedWires(plan)
      PROVE  Now[w] = e[w]
  <2>1. w \in Eager /\ plan.passOf[w] \in Bits
    BY <1>1, PlanTypes DEF DrainedWires, Eager, Bits
  <2>2. w \in Wires /\ w \in WiresOf(plan.passOf[w])
    BY <1>1, <2>1, Tables
  <2>3. QED
    BY <1>1, <1>4, <2>1, <2>2, DrainedAtHolds
<1>7. \A x \in S : Now[x] = e[x]
  BY <1>3, <1>5, <1>6
<1>8. HoldFn(turn, Now) = HoldFn(turn, Kept(Now, S)) /\ HoldFn(turn, e) = HoldFn(turn, Kept(e, S))
  BY <1>1, <1>3, ReadsSound
<1> HIDE DEF e, S
<1>9. Kept(Now, S) = Kept(e, S)
  BY <1>3, <1>7, KeptAgree
<1>10. QED
  BY <1>8, <1>9 DEF Does, e

LEMMA SleepKept ==
    ASSUME TypeOK, SleepOK, NEW X \in SUBSET Sigs, Changes(X), awake \subseteq awake',
           \A h \in Holds \ awake' : \A t \in State : Unmoved(h, t) =>
               \A r \in DOMAIN Does(h, t) : cur'[r] = cur[r]
    PROVE  SleepOK'
<1>1. UNCHANGED <<plan, wval>> /\ Eager' = Eager
  BY DEF Changes, Eager
<1>2. ASSUME NEW h \in Holds \ awake'
      PROVE  \E t \in State : Unmoved(h, t)' /\ \A r \in DOMAIN Does(h, t) : Does(h, t)[r] = cur'[r]
  <2>1. PICK t \in State : Unmoved(h, t) /\ \A r \in DOMAIN Does(h, t) : Does(h, t)[r] = cur[r]
    BY <1>2 DEF SleepOK
  <2>2. \A x \in Sigs : h \in plan.leafHolds[x] => x \notin X
    BY <1>2 DEF Changes
  <2>3. Unmoved(h, t)'
    BY <1>1, <2>1, <2>2 DEF Unmoved, Changes
  <2>4. QED
    BY <1>2, <2>1, <2>3
<1>3. QED
  BY <1>2 DEF SleepOK, Does

(* A run wakes every hold that is cut at a wire it moved.                  *)
LEMMA SleepAfterRun ==
    ASSUME TypeOK, SleepOK, NEW r, Runs(r)
    PROVE  SleepOK'
<1>1. PICK taken : RunPass(r, taken)
  BY DEF Runs
<1>2. /\ r \in Passes /\ UNCHANGED <<plan, cur, prev, pg>> /\ plan \in Plans /\ Eager' = Eager
      /\ Seen' = Seen
  BY SeenKept DEF Runs, TypeOK, Eager
<1>3. /\ awake \subseteq awake'
      /\ \A w \in Eager : \A h \in plan.cutHolds[w] : h \notin awake' => wval'[w] = wval[w]
  <2>1. CASE Skips(r, taken)
    BY <2>1 DEF Skips
  <2>2. CASE Recomputes(r, taken)
    <3>1. /\ wval' = Computed(r) /\ awake' = awake \cup UNION {plan.cutHolds[w] : w \in Moved(r)}
          /\ \A w \in Wires \ WiresOf(r) : wval'[w] = wval[w]
      BY <1>2, <2>2, Computes DEF Recomputes, TypeOK
    <3>2. ASSUME NEW w \in Eager, NEW h \in plan.cutHolds[w], h \notin awake'
          PROVE  wval'[w] = wval[w]
      <4>1. w \in Scalar /\ w \in Wires /\ w \notin Moved(r)
        BY <1>2, <3>1, <3>2, CutsAreWoken, Tables
      <4>2. QED
        BY <3>1, <4>1 DEF Moved
    <3>3. QED
      BY <3>1, <3>2
  <2>3. QED
    BY <1>1, <2>1, <2>2, RunCases
<1>4. ASSUME NEW h \in Holds \ awake'
      PROVE  \E t \in State : Unmoved(h, t)' /\ \A q \in DOMAIN Does(h, t) : Does(h, t)[q] = cur'[q]
  <2>1. PICK t \in State : Unmoved(h, t) /\ \A q \in DOMAIN Does(h, t) : Does(h, t)[q] = cur[q]
    BY <1>3, <1>4 DEF SleepOK
  <2>2. Unmoved(h, t)'
    BY <1>2, <1>3, <1>4, <2>1 DEF Unmoved
  <2>3. QED
    BY <1>2, <2>1, <2>2
<1>5. QED
  BY <1>4 DEF SleepOK, Does

LEMMA PokeWakes ==
    ASSUME TypeOK, PokeInputs
    PROVE  awake \subseteq awake'
<1>1. CASE inited
  <2> DEFINE X == {i \in UsedInputs : cur[i] # prev[i]}
  <2>1. X \in SUBSET Sigs /\ Bump(X)
    BY <1>1 DEF PokeInputs, UsedInputs, Sigs
  <2> HIDE DEF X
  <2>2. QED
    BY <2>1, BumpWakes
<1>2. CASE ~inited
  BY <1>2 DEF PokeInputs
<1>3. QED
  BY <1>1, <1>2

(* A hold goes to sleep when it assigned what its registers had already.   *)
LEMMA SleepAfterHold ==
    ASSUME AscendingPlans, MainInv, SleepOK, RunHold
    PROVE  SleepOK'
<1>1. /\ TypeOK /\ plan \in Plans /\ pc = "holds" /\ turn \in Holds
      /\ UNCHANGED <<plan, cur, prev, wval>> /\ Eager' = Eager
  BY DEF MainInv, CoreInv, TypeInv, TypeOK, RunHold, hostVars, passVars, Eager
<1>2. Seen' = Seen /\ Seen \in State /\ Seen = cur
  BY <1>1, SeenKept, SeenIsState, DrainedAtHolds
<1>3. \A h, t : Unmoved(h, t)' <=> Unmoved(h, t)
  BY <1>1, <1>2 DEF Unmoved
<1>4. \/ awake' = awake
      \/ /\ awake' = awake \ {turn}
         /\ \A r \in DOMAIN Does(turn, Seen) : Does(turn, Seen)[r] = cur[r]
  <2>1. HoldFn(turn, Now) = Does(turn, Seen)
    BY HoldReads
  <2>2. QED
    BY <2>1 DEF RunHold
<1>5. Unmoved(turn, Seen)
  <2>1. \A w \in Eager : turn \in plan.cutHolds[w] => Settled(Seen)[w] = wval[w]
    BY <1>1, CutsAreWoken, DrainedAtHolds
  <2>2. QED
    BY <2>1 DEF Unmoved
<1>6. ASSUME NEW h \in Holds \ awake'
      PROVE  \E t \in State : Unmoved(h, t) /\ \A r \in DOMAIN Does(h, t) : Does(h, t)[r] = cur[r]
  <2>1. CASE h \notin awake
    BY <2>1 DEF SleepOK
  <2>2. CASE h \in awake
    BY <1>2, <1>4, <1>5, <1>6, <2>2
  <2>3. QED
    BY <2>1, <2>2
<1>7. QED
  BY <1>1, <1>3, <1>6 DEF SleepOK, Does

(* No sleeper writes what a commit moves: that has another writer.         *)
LEMMA SleepAfterCommit ==
    ASSUME AscendingPlans, ExclusiveWriters, MainInv, SleepOK, StagedOK, Commit,
           NEW X \in SUBSET Sigs, Changes(X)
    PROVE  SleepOK'
<1>1. TypeOK /\ pc = "holds" /\ Seen \in State
  BY SeenIsState DEF MainInv, CoreInv, TypeInv, Commit
<1>2. awake \subseteq awake'
  <2>1. {r \in list : nxt[r] # cur[r]} \in SUBSET Sigs
    BY <1>1 DEF TypeOK, Sigs
  <2>2. QED
    BY <1>1, <2>1, BumpWakes DEF Commit
<1>3. ASSUME NEW h \in Holds \ awake', NEW t \in State, Unmoved(h, t),
             NEW r \in DOMAIN Does(h, t)
      PROVE  cur'[r] = cur[r]
  <2>1. Does(h, t) = Does(h, Seen)
    BY <1>1, <1>3, UnmovedSame
  <2>2. r \in Regs
    BY <1>3, DoesTypes
  <2>3. r \notin list
    <3> SUFFICES ASSUME r \in list PROVE FALSE
      OBVIOUS
    <3>1. PICK g \in awake : r \in DOMAIN Does(g, Seen)
      BY <1>1 DEF StagedOK
    <3>2. g \in Holds /\ g # h
      BY <1>1, <1>2, <1>3 DEF TypeOK
    <3>3. r \in DOMAIN HoldFn(g, Settled(Seen)) /\ r \in DOMAIN HoldFn(h, Settled(Seen))
      BY <1>3, <2>1, <3>1 DEF Does
    <3>4. QED
      BY <1>1, <2>2, <3>2, <3>3 DEF ExclusiveWriters
  <2>4. r \in Sigs
    BY <2>2 DEF Sigs
  <2>5. QED
    BY <2>3, <2>4 DEF Commit
<1>4. QED
  BY <1>1, <1>2, <1>3, SleepKept

LEMMA SleepStep ==
    ASSUME AscendingPlans, ExclusiveWriters, MainInv, SleepOK, StagedOK, [Next]_vars
    PROVE  SleepOK'
<1> USE DEF hostVars, passVars, workVars, scanVars, holdVars
<1>1. TypeOK /\ plan \in Plans /\ UNCHANGED plan
  BY WorkSteps DEF MainInv, CoreInv, TypeInv, TypeOK
<1>2. ASSUME NEW w \in Wires, EvalPass(w)
      PROVE  SleepOK'
  BY <1>1, <1>2, CallRuns, SleepAfterRun
<1>3. CASE RunReadyPass /\ RunPass(NextPass, {Least(PendingHere)})
  BY <1>1, <1>3, DrainRuns, SleepAfterRun
<1>4. ASSUME NEW w \in Wires, EvalLazy(w)
      PROVE  SleepOK'
  <2>1. /\ UNCHANGED <<plan, cur, prev, awake>> /\ w \in Wires \ Eager
        /\ \A v \in Wires \ {w} : wval'[v] = wval[v]
    BY <1>1, <1>4 DEF EvalLazy, TypeOK
  <2>2. Seen' = Seen /\ Eager' = Eager /\ \A v \in Eager : wval'[v] = wval[v]
    BY <1>1, <2>1, SeenKept, Tables DEF Eager
  <2>3. \A h, t : Unmoved(h, t)' <=> Unmoved(h, t)
    BY <2>1, <2>2 DEF Unmoved
  <2>4. QED
    BY <2>1, <2>3 DEF SleepOK, Does
<1>5. CASE RunHold
  BY <1>5, SleepAfterHold
<1>6. CASE AllStale
  BY <1>6 DEF AllStale, SleepOK
<1>7. ASSUME awake \subseteq awake', \A r \in Regs : cur'[r] = cur[r]
      PROVE  SleepOK'
  <2>1. ASSUME NEW X \in SUBSET Sigs, Changes(X)
        PROVE  SleepOK'
    BY <1>1, <1>7, <2>1, SleepKept, DoesTypes
  <2>2. QED
    BY <1>2, <1>3, <1>4, <1>6, <2>1, StepKinds DEF MainInv
<1>8. ASSUME NEW i \in Inputs, NEW v \in Val, DriveInput(i, v)
      PROVE  SleepOK'
  <2>1. \A r \in Regs : cur'[r] = cur[r]
    BY <1>1, <1>8, NetlistAssumption DEF DriveInput, TypeOK, State, Sigs
  <2>2. QED
    BY <1>7, <1>8, <2>1 DEF DriveInput
<1>9. CASE Poke \/ Tick
  BY <1>1, <1>7, <1>9, PokeWakes DEF Poke, Tick
<1>10. CASE ForceWakeAll
  BY <1>1, <1>7, <1>10 DEF ForceWakeAll, TypeOK
<1>11. CASE Commit
  BY <1>2, <1>3, <1>4, <1>6, <1>11, StepKinds, SleepAfterCommit DEF MainInv
<1>12. CASE UNCHANGED <<awake, cur>>
  BY <1>7, <1>12
<1>13. QED
  BY <1>2, <1>3, <1>4, <1>5, <1>8, <1>9, <1>10, <1>11, <1>12 DEF Next, Host, Lazily, Drain,
     HoldSteps, vars, EvalOutput, EvalReturn, PullDeps, StartDrain, NextWord, SkipTail, CallPass,
     RunReadyPass, LeaveWord, NextSum, SkipHold, DemandReads
-----------------------------------------------------------------------------
(***************************************************************************)
(* What the holds have staged.                                             *)
(***************************************************************************)
LEMMA StagedKept ==
    ASSUME StagedOK, UNCHANGED <<pc, list, nxt, turn, cur, Seen>>, awake \subseteq awake'
    PROVE  StagedOK'
BY DEF StagedOK, Does

LEMMA StagedAfterSkip ==
    ASSUME AscendingPlans, ExclusiveWriters, MainInv, SleepOK, StagedOK, SkipHold
    PROVE  StagedOK'
<1>1. /\ TypeOK /\ pc = "holds" /\ pc' = "holds" /\ turn \in Holds \ awake /\ turn' = turn + 1
      /\ UNCHANGED <<plan, cur, prev, nxt, list, awake>>
  BY DEF MainInv, CoreInv, TypeInv, SkipHold, hostVars
<1>2. Seen' = Seen /\ Seen \in State
  BY <1>1, SeenKept, SeenIsState
<1>3. turn \in Int /\ \A h \in Holds : h \in Int
  BY <1>1, NetlistAssumption DEF Holds
<1>4. \A r \in DOMAIN Does(turn, Seen) : Does(turn, Seen)[r] = cur[r] /\ r \notin list
  <2>1. \A r \in DOMAIN Does(turn, Seen) : Does(turn, Seen)[r] = cur[r] /\ r \in Regs
    BY <1>1, <1>2, SleepersAgree, DoesTypes
  <2>2. \A r \in DOMAIN Does(turn, Seen) : r \notin list
    BY <1>1, <1>2, <2>1 DEF StagedOK, ExclusiveWriters, Does, TypeOK
  <2>3. QED
    BY <2>1, <2>2
<1>5. \A h \in Holds : h < turn' => h < turn \/ h = turn
  BY <1>1, <1>3
<1>6. \A r \in list : \E h \in awake : h < turn' /\ r \in DOMAIN Does(h, Seen)
  <2> TAKE r \in list
  <2>1. PICK h \in awake : h < turn /\ r \in DOMAIN Does(h, Seen)
    BY <1>1 DEF StagedOK
  <2>2. h \in Int
    BY <1>1, <1>3 DEF TypeOK
  <2>3. QED
    BY <1>1, <1>3, <2>1, <2>2
<1>7. ASSUME NEW h \in Holds, h < turn', NEW r \in DOMAIN Does(h, Seen)
      PROVE  Does(h, Seen)[r] = IF r \in list THEN nxt[r] ELSE cur[r]
  <2>1. CASE h = turn
    BY <1>4, <1>7, <2>1
  <2>2. CASE h < turn
    BY <1>1, <1>7, <2>2 DEF StagedOK
  <2>3. QED
    BY <1>5, <1>7, <2>1, <2>2
<1>8. QED
  BY <1>1, <1>2, <1>6, <1>7 DEF StagedOK, Does

LEMMA StagedAfterHold ==
    ASSUME AscendingPlans, ExclusiveWriters, MainInv, StagedOK, RunHold
    PROVE  StagedOK'
<1> DEFINE a == Does(turn, Seen)
           moved == {r \in DOMAIN a : a[r] # cur[r]}
<1>1. /\ TypeOK /\ pc = "holds" /\ pc' = "holds" /\ turn \in awake /\ turn \in Holds
      /\ turn' = turn + 1 /\ UNCHANGED <<plan, cur, prev>>
      /\ HoldFn(turn, Now) = a
  BY HoldReads DEF MainInv, CoreInv, TypeInv, TypeOK, RunHold, hostVars
<1>2. Seen' = Seen /\ Seen \in State
  BY <1>1, SeenKept, SeenIsState
<1>3. /\ nxt' = [r \in Regs |-> IF r \in DOMAIN a THEN a[r] ELSE nxt[r]]
      /\ list' = list \cup moved
      /\ awake' = IF moved = {} THEN awake \ {turn} ELSE awake
  BY <1>1 DEF RunHold
<1>4. turn \in Int /\ \A h \in Holds : h \in Int
  BY <1>1, NetlistAssumption DEF Holds
<1>5. \A h \in Holds : \A r \in DOMAIN Does(h, Seen) : r \in Regs /\ (h # turn => r \notin DOMAIN a)
  BY <1>1, <1>2, DoesTypes DEF ExclusiveWriters, Does
<1>6. \A r \in DOMAIN a : r \notin list
  <2> TAKE r \in DOMAIN a
  <2>1. \A h \in awake : h < turn => r \notin DOMAIN Does(h, Seen)
    BY <1>1, <1>4, <1>5 DEF TypeOK
  <2>2. QED
    BY <1>1, <2>1 DEF StagedOK
<1>7. \A r \in list' : \E h \in awake' : h < turn' /\ r \in DOMAIN Does(h, Seen)
  <2> TAKE r \in list'
  <2>1. CASE r \in list
    <3>1. PICK h \in awake : h < turn /\ r \in DOMAIN Does(h, Seen)
      BY <1>1, <2>1 DEF StagedOK
    <3>2. h \in Int /\ h # turn /\ h < turn'
      BY <1>1, <1>4, <3>1 DEF TypeOK
    <3>3. QED
      BY <1>3, <3>1, <3>2
  <2>2. CASE r \in moved
    BY <1>1, <1>3, <1>4, <2>2
  <2>3. QED
    BY <1>3, <2>1, <2>2
<1>8. ASSUME NEW h \in Holds, h < turn', NEW r \in DOMAIN Does(h, Seen)
      PROVE  Does(h, Seen)[r] = IF r \in list' THEN nxt'[r] ELSE cur[r]
  <2>1. CASE h = turn
    BY <1>3, <1>5, <1>6, <1>8, <2>1
  <2>2. CASE h # turn
    <3>1. h < turn
      BY <1>1, <1>4, <1>8, <2>2
    <3>2. Does(h, Seen)[r] = IF r \in list THEN nxt[r] ELSE cur[r]
      BY <1>1, <1>8, <3>1 DEF StagedOK
    <3>3. r \in Regs /\ r \notin DOMAIN a
      BY <1>5, <1>8, <2>2
    <3>4. nxt'[r] = nxt[r] /\ (r \in list' <=> r \in list)
      BY <1>3, <3>3
    <3>5. QED
      BY <3>2, <3>4
  <2>3. QED
    BY <2>1, <2>2
<1>9. QED
  BY <1>1, <1>2, <1>7, <1>8 DEF StagedOK, Does

LEMMA StagedStep ==
    ASSUME AscendingPlans, ExclusiveWriters, MainInv, SleepOK, StagedOK, [Next]_vars
    PROVE  StagedOK'
<1> USE DEF hostVars, passVars, workVars, scanVars, holdVars
<1>1. TypeOK /\ Phases /\ UNCHANGED plan
  BY WorkSteps DEF MainInv, CoreInv, TypeInv
<1>2. CASE pc' \notin {"drain", "passes", "holds"}
  BY <1>2 DEF StagedOK
<1>3. CASE pc' \in {"drain", "passes"} /\ list' = {}
  BY <1>3 DEF StagedOK
<1>4. CASE list' = {} /\ turn' = 0
  BY <1>4, NetlistAssumption DEF StagedOK, Holds
<1>5. CASE UNCHANGED <<pc, list, nxt, turn, cur, prev, awake>>
  BY <1>1, <1>5, SeenKept, StagedKept
<1>6. ASSUME NEW w \in Wires, EvalPass(w)
      PROVE  StagedOK'
  <2>1. UNCHANGED <<pc, list, nxt, turn, cur, prev>>
    BY <1>6 DEF EvalPass
  <2>2. CASE pc = "holds"
    BY <1>1, <1>6, <2>1, <2>2, SeenKept, StagedKept, HoldsRunQuiet
  <2>3. QED
    BY <1>2, <1>3, <2>1, <2>2 DEF StagedOK
<1>7. CASE SkipHold
  BY <1>7, StagedAfterSkip
<1>8. CASE RunHold
  BY <1>8, StagedAfterHold
<1>9. CASE StartDrain \/ NextSum
  BY <1>3, <1>4, <1>9 DEF StartDrain, NextSum, DispatchHolds, StagedOK
<1>10. CASE NextWord \/ LeaveWord \/ RunReadyPass
  BY <1>3, <1>10 DEF NextWord, LeaveWord, RunReadyPass, TakePass, StagedOK
<1>11. CASE EvalReturn \/ Commit \/ Poke \/ Tick \/ ForceWakeAll
             \/ (\E i \in Inputs, v \in Val : DriveInput(i, v)) \/ \E w \in Outputs : EvalOutput(w)
  BY <1>2, <1>11 DEF EvalReturn, Commit, Poke, Tick, ForceWakeAll, DriveInput, EvalOutput
<1>12. QED
  BY <1>5, <1>6, <1>7, <1>8, <1>9, <1>10, <1>11 DEF Next, Host, Lazily, Drain, HoldSteps, vars,
     PullDeps, EvalLazy, SkipTail, CallPass, DemandReads

LEMMA HoldInvariance ==
    ASSUME AscendingPlans, ExclusiveWriters
    PROVE  Spec => []HoldInv
<1>1. Init => HoldInv
  <2>1. Init => SleepOK /\ StagedOK
    BY DEF Init, SleepOK, StagedOK
  <2>2. QED
    BY <2>1, InitMain DEF HoldInv
<1>2. MainInv /\ SleepOK /\ StagedOK /\ [Next]_vars => (SleepOK /\ StagedOK)'
  BY SleepStep, StagedStep
<1>3. Spec => []MainInv
  BY MainInvariance
<1>4. QED
  BY <1>1, <1>2, <1>3, PTL DEF Spec, HoldInv

(* Before the holds are dispatched a sleeping hold would assign what its   *)
(* registers hold already: cutting its cone at the wires of passes, and    *)
(* being woken by what moves there instead of by the leaves, loses no      *)
(* assignment, in every netlist with one writer per register.              *)
THEOREM SleepersWouldRest ==
    ASSUME AscendingPlans, ExclusiveWriters
    PROVE  Spec => []SleepersSettled
<1>1. HoldInv => SleepersSettled
  BY SleepersAgree DEF HoldInv, SleepersSettled, Does
<1>2. QED
  BY <1>1, HoldInvariance, PTL
-----------------------------------------------------------------------------
(***************************************************************************)
(* The kernel with passes implements the reference model.                  *)
(***************************************************************************)
LEMMA RefNextState ==
    ASSUME NEW s
    PROVE  Ref!NextState(s) = NextState(s)
BY DEF Ref!NextState, NextState, Ref!NextReg, NextReg, Ref!NextCell, NextCell,
   Ref!Writers, Writers, Ref!LastWriter, LastWriter, Ref!Stores, Stores, Ref!Settled,
   Settled, Ref!Extensions, Extensions, Ref!Extend, Extend, Ref!IsSettled, IsSettled,
   Ref!Sigs, Sigs, Ref!Holds, Holds, Ref!Ports, Ports

LEMMA RefInit == Init => Ref!Init
<1> SUFFICES ASSUME Init PROVE Ref!Init
  OBVIOUS
<1>1. Seen = [x \in Sigs |-> Zero] /\ Edges = 0
  BY DEF Init, Seen, Sigs, UsedInputs, Edges
<1>2. QED
  BY <1>1 DEF Ref!Init, Ref!Sigs, Sigs

(* The commit is the edge: what is staged is what the registers get next.  *)
LEMMA CommitIsEdge ==
    ASSUME AscendingPlans, ExclusiveWriters, HoldInv, HoldInv', Commit
    PROVE  Seen' = NextState(Seen)
<1> DEFINE E == Settled(Seen)
<1>1. /\ TypeOK /\ TypeOK' /\ MainInv /\ StagedOK /\ pc = "holds" /\ turn \notin Holds
      /\ UNCHANGED <<plan, prev>>
  BY DEF HoldInv, MainInv, CoreInv, TypeInv, Commit
<1>2. Seen \in State /\ Seen = cur /\ E \in Env /\ \A x \in Sigs : E[x] = cur[x]
  BY <1>1, SeenIsState, SettledFacts, DrainedAtHolds
<1>3. \A h \in Holds : h < turn
  BY <1>1, NetlistAssumption DEF Holds, TypeOK
<1>4. \A x \in Sigs : cur'[x] = IF x \in list THEN nxt[x] ELSE cur[x]
  BY <1>1 DEF Commit
<1>5. ASSUME NEW r \in Regs
      PROVE  cur'[r] = NextReg(r, E)
  <2>1. r \in Sigs
    BY DEF Sigs
  <2>2. CASE \E h \in Holds : r \in DOMAIN HoldFn(h, E)
    <3>1. PICK h \in Holds : r \in DOMAIN HoldFn(h, E)
      BY <2>2
    <3>2. NextReg(r, E) = HoldFn(h, E)[r]
      BY <1>2, <3>1, SoleWriter
    <3>3. HoldFn(h, E)[r] = IF r \in list THEN nxt[r] ELSE cur[r]
      BY <1>1, <1>3, <3>1 DEF StagedOK, Does
    <3>4. QED
      BY <1>4, <2>1, <3>2, <3>3
  <2>3. CASE ~ \E h \in Holds : r \in DOMAIN HoldFn(h, E)
    <3>1. NextReg(r, E) = cur[r]
      BY <1>2, <2>1, <2>3 DEF NextReg, Writers
    <3>2. r \notin list
      BY <1>1, <2>3 DEF StagedOK, Does, TypeOK
    <3>3. QED
      BY <1>4, <2>1, <3>1, <3>2
  <2>4. QED
    BY <2>2, <2>3
<1>6. \A x \in Sigs : x \in Inputs \cup Regs
  BY EagerAssumption DEF Sigs
<1>7. ASSUME NEW x \in Sigs
      PROVE  Seen'[x] = NextState(Seen)[x]
  <2>1. CASE x \in Inputs
    <3>1. x \notin list
      BY <1>1, <2>1, NetlistAssumption DEF TypeOK
    <3>2. cur'[x] = cur[x]
      BY <1>4, <3>1
    <3>3. Seen'[x] = Seen[x]
      BY <1>1, <3>2 DEF Seen, UsedInputs
    <3>4. QED
      BY <1>2, <2>1, <3>3, NextStateAt
  <2>2. CASE x \in Regs
    <3>1. Seen'[x] = cur'[x]
      BY <1>1, <2>2, NetlistAssumption DEF Seen, UsedInputs
    <3>2. QED
      BY <1>2, <1>5, <2>2, <3>1, NextStateAt
  <2>3. QED
    BY <1>6, <2>1, <2>2
<1>8. NextState(Seen) = [x \in Sigs |-> NextState(Seen)[x]]
  BY <1>2, NextStateAt
<1>9. Seen' = [x \in Sigs |-> Seen'[x]]
  BY DEF Seen
<1>10. QED
  BY <1>7, <1>8, <1>9

(* The inputs take other values, and nothing else moves.                   *)
LEMMA InputsDrive ==
    ASSUME TypeOK, TypeOK', Edges' = Edges, \A x \in Sigs \ Inputs : Seen'[x] = Seen[x]
    PROVE  Ref!Drive
<1>1. Seen' \in State
  <2>1. TypeOK' => (Seen \in State)'
    BY SeenTyped, PTL
  <2>2. QED
    BY <2>1
<1>2. [i \in Inputs |-> Seen'[i]] \in [Inputs -> Val]
  BY <1>1 DEF State, Sigs
<1>3. Seen' = [x \in Sigs |-> IF x \in Inputs THEN [i \in Inputs |-> Seen'[i]][x] ELSE Seen[x]]
  BY <1>1 DEF State
<1>4. QED
  BY <1>2, <1>3 DEF Ref!Drive, Ref!Sigs, Sigs

LEMMA RefStep ==
    ASSUME AscendingPlans, ExclusiveWriters, HoldInv, HoldInv', [Next]_vars
    PROVE  [Ref!Next]_(Ref!vars)
<1> USE DEF hostVars, passVars, workVars, scanVars, holdVars
<1>1. TypeOK /\ TypeOK' /\ Phases /\ UNCHANGED plan
  BY WorkSteps DEF HoldInv, MainInv, CoreInv, TypeInv
<1>2. CASE Commit
  <2>1. Edges' = Edges + 1
    BY <1>1, <1>2 DEF Commit, Edges, TypeOK
  <2>2. Seen' = NextState(Seen)
    BY <1>2, CommitIsEdge
  <2>3. QED
    BY <2>1, <2>2, RefNextState DEF Ref!Next, Ref!Posedge
<1>3. CASE Poke \/ Tick \/ \E i \in Inputs, v \in Val : DriveInput(i, v)
  <2>1. Edges' = Edges
    BY <1>1, <1>3 DEF Poke, Tick, DriveInput, Edges, TypeOK
  <2>2. \A x \in Sigs \ Inputs : cur'[x] = cur[x]
    BY <1>1, <1>3 DEF Poke, Tick, DriveInput, TypeOK, State
  <2>3. \A x \in Sigs \ Inputs : Seen'[x] = Seen[x]
    BY <1>1, <2>2 DEF Seen, UsedInputs
  <2>4. QED
    BY <1>1, <2>1, <2>3, InputsDrive DEF Ref!Next
<1>4. CASE UNCHANGED <<cur, prev, cycle>> /\ Edges' = Edges
  BY <1>1, <1>4, SeenKept DEF Ref!vars
<1>5. CASE UNCHANGED <<cur, prev, cycle, pc>>
  BY <1>4, <1>5 DEF Edges
<1>6. CASE StartDrain \/ NextWord \/ LeaveWord \/ NextSum
  BY <1>4, <1>6 DEF StartDrain, NextWord, LeaveWord, NextSum, DispatchHolds, Edges
<1>7. CASE EvalReturn \/ \E w \in Outputs : EvalOutput(w)
  BY <1>4, <1>7 DEF EvalReturn, EvalOutput, Edges
<1>8. CASE (\E w \in Wires : PullDeps(w) \/ EvalPass(w) \/ EvalLazy(w)) \/ SkipTail \/ RunReadyPass
            \/ CallPass \/ SkipHold \/ DemandReads \/ RunHold \/ ForceWakeAll
  BY <1>5, <1>8 DEF PullDeps, EvalPass, EvalLazy, SkipTail, RunReadyPass, CallPass, SkipHold,
     DemandReads, RunHold, ForceWakeAll
<1>9. QED
  BY <1>2, <1>3, <1>5, <1>6, <1>7, <1>8 DEF Next, Host, Lazily, Drain, HoldSteps, vars

(* Edge by edge the kernel with passes computes what the reference model   *)
(* computes, for every netlist with one writer per register and every      *)
(* grouping whose passes read earlier passes only, whatever the host       *)
(* pokes, reads, wakes and ticks.                                          *)
THEOREM PassesMatchReference ==
    ASSUME AscendingPlans, ExclusiveWriters
    PROVE  Spec => MatchesReference
<1>1. HoldInv /\ HoldInv' /\ [Next]_vars => [Ref!Next]_(Ref!vars)
  BY RefStep
<1>2. QED
  BY <1>1, HoldInvariance, RefInit, PTL DEF Spec, MatchesReference, Ref!Spec
=============================================================================
