--------------------------- MODULE EagerPlanProofs ---------------------------
(***************************************************************************)
(* The tables of a module with eager passes promise what EagerPasses takes *)
(* for granted, for every module without a combinational loop.             *)
(***************************************************************************)
EXTENDS PlannerProofs, PlannedPasses

(* Steps from a first element on, each by its own function.                *)
IsRun(f, N, S, base, next) ==
    f \in [0 .. N -> S] /\ f[0] = base /\ \A i \in 1 .. N : f[i] = next[i][f[i - 1]]

\* A recursion over 0 .. N whose steps stay in S has a solution.
LEMMA Iterates ==
    ASSUME NEW N \in Nat, NEW S, NEW base \in S, NEW next \in [1 .. N -> [S -> S]]
    PROVE  \E f : IsRun(f, N, S, base, next)
<1> DEFINE Upto(f, k) ==
              /\ f \in [0 .. N -> S] /\ f[0] = base
              /\ \A i \in 1 .. k : f[i] = next[i][f[i - 1]]
           A == {k \in 0 .. N : \E f : Upto(f, k)}
<1>1. 0 \in A
  <2> DEFINE z == [i \in 0 .. N |-> base]
  <2>1. Upto(z, 0)
    OBVIOUS
  <2> HIDE DEF z, Upto
  <2> QED BY <2>1
<1>2. ASSUME NEW k \in 0 .. N - 1, k \in A
      PROVE  k + 1 \in A
  <2>1. PICK f : Upto(f, k)
    BY <1>2
  <2> DEFINE new == next[k + 1][f[k]]
             g == [f EXCEPT ![k + 1] = new]
  <2>2. k + 1 \in 1 .. N /\ k + 1 \in 0 .. N /\ k \in 0 .. N
    OBVIOUS
  <2>3. new \in S
    BY <2>1, <2>2
  <2> HIDE DEF new
  <2>4. g \in [0 .. N -> S] /\ g[0] = base /\ g[k + 1] = new
        /\ \A i \in 0 .. N : i # k + 1 => g[i] = f[i]
    BY <2>1, <2>2, <2>3
  <2> HIDE DEF g
  <2>5. ASSUME NEW i \in 1 .. k + 1
        PROVE  g[i] = next[i][g[i - 1]]
    <3>1. i - 1 \in 0 .. N /\ i - 1 # k + 1 /\ i \in 0 .. N
      OBVIOUS
    <3>2. g[i - 1] = f[i - 1]
      BY <2>4, <3>1
    <3>3. CASE i = k + 1
      <4>1. i - 1 = k
        BY <3>3
      <4> QED BY <2>4, <3>2, <3>3, <4>1 DEF new
    <3>4. CASE i # k + 1
      <4>1. i \in 1 .. k
        BY <3>4
      <4>2. g[i] = f[i]
        BY <2>4, <3>1, <3>4, Zenon
      <4> QED BY <2>1, <3>2, <4>1, <4>2
    <3> QED BY <3>3, <3>4
  <2>6. Upto(g, k + 1)
    BY <2>4, <2>5
  <2> QED BY <2>2, <2>6
<1>3. N \in A
  <2> HIDE DEF A
  <2>1. 0 .. N \subseteq A
    BY <1>1, <1>2, UpTo
  <2> QED BY <2>1
<1> QED BY <1>3 DEF IsRun

(* One sweep over 1 .. N in the order e, which keeps what passes a test    *)
(* that may depend on what was kept before.                                *)
IsSweep(f, N, e, C) ==
    /\ f \in [0 .. N -> SUBSET (1 .. N)] /\ f[0] = {}
    /\ \A i \in 1 .. N : f[i] = IF C[i][f[i - 1]] THEN f[i - 1] \cup {e[i]} ELSE f[i - 1]

(* What the first k steps look at.                                         *)
Swept(e, k) == {e[i] : i \in 1 .. k}

\* A sweep that keeps or leaves one element at a time has a solution.
LEMMA SweepExists ==
    ASSUME NEW N \in Nat, NEW e \in [1 .. N -> 1 .. N], NEW C
    PROVE  \E f : IsSweep(f, N, e, C)
<1> DEFINE S == SUBSET (1 .. N)
           keep(i, T) == IF C[i][T] THEN T \cup {e[i]} ELSE T
           next == [i \in 1 .. N |-> [T \in S |-> keep(i, T)]]
<1>1. \A i \in 1 .. N, T \in S : keep(i, T) \in S
  OBVIOUS
<1>2. {} \in S
  OBVIOUS
<1> HIDE DEF keep, S
<1>3. next \in [1 .. N -> [S -> S]] /\ \A i \in 1 .. N, T \in S : next[i][T] = keep(i, T)
  BY <1>1
<1> HIDE DEF next
<1>4. PICK f : IsRun(f, N, S, {}, next)
  BY <1>2, <1>3, Iterates
<1>5. \A i \in 1 .. N : f[i] = keep(i, f[i - 1])
  BY <1>3, <1>4 DEF IsRun
<1> QED BY <1>4, <1>5 DEF IsRun, IsSweep, keep, S

\* What is kept at each point is what is kept of all up to there.
LEMMA SweepKeeps ==
    ASSUME NEW N \in Nat, NEW e \in [1 .. N -> 1 .. N],
           \A i, j \in 1 .. N : e[i] = e[j] => i = j,
           NEW C, NEW f, IsSweep(f, N, e, C)
    PROVE  /\ \A k \in 0 .. N : f[k] = f[N] \cap Swept(e, k)
           /\ \A i \in 1 .. N : e[i] \in f[N] <=> C[i][f[i - 1]]
<1> DEFINE E(k) == Swept(e, k)
           A == {j \in 0 .. N : \A k \in 0 .. j : f[k] = f[j] \cap E(k)}
<1>1. 0 \in A
  BY DEF IsSweep, Swept
<1>2. ASSUME NEW j \in 0 .. N - 1, j \in A
      PROVE  j + 1 \in A
  <2>1. j + 1 \in 1 .. N /\ (j + 1) - 1 = j /\ j \in 0 .. N
    OBVIOUS
  <2>2. f[j + 1] = f[j] \/ f[j + 1] = f[j] \cup {e[j + 1]}
    BY <2>1 DEF IsSweep
  <2>3. f[j] = f[j] \cap E(j)
    BY <1>2, <2>1
  <2>4. ASSUME NEW k \in 0 .. j + 1
        PROVE  f[k] = f[j + 1] \cap E(k)
    <3>1. CASE k = j + 1
      <4>1. E(j) \subseteq E(j + 1) /\ e[j + 1] \in E(j + 1)
        BY <2>1 DEF Swept
      <4> QED BY <2>2, <2>3, <3>1, <4>1
    <3>2. CASE k # j + 1
      <4>1. k \in 0 .. j
        BY <3>2
      <4>2. e[j + 1] \notin E(k)
        BY <2>1, <4>1 DEF Swept
      <4>3. f[k] = f[j] \cap E(k)
        BY <1>2, <4>1
      <4> QED BY <2>2, <4>2, <4>3
    <3> QED BY <3>1, <3>2
  <2>5. j + 1 \in 0 .. N
    BY <2>1
  <2> HIDE DEF E
  <2> QED BY <2>4, <2>5
<1>3. N \in A
  <2> HIDE DEF A
  <2>1. 0 .. N \subseteq A
    BY <1>1, <1>2, UpTo
  <2> QED BY <2>1
<1>4. \A k \in 0 .. N : f[k] = f[N] \cap E(k)
  BY <1>3
<1>5. ASSUME NEW i \in 1 .. N
      PROVE  e[i] \in f[N] <=> C[i][f[i - 1]]
  <2>1. f[i] = f[N] \cap E(i) /\ f[i - 1] = f[N] \cap E(i - 1)
    BY <1>4
  <2>4. e[i] \in E(i)
    BY DEF Swept
  <2>2. e[i] \notin E(i - 1)
    BY DEF Swept
  <2>3. f[i] = IF C[i][f[i - 1]] THEN f[i - 1] \cup {e[i]} ELSE f[i - 1]
    BY DEF IsSweep
  <2> HIDE DEF E
  <2> QED BY <2>1, <2>2, <2>3, <2>4
<1> QED BY <1>4, <1>5
-----------------------------------------------------------------------------
(* The passes.                                                             *)
LEMMA PassFacts ==
    ASSUME NEW passes, PassesOK(passes)
    PROVE  /\ Len(passes) \in Nat /\ DOMAIN passes = 1 .. Len(passes)
           /\ \A r \in DOMAIN passes :
                 /\ passes[r] \in Seq(Cached) /\ Len(passes[r]) \in Nat
                 /\ DOMAIN passes[r] = 1 .. Len(passes[r])
                 /\ 1 \in DOMAIN passes[r] /\ passes[r][1] \in Range(passes[r])
                 /\ Range(passes[r]) \subseteq Cached
                 /\ \A v, w \in Range(passes[r]) : ConeLeaves(v) = ConeLeaves(w)
           /\ \A q, r \in DOMAIN passes : \A w : w \in Range(passes[q]) /\ w \in Range(passes[r]) => q = r
<1>1. passes \in Seq(Seq(Cached))
  BY DEF PassesOK
<1>2. Len(passes) \in Nat /\ DOMAIN passes = 1 .. Len(passes)
  BY <1>1, LenProperties
<1>3. ASSUME NEW r \in DOMAIN passes
      PROVE  /\ passes[r] \in Seq(Cached) /\ Len(passes[r]) \in Nat
             /\ DOMAIN passes[r] = 1 .. Len(passes[r])
             /\ 1 \in DOMAIN passes[r] /\ passes[r][1] \in Range(passes[r])
             /\ Range(passes[r]) \subseteq Cached
             /\ \A v, w \in Range(passes[r]) : ConeLeaves(v) = ConeLeaves(w)
  <2>1. passes[r] \in Seq(Cached)
    BY <1>1, <1>2, ElementOfSeq
  <2>2. Len(passes[r]) \in Nat /\ DOMAIN passes[r] = 1 .. Len(passes[r]) /\ passes[r] # <<>>
    BY <2>1, LenProperties DEF PassesOK
  <2>3. Len(passes[r]) # 0
    BY <2>1, <2>2, EmptySeq
  <2>4. 1 \in DOMAIN passes[r] /\ passes[r][1] \in Range(passes[r])
    BY <2>2, <2>3 DEF Range
  <2>5. Range(passes[r]) \subseteq Cached
    BY <2>1, <2>2, ElementOfSeq DEF Range
  <2>6. \A v, w \in Range(passes[r]) : ConeLeaves(v) = ConeLeaves(w)
    BY DEF PassesOK, Range
  <2> QED BY <2>1, <2>2, <2>4, <2>5, <2>6
<1>4. \A q, r \in DOMAIN passes : \A w : w \in Range(passes[q]) /\ w \in Range(passes[r]) => q = r
  BY DEF PassesOK
<1> QED BY <1>2, <1>3, <1>4

\* The pass of a wire.
LEMMA EagerIs ==
    ASSUME NEW passes, PassesOK(passes)
    PROVE  /\ DOMAIN EagerOf(passes) \subseteq Cached
           /\ \A r \in DOMAIN passes : \A w \in Range(passes[r]) :
                 w \in DOMAIN EagerOf(passes) /\ EagerOf(passes)[w] = r
           /\ \A w \in DOMAIN EagerOf(passes) :
                 EagerOf(passes)[w] \in DOMAIN passes /\ w \in Range(passes[EagerOf(passes)[w]])
<1> DEFINE U == UNION {Range(passes[r]) : r \in DOMAIN passes}
           pass(w) == CHOOSE r \in DOMAIN passes : w \in Range(passes[r])
<1>1. EagerOf(passes) = [w \in U |-> pass(w)]
  BY DEF EagerOf
<1>2. \A w \in U : pass(w) \in DOMAIN passes /\ w \in Range(passes[pass(w)])
  OBVIOUS
<1>3. \A r \in DOMAIN passes : \A w \in Range(passes[r]) : w \in U /\ w \in Cached
  BY PassFacts
<1> HIDE DEF U, pass
<1>4. DOMAIN EagerOf(passes) = U /\ \A w \in U : EagerOf(passes)[w] = pass(w)
  BY <1>1
<1> QED BY <1>2, <1>3, <1>4, PassFacts

\* The record of tables, field by field.
LEMMA TableFields ==
    ASSUME NEW passes
    PROVE  /\ TablesOf(passes).order = passes
           /\ TablesOf(passes).passOf = EagerOf(passes)
           /\ TablesOf(passes).foreign = [r \in DOMAIN passes |-> ForeignOf(passes[r])]
           /\ TablesOf(passes).lazyDeps = CachedDeps
           /\ TablesOf(passes).page = [w \in Cached |-> StampPage(passes, w)]
           /\ TablesOf(passes).dataPage = [r \in DOMAIN passes |-> DataPage(passes, r)]
           /\ TablesOf(passes).pages = (UNION {LeafPages(passes, x) : x \in Stop})
                          \cup {StampPage(passes, w) : w \in Cached}
                          \cup {DataPage(passes, r) : r \in DOMAIN passes}
           /\ TablesOf(passes).leafPages = [x \in Stop |-> LeafPages(passes, x)]
           /\ TablesOf(passes).leafHolds = [x \in Stop |-> LeafHoldsCut(passes, x)]
           /\ TablesOf(passes).leafPasses = [x \in Stop |->
                            {r \in Woken(passes) : x \in PassDirect(passes, r)}]
           /\ TablesOf(passes).cutHolds = [w \in DOMAIN EagerOf(passes) |-> RegionHolds(passes, w)]
           /\ TablesOf(passes).consumers = [w \in DOMAIN EagerOf(passes) |-> PassConsumers(passes, w)]
           /\ TablesOf(passes).bit = PassBit(passes)
           /\ TablesOf(passes).drained = DrainedOf(passes)
           /\ TablesOf(passes).holdReads = [h \in DOMAIN StmtIds |-> HoldDemands(passes, h)]
  BY DEF TablesOf
-----------------------------------------------------------------------------
(* The woken and the drained passes.                                       *)

\* A pass is woken when a wire of it faces a hold or a later woken pass.
LEMMA WokenIs ==
    ASSUME NEW passes, PassesOK(passes)
    PROVE  /\ Woken(passes) \subseteq DOMAIN passes
           /\ \A r \in DOMAIN passes :
                 r \in Woken(passes) <=>
                    \E w \in Range(passes[r]) :
                       \/ RegionHolds(passes, w) # {}
                       \/ \E q \in PassConsumers(passes, w) \cap Woken(passes) : q > r
<1> DEFINE L == Len(passes)
           Test(r, T) == \E w \in Range(passes[r]) :
                            \/ RegionHolds(passes, w) # {}
                            \/ PassConsumers(passes, w) \cap T # {}
           e == [i \in 1 .. L |-> L + 1 - i]
           C == [i \in 1 .. L |-> [T \in SUBSET (1 .. L) |-> Test(L + 1 - i, T)]]
           IsAbove(g) == g = [r \in 1 .. L + 1 |->
                                IF r > L THEN {}
                                ELSE LET later == g[r + 1]
                                     IN  IF Test(r, later) THEN later \cup {r} ELSE later]
<1>1. L \in Nat /\ DOMAIN passes = 1 .. L
  BY PassFacts
<1> HIDE DEF L, Test
<1>2. e \in [1 .. L -> 1 .. L] /\ \A i, j \in 1 .. L : e[i] = e[j] => i = j
  BY <1>1
<1>3. PICK f : IsSweep(f, L, e, C)
  <2> HIDE DEF e, C
  <2> QED BY <1>1, <1>2, SweepExists
<1>4. \A i \in 1 .. L : f[i] = IF Test(L + 1 - i, f[i - 1]) THEN f[i - 1] \cup {L + 1 - i} ELSE f[i - 1]
  <2> TAKE i \in 1 .. L
  <2>1. f[i - 1] \in SUBSET (1 .. L)
    BY <1>1, <1>3 DEF IsSweep
  <2>2. C[i][f[i - 1]] <=> Test(L + 1 - i, f[i - 1])
    BY <2>1
  <2>3. e[i] = L + 1 - i
    OBVIOUS
  <2> HIDE DEF C, e
  <2> QED BY <1>3, <2>2, <2>3 DEF IsSweep
<1> DEFINE g == [r \in 1 .. L + 1 |-> f[L + 1 - r]]
<1>5. IsAbove(g)
  <2>1. ASSUME NEW r \in 1 .. L + 1
        PROVE  g[r] = IF r > L THEN {}
                      ELSE LET later == g[r + 1]
                           IN  IF Test(r, later) THEN later \cup {r} ELSE later
    <3>1. CASE r > L
      <4>1. L + 1 - r = 0
        BY <1>1, <3>1
      <4> QED BY <1>3, <3>1, <4>1 DEF IsSweep
    <3>2. CASE ~(r > L)
      <4>1. /\ r + 1 \in 1 .. L + 1 /\ L + 1 - r \in 1 .. L
            /\ L + 1 - (L + 1 - r) = r /\ (L + 1 - r) - 1 = L + 1 - (r + 1)
        BY <1>1, <3>2
      <4>2. g[r] = f[L + 1 - r] /\ g[r + 1] = f[(L + 1 - r) - 1]
        BY <4>1
      <4> HIDE DEF g
      <4> QED BY <1>4, <3>2, <4>1, <4>2
    <3> QED BY <3>1, <3>2
  <2>2. g = [r \in 1 .. L + 1 |-> g[r]]
    OBVIOUS
  <2> HIDE DEF g
  <2> QED BY <2>1, <2>2
<1> HIDE DEF g
<1> DEFINE above[r \in 1 .. L + 1] ==
              IF r > L THEN {}
              ELSE LET later == above[r + 1]
                   IN  IF Test(r, later) THEN later \cup {r} ELSE later
<1>6. IsAbove(above)
  <2>1. \E h : IsAbove(h)
    BY <1>5
  <2> QED BY <2>1, Zenon
<1>7. Woken(passes) = above[1]
  BY Zenon DEF Woken, Test, L
<1> HIDE DEF above
<1>8. \A r \in 1 .. L + 1 : above[r] = f[L + 1 - r]
  <2> DEFINE A == {i \in 0 .. L : above[L + 1 - i] = f[i]}
  <2>1. \A r \in 1 .. L + 1 : above[r] = IF r > L THEN {}
                      ELSE IF Test(r, above[r + 1]) THEN above[r + 1] \cup {r} ELSE above[r + 1]
    BY <1>6, Zenon
  <2>2. 0 \in A
    <3>1. 0 \in 0 .. L /\ L + 1 - 0 \in 1 .. L + 1 /\ L + 1 - 0 > L
      BY <1>1
    <3>2. above[L + 1 - 0] = {} /\ f[0] = {}
      BY <1>3, <2>1, <3>1 DEF IsSweep
    <3> QED BY <3>1, <3>2
  <2>3. ASSUME NEW i \in 0 .. L - 1, i \in A
        PROVE  i + 1 \in A
    <3>1. /\ i + 1 \in 1 .. L /\ (i + 1) - 1 = i /\ i + 1 \in 0 .. L
          /\ L + 1 - (i + 1) \in 1 .. L + 1 /\ ~(L + 1 - (i + 1) > L)
          /\ (L + 1 - (i + 1)) + 1 = L + 1 - i
      BY <1>1
    <3> QED BY <1>4, <2>1, <2>3, <3>1
  <2>4. 0 .. L \subseteq A
    <3> HIDE DEF A
    <3> QED BY <1>1, <2>2, <2>3, UpTo
  <2> TAKE r \in 1 .. L + 1
  <2>5. L + 1 - r \in 0 .. L /\ L + 1 - (L + 1 - r) = r
    BY <1>1
  <2> QED BY <2>4, <2>5
<1>9. Woken(passes) = f[L] /\ f[L] \in SUBSET (1 .. L)
  <2>1. 1 \in 1 .. L + 1 /\ L + 1 - 1 = L /\ L \in 0 .. L
    BY <1>1
  <2> QED BY <1>3, <1>7, <1>8, <2>1 DEF IsSweep
<1>10. ASSUME NEW r \in 1 .. L
       PROVE  r \in Woken(passes) <=> Test(r, {q \in Woken(passes) : q > r})
  <2> DEFINE i == L + 1 - r
  <2>1. i \in 1 .. L /\ e[i] = r /\ L + 1 - i = r /\ i - 1 \in 0 .. L
    BY <1>1
  <2>2. /\ f[i - 1] = f[L] \cap Swept(e, i - 1)
        /\ e[i] \in f[L] <=> C[i][f[i - 1]]
    <3> HIDE DEF e, C, i
    <3>1. /\ \A k \in 0 .. L : f[k] = f[L] \cap Swept(e, k)
          /\ \A k \in 1 .. L : e[k] \in f[L] <=> C[k][f[k - 1]]
      BY <1>1, <1>2, <1>3, SweepKeeps, Zenon
    <3> QED BY <2>1, <3>1
  <2>3. f[i - 1] \in SUBSET (1 .. L)
    BY <1>3, <2>1 DEF IsSweep
  <2>4. C[i][f[i - 1]] <=> Test(r, f[i - 1])
    BY <2>1, <2>3
  <2>5. Swept(e, i - 1) = {q \in 1 .. L : q > r}
    <3>1. ASSUME NEW j \in 1 .. i - 1
          PROVE  e[j] \in 1 .. L /\ e[j] > r
      BY <1>1
    <3>2. ASSUME NEW q \in 1 .. L, q > r
          PROVE  \E j \in 1 .. i - 1 : q = e[j]
      <4>1. L + 1 - q \in 1 .. i - 1 /\ L + 1 - q \in 1 .. L /\ L + 1 - (L + 1 - q) = q
        BY <1>1, <3>2
      <4> QED BY <4>1
    <3> HIDE DEF e
    <3> QED BY <3>1, <3>2 DEF Swept
  <2>6. f[i - 1] = {q \in Woken(passes) : q > r}
    BY <1>9, <2>2, <2>5
  <2> QED BY <1>9, <2>1, <2>2, <2>4, <2>6
<1> QED BY <1>1, <1>9, <1>10 DEF Test

\* A pass is drained when it is woken and reads wires of earlier drained passes only.
LEMMA DrainedIs ==
    ASSUME NEW passes, PassesOK(passes)
    PROVE  /\ DrainedOf(passes) \subseteq DOMAIN passes
           /\ \A r \in DOMAIN passes :
                 r \in DrainedOf(passes) <=>
                    /\ r \in Woken(passes)
                    /\ \A d \in ForeignOf(passes[r]) :
                          /\ d \in DOMAIN EagerOf(passes)
                          /\ EagerOf(passes)[d] \in DrainedOf(passes) /\ EagerOf(passes)[d] < r
<1> DEFINE L == Len(passes)
           Test(r, T) == /\ r \in Woken(passes)
                         /\ \A d \in ForeignOf(passes[r]) :
                               d \in DOMAIN EagerOf(passes) /\ EagerOf(passes)[d] \in T
           e == [i \in 1 .. L |-> i]
           C == [i \in 1 .. L |-> [T \in SUBSET (1 .. L) |-> Test(i, T)]]
           IsUpTo(g) == g = [r \in 0 .. L |->
                               IF r = 0 THEN {}
                               ELSE LET earlier == g[r - 1]
                                    IN  IF Test(r, earlier) THEN earlier \cup {r} ELSE earlier]
<1>1. L \in Nat /\ DOMAIN passes = 1 .. L
  BY PassFacts
<1> HIDE DEF L, Test
<1>2. e \in [1 .. L -> 1 .. L] /\ \A i, j \in 1 .. L : e[i] = e[j] => i = j
  OBVIOUS
<1>3. PICK f : IsSweep(f, L, e, C)
  <2> HIDE DEF e, C
  <2> QED BY <1>1, <1>2, SweepExists
<1>4. \A i \in 1 .. L : /\ f[i - 1] \in SUBSET (1 .. L)
                        /\ C[i][f[i - 1]] <=> Test(i, f[i - 1])
                        /\ f[i] = IF Test(i, f[i - 1]) THEN f[i - 1] \cup {i} ELSE f[i - 1]
  <2> TAKE i \in 1 .. L
  <2>1. f[i - 1] \in SUBSET (1 .. L)
    BY <1>1, <1>3 DEF IsSweep
  <2>2. C[i][f[i - 1]] <=> Test(i, f[i - 1])
    BY <2>1
  <2>3. e[i] = i
    OBVIOUS
  <2> HIDE DEF C, e
  <2> QED BY <1>3, <2>1, <2>2, <2>3 DEF IsSweep
<1>5. f \in [0 .. L -> SUBSET (1 .. L)] /\ f[0] = {}
  BY <1>3 DEF IsSweep
<1>6. IsUpTo(f)
  <2>1. ASSUME NEW r \in 0 .. L
        PROVE  f[r] = IF r = 0 THEN {}
                      ELSE LET earlier == f[r - 1]
                           IN  IF Test(r, earlier) THEN earlier \cup {r} ELSE earlier
    <3>1. CASE r = 0
      BY <1>5, <3>1
    <3>2. CASE r # 0
      <4>1. r \in 1 .. L
        BY <3>2
      <4> QED BY <1>4, <3>2, <4>1
    <3> QED BY <3>1, <3>2
  <2>2. f = [r \in 0 .. L |-> f[r]]
    BY <1>5
  <2> QED BY <2>1, <2>2
<1> DEFINE upTo[r \in 0 .. L] ==
              IF r = 0 THEN {}
              ELSE LET earlier == upTo[r - 1]
                   IN  IF Test(r, earlier) THEN earlier \cup {r} ELSE earlier
<1>7. IsUpTo(upTo)
  <2>1. \E h : IsUpTo(h)
    BY <1>6
  <2> QED BY <2>1, Zenon
<1>8. DrainedOf(passes) = upTo[L]
  BY Zenon DEF DrainedOf, Test, L
<1> HIDE DEF upTo
<1>9. \A r \in 0 .. L : upTo[r] = f[r]
  <2> DEFINE A == {i \in 0 .. L : upTo[i] = f[i]}
  <2>1. \A r \in 0 .. L : upTo[r] = IF r = 0 THEN {}
                      ELSE IF Test(r, upTo[r - 1]) THEN upTo[r - 1] \cup {r} ELSE upTo[r - 1]
    BY <1>7, Zenon
  <2>2. 0 \in A
    <3>1. 0 \in 0 .. L
      BY <1>1
    <3> QED BY <1>5, <2>1, <3>1
  <2>3. ASSUME NEW i \in 0 .. L - 1, i \in A
        PROVE  i + 1 \in A
    <3>1. i + 1 \in 1 .. L /\ (i + 1) - 1 = i /\ i + 1 \in 0 .. L /\ i + 1 # 0
      BY <1>1
    <3>2. f[i + 1] = IF Test(i + 1, f[i]) THEN f[i] \cup {i + 1} ELSE f[i]
      BY <1>4, <3>1
    <3>3. upTo[i + 1] = IF Test(i + 1, upTo[i]) THEN upTo[i] \cup {i + 1} ELSE upTo[i]
      BY <2>1, <3>1
    <3> QED BY <2>3, <3>1, <3>2, <3>3
  <2>4. 0 .. L \subseteq A
    <3> HIDE DEF A
    <3> QED BY <1>1, <2>2, <2>3, UpTo
  <2> QED BY <2>4
<1>10. DrainedOf(passes) = f[L] /\ f[L] \in SUBSET (1 .. L)
  BY <1>1, <1>5, <1>8, <1>9
<1>11. /\ \A k \in 0 .. L : f[k] = f[L] \cap Swept(e, k)
       /\ \A k \in 1 .. L : e[k] \in f[L] <=> C[k][f[k - 1]]
  <2> HIDE DEF e, C
  <2> QED BY <1>1, <1>2, <1>3, SweepKeeps, Zenon
<1>12. ASSUME NEW r \in 1 .. L
       PROVE  r \in DrainedOf(passes) <=> Test(r, {q \in DrainedOf(passes) : q < r})
  <2>1. e[r] = r /\ r - 1 \in 0 .. L
    BY <1>1
  <2>2. Swept(e, r - 1) = {q \in 1 .. L : q < r}
    <3>1. \A q : q \in 1 .. r - 1 <=> q \in 1 .. L /\ q < r
      BY <1>1
    <3>2. \A q \in 1 .. r - 1 : e[q] = q
      BY <3>1
    <3> HIDE DEF e
    <3> QED BY <3>1, <3>2 DEF Swept
  <2> HIDE DEF e, C
  <2>3. f[r - 1] = {q \in DrainedOf(passes) : q < r}
    <3>1. f[r - 1] = f[L] \cap Swept(e, r - 1)
      BY <1>11, <2>1
    <3> QED BY <1>10, <2>2, <3>1
  <2>4. r \in f[L] <=> C[r][f[r - 1]]
    BY <1>11, <2>1
  <2>5. C[r][f[r - 1]] <=> Test(r, f[r - 1])
    BY <1>4
  <2> QED BY <1>10, <2>3, <2>4, <2>5
<1> QED BY <1>1, <1>10, <1>12 DEF Test

\* The bits number the woken passes from 0 on, in the order of the passes.
LEMMA BitsInOrder ==
    ASSUME NEW passes, PassesOK(passes)
    PROVE  Eager!BitsNumbered(TablesOf(passes))
<1> DEFINE W == Woken(passes)
           N == Cardinality(W)
           Lower(r) == {q \in W : q < r}
           bit == PassBit(passes)
<1>1. W \subseteq 1 .. Len(passes) /\ Len(passes) \in Nat
  BY WokenIs, PassFacts
<1>2. IsFiniteSet(W) /\ N \in Nat
  <2>1. IsFiniteSet(1 .. Len(passes))
    BY <1>1, FS_Interval
  <2> QED BY <1>1, <2>1, FS_Subset, FS_CardinalityType
<1>3. bit = [r \in W |-> Cardinality(Lower(r))]
  BY DEF PassBit
<1> HIDE DEF W, N, bit
<1>4. \A r : IsFiniteSet(Lower(r)) /\ Cardinality(Lower(r)) \in Nat
  <2> TAKE r
  <2>1. Lower(r) \in SUBSET W
    OBVIOUS
  <2> QED BY <1>2, <2>1, FS_Subset, FS_CardinalityType
<1>5. ASSUME NEW q \in W, NEW r \in W, q < r
      PROVE  Cardinality(Lower(q)) < Cardinality(Lower(r))
  <2>1. q \notin Lower(q) /\ Lower(q) \cup {q} \in SUBSET Lower(r)
    <3>1. \A x \in W : x \in Int
      BY <1>1
    <3>2. \A x \in W : x < q => x < r
      BY <1>5, <3>1
    <3> QED BY <1>5, <3>1, <3>2
  <2> HIDE DEF Lower
  <2>2. Cardinality(Lower(q) \cup {q}) = Cardinality(Lower(q)) + 1
    BY <1>4, <2>1, FS_AddElement
  <2>3. Cardinality(Lower(q) \cup {q}) <= Cardinality(Lower(r))
    BY <1>4, <2>1, FS_Subset
  <2> QED BY <1>4, <2>2, <2>3
<1>6. ASSUME NEW r \in W
      PROVE  Cardinality(Lower(r)) \in 0 .. N - 1
  <2>1. r \notin Lower(r) /\ Lower(r) \cup {r} \in SUBSET W
    BY <1>1, <1>6
  <2> HIDE DEF Lower
  <2>2. Cardinality(Lower(r) \cup {r}) = Cardinality(Lower(r)) + 1
    BY <1>4, <2>1, FS_AddElement
  <2>3. Cardinality(Lower(r) \cup {r}) <= N
    BY <1>2, <2>1, FS_Subset DEF N
  <2> QED BY <1>2, <1>4, <2>2, <2>3
<1> HIDE DEF Lower
<1>7. bit \in Injection(W, 0 .. N - 1)
  <2>1. bit \in [W -> 0 .. N - 1]
    BY <1>3, <1>6
  <2>2. ASSUME NEW q \in W, NEW r \in W, bit[q] = bit[r]
        PROVE  q = r
    BY <1>1, <1>3, <1>4, <1>5, <2>2
  <2> QED BY <2>1, <2>2 DEF Injection, IsInjective
<1>8. bit \in Surjection(W, 0 .. N - 1)
  <2>1. IsFiniteSet(0 .. N - 1) /\ Cardinality(0 .. N - 1) = N
    BY <1>2, FS_Interval
  <2> QED BY <1>7, <2>1, FS_Injection DEF N
<1>9. {bit[r] : r \in W} = 0 .. N - 1
  BY <1>7, <1>8 DEF Injection, Surjection
<1>10. \A q, r \in W : q < r => bit[q] < bit[r]
  BY <1>3, <1>5
<1>11. DOMAIN bit = W /\ TablesOf(passes).bit = bit
  BY <1>3, TableFields DEF bit
<1>12. \A S : Eager!Cardinality(S) = Cardinality(S) /\ (Eager!IsFiniteSet(S) <=> IsFiniteSet(S))
  BY DEF Eager!Cardinality, Cardinality, Eager!IsFiniteSet, IsFiniteSet
<1> QED BY <1>2, <1>9, <1>10, <1>11, <1>12 DEF Eager!BitsNumbered, N
-----------------------------------------------------------------------------
(* The leaves of wires and of pages.                                       *)
LEMMA EagerNames ==
    /\ Eager!Sigs = Tables!Sigs /\ Eager!State = Tables!State /\ Eager!Env = Tables!Env
    /\ Eager!Holds = Tables!Holds
    /\ \A s : Eager!Settled(s) = Tables!Settled(s)
<1>1. /\ Eager!Sigs = Tables!Sigs /\ Eager!State = Tables!State /\ Eager!Env = Tables!Env
      /\ Eager!Holds = Tables!Holds
  BY DEF Eager!Sigs, Tables!Sigs, Eager!State, Tables!State, Eager!Env, Tables!Env,
         Eager!Holds, Tables!Holds
<1>2. ASSUME NEW s
      PROVE  Eager!Settled(s) = Tables!Settled(s)
  BY Zenon DEF Eager!Settled, Tables!Settled, Eager!Extensions, Tables!Extensions, Eager!Extend,
         Tables!Extend, Eager!IsSettled, Tables!IsSettled, Eager!Sigs, Tables!Sigs
<1> QED BY <1>1, <1>2

\* The leaves of a wire are those it reads itself and those of the caches it reads.
LEMMA LeavesOfDeps ==
    ASSUME DesignOK, NEW w \in Cached
    PROVE  /\ ConeLeaves(w) \subseteq Stop /\ OwnLeaves(w) \subseteq ConeLeaves(w)
           /\ Closure(Reads[w], Temps) \subseteq Names
           /\ Closure(Reads[w], Temps) \cap Stop \subseteq OwnLeaves(w)
           /\ Closure(Reads[w], Temps) \cap Cached = CachedDeps[w]
           /\ CachedDeps[w] \subseteq Cached
           /\ \A d \in CachedDeps[w] : ConeLeaves(d) \subseteq ConeLeaves(w)
<1> DEFINE full == Closure({w}, Assigned)
           own  == Closure({w} \cup Reads[w], Temps)
           near == Closure(Reads[w], Temps)
<1>1. w \in Assigned /\ w \notin Stop /\ Temps \in SUBSET Assigned /\ Reads[w] \in SUBSET Names
  BY DesignFacts
<1>2. /\ w \in full /\ Closed(Reads, Assigned, full)
      /\ {w} \cup Reads[w] \subseteq own
      /\ Closed(Reads, Temps, own) /\ near \subseteq Names
      /\ \A D : {w} \cup Reads[w] \subseteq D /\ Closed(Reads, Temps, D) => own \subseteq D
      /\ \A D : Reads[w] \subseteq D /\ Closed(Reads, Temps, D) => near \subseteq D
  BY <1>1, ReachIs, ReachInNames, DesignFacts
<1>3. ConeLeaves(w) = full \cap Stop /\ OwnLeaves(w) = own \cap Stop
      /\ CachedDeps[w] = near \cap Cached
  BY <1>1, NotItsOwnDependency, DesignFacts DEF ConeLeaves, OwnLeaves, CachedBelow
<1>4. ASSUME NEW d \in Cached
      PROVE  \A D : d \in D /\ Closed(Reads, Assigned, D) => Closure({d}, Assigned) \subseteq D
  BY ReachIs
<1> HIDE DEF full, own, near
<1>5. Reads[w] \subseteq full /\ Closed(Reads, Temps, full)
  BY <1>1, <1>2 DEF Closed
<1>6. own \subseteq full /\ near \subseteq full /\ near \subseteq own
  BY <1>2, <1>5
<1>7. \A d \in CachedDeps[w] : ConeLeaves(d) \subseteq ConeLeaves(w)
  BY <1>2, <1>3, <1>4, <1>6 DEF ConeLeaves
<1> QED BY <1>2, <1>3, <1>6, <1>7 DEF near

\* The wires of one pass have its leaves, and the other wires it near are cached
\* wires with no more leaves.
LEMMA ForeignFacts ==
    ASSUME DesignOK, NEW passes, PassesOK(passes), NEW r \in DOMAIN passes
    PROVE  /\ ForeignOf(passes[r]) \subseteq Cached
           /\ ForeignOf(passes[r]) \cap Range(passes[r]) = {}
           /\ \A w \in Range(passes[r]) :
                 /\ CachedDeps[w] \subseteq ForeignOf(passes[r]) \cup Range(passes[r])
                 /\ ConeLeaves(w) = ConeLeaves(passes[r][1])
           /\ \A d \in ForeignOf(passes[r]) : ConeLeaves(d) \subseteq ConeLeaves(passes[r][1])
<1>1. /\ Range(passes[r]) \subseteq Cached /\ passes[r][1] \in Range(passes[r])
      /\ \A v, w \in Range(passes[r]) : ConeLeaves(v) = ConeLeaves(w)
  BY PassFacts
<1>2. \A w \in Range(passes[r]) :
         /\ CachedDeps[w] \subseteq Cached
         /\ \A d \in CachedDeps[w] : ConeLeaves(d) \subseteq ConeLeaves(w)
  BY <1>1, LeavesOfDeps
<1>3. \A w \in Range(passes[r]) : ConeLeaves(w) = ConeLeaves(passes[r][1])
  BY <1>1
<1>4. ASSUME NEW d \in ForeignOf(passes[r])
      PROVE  d \in Cached /\ d \notin Range(passes[r]) /\ ConeLeaves(d) \subseteq ConeLeaves(passes[r][1])
  <2>1. d \notin Range(passes[r]) /\ \E w \in Range(passes[r]) : d \in CachedDeps[w]
    BY Zenon DEF ForeignOf
  <2> QED BY <1>2, <1>3, <2>1
<1>5. \A w \in Range(passes[r]) : CachedDeps[w] \subseteq ForeignOf(passes[r]) \cup Range(passes[r])
  BY Zenon DEF ForeignOf
<1> QED BY <1>3, <1>4, <1>5

\* The pages that an element bumps.
LEMMA PagesAre ==
    ASSUME NEW passes
    PROVE  \A n : Eager!Leaves(TablesOf(passes), n) =
                     {x \in Eager!Sigs : n \in TablesOf(passes).leafPages[x]}
  BY DEF Eager!Leaves

\* A data page is bumped by what its pass reads, the page of a pass by the leaves
\* of its wires, that of a lazy wire by at least the leaves of the wire.
LEMMA PageLeaves ==
    ASSUME DesignOK, NamesSorted, NEW passes, PassesOK(passes)
    PROVE  /\ \A r \in DOMAIN passes :
                 Eager!Leaves(TablesOf(passes), DataPage(passes, r)) = PassDirect(passes, r) \cap Stop
           /\ \A w \in Cached : ConeLeaves(w) \subseteq
                 Eager!Leaves(TablesOf(passes), StampPage(passes, w))
           /\ \A r \in DOMAIN passes : \A w \in Range(passes[r]) :
                 Eager!Leaves(TablesOf(passes), StampPage(passes, w)) = ConeLeaves(w)
<1> DEFINE L == Len(passes)
           eager == EagerOf(passes)
           T == TablesOf(passes)
<1>1. L \in Nat /\ DOMAIN passes = 1 .. L /\ Eager!Sigs = Stop
  BY PassFacts, EagerNames, TablesNames
<1>2. \A x \in Stop : T.leafPages[x] =
         {StampPage(passes, c) : c \in {v \in Cached : x \in ConeLeaves(v)}}
            \cup {DataPage(passes, q) : q \in {r \in DOMAIN passes : x \in PassDirect(passes, r)}}
  <2> TAKE x \in Stop
  <2>1. T.leafPages = [y \in Stop |-> LeafPages(passes, y)]
    BY TableFields, Zenon
  <2>2. T.leafPages[x] = LeafPages(passes, x)
    BY <2>1, Zenon
  <2> HIDE DEF T
  <2> QED BY <2>2 DEF LeafPages
<1>3. \A w \in DOMAIN eager : StampPage(passes, w) = eager[w] /\ eager[w] \in 1 .. L
  BY <1>1, EagerIs DEF StampPage
<1>4. \A w \in Cached \ DOMAIN eager : StampPage(passes, w) \in Int /\ StampPage(passes, w) > 2 * L
  BY <1>1 DEF StampPage, NamesSorted
<1>5. \A r \in DOMAIN passes : DataPage(passes, r) \in L + 1 .. 2 * L
                               /\ \A q \in DOMAIN passes : DataPage(passes, q) = DataPage(passes, r) => q = r
  BY <1>1 DEF DataPage
<1>6. \A n : Eager!Leaves(T, n) = {x \in Stop : n \in T.leafPages[x]}
  BY <1>1, PagesAre
<1>7. \A r \in DOMAIN passes : \A w \in Range(passes[r]) : w \in DOMAIN eager /\ eager[w] = r /\ w \in Cached
  BY EagerIs
<1>8. \A c \in DOMAIN eager : c \in Range(passes[eager[c]]) /\ eager[c] \in DOMAIN passes
  BY EagerIs
<1> HIDE DEF L, eager, T
<1>9. ASSUME NEW r \in DOMAIN passes
      PROVE  Eager!Leaves(T, DataPage(passes, r)) = PassDirect(passes, r) \cap Stop
  <2>1. \A c \in Cached : StampPage(passes, c) # DataPage(passes, r)
    BY <1>1, <1>3, <1>4, <1>5
  <2>2. \A x \in Stop : DataPage(passes, r) \in T.leafPages[x] <=> x \in PassDirect(passes, r)
    BY <1>2, <1>5, <2>1
  <2> QED BY <1>6, <2>2
<1>10. ASSUME NEW w \in Cached
       PROVE  ConeLeaves(w) \subseteq Eager!Leaves(T, StampPage(passes, w))
  <2>1. \A x \in ConeLeaves(w) : x \in Stop /\ StampPage(passes, w) \in T.leafPages[x]
    BY <1>2, LeavesOfDeps
  <2> QED BY <1>6, <2>1
<1>11. ASSUME NEW r \in DOMAIN passes, NEW w \in Range(passes[r])
       PROVE  Eager!Leaves(T, StampPage(passes, w)) = ConeLeaves(w)
  <2>1. w \in Cached /\ StampPage(passes, w) = r /\ r \in 1 .. L
    BY <1>1, <1>3, <1>7
  <2>2. ASSUME NEW x \in Stop, r \in T.leafPages[x]
        PROVE  x \in ConeLeaves(w)
    <3>1. PICK c \in Cached : x \in ConeLeaves(c) /\ StampPage(passes, c) = r
      BY <1>1, <1>2, <1>5, <2>1, <2>2
    <3>2. c \in DOMAIN eager /\ eager[c] = r
      BY <1>1, <1>3, <1>4, <2>1, <3>1
    <3>3. c \in Range(passes[r])
      BY <1>8, <3>2
    <3> QED BY <3>1, <3>3, PassFacts
  <2>3. Eager!Leaves(T, r) \subseteq ConeLeaves(w)
    BY <1>6, <2>2
  <2> QED BY <1>10, <2>1, <2>3
<1> QED BY <1>9, <1>10, <1>11 DEF T
-----------------------------------------------------------------------------
(* The tables, entry by entry.                                             *)
LEMMA TableEntries ==
    ASSUME DesignOK, NEW passes, PassesOK(passes)
    PROVE  /\ \A r \in DOMAIN passes :
                 /\ TablesOf(passes).foreign[r] = ForeignOf(passes[r])
                 /\ TablesOf(passes).dataPage[r] = DataPage(passes, r)
                 /\ Eager!InPass(TablesOf(passes), r) = Range(passes[r])
           /\ \A w \in Cached : TablesOf(passes).page[w] = StampPage(passes, w)
           /\ \A x \in Stop :
                 /\ TablesOf(passes).leafHolds[x] = LeafHoldsCut(passes, x)
                 /\ TablesOf(passes).leafPasses[x] = {r \in Woken(passes) : x \in PassDirect(passes, r)}
           /\ \A w \in DOMAIN EagerOf(passes) :
                 /\ TablesOf(passes).cutHolds[w] = RegionHolds(passes, w)
                 /\ TablesOf(passes).consumers[w] = PassConsumers(passes, w)
           /\ \A h \in Tables!Holds : TablesOf(passes).holdReads[h] = HoldDemands(passes, h)
           /\ DOMAIN TablesOf(passes).bit = Woken(passes)
           /\ Eager!DrainedWires(TablesOf(passes)) =
                 {w \in DOMAIN EagerOf(passes) : EagerOf(passes)[w] \in DrainedOf(passes)}
           /\ DOMAIN StmtIds = Tables!Holds
<1> DEFINE T == TablesOf(passes)
<1>1. /\ T.order = passes /\ T.passOf = EagerOf(passes) /\ T.drained = DrainedOf(passes)
      /\ T.foreign = [r \in DOMAIN passes |-> ForeignOf(passes[r])]
      /\ T.dataPage = [r \in DOMAIN passes |-> DataPage(passes, r)]
      /\ T.page = [w \in Cached |-> StampPage(passes, w)]
  BY TableFields, Zenon
<1>2. /\ T.leafHolds = [x \in Stop |-> LeafHoldsCut(passes, x)]
      /\ T.leafPasses = [x \in Stop |-> {r \in Woken(passes) : x \in PassDirect(passes, r)}]
      /\ T.cutHolds = [w \in DOMAIN EagerOf(passes) |-> RegionHolds(passes, w)]
      /\ T.consumers = [w \in DOMAIN EagerOf(passes) |-> PassConsumers(passes, w)]
      /\ T.holdReads = [h \in DOMAIN StmtIds |-> HoldDemands(passes, h)]
      /\ T.bit = PassBit(passes)
  BY TableFields, Zenon
<1>3. DOMAIN StmtIds = Tables!Holds
  BY TablesNames DEF DesignOK, Typed
<1>4. DOMAIN PassBit(passes) = Woken(passes)
  BY DEF PassBit
<1> HIDE DEF T
<1>5. \A r \in DOMAIN passes : Eager!InPass(T, r) = Range(passes[r])
  BY <1>1 DEF Eager!InPass, Range
<1>6. Eager!DrainedWires(T) = {w \in DOMAIN EagerOf(passes) : EagerOf(passes)[w] \in DrainedOf(passes)}
  BY <1>1 DEF Eager!DrainedWires
<1>7. /\ \A r \in DOMAIN passes : T.foreign[r] = ForeignOf(passes[r]) /\ T.dataPage[r] = DataPage(passes, r)
      /\ \A w \in Cached : T.page[w] = StampPage(passes, w)
  BY <1>1
<1>8. /\ \A x \in Stop :
            /\ T.leafHolds[x] = LeafHoldsCut(passes, x)
            /\ T.leafPasses[x] = {r \in Woken(passes) : x \in PassDirect(passes, r)}
      /\ \A w \in DOMAIN EagerOf(passes) :
            T.cutHolds[w] = RegionHolds(passes, w) /\ T.consumers[w] = PassConsumers(passes, w)
      /\ \A h \in Tables!Holds : T.holdReads[h] = HoldDemands(passes, h)
  BY <1>2, <1>3, Zenon
<1> QED BY <1>2, <1>3, <1>4, <1>5, <1>6, <1>7, <1>8 DEF T

\* Every table has its type: a wire with a pass is in that pass and has its page.
THEOREM PassTablesTyped ==
    ASSUME DesignOK, NamesSorted, NEW passes, PassesOK(passes)
    PROVE  Eager!PlanTyped(TablesOf(passes))
<1> DEFINE T == TablesOf(passes)
           eager == EagerOf(passes)
           D == DOMAIN passes
<1>1. /\ T.order = passes /\ T.passOf = eager /\ T.drained = DrainedOf(passes)
      /\ T.lazyDeps = CachedDeps
  BY TableFields, Zenon
<1>2. passes \in Seq(Seq(Cached)) /\ DOMAIN eager \subseteq Cached
  BY EagerIs DEF PassesOK
<1>3. Eager!Sigs = Stop /\ Eager!Holds = Tables!Holds
  BY EagerNames, TablesNames
<1>4. \A r \in D : Eager!InPass(T, r) = Range(passes[r])
  BY TableEntries
<1>5. \A w \in DOMAIN eager : eager[w] \in D /\ w \in Range(passes[eager[w]])
  BY EagerIs
<1>6. ASSUME NEW r \in D
      PROVE  /\ passes[r] # <<>>
             /\ \A i, j \in DOMAIN passes[r] : passes[r][i] = passes[r][j] => i = j
             /\ \A w \in Range(passes[r]) :
                   w \in DOMAIN eager /\ eager[w] = r /\ T.page[w] = T.page[passes[r][1]]
  <2>1. /\ passes[r] # <<>>
        /\ \A i, j \in DOMAIN passes[r] : passes[r][i] = passes[r][j] => i = j
    BY DEF PassesOK
  <2>2. \A w \in Range(passes[r]) : w \in DOMAIN eager /\ eager[w] = r /\ w \in Cached
    BY EagerIs
  <2>3. \A w \in Range(passes[r]) : T.page[w] = r
    BY <2>2, TableEntries DEF StampPage
  <2>4. passes[r][1] \in Range(passes[r])
    BY PassFacts
  <2> QED BY <2>1, <2>2, <2>3, <2>4
<1>7. /\ \A x \in Stop : LeafPages(passes, x) \subseteq T.pages
      /\ \A w \in Cached : StampPage(passes, w) \in T.pages
      /\ \A r \in D : DataPage(passes, r) \in T.pages
  <2> DEFINE U == UNION {LeafPages(passes, x) : x \in Stop}
             S == {StampPage(passes, w) : w \in Cached}
             R == {DataPage(passes, r) : r \in D}
  <2>1. /\ \A x \in Stop : LeafPages(passes, x) \subseteq U
        /\ \A w \in Cached : StampPage(passes, w) \in S
        /\ \A r \in D : DataPage(passes, r) \in R
    OBVIOUS
  <2>2. T.pages = (U \cup S) \cup R
    BY DEF TablesOf
  <2> HIDE DEF T, U, S, R
  <2> QED BY <2>1, <2>2
<1>8. /\ T.page \in [Cached -> T.pages] /\ T.dataPage \in [D -> T.pages]
  <2>1. /\ T.page = [w \in Cached |-> StampPage(passes, w)]
        /\ T.dataPage = [r \in D |-> DataPage(passes, r)]
    BY TableFields, Zenon
  <2>2. /\ \A w \in Cached : StampPage(passes, w) \in T.pages
        /\ \A r \in D : DataPage(passes, r) \in T.pages
    BY <1>7, Zenon
  <2> HIDE DEF T
  <2> QED BY <2>1, <2>2
<1>9. T.leafPages \in [Stop -> SUBSET T.pages]
  <2>1. T.leafPages = [x \in Stop |-> LeafPages(passes, x)]
    BY TableFields, Zenon
  <2>2. \A x \in Stop : LeafPages(passes, x) \subseteq T.pages
    BY <1>7, Zenon
  <2> HIDE DEF T
  <2> QED BY <2>1, <2>2
<1>10. T.foreign \in [D -> SUBSET Cached] /\ CachedDeps \in [Cached -> SUBSET Cached]
  <2>1. T.foreign = [r \in D |-> ForeignOf(passes[r])]
    BY TableFields, Zenon
  <2>2. \A r \in D : ForeignOf(passes[r]) \subseteq Cached
    BY ForeignFacts
  <2>3. CachedDeps = [w \in Cached |-> CachedDeps[w]] /\ \A w \in Cached : CachedDeps[w] \subseteq Cached
    <3>1. CachedDeps = [w \in Cached |-> CachedDeps[w]]
      BY DEF CachedDeps
    <3> QED BY <3>1, LeavesOfDeps
  <2> HIDE DEF T
  <2> QED BY <2>1, <2>2, <2>3
<1>11. Woken(passes) \subseteq D /\ DrainedOf(passes) \subseteq Woken(passes)
  BY WokenIs, DrainedIs
<1>12. /\ T.leafHolds \in [Stop -> SUBSET Tables!Holds]
       /\ T.leafPasses \in [Stop -> SUBSET D]
  <2>1. /\ T.leafHolds = [x \in Stop |-> LeafHoldsCut(passes, x)]
        /\ T.leafPasses = [x \in Stop |-> {r \in Woken(passes) : x \in PassDirect(passes, r)}]
    BY TableFields, Zenon
  <2>2. \A x \in Stop : LeafHoldsCut(passes, x) \subseteq Tables!Holds
    BY TableEntries DEF LeafHoldsCut
  <2>3. \A x \in Stop : {r \in Woken(passes) : x \in PassDirect(passes, r)} \subseteq D
    BY <1>11
  <2> HIDE DEF T, D
  <2> QED BY <2>1, <2>2, <2>3
<1>13. /\ T.cutHolds \in [DOMAIN eager -> SUBSET Tables!Holds]
       /\ T.consumers \in [DOMAIN eager -> SUBSET D]
  <2>1. /\ T.cutHolds = [w \in DOMAIN EagerOf(passes) |-> RegionHolds(passes, w)]
        /\ T.consumers = [w \in DOMAIN EagerOf(passes) |-> PassConsumers(passes, w)]
    BY TableFields
  <2>2. \A w : RegionHolds(passes, w) \subseteq Tables!Holds /\ PassConsumers(passes, w) \subseteq D
    BY TableEntries DEF RegionHolds, PassConsumers
  <2> HIDE DEF T, D
  <2> QED BY <2>1, <2>2
<1>14. T.holdReads \in [Tables!Holds -> SUBSET Cached]
  <2>1. T.holdReads = [h \in DOMAIN StmtIds |-> HoldDemands(passes, h)]
        /\ DOMAIN StmtIds = Tables!Holds
    BY TableFields, TableEntries, Zenon
  <2>2. \A h : HoldDemands(passes, h) \subseteq Cached
    BY DEF HoldDemands, CachedBelow
  <2> HIDE DEF T
  <2> QED BY <2>1, <2>2
<1>15. DOMAIN T.bit = Woken(passes)
  BY TableEntries
<1> HIDE DEF T, D, eager
<1> QED
  BY <1>1, <1>2, <1>3, <1>4, <1>5, <1>6, <1>8, <1>9, <1>10, <1>11, <1>12, <1>13, <1>14, <1>15
     DEF Eager!PlanTyped, T, D
-----------------------------------------------------------------------------
(* Reads and pages.                                                        *)
LEMMA ReadsKept ==
    ASSUME DesignOK, NEW e \in Tables!Env, NEW K
    PROVE  /\ Eager!Kept(e, K) \in Tables!Env
           /\ \A x \in (Stop \cup Cached) \cap K : Eager!Kept(e, K)[x] = e[x]
<1>1. e \in [Stop \cup Cached -> Val] /\ Zero \in Val
  BY TablesNames, DesignFacts
<1>2. Eager!Kept(e, K) = [x \in Stop \cup Cached |-> IF x \in K THEN e[x] ELSE Zero]
  BY <1>1 DEF Eager!Kept
<1> QED BY <1>1, <1>2, TablesNames

\* A wire keeps its value while its own leaves and its cached dependencies are kept.
LEMMA WireReads ==
    ASSUME DesignOK, NEW e \in Tables!Env, NEW w \in Cached, NEW K,
           OwnLeaves(w) \subseteq K, CachedDeps[w] \subseteq K
    PROVE  WireOf(w, e) = WireOf(w, Eager!Kept(e, K))
<1> DEFINE m == Eager!Kept(e, K)
<1>1. m \in Tables!Env /\ \A x \in (Stop \cup Cached) \cap K : m[x] = e[x]
  BY ReadsKept
<1> HIDE DEF m
<1>2. \A n \in Closure(Reads[w], Temps) \ Temps : n \in (Stop \cup Cached) \cap K
  BY LeavesOfDeps, DesignFacts
<1>3. Reads[w] \in SUBSET Names /\ w \in Assigned
  BY DesignFacts
<1>4. \A n \in Reads[w] : Bound(e)[n] = Bound(m)[n]
  BY <1>1, <1>2, <1>3, CutSuffices
<1>5. Bound(e) \in Values /\ Bound(m) \in Values
  BY <1>1, BoundIs
<1> QED BY <1>3, <1>4, <1>5, SameReadsSameValue DEF WireOf, m

\* What a wire of a pass reads is an element that bumps the data page, a wire of
\* another pass or an earlier wire of its own; the wires that a hold or a lazy wire
\* reads are demanded, or left by a drained pass: cached_deps, _pass_inputs and
\* _EAGER_DONE miss nothing.
THEOREM PassReadsListed ==
    ASSUME DesignOK, NamesSorted, NEW passes, PassesOK(passes)
    PROVE  Eager!ReadsListed(TablesOf(passes))
<1> DEFINE T == TablesOf(passes)
           eager == EagerOf(passes)
<1>1. /\ T.order = passes /\ T.passOf = eager /\ T.lazyDeps = CachedDeps
  BY TableFields, Zenon
<1>2. Eager!Sigs = Stop /\ Eager!Holds = Tables!Holds /\ Eager!Env = Tables!Env
  BY EagerNames, TablesNames
<1>3. /\ \A r \in DOMAIN passes : T.foreign[r] = ForeignOf(passes[r]) /\ T.dataPage[r] = DataPage(passes, r)
      /\ \A h \in Tables!Holds : T.holdReads[h] = HoldDemands(passes, h) /\ h \in DOMAIN StmtIds
      /\ Eager!DrainedWires(T) = {w \in DOMAIN eager : eager[w] \in DrainedOf(passes)}
  BY TableEntries
<1>4. \A r \in DOMAIN passes :
         Eager!Leaves(T, DataPage(passes, r)) = PassDirect(passes, r) \cap Stop
  BY PageLeaves
<1> HIDE DEF T, eager
<1>5. ASSUME NEW r \in DOMAIN passes, NEW e \in Tables!Env, NEW i \in DOMAIN passes[r]
      PROVE  WireOf(passes[r][i], e) =
                WireOf(passes[r][i],
                       Eager!Kept(e, Eager!Leaves(T, T.dataPage[r]) \cup T.foreign[r]
                                        \cup {passes[r][j] : j \in 1 .. i - 1}))
  <2> DEFINE w == passes[r][i]
             earlier == {passes[r][j] : j \in 1 .. i - 1}
             K == Eager!Leaves(T, T.dataPage[r]) \cup T.foreign[r] \cup earlier
  <2>1. /\ DOMAIN passes[r] = 1 .. Len(passes[r]) /\ Len(passes[r]) \in Nat
        /\ Range(passes[r]) \subseteq Cached /\ w \in Range(passes[r])
    BY PassFacts DEF Range
  <2>2. w \in Cached /\ OwnLeaves(w) \subseteq Stop
    BY <2>1 DEF OwnLeaves
  <2>3. OwnLeaves(w) \subseteq PassDirect(passes, r)
    BY <2>1 DEF PassDirect
  <2>4. OwnLeaves(w) \subseteq K
    BY <1>3, <1>4, <2>2, <2>3
  <2>5. ASSUME NEW d \in CachedDeps[w], d \notin ForeignOf(passes[r])
        PROVE  d \in earlier
    <3>1. d \in Range(passes[r])
      BY <2>1, <2>5, ForeignFacts
    <3>2. PICK j \in DOMAIN passes[r] : passes[r][j] = d
      BY <3>1 DEF Range
    <3>3. j < i
      BY <3>2 DEF PassesOK
    <3>4. j \in 1 .. i - 1
      BY <2>1, <3>3
    <3> QED BY <3>2, <3>4
  <2> HIDE DEF earlier, w
  <2>6. CachedDeps[w] \subseteq K
    BY <1>3, <2>5
  <2> HIDE DEF K
  <2>7. WireOf(w, e) = WireOf(w, Eager!Kept(e, K))
    BY <2>2, <2>4, <2>6, WireReads
  <2> QED BY <2>7 DEF K, w, earlier
<1>6. ASSUME NEW w \in Cached, NEW e \in Tables!Env
      PROVE  WireOf(w, e) = WireOf(w, Eager!Kept(e, Stop \cup CachedDeps[w]))
  <2>1. OwnLeaves(w) \subseteq Stop \cup CachedDeps[w] /\ CachedDeps[w] \subseteq Stop \cup CachedDeps[w]
    BY DEF OwnLeaves
  <2> QED BY <2>1, WireReads
<1>7. ASSUME NEW h \in Tables!Holds, NEW e \in Tables!Env
      PROVE  HoldOf(h, e) =
                HoldOf(h, Eager!Kept(e, Stop \cup T.holdReads[h] \cup Eager!DrainedWires(T)))
  <2> DEFINE K == Stop \cup T.holdReads[h] \cup Eager!DrainedWires(T)
             m == Eager!Kept(e, K)
  <2>1. m \in Tables!Env /\ \A x \in (Stop \cup Cached) \cap K : m[x] = e[x]
    BY ReadsKept
  <2>2. HoldDemands(passes, h) = CachedBelow(StmtIds[h]) \ Eager!DrainedWires(T)
    BY <1>3 DEF HoldDemands, eager
  <2>3. CachedBelow(StmtIds[h]) \subseteq K
    BY <1>3, <2>2
  <2>4. StmtIds[h] \in SUBSET Names
    BY BoundIs, TablesNames DEF DesignOK, IdsRight
  <2>5. \A n \in Closure(StmtIds[h], Temps) \ Temps : n \in (Stop \cup Cached) \cap K
    <3>1. Closure(StmtIds[h], Temps) \subseteq Names /\ Temps = Assigned \ Cached
          /\ Names = Stop \cup Assigned
      BY <2>4, ReachInNames, DesignFacts
    <3> QED BY <2>3, <3>1 DEF CachedBelow
  <2> HIDE DEF m, K
  <2>6. \A n \in StmtIds[h] : Bound(e)[n] = Bound(m)[n]
    BY <2>1, <2>4, <2>5, CutSuffices
  <2>7. Stmt(h, Bound(e)) = Stmt(h, Bound(m))
    BY <2>1, <2>6, BoundIs, SameIdsSameStmt
  <2> QED BY <2>7 DEF HoldOf, m, K
<1> QED BY <1>1, <1>2, <1>5, <1>6, <1>7 DEF Eager!ReadsListed, T

\* A wire moves only with elements that bump its page, a pass goes stale with the
\* lazy wires it reads, and with the wires of other passes that it reads.
THEOREM PassPagesCover ==
    ASSUME DesignOK, NamesSorted, NEW passes, PassesOK(passes)
    PROVE  Eager!PagesCover(TablesOf(passes))
<1> DEFINE T == TablesOf(passes)
           eager == EagerOf(passes)
<1>1. T.order = passes /\ T.passOf = eager
  BY TableFields, Zenon
<1>2. /\ Eager!Sigs = Stop /\ Eager!State = Tables!State
      /\ \A s : Eager!Settled(s) = Tables!Settled(s)
      /\ Tables!State = [Stop -> Val] /\ Zero \in Val
  BY EagerNames, TablesNames, DesignFacts
<1>3. /\ \A r \in DOMAIN passes : T.foreign[r] = ForeignOf(passes[r]) /\ T.dataPage[r] = DataPage(passes, r)
      /\ \A w \in Cached : T.page[w] = StampPage(passes, w)
  BY TableEntries
<1>4. /\ \A r \in DOMAIN passes :
            Eager!Leaves(T, DataPage(passes, r)) = PassDirect(passes, r) \cap Stop
      /\ \A w \in Cached : ConeLeaves(w) \subseteq Eager!Leaves(T, StampPage(passes, w))
      /\ \A r \in DOMAIN passes : \A w \in Range(passes[r]) :
            Eager!Leaves(T, StampPage(passes, w)) = ConeLeaves(w)
  BY PageLeaves
<1>5. \A r \in DOMAIN passes :
         /\ passes[r][1] \in Range(passes[r]) /\ Range(passes[r]) \subseteq Cached
         /\ ForeignOf(passes[r]) \subseteq Cached
         /\ \A d \in ForeignOf(passes[r]) : ConeLeaves(d) \subseteq ConeLeaves(passes[r][1])
         /\ \A w \in Range(passes[r]) : ConeLeaves(w) = ConeLeaves(passes[r][1])
  BY PassFacts, ForeignFacts
<1>6. \A w \in DOMAIN eager : eager[w] \in DOMAIN passes /\ w \in Range(passes[eager[w]])
  BY EagerIs
<1> HIDE DEF T, eager
<1>7. ASSUME NEW w \in Cached, NEW s \in Tables!State, NEW K, ConeLeaves(w) \subseteq K
      PROVE  Tables!Settled(s)[w] = Tables!Settled(Eager!Kept(s, K))[w]
  <2> DEFINE t == Eager!Kept(s, K)
  <2>1. s \in [Stop -> Val]
    BY <1>2
  <2>2. t = [x \in Stop |-> IF x \in K THEN s[x] ELSE Zero]
    BY <2>1 DEF Eager!Kept
  <2>3. t \in Tables!State /\ \A x \in Stop \cap K : s[x] = t[x]
    BY <1>2, <2>1, <2>2
  <2> HIDE DEF t
  <2>4. \A x \in ConeLeaves(w) : s[x] = t[x]
    BY <1>7, <2>3 DEF ConeLeaves
  <2>5. Bound(Tables!Settled(s))[w] = Bound(Tables!Settled(t))[w]
    BY <2>3, <2>4, ConeDetermines, DesignFacts
  <2> QED BY <2>3, <2>5, TheSettled, SettledIsSolved DEF t
<1>8. \A w \in Cached, s \in Tables!State :
         Tables!Settled(s)[w] = Tables!Settled(Eager!Kept(s, Eager!Leaves(T, T.page[w])))[w]
  BY <1>3, <1>4, <1>7
<1>9. ASSUME NEW r \in DOMAIN passes, NEW w \in ForeignOf(passes[r]) \ DOMAIN eager,
             NEW s \in Tables!State
      PROVE  Tables!Settled(s)[w] = Tables!Settled(Eager!Kept(s, Eager!Leaves(T, T.dataPage[r])))[w]
  <2>1. w \in Cached /\ ConeLeaves(w) \subseteq Stop
    BY <1>5 DEF ConeLeaves
  <2>2. ConeLeaves(w) \subseteq PassDirect(passes, r)
    BY DEF PassDirect, eager
  <2> QED BY <1>3, <1>4, <1>7, <2>1, <2>2
<1>10. ASSUME NEW r \in DOMAIN passes
       PROVE  /\ Eager!Leaves(T, T.dataPage[r]) \subseteq Eager!Leaves(T, T.page[passes[r][1]])
              /\ \A w \in ForeignOf(passes[r]) \cap DOMAIN eager :
                    Eager!Leaves(T, T.page[w]) \subseteq Eager!Leaves(T, T.page[passes[r][1]])
  <2>1. Eager!Leaves(T, T.page[passes[r][1]]) = ConeLeaves(passes[r][1])
    BY <1>3, <1>4, <1>5
  <2>2. PassDirect(passes, r) \subseteq ConeLeaves(passes[r][1])
    <3>1. \A w \in Range(passes[r]) : OwnLeaves(w) \subseteq ConeLeaves(passes[r][1])
      BY <1>5, LeavesOfDeps
    <3>2. \A x \in PassDirect(passes, r) :
             \/ \E w \in Range(passes[r]) : x \in OwnLeaves(w)
             \/ \E d \in ForeignOf(passes[r]) : x \in ConeLeaves(d)
      BY DEF PassDirect
    <3> QED BY <1>5, <3>1, <3>2
  <2>3. ASSUME NEW w \in ForeignOf(passes[r]) \cap DOMAIN eager
        PROVE  Eager!Leaves(T, T.page[w]) \subseteq ConeLeaves(passes[r][1])
    <3>1. w \in Cached /\ ConeLeaves(w) \subseteq ConeLeaves(passes[r][1])
      BY <1>5
    <3>2. Eager!Leaves(T, T.page[w]) = ConeLeaves(w)
      BY <1>3, <1>4, <1>6, <3>1
    <3> QED BY <3>1, <3>2
  <2> QED BY <1>3, <1>4, <2>1, <2>2, <2>3
<1> QED BY <1>1, <1>2, <1>3, <1>8, <1>9, <1>10 DEF Eager!PagesCover, T
-----------------------------------------------------------------------------
(* Who is told and what is woken.                                          *)

\* A pass is told of every wire of another pass that it reads and of no other, an
\* element that its wires read wakes it, and a drained pass reads only wires of
\* drained passes before it.
THEOREM PassesAreTold ==
    ASSUME DesignOK, NamesSorted, NEW passes, PassesOK(passes)
    PROVE  Eager!PassesTold(TablesOf(passes))
<1> DEFINE T == TablesOf(passes)
           eager == EagerOf(passes)
<1>1. T.order = passes /\ T.passOf = eager /\ T.drained = DrainedOf(passes)
  BY TableFields, Zenon
<1>2. /\ \A r \in DOMAIN passes :
            /\ T.foreign[r] = ForeignOf(passes[r]) /\ T.dataPage[r] = DataPage(passes, r)
            /\ Eager!InPass(T, r) = Range(passes[r])
      /\ \A x \in Stop : T.leafPasses[x] = {r \in Woken(passes) : x \in PassDirect(passes, r)}
      /\ \A w \in DOMAIN eager : T.consumers[w] = PassConsumers(passes, w)
      /\ DOMAIN T.bit = Woken(passes)
      /\ Eager!DrainedWires(T) = {w \in DOMAIN eager : eager[w] \in DrainedOf(passes)}
  BY TableEntries
<1>3. \A r \in DOMAIN passes :
         /\ ForeignOf(passes[r]) \cap Range(passes[r]) = {}
         /\ Eager!Leaves(T, DataPage(passes, r)) = PassDirect(passes, r) \cap Stop
  BY ForeignFacts, PageLeaves
<1>4. /\ Woken(passes) \subseteq DOMAIN passes
      /\ \A r \in DrainedOf(passes) :
            /\ r \in DOMAIN passes
            /\ \A d \in ForeignOf(passes[r]) :
                  d \in DOMAIN eager /\ eager[d] \in DrainedOf(passes) /\ eager[d] < r
  BY WokenIs, DrainedIs
<1> HIDE DEF T, eager
<1>5. \A r \in DOMAIN passes : \A w : w \in ForeignOf(passes[r]) <=> r \in PassConsumers(passes, w)
  BY DEF PassConsumers
<1>6. \A w, r : r \in PassConsumers(passes, w) => r \in DOMAIN passes
  BY DEF PassConsumers
<1>7. /\ \A r \in DOMAIN passes :
            /\ T.foreign[r] \cap Eager!InPass(T, r) = {}
            /\ \A w \in T.foreign[r] \cap DOMAIN eager : r \in T.consumers[w]
      /\ \A w \in DOMAIN eager : \A r \in T.consumers[w] : w \in T.foreign[r]
  BY <1>2, <1>3, <1>5, <1>6
<1>8. \A r \in DOMAIN T.bit : \A x \in Eager!Leaves(T, T.dataPage[r]) : r \in T.leafPasses[x]
  BY <1>2, <1>3, <1>4
<1>9. \A r \in DrainedOf(passes) : \A w \in T.foreign[r] : w \in Eager!DrainedWires(T) /\ eager[w] < r
  BY <1>2, <1>4
<1> QED BY <1>1, <1>7, <1>8, <1>9 DEF Eager!PassesTold, T

\* The elements that wake a hold and the wires whose movement wakes it settle what
\* it does, and the passes of these wires are woken: no change is missed where the
\* cone of a statement is cut at the compared wires.
THEOREM HoldsAreCut ==
    ASSUME DesignOK, NamesSorted, NEW passes, PassesOK(passes)
    PROVE  Eager!HoldsCut(TablesOf(passes))
<1> DEFINE T == TablesOf(passes)
           eager == EagerOf(passes)
<1>1. T.passOf = eager
  BY TableFields, Zenon
<1>2. /\ Eager!Sigs = Stop /\ Eager!State = Tables!State /\ Eager!Holds = Tables!Holds
      /\ \A s : Eager!Settled(s) = Tables!Settled(s)
  BY EagerNames, TablesNames
<1>3. /\ \A x \in Stop : T.leafHolds[x] = LeafHoldsCut(passes, x)
      /\ \A w \in DOMAIN eager : T.cutHolds[w] = RegionHolds(passes, w)
      /\ DOMAIN T.bit = Woken(passes) /\ DOMAIN StmtIds = Tables!Holds
  BY TableEntries
<1>4. \A w \in DOMAIN eager :
         w \in Cached /\ eager[w] \in DOMAIN passes /\ w \in Range(passes[eager[w]])
  BY EagerIs
<1>5. CutWires(passes) = DOMAIN eager \cap ScalarIds
  BY DEF CutWires
<1> HIDE DEF T, eager
<1>6. ASSUME NEW w \in DOMAIN eager, RegionHolds(passes, w) # {}
      PROVE  w \in ScalarIds /\ eager[w] \in Woken(passes)
  <2>1. w \in CutWires(passes)
    BY <1>6 DEF RegionHolds
  <2>2. eager[w] \in Woken(passes)
    BY <1>4, <1>6, WokenIs
  <2> QED BY <1>5, <2>1, <2>2
<1>7. ASSUME NEW h \in Tables!Holds, NEW s \in Tables!State, NEW t \in Tables!State,
             \A x \in Stop : h \in LeafHoldsCut(passes, x) => s[x] = t[x],
             \A w \in DOMAIN eager : h \in RegionHolds(passes, w) =>
                 Tables!Settled(s)[w] = Tables!Settled(t)[w]
      PROVE  HoldOf(h, Tables!Settled(s)) = HoldOf(h, Tables!Settled(t))
  <2> DEFINE f == Bound(Tables!Settled(s))
             g == Bound(Tables!Settled(t))
             O == Assigned \ CutWires(passes)
             C == Closure(StmtIds[h], O)
  <2>1. /\ f \in Values /\ \A x \in Stop : f[x] = s[x]
        /\ \A w \in Cached : f[w] = Tables!Settled(s)[w]
        /\ g \in Values /\ \A x \in Stop : g[x] = t[x]
        /\ \A w \in Cached : g[w] = Tables!Settled(t)[w]
    BY TheSettled, SettledIsSolved
  <2>2. h \in DOMAIN StmtIds /\ h \in 0 .. NHolds - 1 /\ StmtIds[h] \in SUBSET Names
    BY <1>3, <2>1, TablesNames DEF DesignOK, IdsRight
  <2>3. O \in SUBSET Assigned
    OBVIOUS
  <2> HIDE DEF f, g
  <2>4. C \subseteq Names
    BY <2>2, <2>3, ReachInNames
  <2>5. C = CutCone(passes, h)
    BY DEF CutCone
  <2> HIDE DEF C
  <2>6. ASSUME NEW n \in C \ O
        PROVE  f[n] = g[n]
    <3>1. CASE n \in Stop
      <4>1. h \in LeafHoldsCut(passes, n)
        BY <2>2, <2>5 DEF LeafHoldsCut
      <4> QED BY <1>7, <2>1, <3>1, <4>1
    <3>2. CASE n \notin Stop
      <4>1. n \in CutWires(passes)
        BY <2>4, <3>2 DEF Names
      <4>2. h \in RegionHolds(passes, n) /\ n \in DOMAIN eager
        BY <1>5, <2>2, <2>5, <4>1 DEF RegionHolds
      <4> QED BY <1>4, <1>7, <2>1, <4>2
    <3> QED BY <3>1, <3>2
  <2> HIDE DEF O
  <2>7. \A n \in StmtIds[h] : f[n] = g[n]
    BY <2>2, <2>3, <2>6, CutDetermines DEF f, g, C
  <2>8. Stmt(h, f) = Stmt(h, g)
    BY <2>1, <2>7, SameIdsSameStmt
  <2> QED BY <2>8 DEF HoldOf, f, g
<1>8. /\ \A w \in DOMAIN T.passOf : T.cutHolds[w] # {} =>
            w \in ScalarIds /\ T.passOf[w] \in DOMAIN T.bit
  BY <1>1, <1>3, <1>6
<1>9. ASSUME NEW h \in Eager!Holds, NEW s \in Eager!State, NEW t \in Eager!State,
             \A x \in Eager!Sigs : h \in T.leafHolds[x] => s[x] = t[x],
             \A w \in DOMAIN T.passOf : h \in T.cutHolds[w] =>
                 Eager!Settled(s)[w] = Eager!Settled(t)[w]
      PROVE  HoldOf(h, Eager!Settled(s)) = HoldOf(h, Eager!Settled(t))
  BY <1>1, <1>2, <1>3, <1>7, <1>9
<1> QED BY <1>8, <1>9 DEF Eager!HoldsCut, T
-----------------------------------------------------------------------------
(* Sorting.                                                                *)
IsOrder(S, R) ==
    /\ \A x \in S : <<x, x>> \notin R
    /\ \A x, y, z \in S : <<x, y>> \in R /\ <<y, z>> \in R => <<x, z>> \in R
    /\ \A x, y \in S : x # y => <<x, y>> \in R \/ <<y, x>> \in R

\* A finite set in a strict total order is a sequence of all its members, each once.
LEMMA InOrderIs ==
    ASSUME NEW S, IsFiniteSet(S), NEW R, IsOrder(S, R)
    PROVE  /\ Cardinality(S) \in Nat
           /\ InOrder(S, R) \in [1 .. Cardinality(S) -> S]
           /\ \A i, j \in 1 .. Cardinality(S) : i < j => <<InOrder(S, R)[i], InOrder(S, R)[j]>> \in R
           /\ \A i, j \in 1 .. Cardinality(S) : InOrder(S, R)[i] = InOrder(S, R)[j] => i = j
           /\ \A x \in S : \E i \in 1 .. Cardinality(S) : InOrder(S, R)[i] = x
<1> DEFINE N == Cardinality(S)
           Under(x) == {y \in S : <<y, x>> \in R}
           pos == [x \in S |-> Cardinality(Under(x))]
<1>1. N \in Nat
  BY FS_CardinalityType
<1>2. \A x : Under(x) \in SUBSET S /\ IsFiniteSet(Under(x)) /\ Cardinality(Under(x)) \in Nat
  <2> TAKE x
  <2>1. Under(x) \in SUBSET S
    OBVIOUS
  <2> QED BY <2>1, FS_Subset, FS_CardinalityType
<1>3. ASSUME NEW x \in S, NEW y \in S, <<x, y>> \in R
      PROVE  Cardinality(Under(x)) < Cardinality(Under(y))
  <2>1. x \notin Under(x) /\ Under(x) \cup {x} \in SUBSET Under(y)
    BY <1>3 DEF IsOrder
  <2> HIDE DEF Under
  <2>2. Cardinality(Under(x) \cup {x}) = Cardinality(Under(x)) + 1
    BY <1>2, <2>1, FS_AddElement
  <2>3. Cardinality(Under(x) \cup {x}) <= Cardinality(Under(y))
    BY <1>2, <2>1, FS_Subset
  <2> QED BY <1>2, <2>2, <2>3
<1>4. ASSUME NEW x \in S
      PROVE  Cardinality(Under(x)) \in 0 .. N - 1
  <2>1. x \notin Under(x) /\ Under(x) \cup {x} \in SUBSET S
    BY DEF IsOrder
  <2> HIDE DEF Under
  <2>2. Cardinality(Under(x) \cup {x}) = Cardinality(Under(x)) + 1
    BY <1>2, <2>1, FS_AddElement
  <2>3. Cardinality(Under(x) \cup {x}) <= N
    BY <2>1, FS_Subset
  <2> HIDE DEF N
  <2> QED BY <1>1, <1>2, <2>2, <2>3
<1>5. \A x \in S : pos[x] \in 0 .. N - 1 /\ pos[x] = Cardinality(Under(x))
  BY <1>4
<1>6. \A x, y \in S : <<x, y>> \in R <=> pos[x] < pos[y]
  <2> TAKE x \in S, y \in S
  <2>1. pos[x] = Cardinality(Under(x)) /\ pos[y] = Cardinality(Under(y))
    OBVIOUS
  <2>2. Cardinality(Under(x)) \in Nat /\ Cardinality(Under(y)) \in Nat
    BY <1>2
  <2> HIDE DEF Under, pos
  <2>3. CASE <<x, y>> \in R
    BY <1>3, <2>1, <2>3
  <2>4. CASE <<x, y>> \notin R
    <3>1. x = y \/ <<y, x>> \in R
      BY <2>4 DEF IsOrder
    <3>2. x = y \/ Cardinality(Under(y)) < Cardinality(Under(x))
      BY <1>3, <3>1
    <3> QED BY <2>1, <2>2, <2>4, <3>2
  <2> QED BY <2>3, <2>4
<1>7. \A x, y \in S : pos[x] = pos[y] => x = y
  <2> HIDE DEF pos, N
  <2> QED BY <1>1, <1>5, <1>6 DEF IsOrder
<1>8. pos \in Injection(S, 0 .. N - 1)
  <2>1. pos \in [S -> 0 .. N - 1]
    BY <1>4
  <2> HIDE DEF pos
  <2> QED BY <1>7, <2>1 DEF Injection, IsInjective
<1>9. pos \in Surjection(S, 0 .. N - 1)
  <2>1. IsFiniteSet(0 .. N - 1) /\ Cardinality(0 .. N - 1) = N
    BY <1>1, FS_Interval
  <2> HIDE DEF pos
  <2> QED BY <1>8, <2>1, FS_Injection DEF N
<1>10. \A i \in 1 .. N : \E x \in S : pos[x] = i - 1
  <2> TAKE i \in 1 .. N
  <2>1. i - 1 \in 0 .. N - 1
    BY <1>1
  <2> HIDE DEF pos, N
  <2> QED BY <1>9, <2>1 DEF Surjection
<1> DEFINE s == InOrder(S, R)
<1>11. \A i \in 1 .. N : s[i] \in S /\ pos[s[i]] = i - 1
  <2> TAKE i \in 1 .. N
  <2>1. s[i] = CHOOSE x \in S : Cardinality(Under(x)) = i - 1
    BY DEF InOrder
  <2>2. \E x \in S : Cardinality(Under(x)) = i - 1
    BY <1>5, <1>10
  <2>3. s[i] \in S /\ Cardinality(Under(s[i])) = i - 1
    <3> HIDE DEF s, Under
    <3> QED BY <2>1, <2>2
  <2> HIDE DEF s, Under, pos
  <2> QED BY <1>5, <2>3
<1>12. s = [i \in 1 .. N |-> s[i]]
  <2> DEFINE at(i) == CHOOSE x \in S : Cardinality(Under(x)) = i - 1
  <2>1. s = [i \in 1 .. N |-> at(i)]
    BY DEF InOrder
  <2> HIDE DEF s, at
  <2> QED BY <2>1
<1> HIDE DEF s, pos, N
<1>13. s \in [1 .. N -> S]
  BY <1>11, <1>12
<1>14. \A i, j \in 1 .. N : i < j => <<s[i], s[j]>> \in R
  BY <1>1, <1>6, <1>11
<1>15. \A i, j \in 1 .. N : s[i] = s[j] => i = j
  BY <1>1, <1>11
<1>16. \A x \in S : \E i \in 1 .. N : s[i] = x
  <2> TAKE x \in S
  <2>1. PICK k \in 0 .. N - 1 : pos[x] = k
    BY <1>5
  <2>2. k + 1 \in 1 .. N /\ (k + 1) - 1 = k
    BY <1>1
  <2>3. s[k + 1] = x
    BY <1>7, <1>11, <2>1, <2>2
  <2> QED BY <2>2, <2>3
<1> QED BY <1>1, <1>13, <1>14, <1>15, <1>16 DEF s, N

\* A set of names has a first one.
LEMMA FirstByRank ==
    ASSUME NamesSorted, NEW S \in SUBSET Names, S # {}
    PROVE  ByRank(S) \in S /\ \A m \in S : NameRank[ByRank(S)] <= NameRank[m]
<1> DEFINE R == {p \in S \X S : NameRank[p[1]] < NameRank[p[2]]}
<1>1. \A m \in S : NameRank[m] \in Int
  BY DEF NamesSorted
<1>2. \A m, n \in S : NameRank[m] = NameRank[n] => m = n
  BY DEF NamesSorted
<1>3. \A x, y \in S : <<x, y>> \in R <=> NameRank[x] < NameRank[y]
  OBVIOUS
<1> HIDE DEF R
<1>4. IsOrder(S, R)
  BY <1>1, <1>2, <1>3 DEF IsOrder
<1>5. IsFiniteSet(S)
  BY GraphAssumption, FS_Subset
<1>6. Cardinality(S) \in Nat /\ Cardinality(S) # 0
  BY <1>5, FS_EmptySet, FS_CardinalityType
<1> DEFINE n == InOrder(S, R)[1]
<1>7. 1 \in 1 .. Cardinality(S)
  BY <1>6
<1>8. n \in S
  BY <1>4, <1>5, <1>7, InOrderIs
<1>9. ASSUME NEW m \in S
      PROVE  NameRank[n] <= NameRank[m]
  <2>1. PICK i \in 1 .. Cardinality(S) : InOrder(S, R)[i] = m
    BY <1>4, <1>5, InOrderIs
  <2>2. i = 1 \/ 1 < i
    BY <1>6
  <2>3. i = 1 \/ <<n, m>> \in R
    BY <1>4, <1>5, <1>7, <2>1, <2>2, InOrderIs
  <2> HIDE DEF n
  <2>4. CASE i = 1
    BY <1>1, <1>8, <2>1, <2>4 DEF n
  <2>5. CASE <<n, m>> \in R
    BY <1>1, <1>3, <1>8, <2>5
  <2> QED BY <2>3, <2>4, <2>5
<1> HIDE DEF n
<1> QED BY <1>8, <1>9 DEF ByRank

\* The order of the leaf sets: two sets of one size are apart, and the first name
\* in only one of them decides.
LEMMA SetsInOrder ==
    ASSUME NamesSorted, NEW F \in SUBSET (SUBSET Stop)
    PROVE  IsOrder(F, {p \in F \X F : SmallerFirst(p[1], p[2])})
<1> DEFINE R == {p \in F \X F : SmallerFirst(p[1], p[2])}
           first(a, b) == ByRank((a \ b) \cup (b \ a))
           IsFirst(n, a, b) == /\ n \in (a \ b) \cup (b \ a)
                               /\ \A m \in (a \ b) \cup (b \ a) : NameRank[n] <= NameRank[m]
<1>1. \A x, y \in F : <<x, y>> \in R <=> SmallerFirst(x, y)
  OBVIOUS
<1>2. \A a \in F : Cardinality(a) \in Nat
  <2> TAKE a \in F
  <2>1. a \in SUBSET Names
    BY DEF Names
  <2> QED BY <2>1, GraphAssumption, FS_Subset, FS_CardinalityType
<1>3. \A n \in Names : NameRank[n] \in Int
  BY DEF NamesSorted
<1>4. \A m, n \in Names : NameRank[m] = NameRank[n] => m = n
  BY DEF NamesSorted
<1>5. ASSUME NEW a \in F, NEW b \in F, a # b
      PROVE  first(a, b) \in Names /\ IsFirst(first(a, b), a, b)
  <2>1. (a \ b) \cup (b \ a) \in SUBSET Names /\ (a \ b) \cup (b \ a) # {}
    BY <1>5 DEF Names
  <2> QED BY <2>1, FirstByRank
<1>6. \A a, b \in F : SortedByName(a, b) <=> a # b /\ first(a, b) \in a
  BY DEF SortedByName
<1> HIDE DEF R, first
<1>7. ASSUME NEW a \in F, NEW b \in F
      PROVE  SortedByName(a, b) <=> \E n \in Names : n \in a /\ IsFirst(n, a, b)
  <2>1. ASSUME NEW n \in Names, n \in a, IsFirst(n, a, b)
        PROVE  a # b /\ first(a, b) \in a
    <3>1. a # b
      BY <2>1
    <3>2. first(a, b) \in Names /\ IsFirst(first(a, b), a, b)
      BY <1>5, <3>1
    <3>3. NameRank[n] <= NameRank[first(a, b)] /\ NameRank[first(a, b)] <= NameRank[n]
      BY <2>1, <3>2
    <3>4. n = first(a, b)
      BY <1>3, <1>4, <3>2, <3>3
    <3> QED BY <2>1, <3>1, <3>4
  <2>2. SortedByName(a, b) => \E n \in Names : n \in a /\ IsFirst(n, a, b)
    BY <1>5, <1>6
  <2> QED BY <1>6, <2>1, <2>2
<1>8. ASSUME NEW a \in F, NEW b \in F, a # b
      PROVE  SortedByName(a, b) \/ SortedByName(b, a)
  <2> DEFINE n == first(a, b)
  <2>1. n \in Names /\ IsFirst(n, a, b)
    BY <1>5, <1>8
  <2> HIDE DEF n
  <2>2. IsFirst(n, b, a) /\ (n \in a \/ n \in b)
    BY <2>1
  <2> HIDE DEF IsFirst
  <2> QED BY <1>7, <2>1, <2>2
<1>9. ASSUME NEW a \in F, NEW b \in F, NEW c \in F, SortedByName(a, b), SortedByName(b, c)
      PROVE  SortedByName(a, c)
  <2> HIDE DEF IsFirst
  <2>1. PICK x \in Names : x \in a /\ IsFirst(x, a, b)
    BY <1>7, <1>9
  <2>2. PICK y \in Names : y \in b /\ IsFirst(y, b, c)
    BY <1>7, <1>9
  <2>3. /\ x \in a /\ x \notin b /\ y \in b /\ y \notin c
        /\ \A m \in (a \ b) \cup (b \ a) : NameRank[x] <= NameRank[m]
        /\ \A m \in (b \ c) \cup (c \ b) : NameRank[y] <= NameRank[m]
    BY <2>1, <2>2 DEF IsFirst
  <2>4. NameRank[x] \in Int /\ NameRank[y] \in Int /\ NameRank[x] # NameRank[y]
    BY <1>3, <1>4, <2>3
  <2>5. \A m \in (a \ c) \cup (c \ a) : m \in Names /\ NameRank[m] \in Int
                /\ (m \in (a \ b) \cup (b \ a) \/ m \in (b \ c) \cup (c \ b))
    BY <1>3 DEF Names
  <2>6. CASE NameRank[x] < NameRank[y]
    <3>1. ~(NameRank[y] <= NameRank[x])
      BY <2>4, <2>6
    <3>2. x \notin c
      BY <2>3, <3>1
    <3>3. \A m \in (a \ c) \cup (c \ a) : NameRank[x] <= NameRank[m]
      BY <2>3, <2>4, <2>5, <2>6
    <3>4. IsFirst(x, a, c)
      BY <2>3, <3>2, <3>3 DEF IsFirst
    <3> QED BY <1>7, <2>1, <3>4
  <2>7. CASE NameRank[y] < NameRank[x]
    <3>1. ~(NameRank[x] <= NameRank[y])
      BY <2>4, <2>7
    <3>2. y \in a
      BY <2>3, <3>1
    <3>3. \A m \in (a \ c) \cup (c \ a) : NameRank[y] <= NameRank[m]
      BY <2>3, <2>4, <2>5, <2>7
    <3>4. IsFirst(y, a, c)
      BY <2>3, <3>2, <3>3 DEF IsFirst
    <3> QED BY <1>7, <2>2, <3>2, <3>4
  <2> QED BY <2>4, <2>6, <2>7
<1>10. \A a \in F : ~SortedByName(a, a)
  BY DEF SortedByName
<1>11. \A a \in F : ~SmallerFirst(a, a)
  BY <1>2, <1>10 DEF SmallerFirst
<1>12. \A a, b, c \in F : SmallerFirst(a, b) /\ SmallerFirst(b, c) => SmallerFirst(a, c)
  BY <1>2, <1>9 DEF SmallerFirst
<1>13. \A a, b \in F : a # b => SmallerFirst(a, b) \/ SmallerFirst(b, a)
  BY <1>2, <1>8 DEF SmallerFirst
<1> QED BY <1>1, <1>11, <1>12, <1>13 DEF IsOrder, R

\* DepsFirst orders the wires of a pass.
LEMMA WiresInOrder ==
    ASSUME DesignOK, NamesSorted, NEW W \in SUBSET Cached
    PROVE  IsOrder(W, {p \in W \X W : DepsFirst(p[1], p[2])})
<1> DEFINE R == {p \in W \X W : DepsFirst(p[1], p[2])}
<1>1. \A v, w \in W : <<v, w>> \in R <=> DepsFirst(v, w)
  OBVIOUS
<1>2. \A w \in W : Cardinality(CachesUnder(w)) \in Nat
  <2> TAKE w \in W
  <2>1. CachesUnder(w) \in SUBSET Names
    BY DesignFacts DEF CachesUnder
  <2> QED BY <2>1, GraphAssumption, FS_Subset, FS_CardinalityType
<1>3. \A w \in W : NameRank[w] \in Int
  BY DesignFacts DEF NamesSorted
<1>4. \A v, w \in W : NameRank[v] = NameRank[w] => v = w
  BY DesignFacts DEF NamesSorted
<1> HIDE DEF R
<1> QED BY <1>1, <1>2, <1>3, <1>4 DEF IsOrder, DepsFirst, R

\* A dependency has fewer caches below it than its reader.
LEMMA FewerBelow ==
    ASSUME DesignOK, NEW w \in Cached, NEW d \in CachedDeps[w]
    PROVE  DepsFirst(d, w)
<1>1. PICK rank \in [Assigned -> 0 .. Cardinality(Assigned)] : Ordered(rank)
  BY DEF DesignOK, LoopFree
<1>2. d \in Cached /\ d \in Assigned /\ w \in Assigned /\ d \in Closure(Reads[w], Temps)
  BY LeavesOfDeps, DesignFacts
<1>3. Reads[w] \in SUBSET Names /\ Reads[d] \in SUBSET Names /\ Temps \in SUBSET Assigned
  BY <1>2, DesignFacts
<1> DEFINE full == Closure(Reads[w], Assigned)
<1>4. Reads[w] \subseteq full /\ Closed(Reads, Assigned, full)
  BY ReachIs
<1>5. \A X : Reads[d] \subseteq X /\ Closed(Reads, Assigned, X) => Closure(Reads[d], Assigned) \subseteq X
  BY ReachIs
<1>6. \A X : Reads[w] \subseteq X /\ Closed(Reads, Temps, X) => Closure(Reads[w], Temps) \subseteq X
  BY <1>3, ReachIs
<1> HIDE DEF full
<1>7. d \in full
  <2>1. Closed(Reads, Temps, full)
    BY <1>3, <1>4 DEF Closed
  <2> QED BY <1>2, <1>4, <1>6, <2>1
<1>8. Reads[d] \subseteq full
  BY <1>2, <1>4, <1>7 DEF Closed
<1>9. CachesUnder(d) \subseteq CachesUnder(w) /\ d \in CachesUnder(w)
  BY <1>2, <1>4, <1>5, <1>7, <1>8 DEF CachesUnder, full
<1>10. d \notin CachesUnder(d)
  <2> DEFINE D == {n \in Names : n \in Assigned => rank[n] < rank[d]}
  <2>1. \A n \in Assigned : rank[n] \in Int
    BY <1>1, DesignFacts
  <2>2. Reads[d] \subseteq D
    BY <1>1, <1>2, <1>3 DEF Ordered
  <2>3. Closed(Reads, Assigned, D)
    <3> SUFFICES ASSUME NEW n \in D \cap Assigned, NEW m \in Reads[n] PROVE m \in D
      BY DEF Closed
    <3>1. rank[n] < rank[d] /\ m \in Names
      BY DesignFacts
    <3>2. m \in Assigned => rank[m] < rank[n]
      BY <1>1, <3>1 DEF Ordered
    <3> QED BY <1>2, <2>1, <3>1, <3>2
  <2>4. d \notin D
    BY <1>2, <2>1
  <2> HIDE DEF D
  <2> QED BY <1>5, <2>2, <2>3, <2>4 DEF CachesUnder
<1>11. CachesUnder(w) \in SUBSET Names /\ CachesUnder(d) \cup {d} \in SUBSET CachesUnder(w)
  BY <1>9, DesignFacts DEF CachesUnder
<1>12. IsFiniteSet(CachesUnder(w)) /\ IsFiniteSet(CachesUnder(d))
  BY <1>9, <1>11, GraphAssumption, FS_Subset
<1>13. Cardinality(CachesUnder(d) \cup {d}) = Cardinality(CachesUnder(d)) + 1
  BY <1>10, <1>12, FS_AddElement
<1>14. Cardinality(CachesUnder(d) \cup {d}) <= Cardinality(CachesUnder(w))
  BY <1>11, <1>12, FS_Subset
<1>15. Cardinality(CachesUnder(d)) \in Nat /\ Cardinality(CachesUnder(w)) \in Nat
  BY <1>12, FS_CardinalityType
<1> QED BY <1>13, <1>14, <1>15 DEF DepsFirst
-----------------------------------------------------------------------------
(* The passes of a region.                                                 *)
PassOK(order) ==
    /\ order \in Seq(Cached) /\ order # <<>>
    /\ \A i, j \in DOMAIN order :
          /\ order[i] = order[j] => i = j
          /\ ConeLeaves(order[i]) = ConeLeaves(order[j])
          /\ order[j] \in CachedDeps[order[i]] => j < i

Apart(passes) ==
    \A q, r \in DOMAIN passes : Range(passes[q]) \cap Range(passes[r]) # {} => q = r

\* Wires with one leaf set, in that order, are a pass, each after those it reads.
LEMMA PassInOrder ==
    ASSUME DesignOK, NamesSorted, NEW W \in SUBSET Cached, W # {},
           \A v, w \in W : ConeLeaves(v) = ConeLeaves(w)
    PROVE  /\ PassOK(InOrder(W, {p \in W \X W : DepsFirst(p[1], p[2])}))
           /\ Range(InOrder(W, {p \in W \X W : DepsFirst(p[1], p[2])})) = W
<1> DEFINE R == {p \in W \X W : DepsFirst(p[1], p[2])}
           s == InOrder(W, R)
           n == Cardinality(W)
<1>1. IsFiniteSet(W)
  <2>1. W \in SUBSET Names
    BY DesignFacts
  <2> QED BY <2>1, GraphAssumption, FS_Subset
<1>2. n \in Nat /\ n # 0
  BY <1>1, FS_CardinalityType, FS_EmptySet
<1>3. IsOrder(W, R)
  BY WiresInOrder
<1>4. \A v, w \in W : <<v, w>> \in R <=> DepsFirst(v, w)
  OBVIOUS
<1> HIDE DEF R
<1>5. /\ s \in [1 .. n -> W]
      /\ \A i, j \in 1 .. n : i < j => <<s[i], s[j]>> \in R
      /\ \A i, j \in 1 .. n : s[i] = s[j] => i = j
      /\ \A x \in W : \E i \in 1 .. n : s[i] = x
  BY <1>1, <1>3, InOrderIs
<1> HIDE DEF s, n
<1>6. s \in Seq(Cached) /\ Len(s) = n /\ DOMAIN s = 1 .. n
  BY <1>2, <1>5
<1>7. s # <<>>
  BY <1>2, <1>6
<1>8. ASSUME NEW i \in 1 .. n, NEW j \in 1 .. n, s[j] \in CachedDeps[s[i]]
      PROVE  j < i
  <2>1. s[i] \in W /\ s[j] \in W /\ s[i] \in Cached
    BY <1>5
  <2>2. <<s[j], s[i]>> \in R
    BY <1>4, <1>8, <2>1, FewerBelow
  <2>3. i # j /\ ~(i < j)
    <3>1. <<s[i], s[i]>> \notin R
      BY <1>3, <2>1 DEF IsOrder
    <3>2. <<s[i], s[j]>> \notin R
      BY <1>3, <2>1, <2>2, <3>1 DEF IsOrder
    <3> QED BY <1>5, <2>2, <3>1, <3>2
  <2> QED BY <1>2, <2>3
<1>9. PassOK(s)
  BY <1>5, <1>6, <1>7, <1>8 DEF PassOK
<1>10. Range(s) = W
  BY <1>5, <1>6 DEF Range
<1> QED BY <1>9, <1>10 DEF s, R

\* The passes of a region cover it, share no wire and go from smaller leaf sets to larger.
LEMMA RegionPasses ==
    ASSUME DesignOK, NamesSorted, NEW region \in SUBSET Cached
    PROVE  /\ PassesOfRegion(region) \in Seq(Seq(Cached))
           /\ \A r \in DOMAIN PassesOfRegion(region) :
                 PassOK(PassesOfRegion(region)[r]) /\ Range(PassesOfRegion(region)[r]) \subseteq region
           /\ Apart(PassesOfRegion(region))
           /\ \A w \in region : \E r \in DOMAIN PassesOfRegion(region) :
                 w \in Range(PassesOfRegion(region)[r])
           /\ \A q, r \in DOMAIN PassesOfRegion(region) : q < r =>
                 \A v \in Range(PassesOfRegion(region)[q]), w \in Range(PassesOfRegion(region)[r]) :
                     SmallerFirst(ConeLeaves(v), ConeLeaves(w))
<1> DEFINE P == PassesOfRegion(region)
           sets == {ConeLeaves(w) : w \in region}
           R == {p \in sets \X sets : SmallerFirst(p[1], p[2])}
           leafSets == InOrder(sets, R)
           n == Cardinality(sets)
           having(leaves) == {w \in region : ConeLeaves(w) = leaves}
           pass(ws) == InOrder(ws, {p \in ws \X ws : DepsFirst(p[1], p[2])})
<1>1. sets \in SUBSET (SUBSET Stop) /\ \A w \in region : ConeLeaves(w) \in sets
  BY DEF ConeLeaves
<1>2. IsFiniteSet(sets)
  <2>1. IsFiniteSet(Stop)
    BY GraphAssumption, FS_Subset DEF Names
  <2>2. IsFiniteSet(SUBSET Stop)
    BY <2>1, FS_SUBSET
  <2> HIDE DEF sets
  <2> QED BY <1>1, <2>2, FS_Subset
<1>3. IsOrder(sets, R)
  <2> HIDE DEF sets
  <2> QED BY <1>1, SetsInOrder
<1>4. \A a, b \in sets : <<a, b>> \in R => SmallerFirst(a, b)
  <2> HIDE DEF sets
  <2> QED OBVIOUS
<1>5. \A a \in sets : \E w \in region : ConeLeaves(w) = a
  OBVIOUS
<1> HIDE DEF sets, R
<1>6. /\ n \in Nat /\ leafSets \in [1 .. n -> sets]
      /\ \A i, j \in 1 .. n : i < j => <<leafSets[i], leafSets[j]>> \in R
      /\ \A i, j \in 1 .. n : leafSets[i] = leafSets[j] => i = j
      /\ \A x \in sets : \E i \in 1 .. n : leafSets[i] = x
  BY <1>2, <1>3, InOrderIs
<1> HIDE DEF leafSets, n, pass
<1>7. P = [i \in DOMAIN leafSets |-> pass(having(leafSets[i]))]
  BY DEF PassesOfRegion, pass, leafSets, sets, R
<1>8. DOMAIN P = 1 .. n /\ \A i \in 1 .. n : P[i] = pass(having(leafSets[i]))
  BY <1>6, <1>7
<1>9. ASSUME NEW i \in 1 .. n
      PROVE  /\ PassOK(P[i]) /\ Range(P[i]) = having(leafSets[i]) /\ P[i] \in Seq(Cached)
  <2> DEFINE ws == having(leafSets[i])
  <2>1. /\ ws \in SUBSET Cached /\ ws # {}
        /\ \A v, w \in ws : ConeLeaves(v) = ConeLeaves(w)
    BY <1>5, <1>6
  <2> HIDE DEF ws
  <2>2. PassOK(pass(ws)) /\ Range(pass(ws)) = ws
    BY <2>1, PassInOrder DEF pass
  <2>3. P[i] = pass(ws)
    BY <1>8 DEF ws
  <2> QED BY <2>2, <2>3 DEF PassOK, ws
<1>10. P \in Seq(Seq(Cached))
  <2>1. P = [i \in 1 .. n |-> P[i]]
    BY <1>6, <1>7
  <2> HIDE DEF P
  <2> QED BY <1>6, <1>9, <2>1
<1> HIDE DEF P
<1>11. \A i \in 1 .. n, w \in region : w \in Range(P[i]) <=> ConeLeaves(w) = leafSets[i]
  BY <1>9
<1>12. Apart(P)
  <2> SUFFICES ASSUME NEW q \in 1 .. n, NEW r \in 1 .. n, NEW w \in Range(P[q]) \cap Range(P[r])
               PROVE  q = r
    BY <1>8 DEF Apart
  <2>1. w \in region
    BY <1>9
  <2> QED BY <1>6, <1>11, <2>1
<1>13. \A w \in region : \E r \in 1 .. n : w \in Range(P[r])
  BY <1>1, <1>6, <1>11
<1>14. ASSUME NEW q \in 1 .. n, NEW r \in 1 .. n, q < r, NEW v \in Range(P[q]), NEW w \in Range(P[r])
       PROVE  SmallerFirst(ConeLeaves(v), ConeLeaves(w))
  <2>1. ConeLeaves(v) = leafSets[q] /\ ConeLeaves(w) = leafSets[r]
    BY <1>9
  <2> QED BY <1>4, <1>6, <1>14, <2>1
<1>15. \A r \in 1 .. n : Range(P[r]) \subseteq region
  BY <1>9
<1> QED BY <1>8, <1>9, <1>10, <1>12, <1>13, <1>14, <1>15 DEF P
-----------------------------------------------------------------------------
(* The regions.                                                            *)
LEMMA CachedCount ==
    ASSUME DesignOK
    PROVE  Cardinality(Cached) \in Nat
<1>1. Cached \in SUBSET Names
  BY DesignFacts
<1> QED BY <1>1, GraphAssumption, FS_Subset, FS_CardinalityType

\* Walking away from a region does not come back into it.
LEMMA OutsideIs ==
    ASSUME DesignOK, NEW region \in SUBSET Cached, NEW next,
           \A w \in Cached : next[w] \subseteq Cached
    PROVE  Outside(region, next) \subseteq Cached \ region
<1> DEFINE N == Cardinality(Cached)
           S == SUBSET (Cached \ region)
           base == (UNION {next[w] : w \in region}) \ region
           more(X) == X \cup ((UNION {next[w] : w \in X}) \ region)
           go == [i \in 1 .. N |-> [X \in S |-> more(X)]]
           IsStep(g) == g = [i \in 0 .. N |-> IF i = 0 THEN base
                                ELSE LET reached == g[i - 1]
                                     IN  reached \cup ((UNION {next[w] : w \in reached}) \ region)]
<1>1. N \in Nat
  BY CachedCount
<1>2. base \in S /\ \A X \in S : more(X) \in S
  OBVIOUS
<1> HIDE DEF base, N, S
<1>3. go \in [1 .. N -> [S -> S]] /\ \A i \in 1 .. N, X \in S : go[i][X] = more(X)
  <2> HIDE DEF more
  <2> QED BY <1>2
<1> HIDE DEF go
<1>4. PICK f : IsRun(f, N, S, base, go)
  BY <1>1, <1>2, <1>3, Iterates
<1>5. IsStep(f)
  <2>1. ASSUME NEW i \in 0 .. N
        PROVE  f[i] = IF i = 0 THEN base ELSE more(f[i - 1])
    <3> HIDE DEF more
    <3>1. CASE i = 0
      BY <1>4, <3>1 DEF IsRun
    <3>2. CASE i # 0
      <4>1. i \in 1 .. N /\ i - 1 \in 0 .. N
        BY <1>1, <3>2
      <4> QED BY <1>3, <1>4, <3>2, <4>1 DEF IsRun
    <3> QED BY <3>1, <3>2
  <2>2. f = [i \in 0 .. N |-> f[i]]
    BY <1>4 DEF IsRun
  <2> QED BY <2>1, <2>2
<1> DEFINE step[i \in 0 .. N] ==
              IF i = 0 THEN base
              ELSE LET reached == step[i - 1]
                   IN  reached \cup ((UNION {next[w] : w \in reached}) \ region)
<1>6. IsStep(step)
  <2>1. \E g : IsStep(g)
    BY <1>5
  <2> QED BY <2>1, Zenon
<1>7. Outside(region, next) = step[N]
  BY Zenon DEF Outside, N, base
<1> HIDE DEF step
<1>8. 0 .. N \subseteq {i \in 0 .. N : step[i] \in S}
  <2> DEFINE A == {i \in 0 .. N : step[i] \in S}
  <2>1. \A i \in 0 .. N : step[i] = IF i = 0 THEN base ELSE more(step[i - 1])
    BY <1>6, Zenon
  <2> HIDE DEF more
  <2>2. 0 \in A
    <3>1. 0 \in 0 .. N
      BY <1>1
    <3> QED BY <1>2, <2>1, <3>1
  <2>3. ASSUME NEW i \in 0 .. N - 1, i \in A
        PROVE  i + 1 \in A
    <3>1. i + 1 \in 0 .. N /\ i + 1 # 0 /\ (i + 1) - 1 = i
      BY <1>1
    <3>2. step[i + 1] = more(step[i])
      BY <2>1, <3>1
    <3> QED BY <1>2, <2>3, <3>1, <3>2
  <2> HIDE DEF A
  <2>4. 0 .. N \subseteq A
    BY <1>1, <2>2, <2>3, UpTo
  <2> QED BY <2>4 DEF A
<1>9. N \in 0 .. N
  BY <1>1
<1>10. step[N] \in S
  BY <1>8, <1>9
<1> QED BY <1>7, <1>10 DEF S

\* Closing a region adds cached wires only.
LEMMA CloseIs ==
    ASSUME DesignOK, NEW region \in SUBSET Cached
    PROVE  Close(region) \subseteq Cached /\ region \subseteq Close(region)
<1> DEFINE N == Cardinality(Cached)
           S == {X \in SUBSET Cached : region \subseteq X}
           more(X) == X \cup (Outside(X, CachedDeps) \cap Outside(X, UsersOf))
           go == [i \in 1 .. N |-> [X \in S |-> more(X)]]
           IsStep(g) == g = [i \in 0 .. N |-> IF i = 0 THEN region
                                ELSE LET grown == g[i - 1]
                                     IN  grown \cup (Outside(grown, CachedDeps)
                                                        \cap Outside(grown, UsersOf))]
<1>1. N \in Nat
  BY CachedCount
<1>2. \A w \in Cached : CachedDeps[w] \subseteq Cached
  BY LeavesOfDeps
<1>3. region \in S /\ \A X \in S : more(X) \in S
  <2>1. \A X \in SUBSET Cached : Outside(X, CachedDeps) \subseteq Cached
    BY <1>2, OutsideIs
  <2> QED BY <2>1
<1> HIDE DEF N, S
<1>4. go \in [1 .. N -> [S -> S]] /\ \A i \in 1 .. N, X \in S : go[i][X] = more(X)
  <2> HIDE DEF more
  <2> QED BY <1>3
<1> HIDE DEF go
<1>5. PICK f : IsRun(f, N, S, region, go)
  BY <1>1, <1>3, <1>4, Iterates
<1>6. IsStep(f)
  <2>1. ASSUME NEW i \in 0 .. N
        PROVE  f[i] = IF i = 0 THEN region ELSE more(f[i - 1])
    <3> HIDE DEF more
    <3>1. CASE i = 0
      BY <1>5, <3>1 DEF IsRun
    <3>2. CASE i # 0
      <4>1. i \in 1 .. N /\ i - 1 \in 0 .. N
        BY <1>1, <3>2
      <4> QED BY <1>4, <1>5, <3>2, <4>1 DEF IsRun
    <3> QED BY <3>1, <3>2
  <2>2. f = [i \in 0 .. N |-> f[i]]
    BY <1>5 DEF IsRun
  <2> QED BY <2>1, <2>2
<1> DEFINE step[i \in 0 .. N] ==
              IF i = 0 THEN region
              ELSE LET grown == step[i - 1]
                   IN  grown \cup (Outside(grown, CachedDeps) \cap Outside(grown, UsersOf))
<1>7. IsStep(step)
  <2>1. \E g : IsStep(g)
    BY <1>6
  <2> QED BY <2>1, Zenon
<1>8. Close(region) = step[N]
  BY Zenon DEF Close, N
<1> HIDE DEF step
<1>9. 0 .. N \subseteq {i \in 0 .. N : step[i] \in S}
  <2> DEFINE A == {i \in 0 .. N : step[i] \in S}
  <2>1. \A i \in 0 .. N : step[i] = IF i = 0 THEN region ELSE more(step[i - 1])
    BY <1>7, Zenon
  <2> HIDE DEF more
  <2>2. 0 \in A
    <3>1. 0 \in 0 .. N
      BY <1>1
    <3> QED BY <1>3, <2>1, <3>1
  <2>3. ASSUME NEW i \in 0 .. N - 1, i \in A
        PROVE  i + 1 \in A
    <3>1. i + 1 \in 0 .. N /\ i + 1 # 0 /\ (i + 1) - 1 = i
      BY <1>1
    <3>2. step[i + 1] = more(step[i])
      BY <2>1, <3>1
    <3> QED BY <1>3, <2>3, <3>1, <3>2
  <2> HIDE DEF A
  <2>4. 0 .. N \subseteq A
    BY <1>1, <2>2, <2>3, UpTo
  <2> QED BY <2>4 DEF A
<1>10. N \in 0 .. N
  BY <1>1
<1>11. step[N] \in S
  BY <1>9, <1>10
<1> QED BY <1>8, <1>11 DEF S

\* Some number is least, and some pair is first.
LEMMA LeastNumber ==
    ASSUME NEW N \in Nat, NEW S \in SUBSET (1 .. N), S # {}
    PROVE  \E x \in S : \A y \in S : x <= y
<1> SUFFICES ASSUME \A x \in S : \E y \in S : ~(x <= y)
             PROVE  FALSE
  OBVIOUS
<1> DEFINE A == {k \in 0 .. N : \A x \in S : x > k}
<1>1. 0 \in A
  OBVIOUS
<1>2. ASSUME NEW k \in 0 .. N - 1, k \in A
      PROVE  k + 1 \in A
  <2>1. \A x \in S : x \in Int /\ x > k
    BY <1>2
  <2>2. k + 1 \notin S
    BY <2>1
  <2> QED BY <2>1, <2>2
<1>3. 0 .. N \subseteq A
  <2> HIDE DEF A
  <2> QED BY <1>1, <1>2, UpTo
<1>4. N \in A
  <2>1. N \in 0 .. N
    OBVIOUS
  <2> HIDE DEF A
  <2> QED BY <1>3, <2>1
<1>5. PICK x : x \in S
  OBVIOUS
<1>6. x > N /\ x \in 1 .. N
  BY <1>4, <1>5
<1> QED BY <1>6

\* Pairs of numbers have a first one.
LEMMA FirstPair ==
    ASSUME NEW N \in Nat, NEW pairs \in SUBSET ((1 .. N) \X (1 .. N)), pairs # {}
    PROVE  \E p \in pairs : \A q \in pairs : p[1] < q[1] \/ (p[1] = q[1] /\ p[2] <= q[2])
<1> DEFINE I == {i \in 1 .. N : \E p \in pairs : p[1] = i}
<1>1. I \in SUBSET (1 .. N) /\ I # {} /\ \A p \in pairs : p[1] \in I
  OBVIOUS
<1>2. PICK i \in I : \A k \in I : i <= k
  <2> HIDE DEF I
  <2> QED BY <1>1, LeastNumber
<1> DEFINE J == {j \in 1 .. N : \E p \in pairs : p[1] = i /\ p[2] = j}
<1>3. J \in SUBSET (1 .. N) /\ J # {} /\ \A p \in pairs : p[1] = i => p[2] \in J
  BY <1>2
<1>4. PICK j \in J : \A k \in J : j <= k
  <2> HIDE DEF J
  <2> QED BY <1>3, LeastNumber
<1>5. PICK p \in pairs : p[1] = i /\ p[2] = j
  BY <1>4
<1>6. ASSUME NEW q \in pairs
      PROVE  p[1] < q[1] \/ (p[1] = q[1] /\ p[2] <= q[2])
  <2>1. q[1] \in I /\ i <= q[1] /\ i \in Int /\ q[1] \in Int
    BY <1>1, <1>2
  <2> HIDE DEF I, J
  <2>2. q[1] = i => j <= q[2]
    BY <1>3, <1>4
  <2> QED BY <1>5, <2>1, <2>2
<1> QED BY <1>6

Untangled(sets) == \A i, j \in DOMAIN sets : i < j => ~Entangled(sets[i], sets[j])
Covers(sets, w) == \E i \in DOMAIN sets : w \in sets[i]

\* A merge loses no wire and shortens the list, until no two regions are entangled.
LEMMA MergeIs ==
    ASSUME DesignOK, NEW sets \in Seq(SUBSET Cached)
    PROVE  /\ MergeFirst(sets) \in Seq(SUBSET Cached)
           /\ \/ MergeFirst(sets) = sets /\ Untangled(sets)
              \/ Len(MergeFirst(sets)) = Len(sets) - 1
           /\ \A w : Covers(sets, w) => Covers(MergeFirst(sets), w)
<1> DEFINE n == Len(sets)
           pairs == {p \in (DOMAIN sets) \X (DOMAIN sets) :
                        p[1] < p[2] /\ Entangled(sets[p[1]], sets[p[2]])}
           first == CHOOSE p \in pairs :
                       \A q \in pairs : p[1] < q[1] \/ (p[1] = q[1] /\ p[2] <= q[2])
           merged == [sets EXCEPT ![first[1]] = Close(@ \cup sets[first[2]])]
<1>1. n \in Nat /\ DOMAIN sets = 1 .. n
  OBVIOUS
<1>2. MergeFirst(sets) = IF pairs = {} THEN sets ELSE RemoveAt(merged, first[2])
  BY DEF MergeFirst
<1>3. CASE pairs = {}
  <2>1. MergeFirst(sets) = sets
    BY <1>2, <1>3
  <2>2. ASSUME NEW i \in DOMAIN sets, NEW j \in DOMAIN sets, i < j, Entangled(sets[i], sets[j])
        PROVE  FALSE
    <3>1. <<i, j>> \in pairs
      BY <2>2
    <3> QED BY <1>3, <3>1
  <2>3. Untangled(sets)
    BY <2>2 DEF Untangled
  <2> HIDE DEF pairs, first, merged
  <2> QED BY <2>1, <2>3
<1>4. CASE pairs # {}
  <2>1. first \in pairs
    <3>1. pairs \in SUBSET ((1 .. n) \X (1 .. n))
      BY <1>1
    <3>2. \E p \in pairs : \A q \in pairs : p[1] < q[1] \/ (p[1] = q[1] /\ p[2] <= q[2])
      <4> HIDE DEF pairs, n
      <4> QED BY <1>1, <1>4, <3>1, FirstPair
    <3> HIDE DEF pairs
    <3> QED BY <3>2
  <2> DEFINE i == first[1]
             j == first[2]
             u == Close(sets[i] \cup sets[j])
  <2>2. i \in 1 .. n /\ j \in 1 .. n /\ i < j
    <3> HIDE DEF first
    <3> QED BY <1>1, <2>1
  <2> HIDE DEF first, pairs
  <2>3. sets[i] \in SUBSET Cached /\ sets[j] \in SUBSET Cached
    BY <1>1, <2>2
  <2>4. u \in SUBSET Cached /\ sets[i] \cup sets[j] \subseteq u
    BY <2>3, CloseIs
  <2>5. merged = [sets EXCEPT ![i] = u]
    OBVIOUS
  <2> HIDE DEF u, i, j, merged, n
  <2>6. /\ merged \in Seq(SUBSET Cached) /\ Len(merged) = n
        /\ \A k \in 1 .. n : merged[k] = IF k = i THEN u ELSE sets[k]
    BY <1>1, <2>2, <2>4, <2>5, ExceptSeq DEF n
  <2> DEFINE a == SubSeq(merged, 1, j - 1)
             b == SubSeq(merged, j + 1, n)
  <2>7. /\ a \in Seq(SUBSET Cached) /\ Len(a) = j - 1
        /\ \A k \in 1 .. j - 1 : a[k] = merged[k]
    <3>1. \A k \in 1 .. j - 1 : merged[k] \in SUBSET Cached
      BY <1>1, <2>2, <2>6
    <3>2. /\ a \in Seq(SUBSET Cached) /\ Len(a) = IF 1 <= j - 1 THEN (j - 1) - 1 + 1 ELSE 0
          /\ \A k \in 1 .. (j - 1) - 1 + 1 : a[k] = merged[1 + k - 1]
      BY <1>1, <2>2, <3>1, SubSeqProperties
    <3> QED BY <1>1, <2>2, <3>2
  <2>8. /\ b \in Seq(SUBSET Cached) /\ Len(b) = n - j
        /\ \A k \in 1 .. n - j : b[k] = merged[j + k]
    <3>1. \A k \in j + 1 .. n : merged[k] \in SUBSET Cached
      BY <1>1, <2>2, <2>6
    <3>2. /\ b \in Seq(SUBSET Cached) /\ Len(b) = IF j + 1 <= n THEN n - (j + 1) + 1 ELSE 0
          /\ \A k \in 1 .. n - (j + 1) + 1 : b[k] = merged[(j + 1) + k - 1]
      BY <1>1, <2>2, <3>1, SubSeqProperties
    <3> QED BY <1>1, <2>2, <3>2
  <2>9. MergeFirst(sets) = a \o b
    BY <1>2, <1>4, <2>6 DEF RemoveAt, j
  <2> HIDE DEF a, b
  <2>10. /\ a \o b \in Seq(SUBSET Cached) /\ Len(a \o b) = Len(a) + Len(b)
         /\ \A k \in 1 .. Len(a) + Len(b) : (a \o b)[k] = IF k <= Len(a) THEN a[k] ELSE b[k - Len(a)]
    BY <2>7, <2>8, ConcatProperties
  <2> DEFINE c == a \o b
  <2>11. Len(c) = n - 1 /\ c \in Seq(SUBSET Cached) /\ DOMAIN c = 1 .. n - 1
    <3>1. c \in Seq(SUBSET Cached) /\ Len(c) = Len(a) + Len(b)
      BY <2>10
    <3>2. Len(a) + Len(b) = n - 1
      BY <1>1, <2>2, <2>7, <2>8
    <3> HIDE DEF c
    <3> QED BY <3>1, <3>2, LenProperties
  <2>12. /\ \A k \in 1 .. j - 1 : c[k] = merged[k]
         /\ \A k \in j + 1 .. n : c[k - 1] = merged[k]
    <3>1. ASSUME NEW k \in 1 .. j - 1 PROVE c[k] = merged[k]
      <4>1. k \in 1 .. Len(a) + Len(b) /\ k <= Len(a)
        BY <1>1, <2>2, <2>7, <2>8
      <4> QED BY <2>7, <2>10, <4>1
    <3>2. ASSUME NEW k \in j + 1 .. n PROVE c[k - 1] = merged[k]
      <4>1. k - 1 \in 1 .. Len(a) + Len(b) /\ ~(k - 1 <= Len(a)) /\ k - j \in 1 .. n - j
            /\ (k - 1) - Len(a) = k - j /\ j + (k - j) = k
        BY <1>1, <2>2, <2>7, <2>8
      <4> QED BY <2>8, <2>10, <4>1
    <3> QED BY <3>1, <3>2
  <2> HIDE DEF c
  <2>13. ASSUME NEW w, NEW k \in 1 .. n, w \in sets[k]
         PROVE  \E m \in DOMAIN c : w \in c[m]
    <3>1. CASE k = i \/ k = j
      <4>1. i \in 1 .. j - 1 /\ i \in DOMAIN c /\ merged[i] = u
        BY <1>1, <2>2, <2>6, <2>11
      <4>2. w \in c[i]
        BY <2>4, <2>12, <2>13, <3>1, <4>1
      <4> QED BY <4>1, <4>2
    <3>2. CASE k # i /\ k < j
      <4>1. k \in 1 .. j - 1 /\ k \in DOMAIN c /\ merged[k] = sets[k]
        BY <1>1, <2>2, <2>6, <2>11, <3>2
      <4> QED BY <2>12, <2>13, <4>1
    <3>3. CASE k # i /\ k > j
      <4>1. k \in j + 1 .. n /\ k - 1 \in DOMAIN c /\ merged[k] = sets[k]
        BY <1>1, <2>2, <2>6, <2>11, <3>3
      <4> QED BY <2>12, <2>13, <4>1
    <3> QED BY <2>2, <3>1, <3>2, <3>3
  <2>14. \A w : Covers(sets, w) => Covers(c, w)
    BY <1>1, <2>13 DEF Covers
  <2> QED BY <2>9, <2>11, <2>14 DEF c, n
<1> HIDE DEF pairs
<1> QED BY <1>3, <1>4

\* The ranks of a grouping are finitely many and ordered.
LEMMA GroupsAre ==
    ASSUME DesignOK, NEW grouping, GroupingOK(grouping), NEW ranks,
           ranks = {grouping[w] : w \in DOMAIN grouping}
    PROVE  /\ IsFiniteSet(ranks)
           /\ IsOrder(ranks, {p \in ranks \X ranks : p[1] < p[2]})
<1> DEFINE D == DOMAIN grouping
           R == {p \in ranks \X ranks : p[1] < p[2]}
<1>1. D \in SUBSET Names /\ \A w \in D : grouping[w] \in Int
  BY DesignFacts DEF GroupingOK
<1>2. IsFiniteSet(D)
  BY <1>1, GraphAssumption, FS_Subset
<1>3. grouping \in Surjection(D, ranks)
  <2>1. grouping \in [D -> ranks] /\ \A k \in ranks : \E w \in D : grouping[w] = k
    BY DEF GroupingOK
  <2> HIDE DEF D
  <2> QED BY <2>1 DEF Surjection
<1>4. IsFiniteSet(ranks)
  BY <1>2, <1>3, FS_Surjection
<1>5. ranks \subseteq Int
  BY <1>1
<1>6. \A x, y \in ranks : <<x, y>> \in R <=> x < y
  OBVIOUS
<1> HIDE DEF R
<1>7. IsOrder(ranks, R)
  BY <1>5, <1>6 DEF IsOrder
<1> QED BY <1>4, <1>7 DEF R

\* Nothing is merged once no two regions are entangled.
LEMMA UntangledStays ==
    ASSUME NEW sets, Untangled(sets)
    PROVE  MergeFirst(sets) = sets
<1> DEFINE pairs == {p \in (DOMAIN sets) \X (DOMAIN sets) :
                        p[1] < p[2] /\ Entangled(sets[p[1]], sets[p[2]])}
           first == CHOOSE p \in pairs :
                       \A q \in pairs : p[1] < q[1] \/ (p[1] = q[1] /\ p[2] <= q[2])
<1>1. pairs = {}
  BY DEF Untangled
<1>2. MergeFirst(sets) = IF pairs = {} THEN sets
                         ELSE RemoveAt([sets EXCEPT ![first[1]] = Close(@ \cup sets[first[2]])], first[2])
  BY DEF MergeFirst
<1> HIDE DEF pairs, first
<1> QED BY <1>1, <1>2

\* In the end no two regions share a wire or read each other, and every wire that
\* matches is in one of them.
LEMMA RegionsAre ==
    ASSUME DesignOK, NEW grouping, GroupingOK(grouping)
    PROVE  /\ RegionsOf(grouping) \in Seq(SUBSET Cached)
           /\ Untangled(RegionsOf(grouping))
           /\ \A w \in DOMAIN grouping : Covers(RegionsOf(grouping), w)
           /\ Len(RegionsOf(grouping)) <= Cardinality({grouping[w] : w \in DOMAIN grouping})
<1> DEFINE ranks == {grouping[w] : w \in DOMAIN grouping}
           keys == InOrder(ranks, {p \in ranks \X ranks : p[1] < p[2]})
           n == Cardinality(ranks)
           seed(k) == Close({w \in DOMAIN grouping : grouping[w] = k})
           seeds == [i \in DOMAIN keys |-> seed(keys[i])]
           S == Seq(SUBSET Cached)
           go == [i \in 1 .. n |-> [x \in S |-> MergeFirst(x)]]
           IsStep(g) == g = [i \in 0 .. Len(keys) |-> IF i = 0 THEN seeds ELSE MergeFirst(g[i - 1])]
<1>1. \A w \in DOMAIN grouping : grouping[w] \in ranks
  OBVIOUS
<1>2. /\ n \in Nat /\ keys \in [1 .. n -> ranks]
      /\ \A x \in ranks : \E i \in 1 .. n : keys[i] = x
  <2>1. ranks = {grouping[w] : w \in DOMAIN grouping}
    OBVIOUS
  <2> HIDE DEF ranks
  <2> DEFINE R == {p \in ranks \X ranks : p[1] < p[2]}
  <2>2. IsFiniteSet(ranks) /\ IsOrder(ranks, R)
    BY <2>1, GroupsAre
  <2> HIDE DEF R
  <2>3. /\ Cardinality(ranks) \in Nat
        /\ InOrder(ranks, R) \in [1 .. Cardinality(ranks) -> ranks]
        /\ \A x \in ranks : \E i \in 1 .. Cardinality(ranks) : InOrder(ranks, R)[i] = x
    BY <2>2, InOrderIs
  <2> QED BY <2>3 DEF R
<1> HIDE DEF ranks, keys, n
<1>3. Len(keys) = n /\ DOMAIN keys = 1 .. n
  BY <1>2
<1>4. \A k : seed(k) \in SUBSET Cached /\ {w \in DOMAIN grouping : grouping[w] = k} \subseteq seed(k)
  <2> TAKE k
  <2>1. {w \in DOMAIN grouping : grouping[w] = k} \in SUBSET Cached
    BY DEF GroupingOK
  <2> QED BY <2>1, CloseIs
<1> HIDE DEF seed
<1>5. seeds \in S /\ Len(seeds) = n /\ DOMAIN seeds = 1 .. n /\ \A i \in 1 .. n : seeds[i] = seed(keys[i])
  BY <1>2, <1>3, <1>4
<1>6. \A w \in DOMAIN grouping : Covers(seeds, w)
  <2> TAKE w \in DOMAIN grouping
  <2>1. PICK i \in 1 .. n : keys[i] = grouping[w]
    BY <1>1, <1>2
  <2>2. w \in seed(keys[i])
    BY <1>4, <2>1
  <2> HIDE DEF seeds
  <2> QED BY <1>5, <2>1, <2>2 DEF Covers
<1> HIDE DEF seeds
<1>7. \A x \in S : MergeFirst(x) \in S
  BY MergeIs
<1> HIDE DEF S
<1>8. go \in [1 .. n -> [S -> S]] /\ \A i \in 1 .. n, x \in S : go[i][x] = MergeFirst(x)
  BY <1>7
<1> HIDE DEF go
<1>9. PICK f : IsRun(f, n, S, seeds, go)
  BY <1>2, <1>5, <1>8, Iterates
<1>10. IsStep(f)
  <2>1. ASSUME NEW i \in 0 .. n
        PROVE  f[i] = IF i = 0 THEN seeds ELSE MergeFirst(f[i - 1])
    <3>1. CASE i = 0
      BY <1>9, <3>1 DEF IsRun
    <3>2. CASE i # 0
      <4>1. i \in 1 .. n /\ i - 1 \in 0 .. n
        BY <1>2, <3>2
      <4> QED BY <1>8, <1>9, <3>2, <4>1 DEF IsRun
    <3> QED BY <3>1, <3>2
  <2>2. f = [i \in 0 .. n |-> f[i]]
    BY <1>9 DEF IsRun
  <2> QED BY <1>3, <2>1, <2>2
<1> DEFINE step[i \in 0 .. Len(keys)] == IF i = 0 THEN seeds ELSE MergeFirst(step[i - 1])
<1>11. IsStep(step)
  <2>1. \E g : IsStep(g)
    BY <1>10
  <2> QED BY <2>1, Zenon
<1>12. RegionsOf(grouping) = step[Len(keys)]
  BY Zenon DEF RegionsOf, seeds, seed, keys, ranks
<1> HIDE DEF step
<1> DEFINE A == {i \in 0 .. n : /\ step[i] \in S
                                /\ Len(step[i]) <= n
                                /\ Untangled(step[i]) \/ Len(step[i]) <= n - i
                                /\ \A w \in DOMAIN grouping : Covers(step[i], w)}
<1>13. n \in A
  <2>1. \A i \in 0 .. n : step[i] = IF i = 0 THEN seeds ELSE MergeFirst(step[i - 1])
    BY <1>3, <1>11, Zenon
  <2>2. 0 \in A
    <3>1. 0 \in 0 .. n /\ n - 0 = n /\ n <= n
      BY <1>2
    <3>2. step[0] = seeds
      BY <2>1, <3>1
    <3> QED BY <1>5, <1>6, <3>1, <3>2
  <2>3. ASSUME NEW i \in 0 .. n - 1, i \in A
        PROVE  i + 1 \in A
    <3>1. i + 1 \in 0 .. n /\ i + 1 # 0 /\ (i + 1) - 1 = i /\ i \in 0 .. n
      BY <1>2
    <3>2. step[i + 1] = MergeFirst(step[i])
      BY <2>1, <3>1
    <3> DEFINE x == step[i]
               y == step[i + 1]
    <3>3. /\ x \in S /\ Len(x) <= n
          /\ Untangled(x) \/ Len(x) <= n - i
          /\ \A w \in DOMAIN grouping : Covers(x, w)
      BY <2>3
    <3>4. y = MergeFirst(x)
      BY <3>2
    <3> HIDE DEF x, y
    <3>5. /\ y \in S /\ \A w : Covers(x, w) => Covers(y, w)
          /\ (y = x /\ Untangled(x)) \/ Len(y) = Len(x) - 1
          /\ Len(x) \in Nat /\ Len(y) \in Nat
      BY <3>3, <3>4, MergeIs, LenProperties DEF S
    <3>6. Len(y) <= n /\ (Untangled(y) \/ Len(y) <= n - (i + 1))
      <4>1. CASE y = x /\ Untangled(x)
        BY <3>3, <4>1
      <4>2. CASE Len(y) = Len(x) - 1
        <5>1. Len(y) <= n
          BY <1>2, <3>3, <3>5, <4>2
        <5>2. CASE Len(x) <= n - i
          <6>1. Len(y) <= n - (i + 1)
            BY <1>2, <3>1, <3>5, <4>2, <5>2
          <6> QED BY <5>1, <6>1
        <5>3. CASE Untangled(x)
          <6>1. y = x
            BY <3>4, <5>3, UntangledStays
          <6> QED BY <5>1, <5>3, <6>1
        <5> QED BY <3>3, <5>2, <5>3
      <4> QED BY <3>5, <4>1, <4>2
    <3> QED BY <3>1, <3>3, <3>5, <3>6 DEF y
  <2> HIDE DEF A
  <2>4. 0 .. n \subseteq A
    BY <1>2, <2>2, <2>3, UpTo
  <2>5. n \in 0 .. n
    BY <1>2
  <2> QED BY <2>4, <2>5
<1> DEFINE z == RegionsOf(grouping)
<1>14. /\ z \in S /\ Len(z) <= n
       /\ Untangled(z) \/ Len(z) <= n - n
       /\ \A w \in DOMAIN grouping : Covers(z, w)
  BY <1>3, <1>12, <1>13
<1> HIDE DEF z
<1>15. Untangled(z)
  <2>1. Len(z) \in Nat /\ DOMAIN z = 1 .. Len(z)
    BY <1>14, LenProperties DEF S
  <2>2. CASE Len(z) <= n - n
    <3>1. DOMAIN z = {}
      BY <1>2, <2>1, <2>2
    <3> QED BY <3>1 DEF Untangled
  <2> QED BY <1>14, <2>2
<1> QED BY <1>14, <1>15 DEF S, z, n, ranks
-----------------------------------------------------------------------------
(* All passes.                                                             *)
LEMMA FlattenIs ==
    ASSUME NEW X, NEW seqs \in Seq(Seq(X)), Len(seqs) # 0
    PROVE  \E f \in [1 .. Len(seqs) -> Seq(X)] :
              /\ FlattenSeq(seqs) = f[Len(seqs)] /\ f[1] = seqs[1]
              /\ \A i \in 2 .. Len(seqs) : f[i] = f[i - 1] \o seqs[i]
<1> DEFINE n == Len(seqs)
           S == Seq(X)
           go == [i \in 1 .. n - 1 |-> [x \in S |-> x \o seqs[i + 1]]]
           IsFlatten(g) == g = [i \in 1 .. n |-> IF i = 1 THEN seqs[i] ELSE g[i - 1] \o seqs[i]]
<1>1. n \in Nat /\ n # 0 /\ \A i \in 1 .. n : seqs[i] \in S
  OBVIOUS
<1>2. \A i \in 1 .. n - 1, x \in S : x \o seqs[i + 1] \in S
  <2> TAKE i \in 1 .. n - 1, x \in S
  <2>1. i + 1 \in 1 .. n
    BY <1>1
  <2>2. seqs[i + 1] \in Seq(X)
    BY <1>1, <2>1
  <2> QED BY <2>2, ConcatProperties
<1> HIDE DEF n, S
<1>3. go \in [1 .. n - 1 -> [S -> S]]
      /\ \A i \in 1 .. n - 1, x \in S : go[i][x] = x \o seqs[i + 1]
  BY <1>2
<1> HIDE DEF go
<1>4. n - 1 \in Nat /\ seqs[1] \in S
  BY <1>1
<1>5. PICK f : IsRun(f, n - 1, S, seqs[1], go)
  BY <1>3, <1>4, Iterates
<1> DEFINE g == [i \in 1 .. n |-> f[i - 1]]
<1>6. \A i \in 1 .. n : g[i] = (IF i = 1 THEN seqs[i] ELSE g[i - 1] \o seqs[i]) /\ g[i] \in S
  <2> TAKE i \in 1 .. n
  <2>1. CASE i = 1
    <3>1. g[i] = f[0]
      BY <1>1, <2>1
    <3> QED BY <1>4, <1>5, <2>1, <3>1 DEF IsRun
  <2>2. CASE i # 1
    <3>1. /\ i - 1 \in 1 .. n - 1 /\ i - 1 \in 1 .. n /\ i - 1 \in 0 .. n - 1
          /\ (i - 1) - 1 \in 0 .. n - 1 /\ (i - 1) + 1 = i
      BY <1>1, <2>2
    <3>2. g[i] = f[i - 1] /\ g[i - 1] = f[(i - 1) - 1]
      BY <3>1
    <3> HIDE DEF g
    <3>3. f[i - 1] = go[i - 1][f[(i - 1) - 1]] /\ f[(i - 1) - 1] \in S /\ f[i - 1] \in S
      BY <1>5, <3>1 DEF IsRun
    <3>4. f[i - 1] = f[(i - 1) - 1] \o seqs[(i - 1) + 1]
      BY <1>3, <3>1, <3>3
    <3> QED BY <2>2, <3>1, <3>2, <3>3, <3>4
  <2> QED BY <2>1, <2>2
<1>7. g = [i \in 1 .. n |-> g[i]]
  OBVIOUS
<1> HIDE DEF g
<1>8. IsFlatten(g)
  BY <1>6, <1>7
<1> DEFINE flatten[i \in 1 .. n] == IF i = 1 THEN seqs[i] ELSE flatten[i - 1] \o seqs[i]
<1>9. IsFlatten(flatten)
  <2>1. \E h : IsFlatten(h)
    BY <1>8
  <2> QED BY <2>1, Zenon
<1>10. FlattenSeq(seqs) = flatten[n]
  BY <1>1, Zenon DEF FlattenSeq, n
<1> HIDE DEF flatten
<1>11. /\ \A i \in 1 .. n : flatten[i] = IF i = 1 THEN seqs[i] ELSE flatten[i - 1] \o seqs[i]
       /\ flatten = [i \in 1 .. n |-> IF i = 1 THEN seqs[i] ELSE flatten[i - 1] \o seqs[i]]
  BY <1>9, Zenon
<1>12. \A i \in 1 .. n : flatten[i] \in S
  <2> DEFINE A == {i \in 0 .. n - 1 : flatten[i + 1] \in S}
  <2>1. 0 \in A
    <3>1. 0 \in 0 .. n - 1 /\ 0 + 1 = 1 /\ 1 \in 1 .. n
      BY <1>1
    <3>2. flatten[1] = seqs[1]
      BY <1>11, <3>1
    <3> QED BY <1>4, <3>1, <3>2
  <2>2. ASSUME NEW i \in 0 .. (n - 1) - 1, i \in A
        PROVE  i + 1 \in A
    <3>1. /\ i + 1 \in 0 .. n - 1 /\ i + 1 \in 1 .. n - 1 /\ (i + 1) + 1 \in 1 .. n
          /\ (i + 1) + 1 # 1 /\ ((i + 1) + 1) - 1 = i + 1
      BY <1>1
    <3>2. flatten[(i + 1) + 1] = flatten[i + 1] \o seqs[(i + 1) + 1]
      BY <1>11, <3>1
    <3> QED BY <1>2, <2>2, <3>1, <3>2
  <2> HIDE DEF A
  <2>3. 0 .. n - 1 \subseteq A
    BY <1>4, <2>1, <2>2, UpTo
  <2> TAKE i \in 1 .. n
  <2>4. i - 1 \in 0 .. n - 1 /\ (i - 1) + 1 = i
    BY <1>1
  <2>5. i - 1 \in A
    BY <2>3, <2>4
  <2> QED BY <2>4, <2>5 DEF A
<1>13. flatten \in [1 .. n -> S]
  <2>1. flatten = [i \in 1 .. n |-> flatten[i]]
    BY <1>11
  <2> QED BY <1>12, <2>1
<1>14. flatten[1] = seqs[1] /\ \A i \in 2 .. n : flatten[i] = flatten[i - 1] \o seqs[i]
  <2>1. 1 \in 1 .. n
    BY <1>1
  <2>2. flatten[1] = seqs[1]
    BY <1>11, <2>1
  <2>3. ASSUME NEW i \in 2 .. n
        PROVE  flatten[i] = flatten[i - 1] \o seqs[i]
    <3>1. i \in 1 .. n /\ i # 1
      BY <1>1
    <3> QED BY <1>11, <3>1
  <2> QED BY <2>2, <2>3
<1> QED BY <1>10, <1>13, <1>14 DEF n, S

\* Passes after the passes of other wires.
LEMMA MorePasses ==
    ASSUME NEW a \in Seq(Seq(Cached)), NEW b \in Seq(Seq(Cached)), Apart(a), Apart(b),
           \A q \in DOMAIN a, r \in DOMAIN b : Range(a[q]) \cap Range(b[r]) = {}
    PROVE  /\ a \o b \in Seq(Seq(Cached)) /\ Apart(a \o b)
           /\ \A r \in DOMAIN (a \o b) :
                 \/ \E q \in DOMAIN a : (a \o b)[r] = a[q]
                 \/ \E q \in DOMAIN b : (a \o b)[r] = b[q]
           /\ \A q \in DOMAIN a : \E r \in DOMAIN (a \o b) : (a \o b)[r] = a[q]
           /\ \A q \in DOMAIN b : \E r \in DOMAIN (a \o b) : (a \o b)[r] = b[q]
<1> DEFINE c == a \o b
           m == Len(a)
           n == Len(b)
<1>1. m \in Nat /\ n \in Nat /\ DOMAIN a = 1 .. m /\ DOMAIN b = 1 .. n
  OBVIOUS
<1>2. /\ c \in Seq(Seq(Cached)) /\ Len(c) = m + n
      /\ \A k \in 1 .. m + n : c[k] = IF k <= m THEN a[k] ELSE b[k - m]
  BY ConcatProperties
<1> HIDE DEF c, m, n
<1>3. DOMAIN c = 1 .. m + n
  BY <1>2, LenProperties
<1>4. \A k \in 1 .. m + n : \/ k <= m /\ k \in DOMAIN a /\ c[k] = a[k]
                            \/ ~(k <= m) /\ k - m \in DOMAIN b /\ c[k] = b[k - m]
  BY <1>1, <1>2
<1>5. Apart(c)
  <2> SUFFICES ASSUME NEW q \in 1 .. m + n, NEW r \in 1 .. m + n, Range(c[q]) \cap Range(c[r]) # {}
               PROVE  q = r
    BY <1>3 DEF Apart
  <2>1. CASE q <= m /\ r <= m
    BY <1>4, <2>1 DEF Apart
  <2>2. CASE ~(q <= m) /\ ~(r <= m)
    <3>1. q - m = r - m
      BY <1>4, <2>2 DEF Apart
    <3> QED BY <1>1, <3>1
  <2>3. CASE q <= m /\ ~(r <= m)
    BY <1>4, <2>3
  <2>4. CASE ~(q <= m) /\ r <= m
    <3>1. Range(c[r]) \cap Range(c[q]) = {}
      BY <1>4, <2>4
    <3> QED BY <3>1
  <2> QED BY <2>1, <2>2, <2>3, <2>4
<1>6. \A q \in DOMAIN a : q \in DOMAIN c /\ c[q] = a[q]
  BY <1>1, <1>2, <1>3
<1>7. \A q \in DOMAIN b : q + m \in DOMAIN c /\ c[q + m] = b[q]
  <2> TAKE q \in DOMAIN b
  <2>1. q + m \in 1 .. m + n /\ ~(q + m <= m) /\ (q + m) - m = q
    BY <1>1
  <2> QED BY <1>2, <1>3, <2>1
<1> QED BY <1>2, <1>3, <1>4, <1>5, <1>6, <1>7 DEF c

\* The passes of regions that share no wire, one region after another.
LEMMA RegionsFlatten ==
    ASSUME DesignOK, NamesSorted, NEW regions \in Seq(SUBSET Cached), Untangled(regions),
           NEW passes, passes = FlattenSeq([i \in DOMAIN regions |-> PassesOfRegion(regions[i])])
    PROVE  /\ passes \in Seq(Seq(Cached)) /\ Apart(passes)
           /\ \A r \in DOMAIN passes : PassOK(passes[r])
           /\ \A w : Covers(regions, w) => \E r \in DOMAIN passes : w \in Range(passes[r])
           /\ Len(regions) = 0 => passes = <<>>
           /\ Len(regions) = 1 => passes = PassesOfRegion(regions[1])
<1> DEFINE n == Len(regions)
           seqs == [i \in DOMAIN regions |-> PassesOfRegion(regions[i])]
<1>1. n \in Nat /\ DOMAIN regions = 1 .. n /\ \A i \in 1 .. n : regions[i] \in SUBSET Cached
  OBVIOUS
<1>2. \A i \in 1 .. n : seqs[i] = PassesOfRegion(regions[i])
  BY <1>1
<1>3. \A i \in 1 .. n :
         /\ seqs[i] \in Seq(Seq(Cached))
         /\ \A r \in DOMAIN seqs[i] : PassOK(seqs[i][r]) /\ Range(seqs[i][r]) \subseteq regions[i]
         /\ Apart(seqs[i])
         /\ \A w \in regions[i] : \E r \in DOMAIN seqs[i] : w \in Range(seqs[i][r])
  <2> TAKE i \in 1 .. n
  <2> HIDE DEF seqs
  <2> QED BY <1>1, <1>2, RegionPasses
<1>4. seqs \in Seq(Seq(Seq(Cached))) /\ Len(seqs) = n /\ DOMAIN seqs = 1 .. n
  <2>1. seqs = [i \in 1 .. n |-> PassesOfRegion(regions[i])]
    BY <1>1
  <2>2. \A i \in 1 .. n : PassesOfRegion(regions[i]) \in Seq(Seq(Cached))
    BY <1>2, <1>3
  <2> QED BY <1>1, <2>1, <2>2
<1>5. passes = FlattenSeq(seqs)
  OBVIOUS
<1>6. \A i, j \in 1 .. n : i # j => regions[i] \cap regions[j] = {}
  BY <1>1 DEF Untangled, Entangled
<1> HIDE DEF n, seqs
<1>7. CASE n = 0
  <2>1. FlattenSeq(seqs) = <<>>
    <3>1. Len(seqs) = 0 /\ seqs = <<>>
      BY <1>4, <1>7
    <3>2. FlattenSeq(seqs) = seqs
      BY <3>1, Zenon DEF FlattenSeq
    <3> QED BY <3>1, <3>2
  <2>2. passes = <<>> /\ \A w : ~Covers(regions, w)
    BY <1>1, <1>5, <1>7, <2>1 DEF Covers
  <2>3. /\ passes \in Seq(Seq(Cached)) /\ Apart(passes)
        /\ \A r \in DOMAIN passes : PassOK(passes[r])
    <3>1. passes \in Seq(Seq(Cached))
      BY <2>2
    <3>2. DOMAIN passes = {}
      BY <2>2
    <3> QED BY <3>1, <3>2 DEF Apart
  <2> QED BY <1>1, <1>7, <2>2, <2>3 DEF n
<1>8. CASE n # 0
  <2>1. PICK f \in [1 .. n -> Seq(Seq(Cached))] :
           /\ FlattenSeq(seqs) = f[n] /\ f[1] = seqs[1]
           /\ \A i \in 2 .. n : f[i] = f[i - 1] \o seqs[i]
    BY <1>4, <1>8, FlattenIs
  <2> DEFINE InUpTo(i, w) == \E j \in 1 .. i : w \in regions[j]
             Good(i) == /\ f[i] \in Seq(Seq(Cached)) /\ Apart(f[i])
                        /\ \A r \in DOMAIN f[i] :
                              PassOK(f[i][r]) /\ \A w \in Range(f[i][r]) : InUpTo(i, w)
                        /\ \A w : InUpTo(i, w) => \E r \in DOMAIN f[i] : w \in Range(f[i][r])
             A == {i \in 0 .. n - 1 : Good(i + 1)}
  <2>2. 0 \in A
    <3>1. 0 \in 0 .. n - 1 /\ 0 + 1 = 1 /\ 1 \in 1 .. n
      BY <1>1, <1>8
    <3>2. \A w : InUpTo(1, w) <=> w \in regions[1]
      OBVIOUS
    <3> HIDE DEF InUpTo
    <3>3. Good(1)
      BY <1>3, <2>1, <3>1, <3>2
    <3> QED BY <3>1, <3>3
  <2>3. ASSUME NEW i \in 0 .. (n - 1) - 1, i \in A
        PROVE  i + 1 \in A
    <3> DEFINE m == i + 1
    <3>1. /\ i + 1 \in 0 .. n - 1 /\ m \in 1 .. n /\ m + 1 \in 2 .. n /\ m + 1 \in 1 .. n
          /\ (i + 1) + 1 = m + 1 /\ (m + 1) - 1 = m /\ m \in Nat
      BY <1>1
    <3>2. Good(m)
      BY <2>3
    <3>3. \A w : InUpTo(m + 1, w) <=> InUpTo(m, w) \/ w \in regions[m + 1]
      <4>1. \A j : j \in 1 .. m + 1 <=> j \in 1 .. m \/ j = m + 1
        BY <3>1
      <4> HIDE DEF m
      <4> QED BY <4>1
    <3>4. \A w : InUpTo(m, w) => w \notin regions[m + 1]
      <4>1. \A j \in 1 .. m : j \in 1 .. n /\ j # m + 1
        BY <1>1, <3>1
      <4> HIDE DEF m
      <4> QED BY <1>6, <3>1, <4>1
    <3> HIDE DEF m, InUpTo
    <3>5. /\ f[m] \in Seq(Seq(Cached)) /\ seqs[m + 1] \in Seq(Seq(Cached))
          /\ Apart(f[m]) /\ Apart(seqs[m + 1])
      BY <1>3, <3>1, <3>2
    <3>6. \A q \in DOMAIN f[m], r \in DOMAIN seqs[m + 1] :
             Range(f[m][q]) \cap Range(seqs[m + 1][r]) = {}
      <4> TAKE q \in DOMAIN f[m], r \in DOMAIN seqs[m + 1]
      <4>1. \A w \in Range(f[m][q]) : InUpTo(m, w)
        BY <3>2
      <4>2. Range(seqs[m + 1][r]) \subseteq regions[m + 1]
        BY <1>3, <3>1
      <4> QED BY <3>4, <4>1, <4>2
    <3>7. f[m + 1] = f[m] \o seqs[m + 1]
      BY <2>1, <3>1
    <3> DEFINE a == f[m]
               b == seqs[m + 1]
               c == f[m + 1]
    <3> HIDE DEF a, b, c
    <3>12. /\ a \in Seq(Seq(Cached)) /\ b \in Seq(Seq(Cached)) /\ Apart(a) /\ Apart(b)
           /\ \A q \in DOMAIN a, r \in DOMAIN b : Range(a[q]) \cap Range(b[r]) = {}
      BY <3>5, <3>6 DEF a, b
    <3>13. c = a \o b
      BY <3>7 DEF a, b, c
    <3> USE DEF a, b, c
    <3>8. /\ c \in Seq(Seq(Cached)) /\ Apart(c)
          /\ \A r \in DOMAIN c : \/ \E q \in DOMAIN f[m] : c[r] = f[m][q]
                                 \/ \E q \in DOMAIN seqs[m + 1] : c[r] = seqs[m + 1][q]
          /\ \A q \in DOMAIN f[m] : \E r \in DOMAIN c : c[r] = f[m][q]
          /\ \A q \in DOMAIN seqs[m + 1] : \E r \in DOMAIN c : c[r] = seqs[m + 1][q]
      <4> HIDE DEF a, b, c
      <4>1. /\ a \o b \in Seq(Seq(Cached)) /\ Apart(a \o b)
            /\ \A r \in DOMAIN (a \o b) : \/ \E q \in DOMAIN a : (a \o b)[r] = a[q]
                                         \/ \E q \in DOMAIN b : (a \o b)[r] = b[q]
            /\ \A q \in DOMAIN a : \E r \in DOMAIN (a \o b) : (a \o b)[r] = a[q]
            /\ \A q \in DOMAIN b : \E r \in DOMAIN (a \o b) : (a \o b)[r] = b[q]
        BY <3>12, MorePasses, Zenon
      <4>2. /\ c \in Seq(Seq(Cached)) /\ Apart(c)
            /\ \A r \in DOMAIN c : \/ \E q \in DOMAIN a : c[r] = a[q]
                                   \/ \E q \in DOMAIN b : c[r] = b[q]
            /\ \A q \in DOMAIN a : \E r \in DOMAIN c : c[r] = a[q]
            /\ \A q \in DOMAIN b : \E r \in DOMAIN c : c[r] = b[q]
        BY <3>13, <4>1, Zenon
      <4> QED BY <4>2 DEF a, b, c
    <3>9. ASSUME NEW r \in DOMAIN c
          PROVE  PassOK(c[r]) /\ \A w \in Range(c[r]) : InUpTo(m + 1, w)
      <4>1. CASE \E q \in DOMAIN f[m] : c[r] = f[m][q]
        BY <3>2, <3>3, <4>1
      <4>2. CASE \E q \in DOMAIN seqs[m + 1] : c[r] = seqs[m + 1][q]
        <5>1. PICK q \in DOMAIN seqs[m + 1] : c[r] = seqs[m + 1][q]
          BY <4>2
        <5>2. PassOK(seqs[m + 1][q]) /\ Range(seqs[m + 1][q]) \subseteq regions[m + 1]
          BY <1>3, <3>1
        <5> QED BY <3>3, <5>1, <5>2
      <4> QED BY <3>8, <4>1, <4>2
    <3>10. ASSUME NEW w, InUpTo(m + 1, w)
           PROVE  \E r \in DOMAIN c : w \in Range(c[r])
      <4>1. CASE InUpTo(m, w)
        <5>1. PICK q \in DOMAIN f[m] : w \in Range(f[m][q])
          BY <3>2, <4>1
        <5> QED BY <3>8, <5>1
      <4>2. CASE w \in regions[m + 1]
        <5>1. PICK q \in DOMAIN seqs[m + 1] : w \in Range(seqs[m + 1][q])
          BY <1>3, <3>1, <4>2
        <5> QED BY <3>8, <5>1
      <4> QED BY <3>3, <3>10, <4>1, <4>2
    <3>11. Good(m + 1)
      BY <3>8, <3>9, <3>10
    <3> QED BY <3>1, <3>11
  <2> HIDE DEF A, Good
  <2>4. 0 .. n - 1 \subseteq A
    <3>1. n - 1 \in Nat
      BY <1>1, <1>8
    <3> QED BY <2>2, <2>3, <3>1, UpTo
  <2>5. n - 1 \in 0 .. n - 1 /\ (n - 1) + 1 = n
    BY <1>1, <1>8
  <2>6. Good(n)
    BY <2>4, <2>5 DEF A
  <2>7. passes = f[n]
    BY <1>5, <2>1
  <2>8. \A w : Covers(regions, w) => InUpTo(n, w)
    BY <1>1 DEF Covers
  <2>9. n = 1 => passes = PassesOfRegion(regions[1])
    BY <1>1, <1>2, <2>1, <2>7
  <2>10. /\ passes \in Seq(Seq(Cached)) /\ Apart(passes)
         /\ \A r \in DOMAIN passes : PassOK(passes[r])
         /\ \A w : Covers(regions, w) => \E r \in DOMAIN passes : w \in Range(passes[r])
    BY <2>6, <2>7, <2>8 DEF Good
  <2> QED BY <1>8, <2>9, <2>10 DEF n
<1> QED BY <1>7, <1>8

\* Whatever expressions FLASHSIM_EAGER_RE gives, the regions and their passes are
\* what the tables need: the wires of a pass have the same leaves, each comes after
\* those it reads, no wire is in two passes, and every wire that matches is in one.
THEOREM EveryGroupingCuts ==
    ASSUME DesignOK, NamesSorted, NEW grouping, GroupingOK(grouping)
    PROVE  /\ PassesOK(PassesOf(grouping))
           /\ \A w \in DOMAIN grouping : \E r \in DOMAIN PassesOf(grouping) :
                 w \in Range(PassesOf(grouping)[r])
<1> DEFINE regions == RegionsOf(grouping)
           passes == PassesOf(grouping)
<1>1. /\ regions \in Seq(SUBSET Cached) /\ Untangled(regions)
      /\ \A w \in DOMAIN grouping : Covers(regions, w)
  BY RegionsAre
<1>2. passes = FlattenSeq([i \in DOMAIN regions |-> PassesOfRegion(regions[i])])
  BY DEF PassesOf
<1> HIDE DEF regions, passes
<1>3. /\ passes \in Seq(Seq(Cached)) /\ Apart(passes)
      /\ \A r \in DOMAIN passes : PassOK(passes[r])
      /\ \A w : Covers(regions, w) => \E r \in DOMAIN passes : w \in Range(passes[r])
  BY <1>1, <1>2, RegionsFlatten
<1>4. PassesOK(passes)
  BY <1>3 DEF PassesOK, PassOK, Apart
<1> QED BY <1>1, <1>3, <1>4 DEF passes

\* Under the default grouping, where one expression matches every cached wire, the
\* passes are those of one region, smaller leaf sets first.
LEMMA OneRegion ==
    ASSUME DesignOK, NamesSorted, NEW grouping, GroupingOK(grouping),
           DOMAIN grouping = Cached, \A v, w \in Cached : grouping[v] = grouping[w]
    PROVE  PassesOf(grouping) = <<>> \/ PassesOf(grouping) = PassesOfRegion(Cached)
<1> DEFINE regions == RegionsOf(grouping)
           passes == PassesOf(grouping)
           ranks == {grouping[w] : w \in DOMAIN grouping}
<1>1. /\ regions \in Seq(SUBSET Cached) /\ Untangled(regions)
      /\ \A w \in DOMAIN grouping : Covers(regions, w)
      /\ Len(regions) <= Cardinality(ranks)
  BY RegionsAre
<1>2. passes = FlattenSeq([i \in DOMAIN regions |-> PassesOfRegion(regions[i])])
  BY DEF PassesOf
<1> HIDE DEF regions, passes
<1>3. Cardinality(ranks) = 0 \/ Cardinality(ranks) = 1
  <2>1. CASE ranks = {}
    BY <2>1, FS_EmptySet
  <2>2. CASE ranks # {}
    <3>1. PICK w \in Cached : TRUE
      BY <2>2
    <3>2. ranks = {grouping[w]}
      BY <3>1
    <3> QED BY <3>2, FS_Singleton
  <2> QED BY <2>1, <2>2
<1> HIDE DEF ranks
<1>4. Len(regions) = 0 \/ Len(regions) = 1
  <2> DEFINE n == Len(regions)
             k == Cardinality(ranks)
  <2>1. n \in Nat /\ n <= k
    BY <1>1
  <2>2. k = 0 \/ k = 1
    BY <1>3
  <2> HIDE DEF n, k
  <2>3. n = 0 \/ n = 1
    BY <2>1, <2>2
  <2> QED BY <2>3 DEF n
<1>5. /\ Len(regions) = 0 => passes = <<>>
      /\ Len(regions) = 1 => passes = PassesOfRegion(regions[1])
  BY <1>1, <1>2, RegionsFlatten
<1>6. ASSUME Len(regions) = 1
      PROVE  regions[1] = Cached
  <2>1. DOMAIN regions = {1}
    BY <1>1, <1>6
  <2>2. regions[1] \subseteq Cached
    BY <1>1, <2>1
  <2>3. \A w \in Cached : w \in regions[1]
    BY <1>1, <2>1 DEF Covers
  <2> QED BY <2>2, <2>3
<1> QED BY <1>4, <1>5, <1>6 DEF passes

\* Under the default grouping a pass reads wires of earlier passes only, woken if it
\* is, and what a woken pass calls stays among the woken passes up to its own bit,
\* which is what the scan of the activity bits from the lowest one on relies on.
THEOREM DefaultAscends ==
    ASSUME DesignOK, NamesSorted, NEW grouping, GroupingOK(grouping),
           DOMAIN grouping = Cached, \A v, w \in Cached : grouping[v] = grouping[w]
    PROVE  Eager!Ascending(PlanOf(grouping))
<1> DEFINE passes == PassesOf(grouping)
           T == TablesOf(passes)
           eager == EagerOf(passes)
<1>1. /\ PassesOK(passes)
      /\ \A w \in Cached : \E r \in DOMAIN passes : w \in Range(passes[r])
  BY EveryGroupingCuts
<1>2. passes = <<>> \/ passes = PassesOfRegion(Cached)
  BY OneRegion
<1>3. PlanOf(grouping) = T
  BY DEF PlanOf
<1> HIDE DEF passes
<1>4. /\ Len(passes) \in Nat /\ DOMAIN passes = 1 .. Len(passes)
      /\ \A r \in DOMAIN passes :
            /\ passes[r][1] \in Range(passes[r]) /\ Range(passes[r]) \subseteq Cached
            /\ \A v, w \in Range(passes[r]) : ConeLeaves(v) = ConeLeaves(w)
  BY <1>1, PassFacts
<1>5. /\ DOMAIN eager \subseteq Cached
      /\ \A r \in DOMAIN passes : \A w \in Range(passes[r]) : w \in DOMAIN eager /\ eager[w] = r
      /\ \A w \in DOMAIN eager : eager[w] \in DOMAIN passes /\ w \in Range(passes[eager[w]])
  BY <1>1, EagerIs
<1>6. \A q, r \in DOMAIN passes : q < r =>
         \A v \in Range(passes[q]), w \in Range(passes[r]) : SmallerFirst(ConeLeaves(v), ConeLeaves(w))
  <2>1. CASE passes = <<>>
    BY <2>1
  <2>2. CASE passes = PassesOfRegion(Cached)
    BY <2>2, RegionPasses
  <2> QED BY <1>2, <2>1, <2>2
<1>7. /\ T.order = passes /\ T.passOf = eager
      /\ \A r \in DOMAIN passes : T.foreign[r] = ForeignOf(passes[r])
      /\ DOMAIN T.bit = Woken(passes) /\ Woken(passes) \subseteq DOMAIN passes
  BY <1>1, TableFields, TableEntries, WokenIs
<1>8. /\ \A q \in Woken(passes) : T.bit[q] \in Int
      /\ \A q, r \in Woken(passes) : q < r => T.bit[q] < T.bit[r]
  <2>1. Eager!BitsNumbered(T)
    BY <1>1, BitsInOrder
  <2> HIDE DEF T
  <2>2. {T.bit[r] : r \in Woken(passes)} = 0 .. Eager!Cardinality(Woken(passes)) - 1
    BY <1>7, <2>1 DEF Eager!BitsNumbered
  <2>3. \A q \in Woken(passes) : T.bit[q] \in Int
    BY <2>2
  <2>4. \A q, r \in Woken(passes) : q < r => T.bit[q] < T.bit[r]
    BY <1>7, <2>1 DEF Eager!BitsNumbered
  <2> QED BY <2>3, <2>4
<1> HIDE DEF T, eager
<1>9. ASSUME NEW r \in DOMAIN passes, NEW d \in ForeignOf(passes[r])
      PROVE  d \in DOMAIN eager /\ eager[d] \in DOMAIN passes /\ eager[d] < r
  <2>1. /\ d \in Cached /\ d \notin Range(passes[r])
        /\ ConeLeaves(d) \subseteq ConeLeaves(passes[r][1])
    BY <1>1, ForeignFacts
  <2>2. d \in DOMAIN eager /\ eager[d] \in DOMAIN passes /\ d \in Range(passes[eager[d]])
    BY <1>1, <1>5, <2>1
  <2>3. eager[d] # r
    BY <2>1, <2>2
  <2>4. ~(r < eager[d])
    <3> DEFINE D == ConeLeaves(d)
               V == ConeLeaves(passes[r][1])
    <3>1. passes[r][1] \in Cached
      BY <1>4
    <3>2. IsFiniteSet(V) /\ IsFiniteSet(D)
      <4>1. V \subseteq Names /\ D \subseteq Names
        BY <2>1, <3>1, LeavesOfDeps DEF Names
      <4> QED BY <4>1, GraphAssumption, FS_Subset
    <3>3. /\ Cardinality(D) \in Nat /\ Cardinality(V) \in Nat
          /\ Cardinality(D) <= Cardinality(V)
          /\ Cardinality(D) = Cardinality(V) => D = V
      BY <2>1, <3>2, FS_Subset, FS_CardinalityType
    <3>4. ~SmallerFirst(V, D)
      <4> HIDE DEF D, V
      <4>1. ~(Cardinality(V) < Cardinality(D))
        BY <3>3
      <4>2. Cardinality(V) = Cardinality(D) => ~SortedByName(V, D)
        BY <3>3 DEF SortedByName
      <4> QED BY <4>1, <4>2 DEF SmallerFirst
    <3>5. r < eager[d] => SmallerFirst(V, D)
      BY <1>4, <1>6, <2>2
    <3> QED BY <3>4, <3>5
  <2> QED BY <1>4, <2>2, <2>3, <2>4
<1>10. ASSUME NEW r \in Woken(passes), NEW d \in ForeignOf(passes[r])
       PROVE  eager[d] \in Woken(passes)
  <2>1. r \in DOMAIN passes /\ eager[d] \in DOMAIN passes /\ eager[d] < r /\ d \in DOMAIN eager
    BY <1>7, <1>9
  <2>2. d \in Range(passes[eager[d]]) /\ r \in PassConsumers(passes, d)
    BY <1>5, <2>1 DEF PassConsumers
  <2> QED BY <1>1, <2>1, <2>2, WokenIs
<1>11. ASSUME NEW r \in Woken(passes)
       PROVE  passes[r][1] \in Eager!CallsUpTo(T, T.bit[r])
  <2> DEFINE D == {w \in DOMAIN eager : eager[w] \in Woken(passes) /\ eager[w] <= r}
  <2>1. r \in DOMAIN passes /\ r \in Int
    BY <1>4, <1>7
  <2>2. passes[r][1] \in D
    <3>1. passes[r][1] \in DOMAIN eager /\ eager[passes[r][1]] = r
      BY <1>4, <1>5, <2>1
    <3> QED BY <2>1, <3>1
  <2>3. ASSUME NEW w \in D
        PROVE  /\ Eager!Needs(T, w) \subseteq D
               /\ w \in DOMAIN T.passOf /\ T.passOf[w] \in DOMAIN T.bit => T.bit[T.passOf[w]] <= T.bit[r]
    <3>1. /\ w \in DOMAIN eager /\ eager[w] \in Woken(passes) /\ eager[w] <= r
          /\ eager[w] \in DOMAIN passes /\ eager[w] \in Int
      BY <1>4, <1>5
    <3>2. Eager!Needs(T, w) = ForeignOf(passes[eager[w]])
      BY <1>7, <3>1 DEF Eager!Needs
    <3>3. ASSUME NEW d \in ForeignOf(passes[eager[w]])
          PROVE  d \in D
      <4>1. d \in DOMAIN eager /\ eager[d] \in DOMAIN passes /\ eager[d] < eager[w]
        BY <1>9, <3>1
      <4>2. eager[d] \in Woken(passes)
        BY <1>10, <3>1
      <4>3. eager[d] <= r
        BY <1>4, <2>1, <3>1, <4>1
      <4> QED BY <4>1, <4>2, <4>3
    <3>4. T.bit[eager[w]] <= T.bit[r]
      <4>1. CASE eager[w] = r
        BY <1>8, <4>1
      <4>2. CASE eager[w] < r
        BY <1>8, <3>1, <4>2
      <4> QED BY <2>1, <3>1, <4>1, <4>2
    <3> QED BY <1>7, <3>2, <3>3, <3>4
  <2>4. D \in SUBSET Cached
    BY <1>5
  <2> HIDE DEF D
  <2> QED BY <2>2, <2>3, <2>4 DEF Eager!CallsUpTo
<1>12. \A r \in DOMAIN T.order : \A w \in T.foreign[r] \cap DOMAIN T.passOf :
          T.passOf[w] < r /\ (r \in DOMAIN T.bit => T.passOf[w] \in DOMAIN T.bit)
  BY <1>7, <1>9, <1>10
<1>13. \A r \in DOMAIN T.bit : T.order[r][1] \in Eager!CallsUpTo(T, T.bit[r])
  BY <1>7, <1>11
<1> QED BY <1>3, <1>12, <1>13 DEF Eager!Ascending

\* Every grouping of an acyclic module gives tables that promise what EagerPasses
\* takes for granted of a plan; only Ascending is left to the groupings themselves.
THEOREM PlannedPassTables ==
    ASSUME DesignOK, NamesSorted, NEW grouping, GroupingOK(grouping)
    PROVE  /\ Eager!PlanTyped(PlanOf(grouping)) /\ Eager!BitsNumbered(PlanOf(grouping))
           /\ Eager!ReadsListed(PlanOf(grouping)) /\ Eager!PagesCover(PlanOf(grouping))
           /\ Eager!PassesTold(PlanOf(grouping)) /\ Eager!HoldsCut(PlanOf(grouping))
<1> DEFINE passes == PassesOf(grouping)
<1>1. PassesOK(passes)
  BY EveryGroupingCuts
<1>2. PlanOf(grouping) = TablesOf(passes)
  BY DEF PlanOf
<1> HIDE DEF passes
<1>3. /\ Eager!PlanTyped(TablesOf(passes)) /\ Eager!BitsNumbered(TablesOf(passes))
      /\ Eager!ReadsListed(TablesOf(passes)) /\ Eager!PagesCover(TablesOf(passes))
      /\ Eager!PassesTold(TablesOf(passes)) /\ Eager!HoldsCut(TablesOf(passes))
  BY <1>1, PassTablesTyped, BitsInOrder, PassReadsListed, PassPagesCover, PassesAreTold, HoldsAreCut
<1> QED BY <1>2, <1>3
=============================================================================
