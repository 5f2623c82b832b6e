----------------------------- MODULE PlannerProofs -----------------------------
(***************************************************************************)
(* The worklists of the planner return exactly the cone and the nearest    *)
(* caches, for every finite assignment graph, loops included, and whatever *)
(* the order in which names are pushed.                                    *)
(*                                                                         *)
(* A closure is computed in stages, as many as there are assigned names.   *)
(* The first part shows what this yields: the least set of names that has  *)
(* the given ones and is closed under reading through open names.  Then    *)
(* one invariant of the walk says that what a seen name reads is seen, on  *)
(* the stack or a name where the walk ends, so that the seen names and     *)
(* what lies below the stack are closed together.                          *)
(***************************************************************************)
EXTENDS PlanWalk, PlannedNetlist, FiniteSetTheorems, SequenceTheorems, WellFoundedInduction, TLAPS

(* Induction up to a bound, for a set that says where the claim holds.     *)
LEMMA UpTo ==
    ASSUME NEW N \in Nat, NEW A, 0 \in A, \A i \in 0 .. N - 1 : i \in A => i + 1 \in A
    PROVE  0 .. N \subseteq A
<1> SUFFICES ASSUME NEW k \in 0 .. N, k \notin A PROVE FALSE
  OBVIOUS
<1> DEFINE Fam == {0 .. n : n \in {m \in 0 .. N : m \notin A}}
           R == StrictSubsetOrdering(Nat)
<1>1. \A n \in 0 .. N : IsFiniteSet(0 .. n) /\ (0 .. n) \in SUBSET Nat
  BY FS_Interval
<1>2. Fam \subseteq FiniteSubsetsOf(Nat) /\ Fam # {}
  BY <1>1 DEF FiniteSubsetsOf
<1>3. IsWellFoundedOn(R, FiniteSubsetsOf(Nat))
  BY FS_StrictSubsetOrderingWellFounded
<1>4. PICK T \in Fam : \A U \in Fam : <<U, T>> \notin R
  <2> HIDE DEF Fam, R
  <2> QED BY <1>2, <1>3, WFMin, Zenon
<1>5. PICK n \in 0 .. N : n \notin A /\ T = 0 .. n
  OBVIOUS
<1>6. n # 0 /\ n - 1 \in 0 .. N - 1 /\ (n - 1) + 1 = n
  BY <1>5
<1>7. n - 1 \notin A
  BY <1>5, <1>6
<1>8. 0 .. n - 1 \in Fam
  BY <1>6, <1>7
<1>9. <<0 .. n - 1, T>> \in R
  <2>1. 0 .. n - 1 \subseteq T /\ n \in T /\ n \notin 0 .. n - 1
    BY <1>5, <1>6
  <2>2. T \in SUBSET Nat /\ 0 .. n - 1 \in SUBSET Nat
    BY <1>5, <1>6
  <2> QED BY <2>1, <2>2, FS_Interval, <1>1, <1>5, <1>6 DEF StrictSubsetOrdering
<1> QED BY <1>4, <1>8, <1>9
-----------------------------------------------------------------------------
(* Closures by stages: R gives what a name reads, and the names in Open    *)
(* are read through.                                                       *)
Grown(R, Open, X) == X \cup UNION {R[n] : n \in X \cap Open}
Closed(R, Open, X) == \A n \in X \cap Open : R[n] \subseteq X
IsStages(R, Open, S, N, f) ==
    f = [i \in 0 .. N |-> IF i = 0 THEN S ELSE Grown(R, Open, f[i - 1])]

\* The first stage and the step from one stage to the next.
LEMMA StagesStep ==
    ASSUME NEW R, NEW Open, NEW S, NEW N \in Nat, NEW f, IsStages(R, Open, S, N, f)
    PROVE  /\ f[0] = S
           /\ \A i \in 0 .. N - 1 : f[i + 1] = Grown(R, Open, f[i])
<1>1. \A i \in 0 .. N : f[i] = IF i = 0 THEN S ELSE Grown(R, Open, f[i - 1])
  BY Zenon DEF IsStages
<1>2. 0 \in 0 .. N
  OBVIOUS
<1>3. ASSUME NEW i \in 0 .. N - 1
      PROVE  f[i + 1] = Grown(R, Open, f[i])
  <2>1. i + 1 \in 0 .. N /\ i + 1 # 0 /\ (i + 1) - 1 = i
    OBVIOUS
  <2> QED BY <1>1, <2>1
<1> QED BY <1>1, <1>2, <1>3

\* The recursion that defines the stages has a solution.
LEMMA StagesExist ==
    ASSUME NEW R, NEW Open, NEW S, NEW N \in Nat
    PROVE  \E f : IsStages(R, Open, S, N, f)
<1> DEFINE A == {k \in 0 .. N : \E f : IsStages(R, Open, S, k, f)}
<1>1. 0 \in A
  <2> DEFINE f == [i \in 0 .. 0 |-> S]
  <2>1. f = [i \in 0 .. 0 |-> IF i = 0 THEN S ELSE Grown(R, Open, f[i - 1])]
    OBVIOUS
  <2> HIDE DEF f
  <2> QED BY <2>1 DEF IsStages
<1>2. ASSUME NEW k \in 0 .. N - 1, k \in A
      PROVE  k + 1 \in A
  <2>1. PICK f : IsStages(R, Open, S, k, f)
    BY <1>2
  <2>2. \A i \in 0 .. k : f[i] = IF i = 0 THEN S ELSE Grown(R, Open, f[i - 1])
    BY <2>1, Zenon DEF IsStages
  <2> DEFINE g == [i \in 0 .. k + 1 |-> IF i = k + 1 THEN Grown(R, Open, f[k]) ELSE f[i]]
  <2>3. ASSUME NEW i \in 0 .. k + 1
        PROVE  g[i] = IF i = 0 THEN S ELSE Grown(R, Open, g[i - 1])
    <3>1. CASE i = k + 1
      BY <3>1
    <3>2. CASE i # k + 1 /\ i # 0
      <4>1. i \in 0 .. k /\ i - 1 \in 0 .. k + 1 /\ i - 1 # k + 1
        BY <3>2
      <4>2. g[i] = f[i] /\ g[i - 1] = f[i - 1]
        BY <3>2, <4>1
      <4> HIDE DEF g
      <4> QED BY <2>2, <3>2, <4>1, <4>2
    <3>3. CASE i = 0
      BY <2>2, <3>3
    <3> QED BY <3>1, <3>2, <3>3
  <2>4. g = [i \in 0 .. k + 1 |-> g[i]]
    OBVIOUS
  <2>5. IsStages(R, Open, S, k + 1, g)
    <3> HIDE DEF g
    <3>1. [i \in 0 .. k + 1 |-> g[i]]
          = [i \in 0 .. k + 1 |-> IF i = 0 THEN S ELSE Grown(R, Open, g[i - 1])]
      BY <2>3
    <3> QED BY <2>4, <3>1 DEF IsStages
  <2>6. k + 1 \in 0 .. N
    OBVIOUS
  <2> QED BY <2>5, <2>6
<1>3. 0 .. N \subseteq A
  <2> HIDE DEF A
  <2> QED BY <1>1, <1>2, UpTo
<1> QED BY <1>3

(* The last stage has the given names and is below every closed set that   *)
(* has them.                                                               *)
LEMMA StagesLeast ==
    ASSUME NEW R, NEW Open, NEW S, NEW N \in Nat, NEW f, IsStages(R, Open, S, N, f),
           NEW D, S \subseteq D, Closed(R, Open, D)
    PROVE  f[N] \subseteq D
<1> DEFINE A == {i \in 0 .. N : f[i] \subseteq D}
<1>1. 0 \in A
  BY StagesStep
<1>2. ASSUME NEW i \in 0 .. N - 1, i \in A
      PROVE  i + 1 \in A
  <2>1. f[i + 1] = Grown(R, Open, f[i])
    BY StagesStep
  <2>2. Grown(R, Open, f[i]) \subseteq D
    BY <1>2 DEF Grown, Closed
  <2> QED BY <2>1, <2>2
<1>3. 0 .. N \subseteq A
  <2> HIDE DEF A
  <2> QED BY <1>1, <1>2, UpTo
<1> QED BY <1>3

\* Every stage keeps what the closure starts from.
LEMMA StagesInclude ==
    ASSUME NEW R, NEW Open, NEW S, NEW N \in Nat, NEW f, IsStages(R, Open, S, N, f)
    PROVE  S \subseteq f[N]
<1> DEFINE A == {i \in 0 .. N : S \subseteq f[i]}
<1>1. 0 \in A
  BY StagesStep
<1>2. ASSUME NEW i \in 0 .. N - 1, i \in A
      PROVE  i + 1 \in A
  <2>1. f[i + 1] = Grown(R, Open, f[i])
    BY StagesStep
  <2> QED BY <1>2, <2>1 DEF Grown
<1>3. 0 .. N \subseteq A
  <2> HIDE DEF A
  <2> QED BY <1>1, <1>2, UpTo
<1> QED BY <1>3

(* It is closed when there are as many stages as open names: a stage that  *)
(* is not closed has more open names than the one before.                  *)
LEMMA StagesClosed ==
    ASSUME NEW R, NEW Open, NEW S, NEW N \in Nat, NEW f, IsStages(R, Open, S, N, f),
           IsFiniteSet(Open), Cardinality(Open) <= N
    PROVE  Closed(R, Open, f[N])
<1> DEFINE C(i) == Cardinality(f[i] \cap Open)
           A == {i \in 0 .. N : C(i) >= i + 1 \/ Closed(R, Open, f[i])}
<1>1. \A X : IsFiniteSet(X \cap Open) /\ Cardinality(X \cap Open) \in Nat
             /\ Cardinality(X \cap Open) <= Cardinality(Open) /\ Cardinality(Open) \in Nat
  <2> TAKE X
  <2>1. X \cap Open \in SUBSET Open
    OBVIOUS
  <2> QED BY <2>1, FS_Subset, FS_CardinalityType
<1>2. 0 \in A
  <2>1. CASE f[0] \cap Open = {}
    BY <2>1 DEF Closed
  <2>2. CASE f[0] \cap Open # {}
    <3>1. C(0) # 0
      BY <1>1, <2>2, FS_EmptySet
    <3> QED BY <1>1, <3>1
  <2> QED BY <2>1, <2>2
<1>3. ASSUME NEW i \in 0 .. N - 1, i \in A
      PROVE  i + 1 \in A
  <2>1. f[i + 1] = Grown(R, Open, f[i]) /\ i + 1 \in 0 .. N
    BY StagesStep
  <2>2. CASE Closed(R, Open, f[i])
    <3>1. f[i + 1] = f[i]
      BY <2>1, <2>2 DEF Grown, Closed
    <3> QED BY <2>1, <2>2, <3>1
  <2>3. CASE f[i + 1] \cap Open = f[i] \cap Open
    <3>1. Closed(R, Open, f[i + 1])
      BY <2>1, <2>3 DEF Grown, Closed
    <3> QED BY <2>1, <3>1
  <2>4. CASE C(i) >= i + 1 /\ f[i + 1] \cap Open # f[i] \cap Open
    <3>1. f[i] \cap Open \subseteq f[i + 1] \cap Open
      BY <2>1 DEF Grown
    <3>2. C(i) <= C(i + 1) /\ C(i) # C(i + 1)
      BY <1>1, <2>4, <3>1, FS_Subset
    <3>3. C(i) \in Nat /\ C(i + 1) \in Nat
      BY <1>1
    <3>4. C(i + 1) >= (i + 1) + 1
      BY <2>4, <3>2, <3>3
    <3> QED BY <2>1, <3>4
  <2> QED BY <1>3, <2>2, <2>3, <2>4
<1>4. 0 .. N \subseteq A
  <2> HIDE DEF A
  <2> QED BY <1>2, <1>3, UpTo
<1>5. ~(C(N) >= N + 1)
  BY <1>1
<1> QED BY <1>4, <1>5
-----------------------------------------------------------------------------
(* What SkipPlan's closure is, for the graph of a walk and for a module's. *)
Stages(R, Open, S) ==
    LET step[i \in 0 .. Cardinality(Assigned)] ==
            IF i = 0 THEN S
            ELSE LET reached == step[i - 1]
                 IN  reached \cup UNION {R[n] : n \in reached \cap Open}
    IN  step[Cardinality(Assigned)]

\* The last stage is the least closed set with the names it starts from.
LEMMA StagesAre ==
    ASSUME NEW R, NEW Open \in SUBSET Assigned, NEW S
    PROVE  /\ S \subseteq Stages(R, Open, S) /\ Closed(R, Open, Stages(R, Open, S))
           /\ \A D : S \subseteq D /\ Closed(R, Open, D) => Stages(R, Open, S) \subseteq D
<1> DEFINE N == Cardinality(Assigned)
           step[i \in 0 .. Cardinality(Assigned)] ==
              IF i = 0 THEN S
              ELSE LET reached == step[i - 1]
                   IN  reached \cup UNION {R[n] : n \in reached \cap Open}
<1>1. IsFiniteSet(Assigned) /\ IsFiniteSet(Open) /\ N \in Nat /\ Cardinality(Open) <= N
  <2>1. IsFiniteSet(Assigned)
    BY GraphAssumption, FS_Subset DEF Names
  <2> QED BY <2>1, FS_Subset, FS_CardinalityType
<1>2. step = [i \in 0 .. Cardinality(Assigned) |->
                IF i = 0 THEN S
                ELSE LET reached == step[i - 1]
                     IN  reached \cup UNION {R[n] : n \in reached \cap Open}]
  <2> SUFFICES \E f : f = [i \in 0 .. Cardinality(Assigned) |->
                IF i = 0 THEN S
                ELSE LET reached == f[i - 1]
                     IN  reached \cup UNION {R[n] : n \in reached \cap Open}]
    BY Zenon
  <2> HIDE DEF step
  <2>1. PICK f : IsStages(R, Open, S, Cardinality(Assigned), f)
    BY <1>1, StagesExist
  <2> QED BY <2>1, Zenon DEF IsStages, Grown
<1>3. Stages(R, Open, S) = step[Cardinality(Assigned)]
  BY Zenon DEF Stages
<1> HIDE DEF step
<1>4. IsStages(R, Open, S, N, step)
  BY <1>2, Zenon DEF IsStages, Grown
<1>5. S \subseteq step[N] /\ Closed(R, Open, step[N])
  BY <1>1, <1>4, StagesInclude, StagesClosed
<1>6. \A D : S \subseteq D /\ Closed(R, Open, D) => step[N] \subseteq D
  BY <1>1, <1>4, StagesLeast
<1> QED BY <1>3, <1>5, <1>6

\* The instance counts as this module does.
LEMMA PlanCounts == \A S : Plan!Cardinality(S) = Cardinality(S)
  BY DEF Plan!Cardinality, Cardinality

\* For PlanWalk's graph: a closure is the least closed set.
LEMMA ClosureIs ==
    ASSUME NEW S, NEW Open \in SUBSET Assigned
    PROVE  /\ S \subseteq Plan!Closure(S, Open)
           /\ Closed(reads, Open, Plan!Closure(S, Open))
           /\ \A D : S \subseteq D /\ Closed(reads, Open, D) => Plan!Closure(S, Open) \subseteq D
<1>1. Plan!Closure(S, Open) = Stages(reads, Open, S)
  BY PlanCounts, Zenon DEF Plan!Closure, Stages
<1> QED BY <1>1, StagesAre

\* For the graph of a module: a closure is the least closed set.
LEMMA ReachIs ==
    ASSUME NEW S, NEW Open \in SUBSET Assigned
    PROVE  /\ S \subseteq Closure(S, Open)
           /\ Closed(Reads, Open, Closure(S, Open))
           /\ \A D : S \subseteq D /\ Closed(Reads, Open, D) => Closure(S, Open) \subseteq D
<1>1. Closure(S, Open) = Stages(Reads, Open, S)
  BY Zenon DEF Closure, Stages
<1> QED BY <1>1, StagesAre
-----------------------------------------------------------------------------
(* Names that satisfy their assignments.                                   *)
Satisfied(f, O) == \A n \in O : f[n] = Expr(n, f)

\* Environments that agree on some names agree when the others are hidden.
LEMMA OnlyAgree ==
    ASSUME NEW f, NEW g, NEW X, \A x \in X \cap Names : f[x] = g[x]
    PROVE  Only(f, X) = Only(g, X)
  BY DEF Only

\* What DesignOK says, taken apart.
LEMMA DesignFacts ==
    ASSUME DesignOK
    PROVE  /\ Cached \subseteq Assigned /\ Temps \subseteq Assigned /\ Temps = Assigned \ Cached
           /\ Names = Stop \cup Assigned /\ Stop \cap Assigned = {}
           /\ \A n \in Assigned : Reads[n] \subseteq Names
           /\ Zero \in Val
           /\ \A f \in Values, n \in Assigned : Expr(n, f) \in Val
           /\ Cardinality(Assigned) \in Nat
<1>1. IsFiniteSet(Assigned)
  BY GraphAssumption, FS_Subset DEF Names
<1>2. Cardinality(Assigned) \in Nat
  BY <1>1, FS_CardinalityType
<1> QED BY <1>2, GraphAssumption DEF DesignOK, GraphOK, Typed, Temps, Names

\* Two valuations that agree on what an expression reads give it one value.
LEMMA SameReadsSameValue ==
    ASSUME DesignOK, NEW f \in Values, NEW g \in Values, NEW n \in Assigned,
           \A m \in Reads[n] : f[m] = g[m]
    PROVE  Expr(n, f) = Expr(n, g)
<1>1. Only(f, Reads[n]) = Only(g, Reads[n])
  BY OnlyAgree
<1>2. Expr(n, f) = Expr(n, Only(f, Reads[n])) /\ Expr(n, g) = Expr(n, Only(g, Reads[n]))
  BY DEF DesignOK, IdsRight
<1> QED BY <1>1, <1>2

\* Assignments without a loop can be satisfied, whatever the other names hold.
LEMMA LoopFreeSolves ==
    ASSUME DesignOK, NEW b \in Values, NEW O \in SUBSET Assigned
    PROVE  \E f \in Values : Satisfied(f, O) /\ \A n \in Names \ O : f[n] = b[n]
<1>1. PICK rank \in [Assigned -> 0 .. Cardinality(Assigned)] : Ordered(rank)
  BY DEF DesignOK, LoopFree
<1> DEFINE N == Cardinality(Assigned) + 1
           Upto(f, k) == \A n \in O : rank[n] < k => f[n] = Expr(n, f)
           A == {k \in 0 .. N : \E f \in Values :
                    Upto(f, k) /\ \A n \in Names \ O : f[n] = b[n]}
<1>2. N \in Nat /\ \A n \in Assigned : rank[n] \in 0 .. N - 1
  BY <1>1, DesignFacts
<1>3. 0 \in A
  <2>1. Upto(b, 0)
    BY <1>2
  <2> QED BY <1>2, <2>1
<1>4. ASSUME NEW k \in 0 .. N - 1, k \in A
      PROVE  k + 1 \in A
  <2>1. PICK f \in Values : Upto(f, k) /\ \A n \in Names \ O : f[n] = b[n]
    BY <1>4
  <2> DEFINE g == [n \in Names |-> IF n \in O /\ rank[n] = k THEN Expr(n, f) ELSE f[n]]
  <2>2. g \in Values
    BY DesignFacts DEF Values
  <2>3. \A n \in Names \ O : g[n] = b[n]
    BY <2>1
  <2>4. ASSUME NEW n \in O, rank[n] < k + 1
        PROVE  g[n] = Expr(n, g)
    <3>1. \A m \in Reads[n] : m \in Names /\ (m \in O => rank[m] < k)
      <4> TAKE m \in Reads[n]
      <4>1. m \in Names
        BY DesignFacts
      <4>2. ASSUME m \in O PROVE rank[m] < k
        <5>1. rank[m] < rank[n]
          BY <1>1, <4>2 DEF Ordered
        <5>2. rank[m] \in Int /\ rank[n] \in Int
          BY <1>2, <4>2
        <5> QED BY <2>4, <5>1, <5>2
      <4> QED BY <4>1, <4>2
    <3>2. \A m \in Reads[n] : f[m] = g[m]
      <4> TAKE m \in Reads[n]
      <4>1. ~(m \in O /\ rank[m] = k)
        BY <3>1
      <4> QED BY <3>1, <4>1
    <3>3. Expr(n, f) = Expr(n, g)
      <4> HIDE DEF g
      <4> QED BY <2>2, <3>2, SameReadsSameValue
    <3>4. CASE rank[n] = k
      <4>1. g[n] = Expr(n, f)
        BY <3>4, DesignFacts
      <4> HIDE DEF g
      <4> QED BY <3>3, <4>1
    <3>5. CASE rank[n] # k
      <4>1. g[n] = f[n] /\ rank[n] < k
        BY <1>2, <2>4, <3>5, DesignFacts
      <4>2. f[n] = Expr(n, f)
        BY <2>1, <4>1
      <4> HIDE DEF g
      <4> QED BY <3>3, <4>1, <4>2
    <3> QED BY <3>4, <3>5
  <2>5. Upto(g, k + 1)
    <3> HIDE DEF g
    <3> QED BY <2>4
  <2>6. k + 1 \in 0 .. N
    BY <1>2
  <2> HIDE DEF g, Upto
  <2> QED BY <2>2, <2>3, <2>5, <2>6
<1>5. N \in A
  <2> HIDE DEF A, N
  <2>1. 0 .. N \subseteq A
    BY <1>2, <1>3, <1>4, UpTo
  <2> QED BY <1>2, <2>1
<1>6. PICK f \in Values : Upto(f, N) /\ \A n \in Names \ O : f[n] = b[n]
  BY <1>5
<1>7. \A n \in O : rank[n] < N
  BY <1>2
<1> QED BY <1>6, <1>7 DEF Satisfied

\* And in one way only: what is assigned inside a set that is closed under
\* reading is determined by the rest of the set.
LEMMA LoopFreeDetermines ==
    ASSUME DesignOK, NEW O \in SUBSET Assigned, NEW S \in SUBSET Names, Closed(Reads, O, S),
           NEW f \in Values, NEW g \in Values,
           Satisfied(f, S \cap O), Satisfied(g, S \cap O), \A n \in S \ O : f[n] = g[n]
    PROVE  \A n \in S : f[n] = g[n]
<1>1. PICK rank \in [Assigned -> 0 .. Cardinality(Assigned)] : Ordered(rank)
  BY DEF DesignOK, LoopFree
<1> DEFINE N == Cardinality(Assigned) + 1
           A == {k \in 0 .. N : \A n \in S \cap O : rank[n] < k => f[n] = g[n]}
<1>2. N \in Nat /\ \A n \in Assigned : rank[n] \in 0 .. N - 1
  BY <1>1, DesignFacts
<1>3. 0 \in A
  BY <1>2
<1>4. ASSUME NEW k \in 0 .. N - 1, k \in A
      PROVE  k + 1 \in A
  <2>1. ASSUME NEW n \in S \cap O, rank[n] < k + 1
        PROVE  f[n] = g[n]
    <3>1. ASSUME NEW m \in Reads[n] PROVE f[m] = g[m]
      <4>1. m \in S
        BY DEF Closed
      <4>2. CASE m \in O
        <5>1. rank[m] < rank[n]
          BY <1>1, <4>2 DEF Ordered
        <5>2. rank[m] \in Int /\ rank[n] \in Int /\ k \in Int
          BY <1>2, <4>2
        <5>3. rank[m] < k
          BY <2>1, <5>1, <5>2
        <5> QED BY <1>4, <4>1, <4>2, <5>3
      <4> QED BY <4>1, <4>2
    <3>2. Expr(n, f) = Expr(n, g)
      BY <3>1, SameReadsSameValue
    <3> QED BY <3>2 DEF Satisfied
  <2>2. k + 1 \in 0 .. N
    BY <1>2
  <2> QED BY <2>1, <2>2
<1>5. N \in A
  <2> HIDE DEF A, N
  <2>1. 0 .. N \subseteq A
    BY <1>2, <1>3, <1>4, UpTo
  <2> QED BY <1>2, <2>1
<1>6. \A n \in S \cap O : rank[n] < N
  BY <1>2
<1> QED BY <1>5, <1>6

\* A cone does not leave the names of the module.
LEMMA ReachInNames ==
    ASSUME DesignOK, NEW S \in SUBSET Names, NEW Open \in SUBSET Assigned
    PROVE  Closure(S, Open) \subseteq Names
<1>1. Closed(Reads, Open, Names)
  BY DesignFacts DEF Closed
<1> QED BY <1>1, ReachIs
-----------------------------------------------------------------------------
(* The environments of the kernel.                                         *)
LEMMA TablesNames ==
    ASSUME DesignOK
    PROVE  /\ Tables!Sigs = Stop /\ Tables!State = [Stop -> Val]
           /\ Tables!Env = [Stop \cup Cached -> Val]
           /\ Tables!Holds = 0 .. NHolds - 1 /\ Tables!Ports = 1 .. NPorts
           /\ Stop \cap Cached = {}
<1>1. Stop = Inputs \cup Regs \cup Cells
  BY DEF DesignOK, Typed
<1> QED BY <1>1, DesignFacts DEF Tables!Sigs, Tables!State, Tables!Env, Tables!Holds, Tables!Ports

\* Binding the temporaries as locals gives the names that no cache holds.
LEMMA BoundIs ==
    ASSUME DesignOK, NEW e \in Tables!Env
    PROVE  /\ Bound(e) \in Values /\ Satisfied(Bound(e), Temps)
           /\ \A x \in Stop \cup Cached : Bound(e)[x] = e[x]
<1> DEFINE with(v) == [x \in Names |-> IF x \in Temps THEN v[x] ELSE e[x]]
           W == {with(v) : v \in [Temps -> Val]}
           z == [x \in Temps |-> Zero]
           b == with(z)
<1>1. e \in [Stop \cup Cached -> Val] /\ Names = Stop \cup Cached \cup Temps
      /\ (Stop \cup Cached) \cap Temps = {}
  BY TablesNames, DesignFacts
<1>2. W \subseteq Values /\ \A f \in W, x \in Stop \cup Cached : f[x] = e[x]
  BY <1>1 DEF Values
<1>3. b \in W
  <2>1. z \in [Temps -> Val]
    BY DesignFacts
  <2> HIDE DEF z
  <2> QED BY <2>1
<1>4. PICK f \in Values : Satisfied(f, Temps) /\ \A n \in Names \ Temps : f[n] = b[n]
  <2> HIDE DEF b
  <2> QED BY <1>2, <1>3, DesignFacts, LoopFreeSolves
<1>5. f \in W
  <2> DEFINE v == [x \in Temps |-> f[x]]
  <2>1. v \in [Temps -> Val]
    BY <1>1 DEF Values
  <2>2. f = with(v)
    BY <1>1, <1>4 DEF Values
  <2> HIDE DEF v
  <2> QED BY <2>1, <2>2
<1>6. Bound(e) \in W /\ \A n \in Temps : Bound(e)[n] = Expr(n, Bound(e))
  <2>1. Bound(e) = CHOOSE g \in W : \A n \in Temps : g[n] = Expr(n, g)
    BY DEF Bound
  <2>2. \E g \in W : \A n \in Temps : g[n] = Expr(n, g)
    BY <1>4, <1>5 DEF Satisfied
  <2> HIDE DEF W
  <2> QED BY <2>1, <2>2
<1> QED BY <1>2, <1>6 DEF Satisfied

\* Names keep their value when what lies where a reading stops is kept.
LEMMA CutSuffices ==
    ASSUME DesignOK, NEW e \in Tables!Env, NEW m \in Tables!Env, NEW X \in SUBSET Names,
           \A n \in Closure(X, Temps) \ Temps : e[n] = m[n]
    PROVE  \A x \in X : Bound(e)[x] = Bound(m)[x]
<1> DEFINE S == Closure(X, Temps)
<1>1. X \subseteq S /\ Closed(Reads, Temps, S) /\ S \subseteq Names
  BY DesignFacts, ReachIs, ReachInNames
<1>2. \A n \in S \ Temps : e[n] = m[n]
  OBVIOUS
<1> HIDE DEF S
<1>3. ASSUME NEW n \in S \ Temps
      PROVE  Bound(e)[n] = Bound(m)[n]
  <2>1. n \in Stop \cup Cached
    BY <1>1, DesignFacts
  <2> QED BY <1>2, <2>1, BoundIs
<1>4. /\ Bound(e) \in Values /\ Satisfied(Bound(e), S \cap Temps)
      /\ Bound(m) \in Values /\ Satisfied(Bound(m), S \cap Temps)
  BY BoundIs DEF Satisfied
<1>5. \A n \in S : Bound(e)[n] = Bound(m)[n]
  BY <1>1, <1>3, <1>4, DesignFacts, LoopFreeDetermines
<1> QED BY <1>1, <1>5

\* Whatever else is hidden, it is enough to give the nearest caches below.
LEMMA CachesSuffice ==
    ASSUME DesignOK, NEW e \in Tables!Env, NEW X \in SUBSET Names,
           NEW C \in SUBSET Cached, CachedBelow(X) \subseteq C
    PROVE  /\ Tables!Mask(e, C) \in Tables!Env
           /\ \A x \in X : Bound(e)[x] = Bound(Tables!Mask(e, C))[x]
<1> DEFINE m == Tables!Mask(e, C)
<1>1. m = [x \in Stop \cup Cached |-> IF x \in Stop \cup C THEN e[x] ELSE Zero]
  BY TablesNames DEF Tables!Mask
<1>2. m \in Tables!Env /\ \A x \in Stop \cup C : m[x] = e[x]
  BY <1>1, TablesNames, DesignFacts
<1>3. Closure(X, Temps) \subseteq Names /\ Closure(X, Temps) \cap Cached \subseteq C
  BY DesignFacts, ReachInNames DEF CachedBelow
<1> HIDE DEF m
<1>4. \A n \in Closure(X, Temps) \ Temps : e[n] = m[n]
  BY <1>2, <1>3, DesignFacts
<1> QED BY <1>2, <1>4, CutSuffices DEF m

\* In a settled environment every name has the value of its expression.
LEMMA SettledIsSolved ==
    ASSUME DesignOK, NEW s \in Tables!State, NEW e \in Tables!Extensions(s), Tables!IsSettled(e)
    PROVE  /\ e \in Tables!Env /\ Bound(e) \in Values
           /\ Satisfied(Bound(e), Assigned)
           /\ \A x \in Stop : Bound(e)[x] = s[x]
           /\ \A w \in Cached : Bound(e)[w] = e[w]
<1>1. PICK v \in [Cached -> Val] : e = Tables!Extend(s, v)
  BY DEF Tables!Extensions
<1>2. e = [x \in Stop \cup Cached |-> IF x \in Stop THEN s[x] ELSE v[x]]
  BY <1>1, TablesNames, Zenon DEF Tables!Extend
<1>3. e \in Tables!Env /\ \A x \in Stop : e[x] = s[x]
  <2>1. \A x \in Stop \cup Cached : (IF x \in Stop THEN s[x] ELSE v[x]) \in Val
    BY TablesNames
  <2>2. e \in [Stop \cup Cached -> Val]
    BY <1>2, <2>1, Zenon
  <2> QED BY <1>2, <2>2, TablesNames, Zenon
<1>4. \A w \in Cached : e[w] = Expr(w, Bound(e))
  BY DEF Tables!IsSettled, WireOf
<1> QED BY <1>3, <1>4, BoundIs, DesignFacts DEF Satisfied

\* A graph without a loop is a netlist without a combinational loop: every
\* state has one environment that settles it.
LEMMA EveryStateSettles == DesignOK => Tables!SettlesOnce
<1> SUFFICES ASSUME DesignOK, NEW s \in Tables!State
             PROVE  /\ \E e \in Tables!Extensions(s) : Tables!IsSettled(e)
                    /\ \A d, e \in Tables!Extensions(s) :
                          Tables!IsSettled(d) /\ Tables!IsSettled(e) => d = e
  BY DEF Tables!SettlesOnce
<1>1. \E e \in Tables!Extensions(s) : Tables!IsSettled(e)
  <2> DEFINE b == [x \in Names |-> IF x \in Stop THEN s[x] ELSE Zero]
  <2>1. b \in Values
    BY TablesNames, DesignFacts DEF Values
  <2>2. PICK f \in Values : Satisfied(f, Assigned) /\ \A n \in Names \ Assigned : f[n] = b[n]
    <3> HIDE DEF b
    <3> QED BY <2>1, LoopFreeSolves
  <2>3. \A x \in Stop : f[x] = s[x]
    BY <2>2, DesignFacts
  <2> DEFINE v == [w \in Cached |-> f[w]]
             e == Tables!Extend(s, v)
  <2>4. v \in [Cached -> Val] /\ e \in Tables!Extensions(s)
    BY DesignFacts DEF Values, Tables!Extensions
  <2>5. e = [x \in Stop \cup Cached |-> f[x]] /\ e \in Tables!Env
    <3>1. e = [x \in Stop \cup Cached |-> IF x \in Stop THEN s[x] ELSE v[x]]
      BY TablesNames DEF Tables!Extend
    <3>2. \A x \in Stop \cup Cached : (IF x \in Stop THEN s[x] ELSE v[x]) = f[x]
      BY <2>3
    <3>3. e = [x \in Stop \cup Cached |-> f[x]]
      BY <3>1, <3>2, Zenon
    <3> HIDE DEF e
    <3> QED BY <3>3, TablesNames, DesignFacts DEF Values
  <2> HIDE DEF v, e
  <2>6. \A x \in Names : Bound(e)[x] = f[x]
    <3>1. Closed(Reads, Temps, Names)
      BY DesignFacts DEF Closed
    <3>2. \A x \in Names \ Temps : Bound(e)[x] = f[x]
      <4>1. \A x \in Stop \cup Cached : Bound(e)[x] = e[x] /\ e[x] = f[x]
        BY <2>5, BoundIs, Zenon
      <4> QED BY <4>1, DesignFacts
    <3>3. Names \cap Temps = Temps /\ Temps \in SUBSET Assigned
      BY DesignFacts
    <3>4. Satisfied(f, Temps)
      BY <2>2, <3>3 DEF Satisfied
    <3>5. Bound(e) \in Values /\ Satisfied(Bound(e), Temps)
      BY <2>5, BoundIs
    <3>6. Satisfied(f, Names \cap Temps) /\ Satisfied(Bound(e), Names \cap Temps)
      BY <3>3, <3>4, <3>5
    <3> QED BY <3>1, <3>2, <3>3, <3>5, <3>6, LoopFreeDetermines
  <2>7. Bound(e) = f
    BY <2>5, <2>6, BoundIs DEF Values
  <2>8. Tables!IsSettled(e)
    BY <2>2, <2>5, <2>7, DesignFacts DEF Tables!IsSettled, WireOf, Satisfied
  <2> QED BY <2>4, <2>8
<1>2. ASSUME NEW d \in Tables!Extensions(s), NEW e \in Tables!Extensions(s),
             Tables!IsSettled(d), Tables!IsSettled(e)
      PROVE  d = e
  <2>1. Closed(Reads, Assigned, Names)
    BY DesignFacts DEF Closed
  <2>2. \A n \in Names \ Assigned : Bound(d)[n] = Bound(e)[n]
    BY <1>2, SettledIsSolved, DesignFacts
  <2>3. Names \cap Assigned = Assigned
    BY DesignFacts
  <2>4. \A n \in Names : Bound(d)[n] = Bound(e)[n]
    BY <1>2, <2>1, <2>2, <2>3, SettledIsSolved, LoopFreeDetermines
  <2>5. \A x \in Stop \cup Cached : d[x] = e[x]
    BY <1>2, <2>4, SettledIsSolved, BoundIs, DesignFacts
  <2>6. d \in [Stop \cup Cached -> Val] /\ e \in [Stop \cup Cached -> Val]
    BY <1>2, SettledIsSolved, TablesNames
  <2> QED BY <2>5, <2>6
<1> QED BY <1>1, <1>2

\* Settled(s) is a settled extension of the state s.
LEMMA TheSettled ==
    ASSUME DesignOK, NEW s \in Tables!State
    PROVE  Tables!Settled(s) \in Tables!Extensions(s) /\ Tables!IsSettled(Tables!Settled(s))
  BY EveryStateSettles DEF Tables!SettlesOnce, Tables!Settled

\* In two states names have one value when the names where a reading stops do.
LEMMA CutDetermines ==
    ASSUME DesignOK, NEW s \in Tables!State, NEW t \in Tables!State,
           NEW X \in SUBSET Names, NEW O \in SUBSET Assigned,
           \A n \in Closure(X, O) \ O :
               Bound(Tables!Settled(s))[n] = Bound(Tables!Settled(t))[n]
    PROVE  \A n \in X : Bound(Tables!Settled(s))[n] = Bound(Tables!Settled(t))[n]
<1> DEFINE f == Bound(Tables!Settled(s))
           g == Bound(Tables!Settled(t))
           S == Closure(X, O)
<1>1. X \subseteq S /\ Closed(Reads, O, S) /\ S \subseteq Names
  BY ReachIs, ReachInNames
<1>2. f \in Values /\ Satisfied(f, Assigned) /\ g \in Values /\ Satisfied(g, Assigned)
  BY TheSettled, SettledIsSolved
<1>3. \A n \in S \ O : f[n] = g[n]
  OBVIOUS
<1> HIDE DEF f, g, S
<1>4. Satisfied(f, S \cap O) /\ Satisfied(g, S \cap O)
  BY <1>2 DEF Satisfied
<1>5. \A n \in S : f[n] = g[n]
  BY <1>1, <1>2, <1>3, <1>4, LoopFreeDetermines
<1> QED BY <1>1, <1>5 DEF f, g

\* The elements in its cone determine a name.
LEMMA ConeDetermines ==
    ASSUME DesignOK, NEW s \in Tables!State, NEW t \in Tables!State, NEW n \in Names,
           \A x \in ConeLeaves(n) : s[x] = t[x]
    PROVE  Bound(Tables!Settled(s))[n] = Bound(Tables!Settled(t))[n]
<1> DEFINE f == Bound(Tables!Settled(s))
           g == Bound(Tables!Settled(t))
<1>1. \A x \in Stop : f[x] = s[x] /\ g[x] = t[x]
  BY TheSettled, SettledIsSolved
<1>2. Closure({n}, Assigned) \ Assigned \subseteq ConeLeaves(n) /\ ConeLeaves(n) \subseteq Stop
  BY ReachInNames, DesignFacts DEF ConeLeaves
<1>3. \A x \in Closure({n}, Assigned) \ Assigned : f[x] = g[x]
  <2> HIDE DEF f, g
  <2> QED BY <1>1, <1>2
<1>4. {n} \in SUBSET Names /\ Assigned \in SUBSET Assigned
  OBVIOUS
<1> QED BY <1>3, <1>4, CutDetermines

\* A changed element outside the cone of a name cannot move it.
LEMMA OutsideTheCone ==
    ASSUME DesignOK, NEW s \in Tables!State, NEW x \in Stop, NEW v \in Val,
           NEW n \in Names, x \notin ConeLeaves(n)
    PROVE  Bound(Tables!Settled([s EXCEPT ![x] = v]))[n] = Bound(Tables!Settled(s))[n]
<1> DEFINE t == [s EXCEPT ![x] = v]
<1>1. t \in Tables!State /\ \A y \in Stop \ {x} : t[y] = s[y]
  BY TablesNames
<1>2. \A y \in ConeLeaves(n) : y \in Stop /\ y # x
  BY DEF ConeLeaves
<1> HIDE DEF t
<1>3. \A y \in ConeLeaves(n) : t[y] = s[y]
  BY <1>1, <1>2
<1> QED BY <1>1, <1>3, ConeDetermines DEF t
-----------------------------------------------------------------------------
(* The theorems about the tables.                                          *)

\* A module without a combinational loop is what the kernel's netlist is
\* assumed to be: its methods, with the temporaries bound as locals, have
\* values of the right kind, and every state settles in exactly one way.
THEOREM PlannedNetlists == DesignOK => Tables!WellTyped /\ Tables!SettlesOnce
<1> SUFFICES ASSUME DesignOK PROVE Tables!WellTyped
  BY EveryStateSettles
<1>1. /\ Zero \in Val /\ NHolds \in Nat /\ NPorts \in Nat
      /\ SourceRank \in [Tables!Holds -> Int]
      /\ Inputs \cap Regs = {} /\ Inputs \cap Cells = {} /\ Regs \cap Cells = {}
      /\ Tables!Sigs \cap Cached = {}
  BY TablesNames DEF DesignOK, Typed
<1>2. ASSUME NEW e \in Tables!Env
      PROVE  /\ \A w \in Cached : WireOf(w, e) \in Val
             /\ \A h \in Tables!Holds :
                   /\ DOMAIN HoldOf(h, e) \subseteq Regs
                   /\ \A r \in DOMAIN HoldOf(h, e) : HoldOf(h, e)[r] \in Val
             /\ \A j \in Tables!Ports : /\ EnableOf(j, e) \in BOOLEAN
                                        /\ AddressOf(j, e) \in Cells
                                        /\ DataOf(j, e) \in Val
             /\ FailsOf(e) \in BOOLEAN
  <2> DEFINE f == Bound(e)
  <2>1. f \in Values
    BY BoundIs
  <2> HIDE DEF f
  <2>2. /\ \A n \in Assigned : Expr(n, f) \in Val
        /\ \A h \in Tables!Holds : /\ DOMAIN Stmt(h, f) \subseteq Regs
                                   /\ \A r \in DOMAIN Stmt(h, f) : Stmt(h, f)[r] \in Val
        /\ \A j \in Tables!Ports :
              Enable(j, f) \in BOOLEAN /\ Address(j, f) \in Cells /\ Data(j, f) \in Val
        /\ Failure(f) \in BOOLEAN
    BY <2>1, TablesNames DEF DesignOK, Typed
  <2> QED BY <2>2, DesignFacts DEF WireOf, HoldOf, EnableOf, AddressOf, DataOf, FailsOf, f
<1> QED BY <1>1, <1>2 DEF Tables!WellTyped

\* What the planner computes are tables over the kernel's wires, pages and
\* holds, and no element has a table that stands for no page at all.
THEOREM PlannedTables == DesignOK => Tables!TablesTyped
<1> SUFFICES ASSUME DesignOK PROVE Tables!TablesTyped
  OBVIOUS
<1>1. Arrays \subseteq Regs /\ Outputs \subseteq Cached /\ AssertReadsOf \subseteq Cached
  BY DEF DesignOK, Typed, AssertReadsOf
<1>2. /\ WirePart \in [Cached -> PageSet]
      /\ LeafPartsOf \in [Tables!Sigs -> SUBSET PageSet]
  BY TablesNames DEF WirePart, PageSet, LeafPartsOf
<1>3. LeafHoldsOf \in [Tables!Sigs -> SUBSET Tables!Holds]
      /\ GateReadsOf \in [Tables!Holds -> SUBSET Cached]
  BY TablesNames DEF LeafHoldsOf, GateReadsOf, CachedBelow, DesignOK, Typed
<1>4. CachedDeps \in [Cached -> SUBSET Cached]
      /\ \A h, e : BranchReadsOf(h, e) \subseteq Cached
  BY DEF CachedDeps, CachedBelow, BranchReadsOf
<1>5. /\ EnReadsOf \in [Tables!Ports -> SUBSET Cached]
      /\ EnTempsOf \in [Tables!Ports -> SUBSET Cached]
      /\ PortReadsOf \in [Tables!Ports -> SUBSET Cached]
  BY TablesNames DEF EnReadsOf, EnTempsOf, PortReadsOf, CachedBelow
<1>6. InvalidationTables \subseteq SUBSET PageSet
  BY DEF InvalidationTables, LeafPartsOf
<1>7. {} \notin InvalidationTables
  <2>1. Cardinality({}) = 0 /\ Inline \in Nat
    BY FS_EmptySet DEF DesignOK, GraphOK
  <2> QED BY <2>1 DEF InvalidationTables
<1> QED BY <1>1, <1>2, <1>3, <1>4, <1>5, <1>6, <1>7 DEF Tables!TablesTyped

\* The nearest caches below an assigned name do not include the name itself,
\* although cached_deps drops it as if they could.
LEMMA NotItsOwnDependency ==
    ASSUME DesignOK, NEW w \in Cached
    PROVE  CachedDeps[w] = CachedBelow(Reads[w])
<1>1. PICK rank \in [Assigned -> 0 .. Cardinality(Assigned)] : Ordered(rank)
  BY DEF DesignOK, LoopFree
<1> DEFINE D == {n \in Names : n \in Assigned => rank[n] < rank[w]}
<1>2. \A n \in Assigned : rank[n] \in Int
  BY <1>1, DesignFacts
<1>3. Reads[w] \subseteq D
  BY <1>1, DesignFacts DEF Ordered
<1>4. Closed(Reads, Temps, D)
  <2> SUFFICES ASSUME NEW n \in D \cap Temps, NEW m \in Reads[n] PROVE m \in D
    BY DEF Closed
  <2>1. n \in Assigned /\ rank[n] < rank[w] /\ w \in Assigned /\ m \in Names
    BY DesignFacts
  <2>2. m \in Assigned => rank[m] < rank[n]
    BY <1>1, <2>1 DEF Ordered
  <2> QED BY <1>2, <2>1, <2>2
<1>5. w \notin D
  BY <1>2, DesignFacts
<1> HIDE DEF D
<1>6. Closure(Reads[w], Temps) \subseteq D
  BY <1>3, <1>4, ReachIs, DesignFacts
<1>7. w \notin CachedBelow(Reads[w])
  BY <1>5, <1>6, DesignFacts DEF CachedBelow
<1> QED BY <1>7 DEF CachedDeps

\* Every expression of the kernel keeps its value when all caches are hidden
\* but those that are evaluated before it: cached_deps and its siblings miss no
\* cache that an expression reads, directly or through local temporaries.
THEOREM NothingReadUnevaluated == DesignOK => Tables!ReadsNamed
<1> SUFFICES ASSUME DesignOK, NEW e \in Tables!Env
             PROVE  /\ \A w \in Cached : WireOf(w, e) = WireOf(w, Tables!Mask(e, CachedDeps[w]))
                    /\ \A h \in Tables!Holds :
                          /\ BranchReadsOf(h, e) = BranchReadsOf(h, Tables!Mask(e, GateReadsOf[h]))
                          /\ HoldOf(h, e) = HoldOf(h, Tables!Mask(e, GateReadsOf[h] \cup BranchReadsOf(h, e)))
                    /\ \A j \in Tables!Ports :
                          /\ EnableOf(j, e) = EnableOf(j, Tables!Mask(e, EnReadsOf[j] \cup EnTempsOf[j]))
                          /\ AddressOf(j, e) = AddressOf(j, Tables!Mask(e, PortReadsOf[j]))
                          /\ DataOf(j, e) = DataOf(j, Tables!Mask(e, PortReadsOf[j]))
                    /\ FailsOf(e) = FailsOf(Tables!Mask(e, AssertReadsOf))
  BY DEF Tables!ReadsNamed
<1> DEFINE M(C) == Tables!Mask(e, C)
<1>1. ASSUME NEW X \in SUBSET Names, NEW C \in SUBSET Cached, CachedBelow(X) \subseteq C
      PROVE  /\ Bound(e) \in Values /\ Bound(M(C)) \in Values
             /\ Only(Bound(e), X) = Only(Bound(M(C)), X)
  <2>1. M(C) \in Tables!Env /\ \A x \in X : Bound(e)[x] = Bound(M(C))[x]
    BY <1>1, CachesSuffice
  <2> HIDE DEF M
  <2> QED BY <2>1, BoundIs, OnlyAgree
<1> HIDE DEF M
<1>2. ASSUME NEW w \in Cached
      PROVE  WireOf(w, e) = WireOf(w, M(CachedDeps[w]))
  <2>1. CachedDeps[w] = CachedBelow(Reads[w]) /\ CachedDeps[w] \subseteq Cached
        /\ Reads[w] \in SUBSET Names /\ w \in Assigned
    BY NotItsOwnDependency, DesignFacts DEF CachedBelow
  <2> DEFINE f == Bound(e)
             g == Bound(M(CachedDeps[w]))
  <2>2. f \in Values /\ g \in Values /\ Only(f, Reads[w]) = Only(g, Reads[w])
    BY <1>1, <2>1
  <2> HIDE DEF f, g
  <2>3. Expr(w, f) = Expr(w, Only(f, Reads[w])) /\ Expr(w, g) = Expr(w, Only(g, Reads[w]))
    BY <2>1, <2>2 DEF DesignOK, IdsRight
  <2> QED BY <2>2, <2>3 DEF WireOf, f, g
<1>3. ASSUME NEW h \in Tables!Holds
      PROVE  /\ BranchReadsOf(h, e) = BranchReadsOf(h, M(GateReadsOf[h]))
             /\ HoldOf(h, e) = HoldOf(h, M(GateReadsOf[h] \cup BranchReadsOf(h, e)))
  <2> DEFINE f == Bound(e)
             k == Bound(M(GateReadsOf[h]))
             g == Bound(M(GateReadsOf[h] \cup BranchReadsOf(h, e)))
             taken == GateIds[h] \cup BranchIds(h, f)
  <2>1. h \in 0 .. NHolds - 1 /\ f \in Values
    BY TablesNames, BoundIs
  <2>2. taken \subseteq StmtIds[h] /\ StmtIds[h] \subseteq Names
    BY <2>1 DEF DesignOK, IdsRight
  <2>3. /\ GateReadsOf[h] = CachedBelow(GateIds[h])
        /\ BranchReadsOf(h, e) = CachedBelow(BranchIds(h, f))
        /\ GateReadsOf[h] \subseteq Cached /\ BranchReadsOf(h, e) \subseteq Cached
    BY <2>1 DEF GateReadsOf, BranchReadsOf, CachedBelow, DesignOK, Typed
  <2>4. /\ GateIds[h] \in SUBSET Names /\ BranchIds(h, f) \in SUBSET Names
        /\ GateReadsOf[h] \cup BranchReadsOf(h, e) \in SUBSET Cached
    BY <2>2, <2>3
  <2>5. k \in Values /\ Only(f, GateIds[h]) = Only(k, GateIds[h])
    BY <1>1, <2>3, <2>4
  <2>6. /\ g \in Values
        /\ Only(f, GateIds[h]) = Only(g, GateIds[h])
        /\ Only(f, BranchIds(h, f)) = Only(g, BranchIds(h, f))
    BY <1>1, <2>3, <2>4
  <2> HIDE DEF f, g, k
  <2>7. \A u \in Values :
           /\ BranchIds(h, u) = BranchIds(h, Only(u, GateIds[h]))
           /\ Stmt(h, u) = Stmt(h, Only(u, GateIds[h] \cup BranchIds(h, u)))
    BY <2>1 DEF DesignOK, IdsRight
  <2>8. BranchIds(h, k) = BranchIds(h, f) /\ BranchIds(h, g) = BranchIds(h, f)
    BY <2>1, <2>5, <2>6, <2>7
  <2>9. Only(f, taken) = Only(g, taken)
    <3>1. \A x \in taken : f[x] = g[x]
      BY <2>4, <2>6 DEF Only
    <3> QED BY <3>1, OnlyAgree
  <2>10. Stmt(h, f) = Stmt(h, g)
    BY <2>1, <2>6, <2>7, <2>8, <2>9
  <2> QED BY <2>3, <2>8, <2>10 DEF BranchReadsOf, HoldOf, f, g, k
<1>4. ASSUME NEW j \in Tables!Ports
      PROVE  /\ EnableOf(j, e) = EnableOf(j, M(EnReadsOf[j] \cup EnTempsOf[j]))
             /\ AddressOf(j, e) = AddressOf(j, M(PortReadsOf[j]))
             /\ DataOf(j, e) = DataOf(j, M(PortReadsOf[j]))
  <2>1. j \in 1 .. NPorts
    BY TablesNames
  <2>2. /\ EnTempsOf[j] = CachedBelow(EnableIds[j]) /\ PortReadsOf[j] = CachedBelow(StoreIds[j])
        /\ EnReadsOf[j] \cup EnTempsOf[j] \in SUBSET Cached /\ PortReadsOf[j] \in SUBSET Cached
    BY <2>1 DEF EnReadsOf, EnTempsOf, PortReadsOf, CachedBelow
  <2>3. EnableIds[j] \in SUBSET Names /\ StoreIds[j] \in SUBSET Names
    <3>1. PICK f : f \in Values
      BY BoundIs
    <3> QED BY <2>1, <3>1 DEF DesignOK, IdsRight
  <2> DEFINE f == Bound(e)
             g == Bound(M(EnReadsOf[j] \cup EnTempsOf[j]))
             k == Bound(M(PortReadsOf[j]))
  <2>4. f \in Values /\ g \in Values /\ Only(f, EnableIds[j]) = Only(g, EnableIds[j])
    BY <1>1, <2>2, <2>3
  <2>5. k \in Values /\ Only(f, StoreIds[j]) = Only(k, StoreIds[j])
    BY <1>1, <2>2, <2>3
  <2> HIDE DEF f, g, k
  <2>6. \A u \in Values : /\ Enable(j, u) = Enable(j, Only(u, EnableIds[j]))
                          /\ Address(j, u) = Address(j, Only(u, StoreIds[j]))
                          /\ Data(j, u) = Data(j, Only(u, StoreIds[j]))
    BY <2>1 DEF DesignOK, IdsRight
  <2>7. Enable(j, f) = Enable(j, g) /\ Address(j, f) = Address(j, k) /\ Data(j, f) = Data(j, k)
    BY <2>4, <2>5, <2>6
  <2> QED BY <2>7 DEF EnableOf, AddressOf, DataOf, f, g, k
<1>5. FailsOf(e) = FailsOf(M(AssertReadsOf))
  <2>1. FailureIds \subseteq Stop \cup Cached /\ AssertReadsOf = FailureIds \cap Cached
    BY DEF DesignOK, RootsCached, AssertReadsOf
  <2>2. Closed(Reads, Temps, FailureIds)
    BY <2>1, DesignFacts DEF Closed
  <2>3. CachedBelow(FailureIds) \subseteq AssertReadsOf
    BY <2>1, <2>2, ReachIs, DesignFacts DEF CachedBelow
  <2> DEFINE f == Bound(e)
             g == Bound(M(AssertReadsOf))
  <2>4. f \in Values /\ g \in Values /\ Only(f, FailureIds) = Only(g, FailureIds)
    <3>1. FailureIds \in SUBSET Names /\ AssertReadsOf \in SUBSET Cached
      BY <2>1, DesignFacts
    <3> QED BY <1>1, <2>3, <3>1
  <2> HIDE DEF f, g
  <2>5. \A u \in Values : Failure(u) = Failure(Only(u, FailureIds))
    BY DEF DesignOK, IdsRight
  <2>6. Failure(f) = Failure(g)
    BY <2>4, <2>5
  <2> QED BY <2>6 DEF FailsOf, f, g
<1> QED BY <1>2, <1>3, <1>4, <1>5 DEF M

\* A hold does the same when the names in its statements have the same values.
LEMMA SameIdsSameStmt ==
    ASSUME DesignOK, NEW h \in Tables!Holds, NEW f \in Values, NEW g \in Values,
           \A n \in StmtIds[h] : f[n] = g[n]
    PROVE  Stmt(h, f) = Stmt(h, g)
<1>1. h \in 0 .. NHolds - 1
  BY TablesNames
<1>2. \A u \in Values :
         /\ GateIds[h] \cup BranchIds(h, u) \subseteq StmtIds[h]
         /\ BranchIds(h, u) = BranchIds(h, Only(u, GateIds[h]))
         /\ Stmt(h, u) = Stmt(h, Only(u, GateIds[h] \cup BranchIds(h, u)))
  BY <1>1 DEF DesignOK, IdsRight
<1>3. Only(g, GateIds[h]) = Only(f, GateIds[h])
  <2>1. \A n \in GateIds[h] : g[n] = f[n]
    BY <1>2
  <2> QED BY <2>1, OnlyAgree
<1>4. BranchIds(h, g) = BranchIds(h, f)
  BY <1>2, <1>3
<1>5. Only(g, GateIds[h] \cup BranchIds(h, f)) = Only(f, GateIds[h] \cup BranchIds(h, f))
  <2>1. \A n \in GateIds[h] \cup BranchIds(h, f) : g[n] = f[n]
    BY <1>2
  <2> QED BY <2>1, OnlyAgree
<1> QED BY <1>2, <1>4, <1>5

\* A changed element that does not bump the page of a wire leaves the settled
\* value of the wire alone, and one that wakes no hold changes nothing that the
\* hold assigns: cone_leaves and _stmt_stop_leaves miss no leaf.
THEOREM EveryChangeWakes == DesignOK => Tables!ChangesWake
<1> SUFFICES ASSUME DesignOK, NEW s \in Tables!State, NEW x \in Stop, NEW v \in Val
             PROVE  LET t == [s EXCEPT ![x] = v] IN
                    /\ \A w \in Cached : WirePart[w] \notin LeafPartsOf[x] =>
                          Tables!Settled(t)[w] = Tables!Settled(s)[w]
                    /\ \A h \in Tables!Holds : h \notin LeafHoldsOf[x] =>
                          HoldOf(h, Tables!Settled(t)) = HoldOf(h, Tables!Settled(s))
  BY TablesNames DEF Tables!ChangesWake
<1> DEFINE t == [s EXCEPT ![x] = v]
           f == Bound(Tables!Settled(s))
           g == Bound(Tables!Settled(t))
<1>1. t \in Tables!State
  BY TablesNames
<1>2. \A n \in Names : x \notin ConeLeaves(n) => g[n] = f[n]
  BY OutsideTheCone
<1> HIDE DEF t
<1>3. /\ f \in Values /\ g \in Values
      /\ \A w \in Cached : f[w] = Tables!Settled(s)[w] /\ g[w] = Tables!Settled(t)[w]
  BY <1>1, TheSettled, SettledIsSolved
<1> HIDE DEF f, g
<1>4. ASSUME NEW w \in Cached, WirePart[w] \notin LeafPartsOf[x]
      PROVE  Tables!Settled(t)[w] = Tables!Settled(s)[w]
  <2>1. WirePart[w] = ConeLeaves(w) /\ WirePart[w] \in PageSet
    BY DEF WirePart, PageSet
  <2>2. x \notin ConeLeaves(w)
    BY <1>4, <2>1 DEF LeafPartsOf
  <2> QED BY <1>2, <1>3, <2>2, DesignFacts
<1>5. ASSUME NEW h \in Tables!Holds, h \notin LeafHoldsOf[x]
      PROVE  HoldOf(h, Tables!Settled(t)) = HoldOf(h, Tables!Settled(s))
  <2>1. h \in 0 .. NHolds - 1 /\ h \in DOMAIN StmtIds
    BY TablesNames DEF DesignOK, Typed
  <2>2. \A n \in StmtIds[h] : x \notin ConeLeaves(n)
    BY <1>5, <2>1 DEF LeafHoldsOf, LeavesBelow
  <2>3. StmtIds[h] \subseteq Names
    BY <1>3, <2>1 DEF DesignOK, IdsRight
  <2>4. \A n \in StmtIds[h] : g[n] = f[n]
    BY <1>2, <2>2, <2>3
  <2>5. Stmt(h, g) = Stmt(h, f)
    BY <1>3, <2>4, SameIdsSameStmt
  <2> QED BY <2>5 DEF HoldOf, f, g
<1> QED BY <1>4, <1>5 DEF t

\* When every element that an enable depends on bumps some page, as it does when
\* the names in the enables are cached, an element that bumps none moves no enable.
\* The scan of the write ports needs this; DirectEnable has a module without it.
THEOREM CachedEnablesArePaged ==
    ASSUME DesignOK, \A j \in 1 .. NPorts : EnableIds[j] \subseteq Cached
    PROVE  Tables!EnablesPaged
<1> SUFFICES ASSUME NEW s \in Tables!State, NEW x \in Stop, NEW v \in Val,
                    NEW j \in 1 .. NPorts, LeafPartsOf[x] = {}
             PROVE  EnableOf(j, Tables!Settled([s EXCEPT ![x] = v])) = EnableOf(j, Tables!Settled(s))
  BY TablesNames DEF Tables!EnablesPaged
<1> DEFINE t == [s EXCEPT ![x] = v]
           f == Bound(Tables!Settled(s))
           g == Bound(Tables!Settled(t))
<1>1. t \in Tables!State
  BY TablesNames
<1>2. \A n \in EnableIds[j] : n \in Names /\ x \notin ConeLeaves(n)
  BY DesignFacts DEF LeafPartsOf, PageSet, WirePart
<1>3. \A n \in EnableIds[j] : g[n] = f[n]
  BY <1>2, OutsideTheCone
<1> HIDE DEF t
<1>4. f \in Values /\ g \in Values
  BY <1>1, TheSettled, SettledIsSolved
<1> HIDE DEF f, g
<1>5. Only(g, EnableIds[j]) = Only(f, EnableIds[j])
  BY <1>3, OnlyAgree
<1>6. Enable(j, g) = Enable(j, f)
  BY <1>4, <1>5 DEF DesignOK, IdsRight
<1> QED BY <1>6 DEF EnableOf, f, g, t
-----------------------------------------------------------------------------
(* The walk.                                                               *)

\* The names that a call reads through.
Open == IF call = "leaves" THEN Assigned ELSE Assigned \ cached

\* Everything the call may look at.
Below == IF call = "leaves" THEN Plan!Closure({root}, Open)
         ELSE {root} \cup Plan!Closure(reads[root], Open)

InputOK ==
    /\ reads \in Graphs /\ cached \subseteq Assigned
    /\ call \in {"leaves", "deps"} /\ root \in Names
    /\ call = "deps" => root \in cached

WalkOK ==
    /\ stack \in Seq(Names) /\ seen \subseteq Names
    /\ ToSet(stack) \cup seen \subseteq Below
    /\ root \in seen \/ (stack = <<root>> /\ seen = {})

\* What was found, and what the seen names read.
SeenOK ==
    /\ found = {n \in seen : Found(n)}
    /\ \A n \in seen : Found(n) \/ (n \in Assigned /\
          reads[n] \subseteq seen \cup ToSet(stack) \cup (IF call = "deps" THEN Stop ELSE {}))

WalkInv == InputOK /\ WalkOK /\ SeenOK

\* The input of a walk is a graph over names.
LEMMA InputFacts ==
    ASSUME InputOK
    PROVE  /\ Open \in SUBSET Assigned /\ Names = Stop \cup Assigned /\ Stop \cap Assigned = {}
           /\ \A n \in Assigned : reads[n] \subseteq Names
  BY GraphAssumption, WalkAssumption DEF InputOK, Open, Names

\* Popping a name and pushing what it reads.
LEMMA StackFacts ==
    ASSUME stack \in Seq(Names), stack # <<>>
    PROVE  /\ Last(stack) \in Names
           /\ Front(stack) \in Seq(Names)
           /\ ToSet(stack) = ToSet(Front(stack)) \cup {Last(stack)}
<1> DEFINE k == Len(stack)
<1>1. k \in Nat /\ k # 0 /\ DOMAIN stack = 1 .. k /\ \A i \in 1 .. k : stack[i] \in Names
  BY EmptySeq, LenProperties
<1>2. /\ Front(stack) \in Seq(Names) /\ Len(Front(stack)) = k - 1
      /\ \A i \in 1 .. k - 1 : Front(stack)[i] = stack[i]
  BY <1>1, SubSeqProperties DEF Front
<1>3. DOMAIN Front(stack) = 1 .. k - 1
  BY <1>2, LenProperties
<1>4. ToSet(stack) = ToSet(Front(stack)) \cup {stack[k]}
  BY <1>1, <1>2, <1>3 DEF ToSet
<1> QED BY <1>1, <1>2, <1>4 DEF Last

\* Pushing the members of a set, in any order, adds them to the stack.
LEMMA PushFacts ==
    ASSUME NEW s \in Seq(Names), NEW S \in SUBSET Names, NEW order \in SetToSeqs(S)
    PROVE  /\ s \o order \in Seq(Names)
           /\ ToSet(s \o order) = ToSet(s) \cup S
<1> DEFINE c == Cardinality(S)
<1>1. IsFiniteSet(S) /\ c \in Nat /\ IsFiniteSet(1 .. c) /\ Cardinality(1 .. c) = c
  <2>1. IsFiniteSet(S)
    BY GraphAssumption, FS_Subset DEF Names
  <2>2. c \in Nat
    BY <2>1, FS_CardinalityType
  <2>3. 1 \in Int /\ c \in Int
    BY <2>2
  <2> HIDE DEF c
  <2>4. IsFiniteSet(1 .. c) /\ Cardinality(1 .. c) = IF 1 > c THEN 0 ELSE c - 1 + 1
    BY <2>3, FS_Interval
  <2> QED BY <2>1, <2>2, <2>4
<1>2. order \in [1 .. c -> S] /\ \A i, j \in 1 .. c : i # j => order[i] # order[j]
  BY DEF SetToSeqs
<1>3. order \in Seq(Names) /\ Len(order) = c
  <2>1. order \in [1 .. c -> Names]
    BY <1>2
  <2> QED BY <1>1, <2>1, IsASeq, LenProperties
<1>4. {order[i] : i \in 1 .. c} = S
  <2>1. order \in Injection(1 .. c, S)
    BY <1>2 DEF Injection, IsInjective
  <2>2. order \in Surjection(1 .. c, S)
    BY <1>1, <2>1, FS_Injection
  <2> QED BY <1>2, <2>2 DEF Surjection
<1>5. /\ s \o order \in Seq(Names) /\ Len(s \o order) = Len(s) + c
      /\ \A i \in 1 .. Len(s) : (s \o order)[i] = s[i]
      /\ \A i \in 1 .. c : (s \o order)[Len(s) + i] = order[i]
  <2>1. /\ s \o order \in Seq(Names) /\ Len(s \o order) = Len(s) + Len(order)
        /\ \A i \in 1 .. Len(s) + Len(order) : (s \o order)[i] =
              IF i <= Len(s) THEN s[i] ELSE order[i - Len(s)]
    BY <1>3, ConcatProperties
  <2>2. Len(s) \in Nat
    BY LenProperties
  <2> HIDE DEF c
  <2> QED BY <1>1, <1>3, <2>1, <2>2
<1>6. Len(s) \in Nat /\ DOMAIN s = 1 .. Len(s) /\ DOMAIN (s \o order) = 1 .. Len(s) + c
  BY <1>1, <1>5, LenProperties
<1>7. ToSet(s \o order) = {s[i] : i \in 1 .. Len(s)} \cup {order[i] : i \in 1 .. c}
  <2>1. ASSUME NEW x \in ToSet(s \o order)
        PROVE  x \in {s[i] : i \in 1 .. Len(s)} \cup {order[i] : i \in 1 .. c}
    <3>1. PICK i \in 1 .. Len(s) + c : x = (s \o order)[i]
      BY <1>6, <2>1 DEF ToSet
    <3>2. CASE i <= Len(s)
      BY <1>5, <1>6, <3>1, <3>2
    <3>3. CASE i > Len(s)
      <4>1. i - Len(s) \in 1 .. c /\ Len(s) + (i - Len(s)) = i
        BY <1>1, <1>6, <3>3
      <4> QED BY <1>5, <3>1, <4>1
    <3> QED BY <1>1, <1>6, <3>2, <3>3
  <2>2. ASSUME NEW i \in 1 .. Len(s)
        PROVE  s[i] \in ToSet(s \o order)
    <3>1. i \in 1 .. Len(s) + c
      BY <1>1, <1>6
    <3> QED BY <1>5, <1>6, <3>1 DEF ToSet
  <2>3. ASSUME NEW i \in 1 .. c
        PROVE  order[i] \in ToSet(s \o order)
    <3>1. Len(s) + i \in 1 .. Len(s) + c
      BY <1>1, <1>6
    <3> QED BY <1>5, <1>6, <3>1 DEF ToSet
  <2> QED BY <2>1, <2>2, <2>3
<1> QED BY <1>4, <1>5, <1>6, <1>7 DEF ToSet
-----------------------------------------------------------------------------
(* The invariant.                                                          *)
LEMMA WalkStarts == Init => WalkInv
<1> SUFFICES ASSUME Init PROVE WalkInv
  OBVIOUS
<1>1. InputOK
  BY DEF Init, InputOK
<1>2. stack = <<root>> /\ seen = {} /\ found = {} /\ root \in Names
  BY DEF Init
<1>3. stack \in Seq(Names) /\ ToSet(stack) = {root}
  BY <1>2 DEF ToSet
<1>4. root \in Below
  <2>1. {root} \subseteq Plan!Closure({root}, Open)
    BY <1>1, InputFacts, ClosureIs
  <2> QED BY <2>1 DEF Below
<1>5. WalkOK
  BY <1>2, <1>3, <1>4 DEF WalkOK
<1>6. SeenOK
  BY <1>2 DEF SeenOK
<1> QED BY <1>1, <1>5, <1>6 DEF WalkInv

\* What a name reads through is below the root when the name is.
LEMMA BelowIsClosed ==
    ASSUME InputOK
    PROVE  \A n \in Below \cap Assigned :
               n = root \/ n \in Open => reads[n] \subseteq Below
<1>1. Open \in SUBSET Assigned
  BY InputFacts
<1>2. CASE call = "leaves"
  <2>1. Closed(reads, Open, Plan!Closure({root}, Open))
    BY <1>1, ClosureIs
  <2>2. Open = Assigned
    BY <1>2 DEF Open
  <2> QED BY <1>2, <2>1, <2>2 DEF Below, Closed
<1>3. CASE call # "leaves"
  <2>1. /\ Closed(reads, Open, Plan!Closure(reads[root], Open))
        /\ reads[root] \subseteq Plan!Closure(reads[root], Open)
    BY <1>1, ClosureIs
  <2>2. root \notin Open
    BY <1>3 DEF Open, InputOK
  <2> QED BY <1>3, <2>1, <2>2 DEF Below, Closed
<1> QED BY <1>2, <1>3

\* What lies below the root does not change while a walk goes on.
LEMMA BelowKept ==
    ASSUME UNCHANGED <<reads, cached, call, root>>
    PROVE  Open' = Open /\ Below' = Below
<1>1. Open' = Open
  BY DEF Open
<1>2. Below' = Below
  BY SMT DEF Below, Open, Plan!Closure
<1> QED BY <1>1, <1>2

\* Taking a name off the stack keeps the closed part closed.
LEMMA PopKeeps ==
    ASSUME WalkInv, Pop
    PROVE  WalkOK' /\ SeenOK'
<1> DEFINE name == Last(stack)
           rest == Front(stack)
<1>1. UNCHANGED <<reads, cached, call, root>> /\ Open' = Open /\ Below' = Below
  BY BelowKept DEF Pop, input
<1>2. \A n : Found(n)' <=> Found(n)
  BY <1>1 DEF Found
<1>3. /\ InputOK /\ stack \in Seq(Names) /\ stack # <<>> /\ seen \subseteq Names
      /\ ToSet(stack) \cup seen \subseteq Below
      /\ root \in seen \/ (stack = <<root>> /\ seen = {})
  BY DEF WalkInv, WalkOK, Pop
<1>4. name \in Names /\ rest \in Seq(Names) /\ ToSet(stack) = ToSet(rest) \cup {name}
  BY <1>3, StackFacts
<1>5. root \in seen \/ (name = root /\ seen = {})
  BY <1>3 DEF Last
<1>6. CASE Dropped(name)
  <2>1. stack' = rest /\ seen' = seen /\ found' = found
    BY <1>6 DEF Pop
  <2>2. root \in seen
    <3>1. CASE name \in seen
      BY <1>5, <3>1
    <3>2. CASE call = "deps" /\ name \in Stop
      BY <1>3, <1>5, <3>2, InputFacts DEF InputOK
    <3> QED BY <1>6, <3>1, <3>2 DEF Dropped
  <2>3. WalkOK'
    BY <1>1, <1>3, <1>4, <2>1, <2>2 DEF WalkOK
  <2>4. SeenOK'
    <3>1. name \in seen \cup (IF call = "deps" THEN Stop ELSE {})
      BY <1>6 DEF Dropped
    <3> QED BY <1>1, <1>2, <1>4, <2>1, <3>1 DEF WalkInv, SeenOK
  <2> QED BY <2>3, <2>4
<1>7. CASE ~Dropped(name) /\ Found(name)
  <2>1. stack' = rest /\ seen' = seen \cup {name} /\ found' = found \cup {name}
    BY <1>7 DEF Pop
  <2>2. WalkOK'
    BY <1>1, <1>3, <1>4, <1>5, <2>1 DEF WalkOK
  <2>3. SeenOK'
    BY <1>1, <1>2, <1>4, <1>7, <2>1 DEF WalkInv, SeenOK
  <2> QED BY <2>2, <2>3
<1>8. CASE ~Dropped(name) /\ ~Found(name)
  <2>1. seen' = seen \cup {name} /\ found' = found /\ Push(reads[name])
    BY <1>8 DEF Pop
  <2>2. name \in Assigned
    BY <1>3, <1>4, <1>8, InputFacts DEF Dropped, Found, InputOK
  <2>3. reads[name] \in SUBSET Names
    BY <1>3, <2>2, InputFacts
  <2>4. PICK order \in SetToSeqs(reads[name]) : stack' = rest \o order
    BY <2>1 DEF Push
  <2>5. stack' \in Seq(Names) /\ ToSet(stack') = ToSet(rest) \cup reads[name]
    BY <1>4, <2>3, <2>4, PushFacts
  <2>6. name = root \/ name \in Open
    BY <1>8, <2>2 DEF Open, Found
  <2>7. reads[name] \subseteq Below
    BY <1>3, <1>4, <2>2, <2>6, BelowIsClosed
  <2>8. ToSet(stack)' = ToSet(stack')
    BY DEF ToSet
  <2>9. WalkOK'
    BY <1>1, <1>3, <1>4, <1>5, <2>1, <2>5, <2>7, <2>8 DEF WalkOK
  <2>10. SeenOK'
    BY <1>1, <1>2, <1>4, <1>8, <2>1, <2>2, <2>5, <2>8 DEF WalkInv, SeenOK
  <2> QED BY <2>9, <2>10
<1> QED BY <1>6, <1>7, <1>8

\* The invariant of a walk is inductive.
LEMMA WalkInvariance == Spec => []WalkInv
<1>1. WalkInv /\ [Next]_vars => WalkInv'
  <2> SUFFICES ASSUME WalkInv, [Next]_vars PROVE WalkInv'
    OBVIOUS
  <2>1. CASE Pop
    <3>1. InputOK'
      BY <2>1 DEF Pop, input, WalkInv, InputOK
    <3> QED BY <2>1, <3>1, PopKeeps DEF WalkInv
  <2>2. CASE Return \/ UNCHANGED vars
    <3>1. UNCHANGED <<reads, cached, call, root, stack, seen, found>>
      BY <2>2 DEF Return, input, vars
    <3>2. \A n : Found(n)' <=> Found(n)
      BY <3>1 DEF Found
    <3>3. InputOK' /\ WalkOK'
      BY <3>1, BelowKept DEF WalkInv, InputOK, WalkOK
    <3>4. SeenOK'
      BY <3>1, <3>2 DEF WalkInv, SeenOK
    <3> QED BY <3>3, <3>4 DEF WalkInv
  <2> QED BY <2>1, <2>2 DEF Next
<1> QED BY <1>1, WalkStarts, PTL DEF Spec
-----------------------------------------------------------------------------
(* The answer.                                                             *)

\* The seen names and what lies below the stack are closed together.
LEMMA AnswerIsReached ==
    ASSUME WalkInv, root \in seen
    PROVE  Answer \subseteq found \cup Wanted(ToSet(stack))
<1>1. InputOK /\ Open \in SUBSET Assigned /\ Stop \cap Assigned = {} /\ cached \subseteq Assigned
  BY InputFacts DEF WalkInv, InputOK
<1>2. CASE call = "leaves"
  <2> DEFINE D == seen \cup UNION {Plan!Closure({n}, Open) : n \in ToSet(stack)}
  <2>1. \A n \in ToSet(stack) : n \in Plan!Closure({n}, Open)
                               /\ Closed(reads, Open, Plan!Closure({n}, Open))
    BY <1>1, ClosureIs
  <2>2. \A n \in seen : n \in Stop \/ reads[n] \subseteq seen \cup ToSet(stack)
    BY <1>2 DEF WalkInv, SeenOK, Found
  <2>3. Closed(reads, Open, D)
    BY <1>1, <2>1, <2>2 DEF Closed
  <2>4. Plan!Closure({root}, Open) \subseteq D
    <3>1. {root} \subseteq D
      OBVIOUS
    <3> HIDE DEF D
    <3> QED BY <1>1, <2>3, <3>1, ClosureIs
  <2>5. Open = Assigned
    BY <1>2 DEF Open
  <2>6. seen \cap Stop \subseteq found
    BY <1>2 DEF WalkInv, SeenOK, Found
  <2>7. Answer = Plan!Closure({root}, Open) \cap Stop
    BY <1>2, <2>5 DEF Answer, Plan!ConeLeaves
  <2>8. Wanted(ToSet(stack)) = UNION {Plan!Closure({n}, Open) \cap Stop : n \in ToSet(stack)}
    BY <1>2, <2>5 DEF Wanted, Plan!ConeLeaves, Plan!LeavesBelow
  <2>9. ASSUME NEW x \in Answer
        PROVE  x \in found \cup Wanted(ToSet(stack))
    <3>1. x \in D /\ x \in Stop
      BY <2>4, <2>7
    <3>2. CASE x \in seen
      BY <2>6, <3>1, <3>2
    <3>3. ASSUME NEW n \in ToSet(stack), x \in Plan!Closure({n}, Open)
          PROVE  x \in Wanted(ToSet(stack))
      BY <2>8, <3>1, <3>3
    <3> QED BY <3>1, <3>2, <3>3
  <2> QED BY <2>9
<1>3. CASE call = "deps"
  <2> DEFINE D == seen \cup Stop \cup Plan!Closure(ToSet(stack), Open)
  <2>1. ToSet(stack) \subseteq Plan!Closure(ToSet(stack), Open)
        /\ Closed(reads, Open, Plan!Closure(ToSet(stack), Open))
    BY <1>1, ClosureIs
  <2>2. \A n \in seen : (n # root /\ n \in cached)
                        \/ reads[n] \subseteq seen \cup ToSet(stack) \cup Stop
    BY <1>3 DEF WalkInv, SeenOK, Found
  <2>3. root \in cached /\ Open = Assigned \ cached
    BY <1>1, <1>3 DEF InputOK, Open
  <2>4. Closed(reads, Open, D)
    BY <1>1, <2>1, <2>2, <2>3 DEF Closed
  <2>5. reads[root] \subseteq D
    BY <2>1, <2>2
  <2>6. Plan!Closure(reads[root], Open) \subseteq D
    <3> HIDE DEF D
    <3> QED BY <1>1, <2>4, <2>5, ClosureIs
  <2>7. (seen \cap cached) \ {root} \subseteq found
    BY <1>3 DEF WalkInv, SeenOK, Found
  <2>8. Answer = (Plan!Closure(reads[root], Open) \cap cached) \ {root}
    BY <1>3, <2>3 DEF Answer, Plan!CachedDeps, Plan!CachedBelow
  <2>9. Wanted(ToSet(stack)) = (Plan!Closure(ToSet(stack), Open) \cap cached) \ {root}
    BY <1>3, <2>3 DEF Wanted, Plan!CachedBelow
  <2> QED BY <1>1, <2>6, <2>7, <2>8, <2>9
<1> QED BY <1>1, <1>2, <1>3 DEF InputOK

\* A walk collects nothing that is not below its root.
LEMMA NothingElse ==
    ASSUME WalkInv
    PROVE  found \cup Wanted(ToSet(stack)) \subseteq Answer
<1>1. InputOK /\ Open \in SUBSET Assigned /\ ToSet(stack) \cup seen \subseteq Below
      /\ found \subseteq seen
  BY InputFacts DEF WalkInv, WalkOK, SeenOK
<1>2. CASE call = "leaves"
  <2>1. Open = Assigned /\ Below = Plan!Closure({root}, Open)
    BY <1>2 DEF Open, Below
  <2>2. \A n \in ToSet(stack) : Plan!Closure({n}, Open) \subseteq Below
    <3> TAKE n \in ToSet(stack)
    <3>1. {n} \subseteq Below /\ Closed(reads, Open, Below)
      BY <1>1, <2>1, ClosureIs
    <3> QED BY <1>1, <3>1, ClosureIs
  <2>3. found \subseteq Stop
    BY <1>2 DEF WalkInv, SeenOK, Found
  <2> QED BY <1>1, <1>2, <2>1, <2>2, <2>3 DEF Answer, Wanted, Plan!ConeLeaves, Plan!LeavesBelow
<1>3. CASE call = "deps"
  <2>1. root \in cached /\ Open = Assigned \ cached
        /\ Below = {root} \cup Plan!Closure(reads[root], Open)
    BY <1>1, <1>3 DEF InputOK, Open, Below
  <2>2. Closed(reads, Open, Below)
    <3>1. Closed(reads, Open, Plan!Closure(reads[root], Open))
      BY <1>1, ClosureIs
    <3> QED BY <2>1, <3>1 DEF Closed
  <2>3. Plan!Closure(ToSet(stack), Open) \subseteq Below
    BY <1>1, <2>2, ClosureIs
  <2>4. found \subseteq cached \ {root}
    BY <1>3 DEF WalkInv, SeenOK, Found
  <2>5. Answer = (Plan!Closure(reads[root], Open) \cap cached) \ {root}
    BY <1>3, <2>1 DEF Answer, Plan!CachedDeps, Plan!CachedBelow
  <2>6. Wanted(ToSet(stack)) = (Plan!Closure(ToSet(stack), Open) \cap cached) \ {root}
    BY <1>3, <2>1 DEF Wanted, Plan!CachedBelow
  <2> QED BY <1>1, <2>1, <2>3, <2>4, <2>5, <2>6
<1> QED BY <1>1, <1>2, <1>3 DEF InputOK

\* At every point of cone_leaves and cached_deps what was found and what lies
\* below the stack make up the answer, so that a call which ends returns exactly
\* the leaves, or the nearest caches, in every graph and for every order of pushes.
THEOREM WalksFindAll == Spec => []NothingLost
<1>1. WalkInv => NothingLost
  BY AnswerIsReached, NothingElse DEF NothingLost
<1> QED BY <1>1, WalkInvariance, PTL

\* The leaves of a cached wire include those of the cached wires it reads, so that
\* whatever makes a dependency stale makes its reader stale.
THEOREM ReadersGoStale == Spec => []ReaderStaleWithDep
<1>1. ASSUME WalkInv, NEW w \in cached, NEW d \in Plan!CachedDeps[w]
      PROVE  Plan!WirePart[d] \subseteq Plan!WirePart[w]
  <2> DEFINE C == Plan!Closure({w}, Assigned)
             own == Assigned \ cached
  <2>1. cached \subseteq Assigned /\ own \in SUBSET Assigned /\ Assigned \in SUBSET Assigned
    BY <1>1 DEF WalkInv, InputOK
  <2>2. w \in C /\ Closed(reads, Assigned, C)
    BY <2>1, ClosureIs
  <2>3. reads[w] \subseteq C /\ Closed(reads, own, C)
    BY <1>1, <2>1, <2>2 DEF Closed
  <2>4. Plan!Closure(reads[w], own) \subseteq C
    <3> HIDE DEF C, own
    <3> QED BY <2>1, <2>3, ClosureIs
  <2>5. d \in Plan!Closure(reads[w], own) /\ d \in cached
    BY <1>1 DEF Plan!CachedDeps, Plan!CachedBelow
  <2>6. Plan!Closure({d}, Assigned) \subseteq C
    <3>1. {d} \subseteq C
      BY <2>4, <2>5
    <3> HIDE DEF C
    <3> QED BY <2>1, <2>2, <3>1, ClosureIs
  <2> QED BY <1>1, <2>5, <2>6 DEF Plan!WirePart, Plan!ConeLeaves
<1>2. WalkInv => ReaderStaleWithDep
  BY <1>1 DEF ReaderStaleWithDep
<1> QED BY <1>2, WalkInvariance, PTL
=============================================================================
