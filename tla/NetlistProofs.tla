---------------------------- MODULE NetlistProofs ----------------------------
(***************************************************************************)
(* Facts about netlists that the proofs about both kernels use: a state    *)
(* has one settled environment, and a set of naturals has a least element  *)
(* (the ground of every induction over wires, passes and bits).            *)
(***************************************************************************)
EXTENDS Netlist, FiniteSetTheorems, WellFoundedInduction, TLAPS

(* What the constants are assumed to be, wherever an assumption is cited.  *)
USE DEF WellTyped, SettlesOnce

LEMMA LeastNatural ==
    ASSUME NEW S \in SUBSET Nat, S # {}
    PROVE  \E n \in S : \A k \in S : n <= k
<1> DEFINE Below(n) == S \cap (0 .. n)
           Fam == {Below(n) : n \in S}
           R == StrictSubsetOrdering(Nat)
<1>1. \A n \in S : IsFiniteSet(Below(n)) /\ Below(n) \in SUBSET Nat
  <2> TAKE n \in S
  <2>1. IsFiniteSet(0 .. n)
    BY FS_Interval
  <2>2. QED
    BY <2>1, FS_Intersection
<1>2. Fam \subseteq FiniteSubsetsOf(Nat) /\ Fam # {}
  BY <1>1 DEF FiniteSubsetsOf
<1>3. IsWellFoundedOn(R, FiniteSubsetsOf(Nat))
  BY FS_StrictSubsetOrderingWellFounded
<1>4. PICK T \in Fam : \A U \in Fam : <<U, T>> \notin R
  <2> HIDE DEF Fam, R
  <2> QED BY <1>2, <1>3, WFMin, Zenon
<1>5. PICK n \in S : T = Below(n)
  OBVIOUS
<1>6. ASSUME NEW m \in S, m < n
      PROVE  FALSE
  <2>1. Below(m) \subseteq T /\ n \in T /\ n \notin Below(m)
    BY <1>5, <1>6
  <2>2. <<Below(m), T>> \in R
    BY <2>1, <1>1, <1>5 DEF StrictSubsetOrdering
  <2>3. QED
    BY <2>2, <1>4
<1>7. QED
  BY <1>6

LEMMA SettledFacts ==
    ASSUME NEW s \in State
    PROVE  /\ Settled(s) \in Env
           /\ IsSettled(Settled(s))
           /\ \A x \in Sigs : Settled(s)[x] = s[x]
<1>1. PICK e \in Extensions(s) : IsSettled(e)
  BY NoCombinationalLoop
<1>2. Settled(s) \in Extensions(s) /\ IsSettled(Settled(s))
  BY <1>1 DEF Settled
<1>3. PICK v \in [Wires -> Val] : Settled(s) = Extend(s, v)
  BY <1>2 DEF Extensions
<1>4. Extend(s, v) \in Env /\ \A x \in Sigs : Extend(s, v)[x] = s[x]
  BY DEF Extend, Env, State
<1>5. QED
  BY <1>2, <1>3, <1>4

(* The next state, element by element.                                     *)
LEMMA NextStateAt ==
    ASSUME NEW s \in State
    PROVE  /\ NextState(s) = [x \in Sigs |-> NextState(s)[x]]
           /\ \A x \in Inputs : NextState(s)[x] = s[x]
           /\ \A x \in Regs : NextState(s)[x] = NextReg(x, Settled(s))
           /\ \A x \in Cells : NextState(s)[x] = NextCell(x, Settled(s))
BY NetlistAssumption DEF NextState, Sigs

(* A register with one writer takes what that assigns.                     *)
LEMMA SoleWriter ==
    ASSUME ExclusiveWriters, NEW s \in State, NEW r \in Regs, NEW h \in Holds,
           r \in DOMAIN HoldFn(h, Settled(s))
    PROVE  NextReg(r, Settled(s)) = HoldFn(h, Settled(s))[r]
<1> DEFINE E == Settled(s)
<1>1. \A g \in Writers(r, E) : g = h
  BY DEF ExclusiveWriters, Writers
<1>2. h \in Writers(r, E) /\ SourceRank[h] <= SourceRank[h]
  BY NetlistAssumption DEF Writers
<1>3. LastWriter(r, E) = h
  BY <1>1, <1>2 DEF LastWriter
<1>4. QED
  BY <1>2, <1>3 DEF NextReg
=============================================================================
