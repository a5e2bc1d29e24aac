---------------------------- MODULE SetInduction ----------------------------
(***************************************************************************)
(* Induction over the natural numbers with the property given as a set: a  *)
(* set that has 0, and n + 1 with every n, has them all. It is what the    *)
(* proofs about recursive functions rest on.                               *)
(***************************************************************************)
EXTENDS Integers, FiniteSets, FiniteSetTheorems, WellFoundedInduction, TLAPS

\* A set with 0 that is closed under + 1 has every natural number: the least one
\* that it lacks would have a predecessor.
LEMMA NatInd ==
  ASSUME NEW S, 0 \in S, \A n \in Nat : n \in S => n + 1 \in S
  PROVE  \A n \in Nat : n \in S
<1> DEFINE T == Nat \ S
           U == {1 .. t : t \in T}
           R == StrictSubsetOrdering(Nat)
<1> SUFFICES ASSUME T # {} PROVE FALSE
  OBVIOUS
<1>1. U \subseteq FiniteSubsetsOf(Nat) /\ U # {}
  <2>1. \A t \in T : 1 .. t \in SUBSET Nat /\ IsFiniteSet(1 .. t)
    BY FS_Interval
  <2> QED BY <2>1 DEF FiniteSubsetsOf
<1>2. IsWellFoundedOn(R, FiniteSubsetsOf(Nat))
  BY FS_StrictSubsetOrderingWellFounded
<1>3. \E x \in U : \A y \in U : ~(<<y, x>> \in R)
  <2> HIDE DEF U, R
  <2> QED BY <1>1, <1>2, WFMin
<1>4. PICK t \in T : \A s \in T : <<1 .. s, 1 .. t>> \notin R
  BY <1>3
<1>5. t \in Nat /\ t # 0 /\ t - 1 \in Nat
  OBVIOUS
<1>6. t - 1 \in S
  <2> SUFFICES ASSUME t - 1 \in T PROVE FALSE
    BY <1>5
  <2>1. 1 .. t - 1 \subseteq 1 .. t /\ t \in 1 .. t /\ t \notin 1 .. t - 1
    BY <1>5
  <2>2. <<1 .. t - 1, 1 .. t>> \in R
    BY <1>5, <2>1 DEF StrictSubsetOrdering
  <2> QED BY <2>2, <1>4
<1> QED BY <1>5, <1>6

\* The numbers up to n that a set has, if it has all below each of its own, are
\* the first few.
LEMMA InitialSegment ==
  ASSUME NEW n \in Nat, NEW S \in SUBSET (1 .. n),
         \A i \in S, j \in 1 .. n : j <= i => j \in S
  PROVE  \E k \in 0 .. n : S = 1 .. k
<1> DEFINE Done == {m \in Nat : m <= n => \E k \in 0 .. m : S \cap (1 .. m) = 1 .. k}
<1>1. 0 \in Done
  <2>1. S \cap (1 .. 0) = 1 .. 0 /\ 0 \in 0 .. 0
    OBVIOUS
  <2> QED BY <2>1
<1>2. ASSUME NEW m \in Nat, m \in Done PROVE m + 1 \in Done
  <2> SUFFICES ASSUME m + 1 <= n PROVE \E k \in 0 .. m + 1 : S \cap (1 .. m + 1) = 1 .. k
    OBVIOUS
  <2>1. PICK k \in 0 .. m : S \cap (1 .. m) = 1 .. k
    BY <1>2
  <2>2. CASE m + 1 \in S
    <3>1. S \cap (1 .. m + 1) = 1 .. m + 1
      BY <2>2
    <3>2. m + 1 \in 0 .. m + 1
      OBVIOUS
    <3> QED BY <3>1, <3>2
  <2>3. CASE m + 1 \notin S
    <3>1. S \cap (1 .. m + 1) = 1 .. k
      BY <2>1, <2>3
    <3>2. k \in 0 .. m + 1
      OBVIOUS
    <3> QED BY <3>1, <3>2
  <2> QED BY <2>2, <2>3
<1> HIDE DEF Done
<1>3. n \in Done
  BY <1>1, <1>2, NatInd
<1>4. PICK k \in 0 .. n : S \cap (1 .. n) = 1 .. k
  BY <1>3 DEF Done
<1> QED BY <1>4
=============================================================================
