--------------------------- MODULE NatLemmas ---------------------------------
(***************************************************************************)
(* Facts about the naturals that several proofs need: induction for a set  *)
(* instead of a predicate, powers of two, and sets that are initial parts  *)
(* of an interval.                                                         *)
(***************************************************************************)
EXTENDS Integers, FiniteSetTheorems, TLAPS

\* A set that holds 0, and n + 1 with n, holds every natural number.  Else the
\* intervals below the numbers it lacks would have a smallest one.
LEMMA SetInduction ==
    ASSUME NEW S, 0 \in S, \A n \in Nat : n \in S => n + 1 \in S
    PROVE  \A n \in Nat : n \in S
  <1> DEFINE T == {0 .. m - 1 : m \in Nat \ S}
  <1>1. SUFFICES ASSUME NEW k \in Nat \ S PROVE FALSE
    OBVIOUS
  <1>2. T \subseteq FiniteSubsetsOf(Nat)
    <2>1. \A m \in Nat : IsFiniteSet(0 .. m - 1) /\ 0 .. m - 1 \subseteq Nat
      BY FS_Interval
    <2>2. QED
      BY <2>1 DEF FiniteSubsetsOf
  <1>3. T # {}
    OBVIOUS
  <1>4. PICK x \in T : \A y \in T : ~(<<y, x>> \in StrictSubsetOrdering(Nat))
    <2> HIDE DEF T
    <2>1. IsWellFoundedOn(StrictSubsetOrdering(Nat), FiniteSubsetsOf(Nat))
      BY FS_StrictSubsetOrderingWellFounded
    <2>2. QED
      BY <1>2, <1>3, <2>1, WFMin
  <1>5. PICK m \in Nat \ S : x = 0 .. m - 1
    OBVIOUS
  <1>6. m # 0 /\ m - 1 \in Nat \ S
    OBVIOUS
  <1>7. 0 .. (m - 1) - 1 \in T
    BY <1>6
  <1>8. <<0 .. (m - 1) - 1, x>> \in StrictSubsetOrdering(Nat)
    <2>1. 0 .. (m - 1) - 1 \subseteq 0 .. m - 1 /\ 0 .. m - 1 \subseteq Nat
      BY <1>6
    <2>2. m - 1 \in 0 .. m - 1 /\ m - 1 \notin 0 .. (m - 1) - 1
      BY <1>6
    <2>3. QED
      BY <1>5, <2>1, <2>2 DEF StrictSubsetOrdering
  <1>9. QED
    BY <1>4, <1>7, <1>8

-----------------------------------------------------------------------------
(* Powers of two.  The provers know nothing of ^; what they need of it comes *)
(* from counting subsets: those of 1 .. n + 1 are those of 1 .. n, without   *)
(* and with n + 1.                                                           *)

LEMMA SubsetsOfInterval ==
    ASSUME NEW n \in Nat
    PROVE  /\ IsFiniteSet(SUBSET (1 .. n))
           /\ Cardinality(SUBSET (1 .. n)) = 2 ^ n
           /\ 2 ^ n \in Nat
  <1>1. IsFiniteSet(1 .. n) /\ Cardinality(1 .. n) = n
    BY FS_Interval
  <1>2. IsFiniteSet(SUBSET (1 .. n)) /\ Cardinality(SUBSET (1 .. n)) = 2 ^ n
    BY <1>1, FS_SUBSET
  <1>3. QED
    BY <1>2, FS_CardinalityType

LEMMA PowerDoubles ==
    ASSUME NEW n \in Nat
    PROVE  2 ^ (n + 1) = 2 * 2 ^ n
  <1> DEFINE Low == SUBSET (1 .. n)
             With(B) == B \cup {n + 1}
             High == {With(B) : B \in Low}
  <1>1. n + 1 \notin 1 .. n /\ 1 .. n + 1 = 1 .. n \cup {n + 1}
    OBVIOUS
  <1>2. SUBSET (1 .. n + 1) = Low \cup High
    <2>1. ASSUME NEW B \in SUBSET (1 .. n + 1) PROVE B \in Low \cup High
      <3>1. B \ {n + 1} \in Low
        BY <1>1
      <3>2. CASE n + 1 \in B
        <4>1. With(B \ {n + 1}) = B
          BY <3>2
        <4>2. With(B \ {n + 1}) \in High
          BY <3>1
        <4>3. QED
          BY <4>1, <4>2
      <3>3. CASE n + 1 \notin B
        BY <3>1, <3>3
      <3>4. QED
        BY <3>2, <3>3
    <2>2. \A B \in Low : B \subseteq 1 .. n + 1 /\ With(B) \subseteq 1 .. n + 1
      BY <1>1
    <2>3. Low \cup High \subseteq SUBSET (1 .. n + 1)
      <3>1. Low \subseteq SUBSET (1 .. n + 1)
        BY <2>2
      <3>2. High \subseteq SUBSET (1 .. n + 1)
        BY <2>2
      <3>3. QED
        BY <3>1, <3>2
    <2>4. SUBSET (1 .. n + 1) \subseteq Low \cup High
      BY <2>1
    <2>5. QED
      BY <2>3, <2>4
  <1>3. Low \cap High = {}
    BY <1>1
  <1>4. ExistsBijection(Low, High)
    <2> DEFINE f == [B \in Low |-> With(B)]
    <2>1. f \in [Low -> High] /\ \A h \in High : \E B \in Low : f[B] = h
      OBVIOUS
    <2>2. ASSUME NEW B \in Low, NEW C \in Low, With(B) = With(C) PROVE B = C
      <3>1. n + 1 \notin B /\ n + 1 \notin C
        BY <1>1
      <3>2. QED
        BY <2>2, <3>1
    <2>3. \A B, C \in Low : f[B] = f[C] => B = C
      BY <2>2
    <2>4. f \in Bijection(Low, High)
      BY <2>1, <2>3 DEF Bijection, Injection, Surjection, IsInjective
    <2>5. QED
      BY <2>4 DEF ExistsBijection
  <1>5. /\ IsFiniteSet(Low) /\ Cardinality(Low) = 2 ^ n /\ 2 ^ n \in Nat
        /\ Cardinality(SUBSET (1 .. n + 1)) = 2 ^ (n + 1)
    BY SubsetsOfInterval
  <1> HIDE DEF Low, High
  <1>6. IsFiniteSet(High) /\ Cardinality(High) = 2 ^ n
    BY <1>4, <1>5, FS_Bijection
  <1>7. Cardinality(Low \cup High) = Cardinality(Low) + Cardinality(High) - 0
    <2>1. Cardinality(Low \cup High)
            = Cardinality(Low) + Cardinality(High) - Cardinality(Low \cap High)
      BY <1>5, <1>6, FS_Union
    <2>2. Cardinality(Low \cap High) = 0
      BY <1>3, FS_EmptySet
    <2>3. QED
      BY <2>1, <2>2
  <1>8. QED
    BY <1>2, <1>5, <1>6, <1>7

LEMMA PowersGrow == \A n \in Nat : 2 ^ n \in Nat /\ n < 2 ^ n
  <1> DEFINE S == {n \in Nat : 2 ^ n \in Nat /\ n < 2 ^ n}
  <1>1. 0 \in S
    <2>1. 2 ^ 0 = 1
      OBVIOUS
    <2>2. QED
      BY <2>1
  <1>2. \A n \in Nat : n \in S => n + 1 \in S
    BY PowerDoubles
  <1> HIDE DEF S
  <1>3. \A n \in Nat : n \in S
    BY <1>1, <1>2, SetInduction
  <1>4. QED
    BY <1>3 DEF S

LEMMA PowersMonotone == \A m, d \in Nat : 2 ^ m <= 2 ^ (m + d)
  <1> SUFFICES ASSUME NEW m \in Nat PROVE \A d \in Nat : 2 ^ m <= 2 ^ (m + d)
    OBVIOUS
  <1> DEFINE S == {d \in Nat : 2 ^ m <= 2 ^ (m + d)}
  <1>1. 0 \in S
    BY PowersGrow
  <1>2. ASSUME NEW d \in Nat, d \in S PROVE d + 1 \in S
    <2>1. m + d \in Nat /\ m + (d + 1) = (m + d) + 1
      OBVIOUS
    <2>2. 2 ^ (m + (d + 1)) = 2 * 2 ^ (m + d)
      BY <2>1, PowerDoubles
    <2>3. QED
      BY <1>2, <2>1, <2>2, PowersGrow
  <1> HIDE DEF S
  <1>3. \A d \in Nat : d \in S
    BY <1>1, <1>2, SetInduction
  <1>4. QED
    BY <1>3 DEF S

\* Every number below a power of two has its width.
LEMMA WidthExists ==
    \A h \in Nat : \A s \in Nat :
      s < 2 ^ h => \E b \in 0 .. h : s < 2 ^ b /\ (b > 0 => s >= 2 ^ (b - 1))
  <1> DEFINE S == {h \in Nat : \A s \in Nat : s < 2 ^ h =>
                     \E b \in 0 .. h : s < 2 ^ b /\ (b > 0 => s >= 2 ^ (b - 1))}
  <1>1. 0 \in S
    <2>1. 0 \in 0 .. 0 /\ ~(0 > 0)
      OBVIOUS
    <2>2. QED
      BY <2>1
  <1>2. ASSUME NEW h \in Nat, h \in S PROVE h + 1 \in S
    <2>1. SUFFICES ASSUME NEW s \in Nat, s < 2 ^ (h + 1)
                   PROVE  \E b \in 0 .. h + 1 :
                            s < 2 ^ b /\ (b > 0 => s >= 2 ^ (b - 1))
      OBVIOUS
    <2>2. CASE s < 2 ^ h
      <3>1. PICK b \in 0 .. h : s < 2 ^ b /\ (b > 0 => s >= 2 ^ (b - 1))
        BY <1>2, <2>2
      <3>2. b \in 0 .. h + 1
        OBVIOUS
      <3>3. QED
        BY <3>1, <3>2
    <2>3. CASE ~(s < 2 ^ h)
      <3>1. s >= 2 ^ ((h + 1) - 1)
        <4>1. (h + 1) - 1 = h /\ 2 ^ h \in Nat
          BY PowersGrow
        <4>2. QED
          BY <2>3, <4>1
      <3>2. h + 1 \in 0 .. h + 1
        OBVIOUS
      <3>3. QED
        BY <2>1, <3>1, <3>2
    <2>4. QED
      BY <2>2, <2>3
  <1> HIDE DEF S
  <1>3. \A h \in Nat : h \in S
    BY <1>1, <1>2, SetInduction
  <1>4. QED
    BY <1>3 DEF S

-----------------------------------------------------------------------------
\* A set of numbers from 1 that holds, with a number, all that come before it.
LEMMA InitialPart ==
    ASSUME NEW max \in Nat, NEW A, A \subseteq 1 .. max,
           \A j \in A : \A i \in 1 .. j : i \in A
    PROVE  Cardinality(A) \in 0 .. max /\ A = 1 .. Cardinality(A)
  <1> DEFINE Closed(B) == \A j \in B : \A i \in 1 .. j : i \in B
             S == {n \in Nat : \A B \in SUBSET (1 .. n) :
                     Closed(B) => \E k \in 0 .. n : B = 1 .. k}
  <1>1. 0 \in S
    <2>1. \A B \in SUBSET (1 .. 0) : B = 1 .. 0
      OBVIOUS
    <2>2. 0 \in 0 .. 0
      OBVIOUS
    <2>3. QED
      BY <2>1, <2>2
  <1>2. ASSUME NEW n \in Nat, n \in S PROVE n + 1 \in S
    <2>1. SUFFICES ASSUME NEW B \in SUBSET (1 .. n + 1), Closed(B)
                   PROVE  \E k \in 0 .. n + 1 : B = 1 .. k
      OBVIOUS
    <2>2. CASE n + 1 \in B
      <3>1. 1 .. n + 1 \subseteq B
        BY <2>1, <2>2
      <3>2. B = 1 .. n + 1
        BY <3>1, Zenon
      <3>3. n + 1 \in 0 .. n + 1
        OBVIOUS
      <3>4. QED
        BY <3>2, <3>3
    <2>3. CASE n + 1 \notin B
      <3>1. B \in SUBSET (1 .. n)
        BY <2>1, <2>3
      <3>2. PICK k \in 0 .. n : B = 1 .. k
        BY <1>2, <2>1, <3>1
      <3>3. k \in 0 .. n + 1
        OBVIOUS
      <3>4. QED
        BY <3>2, <3>3
    <2>4. QED
      BY <2>2, <2>3
  <1>3. \A n \in Nat : n \in S
    <2> HIDE DEF S
    <2>1. QED
      BY <1>1, <1>2, SetInduction
  <1>4. PICK k \in 0 .. max : A = 1 .. k
    BY <1>3
  <1>5. Cardinality(A) = k
    BY <1>4, FS_Interval
  <1>6. QED
    BY <1>4, <1>5

\* Every number has a quotient and a remainder.
LEMMA DivisionOf ==
    ASSUME NEW d \in Nat \ {0}, NEW n \in Nat
    PROVE  \E q \in Nat, r \in 0 .. d - 1 :
             n = q * d + r /\ q = n \div d /\ r = (n % d)
  OBVIOUS

\* The quotient and the remainder of a number that is given by them.
LEMMA QuotientRemainder ==
    ASSUME NEW d \in Nat \ {0}, NEW q \in Nat, NEW r \in 0 .. d - 1
    PROVE  (q * d + r) \div d = q /\ (q * d + r) % d = r
  OBVIOUS

\* Dividing by twice a number is dividing by the number, and by two.
LEMMA DivideByDouble ==
    ASSUME NEW n \in Nat, NEW p \in Nat \ {0}
    PROVE  /\ n \div p \in Nat
           /\ n \div p = 2 * (n \div (2 * p)) + ((n \div p) % 2)
  <1>1. PICK q \in Nat, r \in 0 .. p - 1 : q = n \div p /\ n = q * p + r
    OBVIOUS
  <1>2. PICK h \in Nat, b \in 0 .. 1 : q = 2 * h + b /\ q % 2 = b
    OBVIOUS
  <1>3. n = h * (2 * p) + (b * p + r) /\ b * p + r \in 0 .. 2 * p - 1
    BY <1>1, <1>2
  <1>4. n \div (2 * p) = h
    BY <1>3, QuotientRemainder
  <1>5. QED
    BY <1>1, <1>2, <1>4

=============================================================================
