----------------------------- MODULE NaturalSets -----------------------------
(***************************************************************************)
(* Smallest and largest elements, and induction, for sets of naturals: the *)
(* forms in which the other proofs reason about positions in a text or a   *)
(* line.                                                                   *)
(***************************************************************************)
EXTENDS Integers, WellFoundedInduction, TLAPS

\* A set of naturals that is not empty has a smallest element: the search of
\* a text that has a match has a first one.
LEMMA SmallestExists ==
    ASSUME NEW S, S \subseteq Nat, S # {}
    PROVE  \E x \in S : \A y \in S : x <= y
<1> DEFINE R == OpToRel(<, Nat)
<1>1. PICK x \in S : \A y \in S : ~(<<y, x>> \in R)
  <2>1. IsWellFoundedOn(R, Nat)
    BY NatLessThanWellFounded
  <2> QED  BY <2>1, WFMin
<1>2. ASSUME NEW y \in S  PROVE  x <= y
  <2>1. x \in Nat /\ y \in Nat
    OBVIOUS
  <2>2. ~(<<y, x>> \in {ss \in Nat \X Nat : ss[1] < ss[2]})
    BY <1>1 DEF OpToRel
  <2>3. ~(y < x)
    BY <2>1, <2>2
  <2> QED  BY <2>1, <2>3
<1> QED  BY <1>1, <1>2

\* A set of naturals that is not empty and has a bound has a largest element.
LEMMA LargestExists ==
    ASSUME NEW S, S \subseteq Nat, S # {}, NEW b \in Nat, \A x \in S : x <= b
    PROVE  \E x \in S : \A y \in S : y <= x
<1> DEFINE below == {z \in Nat : \A x \in S : x <= z}
<1>1. PICK z \in below : \A y \in below : z <= y
  <2>1. b \in below
    OBVIOUS
  <2>2. below # {} /\ below \subseteq Nat
    BY <2>1
  <2> HIDE DEF below
  <2> QED  BY <2>2, SmallestExists
<1>2. z \in S
  <2>1. SUFFICES ASSUME z \notin S  PROVE FALSE
    OBVIOUS
  <2>2. \A x \in S : x \in Nat /\ x <= z /\ x # z
    BY <1>1, <2>1
  <2>3. \A x \in S : x <= z - 1
    BY <2>2, <1>1
  <2>4. z \in Nat /\ z # 0
    <3>1. PICK x \in S : TRUE
      OBVIOUS
    <3> QED  BY <1>1, <2>2, <3>1
  <2>5. z - 1 \in below
    BY <2>3, <2>4
  <2> QED  BY <1>1, <2>4, <2>5
<1> QED  BY <1>1, <1>2

\* Induction: a set of naturals that holds 0 and with every number the next
\* one, up to a bound, holds all numbers up to that bound.
LEMMA InductionUpTo ==
    ASSUME NEW b \in Nat, NEW S, 0 \in S, \A n \in 0 .. b - 1 : n \in S => n + 1 \in S
    PROVE  \A n \in 0 .. b : n \in S
<1> DEFINE outside == {n \in 0 .. b : n \notin S}
<1>1. SUFFICES ASSUME outside # {}  PROVE FALSE
  OBVIOUS
<1>2. PICK n \in outside : \A m \in outside : n <= m
  <2>1. outside \subseteq Nat
    OBVIOUS
  <2> HIDE DEF outside
  <2> QED  BY <1>1, <2>1, SmallestExists
<1>3. n - 1 \in 0 .. b - 1 /\ n - 1 \notin outside
  BY <1>2
<1>4. n - 1 \in S
  BY <1>3
<1> QED  BY <1>2, <1>3, <1>4
=============================================================================
