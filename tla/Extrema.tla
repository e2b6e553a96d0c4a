------------------------------ MODULE Extrema ------------------------------
(* Least and greatest elements of sets of natural numbers, from the          *)
(* well-foundedness of their order: the facts about Min and Max, and the     *)
(* least counterexample that stands for an induction.                        *)
EXTENDS Naturals, FiniteSetsExt, WellFoundedInduction, TLAPS

\* Every set of natural numbers has a least element.
LEMMA Least ==
  ASSUME NEW S, S \subseteq Nat, S # {}
  PROVE  \E x \in S : \A y \in S : x <= y
<1> DEFINE Less == {ss \in Nat \X Nat : ss[1] < ss[2]}
<1>1. IsWellFoundedOn(Less, Nat)
  BY NatLessThanWellFounded DEF OpToRel
<1>2. \A x, y \in Nat : y < x => <<y, x>> \in Less
  OBVIOUS
<1> HIDE DEF Less
<1>3. PICK x \in S : \A y \in S : ~ (<<y, x>> \in Less)
  BY <1>1, WFMin
<1>4. ASSUME NEW y \in S PROVE x <= y
  <2>1. x \in Nat /\ y \in Nat /\ ~ (<<y, x>> \in Less)
    BY <1>3
  <2> QED BY <1>2, <2>1
<1> QED BY <1>4

\* The greatest element of a bounded set is one of its elements
\* (the highest version number, the policy published last).
LEMMA GreatestIsMember ==
  ASSUME NEW n \in Nat, NEW S, S \subseteq 0 .. n, S # {}
  PROVE  Max(S) \in S
<1> DEFINE T == {n - x : x \in S}
<1>1. PICK t \in T : \A y \in T : t <= y
  <2>1. T \subseteq Nat
    BY \A x \in S : x \in 0 .. n
  <2>2. T # {}
    OBVIOUS
  <2> HIDE DEF T
  <2> QED BY <2>1, <2>2, Least
<1>2. PICK x \in S : t = n - x
  BY <1>1
<1>3. ASSUME NEW y \in S PROVE x >= y
  <2>1. t <= n - y /\ x \in 0 .. n /\ y \in 0 .. n
    BY <1>1
  <2> QED BY <1>2, <2>1
<1> QED BY <1>3 DEF Max

=============================================================================
