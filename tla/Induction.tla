------------------------------- MODULE Induction -------------------------------
(***************************************************************************)
(* Induction for the proof modules, stated over sets: a predicate is given *)
(* as the set of the numbers or sets that satisfy it, so that every        *)
(* instance is first order.  All of it rests on the least element of a     *)
(* nonempty set of naturals.                                               *)
(***************************************************************************)
EXTENDS Naturals, FiniteSets, FiniteSetTheorems, WellFoundedInduction

(* A nonempty set of naturals has a least element. *)
LEMMA LeastNatural ==
  ASSUME NEW S, S \subseteq Nat, S # {}
  PROVE  \E n \in S : \A m \in S : n <= m
  <1>1. PICK n \in S : \A m \in S : ~(<<m, n>> \in OpToRel(<, Nat))
    BY WFMin, NatLessThanWellFounded
  <1>2. \A m \in S : ~(m < n)
    BY <1>1 DEF OpToRel
  <1>3. QED BY <1>2

(* A set with 0 and with the successor of each of its naturals has them    *)
(* all.                                                                    *)
LEMMA SetInduction ==
  ASSUME NEW S, 0 \in S, \A n \in Nat : n \in S => n + 1 \in S
  PROVE  \A n \in Nat : n \in S
  <1> SUFFICES ASSUME Nat \ S # {} PROVE FALSE OBVIOUS
  <1>1. PICK n \in Nat \ S : \A m \in Nat \ S : n <= m
    BY LeastNatural
  <1>2. n # 0 /\ n - 1 \in Nat /\ (n - 1) + 1 = n BY <1>1
  <1>3. n - 1 \in S BY <1>1, <1>2
  <1>4. QED BY <1>1, <1>2, <1>3

(* A nonempty set of naturals with an upper bound has a greatest element. *)
LEMMA GreatestNatural ==
  ASSUME NEW n \in Nat, NEW S, S \subseteq 0..n, S # {}
  PROVE  \E i \in S : \A j \in S : j <= i
  <1> DEFINE T == {n - i : i \in S}
  <1>1. T \subseteq Nat /\ T # {}
    <2>1. \A i \in S : n - i \in Nat OBVIOUS
    <2>2. PICK i \in S : TRUE OBVIOUS
    <2>3. n - i \in T BY <2>2 DEF T
    <2>4. QED BY <2>1, <2>3 DEF T
  <1> HIDE DEF T
  <1>2. PICK k \in T : \A m \in T : k <= m BY <1>1, LeastNatural
  <1>3. PICK i \in S : k = n - i BY <1>2 DEF T
  <1>4. \A j \in S : k <= n - j BY <1>2 DEF T
  <1>5. QED BY <1>3, <1>4
================================================================================
