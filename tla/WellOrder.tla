----------------------------- MODULE WellOrder -----------------------------
(***************************************************************************)
(* The least member of a set of natural numbers, and induction for a set:  *)
(* what the proofs about the outbox and about event streams use in place   *)
(* of induction for an operator.                                           *)
(***************************************************************************)
EXTENDS Integers, WellFoundedInduction, TLAPS

Less == {p \in Nat \X Nat : p[1] < p[2]}

\* The library's theorem, for the relation as a set.
LEMMA LessIsWellFounded == IsWellFoundedOn(Less, Nat)
BY NatLessThanWellFounded DEF OpToRel, Less

\* The pairs of the relation.
LEMMA LessPairs == \A a, b \in Nat : a < b => <<a, b>> \in Less
<1> TAKE a, b \in Nat
<1> HAVE a < b
<1>1. <<a, b>> \in Nat \X Nat
  OBVIOUS
<1>2. <<a, b>>[1] = a /\ <<a, b>>[2] = b
  OBVIOUS
<1>3. <<a, b>>[1] < <<a, b>>[2]
  BY <1>2
<1>4. QED
  BY <1>1, <1>3, Zenon DEF Less

\* Every set of natural numbers that has a member has a least one.
LEMMA LeastMember ==
  ASSUME NEW T \in SUBSET Nat, T # {}
  PROVE  \E i \in T : \A j \in T : i <= j
<1>1. PICK x \in T : \A y \in T : ~ (<<y, x>> \in Less)
  <2>1. T \subseteq Nat
    OBVIOUS
  <2>2. QED
    BY <2>1, WFMin, LessIsWellFounded, Zenon
<1>2. \A y \in T : x <= y
  <2> TAKE y \in T
  <2>1. x \in Nat /\ y \in Nat
    OBVIOUS
  <2>2. ~ (y < x)
    BY <1>1, <2>1, LessPairs, Zenon
  <2>3. QED
    BY <2>1, <2>2
<1>3. QED
  BY <1>1, <1>2

\* A set that holds zero and the successor of each natural number it holds
\* holds them all.
LEMMA SetInduction ==
  ASSUME NEW S, 0 \in S, \A n \in Nat : n \in S => n + 1 \in S
  PROVE  \A n \in Nat : n \in S
<1> DEFINE T == {n \in Nat : n \notin S}
<1>1. SUFFICES ASSUME T # {}
               PROVE  FALSE
  OBVIOUS
<1>2. PICK i \in T : \A j \in T : i <= j
  <2>1. T \in SUBSET Nat
    OBVIOUS
  <2>2. QED
    BY <1>1, <2>1, LeastMember
<1>3. i # 0 /\ i - 1 \in Nat /\ (i - 1) + 1 = i
  BY <1>2
<1>4. i - 1 \in S
  BY <1>2, <1>3
<1>5. QED
  BY <1>2, <1>3, <1>4
=============================================================================
