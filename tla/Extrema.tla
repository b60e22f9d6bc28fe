------------------------------ MODULE Extrema ------------------------------
(***************************************************************************)
(* Sets of natural numbers have a smallest element, bounded ones a largest *)
(* one: what a proof needs of a CHOOSE of the newest or of the last.       *)
(***************************************************************************)
EXTENDS Integers, WellFoundedInduction, TLAPS

\* A non-empty set of natural numbers has a smallest element: `<` is
\* well-founded.
LEMMA SmallestOf ==
  ASSUME NEW T \in SUBSET Nat, T # {}
  PROVE  \E m \in T : \A n \in T : m <= n
<1>1. PICK R : /\ IsWellFoundedOn(R, Nat)
               /\ \A m, n \in Nat : n < m => <<n, m>> \in R
  <2> DEFINE L == OpToRel(<, Nat)
  <2>1. IsWellFoundedOn(L, Nat)
    BY NatLessThanWellFounded
  <2>2. \A m, n \in Nat : n < m => <<n, m>> \in L
    BY DEF OpToRel
  <2> HIDE DEF L
  <2> QED
    BY <2>1, <2>2
<1>2. PICK m \in T : \A n \in T : ~(<<n, m>> \in R)
  BY <1>1, WFMin
<1>3. ASSUME NEW n \in T PROVE m <= n
  <2>1. m \in Nat /\ n \in Nat
    OBVIOUS
  <2>2. ~(<<n, m>> \in R)
    BY <1>2
  <2>3. ~(n < m)
    BY <1>1, <2>1, <2>2
  <2> QED
    BY <2>1, <2>3
<1> QED
  BY <1>3

\* A non-empty set of natural numbers below a bound has a largest element.
LEMMA LargestOf ==
  ASSUME NEW bound \in Nat, NEW T \in SUBSET (0 .. bound), T # {}
  PROVE  \E m \in T : \A n \in T : n <= m
<1> DEFINE D == {bound - t : t \in T}
<1>1. PICK d \in D : \A n \in D : d <= n
  <2>1. \A t \in T : bound - t \in Nat
    OBVIOUS
  <2>2. D \in SUBSET Nat /\ D # {}
    BY <2>1
  <2> HIDE DEF D
  <2> QED
    BY <2>2, SmallestOf
<1>2. PICK m \in T : d = bound - m
  OBVIOUS
<1>3. ASSUME NEW n \in T PROVE n <= m
  <2>1. bound - m <= bound - n
    BY <1>1, <1>2
  <2> QED
    BY <2>1
<1> QED
  BY <1>3
=============================================================================
