----------------------------- MODULE Naturals_proofs -----------------------------
(***************************************************************************)
(* What several of the proofs need to know of sets of numbers.             *)
(***************************************************************************)
EXTENDS Naturals, TLAPS, WellFoundedInduction

\* A set of numbers that is not empty has a least one: lists are modelled as sets of
\* numbers in the order in which things were added, and begin with it.
THEOREM LeastExists ==
  ASSUME NEW S \in SUBSET Nat, S # {}
  PROVE  \E o \in S : \A q \in S : o <= q
  <1> DEFINE R == OpToRel(<, Nat)
  <1>1. \E o \in S : \A q \in S : ~(<<q, o>> \in R)
    <2>1. IsWellFoundedOn(R, Nat)
      BY NatLessThanWellFounded
    <2> HIDE DEF R
    <2> QED
      BY <2>1, WFMin
  <1>2. \A q, o \in Nat : q < o => <<q, o>> \in R
    BY DEF OpToRel
  <1> HIDE DEF R
  <1>3. PICK o \in S : \A q \in S : ~(<<q, o>> \in R)
    BY <1>1
  <1>4. \A q \in S : o <= q
    <2> TAKE q \in S
    <2>1. ~(q < o)
      BY <1>2, <1>3
    <2> QED
      BY <2>1
  <1> QED
    BY <1>4
================================================================================
