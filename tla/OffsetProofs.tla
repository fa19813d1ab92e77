---------------------------- MODULE OffsetProofs ----------------------------
(***************************************************************************)
(* Least and greatest offsets, which a worker seeks to and commits         *)
(* (_rewind, _commit): Min and Max of the community modules are what they  *)
(* promise to be.                                                          *)
(***************************************************************************)
EXTENDS Integers, FiniteSetsExt, WellFoundedInduction, TLAPS

\* A non-empty set of natural numbers has a least element, which Min is.
LEMMA MinOfNaturals ==
    ASSUME NEW S \in SUBSET Nat, S # {}
    PROVE  Min(S) \in S /\ \A n \in S : Min(S) <= n
<1> DEFINE Less == OpToRel(<, Nat)
<1>1. \A i, j \in Nat : i < j => <<i, j>> \in Less
  <2> SUFFICES ASSUME NEW i \in Nat, NEW j \in Nat, i < j
               PROVE  <<i, j>> \in Less
    OBVIOUS
  <2>1. <<i, j>> \in Nat \X Nat /\ <<i, j>>[1] < <<i, j>>[2]
    OBVIOUS
  <2> QED
    BY <2>1, Zenon DEF OpToRel
<1>2. IsWellFoundedOn(Less, Nat)
  BY NatLessThanWellFounded
<1> HIDE DEF Less
<1>3. PICK m \in S : \A n \in S : ~(<<n, m>> \in Less)
  BY <1>2, WFMin
<1>4. ASSUME NEW n \in S PROVE m <= n
  <2>1. n \in Nat /\ m \in Nat
    OBVIOUS
  <2>2. ~(n < m)
    BY <1>1, <1>3, <2>1, Zenon
  <2> QED
    BY <2>1, <2>2
<1> QED
  BY <1>4 DEF Min

\* A non-empty set of naturals below a bound has a greatest element: the
\* one whose distance to the bound is least.
LEMMA MaxOfOffsets ==
    ASSUME NEW b \in Nat, NEW S \in SUBSET (0..(b - 1)), S # {}
    PROVE  Max(S) \in S /\ \A n \in S : n <= Max(S)
<1> DEFINE D == {d \in Nat : b - d \in S}
<1>1. \A n \in S : b - n \in D
  <2> SUFFICES ASSUME NEW n \in S PROVE b - n \in Nat /\ b - (b - n) = n
    OBVIOUS
  <2>1. n \in 0..(b - 1)
    OBVIOUS
  <2> QED
    BY <2>1
<1>2. D \in SUBSET Nat /\ D # {}
  BY <1>1
<1>3. PICK d \in D : \A e \in D : d <= e
  BY <1>2, MinOfNaturals, Zenon
<1>4. ASSUME NEW n \in S PROVE n <= b - d
  <2>1. n \in 0..(b - 1) /\ d \in Nat
    OBVIOUS
  <2>2. d <= b - n
    BY <1>1, <1>3
  <2> QED
    BY <2>1, <2>2
<1> QED
  BY <1>4 DEF Max
=============================================================================
