-------------------------- MODULE OneCServiceProofs -------------------------
(***************************************************************************)
(* What paging by position does, for every selection and page size.        *)
(*                                                                         *)
(* The argument counts.  Two selected objects have different positions, so *)
(* no more than n objects lie in n consecutive positions (Band), a page is *)
(* never longer than PageSize, and a page with an object behind its end is *)
(* a full one (ShortPageIsLast).  An object that joins the selection only  *)
(* moves the others back (PositionGrows).                                  *)
(***************************************************************************)
EXTENDS OneCService, FiniteSetTheorems, TLAPS

-----------------------------------------------------------------------------
(* Positions                                                               *)

\* A position is a number.
LEMMA PositionType ==
    ASSUME NEW S \in SUBSET Ids, NEW id \in Ids
    PROVE  /\ IsFiniteSet(S)
           /\ IsFiniteSet({x \in S : RefOrder[x] < RefOrder[id]})
           /\ Position(id, S) \in Nat
<1>1. IsFiniteSet(S)
  BY FS_Subset, OneCServiceAssumption
<1>2. IsFiniteSet({x \in S : RefOrder[x] < RefOrder[id]})
  BY <1>1, FS_Subset
<1> QED
  BY <1>1, <1>2, FS_CardinalityType DEF Position

\* An object that joins a selection moves the others back, never forward.
LEMMA PositionGrows ==
    ASSUME NEW T \in SUBSET Ids, NEW S \in SUBSET T, NEW id \in Ids
    PROVE  Position(id, S) <= Position(id, T)
<1> DEFINE A == {x \in S : RefOrder[x] < RefOrder[id]}
           B == {x \in T : RefOrder[x] < RefOrder[id]}
<1>1. IsFiniteSet(B)
  BY PositionType
<1>2. A \in SUBSET B
  OBVIOUS
<1>3. Cardinality(A) <= Cardinality(B)
  BY <1>1, <1>2, FS_Subset
<1> QED
  BY <1>3 DEF Position

\* The order of the references is the order of the positions.
LEMMA PositionOrder ==
    ASSUME NEW S \in SUBSET Ids, NEW x \in S, NEW y \in Ids, RefOrder[x] < RefOrder[y]
    PROVE  Position(x, S) < Position(y, S)
<1> DEFINE A == {z \in S : RefOrder[z] < RefOrder[x]}
           B == {z \in S : RefOrder[z] < RefOrder[y]}
<1>1. RefOrder \in [Ids -> Nat]
  BY OneCServiceAssumption
<1>2. IsFiniteSet(B) /\ Cardinality(A) \in Nat /\ Cardinality(B) \in Nat
  BY PositionType DEF Position
<1>3. A \in SUBSET B
  BY <1>1
<1>4. x \in B /\ x \notin A
  BY <1>1
<1>5. Cardinality(A) <= Cardinality(B) /\ Cardinality(A) # Cardinality(B)
  BY <1>2, <1>3, <1>4, FS_Subset
<1> QED
  BY <1>2, <1>5 DEF Position

\* No two objects have the same position.
LEMMA PositionsDiffer ==
    ASSUME NEW S \in SUBSET Ids, NEW x \in S, NEW y \in S, x # y
    PROVE  Position(x, S) # Position(y, S)
<1>1. RefOrder[x] \in Nat /\ RefOrder[y] \in Nat /\ RefOrder[x] # RefOrder[y]
  BY OneCServiceAssumption
<1>2. Position(x, S) \in Nat /\ Position(y, S) \in Nat
  BY PositionType
<1>3. CASE RefOrder[x] < RefOrder[y]
  BY <1>2, <1>3, PositionOrder
<1>4. CASE RefOrder[y] < RefOrder[x]
  BY <1>2, <1>4, PositionOrder
<1> QED
  BY <1>1, <1>3, <1>4

\* There are not more objects than positions.
LEMMA Band ==
    ASSUME NEW S \in SUBSET Ids, NEW a \in Nat, NEW n \in Nat,
           NEW T \in SUBSET S, \A x \in T : Position(x, S) \in a..(a + n - 1)
    PROVE  IsFiniteSet(T) /\ Cardinality(T) \in Nat /\ Cardinality(T) <= n
<1> DEFINE f == [x \in T |-> Position(x, S)]
<1>1. IsFiniteSet(T) /\ Cardinality(T) \in Nat
  BY FS_Subset, FS_CardinalityType, OneCServiceAssumption
<1>2. IsFiniteSet(a..(a + n - 1)) /\ Cardinality(a..(a + n - 1)) = n
  BY FS_Interval
<1>3. f \in [T -> a..(a + n - 1)]
  OBVIOUS
<1>4. \A x, y \in T : x # y => f[x] # f[y]
  BY PositionsDiffer
<1>5. ~(Cardinality(a..(a + n - 1)) < Cardinality(T))
  <2> SUFFICES ASSUME Cardinality(a..(a + n - 1)) < Cardinality(T)
               PROVE  FALSE
    OBVIOUS
  <2> HIDE DEF f
  <2>1. \E x, y \in T : x # y /\ f[x] = f[y]
    BY <1>1, <1>2, <1>3, FS_PigeonHole, Zenon
  <2> QED
    BY <2>1, <1>4
<1> QED
  BY <1>1, <1>2, <1>5

-----------------------------------------------------------------------------
(* Pages                                                                   *)

\* The service's limit is the client's page size.
LEMMA PageSizes == PageSize \in Nat \ {0} /\ Limit(PageSize) = PageSize
BY OneCServiceAssumption DEF PageSize, Limit, Clamp

\* A page is not longer than asked for.
LEMMA PageBound ==
    ASSUME NEW S \in SUBSET Ids, NEW k \in Nat
    PROVE  /\ Page(S, k) \in SUBSET S
           /\ Cardinality(Page(S, k)) \in Nat
           /\ Cardinality(Page(S, k)) <= PageSize
<1>1. Page(S, k) \in SUBSET S
  BY DEF Page
<1>2. \A x \in Page(S, k) : Position(x, S) \in k..(k + PageSize - 1)
  BY PageSizes DEF Page
<1> QED
  BY <1>1, <1>2, PageSizes, Band

\* Two finite sets together have at most as many elements as each has.
LEMMA UnionBound ==
    ASSUME NEW A, NEW B, IsFiniteSet(A), IsFiniteSet(B)
    PROVE  /\ IsFiniteSet(A \cup B)
           /\ Cardinality(A \cup B) \in Nat
           /\ Cardinality(A \cup B) <= Cardinality(A) + Cardinality(B)
<1>1. IsFiniteSet(A \cap B)
  BY FS_Subset
<1>2. Cardinality(A) \in Nat /\ Cardinality(B) \in Nat /\ Cardinality(A \cap B) \in Nat
  BY <1>1, FS_CardinalityType
<1>3. /\ IsFiniteSet(A \cup B)
      /\ Cardinality(A \cup B) = Cardinality(A) + Cardinality(B) - Cardinality(A \cap B)
  BY FS_Union
<1>4. Cardinality(A \cup B) \in Nat
  BY <1>3, FS_CardinalityType
<1> QED
  BY <1>2, <1>3, <1>4

\* Behind a short page there is nothing.
LEMMA ShortPageIsLast ==
    ASSUME NEW S \in SUBSET Ids, NEW k \in Nat, NEW id \in S, Position(id, S) >= k,
           Cardinality(Page(S, k)) < PageSize
    PROVE  id \in Page(S, k)
<1> DEFINE p == Position(id, S)
           B == {x \in S : RefOrder[x] < RefOrder[id]}
           Front == {x \in B : Position(x, S) \in 0..(0 + k - 1)}
           Middle == Page(S, k)
           Back == {x \in B : Position(x, S) \in (k + PageSize)..((k + PageSize) + (p - k - PageSize) - 1)}
<1>1. p \in Nat /\ PageSize \in Nat \ {0} /\ B \in SUBSET S /\ p = Cardinality(B)
  BY PositionType, PageSizes DEF Position
<1>2. SUFFICES ASSUME p >= k + PageSize
               PROVE  FALSE
  BY <1>1, PageSizes DEF Page
<1>3. IsFiniteSet(Front) /\ Cardinality(Front) \in Nat /\ Cardinality(Front) <= k
  <2>1. Front \in SUBSET S /\ \A x \in Front : Position(x, S) \in 0..(0 + k - 1)
    OBVIOUS
  <2> QED
    BY <2>1, Band
<1>4. /\ IsFiniteSet(Back) /\ Cardinality(Back) \in Nat
      /\ Cardinality(Back) <= p - k - PageSize
  <2>1. k + PageSize \in Nat /\ p - k - PageSize \in Nat
    BY <1>1, <1>2
  <2>2. /\ Back \in SUBSET S
        /\ \A x \in Back :
              Position(x, S) \in (k + PageSize)..((k + PageSize) + (p - k - PageSize) - 1)
    OBVIOUS
  <2> HIDE DEF p
  <2> QED
    BY <2>1, <2>2, Band
<1>5. IsFiniteSet(Middle) /\ Cardinality(Middle) \in Nat
  BY PageBound, FS_Subset, OneCServiceAssumption
<1>6. B \in SUBSET (Front \cup (Middle \cup Back))
  <2> SUFFICES ASSUME NEW x \in B
               PROVE  x \in Front \cup (Middle \cup Back)
    OBVIOUS
  <2>1. Position(x, S) \in Nat /\ Position(x, S) < p
    BY PositionType, PositionOrder
  <2>2. x \in Front \/ Position(x, S) \in k..(k + PageSize - 1) \/ x \in Back
    BY <1>1, <1>2, <2>1
  <2> QED
    BY <2>2, PageSizes DEF Page
<1>7. /\ IsFiniteSet(Middle \cup Back)
      /\ Cardinality(Middle \cup Back) \in Nat
      /\ Cardinality(Middle \cup Back) <= Cardinality(Middle) + Cardinality(Back)
  <2> HIDE DEF Middle, Back
  <2> QED
    BY <1>4, <1>5, UnionBound
<1>8. /\ IsFiniteSet(Front \cup (Middle \cup Back))
      /\ Cardinality(Front \cup (Middle \cup Back)) \in Nat
      /\ Cardinality(Front \cup (Middle \cup Back)) <= Cardinality(Front) + Cardinality(Middle \cup Back)
  <2> HIDE DEF Front, Middle, Back
  <2> QED
    BY <1>3, <1>7, UnionBound
<1>9. Cardinality(B) <= Cardinality(Front \cup (Middle \cup Back))
  BY <1>6, <1>8, FS_Subset
<1> HIDE DEF p, B, Front, Middle, Back
<1>10. Cardinality(Middle) < PageSize
  BY DEF Middle
<1> QED
  BY <1>1, <1>2, <1>3, <1>4, <1>5, <1>7, <1>8, <1>9, <1>10
=============================================================================
