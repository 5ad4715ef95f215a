------------------------------ MODULE UnitCounting ------------------------------
(***************************************************************************)
(* Counting units.  Stock, orders and promises are numbers of units, and   *)
(* what a set of orders adds up to is the size of a set: each member x     *)
(* stands for the pairs <<x, 1>>, ..., <<x, f[x]>>.  These are the lemmas that *)
(* the proofs about stock share.                                           *)
(***************************************************************************)
EXTENDS Integers, FiniteSets, FiniteSetTheorems, TLAPS

Cells(S, f) == UNION {{x} \X (1..f[x]) : x \in S}

\* One member stands for as many units as its quantity.
LEMMA CellsOfOne ==
    ASSUME NEW x, NEW q \in Nat
    PROVE  IsFiniteSet({x} \X (1..q)) /\ Cardinality({x} \X (1..q)) = q
<1>1. IsFiniteSet({x}) /\ Cardinality({x}) = 1
  BY FS_Singleton
<1>2. IsFiniteSet(1..q) /\ Cardinality(1..q) = q
  BY FS_Interval
<1>3. /\ IsFiniteSet({x} \X (1..q))
      /\ Cardinality({x} \X (1..q)) = Cardinality({x}) * Cardinality(1..q)
  BY <1>1, <1>2, FS_Product
<1> QED BY <1>1, <1>2, <1>3

\* Finitely many members stand for finitely many units.
LEMMA CellsAreFinite ==
    ASSUME NEW D, IsFiniteSet(D), NEW f \in [D -> Nat], NEW A \in SUBSET D
    PROVE  IsFiniteSet(Cells(A, f)) /\ Cardinality(Cells(A, f)) \in Nat
<1> DEFINE Column == [x \in D |-> {x} \X (1..f[x])]
           Columns == {Column[x] : x \in D}
<1>1. Column \in Surjection(D, Columns)
  <2>1. Column \in [D -> Columns]
    OBVIOUS
  <2>2. \A t \in Columns : \E y \in D : Column[y] = t
    OBVIOUS
  <2> HIDE DEF Columns, Column
  <2> QED BY <2>1, <2>2 DEF Surjection
<1>2. IsFiniteSet(Columns)
  <2> HIDE DEF Columns, Column
  <2> QED BY <1>1, FS_Surjection
<1>3. \A T \in Columns : IsFiniteSet(T)
  <2> SUFFICES ASSUME NEW y \in D PROVE IsFiniteSet({y} \X (1..f[y]))
    OBVIOUS
  <2>1. f[y] \in Nat
    OBVIOUS
  <2> QED BY <2>1, CellsOfOne
<1>4. IsFiniteSet(UNION Columns)
  <2> HIDE DEF Columns
  <2> QED BY <1>2, <1>3, FS_UNION
<1>5. Cells(A, f) \in SUBSET UNION Columns
  BY DEF Cells
<1> HIDE DEF Columns
<1> QED BY <1>4, <1>5, FS_Subset, FS_CardinalityType

\* More members stand for more units ...
LEMMA CellsGrow ==
    ASSUME NEW D, IsFiniteSet(D), NEW f \in [D -> Nat],
           NEW B \in SUBSET D, NEW A \in SUBSET B
    PROVE  Cardinality(Cells(A, f)) <= Cardinality(Cells(B, f))
<1>1. Cells(A, f) \in SUBSET Cells(B, f)
  BY DEF Cells
<1> QED BY <1>1, CellsAreFinite, FS_Subset

\* ... and each of them for its own.
LEMMA CellsCount ==
    ASSUME NEW D, IsFiniteSet(D), NEW f \in [D -> Nat],
           NEW A \in SUBSET D, NEW B \in SUBSET D, NEW x \in D
    PROVE  /\ A \subseteq B \cup {x} =>
                Cardinality(Cells(A, f)) <= Cardinality(Cells(B, f)) + f[x]
           /\ A \cup {x} \subseteq B /\ x \notin A =>
                Cardinality(Cells(A, f)) + f[x] <= Cardinality(Cells(B, f))
<1> DEFINE X == {x} \X (1..f[x])
<1>1. /\ IsFiniteSet(Cells(A, f)) /\ Cardinality(Cells(A, f)) \in Nat
      /\ IsFiniteSet(Cells(B, f)) /\ Cardinality(Cells(B, f)) \in Nat
  BY CellsAreFinite
<1>2. f[x] \in Nat /\ IsFiniteSet(X) /\ Cardinality(X) = f[x]
  BY CellsOfOne
<1>3. ASSUME A \subseteq B \cup {x}
      PROVE  Cardinality(Cells(A, f)) <= Cardinality(Cells(B, f)) + f[x]
  <2>1. Cells(A, f) \in SUBSET (Cells(B, f) \cup X)
    BY <1>3 DEF Cells
  <2> HIDE DEF X
  <2>2. /\ IsFiniteSet(Cells(B, f) \cup X)
        /\ Cardinality(Cells(B, f) \cup X) =
             Cardinality(Cells(B, f)) + Cardinality(X) - Cardinality(Cells(B, f) \cap X)
    BY <1>1, <1>2, FS_Union
  <2>3. Cardinality(Cells(A, f)) <= Cardinality(Cells(B, f) \cup X)
    BY <2>1, <2>2, FS_Subset
  <2>4. Cardinality(Cells(B, f) \cap X) \in Nat
    BY <1>1, FS_Intersection, FS_CardinalityType
  <2> QED BY <1>1, <1>2, <2>2, <2>3, <2>4
<1>4. ASSUME A \cup {x} \subseteq B, x \notin A
      PROVE  Cardinality(Cells(A, f)) + f[x] <= Cardinality(Cells(B, f))
  <2>1. (Cells(A, f) \cup X) \in SUBSET Cells(B, f)
    BY <1>4 DEF Cells
  <2>2. Cells(A, f) \cap X = {}
    BY <1>4 DEF Cells
  <2> HIDE DEF X
  <2>3. Cardinality(Cells(A, f) \cup X) =
             Cardinality(Cells(A, f)) + Cardinality(X) - Cardinality(Cells(A, f) \cap X)
    BY <1>1, <1>2, FS_Union
  <2>4. Cardinality(Cells(A, f) \cap X) = 0
    BY <2>2, FS_EmptySet
  <2>5. Cardinality(Cells(A, f) \cup X) <= Cardinality(Cells(B, f))
    BY <1>1, <2>1, FS_Subset
  <2> QED BY <1>1, <1>2, <2>3, <2>4, <2>5
<1> QED BY <1>3, <1>4
================================================================================
