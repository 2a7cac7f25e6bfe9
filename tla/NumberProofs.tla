---------------------------- MODULE NumberProofs ----------------------------
(***************************************************************************)
(* Lemmas that the theorems about flat files, skip lists and the linear    *)
(* hash share: least and greatest numbers, the sums that records and their *)
(* values are counted with, and a few facts about sequences.               *)
(***************************************************************************)
EXTENDS Integers, Sequences, FiniteSetsExt, FiniteSetTheorems, WellFoundedInduction, TLAPS

\* A set of natural numbers that is not empty has a least element.
LEMMA LeastNatural ==
  ASSUME NEW D \in SUBSET Nat, D # {}
  PROVE  \E e \in D : \A f \in D : e <= f
<1> DEFINE R == OpToRel(<, Nat)
<1>1. PICK e \in D : \A f \in D : ~(<<f, e>> \in R)
  BY NatLessThanWellFounded, WFMin
<1>2. \A f \in D : ~(f < e)
  BY <1>1 DEF OpToRel
<1>3. QED
  BY <1>2

LEMMA MinIn ==
  ASSUME NEW S \in SUBSET Nat, S # {}
  PROVE  Min(S) \in S /\ \A x \in S : Min(S) <= x
<1>1. \E e \in S : \A f \in S : e <= f
  BY LeastNatural
<1>2. QED
  BY <1>1 DEF Min

\* One that is bounded has a greatest element.
LEMMA GreatestNatural ==
  ASSUME NEW S \in SUBSET Nat, S # {}, NEW n \in Nat, \A x \in S : x <= n
  PROVE  \E g \in S : \A x \in S : x <= g
<1> DEFINE D == { n - x : x \in S }
<1>1. D \in SUBSET Nat /\ D # {}
  <2>1. \A x \in S : n - x \in Nat
    OBVIOUS
  <2>2. QED
    BY <2>1
<1>2. PICK d \in D : \A f \in D : d <= f
  BY <1>1, LeastNatural
<1>3. PICK x \in S : d = n - x
  BY <1>2
<1>4. \A y \in S : n - y \in D
  OBVIOUS
<1>5. \A y \in S : x >= y
  BY <1>2, <1>3, <1>4
<1>6. QED
  BY <1>5

LEMMA MaxIn ==
  ASSUME NEW S \in SUBSET Nat, S # {}, NEW n \in Nat, \A x \in S : x <= n
  PROVE  Max(S) \in S /\ \A x \in S : x <= Max(S)
<1>1. PICK g \in S : \A x \in S : g >= x
  BY GreatestNatural
<1>2. QED
  BY <1>1 DEF Max

\* The least and the greatest of two.
LEMMA MinOfTwo ==
  ASSUME NEW a \in Nat, NEW b \in Nat
  PROVE  Min({a, b}) = IF a <= b THEN a ELSE b
<1>1. {a, b} \in SUBSET Nat /\ {a, b} # {}
  OBVIOUS
<1>2. Min({a, b}) \in {a, b} /\ \A x \in {a, b} : Min({a, b}) <= x
  BY <1>1, MinIn
<1>3. QED
  BY <1>2

LEMMA MaxOfTwo ==
  ASSUME NEW a \in Nat, NEW b \in Nat
  PROVE  Max({a, b}) = IF a <= b THEN b ELSE a
<1>1. PICK n \in Nat : a <= n /\ b <= n
  BY a + b \in Nat
<1>2. {a, b} \in SUBSET Nat /\ {a, b} # {}
  OBVIOUS
<1>3. Max({a, b}) \in {a, b} /\ \A x \in {a, b} : x <= Max({a, b})
  BY <1>1, <1>2, MaxIn
<1>4. QED
  BY <1>3

-----------------------------------------------------------------------------
(***************************************************************************)
(* Sums.  A sum over a set picks one element after the other: when it adds *)
(* up how many elements of a finite set have each value, the result is how *)
(* many there are.                                                         *)
(***************************************************************************)
\* it adds up f over every subset of V, one element after the other.
IsSum(it, V, f) ==
  it = [s \in SUBSET V |->
          IF s = {} THEN 0 ELSE LET x == CHOOSE x \in s : TRUE IN f[x] + it[s \ {x}]]

\* The elements of B that val maps to x, and into s.
Valued(B, val, x) == { b \in B : val[b] = x }
ValuedIn(B, val, s) == { b \in B : val[b] \in s }

LEMMA ValuedInOne ==
  ASSUME NEW B, NEW val, IsFiniteSet(B), NEW s, NEW x \in s
  PROVE  /\ IsFiniteSet(ValuedIn(B, val, s))
         /\ Cardinality(ValuedIn(B, val, s))
              = Cardinality(Valued(B, val, x)) + Cardinality(ValuedIn(B, val, s \ {x}))
<1> DEFINE one == Valued(B, val, x)
           rest == ValuedIn(B, val, s \ {x})
<1>1. ValuedIn(B, val, s) = one \cup rest /\ one \cap rest = {}
  BY DEF Valued, ValuedIn
<1>2. one \in SUBSET B /\ rest \in SUBSET B
  BY DEF Valued, ValuedIn
<1>3. IsFiniteSet(one) /\ IsFiniteSet(rest)
  BY <1>2, FS_Subset
<1>4. Cardinality({}) = 0 /\ Cardinality(one) \in Nat /\ Cardinality(rest) \in Nat
  BY <1>3, FS_EmptySet, FS_CardinalityType
<1> HIDE DEF one, rest
<1>5. IsFiniteSet(one \cup rest)
      /\ Cardinality(one \cup rest) = Cardinality(one) + Cardinality(rest) - Cardinality(one \cap rest)
  BY <1>3, FS_Union
<1>6. Cardinality(one \cap rest) = 0
  BY <1>1, <1>4
<1>7. Cardinality(one \cup rest) = Cardinality(one) + Cardinality(rest)
  BY <1>4, <1>5, <1>6
<1>8. /\ IsFiniteSet(ValuedIn(B, val, s))
      /\ Cardinality(ValuedIn(B, val, s)) = Cardinality(one) + Cardinality(rest)
  BY <1>1, <1>5, <1>7
<1>9. QED
  BY <1>8 DEF one, rest

\* There is such a sum where f counts the elements of B by their values.
LEMMA SumExists ==
  ASSUME NEW B, NEW val, NEW V, NEW f, IsFiniteSet(B),
         \A v \in V : f[v] = Cardinality(Valued(B, val, v))
  PROVE  \E it : IsSum(it, V, f)
<1> DEFINE it == [s \in SUBSET V |-> Cardinality(ValuedIn(B, val, s))]
           body(s) == IF s = {} THEN 0
                      ELSE LET x == CHOOSE x \in s : TRUE IN f[x] + it[s \ {x}]
<1>1. ASSUME NEW s \in SUBSET V PROVE it[s] = body(s)
  <2>1. CASE s = {}
    <3>1. ValuedIn(B, val, s) = {}
      BY <2>1 DEF ValuedIn
    <3>2. QED
      BY <2>1, <3>1, FS_EmptySet
  <2>2. CASE s # {}
    <3>1. PICK x \in s : x = CHOOSE y \in s : TRUE
      BY <2>2
    <3>2. f[x] = Cardinality(Valued(B, val, x)) /\ s \ {x} \in SUBSET V
      BY <1>1
    <3>3. it[s] = f[x] + it[s \ {x}]
      BY <3>2, ValuedInOne
    <3>4. QED
      BY <2>2, <3>1, <3>3
  <2>3. QED
    BY <2>1, <2>2
<1>2. it = [s \in SUBSET V |-> it[s]]
  OBVIOUS
<1>3. it = [s \in SUBSET V |-> body(s)]
  BY <1>1, <1>2
<1>4. IsSum(it, V, f)
  BY <1>3 DEF IsSum
<1>5. QED
  BY <1>4

\* There is one such sum only, over a finite set.
LEMMA SumIs ==
  ASSUME NEW B, NEW val, NEW V, NEW f, IsFiniteSet(B), IsFiniteSet(V),
         \A v \in V : f[v] = Cardinality(Valued(B, val, v)),
         \A b \in B : val[b] \in V,
         NEW it, IsSum(it, V, f)
  PROVE  it[V] = Cardinality(B)
<1> DEFINE counts(s) == it[s] = Cardinality(ValuedIn(B, val, s))
           sizes == { n \in Nat : \E s \in SUBSET V : Cardinality(s) = n /\ ~counts(s) }
<1>1. ASSUME NEW s \in SUBSET V
      PROVE  it[s] = IF s = {} THEN 0 ELSE LET x == CHOOSE x \in s : TRUE IN f[x] + it[s \ {x}]
  BY DEF IsSum
<1>2. ASSUME NEW s \in SUBSET V PROVE IsFiniteSet(s) /\ Cardinality(s) \in Nat
  BY FS_Subset, FS_CardinalityType
<1>3. ASSUME NEW s \in SUBSET V, s = {} PROVE counts(s)
  <2>1. ValuedIn(B, val, s) = {} /\ it[s] = 0
    BY <1>1, <1>3 DEF ValuedIn
  <2>2. QED
    BY <2>1, FS_EmptySet
<1>4. ASSUME NEW s \in SUBSET V, s # {}, \A t \in SUBSET V : Cardinality(t) < Cardinality(s) => counts(t)
      PROVE  counts(s)
  <2>1. PICK x \in s : x = CHOOSE y \in s : TRUE
    BY <1>4
  <2>2. s \ {x} \in SUBSET V
    OBVIOUS
  <2>3. Cardinality(s \ {x}) < Cardinality(s)
    BY <1>2, <2>2, FS_RemoveElement
  <2>4. it[s] = f[x] + it[s \ {x}]
    BY <1>1, <1>4, <2>1
  <2>5. counts(s \ {x})
    BY <1>4, <2>2, <2>3
  <2>6. f[x] = Cardinality(Valued(B, val, x))
    OBVIOUS
  <2>7. QED
    BY <2>4, <2>5, <2>6, ValuedInOne
<1>5. sizes = {}
  <2> SUFFICES ASSUME sizes # {} PROVE FALSE
    OBVIOUS
  <2>1. PICK n \in sizes : \A m \in sizes : n <= m
    BY LeastNatural
  <2>2. PICK s \in SUBSET V : Cardinality(s) = n /\ ~counts(s)
    BY <2>1
  <2>3. \A t \in SUBSET V : Cardinality(t) < Cardinality(s) => counts(t)
    BY <1>2, <2>1, <2>2
  <2>4. QED
    BY <1>3, <1>4, <2>2, <2>3
<1>6. counts(V)
  BY <1>2, <1>5
<1>7. ValuedIn(B, val, V) = B
  BY DEF ValuedIn
<1>8. QED
  BY <1>6, <1>7

\* The sum of f over all of V.
Total(V, f) == (CHOOSE it : IsSum(it, V, f))[V]

LEMMA TotalIs ==
  ASSUME NEW B, NEW val, NEW V, NEW f, IsFiniteSet(B), IsFiniteSet(V),
         \A v \in V : f[v] = Cardinality(Valued(B, val, v)),
         \A b \in B : val[b] \in V
  PROVE  Total(V, f) = Cardinality(B)
<1>1. \E it : IsSum(it, V, f)
  BY SumExists
<1>2. IsSum(CHOOSE it : IsSum(it, V, f), V, f)
  BY <1>1, Zenon
<1>3. PICK it : it = CHOOSE i : IsSum(i, V, f)
  OBVIOUS
<1>4. IsSum(it, V, f)
  BY <1>2, <1>3
<1>5. it[V] = Cardinality(B)
  BY <1>4, SumIs
<1>6. QED
  BY <1>3, <1>5 DEF Total

-----------------------------------------------------------------------------
(***************************************************************************)
(* The sum of any numbers over a finite set: how many pairs there are of   *)
(* an element and a number up to its own.                                  *)
(***************************************************************************)
Column(v, n) == {v} \X (1 .. n)
Pile(V, f) == UNION { Column(v, f[v]) : v \in V }

LEMMA ColumnIs ==
  ASSUME NEW v, NEW n \in Nat
  PROVE  IsFiniteSet(Column(v, n)) /\ Cardinality(Column(v, n)) = n
<1>1. IsFiniteSet({v}) /\ Cardinality({v}) = 1
  BY FS_Singleton
<1>2. IsFiniteSet(1 .. n) /\ Cardinality(1 .. n) = n
  BY FS_Interval
<1>3. IsFiniteSet({v} \X (1 .. n)) /\ Cardinality({v} \X (1 .. n)) = Cardinality({v}) * Cardinality(1 .. n)
  BY <1>1, <1>2, FS_Product
<1>4. QED
  BY <1>1, <1>2, <1>3 DEF Column

LEMMA PileFinite ==
  ASSUME NEW V, IsFiniteSet(V), NEW f \in [V -> Nat]
  PROVE  IsFiniteSet(Pile(V, f))
<1> DEFINE finite(s) == IsFiniteSet(Pile(s, f))
           sizes == { n \in Nat : \E s \in SUBSET V : Cardinality(s) = n /\ ~finite(s) }
<1>1. ASSUME NEW s \in SUBSET V PROVE IsFiniteSet(s) /\ Cardinality(s) \in Nat
  BY FS_Subset, FS_CardinalityType
<1>2. ASSUME NEW s \in SUBSET V, \A t \in SUBSET V : Cardinality(t) < Cardinality(s) => finite(t)
      PROVE  finite(s)
  <2>1. CASE s = {}
    BY <2>1, FS_EmptySet DEF Pile
  <2>2. CASE s # {}
    <3>1. PICK x \in s : TRUE
      BY <2>2
    <3>2. s \ {x} \in SUBSET V /\ Cardinality(s \ {x}) < Cardinality(s)
      BY <1>1, <3>1, FS_RemoveElement
    <3>3. finite(s \ {x})
      BY <1>2, <3>2
    <3>4. f[x] \in Nat
      BY <3>1
    <3>5. IsFiniteSet(Column(x, f[x]))
      BY <3>4, ColumnIs
    <3>6. Pile(s, f) = Pile(s \ {x}, f) \cup Column(x, f[x])
      BY <3>1 DEF Pile
    <3>7. QED
      BY <3>3, <3>5, <3>6, FS_Union
  <2>3. QED
    BY <2>1, <2>2
<1>3. sizes = {}
  <2> SUFFICES ASSUME sizes # {} PROVE FALSE
    OBVIOUS
  <2>1. PICK n \in sizes : \A e \in sizes : n <= e
    BY LeastNatural
  <2>2. PICK s \in SUBSET V : Cardinality(s) = n /\ ~finite(s)
    BY <2>1
  <2>3. \A t \in SUBSET V : Cardinality(t) < Cardinality(s) => finite(t)
    BY <1>1, <2>1, <2>2
  <2>4. QED
    BY <1>2, <2>2, <2>3
<1>4. QED
  BY <1>1, <1>3

LEMMA TotalOf ==
  ASSUME NEW V, IsFiniteSet(V), NEW f \in [V -> Nat]
  PROVE  Total(V, f) = Cardinality(Pile(V, f))
<1> DEFINE B == Pile(V, f)
           val == [b \in B |-> b[1]]
<1>1. IsFiniteSet(B)
  BY PileFinite
<1>2. ASSUME NEW v \in V PROVE f[v] = Cardinality(Valued(B, val, v))
  <2>1. Valued(B, val, v) = Column(v, f[v])
    BY DEF Valued, Pile, Column
  <2>2. QED
    BY <2>1, ColumnIs
<1>3. \A b \in B : val[b] \in V
  BY DEF Pile, Column
<1> HIDE DEF B, val
<1>4. Total(V, f) = Cardinality(B)
  BY <1>1, <1>2, <1>3, TotalIs
<1>5. QED
  BY <1>4 DEF B

LEMMA TotalOfZeros ==
  ASSUME NEW V, IsFiniteSet(V), NEW f \in [V -> Nat], \A v \in V : f[v] = 0
  PROVE  Total(V, f) = 0
<1>1. Pile(V, f) = {}
  BY DEF Pile, Column
<1>2. QED
  BY <1>1, TotalOf, FS_EmptySet

LEMMA TotalOfOne ==
  ASSUME NEW V, IsFiniteSet(V), NEW f \in [V -> Nat], NEW v \in V, \A w \in V \ {v} : f[w] = 0
  PROVE  Total(V, f) = f[v]
<1>1. Pile(V, f) = Column(v, f[v])
  BY DEF Pile, Column
<1>2. QED
  BY <1>1, TotalOf, ColumnIs

LEMMA TotalOfMore ==
  ASSUME NEW V, IsFiniteSet(V), NEW f \in [V -> Nat], NEW v \in V, NEW g \in [V -> Nat],
         g[v] = f[v] + 1, \A w \in V \ {v} : g[w] = f[w]
  PROVE  Total(V, f) \in Nat /\ Total(V, g) = Total(V, f) + 1
<1> DEFINE c == <<v, f[v] + 1>>
<1>1. Pile(V, g) = Pile(V, f) \cup {c}
  BY DEF Pile, Column
<1>2. c \notin Pile(V, f)
  BY DEF Pile, Column
<1>3. IsFiniteSet(Pile(V, f))
  BY PileFinite
<1> HIDE DEF c
<1>4. Cardinality(Pile(V, f)) \in Nat /\ Cardinality(Pile(V, f) \cup {c}) = Cardinality(Pile(V, f)) + 1
  BY <1>2, <1>3, FS_AddElement, FS_CardinalityType
<1>5. QED
  BY <1>1, <1>4, TotalOf

-----------------------------------------------------------------------------
(***************************************************************************)
(* Sequences.                                                              *)
(***************************************************************************)
LEMMA SequenceElement ==
  ASSUME NEW S, NEW q \in Seq(S), NEW i \in 1 .. Len(q)
  PROVE  q[i] \in S
  OBVIOUS

LEMMA SequenceDomain ==
  ASSUME NEW S, NEW q \in Seq(S)
  PROVE  DOMAIN q = 1 .. Len(q) /\ Len(q) \in Nat
  OBVIOUS

LEMMA Preceded ==
  ASSUME NEW S, NEW m \in S, NEW r \in Seq(S)
  PROVE  /\ <<m>> \o r \in Seq(S) /\ Len(<<m>> \o r) = Len(r) + 1
         /\ (<<m>> \o r)[1] = m
         /\ \A i \in 1 .. Len(r) : (<<m>> \o r)[i + 1] = r[i]
  OBVIOUS
=============================================================================
