----------------------------- MODULE NumberFacts -----------------------------
(***************************************************************************)
(* Facts about whole numbers that the proofs of several components need.   *)
(* Induction is stated over a set, which a proof can name, and not over a  *)
(* predicate.                                                              *)
(***************************************************************************)
EXTENDS Integers, FiniteSets, FiniteSetTheorems, WellFoundedInduction, TLAPS

\* Every nonempty set of natural numbers has a smallest element; the intervals
\* that end in its elements are ordered by inclusion.
LEMMA Minimum ==
  ASSUME NEW S, S \subseteq Nat, S # {}
  PROVE  \E i \in S : \A j \in S : i <= j
<1> DEFINE F == {0 .. i : i \in S}
<1>1. IsWellFoundedOn(StrictSubsetOrdering(Nat), FiniteSubsetsOf(Nat))
  BY FS_StrictSubsetOrderingWellFounded
<1>2. F \subseteq FiniteSubsetsOf(Nat)
  <2>1. ASSUME NEW i \in S
        PROVE  0 .. i \in FiniteSubsetsOf(Nat)
    <3>1. i \in Int /\ 0 \in Int
      OBVIOUS
    <3>2. IsFiniteSet(0 .. i)
      BY <3>1, FS_Interval, Zenon
    <3> QED
      BY <3>2 DEF FiniteSubsetsOf
  <2> QED
    BY <2>1
<1>3. F # {}
  OBVIOUS
<1>4. PICK x \in F : \A y \in F : <<y, x>> \notin StrictSubsetOrdering(Nat)
  <2> HIDE DEF F
  <2> QED
    BY <1>1, <1>2, <1>3, WFMin, Zenon
<1>5. PICK i \in S : x = 0 .. i
  OBVIOUS
<1>6. ASSUME NEW j \in S, ~(i <= j)
      PROVE  FALSE
  <2>1. 0 .. j \in F
    OBVIOUS
  <2>2. 0 .. j \in SUBSET Nat /\ 0 .. i \in SUBSET Nat
    OBVIOUS
  <2>3. (0 .. j) \subseteq (0 .. i) /\ 0 .. j # 0 .. i
    <3>1. i \in 0 .. i /\ i \notin 0 .. j
      BY <1>6
    <3> QED
      BY <3>1, <1>6
  <2>4. <<0 .. j, 0 .. i>> \in StrictSubsetOrdering(Nat)
    BY <2>2, <2>3 DEF StrictSubsetOrdering
  <2> QED
    BY <2>1, <2>4, <1>4, <1>5
<1> QED
  BY <1>6

\* A set that has 0 and the successor of each of its elements below N has all
\* numbers up to N: there is no least one that it does not have.
LEMMA Induction ==
  ASSUME NEW N \in Nat, NEW S, 0 \in S,
         \A m \in 0 .. N - 1 : m \in S => m + 1 \in S
  PROVE  \A m \in 0 .. N : m \in S
<1> DEFINE Bad == {m \in 0 .. N : m \notin S}
<1>1. ASSUME Bad # {} PROVE FALSE
  <2>1. PICK m \in Bad : \A j \in Bad : m <= j
    <3>1. Bad \subseteq Nat
      OBVIOUS
    <3> HIDE DEF Bad
    <3> QED
      BY <1>1, <3>1, Minimum
  <2>2. m \in 0 .. N /\ m \notin S /\ m # 0
    OBVIOUS
  <2>3. m - 1 \in 0 .. N - 1 /\ m - 1 \in 0 .. N /\ (m - 1) + 1 = m /\ ~(m <= m - 1)
    BY <2>2
  <2>4. m - 1 \in S
    BY <2>1, <2>3
  <2> QED
    BY <2>2, <2>3, <2>4
<1> QED
  BY <1>1

Iterates(N, V, base, step, g) ==
  /\ g \in [0 .. N -> V] /\ g[0] = base
  /\ \A k \in 1 .. N : g[k] = step[k][g[k - 1]]

\* A step from value to value can be repeated: what a recursive function over
\* 0 .. N defines exists.  Its values are of the type that the steps keep.
LEMMA Recursion ==
  ASSUME NEW N \in Nat, NEW V, NEW base \in V, NEW step \in [1 .. N -> [V -> V]]
  PROVE  \E g : Iterates(N, V, base, step, g)
<1> DEFINE Upto(m, g) == /\ g \in [0 .. N -> V] /\ g[0] = base
                         /\ \A k \in 1 .. m : g[k] = step[k][g[k - 1]]
           S == {m \in 0 .. N : \E g : Upto(m, g)}
<1>1. 0 \in S
  <2>1. Upto(0, [k \in 0 .. N |-> base])
    OBVIOUS
  <2> HIDE DEF Upto
  <2> QED
    BY <2>1
<1>2. ASSUME NEW m \in 0 .. N - 1, m \in S
      PROVE  m + 1 \in S
  <2>1. PICK g : Upto(m, g)
    BY <1>2
  <2> DEFINE h == [g EXCEPT ![m + 1] = step[m + 1][g[m]]]
  <2>2. m + 1 \in 1 .. N /\ m \in 0 .. N /\ m + 1 \in 0 .. N
    OBVIOUS
  <2>3. h \in [0 .. N -> V] /\ h[0] = base
    <3>1. step[m + 1][g[m]] \in V
      BY <2>1, <2>2
    <3> QED
      BY <2>1, <2>2, <3>1
  <2>4. ASSUME NEW k \in 1 .. m + 1 PROVE h[k] = step[k][h[k - 1]]
    <3>1. k \in 0 .. N /\ k - 1 \in 0 .. N /\ k - 1 # m + 1
      OBVIOUS
    <3>2. h[k - 1] = g[k - 1]
      BY <2>1, <3>1
    <3>3. CASE k = m + 1
      <4>1. k - 1 = m
        BY <3>3
      <4>2. h[k] = step[m + 1][g[m]]
        BY <2>1, <2>2, <3>3
      <4> HIDE DEF h
      <4> QED
        BY <3>2, <3>3, <4>1, <4>2
    <3>4. CASE k # m + 1
      <4>1. h[k] = g[k] /\ k \in 1 .. m
        BY <2>1, <2>2, <3>1, <3>4
      <4> HIDE DEF h
      <4> QED
        BY <2>1, <3>2, <4>1
    <3> QED
      BY <3>3, <3>4
  <2>5. Upto(m + 1, h)
    <3> HIDE DEF h
    <3> QED
      BY <2>3, <2>4
  <2> HIDE DEF Upto, h
  <2> QED
    BY <2>2, <2>5
<1>3. N \in S
  <2>1. N \in 0 .. N
    OBVIOUS
  <2> HIDE DEF S
  <2> QED
    BY <1>1, <1>2, <2>1, Induction
<1> QED
  BY <1>3 DEF Iterates

Below(V, p) == {q \in V : q < p}

\* A finite set of numbers has a k-th smallest element.
LEMMA KthElement ==
  ASSUME NEW V, V \subseteq Nat, IsFiniteSet(V), NEW k \in 1 .. Cardinality(V)
  PROVE  \E p \in V : Cardinality(Below(V, p)) = k - 1
<1> DEFINE Bad == {j \in Nat : j < Cardinality(V) /\ \A p \in V : Cardinality(Below(V, p)) # j}
<1>1. Cardinality(V) \in Nat
  BY FS_CardinalityType
<1>2. ASSUME Bad # {} PROVE FALSE
  <2>1. PICK j \in Bad : \A i \in Bad : j <= i
    <3>1. Bad \subseteq Nat
      OBVIOUS
    <3> HIDE DEF Bad
    <3> QED
      BY <1>2, <3>1, Minimum
  <2>2. /\ j \in Nat /\ j < Cardinality(V)
        /\ \A p \in V : Cardinality(Below(V, p)) # j
    OBVIOUS
  <2>3. CASE j = 0
    <3>1. V # {}
      BY <1>1, <2>2, FS_EmptySet
    <3>2. PICK p \in V : \A q \in V : p <= q
      BY <3>1, Minimum
    <3>3. Below(V, p) = {}
      <4>1. \A q \in V : ~(q < p)
        BY <3>2
      <4> QED
        BY <4>1 DEF Below
    <3> QED
      BY <2>2, <2>3, <3>3, FS_EmptySet
  <2>4. CASE j # 0
    <3>1. j - 1 \in Nat /\ j - 1 < Cardinality(V) /\ ~(j <= j - 1)
      BY <1>1, <2>2, <2>4
    <3>2. PICK p \in V : Cardinality(Below(V, p)) = j - 1
      BY <2>1, <3>1
    <3> DEFINE W == {q \in V : q > p}
               U == Below(V, p) \cup {p}
    <3>3. IsFiniteSet(Below(V, p)) /\ p \notin Below(V, p)
      BY FS_Subset DEF Below
    <3>4. IsFiniteSet(U) /\ Cardinality(U) = j
      <4>1. IsFiniteSet(U) /\ Cardinality(U) = Cardinality(Below(V, p)) + 1
        BY <3>3, FS_AddElement
      <4> HIDE DEF U
      <4> QED
        BY <2>2, <3>2, <4>1
    <3>5. W # {}
      <4>1. U # V
        <5> HIDE DEF U
        <5> QED
          BY <1>1, <2>2, <3>4
      <4>2. PICK q \in V : q \notin U
        BY <4>1 DEF Below
      <4>3. q > p
        BY <4>2 DEF Below
      <4> QED
        BY <4>3
    <3>6. PICK r \in W : \A q \in W : r <= q
      <4>1. W \subseteq Nat
        OBVIOUS
      <4> HIDE DEF W
      <4> QED
        BY <3>5, <4>1, Minimum
    <3>7. r \in V /\ Below(V, r) = U
      <4>1. r \in V /\ p < r
        OBVIOUS
      <4>2. ASSUME NEW q \in V PROVE q < r <=> q < p \/ q = p
        BY <3>6, <4>1
      <4> QED
        BY <4>1, <4>2 DEF Below
    <3> QED
      BY <2>2, <3>4, <3>7
  <2> QED
    BY <2>3, <2>4
<1>3. k - 1 \in Nat /\ k - 1 < Cardinality(V)
  BY <1>1
<1> QED
  BY <1>2, <1>3
-----------------------------------------------------------------------------
(* Remainders.                                                             *)

LEMMA DivisionFacts ==
  ASSUME NEW M \in Nat \ {0}, NEW x \in Int
  PROVE  x % M \in 0 .. M - 1 /\ x \div M \in Int /\ x = M * (x \div M) + (x % M)
OBVIOUS

LEMMA MultipleWithin ==
  ASSUME NEW M \in Nat \ {0}, NEW k \in Int, NEW r \in Int,
         M * k = r, -M < r, r < M
  PROVE  r = 0
<1>1. CASE k = 0
  BY <1>1
<1>2. CASE k >= 1
  <2>1. M * k >= M
    BY <1>2
  <2> QED
    BY <2>1
<1>3. CASE k <= -1
  <2>1. M * k <= -M
    BY <1>3
  <2> QED
    BY <2>1
<1> QED
    BY <1>1, <1>2, <1>3

LEMMA DifferenceOfMultiples ==
  ASSUME NEW M \in Int, NEW j \in Int, NEW k \in Int
  PROVE  M * j - M * k = M * (j - k) /\ M * j \in Int /\ M * k \in Int /\ M * (j-k) \in Int
OBVIOUS

\* Numbers with the same remainder that are less than M apart are equal.
LEMMA Congruent ==
  ASSUME NEW M \in Nat \ {0}, NEW x \in Int, NEW y \in Int, x % M = y % M,
         x - y < M, y - x < M
  PROVE  x = y
<1>1. PICK j, k, r : j = x \div M /\ k = y \div M /\ r = x % M
  OBVIOUS
<1>2. j \in Int /\ k \in Int /\ r \in Int /\ x = M * j + r /\ y = M * k + r
  BY <1>1, DivisionFacts
<1>3. M * j - M * k = M * (j - k) /\ M * j \in Int /\ M * k \in Int /\ M * (j - k) \in Int
  BY <1>2, DifferenceOfMultiples
<1>4. M * (j - k) = x - y
  BY <1>2, <1>3
<1>5. x - y = 0
  BY <1>2, <1>4, MultipleWithin
<1> QED
  BY <1>5

LEMMA RemainderOf ==
  ASSUME NEW M \in Nat \ {0}, NEW k \in Int, NEW r \in 0 .. M - 1
  PROVE  (M * k + r) % M = r
<1>1. PICK x : x = M * k + r
  OBVIOUS
<1>2. x \in Int
  BY <1>1
<1>3. PICK j, s : j = x \div M /\ s = x % M
  OBVIOUS
<1>4. j \in Int /\ s \in 0 .. M - 1 /\ x = M * j + s
  BY <1>2, <1>3, DivisionFacts
<1>5. M * j - M * k = M * (j - k) /\ M * j \in Int /\ M * k \in Int /\ M * (j - k) \in Int
  BY <1>4, DifferenceOfMultiples
<1>6. M * (j - k) = r - s
  BY <1>1, <1>4, <1>5
<1>7. r - s = 0
  BY <1>4, <1>6, MultipleWithin
<1> QED
  BY <1>1, <1>3, <1>4, <1>7
\* Remainders are taken before or after a sum.
LEMMA RemainderShift ==
  ASSUME NEW M \in Nat \ {0}, NEW x \in Int, NEW c \in Int
  PROVE  ((x % M) + c) % M = (x + c) % M /\ (x + M) % M = x % M
<1>1. PICK k, r : k = x \div M /\ r = x % M
  OBVIOUS
<1>2. k \in Int /\ r \in 0 .. M - 1 /\ x = M * k + r
  BY <1>1, DivisionFacts
<1>3. PICK j, s : j = (r + c) \div M /\ s = (r + c) % M
  OBVIOUS
<1>4. j \in Int /\ s \in 0 .. M - 1 /\ r + c = M * j + s
  BY <1>2, <1>3, DivisionFacts
<1>5. M * j \in Int /\ M * k \in Int /\ M * (k + j) = M * k + M * j /\ M * (k + 1) = M * k + M
  BY <1>2, <1>4
<1>6. x + c = M * (k + j) + s /\ x + M = M * (k + 1) + r
  BY <1>2, <1>4, <1>5
<1>7. (M * (k + j) + s) % M = s /\ (M * (k + 1) + r) % M = r
  BY <1>2, <1>4, RemainderOf
<1> QED
  BY <1>1, <1>3, <1>6, <1>7

\* Every remainder occurs among M numbers in a row.
LEMMA ResidueOccurs ==
  ASSUME NEW M \in Nat \ {0}, NEW b \in Int, NEW q \in 0 .. M - 1
  PROVE  \E n \in b .. b + M - 1 : n % M = q
<1>1. PICK k, r : k = b \div M /\ r = b % M
  OBVIOUS
<1>2. k \in Int /\ r \in 0 .. M - 1 /\ b = M * k + r
  BY <1>1, DivisionFacts
<1>3. M * k \in Int /\ M * (k + 1) = M * k + M
  BY <1>2
<1>4. CASE q >= r
  <2>1. M * k + q \in b .. b + M - 1
    BY <1>2, <1>3, <1>4
  <2>2. (M * k + q) % M = q
    BY <1>2, RemainderOf
  <2> QED
    BY <2>1, <2>2
<1>5. CASE q < r
  <2>1. M * (k + 1) + q \in b .. b + M - 1
    BY <1>2, <1>3, <1>5
  <2>2. (M * (k + 1) + q) % M = q
    BY <1>2, RemainderOf
  <2> QED
    BY <2>1, <2>2
<1> QED
  BY <1>2, <1>4, <1>5
=============================================================================
