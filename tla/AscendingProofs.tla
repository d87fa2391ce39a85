--------------------------- MODULE AscendingProofs ---------------------------
(***************************************************************************)
(* A finite set of numbers can be listed in ascending order, and Ascending *)
(* lists every one of them once.                                           *)
(***************************************************************************)
EXTENDS Ascending, FiniteSetTheorems, TLAPS

\* s lists numbers of S, as many as S has, each above the one before it.
Sorts(s, S) ==
    /\ s \in [1..Cardinality(S) -> S]
    /\ \A i, j \in 1..Cardinality(S) : i < j => s[i] < s[j]

LEMMA LeastNumber ==
    ASSUME NEW T \in SUBSET Nat, T # {} PROVE \E x \in T : \A y \in T : x <= y
<1>1. IsWellFoundedOn(OpToRel(<, Nat), Nat)
  BY NatLessThanWellFounded
<1>2. PICK x \in T : \A y \in T : ~(<<y, x>> \in OpToRel(<, Nat))
  BY <1>1, WFMin
<1>3. \A y \in T : ~(y < x)
  BY <1>2 DEF OpToRel
<1> QED BY <1>3

\* The order of a set begins with its least number and goes on with the order of the rest.
LEMMA SortedBehind ==
    ASSUME NEW S \in SUBSET Nat, IsFiniteSet(S), NEW m \in S, \A y \in S : m <= y,
           NEW r, Sorts(r, S \ {m})
    PROVE  \E s : Sorts(s, S)
<1> DEFINE n == Cardinality(S)
           s == [i \in 1..n |-> IF i = 1 THEN m ELSE r[i - 1]]
<1>1. n \in Nat /\ Cardinality(S \ {m}) = n - 1 /\ n - 1 \in Nat
  <2>1. IsFiniteSet(S \ {m}) /\ Cardinality(S \ {m}) = n - 1
    BY FS_RemoveElement
  <2>2. n \in Nat /\ Cardinality(S \ {m}) \in Nat
    BY <2>1, FS_CardinalityType
  <2> QED BY <2>1, <2>2
<1> HIDE DEF n
<1>2. /\ r \in [1..(n - 1) -> S \ {m}]
      /\ \A i, j \in 1..(n - 1) : i < j => r[i] < r[j]
  BY <1>1 DEF Sorts
<1>3. \A i \in 1..n : i # 1 => i - 1 \in 1..(n - 1) /\ r[i - 1] \in S \ {m}
  BY <1>1, <1>2
<1>4. s \in [1..n -> S]
  BY <1>3
<1>5. ASSUME NEW i \in 1..n, NEW j \in 1..n, i < j PROVE s[i] < s[j]
  <2>1. j # 1 /\ s[j] = r[j - 1] /\ r[j - 1] \in S /\ r[j - 1] # m
    BY <1>1, <1>3, <1>5
  <2>2. CASE i = 1
    <3>1. s[i] = m
      BY <2>2
    <3>2. m \in Nat /\ r[j - 1] \in Nat /\ m <= r[j - 1]
      BY <2>1
    <3> QED BY <2>1, <3>1, <3>2
  <2>3. CASE i # 1
    <3>1. s[i] = r[i - 1] /\ i - 1 \in 1..(n - 1) /\ j - 1 \in 1..(n - 1) /\ i - 1 < j - 1
      BY <1>1, <1>3, <1>5, <2>1, <2>3
    <3> QED BY <1>2, <2>1, <3>1
  <2> QED BY <2>2, <2>3
<1>6. Sorts(s, S)
  <2> HIDE DEF s
  <2> QED BY <1>4, <1>5 DEF Sorts, n
<1> QED BY <1>6

LEMMA SortedExists ==
    ASSUME NEW S \in SUBSET Nat, IsFiniteSet(S) PROVE \E s : Sorts(s, S)
<1> DEFINE Bad == {n \in Nat : \E X \in SUBSET Nat : IsFiniteSet(X) /\ Cardinality(X) = n
                                                 /\ ~\E s : Sorts(s, X)}
<1>1. Bad = {}
  <2> SUFFICES ASSUME Bad # {} PROVE FALSE
    OBVIOUS
  <2>1. PICK n \in Bad : \A k \in Bad : n <= k
    BY LeastNumber
  <2>2. PICK X \in SUBSET Nat : IsFiniteSet(X) /\ Cardinality(X) = n /\ ~\E s : Sorts(s, X)
    BY <2>1
  <2>3. X # {}
    <3> SUFFICES ASSUME X = {} PROVE \E s : Sorts(s, X)
      BY <2>2
    <3>1. Cardinality(X) = 0
      BY FS_EmptySet
    <3>2. Sorts([i \in {} |-> 0], X)
      BY <3>1 DEF Sorts
    <3> QED BY <3>2
  <2>4. PICK m \in X : \A y \in X : m <= y
    BY <2>3, LeastNumber
  <2>5. IsFiniteSet(X \ {m}) /\ Cardinality(X \ {m}) = n - 1
    BY <2>2, FS_RemoveElement
  <2>6. Cardinality(X \ {m}) \in Nat /\ n \in Nat
    BY <2>1, <2>5, FS_CardinalityType
  <2>7. n - 1 \notin Bad
    BY <2>1, <2>5, <2>6
  <2>8. PICK r : Sorts(r, X \ {m})
    BY <2>5, <2>6, <2>7
  <2>9. \E s : Sorts(s, X)
    BY <2>2, <2>4, <2>8, SortedBehind
  <2> QED BY <2>2, <2>9
<1> HIDE DEF Bad
<1>2. Cardinality(S) \in Nat
  BY FS_CardinalityType
<1> QED BY <1>1, <1>2 DEF Bad

\* The code sorts the ids of its orders and goes through them: what InOrder returns is
\* ascending and lists every id once.
THEOREM InOrderSorts ==
    ASSUME NEW S \in SUBSET Nat, IsFiniteSet(S)
    PROVE  /\ Cardinality(S) \in Nat
           /\ Sorts(InOrder(S), S)
           /\ InOrder(S) \in Bijection(1..Cardinality(S), S)
<1> DEFINE n == Cardinality(S)
           s == InOrder(S)
<1>1. n \in Nat
  BY FS_CardinalityType
<1>2. Sorts(s, S)
  <2>1. PICK z : Sorts(z, S)
    BY SortedExists
  <2> QED BY <2>1 DEF Sorts, InOrder
<1> HIDE DEF s
<1>3. /\ s \in [1..n -> S]
      /\ \A i, j \in 1..n : i < j => s[i] < s[j]
  BY <1>2 DEF Sorts
<1>4. \A i, j \in 1..n : s[i] = s[j] => i = j
  <2> SUFFICES ASSUME NEW i \in 1..n, NEW j \in 1..n, s[i] = s[j], i # j PROVE FALSE
    OBVIOUS
  <2>1. s[i] \in Nat /\ s[j] \in Nat
    BY <1>3
  <2>2. i < j \/ j < i
    BY <1>1
  <2> QED BY <1>3, <2>1, <2>2
<1>5. s \in Injection(1..n, S)
  BY <1>3, <1>4 DEF Injection, IsInjective
<1>6. IsFiniteSet(1..n) /\ Cardinality(1..n) = n
  <2>1. Cardinality(1..n) = IF 1 > n THEN 0 ELSE n - 1 + 1
    BY <1>1, FS_Interval
  <2> QED BY <1>1, <2>1, FS_Interval
<1>7. s \in Surjection(1..n, S)
  BY <1>5, <1>6, FS_Injection
<1> QED BY <1>1, <1>2, <1>5, <1>7 DEF Bijection, s
=============================================================================
