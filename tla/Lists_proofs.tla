----------------------------- MODULE Lists_proofs ------------------------------
(***************************************************************************)
(* What Ranked makes of a finite set and a strict total order on it: a     *)
(* list of its elements, each once, in that order.  An element's rank is   *)
(* how many come before it; no two have the same, so that the ranks are    *)
(* all the numbers there are places for.                                   *)
(*                                                                         *)
(* And what a sum over a finite set comes to.  The sum of the community    *)
(* modules takes its indices in an order nothing is known of; that it has  *)
(* a value, and one only, follows from the least set where two would       *)
(* differ.                                                                 *)
(***************************************************************************)
EXTENDS Lists, FiniteSetsExt, Functions, SequenceTheorems, FiniteSetTheorems, TLAPS

Strict(before, S) ==
  /\ before \in [S -> SUBSET S]
  /\ \A x \in S : x \notin before[x]
  /\ \A x, y \in S : x # y => x \in before[y] \/ y \in before[x]
  /\ \A x \in S : \A y \in before[x] : before[y] \subseteq before[x]

LEMMA RankGrows ==
  ASSUME NEW S, IsFiniteSet(S), NEW before, Strict(before, S),
         NEW x \in S, NEW y \in before[x]
  PROVE  Cardinality(before[y]) < Cardinality(before[x])
<1>1. before[x] \in SUBSET S /\ before[y] \in SUBSET S /\ y \in S
  BY DEF Strict
<1>2. IsFiniteSet(before[x]) /\ IsFiniteSet(before[y])
  BY <1>1, FS_Subset
<1>3. y \notin before[y] /\ before[y] \cup {y} \in SUBSET before[x]
  BY <1>1 DEF Strict
<1>4. Cardinality(before[y] \cup {y}) = Cardinality(before[y]) + 1
  BY <1>2, <1>3, FS_AddElement
<1>5. Cardinality(before[y] \cup {y}) <= Cardinality(before[x])
  BY <1>2, <1>3, FS_Subset
<1>6. Cardinality(before[x]) \in Nat /\ Cardinality(before[y]) \in Nat
  BY <1>2, FS_CardinalityType
<1> QED
  BY <1>4, <1>5, <1>6

LEMMA RankBounded ==
  ASSUME NEW S, IsFiniteSet(S), NEW before, Strict(before, S), NEW x \in S
  PROVE  Cardinality(before[x]) + 1 \in 1 .. Cardinality(S)
<1>1. before[x] \in SUBSET (S \ {x})
  BY DEF Strict
<1>2. IsFiniteSet(S \ {x}) /\ Cardinality(S \ {x}) = Cardinality(S) - 1
  BY FS_RemoveElement
<1>3. IsFiniteSet(before[x]) /\ Cardinality(before[x]) <= Cardinality(S \ {x})
  BY <1>1, <1>2, FS_Subset
<1>4. Cardinality(before[x]) \in Nat /\ Cardinality(S) \in Nat
  BY <1>3, FS_CardinalityType
<1> QED
  BY <1>2, <1>3, <1>4

(* Every place is somebody's, and of one element only.                     *)
LEMMA RankPlaces ==
  ASSUME NEW S, IsFiniteSet(S), NEW before, Strict(before, S)
  PROVE  /\ \A n \in 1 .. Cardinality(S) :
              \E x \in S : Cardinality(before[x]) = n - 1
         /\ \A x, y \in S : Cardinality(before[x]) = Cardinality(before[y]) => x = y
<1> DEFINE place == [x \in S |-> Cardinality(before[x]) + 1]
           Places == 1 .. Cardinality(S)
<1>0. \A x \in S : Cardinality(before[x]) \in Nat
  <2> SUFFICES ASSUME NEW x \in S
               PROVE  Cardinality(before[x]) \in Nat
    OBVIOUS
  <2>1. before[x] \in SUBSET S
    BY DEF Strict
  <2> QED
    BY <2>1, FS_Subset, FS_CardinalityType
<1>1. place \in [S -> Places]
  BY RankBounded
<1>2. ASSUME NEW x \in S, NEW y \in S, Cardinality(before[x]) = Cardinality(before[y]),
             x # y
      PROVE  FALSE
  <2>1. CASE x \in before[y]
    <3>1. Cardinality(before[x]) < Cardinality(before[y])
      BY <2>1, RankGrows
    <3> QED
      BY <1>0, <1>2, <3>1
  <2>2. CASE y \in before[x]
    <3>1. Cardinality(before[y]) < Cardinality(before[x])
      BY <2>2, RankGrows
    <3> QED
      BY <1>0, <1>2, <3>1
  <2> QED
    BY <1>2, <2>1, <2>2 DEF Strict
<1>3. \A x, y \in S : place[x] = place[y] => x = y
  BY <1>0, <1>2
<1>4. Cardinality(S) \in Nat
  BY FS_CardinalityType
<1>5. IsFiniteSet(Places) /\ Cardinality(Places) = Cardinality(S)
  BY <1>4, FS_Interval
<1>6. place \in Surjection(S, Places)
  <2> HIDE DEF place, Places
  <2>1. place \in Injection(S, Places)
    BY <1>1, <1>3 DEF Injection, IsInjective
  <2> QED
    BY <1>5, <2>1, FS_Injection
<1>7. \A n \in Places : \E x \in S : place[x] = n
  BY <1>6 DEF Surjection
<1> QED
  BY <1>0, <1>2, <1>4, <1>7

(* Ranked lists the set, each element once, in the order it is given.      *)
THEOREM RankedLists ==
  ASSUME NEW S, IsFiniteSet(S), NEW before, Strict(before, S),
         NEW q, q = Ranked(before)
  PROVE  /\ q \in Seq(S) /\ Len(q) = Cardinality(S) /\ Range(q) = S
         /\ \A i, j \in DOMAIN q : i < j <=> q[i] \in before[q[j]]
         /\ IsInjective(q)
<1> DEFINE Places == 1 .. Cardinality(S)
<1>1. DOMAIN before = S
  BY DEF Strict
<1>2. Cardinality(S) \in Nat
  BY FS_CardinalityType
<1>3. q = [n \in Places |-> CHOOSE x \in S : Cardinality(before[x]) = n - 1]
  BY <1>1 DEF Ranked
<1>4. \A n \in Places : q[n] \in S /\ Cardinality(before[q[n]]) = n - 1
  BY <1>3, RankPlaces
<1>5. q \in Seq(S) /\ Len(q) = Cardinality(S) /\ DOMAIN q = Places
  BY <1>2, <1>3, <1>4
<1>6. ASSUME NEW x \in S
      PROVE  x \in Range(q)
  <2>1. Cardinality(before[x]) + 1 \in Places
    BY RankBounded
  <2>2. PICK n \in Places : n = Cardinality(before[x]) + 1
    BY <2>1
  <2>3. before[x] \in SUBSET S
    BY DEF Strict
  <2>4. Cardinality(before[x]) \in Nat
    BY <2>3, FS_Subset, FS_CardinalityType
  <2>5. q[n] \in S /\ Cardinality(before[q[n]]) = Cardinality(before[x])
    BY <1>4, <2>2, <2>4
  <2>6. q[n] = x
    BY <2>5, RankPlaces
  <2> QED
    BY <1>5, <2>6 DEF Range
<1>7. \A i, j \in DOMAIN q : q[i] = q[j] => i = j
  BY <1>2, <1>4, <1>5
<1>8. ASSUME NEW i \in DOMAIN q, NEW j \in DOMAIN q, q[i] \in before[q[j]]
      PROVE  i < j
  <2>1. Cardinality(before[q[i]]) < Cardinality(before[q[j]])
    BY <1>4, <1>5, <1>8, RankGrows
  <2> QED
    BY <1>2, <1>4, <1>5, <2>1
<1>9. ASSUME NEW i \in DOMAIN q, NEW j \in DOMAIN q, i < j
      PROVE  q[i] \in before[q[j]]
  <2>1. q[i] # q[j]
    BY <1>2, <1>5, <1>7, <1>9
  <2>2. ~(j < i)
    BY <1>2, <1>5, <1>9
  <2> QED
    BY <1>4, <1>5, <1>8, <2>1, <2>2 DEF Strict
<1> QED
  BY <1>4, <1>5, <1>6, <1>7, <1>8, <1>9 DEF Range, IsInjective

(* A set of numbers, ascending.                                            *)
LEMMA AscendingLists ==
  ASSUME NEW S \in SUBSET Int, IsFiniteSet(S), NEW q, q = Ascending(S)
  PROVE  /\ q \in Seq(S) /\ Len(q) = Cardinality(S) /\ Range(q) = S
         /\ \A i, j \in DOMAIN q : i < j <=> q[i] < q[j]
         /\ IsInjective(q)
<1> DEFINE before == [i \in S |-> {j \in S : j < i}]
<1>1. Strict(before, S)
  <2>1. \A i, j \in S : i \in before[j] <=> i < j
    OBVIOUS
  <2>2. before \in [S -> SUBSET S]
    OBVIOUS
  <2>3. \A i \in S : i \in Int
    OBVIOUS
  <2> HIDE DEF before
  <2>4. \A i, j \in S : i \notin before[i] /\ (i # j => i \in before[j] \/ j \in before[i])
    BY <2>1, <2>3
  <2>5. \A i, j, k \in S : i \in before[j] /\ j \in before[k] => i \in before[k]
    BY <2>1, <2>3
  <2> QED
    BY <2>2, <2>4, <2>5 DEF Strict
<1>2. q = Ranked(before)
  BY DEF Ascending
<1>3. /\ q \in Seq(S) /\ Len(q) = Cardinality(S) /\ Range(q) = S
      /\ \A i, j \in DOMAIN q : i < j <=> q[i] \in before[q[j]]
      /\ IsInjective(q)
  <2> HIDE DEF before
  <2> QED
    BY <1>1, <1>2, RankedLists
<1>4. \A i \in DOMAIN q : q[i] \in S
  BY <1>3
<1> QED
  BY <1>3, <1>4

LEMMA MinOfTwo ==
  ASSUME NEW a \in Int, NEW b \in Int
  PROVE  Min({a, b}) = IF a <= b THEN a ELSE b
BY DEF Min

LEMMA MaxOfTwo ==
  ASSUME NEW a \in Int, NEW b \in Int
  PROVE  Max({a, b}) = IF a <= b THEN b ELSE a
BY DEF Max

(* A set of numbers that has a least one, and one that has no lower bound  *)
(* missing.                                                                *)
LEMMA LeastNumber ==
  ASSUME NEW N \in SUBSET Nat, N # {}
  PROVE  \E m \in N : \A k \in N : m <= k
<1>1. PICK m \in N : \A k \in N : <<k, m>> \notin OpToRel(<, Nat)
  BY WFMin, NatLessThanWellFounded, Zenon
<1>2. \A k \in N : ~(k < m)
  BY <1>1, Zenon DEF OpToRel
<1>3. m \in Nat /\ \A k \in N : k \in Nat
  OBVIOUS
<1> QED
  BY <1>2, <1>3

-----------------------------------------------------------------------------
(* A sum of natural numbers counts pairs: for each index as many as its    *)
(* number says.                                                            *)
Units(f, S) == {p \in S \X Nat : p[2] \in 1 .. f[p[1]]}

LEMMA UnitsFinite ==
  ASSUME NEW S, IsFiniteSet(S), NEW f, \A x \in S : f[x] \in Nat
  PROVE  IsFiniteSet(Units(f, S)) /\ Cardinality(Units(f, S)) \in Nat
<1> DEFINE one == [x \in S |-> {x} \X (1 .. f[x])]
           All == {one[x] : x \in S}
<1>1. one \in Surjection(S, All)
  BY DEF Surjection
<1>2. IsFiniteSet(All)
  <2> HIDE DEF one, All
  <2> QED
    BY <1>1, FS_Surjection
<1>3. \A x \in S : IsFiniteSet({x} \X (1 .. f[x]))
  <2> SUFFICES ASSUME NEW x \in S
               PROVE  IsFiniteSet({x} \X (1 .. f[x]))
    OBVIOUS
  <2>1. 1 \in Int /\ f[x] \in Int
    OBVIOUS
  <2>2. IsFiniteSet({x}) /\ IsFiniteSet(1 .. f[x])
    BY <2>1, FS_Singleton, FS_Interval, Zenon
  <2> QED
    BY <2>2, FS_Product
<1>4. Units(f, S) \in SUBSET UNION All
  BY DEF Units
<1>5. \A T \in All : IsFiniteSet(T)
  BY <1>3
<1>6. IsFiniteSet(UNION All)
  <2> HIDE DEF All
  <2> QED
    BY <1>2, <1>5, FS_UNION
<1> HIDE DEF All
<1> QED
  BY <1>4, <1>6, FS_Subset, FS_CardinalityType

LEMMA UnitsOfOneMore ==
  ASSUME NEW S, IsFiniteSet(S), NEW f, \A x \in S : f[x] \in Nat, NEW x \in S
  PROVE  Cardinality(Units(f, S)) = f[x] + Cardinality(Units(f, S \ {x}))
<1> DEFINE A == {x} \X (1 .. f[x])
           B == Units(f, S \ {x})
<1>1. IsFiniteSet(A) /\ Cardinality(A) = f[x]
  <2>1. IsFiniteSet({x}) /\ Cardinality({x}) = 1
    BY FS_Singleton
  <2>2. IsFiniteSet(1 .. f[x]) /\ Cardinality(1 .. f[x]) = f[x]
    BY FS_Interval
  <2>3. IsFiniteSet(A) /\ Cardinality(A) = 1 * f[x]
    BY <2>1, <2>2, FS_Product
  <2> QED
    BY <2>3
<1>2. IsFiniteSet(S \ {x})
  BY FS_RemoveElement
<1>3. IsFiniteSet(B) /\ Cardinality(B) \in Nat
  BY <1>2, UnitsFinite
<1>4. Units(f, S) = A \cup B /\ A \cap B = {}
  BY DEF Units
<1>5. Cardinality(A \cup B) = Cardinality(A) + Cardinality(B) - Cardinality(A \cap B)
  <2> HIDE DEF A, B
  <2> QED
    BY <1>1, <1>3, FS_Union
<1>6. Cardinality(A \cap B) = 0
  BY <1>4, FS_EmptySet
<1> QED
  BY <1>1, <1>3, <1>4, <1>5, <1>6

(* What a sum does with each subset of its indices.                        *)
Adding(f, S, iter) ==
  [s \in SUBSET S |->
     IF s = {} THEN 0
     ELSE f[CHOOSE x \in s : TRUE] + iter[s \ {CHOOSE x \in s : TRUE}]]

LEMMA AddingOnce ==
  ASSUME NEW S, IsFiniteSet(S), NEW f, \A x \in S : f[x] \in Nat,
         NEW g, g = Adding(f, S, g), NEW h, h = Adding(f, S, h)
  PROVE  g = h
<1>1. g = [s \in SUBSET S |-> g[s]] /\ h = [s \in SUBSET S |-> h[s]]
  BY DEF Adding
<1>2. SUFFICES ASSUME NEW U \in SUBSET S, g[U] # h[U]
               PROVE  FALSE
  BY <1>1
<1> DEFINE N == {Cardinality(T) : T \in {V \in SUBSET S : g[V] # h[V]}}
<1>3. N \in SUBSET Nat /\ N # {}
  <2>1. \A T \in SUBSET S : Cardinality(T) \in Nat
    BY FS_Subset, FS_CardinalityType
  <2> QED
    BY <1>2, <2>1
<1>4. PICK m \in N : \A k \in N : m <= k
  <2> HIDE DEF N
  <2> QED
    BY <1>3, LeastNumber
<1>5. PICK T \in SUBSET S : g[T] # h[T] /\ m = Cardinality(T)
  BY <1>4
<1>6. T # {}
  BY <1>5 DEF Adding
<1>7. PICK x : x = CHOOSE y \in T : TRUE
  OBVIOUS
<1>8. x \in T
  BY <1>6, <1>7
<1>9. IsFiniteSet(T) /\ Cardinality(T) \in Nat
  BY FS_Subset, FS_CardinalityType
<1>10. Cardinality(T \ {x}) = Cardinality(T) - 1 /\ T \ {x} \in SUBSET S
  BY <1>8, <1>9, FS_RemoveElement
<1>11. g[T \ {x}] = h[T \ {x}]
  BY <1>4, <1>5, <1>9, <1>10
<1>12. g[T] = f[x] + g[T \ {x}]
  BY <1>6, <1>7 DEF Adding
<1>13. h[T] = f[x] + h[T \ {x}]
  BY <1>6, <1>7 DEF Adding
<1> QED
  BY <1>5, <1>11, <1>12, <1>13

LEMMA SumCounts ==
  ASSUME NEW S, IsFiniteSet(S), NEW f, \A x \in S : f[x] \in Nat
  PROVE  SumFunctionOnSet(f, S) = Cardinality(Units(f, S))
<1> DEFINE Count == [T \in SUBSET S |-> Cardinality(Units(f, T))]
<1>1. Count = Adding(f, S, Count)
  <2>1. \A T \in SUBSET S : T # {} =>
          Cardinality(Units(f, T)) =
            f[CHOOSE x \in T : TRUE]
              + Cardinality(Units(f, T \ {CHOOSE x \in T : TRUE}))
    <3> SUFFICES ASSUME NEW T \in SUBSET S, T # {}, NEW x, x = CHOOSE y \in T : TRUE
                 PROVE  Cardinality(Units(f, T)) = f[x] + Cardinality(Units(f, T \ {x}))
      OBVIOUS
    <3>1. x \in T /\ IsFiniteSet(T)
      BY FS_Subset
    <3>2. \A y \in T : f[y] \in Nat
      OBVIOUS
    <3>3. T \in SUBSET S
      OBVIOUS
    <3> QED
      BY ONLY <3>1, <3>2, UnitsOfOneMore
  <2>2. Units(f, {}) = {}
    BY DEF Units
  <2>3. Cardinality(Units(f, {})) = 0
    BY <2>2, FS_EmptySet
  <2>4. \A T \in SUBSET S : T \ {CHOOSE x \in T : TRUE} \in SUBSET S
    OBVIOUS
  <2>5. \A T \in SUBSET S : Count[T] = Adding(f, S, Count)[T]
    <3> SUFFICES ASSUME NEW T \in SUBSET S
                 PROVE  Count[T] = Adding(f, S, Count)[T]
      OBVIOUS
    <3>1. CASE T = {}
      BY <2>3, <3>1 DEF Adding
    <3>2. CASE T # {}
      BY <2>1, <2>4, <3>2 DEF Adding
    <3> QED
      BY <3>1, <3>2
  <2> QED
    BY <2>5 DEF Adding
<1>2. PICK iter : iter = CHOOSE g : g = Adding(f, S, g)
  OBVIOUS
<1>3. iter = Adding(f, S, iter)
  BY <1>1, <1>2
<1>4. iter = Count
  <2> HIDE DEF Count
  <2> QED
    BY <1>1, <1>3, AddingOnce
<1>5. SumFunctionOnSet(f, S) = iter[S]
  BY <1>2 DEF SumFunctionOnSet, FoldFunctionOnSet, MapThenFoldSet, Adding
<1> QED
  BY <1>4, <1>5

LEMMA SumTyped ==
  ASSUME NEW S, IsFiniteSet(S), NEW f, \A x \in S : f[x] \in Nat
  PROVE  SumFunctionOnSet(f, S) \in Nat
BY SumCounts, UnitsFinite

(* A sum is told by the numbers that are not zero.                         *)
LEMMA SumsEqual ==
  ASSUME NEW S, IsFiniteSet(S), NEW f, \A x \in S : f[x] \in Nat,
         NEW T, IsFiniteSet(T), NEW g, \A x \in T : g[x] \in Nat,
         \A x \in S : (x \in T /\ f[x] = g[x]) \/ f[x] = 0,
         \A x \in T : (x \in S /\ f[x] = g[x]) \/ g[x] = 0
  PROVE  SumFunctionOnSet(f, S) = SumFunctionOnSet(g, T)
<1>1. Units(f, S) = Units(g, T)
  BY DEF Units
<1> QED
  BY <1>1, SumCounts

LEMMA SumOfNothing ==
  ASSUME NEW f
  PROVE  SumFunctionOnSet(f, {}) = 0
<1>1. IsFiniteSet({}) /\ Units(f, {}) = {}
  BY FS_EmptySet DEF Units
<1>2. SumFunctionOnSet(f, {}) = Cardinality(Units(f, {}))
  BY <1>1, SumCounts
<1> QED
  BY <1>1, <1>2, FS_EmptySet

LEMMA SumOfEqualNumbers ==
  ASSUME NEW S, IsFiniteSet(S), NEW c \in Nat, NEW f, \A x \in S : f[x] = c
  PROVE  SumFunctionOnSet(f, S) = Cardinality(S) * c
<1>1. Units(f, S) = S \X (1 .. c)
  BY DEF Units
<1>2. IsFiniteSet(1 .. c) /\ Cardinality(1 .. c) = c
  BY FS_Interval
<1>3. Cardinality(S \X (1 .. c)) = Cardinality(S) * Cardinality(1 .. c)
  BY <1>2, FS_Product
<1> QED
  BY <1>1, <1>2, <1>3, SumCounts

(* A set of parts that have nothing in common, and numbers that say how    *)
(* large they are.                                                         *)
DividesInto(V, A, All) == /\ All = UNION {A[v] : v \in V}
                     /\ \A v, w \in V : v # w => A[v] \cap A[w] = {}

AreSizes(f, V, A) == \A v \in V : IsFiniteSet(A[v]) /\ f[v] = Cardinality(A[v])

(* Numbers that are the sizes of sets apart add up to the size of the      *)
(* sets' union.                                                            *)
THEOREM SumOfSizes ==
  ASSUME NEW V, IsFiniteSet(V), NEW f, NEW A, AreSizes(f, V, A),
         NEW All, DividesInto(V, A, All)
  PROVE  IsFiniteSet(All) /\ SumFunctionOnSet(f, V) = Cardinality(All)
<1> DEFINE num == [v \in V |-> CHOOSE b : b \in Bijection(1 .. f[v], A[v])]
           to  == [p \in Units(f, V) |-> num[p[1]][p[2]]]
<1>0. All = UNION {A[v] : v \in V} /\ \A v, w \in V : v # w => A[v] \cap A[w] = {}
  BY DEF DividesInto
<1>1. \A v \in V : f[v] \in Nat /\ num[v] \in Bijection(1 .. f[v], A[v])
  <2> SUFFICES ASSUME NEW v \in V
               PROVE  f[v] \in Nat /\ num[v] \in Bijection(1 .. f[v], A[v])
    OBVIOUS
  <2>1. f[v] \in Nat /\ ExistsBijection(1 .. f[v], A[v])
    BY FS_CardinalityType DEF AreSizes
  <2> QED
    BY <2>1 DEF ExistsBijection
<1>2. IsFiniteSet(Units(f, V))
  BY <1>1, UnitsFinite
<1>3. \A v \in V : \A k \in 1 .. f[v] : num[v][k] \in A[v]
  <2> HIDE DEF num
  <2> QED
    BY <1>1 DEF Bijection, Injection
<1>4. to \in [Units(f, V) -> All]
  <2> HIDE DEF num
  <2> QED
    BY <1>0, <1>3 DEF Units
<1>5. ASSUME NEW p \in Units(f, V), NEW q \in Units(f, V), to[p] = to[q]
      PROVE  p = q
  <2> HIDE DEF num
  <2>1. /\ p[1] \in V /\ q[1] \in V /\ p[2] \in 1 .. f[p[1]] /\ q[2] \in 1 .. f[q[1]]
        /\ p = <<p[1], p[2]>> /\ q = <<q[1], q[2]>>
    BY DEF Units
  <2>2. num[p[1]][p[2]] = num[q[1]][q[2]]
    BY <1>5
  <2>3. p[1] = q[1]
    BY <1>0, <1>3, <2>1, <2>2
  <2>4. IsInjective(num[p[1]]) /\ DOMAIN num[p[1]] = 1 .. f[p[1]]
    BY <1>1, <2>1 DEF Bijection, Injection
  <2>5. p[2] = q[2]
    BY <2>1, <2>2, <2>3, <2>4 DEF IsInjective
  <2> QED
    BY <2>1, <2>3, <2>5
<1>6. ASSUME NEW y \in All
      PROVE  \E p \in Units(f, V) : to[p] = y
  <2>1. PICK v \in V : y \in A[v]
    BY <1>0
  <2>2. \E k \in 1 .. f[v] : num[v][k] = y
    <3> HIDE DEF num
    <3> QED
      BY <1>1, <2>1 DEF Bijection, Surjection
  <2>3. PICK k \in 1 .. f[v] : num[v][k] = y
    BY <2>2
  <2>4. <<v, k>> \in Units(f, V)
    BY <1>1, <2>3 DEF Units
  <2>5. to[<<v, k>>] = y
    BY <2>3, <2>4
  <2> QED
    BY <2>4, <2>5
<1>7. to \in Bijection(Units(f, V), All)
  <2> HIDE DEF to
  <2> QED
    BY <1>4, <1>5, <1>6 DEF Bijection, Injection, Surjection, IsInjective
<1>8. IsFiniteSet(All) /\ Cardinality(All) = Cardinality(Units(f, V))
  <2> HIDE DEF to
  <2> QED
    BY <1>2, <1>7, FS_Bijection DEF ExistsBijection
<1>9. SumFunctionOnSet(f, V) = Cardinality(Units(f, V))
  BY <1>1, SumCounts
<1> QED
  BY <1>8, <1>9

(* A sum split among sets of indices that are apart.                       *)
LEMMA SumOfSums ==
  ASSUME NEW K, IsFiniteSet(K), NEW weight, \A k \in K : weight[k] \in Nat,
         NEW V, IsFiniteSet(V), NEW A, DividesInto(V, A, K),
         NEW f, \A v \in V : f[v] = SumFunctionOnSet(weight, A[v])
  PROVE  SumFunctionOnSet(f, V) = SumFunctionOnSet(weight, K)
<1> DEFINE B == [v \in V |-> Units(weight, A[v])]
<1>1. AreSizes(f, V, B)
  <2> SUFFICES ASSUME NEW v \in V
               PROVE  /\ IsFiniteSet(Units(weight, A[v]))
                      /\ f[v] = Cardinality(Units(weight, A[v]))
    BY DEF AreSizes
  <2>1. A[v] \in SUBSET K /\ \A k \in A[v] : weight[k] \in Nat
    BY DEF DividesInto
  <2>2. IsFiniteSet(A[v])
    BY <2>1, FS_Subset
  <2> QED
    BY <2>1, <2>2, UnitsFinite, SumCounts
<1>2. DividesInto(V, B, Units(weight, K))
  <2>1. \A v, w \in V : v # w => B[v] \cap B[w] = {}
    BY DEF DividesInto, Units
  <2>2. UNION {B[v] : v \in V} = Units(weight, K)
    BY DEF DividesInto, Units
  <2> QED
    BY <2>1, <2>2 DEF DividesInto
<1> HIDE DEF B
<1> QED
  BY <1>1, <1>2, SumOfSizes, SumCounts

=============================================================================
