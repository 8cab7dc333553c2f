---------------------------- MODULE Reports_proofs -----------------------------
(***************************************************************************)
(* For any sessions, page lists, events, instances and learners, and every *)
(* order of arrival: the reports add up and agree with each other.         *)
(*                                                                         *)
(* Each of them counts what one state of the rows holds, so that there is  *)
(* no invariant of its own to keep: TypeOK, and what Journeys_proofs says  *)
(* of the journeys of a list, is all that is asked of the state.  That     *)
(* numbers add up is shown by dividing what is counted into parts, one for *)
(* each number (Lists_proofs); that an order is the one reported, by       *)
(* comparing means as fractions.                                           *)
(***************************************************************************)
EXTENDS Charts, Journeys_proofs

-----------------------------------------------------------------------------
(* Places picked from any list.                                            *)

LEMMA PickedPlaces ==
  ASSUME NEW S, NEW L \in Seq(S), NEW P \in SUBSET (DOMAIN L),
         NEW q, q = Picked(L, P)
  PROVE  /\ q \in Seq(S) /\ Range(q) = {L[i] : i \in P}
         /\ (\A i, j \in P : L[i] = L[j] => i = j) => IsInjective(q)
<1> DEFINE order == Ascending(P)
<1>1. P \in SUBSET Int /\ IsFiniteSet(P)
  <2>1. IsFiniteSet(1 .. Len(L)) /\ DOMAIN L = 1 .. Len(L)
    BY FS_Interval
  <2> QED
    BY <2>1, FS_Subset
<1>2. /\ order \in Seq(P) /\ Range(order) = P /\ IsInjective(order)
  BY <1>1, AscendingLists
<1>3. q = [n \in DOMAIN order |-> L[order[n]]]
  BY DEF Picked, AtPlaces
<1> HIDE DEF order
<1>4. DOMAIN q = 1 .. Len(order) /\ Len(order) \in Nat /\ DOMAIN order = 1 .. Len(order)
  BY <1>2, <1>3
<1>5. \A n \in DOMAIN order : order[n] \in P /\ order[n] \in DOMAIN L /\ L[order[n]] \in S
  BY <1>2
<1>6. q \in Seq(S)
  BY <1>3, <1>4, <1>5
<1>7. ASSUME \A i, j \in P : L[i] = L[j] => i = j
      PROVE  IsInjective(q)
  BY <1>2, <1>3, <1>5, <1>7 DEF IsInjective
<1>8. Range(q) = {L[i] : i \in P}
  BY <1>2, <1>3 DEF Range
<1> QED
  BY <1>6, <1>7, <1>8

LEMMA UniqLists ==
  ASSUME NEW S, NEW seq \in Seq(S), NEW q, q = Uniq(seq)
  PROVE  q \in Seq(S) /\ IsInjective(q) /\ Range(q) = Range(seq)
<1> DEFINE P == {i \in DOMAIN seq : \A j \in 1 .. i - 1 : seq[j] # seq[i]}
<1>1. DOMAIN seq = 1 .. Len(seq) /\ Len(seq) \in Nat
  OBVIOUS
<1>2. \A i, j \in P : seq[i] = seq[j] => i = j
  <2> SUFFICES ASSUME NEW i \in P, NEW j \in P, seq[i] = seq[j], i < j
               PROVE  FALSE
    <3>1. \A i, j \in P : i \in Nat /\ j \in Nat
      BY <1>1
    <3>2. \A i, j \in P : ~(i < j /\ seq[i] = seq[j])
      OBVIOUS
    <3> QED
      BY <3>1, <3>2
  <2>1. i \in 1 .. j - 1
    BY <1>1
  <2> QED
    BY <2>1
<1>3. ASSUME NEW i \in DOMAIN seq
      PROVE  \E k \in P : seq[k] = seq[i]
  <2> DEFINE N == {k \in DOMAIN seq : seq[k] = seq[i]}
  <2>1. N \in SUBSET Nat /\ N # {}
    BY <1>1
  <2>2. PICK m \in N : \A k \in N : m <= k
    <3> HIDE DEF N
    <3> QED
      BY <2>1, LeastNumber
  <2>3. \A j \in 1 .. m - 1 : j \in DOMAIN seq /\ ~(m <= j)
    BY <1>1
  <2>4. m \in P
    BY <2>2, <2>3
  <2> QED
    BY <2>4
<1>4. q = Picked(seq, P)
  BY DEF Uniq
<1> HIDE DEF P
<1>5. P \in SUBSET DOMAIN seq
  BY DEF P
<1>6. q \in Seq(S) /\ Range(q) = {seq[i] : i \in P} /\ IsInjective(q)
  BY <1>2, <1>4, <1>5, PickedPlaces
<1>7. Range(q) = Range(seq)
  BY <1>3, <1>5, <1>6 DEF Range
<1> QED
  BY <1>6, <1>7

-----------------------------------------------------------------------------
(* The order of a workshop's pages.                                        *)

(* Finitely many numbers have a bound.                                     *)
LEMMA Bounded ==
  ASSUME NEW n \in Nat, NEW a, \A i \in 1 .. n : a[i] \in Nat
  PROVE  \E m \in Nat : \A i \in 1 .. n : a[i] \in 0 .. m
<1> DEFINE Good(k) == k \in 1 .. n => \E m \in Nat : \A i \in 1 .. k : a[i] \in 0 .. m
           Top == {k \in Nat : Good(k)}
<1>1. 0 \in Top
  OBVIOUS
<1>2. ASSUME NEW k \in Nat, k \in Top
      PROVE  k + 1 \in Top
  <2> SUFFICES ASSUME k + 1 \in 1 .. n
               PROVE  \E m \in Nat : \A i \in 1 .. k + 1 : a[i] \in 0 .. m
    <3>1. k + 1 \in Nat
      OBVIOUS
    <3> QED
      BY <3>1
  <2>1. \E m \in Nat : \A i \in 1 .. k : a[i] \in 0 .. m
    <3>1. CASE k = 0
      BY <3>1
    <3>2. CASE k # 0
      <4>1. k \in 1 .. n
        BY <3>2
      <4> QED
        BY <1>2, <4>1
    <3> QED
      BY <3>1, <3>2
  <2>2. PICK m \in Nat : \A i \in 1 .. k : a[i] \in 0 .. m
    BY <2>1
  <2>3. PICK l \in Nat : l = a[k + 1]
    OBVIOUS
  <2>4. \A i \in 1 .. k + 1 : a[i] \in 0 .. m + l
    <3> SUFFICES ASSUME NEW i \in 1 .. k + 1
                 PROVE  a[i] \in 0 .. m + l
      OBVIOUS
    <3>1. i \in 1 .. k \/ i = k + 1
      OBVIOUS
    <3> HIDE DEF Top
    <3> QED
      BY <2>2, <2>3, <3>1
  <2>5. m + l \in Nat
    BY <2>2, <2>3
  <2> QED
    BY ONLY <2>4, <2>5
<1>3. \A k \in Nat : k \in Top
  <2> HIDE DEF Top
  <2> QED
    BY <1>1, <1>2, Induction
<1>4. CASE n = 0
  BY <1>4
<1>5. CASE n # 0
  <2>1. n \in 1 .. n
    BY <1>5
  <2> QED
    BY <1>3, <2>1
<1> QED
  BY <1>4, <1>5

(* Of finitely many places there is one that no other beats: among those   *)
(* that most are like, the longest.                                        *)
LEMMA NoneBeats ==
  ASSUME NEW n \in Nat, n # 0, NEW a, NEW b, NEW m \in Nat,
         \A i \in 1 .. n : a[i] \in 0 .. n /\ b[i] \in 0 .. m
  PROVE  \E i \in 1 .. n : \A j \in 1 .. n :
           ~(a[j] > a[i] \/ (a[j] = a[i] /\ b[j] > b[i]))
<1> DEFINE A == {n - a[i] : i \in 1 .. n}
<1>1. A \in SUBSET Nat /\ A # {}
  <2>1. \A i \in 1 .. n : n - a[i] \in Nat
    OBVIOUS
  <2>2. 1 \in 1 .. n
    OBVIOUS
  <2> QED
    BY <2>1, <2>2
<1>2. PICK x \in A : \A k \in A : x <= k
  <2> HIDE DEF A
  <2> QED
    BY <1>1, LeastNumber
<1> DEFINE T == {i \in 1 .. n : n - a[i] = x}
           B == {m - b[i] : i \in T}
<1>3. B \in SUBSET Nat /\ B # {}
  <2>1. \A i \in 1 .. n : m - b[i] \in Nat
    OBVIOUS
  <2>2. T # {}
    BY <1>2
  <2> QED
    BY <2>1, <2>2
<1>4. PICK y \in B : \A k \in B : y <= k
  <2> HIDE DEF B
  <2> QED
    BY <1>3, LeastNumber
<1>5. PICK i \in T : y = m - b[i]
  BY <1>4
<1>6. ASSUME NEW j \in 1 .. n, a[j] > a[i] \/ (a[j] = a[i] /\ b[j] > b[i])
      PROVE  FALSE
  <2>1. i \in 1 .. n /\ n - a[i] = x /\ n - a[j] \in A
    BY <1>5
  <2>2. n - a[i] <= n - a[j]
    BY <1>2, <2>1
  <2>3. a[i] \in Int /\ a[j] \in Int /\ b[i] \in Int /\ b[j] \in Int
    BY <2>1
  <2>4. a[j] = a[i] /\ b[j] > b[i]
    BY <1>6, <2>2, <2>3
  <2>5. j \in T
    BY <2>1, <2>4
  <2>6. m - b[i] <= m - b[j]
    BY <1>4, <1>5, <2>5
  <2> QED
    BY <2>3, <2>4, <2>6
<1> QED
  BY <1>5, <1>6

LEMMA ListedPages ==
  ASSUME NEW s \in Sessions
  PROVE  Listed(s) \in Seq(Pages)
BY ReportsAssumption DEF Listed

LEMMA PagesListed ==
  ASSUME NEW L, Distinct(L), NEW order, order = PageOrder(L)
  PROVE  /\ order \in Seq(Pages) /\ IsInjective(order)
         /\ Range(order) = UNION {Range(Listed(s)) : s \in Range(L)}
<1> DEFINE all   == [i \in DOMAIN L |-> Listed(L[i])]
           lists == Picked(all, {i \in DOMAIN all : all[i] # <<>>})
           Ran(i) == HowMany(lists, LAMBDA pages : pages = lists[i])
           Beats(i, j) == \/ Ran(i) > Ran(j)
                          \/ Ran(i) = Ran(j) /\ Len(lists[i]) > Len(lists[j])
           C == {i \in DOMAIN lists : \A j \in DOMAIN lists : ~Beats(j, i)}
<1>1. /\ DOMAIN L = 1 .. Len(L) /\ Len(L) \in Nat
      /\ \A i \in DOMAIN L : L[i] \in Sessions
  BY DEF Distinct
<1>2. all \in Seq(Seq(Pages)) /\ DOMAIN all = DOMAIN L
  BY <1>1, ListedPages
<1>3. /\ lists \in Seq(Seq(Pages))
      /\ Range(lists) = {all[i] : i \in {i \in DOMAIN all : all[i] # <<>>}}
  <2> HIDE DEF all
  <2> QED
    BY <1>2, PickedPlaces
<1>4. /\ UNION {Range(lists[n]) : n \in DOMAIN lists}
            = UNION {Range(Listed(s)) : s \in Range(L)}
  <2> HIDE DEF lists
  <2>1. \A n \in DOMAIN lists : \E i \in DOMAIN L : lists[n] = Listed(L[i])
    BY <1>2, <1>3 DEF Range
  <2>2. \A i \in DOMAIN L : Listed(L[i]) # <<>> => \E n \in DOMAIN lists : lists[n] = Listed(L[i])
    BY <1>2, <1>3 DEF Range
  <2>3. \A i \in DOMAIN L : Listed(L[i]) = <<>> => Range(Listed(L[i])) = {}
    BY DEF Range
  <2>4. \A x : (\E n \in DOMAIN lists : x \in Range(lists[n])) <=>
               (\E i \in DOMAIN L : x \in Range(Listed(L[i])))
    <3> HIDE DEF all
    <3>1. ASSUME NEW x, NEW n \in DOMAIN lists, x \in Range(lists[n])
          PROVE  \E i \in DOMAIN L : x \in Range(Listed(L[i]))
      BY <2>1, <3>1
    <3>2. ASSUME NEW x, NEW i \in DOMAIN L, x \in Range(Listed(L[i]))
          PROVE  \E n \in DOMAIN lists : x \in Range(lists[n])
      BY <2>2, <2>3, <3>2
    <3> QED
      BY <3>1, <3>2
  <2> HIDE DEF all
  <2>5. {Range(Listed(s)) : s \in Range(L)} = {Range(Listed(L[i])) : i \in DOMAIN L}
    BY DEF Range
  <2> QED
    BY <2>4, <2>5
<1>5. CASE lists = <<>>
  <2>1. order = <<>>
    BY <1>5 DEF PageOrder
  <2>2. DOMAIN lists = {}
    BY <1>5
  <2>3. Range(order) = UNION {Range(lists[n]) : n \in DOMAIN lists}
    <3> HIDE DEF lists
    <3> QED
      BY <2>1, <2>2 DEF Range
  <2>4. order \in Seq(Pages) /\ IsInjective(order)
    BY <2>1 DEF IsInjective
  <2> QED
    BY <1>4, <2>3, <2>4
<1>6. CASE lists # <<>>
  <2> HIDE DEF lists
  <2>1. DOMAIN lists = 1 .. Len(lists) /\ Len(lists) \in Nat \ {0}
    BY <1>3, <1>6
  <2> DEFINE a == [i \in DOMAIN lists |-> Ran(i)]
             b == [i \in DOMAIN lists |-> Len(lists[i])]
             len == [i \in DOMAIN lists |-> Len(lists[i])]
  <2>2. \A i \in DOMAIN lists : Ran(i) \in 0 .. Len(lists)
    <3> SUFFICES ASSUME NEW i \in DOMAIN lists
                 PROVE  Ran(i) \in 0 .. Len(lists)
      OBVIOUS
    <3>1. Ran(i) = Cardinality({k \in DOMAIN lists : lists[k] = lists[i]})
      BY DEF HowMany
    <3>2. IsFiniteSet(DOMAIN lists) /\ Cardinality(DOMAIN lists) = Len(lists)
      <4>1. \A k \in Nat : IsFiniteSet(1 .. k) /\ Cardinality(1 .. k) = k
        BY FS_Interval
      <4> QED
        BY <2>1, <4>1
    <3>3. PICK K : K = {k \in DOMAIN lists : lists[k] = lists[i]}
      OBVIOUS
    <3>4. IsFiniteSet(K) /\ Cardinality(K) <= Len(lists)
      BY <3>2, <3>3, FS_Subset
    <3>5. Cardinality(K) \in Nat
      BY <3>4, FS_CardinalityType
    <3> QED
      BY <2>1, <3>1, <3>3, <3>4, <3>5
  <2>3. \E m \in Nat : \A i \in DOMAIN lists : Len(lists[i]) \in 0 .. m
    <3>1. \A i \in 1 .. Len(lists) : len[i] \in Nat
      BY <1>3, <2>1
    <3>2. \A i \in DOMAIN lists : len[i] = Len(lists[i])
      OBVIOUS
    <3> HIDE DEF len
    <3>3. \E m \in Nat : \A i \in 1 .. Len(lists) : len[i] \in 0 .. m
      BY <2>1, <3>1, Bounded
    <3> QED
      BY <2>1, <3>2, <3>3
  <2>4. PICK m \in Nat : \A i \in DOMAIN lists : Len(lists[i]) \in 0 .. m
    BY <2>3
  <2>5. \E i \in DOMAIN lists : \A j \in DOMAIN lists : ~Beats(j, i)
    <3>2. \A i \in 1 .. Len(lists) : a[i] = Ran(i) /\ b[i] = Len(lists[i])
      <4> HIDE DEF Ran
      <4> QED
        BY <2>1
    <3>1. \A i \in 1 .. Len(lists) : a[i] \in 0 .. Len(lists) /\ b[i] \in 0 .. m
      <4> HIDE DEF a, b, Ran
      <4> QED
        BY <2>1, <2>2, <2>4, <3>2
    <3>3. Len(lists) \in Nat /\ Len(lists) # 0
      BY <2>1
    <3> HIDE DEF a, b, Ran
    <3>4. \E i \in 1 .. Len(lists) : \A j \in 1 .. Len(lists) :
            ~(a[j] > a[i] \/ (a[j] = a[i] /\ b[j] > b[i]))
      BY <3>1, <3>3, NoneBeats
    <3>5. PICK i \in 1 .. Len(lists) :
            \A j \in 1 .. Len(lists) : ~(a[j] > a[i] \/ (a[j] = a[i] /\ b[j] > b[i]))
      BY <3>4
    <3>6. ASSUME NEW j \in 1 .. Len(lists)
          PROVE  ~Beats(j, i)
      <4>1. ~(a[j] > a[i] \/ (a[j] = a[i] /\ b[j] > b[i]))
        BY <3>5
      <4>2. a[j] = Ran(j) /\ b[j] = Len(lists[j]) /\ a[i] = Ran(i) /\ b[i] = Len(lists[i])
        BY <3>2
      <4> QED
        BY ONLY <4>1, <4>2
    <3> HIDE DEF Beats
    <3> QED
      BY <2>1, <3>6
  <2>6. C # {} /\ C \in SUBSET Nat
    <3> HIDE DEF Beats
    <3> QED
      BY <2>1, <2>5
  <2>7. Min(C) \in C
    <3> HIDE DEF C
    <3>1. \E x \in C : \A y \in C : x <= y
      BY <2>6, LeastNumber
    <3> QED
      BY <3>1 DEF Min
  <2>8. order = Uniq(lists[Min(C)] \o FlattenSeq(lists))
    BY <1>6 DEF PageOrder, lists
  <2>9. Min(C) \in DOMAIN lists
    BY <2>7
  <2> HIDE DEF C
  <2> DEFINE flat == FlattenSeq(lists)
             both == lists[Min(C)] \o flat
  <2>10. flat \in Seq(Pages) /\ Range(flat) = UNION {Range(lists[n]) : n \in DOMAIN lists}
    BY <1>3, FlattenLists
  <2>11. lists[Min(C)] \in Seq(Pages)
    BY <1>3, <2>9
  <2> HIDE DEF flat
  <2>12. both \in Seq(Pages) /\ Range(both) = Range(lists[Min(C)]) \cup Range(flat)
    BY <2>10, <2>11, ConcatLists
  <2>13. Range(both) = Range(flat)
    BY <2>9, <2>10, <2>12
  <2>14. order = Uniq(both)
    BY <2>8 DEF flat
  <2> HIDE DEF both
  <2>15. order \in Seq(Pages) /\ IsInjective(order) /\ Range(order) = Range(both)
    BY <2>12, <2>14, UniqLists
  <2> QED
    BY <1>4, <2>10, <2>13, <2>15
<1> QED
  BY <1>5, <1>6

-----------------------------------------------------------------------------
(* Where journeys stop.                                                    *)

(* The last place of a list that is in a set, 0 when none is.              *)
IsLastPlace(f, order, S) == f = Max({0} \cup {i \in DOMAIN order : order[i] \in S})

LEMMA LastPlace ==
  ASSUME NEW X, NEW order \in Seq(X), NEW S, NEW f, IsLastPlace(f, order, S)
  PROVE  /\ f = 0 \/ (f \in DOMAIN order /\ order[f] \in S)
         /\ \A i \in DOMAIN order : order[i] \in S => i <= f
         /\ (f = 0) <=> (Range(order) \cap S = {})
<1> DEFINE N == {i \in DOMAIN order : order[i] \in S}
<1>1. DOMAIN order = 1 .. Len(order) /\ Len(order) \in Nat
  OBVIOUS
<1>2. f \in {0} \cup N /\ \A k \in {0} \cup N : k <= f
  <2>1. CASE N = {}
    <3>1. f = Max({0})
      BY <2>1 DEF IsLastPlace
    <3>2. Max({0}) = 0
      BY DEF Max
    <3> HIDE DEF N
    <3> QED
      BY <2>1, <3>1, <3>2
  <2>2. CASE N # {}
    <3>1. N \in SUBSET (1 .. Len(order))
      BY <1>1
    <3>2. f = Max({0} \cup N)
      BY DEF IsLastPlace
    <3> HIDE DEF N
    <3>3. PICK m \in N : \A k \in N : k <= m
      BY <1>1, <2>2, <3>1, GreatestNumber
    <3>4. m \in {0} \cup N /\ m >= 1
      BY <3>1
    <3>5. \A k \in {0} \cup N : k <= m
      BY <3>3, <3>4
    <3>6. \A k \in {0} \cup N : k \in Int
      BY <3>1
    <3>7. \E x \in {0} \cup N : \A y \in {0} \cup N : y <= x
      BY <3>4, <3>5
    <3> QED
      BY <3>2, <3>7 DEF Max
  <2> QED
    BY <2>1, <2>2
<1>3. 0 \notin N
  BY <1>1
<1>4. f = 0 <=> N = {}
  <2>1. ASSUME NEW k \in N
        PROVE  k >= 1 /\ k \in Int
    BY <1>1
  <2> HIDE DEF N
  <2> QED
    BY <1>2, <1>3, <2>1
<1>5. N = {} <=> Range(order) \cap S = {}
  BY DEF Range
<1> QED
  BY <1>2, <1>4, <1>5

LEMMA ThreeParts ==
  ASSUME NEW D, IsFiniteSet(D), NEW A, NEW B, NEW C, D = A \cup B \cup C,
         A \cap B = {}, A \cap C = {}, B \cap C = {}
  PROVE  Cardinality(D) = Cardinality(A) + Cardinality(B) + Cardinality(C)
<1>1. /\ IsFiniteSet(A) /\ IsFiniteSet(B) /\ IsFiniteSet(C)
  BY FS_Subset
<1>2. /\ Cardinality(A) \in Nat /\ Cardinality(B) \in Nat /\ Cardinality(C) \in Nat
  BY <1>1, FS_CardinalityType
<1>3. /\ IsFiniteSet(A \cup B)
      /\ Cardinality(A \cup B) = Cardinality(A) + Cardinality(B) - Cardinality(A \cap B)
  BY <1>1, FS_Union
<1>4. Cardinality((A \cup B) \cup C)
        = Cardinality(A \cup B) + Cardinality(C) - Cardinality((A \cup B) \cap C)
  BY <1>1, <1>3, FS_Union
<1>5. (A \cup B) \cap C = {} /\ D = (A \cup B) \cup C
  OBVIOUS
<1>6. Cardinality({}) = 0
  BY FS_EmptySet
<1>7. Cardinality(A \cup B) = Cardinality(A) + Cardinality(B)
  <2>1. Cardinality(A \cap B) = 0
    BY <1>6
  <2> QED
    BY ONLY <1>2, <1>3, <2>1
<1>8. Cardinality(D) = Cardinality(A \cup B) + Cardinality(C)
  <2>1. Cardinality(A \cup B) \in Nat
    BY <1>2, <1>7
  <2>2. Cardinality((A \cup B) \cap C) = 0
    BY <1>5, <1>6
  <2>3. Cardinality(D) = Cardinality((A \cup B) \cup C)
    BY <1>5
  <2> QED
    BY ONLY <1>2, <1>4, <2>1, <2>2, <2>3
<1> QED
  BY <1>7, <1>8

(* The journeys that finished, those that entered a page of the list, and  *)
(* those that got to it and did not finish.                                *)
FinishPlaces(now, chains) == {k \in DOMAIN chains : Outcome(now, chains[k]) = "finished"}

EnterPlaces(order, chains, i) == {k \in DOMAIN chains : order[i] \in EnteredIn(chains[k])}

StopPlaces(now, order, chains, i) ==
  {k \in DOMAIN chains : /\ Outcome(now, chains[k]) # "finished"
                         /\ Furthest(order, chains[k]) = i}

LEMMA FunnelCounts ==
  ASSUME NEW L, NEW now, NEW chains, chains = Chains(L), NEW order, order = PageOrder(L),
         NEW report, report = Funnel(now, L)
  PROVE  /\ report.journeys = Len(chains)
         /\ report.finished = Cardinality(FinishPlaces(now, chains))
         /\ DOMAIN report.steps = DOMAIN order
         /\ \A i \in DOMAIN order :
              /\ report.steps[i].stopped = Cardinality(StopPlaces(now, order, chains, i))
              /\ report.steps[i].entered = Cardinality(EnterPlaces(order, chains, i))
         /\ report.unlisted = (UNION {EnteredIn(c) : c \in Range(chains)}) \ Range(order)
BY DEF Funnel, HowMany, StopPlaces, FinishPlaces, EnterPlaces

LEMMA FunnelSums ==
  ASSUME NEW L, Distinct(L), NEW now, NEW report, report = Funnel(now, L),
         NEW chains, chains = Chains(L)
  PROVE  /\ report.journeys =
              report.finished
              + Cardinality({k \in DOMAIN chains :
                               /\ Outcome(now, chains[k]) # "finished"
                               /\ EnteredIn(chains[k]) \subseteq report.unlisted})
              + SumOver(report.steps, LAMBDA s : s.stopped)
         /\ \A i \in DOMAIN report.steps : report.steps[i].stopped <= report.steps[i].entered
<1> DEFINE order == PageOrder(L)
           D == DOMAIN chains
           Fin == FinishPlaces(now, chains)
           Not == {k \in D : /\ Outcome(now, chains[k]) # "finished"
                             /\ EnteredIn(chains[k]) \subseteq report.unlisted}
           Stops == [i \in DOMAIN order |-> StopPlaces(now, order, chains, i)]
           Somewhere == UNION {Stops[i] : i \in DOMAIN order}
           f == [i \in DOMAIN order |-> report.steps[i].stopped]
<1>1. order \in Seq(Pages) /\ IsInjective(order)
  BY PagesListed
<1>2. chains \in Seq(Seq(Sessions))
  BY ChainsExactly
<1>3. IsFiniteSet(D) /\ Cardinality(D) = Len(chains)
  <2>1. D = 1 .. Len(chains) /\ Len(chains) \in Nat
    BY <1>2
  <2>2. \A m \in Nat : IsFiniteSet(1 .. m) /\ Cardinality(1 .. m) = m
    BY FS_Interval
  <2> QED
    BY <2>1, <2>2
<1>4. IsFiniteSet(DOMAIN order)
  <2> HIDE DEF order
  <2> QED
    BY <1>1, FS_Interval
<1>5. /\ report.journeys = Len(chains)
      /\ report.finished = Cardinality(Fin)
      /\ DOMAIN report.steps = DOMAIN order
      /\ \A i \in DOMAIN order :
           /\ report.steps[i].stopped = Cardinality(Stops[i])
           /\ report.steps[i].entered = Cardinality(EnterPlaces(order, chains, i))
      /\ report.unlisted = (UNION {EnteredIn(c) : c \in Range(chains)}) \ Range(order)
  <2> HIDE DEF Stops, order
  <2>1. \A i \in DOMAIN order : Stops[i] = StopPlaces(now, order, chains, i)
    BY DEF Stops
  <2> QED
    BY <2>1, FunnelCounts DEF order
<1> HIDE DEF order
<1>6. ASSUME NEW k \in D
      PROVE  /\ \/ Furthest(order, chains[k]) = 0
                \/ /\ Furthest(order, chains[k]) \in DOMAIN order
                   /\ order[Furthest(order, chains[k])] \in EnteredIn(chains[k])
             /\ Furthest(order, chains[k]) = 0
                  <=> EnteredIn(chains[k]) \subseteq report.unlisted
  <2>1. PICK far : far = Furthest(order, chains[k])
    OBVIOUS
  <2>2. PICK S : S = EnteredIn(chains[k])
    OBVIOUS
  <2>3. IsLastPlace(far, order, S)
    BY <2>1, <2>2 DEF Furthest, IsLastPlace
  <2>4. /\ far = 0 \/ (far \in DOMAIN order /\ order[far] \in S)
        /\ (far = 0) <=> (Range(order) \cap S = {})
    BY ONLY <1>1, <2>3, LastPlace
  <2>5. S \subseteq UNION {EnteredIn(c) : c \in Range(chains)}
    BY <2>2 DEF Range
  <2>6. Range(order) \cap S = {} <=> S \subseteq report.unlisted
    <3>1. PICK All : All = UNION {EnteredIn(c) : c \in Range(chains)}
      OBVIOUS
    <3>2. report.unlisted = All \ Range(order) /\ S \subseteq All
      BY <1>5, <2>5, <3>1
    <3> QED
      BY ONLY <3>2
  <2> QED
    BY <2>1, <2>2, <2>4, <2>6
<1>7. Somewhere = {k \in D : /\ Outcome(now, chains[k]) # "finished"
                             /\ Furthest(order, chains[k]) # 0}
  <2>1. 0 \notin DOMAIN order
    BY <1>1
  <2>2. \A k : k \in Somewhere <=> \E i \in DOMAIN order : k \in StopPlaces(now, order, chains, i)
    OBVIOUS
  <2> HIDE DEF Somewhere
  <2> QED
    BY <1>6, <2>1, <2>2 DEF StopPlaces
<1>8. SumFunctionOnSet(f, DOMAIN order) = Cardinality(Somewhere)
  <2>1. AreSizes(f, DOMAIN order, Stops)
    <3>1. ASSUME NEW i \in DOMAIN order
          PROVE  IsFiniteSet(Stops[i])
      <4>1. Stops[i] \in SUBSET D
        BY DEF StopPlaces
      <4> QED
        BY <1>3, <4>1, FS_Subset
    <3>2. \A i \in DOMAIN order : f[i] = Cardinality(Stops[i])
      BY <1>5
    <3> HIDE DEF f, Stops
    <3> QED
      BY <3>1, <3>2 DEF AreSizes
  <2>2. DividesInto(DOMAIN order, Stops, Somewhere)
    BY DEF DividesInto, StopPlaces
  <2> HIDE DEF f, Stops, Somewhere
  <2> QED
    BY <1>4, <2>1, <2>2, SumOfSizes
<1>9. SumOver(report.steps, LAMBDA s : s.stopped) = SumFunctionOnSet(f, DOMAIN order)
  <2>1. SumOver(report.steps, LAMBDA s : s.stopped)
          = SumFunction([i \in DOMAIN report.steps |-> report.steps[i].stopped])
    BY DEF SumOver
  <2>2. [i \in DOMAIN report.steps |-> report.steps[i].stopped] = f
    BY <1>5
  <2>3. DOMAIN f = DOMAIN order
    OBVIOUS
  <2> HIDE DEF f
  <2> QED
    BY <2>1, <2>2, <2>3 DEF SumFunction
<1>10. Cardinality(D) = Cardinality(Fin) + Cardinality(Not) + Cardinality(Somewhere)
  <2>1. /\ D = Fin \cup Not \cup Somewhere
        /\ Fin \cap Not = {} /\ Fin \cap Somewhere = {} /\ Not \cap Somewhere = {}
    <3> HIDE DEF Somewhere
    <3> QED
      BY <1>6, <1>7 DEF FinishPlaces
  <2> HIDE DEF D, Fin, Not, Somewhere
  <2> QED
    BY <1>3, <2>1, ThreeParts
<1>11. ASSUME NEW i \in DOMAIN order
       PROVE  report.steps[i].stopped <= report.steps[i].entered
  <2> DEFINE Into == EnterPlaces(order, chains, i)
  <2>1. Stops[i] \in SUBSET Into
    <3>1. i # 0
      BY <1>1
    <3> QED
      BY <1>6, <3>1 DEF StopPlaces, EnterPlaces
  <2>2. Into \in SUBSET D
    BY DEF EnterPlaces
  <2>3. report.steps[i].stopped = Cardinality(Stops[i]) /\ report.steps[i].entered = Cardinality(Into)
    BY <1>5
  <2> HIDE DEF Stops, Into, D
  <2>4. IsFiniteSet(Into)
    BY <1>3, <2>2, FS_Subset
  <2>5. Cardinality(Stops[i]) <= Cardinality(Into)
    BY <2>1, <2>4, FS_Subset
  <2> QED
    BY <2>3, <2>5
<1> HIDE DEF D, Fin, Somewhere, f, Stops
<1>12. report.journeys = report.finished + Cardinality(Not)
                         + SumOver(report.steps, LAMBDA s : s.stopped)
  BY <1>3, <1>5, <1>8, <1>9, <1>10
<1> QED
  BY <1>5, <1>11, <1>12 DEF D

(* Every journey of the funnel finished, stopped on exactly one page of    *)
(* the list or entered none, no page is listed twice, and no more stop at  *)
(* a page than entered it, whatever the sessions listed and entered and    *)
(* however they resumed each other (queries.py:869-942).                   *)
THEOREM FunnelAlwaysAddsUp == Spec => []FunnelAddsUp
<1>1. TypeOK => FunnelAddsUp
  <2> SUFFICES ASSUME TypeOK,
                      NEW q \in Questions \ {r \in Questions : r.workshop = AnyWorkshop},
                      NEW L, L = Included(q), NEW report, report = Funnel(q.now, L),
                      NEW chains, chains = Chains(L)
               PROVE  /\ IsInjective(PageOrder(L))
                      /\ report.journeys =
                           report.finished
                           + Cardinality({k \in DOMAIN chains :
                                            /\ Outcome(q.now, chains[k]) # "finished"
                                            /\ EnteredIn(chains[k]) \subseteq report.unlisted})
                           + SumOver(report.steps, LAMBDA s : s.stopped)
                      /\ \A i \in DOMAIN report.steps :
                           report.steps[i].stopped <= report.steps[i].entered
    BY DEF FunnelAddsUp, AllStopped, Listless, HowMany
  <2>1. Distinct(L)
    BY IncludedOldestFirst DEF OldestFirst
  <2>2. IsInjective(PageOrder(L))
    BY <2>1, PagesListed
  <2> QED
    BY <2>1, <2>2, FunnelSums
<1> QED
  BY <1>1, TypeCorrect, PTL

-----------------------------------------------------------------------------
(* The workshops of a collection.                                          *)

LEMMA ImageFinite ==
  ASSUME NEW S, IsFiniteSet(S), NEW f
  PROVE  IsFiniteSet({f[x] : x \in S})
<1> DEFINE T == {f[x] : x \in S}
           to == [x \in S |-> f[x]]
<1>1. to \in Surjection(S, T)
  BY DEF Surjection
<1> HIDE DEF to, T
<1>2. IsFiniteSet(T)
  BY <1>1, FS_Surjection
<1> QED
  BY <1>2 DEF T

NamesOf(L) == {Workshop[s] : s \in Range(L)}

LEMMA FinitelyMany ==
  ASSUME NEW L, Distinct(L)
  PROVE  IsFiniteSet(NamesOf(L)) /\ IsFiniteSet(Instances(L)) /\ NamesOf(L) \subseteq Workshops
<1>1. IsFiniteSet(Range(L)) /\ Range(L) \subseteq Sessions
  <2>1. Range(L) \in SUBSET Sessions
    BY DEF Distinct, Range
  <2> QED
    BY <2>1, JourneysAssumption, FS_Subset
<1>2. IsFiniteSet(NamesOf(L))
  BY <1>1, ImageFinite DEF NamesOf
<1>3. IsFiniteSet(Instances(L))
  BY <1>1, ImageFinite DEF Instances
<1> QED
  BY <1>1, <1>2, <1>3 DEF NamesOf, Workshops

LEMMA InstanceListed ==
  ASSUME NEW L, Distinct(L), NEW i, NEW own, own = InInstance(L, i)
  PROVE  Distinct(own) /\ Range(own) = {s \in Range(L) : Instance[s] = i}
<1> DEFINE P == {n \in DOMAIN L : Instance[L[n]] = i}
<1>1. own = Picked(L, P)
  BY DEF InInstance
<1>2. P \in SUBSET DOMAIN L /\ L \in Seq(Sessions) /\ IsInjective(L)
  BY DEF Distinct
<1>3. {L[n] : n \in P} = {s \in Range(L) : Instance[s] = i}
  BY DEF Range
<1> HIDE DEF P
<1>4. own \in Seq(Sessions) /\ IsInjective(own) /\ Range(own) = {L[n] : n \in P}
  BY <1>1, <1>2, PickedLists
<1> QED
  BY <1>3, <1>4 DEF Distinct

LEMMA TakenListed ==
  ASSUME NEW L, Distinct(L), NEW i, NEW taken, taken = Taken(L, i)
  PROVE  /\ taken \in Seq(NamesOf(L)) /\ IsInjective(taken)
         /\ Range(taken) = {Workshop[s] : s \in {t \in Range(L) : Instance[t] = i}}
<1> DEFINE own == InInstance(L, i)
           opened == [n \in DOMAIN own |-> Workshop[own[n]]]
<1>1. Distinct(own) /\ Range(own) = {s \in Range(L) : Instance[s] = i}
  BY InstanceListed
<1>2. taken = Uniq(opened)
  BY DEF Taken
<1> HIDE DEF own
<1>3. DOMAIN own = 1 .. Len(own) /\ Len(own) \in Nat
  BY <1>1 DEF Distinct
<1>4. \A n \in DOMAIN own : own[n] \in Range(L)
  BY <1>1 DEF Range
<1>5. opened \in Seq(NamesOf(L))
  BY <1>3, <1>4 DEF NamesOf
<1>6. Range(opened) = {Workshop[s] : s \in Range(own)}
  BY DEF Range
<1> HIDE DEF opened
<1>7. taken \in Seq(NamesOf(L)) /\ IsInjective(taken) /\ Range(taken) = Range(opened)
  BY <1>2, <1>5, UniqLists
<1> QED
  BY <1>1, <1>6, <1>7

LEMMA Positions ==
  ASSUME NEW X, NEW seq \in Seq(X), NEW name \in Range(seq), NEW p, p = Position(seq, name)
  PROVE  p \in DOMAIN seq /\ p \in Nat \ {0} /\ seq[p] = name
<1>1. \E n \in DOMAIN seq : seq[n] = name
  BY DEF Range
<1>2. p \in DOMAIN seq /\ seq[p] = name
  BY <1>1 DEF Position
<1> QED
  BY <1>2

Takers(L, w) == {i \in Instances(L) : w \in Range(Taken(L, i))}

LEMMA MeanTyped ==
  ASSUME NEW L, Distinct(L), NEW w \in NamesOf(L)
  PROVE  /\ IsFiniteSet(Takers(L, w)) /\ Takers(L, w) # {}
         /\ Mean(L, w)[1] \in Nat /\ Mean(L, w)[2] \in Nat \ {0}
         /\ Mean(L, w) = <<SumFunction([i \in Takers(L, w) |-> Position(Taken(L, i), w)]),
                           Cardinality(Takers(L, w))>>
<1> DEFINE f == [i \in Takers(L, w) |-> Position(Taken(L, i), w)]
<1>1. IsFiniteSet(Takers(L, w))
  <2>1. Takers(L, w) \in SUBSET Instances(L)
    BY DEF Takers
  <2> QED
    BY <2>1, FinitelyMany, FS_Subset
<1>2. Takers(L, w) # {}
  <2>1. PICK s \in Range(L) : w = Workshop[s]
    BY DEF NamesOf
  <2>2. w \in Range(Taken(L, Instance[s]))
    BY <2>1, TakenListed
  <2> QED
    BY <2>2 DEF Takers, Instances
<1>3. \A i \in Takers(L, w) : f[i] \in Nat
  <2> SUFFICES ASSUME NEW i \in Takers(L, w)
               PROVE  Position(Taken(L, i), w) \in Nat
    OBVIOUS
  <2>1. w \in Range(Taken(L, i))
    BY DEF Takers
  <2>2. Taken(L, i) \in Seq(NamesOf(L))
    BY TakenListed
  <2> QED
    BY <2>1, <2>2, Positions
<1>4. Mean(L, w) = <<SumFunction(f), Cardinality(Takers(L, w))>>
  BY DEF Mean, Takers
<1>5. DOMAIN f = Takers(L, w)
  OBVIOUS
<1> HIDE DEF f
<1>6. SumFunction(f) \in Nat
  BY <1>1, <1>3, <1>5, SumTyped DEF SumFunction
<1>7. Cardinality(Takers(L, w)) \in Nat \ {0}
  BY <1>1, <1>2, FS_EmptySet, FS_CardinalityType
<1> QED
  BY <1>1, <1>2, <1>4, <1>6, <1>7 DEF f

(* Of three fractions.                                                     *)
LEMMA Scaled ==
  ASSUME NEW x \in Int, NEW y \in Int, NEW k \in Nat \ {0}
  PROVE  (x <= y <=> x * k <= y * k) /\ (x < y <=> x * k < y * k)
OBVIOUS

LEMMA Fractions ==
  ASSUME NEW a \in Nat, NEW b \in Nat, NEW c \in Nat,
         NEW p \in Nat \ {0}, NEW q \in Nat \ {0}, NEW r \in Nat \ {0},
         a * q <= b * p, b * r <= c * q
  PROVE  /\ a * r <= c * p
         /\ a * q < b * p \/ b * r < c * q => a * r < c * p
<1>1. /\ a * q \in Nat /\ b * p \in Nat /\ b * r \in Nat /\ c * q \in Nat
      /\ a * r \in Nat /\ c * p \in Nat
  OBVIOUS
<1>2. (a * q) * r <= (b * p) * r /\ (a * q < b * p => (a * q) * r < (b * p) * r)
  BY <1>1, Scaled
<1>3. (b * r) * p <= (c * q) * p /\ (b * r < c * q => (b * r) * p < (c * q) * p)
  BY <1>1, Scaled
<1>4. /\ (a * q) * r = (a * r) * q /\ (b * p) * r = (b * r) * p
      /\ (c * q) * p = (c * p) * q
  OBVIOUS
<1>5. /\ (a * r) * q <= (c * p) * q
      /\ a * q < b * p \/ b * r < c * q => (a * r) * q < (c * p) * q
  <2>1. /\ (a * r) * q \in Int /\ (b * r) * p \in Int /\ (c * p) * q \in Int
    OBVIOUS
  <2> QED
    BY ONLY <1>2, <1>3, <1>4, <2>1
<1> QED
  BY <1>1, <1>5, Scaled

EarlierBy(L, v, w) ==
  LET difference == Compare(Mean(L, v), Mean(L, w))
  IN  difference < 0 \/ (difference = 0 /\ NameRank[v] < NameRank[w])

LEMMA EarlierOrders ==
  ASSUME NEW L, Distinct(L)
  PROVE  /\ \A v \in NamesOf(L) : ~ EarlierBy(L, v, v)
         /\ \A v, w \in NamesOf(L) : v # w => EarlierBy(L, v, w) \/ EarlierBy(L, w, v)
         /\ \A u, v, w \in NamesOf(L) :
              EarlierBy(L, u, v) /\ EarlierBy(L, v, w) => EarlierBy(L, u, w)
<1> DEFINE Up(w) == Mean(L, w)[1]
           Lo(w) == Mean(L, w)[2]
<1>1. \A w \in NamesOf(L) : Up(w) \in Nat /\ Lo(w) \in Nat \ {0}
  BY MeanTyped
<1>2. \A w \in NamesOf(L) : NameRank[w] \in Nat
  BY FinitelyMany, ReportsAssumption
<1>3. \A v, w \in NamesOf(L) : NameRank[v] = NameRank[w] => v = w
  BY FinitelyMany, ReportsAssumption DEF IsInjective
<1>4. \A v, w \in NamesOf(L) :
        EarlierBy(L, v, w) <=> \/ Up(v) * Lo(w) < Up(w) * Lo(v)
                               \/ /\ Up(v) * Lo(w) = Up(w) * Lo(v)
                                  /\ NameRank[v] < NameRank[w]
  <2> SUFFICES ASSUME NEW v \in NamesOf(L), NEW w \in NamesOf(L)
               PROVE  EarlierBy(L, v, w) <=> \/ Up(v) * Lo(w) < Up(w) * Lo(v)
                                             \/ /\ Up(v) * Lo(w) = Up(w) * Lo(v)
                                                /\ NameRank[v] < NameRank[w]
    OBVIOUS
  <2>1. Compare(Mean(L, v), Mean(L, w)) = Up(v) * Lo(w) - Up(w) * Lo(v)
    BY DEF Compare
  <2> HIDE DEF Up, Lo
  <2>2. PICK x : x = Up(v) * Lo(w)
    OBVIOUS
  <2>3. PICK y : y = Up(w) * Lo(v)
    OBVIOUS
  <2>4. x \in Int /\ y \in Int
    BY <1>1, <2>2, <2>3
  <2>5. EarlierBy(L, v, w) <=> (x - y < 0 \/ (x - y = 0 /\ NameRank[v] < NameRank[w]))
    BY <2>1, <2>2, <2>3 DEF EarlierBy
  <2>6. (x - y < 0 <=> x < y) /\ (x - y = 0 <=> x = y)
    BY ONLY <2>4
  <2> QED
    BY ONLY <2>2, <2>3, <2>5, <2>6
<1> HIDE DEF Up, Lo
<1>5. \A v, w \in NamesOf(L) : Up(v) * Lo(w) \in Int
  BY <1>1
<1>6. \A v \in NamesOf(L) : ~ EarlierBy(L, v, v)
  BY <1>2, <1>4, <1>5
<1>7. \A v, w \in NamesOf(L) : v # w => EarlierBy(L, v, w) \/ EarlierBy(L, w, v)
  <2> SUFFICES ASSUME NEW v \in NamesOf(L), NEW w \in NamesOf(L), v # w
               PROVE  EarlierBy(L, v, w) \/ EarlierBy(L, w, v)
    OBVIOUS
  <2>1. PICK x : x = Up(v) * Lo(w)
    OBVIOUS
  <2>2. PICK y : y = Up(w) * Lo(v)
    OBVIOUS
  <2>3. x \in Int /\ y \in Int /\ NameRank[v] \in Nat /\ NameRank[w] \in Nat
    BY <1>2, <1>5, <2>1, <2>2
  <2>4. NameRank[v] # NameRank[w]
    BY <1>3
  <2>5. /\ EarlierBy(L, v, w) <=> (x < y \/ (x = y /\ NameRank[v] < NameRank[w]))
        /\ EarlierBy(L, w, v) <=> (y < x \/ (y = x /\ NameRank[w] < NameRank[v]))
    BY <1>4, <2>1, <2>2
  <2> QED
    BY ONLY <2>3, <2>4, <2>5
<1>8. ASSUME NEW u \in NamesOf(L), NEW v \in NamesOf(L), NEW w \in NamesOf(L),
             EarlierBy(L, u, v), EarlierBy(L, v, w)
      PROVE  EarlierBy(L, u, w)
  <2>1. /\ Up(u) \in Nat /\ Up(v) \in Nat /\ Up(w) \in Nat
        /\ Lo(u) \in Nat \ {0} /\ Lo(v) \in Nat \ {0} /\ Lo(w) \in Nat \ {0}
        /\ NameRank[u] \in Nat /\ NameRank[v] \in Nat /\ NameRank[w] \in Nat
    BY <1>1, <1>2
  <2>2. /\ Up(u) * Lo(v) \in Int /\ Up(v) * Lo(u) \in Int /\ Up(v) * Lo(w) \in Int
        /\ Up(w) * Lo(v) \in Int /\ Up(u) * Lo(w) \in Int /\ Up(w) * Lo(u) \in Int
    BY <1>5
  <2>3. \/ Up(u) * Lo(v) < Up(v) * Lo(u)
        \/ Up(u) * Lo(v) = Up(v) * Lo(u) /\ NameRank[u] < NameRank[v]
    BY <1>4, <1>8
  <2>4. \/ Up(v) * Lo(w) < Up(w) * Lo(v)
        \/ Up(v) * Lo(w) = Up(w) * Lo(v) /\ NameRank[v] < NameRank[w]
    BY <1>4, <1>8
  <2>5. Up(u) * Lo(v) <= Up(v) * Lo(u) /\ Up(v) * Lo(w) <= Up(w) * Lo(v)
    BY <2>2, <2>3, <2>4
  <2>6. /\ Up(u) * Lo(w) <= Up(w) * Lo(u)
        /\ Up(u) * Lo(v) < Up(v) * Lo(u) \/ Up(v) * Lo(w) < Up(w) * Lo(v)
             => Up(u) * Lo(w) < Up(w) * Lo(u)
    BY ONLY <2>1, <2>5, Fractions
  <2>7. CASE Up(u) * Lo(w) < Up(w) * Lo(u)
    BY <1>4, <2>7
  <2>8. CASE Up(u) * Lo(w) = Up(w) * Lo(u)
    <3>1. NameRank[u] < NameRank[v] /\ NameRank[v] < NameRank[w]
      BY ONLY <2>2, <2>3, <2>4, <2>6, <2>8
    <3>2. NameRank[u] < NameRank[w]
      BY <2>1, <3>1
    <3> QED
      BY <1>4, <2>8, <3>2
  <2>9. Up(u) * Lo(w) < Up(w) * Lo(u) \/ Up(u) * Lo(w) = Up(w) * Lo(u)
    BY ONLY <2>2, <2>6
  <2> QED
    BY <2>7, <2>8, <2>9
<1> QED
  BY <1>6, <1>7, <1>8

(* The workshops of a collection are all named once, in their order.       *)
LEMMA WorkshopsListed ==
  ASSUME NEW L, Distinct(L), NEW order, order = CollectionWorkshops(L)
  PROVE  /\ order \in Seq(NamesOf(L)) /\ IsInjective(order) /\ Range(order) = NamesOf(L)
         /\ Len(order) = Cardinality(NamesOf(L))
         /\ \A m, n \in DOMAIN order : m < n <=> EarlierBy(L, order[m], order[n])
<1> DEFINE names == NamesOf(L)
           before == [w \in names |-> {v \in names : EarlierBy(L, v, w)}]
           q == Ranked(before)
<1>1. IsFiniteSet(names)
  BY FinitelyMany
<1> HIDE DEF names
<1>2. Strict(before, names)
  <2>1. \A v, w \in names : v \in before[w] <=> EarlierBy(L, v, w)
    OBVIOUS
  <2>2. before \in [names -> SUBSET names]
    OBVIOUS
  <2> HIDE DEF before
  <2>3. /\ \A v \in names : ~ EarlierBy(L, v, v)
        /\ \A v, w \in names : v # w => EarlierBy(L, v, w) \/ EarlierBy(L, w, v)
        /\ \A u, v, w \in names : EarlierBy(L, u, v) /\ EarlierBy(L, v, w) => EarlierBy(L, u, w)
    BY EarlierOrders DEF names
  <2>4. \A x \in names : x \notin before[x]
    BY <2>1, <2>3
  <2>5. \A x, y \in names : x # y => x \in before[y] \/ y \in before[x]
    BY <2>1, <2>3
  <2>6. \A x \in names : \A y \in before[x] : before[y] \subseteq before[x]
    <3> SUFFICES ASSUME NEW x \in names, NEW y \in before[x], NEW z \in before[y]
                 PROVE  z \in before[x]
      OBVIOUS
    <3>1. y \in names /\ z \in names
      BY <2>2
    <3> QED
      BY <2>1, <2>3, <3>1
  <2> QED
    BY <2>2, <2>4, <2>5, <2>6 DEF Strict
<1>3. /\ q \in Seq(names) /\ Range(q) = names /\ IsInjective(q) /\ Len(q) = Cardinality(names)
      /\ \A m, n \in DOMAIN q : m < n <=> q[m] \in before[q[n]]
  <2> HIDE DEF before
  <2> QED
    BY <1>1, <1>2, RankedLists
<1>4. order = q
  <2>1. order = Listing(q)
    BY DEF CollectionWorkshops, EarlierBy, names, NamesOf
  <2> HIDE DEF q
  <2> QED
    BY <1>3, <2>1 DEF Listing
<1>5. \A n \in DOMAIN q : q[n] \in names
  BY <1>3
<1> HIDE DEF q
<1> QED
  BY <1>3, <1>4, <1>5 DEF names

-----------------------------------------------------------------------------
(* Where instances stop in a collection.                                   *)

LEMMA DoneTaken ==
  ASSUME NEW L, Distinct(L), NEW now, NEW i
  PROVE  Done(now, L, i) \subseteq Range(Taken(L, i))
<1> DEFINE own == InInstance(L, i)
<1>1. Distinct(own) /\ Range(own) = {s \in Range(L) : Instance[s] = i}
  BY InstanceListed
<1>2. Range(Taken(L, i)) = {Workshop[s] : s \in {t \in Range(L) : Instance[t] = i}}
  BY TakenListed
<1> HIDE DEF own
<1>3. ASSUME NEW c \in Range(Chains(own))
      PROVE  c[1] \in Range(own)
  <2>1. PICK h \in Range(own) : ChainFrom(own, h, c)
    BY <1>1, ChainsExactly
  <2> QED
    BY <2>1 DEF ChainFrom
<1>4. \A w \in Done(now, L, i) : \E c \in Range(Chains(own)) : w = Workshop[c[1]]
  BY DEF Done, own
<1> QED
  BY <1>1, <1>2, <1>3, <1>4

(* Where an instance stopped; the instances that stopped in a workshop,    *)
(* those that kept to the order, and those that finished a workshop.       *)
StopOf(now, L, order, i) == StoppedAt(order, Taken(L, i), Done(now, L, i))

Stoppers(now, L, order, n) == {i \in Instances(L) : StopOf(now, L, order, i) = n}

Followers(L, order) == {i \in Instances(L) : InOrder(order, Taken(L, i))}

Finishers(now, L, w) == {i \in Instances(L) : w \in Done(now, L, i)}

LEMMA StopsSomewhere ==
  ASSUME NEW L, Distinct(L), NEW order, order = CollectionWorkshops(L), NEW now,
         NEW i \in Instances(L), NEW stop, stop = StopOf(now, L, order, i)
  PROVE  /\ stop = 0 => Done(now, L, i) = NamesOf(L)
         /\ stop # 0 => stop \in DOMAIN order /\ order[stop] \in Range(Taken(L, i))
<1> DEFINE taken == Range(Taken(L, i))
           done  == Done(now, L, i)
           N     == {Position(order, w) : w \in taken}
<1>1. /\ order \in Seq(NamesOf(L)) /\ Range(order) = NamesOf(L)
      /\ Len(order) = Cardinality(NamesOf(L)) /\ IsFiniteSet(NamesOf(L))
  BY WorkshopsListed, FinitelyMany
<1>2. taken # {} /\ taken \subseteq NamesOf(L) /\ done \subseteq taken
  <2>1. taken = {Workshop[s] : s \in {t \in Range(L) : Instance[t] = i}}
    BY TakenListed
  <2>2. done \subseteq taken
    BY DoneTaken
  <2>3. \E s \in Range(L) : Instance[s] = i
    BY DEF Instances
  <2> HIDE DEF taken, done
  <2> QED
    BY <2>1, <2>2, <2>3 DEF NamesOf
<1>3. stop = IF Cardinality(done) = Len(order) THEN 0 ELSE Max(N)
  BY DEF StopOf, StoppedAt
<1> HIDE DEF taken, done
<1>4. \A w \in taken : /\ Position(order, w) \in DOMAIN order
                       /\ Position(order, w) \in Nat \ {0}
                       /\ order[Position(order, w)] = w
  BY <1>1, <1>2, Positions
<1>5. Max(N) \in N
  <2>1. DOMAIN order = 1 .. Len(order) /\ Len(order) \in Nat
    BY <1>1
  <2>2. N \in SUBSET (1 .. Len(order)) /\ N # {}
    BY <1>2, <1>4, <2>1
  <2> HIDE DEF N
  <2> QED
    BY <2>1, <2>2, GreatestNumber
<1>6. \A n \in N : n \in DOMAIN order /\ n # 0 /\ order[n] \in taken
  BY <1>4
<1> HIDE DEF N
<1>7. ASSUME stop = 0
      PROVE  done = NamesOf(L)
  <2>1. Cardinality(done) = Len(order)
    BY <1>3, <1>5, <1>6, <1>7
  <2>2. done \in SUBSET NamesOf(L)
    BY <1>2
  <2> QED
    BY <1>1, <2>1, <2>2, FS_Subset
<1>8. ASSUME stop # 0
      PROVE  stop \in DOMAIN order /\ order[stop] \in taken
  BY <1>3, <1>5, <1>6, <1>8
<1> QED
  BY <1>7, <1>8 DEF taken, done

LEMMA CollectionCounts ==
  ASSUME NEW L, NEW now, NEW order, order = CollectionWorkshops(L),
         NEW report, report = CollectionProgress(now, L)
  PROVE  /\ report.instances = Cardinality(Instances(L))
         /\ report.completedAll = Cardinality(Stoppers(now, L, order, 0))
         /\ report.inOrder = Cardinality(Followers(L, order))
         /\ DOMAIN report.steps = DOMAIN order
         /\ \A n \in DOMAIN order :
              /\ report.steps[n].name = order[n]
              /\ report.steps[n].instances = Cardinality(Takers(L, order[n]))
              /\ report.steps[n].finished = Cardinality(Finishers(now, L, order[n]))
              /\ report.steps[n].stopped = Cardinality(Stoppers(now, L, order, n))
BY DEF CollectionProgress, Progress, Stoppers, StopOf, Takers, Finishers, Followers

LEMMA CollectionSums ==
  ASSUME NEW L, Distinct(L), NEW now, NEW report, report = CollectionProgress(now, L)
  PROVE  AllAccountedFor(report)
<1> DEFINE order == CollectionWorkshops(L)
           D == Instances(L)
           Stops == [n \in DOMAIN order |-> Stoppers(now, L, order, n)]
           All == Stoppers(now, L, order, 0)
           Somewhere == UNION {Stops[n] : n \in DOMAIN order}
           f == [n \in DOMAIN order |-> report.steps[n].stopped]
<1>1. order \in Seq(NamesOf(L)) /\ Range(order) = NamesOf(L)
  BY WorkshopsListed
<1>2. IsFiniteSet(D)
  BY FinitelyMany
<1>3. /\ report.instances = Cardinality(D)
      /\ report.completedAll = Cardinality(All)
      /\ DOMAIN report.steps = DOMAIN order
      /\ \A n \in DOMAIN order :
           /\ report.steps[n].instances = Cardinality(Takers(L, order[n]))
           /\ report.steps[n].finished = Cardinality(Finishers(now, L, order[n]))
           /\ report.steps[n].stopped = Cardinality(Stoppers(now, L, order, n))
  BY CollectionCounts
<1>4. \A i \in D : /\ StopOf(now, L, order, i) = 0 => Done(now, L, i) = NamesOf(L)
                   /\ StopOf(now, L, order, i) # 0 =>
                        /\ StopOf(now, L, order, i) \in DOMAIN order
                        /\ order[StopOf(now, L, order, i)] \in Range(Taken(L, i))
  BY StopsSomewhere
<1> HIDE DEF order
<1>5. DOMAIN order = 1 .. Len(order) /\ Len(order) \in Nat /\ 0 \notin DOMAIN order
  BY <1>1
<1>6. IsFiniteSet(DOMAIN order)
  BY <1>5, FS_Interval
<1>7. \A n \in DOMAIN order : order[n] \in NamesOf(L)
  BY <1>1
<1>8. /\ D = All \cup Somewhere /\ All \cap Somewhere = {}
  <2>1. \A i : i \in Somewhere <=> \E n \in DOMAIN order : i \in Stoppers(now, L, order, n)
    OBVIOUS
  <2> HIDE DEF Somewhere
  <2> QED
    BY <1>4, <1>5, <2>1 DEF Stoppers
<1>9. SumFunctionOnSet(f, DOMAIN order) = Cardinality(Somewhere)
  <2>1. AreSizes(f, DOMAIN order, Stops)
    <3>1. ASSUME NEW n \in DOMAIN order
          PROVE  IsFiniteSet(Stops[n])
      <4>1. Stops[n] \in SUBSET D
        BY DEF Stoppers
      <4> QED
        BY <1>2, <4>1, FS_Subset
    <3>2. \A n \in DOMAIN order : f[n] = Cardinality(Stops[n])
      BY <1>3
    <3> HIDE DEF f, Stops
    <3> QED
      BY <3>1, <3>2 DEF AreSizes
  <2>2. DividesInto(DOMAIN order, Stops, Somewhere)
    BY DEF DividesInto, Stoppers
  <2> HIDE DEF f, Stops, Somewhere
  <2> QED
    BY <1>6, <2>1, <2>2, SumOfSizes
<1>10. SumOver(report.steps, LAMBDA s : s.stopped) = SumFunctionOnSet(f, DOMAIN order)
  <2>1. SumOver(report.steps, LAMBDA s : s.stopped)
          = SumFunction([n \in DOMAIN report.steps |-> report.steps[n].stopped])
    BY DEF SumOver
  <2>2. [n \in DOMAIN report.steps |-> report.steps[n].stopped] = f
    BY <1>3
  <2>3. DOMAIN f = DOMAIN order
    OBVIOUS
  <2> HIDE DEF f
  <2> QED
    BY <2>1, <2>2, <2>3 DEF SumFunction
<1>11. Cardinality(D) = Cardinality(All) + Cardinality(Somewhere)
  <2>1. IsFiniteSet(All) /\ IsFiniteSet(Somewhere)
    <3> HIDE DEF All, Somewhere, D
    <3>1. All \in SUBSET D /\ Somewhere \in SUBSET D
      BY <1>8
    <3> QED
      BY <1>2, <3>1, FS_Subset
  <2> HIDE DEF All, Somewhere, D
  <2>2. Cardinality(All \cup Somewhere)
          = Cardinality(All) + Cardinality(Somewhere) - Cardinality(All \cap Somewhere)
    BY <2>1, FS_Union
  <2>3. Cardinality(All \cap Somewhere) = 0
    BY <1>8, FS_EmptySet
  <2>4. Cardinality(All) \in Nat /\ Cardinality(Somewhere) \in Nat
    BY <2>1, FS_CardinalityType
  <2>5. Cardinality(D) = Cardinality(All \cup Somewhere)
    BY <1>8
  <2> QED
    BY ONLY <2>2, <2>3, <2>4, <2>5
<1>12. ASSUME NEW n \in DOMAIN order
       PROVE  LET step == report.steps[n]
              IN  /\ step.stopped + report.completedAll <= step.instances
                  /\ report.completedAll <= step.finished
                  /\ step.finished <= step.instances
  <2> DEFINE Here == Stoppers(now, L, order, n)
             Took == Takers(L, order[n])
             Fin  == Finishers(now, L, order[n])
  <2>1. ASSUME NEW i \in All
        PROVE  i \in Fin
    BY <1>4, <1>7 DEF Stoppers, Finishers
  <2>2. ASSUME NEW i \in Fin
        PROVE  i \in Took
    BY DoneTaken DEF Finishers, Takers
  <2>3. ASSUME NEW i \in Here
        PROVE  i \in Took
    BY <1>4, <1>5 DEF Stoppers, Takers
  <2>4. Here \cap All = {}
    BY <1>5 DEF Stoppers
  <2>5. Took \in SUBSET D
    BY DEF Takers
  <2>6. /\ report.steps[n].instances = Cardinality(Took)
        /\ report.steps[n].finished = Cardinality(Fin)
        /\ report.steps[n].stopped = Cardinality(Here)
    BY <1>3
  <2>7. report.completedAll = Cardinality(All)
    BY <1>3
  <2> HIDE DEF Here, Took, Fin, All, D
  <2>8. Fin \in SUBSET Took /\ All \in SUBSET Fin /\ Here \cup All \in SUBSET Took
    BY <2>1, <2>2, <2>3
  <2>9. IsFiniteSet(Took)
    BY <1>2, <2>5, FS_Subset
  <2>10. /\ IsFiniteSet(Fin) /\ Cardinality(Fin) <= Cardinality(Took)
         /\ IsFiniteSet(Here \cup All) /\ Cardinality(Here \cup All) <= Cardinality(Took)
    BY <2>8, <2>9, FS_Subset
  <2>11. IsFiniteSet(All) /\ Cardinality(All) <= Cardinality(Fin)
    BY <2>8, <2>10, FS_Subset
  <2>12. IsFiniteSet(Here)
    <3>1. Here \in SUBSET (Here \cup All)
      OBVIOUS
    <3> QED
      BY <2>10, <3>1, FS_Subset
  <2>13. Cardinality(Here \cup All)
           = Cardinality(Here) + Cardinality(All) - Cardinality(Here \cap All)
    BY <2>11, <2>12, FS_Union
  <2>14. Cardinality(Here \cap All) = 0
    BY <2>4, FS_EmptySet
  <2>15. Cardinality(Here) \in Nat /\ Cardinality(All) \in Nat
    BY <2>11, <2>12, FS_CardinalityType
  <2>16. Cardinality(Here) + Cardinality(All) <= Cardinality(Took)
    <3>1. Cardinality(Here \cup All) = Cardinality(Here) + Cardinality(All)
      BY ONLY <2>13, <2>14, <2>15
    <3> QED
      BY <2>10, <3>1
  <2> QED
    BY <2>6, <2>7, <2>10, <2>11, <2>16
<1> HIDE DEF D, All, Somewhere, f, Stops
<1>13. report.instances = report.completedAll + SumOver(report.steps, LAMBDA s : s.stopped)
  BY <1>3, <1>9, <1>10, <1>11
<1>14. \A n \in DOMAIN report.steps :
         LET step == report.steps[n]
         IN  /\ step.stopped + report.completedAll <= step.instances
             /\ report.completedAll <= step.finished
             /\ step.finished <= step.instances
  BY <1>3, <1>12
<1> QED
  BY <1>13, <1>14 DEF AllAccountedFor

(* Every instance of a collection completed it or stopped in exactly one   *)
(* workshop that it opened, and what completed it finished every workshop  *)
(* and is counted in each, whatever the instances opened and in whatever   *)
(* order (queries.py:2268-2340).                                           *)
THEOREM CollectionAlwaysAddsUp == Spec => []CollectionAddsUp
<1>1. TypeOK => CollectionAddsUp
  <2> SUFFICES ASSUME TypeOK, NEW q \in Questions
               PROVE  AllAccountedFor(CollectionProgress(q.now, Included(q)))
    BY DEF CollectionAddsUp
  <2>1. Distinct(Included(q))
    BY IncludedOldestFirst DEF OldestFirst
  <2> QED
    BY <2>1, CollectionSums
<1> QED
  BY <1>1, TypeCorrect, PTL

-----------------------------------------------------------------------------
(* Where in a list what was picked stood.                                  *)
StoodAt(at, q, L, P) ==
  /\ at \in [DOMAIN q -> P]
  /\ \A p \in P : \E n \in DOMAIN q : at[n] = p
  /\ \A m, n \in DOMAIN q : m < n <=> at[m] < at[n]
  /\ \A n \in DOMAIN q : q[n] = L[at[n]]

LEMMA PickedStood ==
  ASSUME NEW S, NEW L \in Seq(S), NEW P \in SUBSET (DOMAIN L),
         NEW q, q = Picked(L, P)
  PROVE  \E at : StoodAt(at, q, L, P)
<1> DEFINE order == Ascending(P)
<1>1. P \in SUBSET Int /\ IsFiniteSet(P)
  <2>1. IsFiniteSet(1 .. Len(L)) /\ DOMAIN L = 1 .. Len(L)
    BY FS_Interval
  <2> QED
    BY <2>1, FS_Subset
<1>2. /\ order \in Seq(P) /\ Range(order) = P
      /\ \A i, j \in DOMAIN order : i < j <=> order[i] < order[j]
  BY <1>1, AscendingLists
<1>3. q = [n \in DOMAIN order |-> L[order[n]]]
  BY DEF Picked, AtPlaces
<1> HIDE DEF order
<1>4. DOMAIN q = DOMAIN order /\ order \in [DOMAIN order -> P]
  BY <1>2, <1>3
<1>5. \A p \in P : \E n \in DOMAIN order : order[n] = p
  BY <1>2 DEF Range
<1>6. StoodAt(order, q, L, P)
  BY <1>2, <1>3, <1>4, <1>5 DEF StoodAt
<1> QED
  BY <1>6

LEMMA LeastIs ==
  ASSUME NEW N \in SUBSET Nat, NEW m \in N, \A k \in N : m <= k
  PROVE  Min(N) = m
<1>1. Min(N) \in N /\ \A k \in N : Min(N) <= k
  BY DEF Min
<1>2. Min(N) \in Nat /\ m \in Nat /\ Min(N) <= m /\ m <= Min(N)
  BY <1>1
<1> QED
  BY ONLY <1>2

(* What an instance took is in the order of where it opened each first.    *)
LEMMA TakenPlaces ==
  ASSUME NEW L, Distinct(L), NEW i, NEW taken, taken = Taken(L, i)
  PROVE  /\ \A w : w \in Range(taken) <=> Opened(L, i, w) # {}
         /\ \A m, n \in DOMAIN taken :
              m < n <=> Min(Opened(L, i, taken[m])) < Min(Opened(L, i, taken[n]))
         /\ \A n \in DOMAIN taken : Min(Opened(L, i, taken[n])) \in Nat
<1> DEFINE own == InInstance(L, i)
           P == {n \in DOMAIN L : Instance[L[n]] = i}
           opened == [n \in DOMAIN own |-> Workshop[own[n]]]
           F == {n \in DOMAIN opened : \A m \in 1 .. n - 1 : opened[m] # opened[n]}
<1>1. L \in Seq(Sessions) /\ DOMAIN L = 1 .. Len(L) /\ Len(L) \in Nat
  BY DEF Distinct
<1>2. own = Picked(L, P) /\ P \in SUBSET DOMAIN L
  BY DEF InInstance
<1>3. Distinct(own)
  BY InstanceListed
<1>4. taken = Uniq(opened)
  BY DEF Taken
<1>5. taken = Picked(opened, F)
  BY <1>4 DEF Uniq
<1>6. PICK a : StoodAt(a, own, L, P)
  <2> HIDE DEF P, own
  <2> QED
    BY <1>1, <1>2, PickedStood
<1> HIDE DEF own
<1>7. /\ DOMAIN own = 1 .. Len(own) /\ Len(own) \in Nat
  BY <1>3 DEF Distinct
<1>8. opened \in Seq(NamesOf(L)) /\ DOMAIN opened = DOMAIN own
  <2>1. \A n \in DOMAIN own : own[n] \in Range(L)
    BY <1>2, <1>6 DEF StoodAt, Range
  <2> QED
    BY <1>7, <2>1 DEF NamesOf
<1>9. F \in SUBSET DOMAIN opened
  OBVIOUS
<1>10. PICK b : StoodAt(b, taken, opened, F)
  <2> HIDE DEF F, opened
  <2> QED
    BY <1>5, <1>8, <1>9, PickedStood
<1>11. \A n \in DOMAIN own : a[n] \in P /\ own[n] = L[a[n]] /\ a[n] \in Nat
  BY <1>1, <1>2, <1>6 DEF StoodAt
<1>12. \A k \in DOMAIN taken : /\ b[k] \in F /\ taken[k] = opened[b[k]]
                               /\ b[k] \in DOMAIN own /\ b[k] \in Nat
  <2> HIDE DEF F, opened
  <2> QED
    BY <1>7, <1>8, <1>9, <1>10 DEF StoodAt
<1> HIDE DEF P
<1>13. \A n \in DOMAIN own : opened[n] = Workshop[L[a[n]]]
  BY <1>11
<1>14. \A w : Opened(L, i, w) = {p \in P : Workshop[L[p]] = w}
  BY DEF Opened, P
<1>15. ASSUME NEW k \in DOMAIN taken
       PROVE  /\ a[b[k]] \in Opened(L, i, taken[k])
              /\ \A p \in Opened(L, i, taken[k]) : a[b[k]] <= p
  <2>1. a[b[k]] \in P /\ Workshop[L[a[b[k]]]] = taken[k]
    BY <1>11, <1>12, <1>13
  <2>2. ASSUME NEW p \in Opened(L, i, taken[k]), p < a[b[k]]
        PROVE  FALSE
    <3>1. p \in P /\ Workshop[L[p]] = taken[k]
      BY <1>14
    <3>2. PICK n \in DOMAIN own : a[n] = p
      BY <1>6, <3>1 DEF StoodAt
    <3>3. n < b[k]
      BY <1>6, <1>12, <2>2, <3>2 DEF StoodAt
    <3>4. n \in 1 .. b[k] - 1
      <4>1. n \in Nat /\ n >= 1 /\ b[k] \in Nat
        <5> HIDE DEF F, opened
        <5> QED
          BY <1>7, <1>12
      <4> QED
        BY ONLY <3>3, <4>1
    <3>5. opened[n] # opened[b[k]]
      BY <1>12, <3>4
    <3> HIDE DEF opened
    <3> QED
      BY <1>12, <1>13, <3>1, <3>2, <3>5
  <2>3. \A p \in Opened(L, i, taken[k]) : p \in Nat
    BY <1>1 DEF Opened
  <2>4. a[b[k]] \in Nat
    BY <1>11, <1>12
  <2> QED
    BY <1>14, <2>1, <2>2, <2>3, <2>4
<1>16. \A k \in DOMAIN taken : Min(Opened(L, i, taken[k])) = a[b[k]]
  <2> SUFFICES ASSUME NEW k \in DOMAIN taken
               PROVE  Min(Opened(L, i, taken[k])) = a[b[k]]
    OBVIOUS
  <2>1. Opened(L, i, taken[k]) \in SUBSET Nat
    BY <1>1 DEF Opened
  <2> QED
    BY <1>15, <2>1, LeastIs
<1>17. \A m, n \in DOMAIN taken : m < n <=> a[b[m]] < a[b[n]]
  <2> SUFFICES ASSUME NEW m \in DOMAIN taken, NEW n \in DOMAIN taken
               PROVE  m < n <=> a[b[m]] < a[b[n]]
    OBVIOUS
  <2>1. m < n <=> b[m] < b[n]
    BY <1>10 DEF StoodAt
  <2>2. b[m] < b[n] <=> a[b[m]] < a[b[n]]
    BY <1>6, <1>12 DEF StoodAt
  <2> QED
    BY <2>1, <2>2
<1>18. \A w : w \in Range(taken) <=> Opened(L, i, w) # {}
  <2>1. Range(taken) = {Workshop[s] : s \in {t \in Range(L) : Instance[t] = i}}
    BY TakenListed
  <2> QED
    BY <2>1 DEF Opened, Range
<1>19. \A k \in DOMAIN taken : a[b[k]] \in Nat
  BY <1>11, <1>12
<1> QED
  BY <1>16, <1>17, <1>18, <1>19

UpTo(seq, n) == {seq[k] : k \in 1 .. n - 1}

(* The place of an element is told by how many have one before it.         *)
LEMMA PlacesBefore ==
  ASSUME NEW X, NEW seq \in Seq(X), IsInjective(seq), NEW n \in DOMAIN seq
  PROVE  Cardinality(UpTo(seq, n)) = n - 1
<1> DEFINE B == UpTo(seq, n)
<1>1. DOMAIN seq = 1 .. Len(seq) /\ Len(seq) \in Nat /\ n \in Nat
  OBVIOUS
<1>2. B \in SUBSET Range(seq)
  BY <1>1 DEF Range, UpTo
<1>3. {k \in DOMAIN seq : seq[k] \in B} = 1 .. n - 1
  BY <1>1 DEF IsInjective, UpTo
<1> HIDE DEF B
<1>4. Cardinality({k \in DOMAIN seq : seq[k] \in B}) = Cardinality(B)
  BY <1>2, PlacesCount
<1>5. Cardinality(1 .. n - 1) = n - 1
  <2>1. \A m \in Int : Cardinality(1 .. m) = IF 1 > m THEN 0 ELSE m - 1 + 1
    BY FS_Interval
  <2> QED
    BY <1>1, <2>1
<1> QED
  BY <1>3, <1>4, <1>5 DEF B

(* Two lists have an element at the same place when the elements before it *)
(* are the same.                                                           *)
LEMMA SamePlace ==
  ASSUME NEW X, NEW p \in Seq(X), NEW q \in Seq(X), IsInjective(p), IsInjective(q),
         NEW m \in DOMAIN p, NEW n \in DOMAIN q,
         UpTo(p, m) = UpTo(q, n)
  PROVE  m = n
<1>1. m \in Int /\ n \in Int
  OBVIOUS
<1>2. Cardinality(UpTo(p, m)) = m - 1 /\ Cardinality(UpTo(q, n)) = n - 1
  BY PlacesBefore
<1> QED
  BY <1>1, <1>2

-----------------------------------------------------------------------------
(* An order that one instance has in full and the others have a part of.   *)

LEMMA PositionIs ==
  ASSUME NEW X, NEW seq \in Seq(X), IsInjective(seq), NEW n \in DOMAIN seq
  PROVE  Position(seq, seq[n]) = n
<1>1. seq[n] \in Range(seq)
  BY DEF Range
<1>2. Position(seq, seq[n]) \in DOMAIN seq /\ seq[Position(seq, seq[n])] = seq[n]
  BY <1>1, Positions
<1> QED
  BY <1>2 DEF IsInjective

LEMMA FirstsCompared ==
  ASSUME NEW L, Distinct(L), NEW i, NEW v \in Range(Taken(L, i)), NEW w \in Range(Taken(L, i))
  PROVE  OpenedFirst(L, i, v, w) <=> Position(Taken(L, i), v) < Position(Taken(L, i), w)
<1> DEFINE taken == Taken(L, i)
<1>1. taken \in Seq(NamesOf(L)) /\ IsInjective(taken)
  BY TakenListed
<1>2. /\ Opened(L, i, v) # {} /\ Opened(L, i, w) # {}
      /\ \A m, n \in DOMAIN taken :
           m < n <=> Min(Opened(L, i, taken[m])) < Min(Opened(L, i, taken[n]))
  BY TakenPlaces
<1> HIDE DEF taken
<1>3. /\ Position(taken, v) \in DOMAIN taken /\ taken[Position(taken, v)] = v
      /\ Position(taken, w) \in DOMAIN taken /\ taken[Position(taken, w)] = w
  BY <1>1, Positions DEF taken
<1>4. OpenedFirst(L, i, v, w) <=> Min(Opened(L, i, v)) < Min(Opened(L, i, w))
  BY <1>2 DEF OpenedFirst
<1>5. Position(taken, v) < Position(taken, w) <=> Min(Opened(L, i, v)) < Min(Opened(L, i, w))
  BY <1>2, <1>3
<1> QED
  BY <1>4, <1>5 DEF taken

(* Then every instance that opened a workshop has it at the same place.    *)
LEMMA CommonPlaces ==
  ASSUME NEW L, Distinct(L), NEW i \in Instances(L), IsCommonOrder(L, i),
         NEW j \in Instances(L), NEW w \in Range(Taken(L, j))
  PROVE  /\ Range(Taken(L, i)) = NamesOf(L)
         /\ Position(Taken(L, j), w) = Position(Taken(L, i), w)
<1> DEFINE whole == Taken(L, i)
           taken == Taken(L, j)
           m == Position(taken, w)
           n == Position(whole, w)
           r(v) == Position(whole, v)
           at(v) == Position(taken, v)
<1>0. w \in Range(taken)
  OBVIOUS
<1>1. /\ taken \in Seq(NamesOf(L)) /\ IsInjective(taken)
      /\ whole \in Seq(NamesOf(L)) /\ IsInjective(whole)
  BY TakenListed
<1>2. \A k \in Instances(L) : \A v, u \in NamesOf(L) :
        /\ Opened(L, i, v) # {}
        /\ OpenedFirst(L, i, v, u) /\ Opened(L, k, u) # {} => OpenedFirst(L, k, v, u)
  BY DEF IsCommonOrder, NamesOf
<1>3. Range(whole) = NamesOf(L) /\ Range(taken) \subseteq NamesOf(L)
  <2>1. Range(whole) \subseteq NamesOf(L) /\ Range(taken) \subseteq NamesOf(L)
    <3> HIDE DEF whole, taken
    <3> QED
      BY <1>1 DEF Range
  <2>2. \A v : v \in Range(whole) <=> Opened(L, i, v) # {}
    BY TakenPlaces
  <2> HIDE DEF whole, taken
  <2> QED
    BY <1>2, <2>1, <2>2
<1>4. \A v : v \in Range(taken) <=> Opened(L, j, v) # {}
  BY TakenPlaces
<1>5. \A v, u \in Range(whole) : OpenedFirst(L, i, v, u) <=> r(v) < r(u)
  BY FirstsCompared
<1>6. \A v, u \in Range(taken) : OpenedFirst(L, j, v, u) <=> at(v) < at(u)
  BY FirstsCompared
<1> HIDE DEF whole, taken
<1>7. \A v \in Range(whole) : /\ r(v) \in DOMAIN whole /\ r(v) \in Nat \ {0}
                              /\ whole[r(v)] = v
  BY <1>1, Positions
<1>8. \A v \in Range(taken) : /\ at(v) \in DOMAIN taken /\ at(v) \in Nat \ {0}
                              /\ taken[at(v)] = v
  BY <1>1, Positions
<1>9. \A k \in DOMAIN whole : whole[k] \in Range(whole) /\ r(whole[k]) = k
  BY <1>1, PositionIs DEF Range
<1>10. \A k \in DOMAIN taken : taken[k] \in Range(taken) /\ at(taken[k]) = k
  BY <1>1, PositionIs DEF Range
<1>11. /\ DOMAIN whole = 1 .. Len(whole) /\ Len(whole) \in Nat
       /\ DOMAIN taken = 1 .. Len(taken) /\ Len(taken) \in Nat
  BY <1>1
<1>12. ASSUME NEW v \in Range(whole), r(v) < r(w)
       PROVE  v \in Range(taken) /\ at(v) < at(w)
  <2>1. v \in NamesOf(L) /\ w \in NamesOf(L)
    BY <1>0, <1>3
  <2>2. OpenedFirst(L, i, v, w)
    <3>1. w \in Range(whole)
      BY <1>3, <2>1
    <3> QED
      BY <1>5, <1>12, <3>1
  <2>3. OpenedFirst(L, j, v, w)
    BY <1>0, <1>2, <1>4, <2>1, <2>2
  <2>4. v \in Range(taken)
    BY <1>4, <2>3 DEF OpenedFirst
  <2> QED
    BY <1>0, <1>6, <2>3, <2>4
<1>13. ASSUME NEW v \in Range(taken), at(v) < at(w)
       PROVE  v \in Range(whole) /\ r(v) < r(w)
  <2>1. v \in Range(whole) /\ w \in Range(whole)
    BY <1>0, <1>3
  <2>2. v # w
    BY <1>8, <1>13
  <2>3. r(v) # r(w)
    BY <1>7, <2>1, <2>2
  <2>4. ~ (r(w) < r(v))
    <3> SUFFICES ASSUME r(w) < r(v)
                 PROVE  FALSE
      OBVIOUS
    <3>1. OpenedFirst(L, i, w, v)
      BY <1>5, <2>1
    <3>2. OpenedFirst(L, j, w, v)
      BY <1>2, <1>3, <1>4, <2>1, <3>1
    <3>3. at(w) < at(v)
      BY <1>0, <1>6, <3>2
    <3>4. at(v) \in Nat /\ at(w) \in Nat
      BY <1>0, <1>8
    <3> QED
      BY <1>13, <3>3, <3>4
  <2>5. r(v) \in Nat /\ r(w) \in Nat
    BY <1>7, <2>1
  <2> QED
    BY <2>1, <2>3, <2>4, <2>5
<1>14. w \in Range(whole) /\ n \in DOMAIN whole /\ m \in DOMAIN taken
  BY <1>0, <1>3, <1>7, <1>8
<1>15. \A k \in 1 .. n - 1 : k \in DOMAIN whole /\ k < n
  BY <1>11, <1>14
<1>16. \A k \in 1 .. m - 1 : k \in DOMAIN taken /\ k < m
  BY <1>11, <1>14
<1>17. \A k \in 1 .. n - 1 : \E l \in 1 .. m - 1 : whole[k] = taken[l]
  <2> SUFFICES ASSUME NEW k \in 1 .. n - 1
               PROVE  \E l \in 1 .. m - 1 : whole[k] = taken[l]
    OBVIOUS
  <2>1. whole[k] \in Range(whole) /\ r(whole[k]) = k /\ k < n
    BY <1>9, <1>15
  <2>2. whole[k] \in Range(taken) /\ at(whole[k]) < m
    BY <1>12, <2>1
  <2>3. at(whole[k]) \in Nat \ {0} /\ m \in Nat /\ taken[at(whole[k])] = whole[k]
    BY <1>0, <1>8, <2>2
  <2>4. at(whole[k]) \in 1 .. m - 1
    BY ONLY <2>2, <2>3
  <2> QED
    BY <2>3, <2>4
<1>18. \A l \in 1 .. m - 1 : \E k \in 1 .. n - 1 : taken[l] = whole[k]
  <2> SUFFICES ASSUME NEW l \in 1 .. m - 1
               PROVE  \E k \in 1 .. n - 1 : taken[l] = whole[k]
    OBVIOUS
  <2>1. taken[l] \in Range(taken) /\ at(taken[l]) = l /\ l < m
    BY <1>10, <1>16
  <2>2. taken[l] \in Range(whole) /\ r(taken[l]) < n
    BY <1>13, <2>1
  <2>3. r(taken[l]) \in Nat \ {0} /\ n \in Nat /\ whole[r(taken[l])] = taken[l]
    BY <1>7, <1>14, <2>2
  <2>4. r(taken[l]) \in 1 .. n - 1
    BY ONLY <2>2, <2>3
  <2> QED
    BY <2>3, <2>4
<1>19. UpTo(taken, m) = UpTo(whole, n)
  <2> HIDE DEF m, n
  <2> QED
    BY <1>17, <1>18 DEF UpTo
<1>20. m = n
  <2> HIDE DEF m, n
  <2> QED
    BY <1>1, <1>14, <1>19, SamePlace
<1> QED
  BY <1>3, <1>20 DEF whole, taken

LEMMA CommonMeans ==
  ASSUME NEW L, Distinct(L), NEW i \in Instances(L), IsCommonOrder(L, i),
         NEW v \in NamesOf(L), NEW w \in NamesOf(L)
  PROVE  EarlierBy(L, v, w) <=> Position(Taken(L, i), v) < Position(Taken(L, i), w)
<1> DEFINE r(u) == Position(Taken(L, i), u)
           t(u) == Cardinality(Takers(L, u))
<1>1. ASSUME NEW u \in NamesOf(L)
      PROVE  /\ r(u) \in Nat /\ t(u) \in Nat \ {0}
             /\ Mean(L, u) = <<t(u) * r(u), t(u)>>
  <2> DEFINE f == [j \in Takers(L, u) |-> Position(Taken(L, j), u)]
  <2>1. /\ IsFiniteSet(Takers(L, u)) /\ Takers(L, u) # {} /\ Mean(L, u)[2] \in Nat \ {0}
        /\ Mean(L, u) = <<SumFunction(f), t(u)>>
    BY MeanTyped
  <2>2. t(u) \in Nat \ {0}
    BY <2>1
  <2>3. PICK j \in Takers(L, u) : j \in Instances(L) /\ u \in Range(Taken(L, j))
    BY <2>1 DEF Takers
  <2>4. Range(Taken(L, i)) = NamesOf(L)
    BY <2>3, CommonPlaces
  <2>5. r(u) \in Nat
    <3>1. Taken(L, i) \in Seq(NamesOf(L))
      BY TakenListed
    <3> QED
      BY <2>4, <3>1, Positions
  <2>6. \A k \in Takers(L, u) : f[k] = r(u)
    <3> SUFFICES ASSUME NEW k \in Takers(L, u)
                 PROVE  Position(Taken(L, k), u) = Position(Taken(L, i), u)
      OBVIOUS
    <3>1. k \in Instances(L) /\ u \in Range(Taken(L, k))
      BY DEF Takers
    <3> QED
      BY <3>1, CommonPlaces
  <2>7. DOMAIN f = Takers(L, u)
    OBVIOUS
  <2> HIDE DEF f, r
  <2>8. SumFunction(f) = t(u) * r(u)
    BY <2>1, <2>5, <2>6, <2>7, SumOfEqualNumbers DEF SumFunction
  <2> QED
    BY <2>1, <2>2, <2>5, <2>8
<1> HIDE DEF r, t
<1>2. /\ r(v) \in Nat /\ t(v) \in Nat \ {0} /\ Mean(L, v) = <<t(v) * r(v), t(v)>>
      /\ r(w) \in Nat /\ t(w) \in Nat \ {0} /\ Mean(L, w) = <<t(w) * r(w), t(w)>>
  BY <1>1
<1>3. Compare(Mean(L, v), Mean(L, w)) = (t(v) * r(v)) * t(w) - (t(w) * r(w)) * t(v)
  BY <1>2 DEF Compare
<1>4. PICK k \in Nat \ {0} : k = t(v) * t(w)
  BY <1>2
<1>5. (t(v) * r(v)) * t(w) = r(v) * k /\ (t(w) * r(w)) * t(v) = r(w) * k
  BY <1>2, <1>4
<1>6. /\ r(v) < r(w) <=> r(v) * k < r(w) * k
      /\ r(v) <= r(w) <=> r(v) * k <= r(w) * k
      /\ r(w) <= r(v) <=> r(w) * k <= r(v) * k
  BY <1>2, <1>4, Scaled
<1>7. PICK x \in Int : x = r(v) * k
  BY <1>2, <1>4
<1>8. PICK y \in Int : y = r(w) * k
  BY <1>2, <1>4
<1>9. Compare(Mean(L, v), Mean(L, w)) = x - y
  BY <1>3, <1>5, <1>7, <1>8
<1>10. (x < y <=> r(v) < r(w)) /\ (x = y <=> r(v) = r(w))
  <2>1. /\ r(v) < r(w) <=> x < y
        /\ r(v) <= r(w) <=> x <= y
        /\ r(w) <= r(v) <=> y <= x
    BY <1>6, <1>7, <1>8
  <2> QED
    BY ONLY <1>2, <1>7, <1>8, <2>1
<1>11. (x - y < 0 <=> x < y) /\ (x - y = 0 <=> x = y)
  OBVIOUS
<1>12. EarlierBy(L, v, w) <=> (r(v) < r(w) \/ (r(v) = r(w) /\ NameRank[v] < NameRank[w]))
  BY <1>9, <1>10, <1>11 DEF EarlierBy
<1>13. r(v) = r(w) => v = w
  <2>1. \E j \in Instances(L) : v \in Range(Taken(L, j))
    <3>1. Takers(L, v) # {}
      BY MeanTyped
    <3> QED
      BY <3>1 DEF Takers
  <2>2. Range(Taken(L, i)) = NamesOf(L) /\ Taken(L, i) \in Seq(NamesOf(L))
    BY <2>1, CommonPlaces, TakenListed
  <2>3. Taken(L, i)[r(v)] = v /\ Taken(L, i)[r(w)] = w
    BY <2>2, Positions DEF r
  <2> QED
    BY <2>3
<1>14. NameRank[v] \in Nat
  BY FinitelyMany, ReportsAssumption
<1>15. ~ (r(v) = r(w) /\ NameRank[v] < NameRank[w])
  BY <1>13, <1>14
<1> QED
  BY <1>12, <1>15 DEF r

LEMMA CommonFollowed ==
  ASSUME NEW L, Distinct(L), NEW i \in Instances(L), IsCommonOrder(L, i), NEW now
  PROVE  Follows(CollectionProgress(now, L), L, i)
<1> DEFINE order == CollectionWorkshops(L)
           report == CollectionProgress(now, L)
           r(u) == Position(Taken(L, i), u)
<1>1. /\ order \in Seq(NamesOf(L)) /\ IsInjective(order) /\ Range(order) = NamesOf(L)
      /\ \A m, n \in DOMAIN order : m < n <=> EarlierBy(L, order[m], order[n])
  BY WorkshopsListed
<1>2. /\ report.instances = Cardinality(Instances(L))
      /\ report.inOrder = Cardinality(Followers(L, order))
      /\ DOMAIN report.steps = DOMAIN order
      /\ \A n \in DOMAIN order : report.steps[n].name = order[n]
  BY CollectionCounts
<1> HIDE DEF order, report
<1>3. \A n \in DOMAIN order : order[n] \in NamesOf(L)
  BY <1>1
<1>4. \A m, n \in DOMAIN order : m < n <=> r(order[m]) < r(order[n])
  BY <1>1, <1>3, CommonMeans
<1>5. \A j \in Instances(L) : /\ Taken(L, j) \in Seq(NamesOf(L)) /\ IsInjective(Taken(L, j))
                              /\ Range(Taken(L, j)) \subseteq NamesOf(L)
  <2> SUFFICES ASSUME NEW j \in Instances(L)
               PROVE  /\ Taken(L, j) \in Seq(NamesOf(L)) /\ IsInjective(Taken(L, j))
                      /\ Range(Taken(L, j)) \subseteq NamesOf(L)
    OBVIOUS
  <2>1. Taken(L, j) \in Seq(NamesOf(L)) /\ IsInjective(Taken(L, j))
    BY TakenListed
  <2> QED
    BY <2>1 DEF Range
<1>6. \A j \in Instances(L) : \A w \in Range(Taken(L, j)) :
        Range(Taken(L, i)) = NamesOf(L) /\ Position(Taken(L, j), w) = r(w)
  BY CommonPlaces
<1>7. ASSUME NEW m \in DOMAIN order, NEW n \in DOMAIN order, m < n
      PROVE  OpenedFirst(L, i, order[m], order[n])
  <2>1. order[m] \in NamesOf(L) /\ order[n] \in NamesOf(L) /\ r(order[m]) < r(order[n])
    BY <1>3, <1>4, <1>7
  <2>2. Takers(L, order[m]) # {}
    BY <2>1, MeanTyped
  <2>3. Range(Taken(L, i)) = NamesOf(L)
    BY <1>6, <2>2 DEF Takers
  <2> QED
    BY <2>1, <2>3, FirstsCompared
<1>8. ASSUME NEW j \in Instances(L)
      PROVE  InOrder(order, Taken(L, j))
  <2> DEFINE taken == Taken(L, j)
  <2> SUFFICES ASSUME NEW m \in DOMAIN taken, NEW n \in DOMAIN taken, m < n
               PROVE  Position(order, taken[m]) < Position(order, taken[n])
    BY DEF InOrder
  <2>1. /\ taken \in Seq(NamesOf(L)) /\ IsInjective(taken)
        /\ Range(taken) \subseteq NamesOf(L)
        /\ \A w \in Range(taken) : Position(taken, w) = r(w)
    BY <1>5, <1>6
  <2> HIDE DEF taken
  <2>2. /\ taken[m] \in Range(taken) /\ Position(taken, taken[m]) = m
        /\ taken[n] \in Range(taken) /\ Position(taken, taken[n]) = n
    BY <2>1, PositionIs DEF Range
  <2>3. r(taken[m]) = m /\ r(taken[n]) = n
    BY <2>1, <2>2
  <2>4. PICK a : a = Position(order, taken[m])
    OBVIOUS
  <2>5. PICK b : b = Position(order, taken[n])
    OBVIOUS
  <2>6. a \in DOMAIN order /\ order[a] = taken[m] /\ b \in DOMAIN order /\ order[b] = taken[n]
    <3>1. taken[m] \in Range(order) /\ taken[n] \in Range(order)
      BY <1>1, <2>1, <2>2
    <3> QED
      BY <1>1, <2>4, <2>5, <3>1, Positions
  <2>7. a < b
    BY <1>4, <2>3, <2>6
  <2> QED
    BY <2>4, <2>5, <2>7
<1>9. Followers(L, order) = Instances(L)
  BY <1>8 DEF Followers
<1>10. \A m, n \in DOMAIN report.steps :
         m < n => OpenedFirst(L, i, report.steps[m].name, report.steps[n].name)
  BY <1>2, <1>7
<1>11. report.inOrder = report.instances
  BY <1>2, <1>9
<1> QED
  BY <1>10, <1>11 DEF Follows, report

(* When one instance opened every workshop and the others a first part of  *)
(* them in the same order, the means order the workshops so, however many  *)
(* instances got how far and whatever was opened again: each mean is the   *)
(* place all have it at (queries.py:2160-2209).                            *)
THEOREM CommonOrderAlwaysFound == Spec => []CommonOrderFound
<1>1. TypeOK => CommonOrderFound
  <2> SUFFICES ASSUME TypeOK, NEW q \in Questions, NEW i \in Instances(Included(q)),
                      IsCommonOrder(Included(q), i)
               PROVE  Follows(CollectionProgress(q.now, Included(q)), Included(q), i)
    BY DEF CommonOrderFound
  <2>1. Distinct(Included(q))
    BY IncludedOldestFirst DEF OldestFirst
  <2> QED
    BY <2>1, CommonFollowed
<1> QED
  BY <1>1, TypeCorrect, PTL

-----------------------------------------------------------------------------
(* The events of a session, and the pages it left.                         *)

LEMMA StoredEvents ==
  ASSUME TypeOK, NEW s \in Present, NEW kinds
  PROVE  /\ IsFiniteSet(Stored(s, kinds))
         /\ \A k \in Stored(s, kinds) :
              /\ k[1] = s /\ k = <<s, k[2], k[3]>> /\ Event(k).kind \in kinds
              /\ k[2] \in rows[s].seqs /\ k[2] \in 1 .. Length[s]
              /\ k[3] \in DOMAIN Sent[s][k[2]] /\ k[2] \in Nat /\ k[3] \in Nat
<1> DEFINE places == [n \in rows[s].seqs |-> {j \in DOMAIN Sent[s][n] : Sent[s][n][j].kind \in kinds}]
           A == [n \in rows[s].seqs |-> {<<s, n, i>> : i \in places[n]}]
           Parts == {A[n] : n \in rows[s].seqs}
<1>1. rows[s].seqs \subseteq 1 .. Length[s] /\ Length[s] \in Nat
  BY JourneysAssumption DEF TypeOK, Present
<1>2. \A n \in rows[s].seqs : DOMAIN Sent[s][n] = 1 .. Len(Sent[s][n]) /\ Len(Sent[s][n]) \in Nat
  <2> SUFFICES ASSUME NEW n \in rows[s].seqs
               PROVE  DOMAIN Sent[s][n] = 1 .. Len(Sent[s][n]) /\ Len(Sent[s][n]) \in Nat
    OBVIOUS
  <2>1. Sent[s][n] \in Seq(Range(Sent[s][n]))
    BY <1>1, ReportsAssumption DEF Present
  <2> QED
    BY <2>1
<1>3. Stored(s, kinds) = UNION Parts
  <2>1. \A n \in rows[s].seqs :
          A[n] = {<<s, n, i>> : i \in {j \in DOMAIN Sent[s][n] : Sent[s][n][j].kind \in kinds}}
    OBVIOUS
  <2>2. \A k : k \in Stored(s, kinds) <=> \E n \in rows[s].seqs :
          k \in {<<s, n, i>> : i \in {j \in DOMAIN Sent[s][n] : Sent[s][n][j].kind \in kinds}}
    <3> HIDE DEF Parts, A
    <3> QED
      BY DEF Stored
  <2> HIDE DEF A
  <2>3. \A k : k \in Stored(s, kinds) <=> \E n \in rows[s].seqs : k \in A[n]
    BY <2>1, <2>2
  <2>4. \A k : k \in UNION Parts <=> \E n \in rows[s].seqs : k \in A[n]
    OBVIOUS
  <2> HIDE DEF Parts
  <2> QED
    BY <2>3, <2>4
<1>4. ASSUME NEW n \in rows[s].seqs
      PROVE  IsFiniteSet(A[n])
  <2>1. IsFiniteSet(DOMAIN Sent[s][n])
    BY <1>2, FS_Interval
  <2>2. places[n] \in SUBSET DOMAIN Sent[s][n]
    OBVIOUS
  <2>3. IsFiniteSet(places[n])
    <3> HIDE DEF places
    <3> QED
      BY <2>1, <2>2, FS_Subset
  <2> DEFINE f == [i \in places[n] |-> <<s, n, i>>]
  <2>4. A[n] = {f[i] : i \in places[n]}
    OBVIOUS
  <2> HIDE DEF f, A, places
  <2> QED
    BY <2>3, <2>4, ImageFinite
<1>5. IsFiniteSet(Parts)
  <2>1. IsFiniteSet(rows[s].seqs)
    <3>1. IsFiniteSet(1 .. Length[s])
      BY <1>1, FS_Interval
    <3> QED
      BY <1>1, <3>1, FS_Subset
  <2> HIDE DEF A
  <2> QED
    BY <2>1, ImageFinite
<1>6. \A P \in Parts : IsFiniteSet(P)
  <2> HIDE DEF A
  <2> QED
    BY <1>4
<1>7. IsFiniteSet(Stored(s, kinds))
  <2> HIDE DEF Parts
  <2> QED
    BY <1>3, <1>5, <1>6, FS_UNION
<1>8. ASSUME NEW k \in Stored(s, kinds)
      PROVE  /\ k[1] = s /\ k = <<s, k[2], k[3]>> /\ Event(k).kind \in kinds
             /\ k[2] \in rows[s].seqs /\ k[2] \in 1 .. Length[s]
             /\ k[3] \in DOMAIN Sent[s][k[2]] /\ k[2] \in Nat /\ k[3] \in Nat
  <2>1. PICK n \in rows[s].seqs : \E i \in DOMAIN Sent[s][n] :
          k = <<s, n, i>> /\ Sent[s][n][i].kind \in kinds
    BY DEF Stored
  <2>2. PICK i \in DOMAIN Sent[s][n] : k = <<s, n, i>> /\ Sent[s][n][i].kind \in kinds
    BY <2>1
  <2>3. n \in Nat /\ i \in Nat /\ n \in 1 .. Length[s]
    BY <1>1, <1>2
  <2> QED
    BY <2>2, <2>3 DEF Event
<1> QED
  BY <1>7, <1>8

LEMMA PagesDoneTyped ==
  ASSUME TypeOK, NEW c, Range(c) \subseteq Present
  PROVE  PagesDone(c) \in Nat
<1> DEFINE left == [s \in Range(c) |-> Left(s)]
<1>1. IsFiniteSet(Range(c))
  <2>1. Range(c) \in SUBSET Sessions
    BY DEF Present
  <2> QED
    BY <2>1, JourneysAssumption, FS_Subset
<1>2. ASSUME NEW s \in Range(c)
      PROVE  IsFiniteSet(Left(s))
  <2> DEFINE keys == Stored(s, {"page-leave"})
             page == [k \in keys |-> Event(k).page]
  <2>1. IsFiniteSet(keys)
    BY StoredEvents
  <2>2. Left(s) = {page[k] : k \in keys}
    BY DEF Left
  <2> HIDE DEF page, keys
  <2> QED
    BY <2>1, <2>2, ImageFinite
<1>3. IsFiniteSet({left[s] : s \in Range(c)})
  <2> HIDE DEF left
  <2> QED
    BY <1>1, ImageFinite
<1>4. IsFiniteSet(LeftIn(c))
  <2>1. LeftIn(c) = UNION {left[s] : s \in Range(c)}
    BY DEF LeftIn
  <2>2. \A S \in {left[s] : s \in Range(c)} : IsFiniteSet(S)
    BY <1>2
  <2> HIDE DEF left
  <2> QED
    BY <1>3, <2>1, <2>2, FS_UNION
<1> QED
  BY <1>4, FS_CardinalityType DEF PagesDone

-----------------------------------------------------------------------------
(* One of finitely many numbers is the greatest.                           *)
LEMMA MostOf ==
  ASSUME NEW n \in Nat, n # 0, NEW a, \A i \in 1 .. n : a[i] \in Nat
  PROVE  \E i \in 1 .. n : \A j \in 1 .. n : a[j] <= a[i]
<1>1. PICK m \in Nat : \A i \in 1 .. n : a[i] \in 0 .. m
  BY Bounded
<1> DEFINE A == {m - a[i] : i \in 1 .. n}
<1>2. A \in SUBSET Nat /\ A # {}
  <2>1. \A i \in 1 .. n : m - a[i] \in Nat
    BY <1>1
  <2>2. 1 \in 1 .. n
    OBVIOUS
  <2> QED
    BY <2>1, <2>2
<1>3. PICK x \in A : \A k \in A : x <= k
  <2> HIDE DEF A
  <2> QED
    BY <1>2, LeastNumber
<1>4. PICK i \in 1 .. n : x = m - a[i]
  BY <1>3
<1>5. ASSUME NEW j \in 1 .. n
      PROVE  a[j] <= a[i]
  <2>1. m - a[i] <= m - a[j]
    BY <1>3, <1>4
  <2>2. a[i] \in Nat /\ a[j] \in Nat
    OBVIOUS
  <2> QED
    BY <2>1, <2>2
<1> QED
  BY <1>5

(* The best of some journeys is one of them.                               *)
LEMMA BestIs ==
  ASSUME NEW chains \in Seq(Seq(Sessions)), chains # <<>>,
         \A c \in Range(chains) : PagesDone(c) \in Nat
  PROVE  /\ Best(chains) \in Range(chains)
         /\ \A c \in Range(chains) : PagesDone(c) <= PagesDone(Best(chains))
<1> DEFINE a == [i \in DOMAIN chains |-> PagesDone(chains[i])]
           N == {i \in DOMAIN chains :
                   \A j \in DOMAIN chains : PagesDone(chains[j]) <= PagesDone(chains[i])}
<1>1. DOMAIN chains = 1 .. Len(chains) /\ Len(chains) \in Nat /\ Len(chains) # 0
  OBVIOUS
<1>2. \A i \in 1 .. Len(chains) : a[i] \in Nat
  BY <1>1 DEF Range
<1>3. \E i \in 1 .. Len(chains) : \A j \in 1 .. Len(chains) : a[j] <= a[i]
  <2> HIDE DEF a
  <2> QED
    BY <1>1, <1>2, MostOf
<1>4. N # {} /\ N \in SUBSET Nat
  <2>1. \A i \in DOMAIN chains : a[i] = PagesDone(chains[i])
    OBVIOUS
  <2> HIDE DEF a
  <2>2. PICK i \in DOMAIN chains : \A j \in DOMAIN chains : a[j] <= a[i]
    BY <1>1, <1>3
  <2>3. \A j \in DOMAIN chains : PagesDone(chains[j]) <= PagesDone(chains[i])
    BY <2>1, <2>2
  <2>4. i \in N
    BY <2>3
  <2> QED
    BY <1>1, <2>4
<1>5. Min(N) \in N
  <2> HIDE DEF N
  <2>1. \E x \in N : \A y \in N : x <= y
    BY <1>4, LeastNumber
  <2> QED
    BY <2>1 DEF Min
<1>6. Best(chains) = chains[Min(N)]
  BY DEF Best
<1>7. \A c \in Range(chains) : \E j \in DOMAIN chains : c = chains[j]
  BY DEF Range
<1>8. PICK m \in N : m = Min(N)
  BY <1>5
<1>9. chains[m] \in Range(chains)
  BY DEF Range
<1> QED
  BY <1>6, <1>7, <1>8, <1>9

-----------------------------------------------------------------------------
(* A set shared out by a key.                                              *)
AreShares(f, V, T, key) == \A v \in V : f[v] = Cardinality({x \in T : key[x] = v})

LEMMA SumOfShares ==
  ASSUME NEW T, IsFiniteSet(T), NEW V, IsFiniteSet(V),
         NEW key, \A x \in T : key[x] \in V, NEW f, AreShares(f, V, T, key)
  PROVE  SumFunctionOnSet(f, V) = Cardinality(T)
<1> DEFINE A == [v \in V |-> {x \in T : key[x] = v}]
<1>1. AreSizes(f, V, A)
  <2>1. ASSUME NEW v \in V
        PROVE  IsFiniteSet(A[v]) /\ f[v] = Cardinality(A[v])
    <3>1. A[v] \in SUBSET T
      OBVIOUS
    <3>2. f[v] = Cardinality(A[v])
      BY DEF AreShares
    <3> HIDE DEF A
    <3> QED
      BY <3>1, <3>2, FS_Subset
  <2> HIDE DEF A
  <2> QED
    BY <2>1 DEF AreSizes
<1>2. DividesInto(V, A, T)
  <2>1. \A v, w \in V : v # w => A[v] \cap A[w] = {}
    OBVIOUS
  <2>2. \A v \in V : \A x : x \in A[v] <=> x \in T /\ key[x] = v
    OBVIOUS
  <2> HIDE DEF A
  <2>3. T = UNION {A[v] : v \in V}
    BY <2>2
  <2> QED
    BY <2>1, <2>3 DEF DividesInto
<1> HIDE DEF A
<1> QED
  BY <1>1, <1>2, SumOfSizes

LEMMA LengthCounts ==
  ASSUME NEW X, NEW q \in Seq(X), IsInjective(q)
  PROVE  IsFiniteSet(Range(q)) /\ Len(q) = Cardinality(Range(q)) /\ Len(q) \in Nat
<1>1. /\ IsFiniteSet(Range(q))
      /\ Cardinality({i \in DOMAIN q : q[i] \in Range(q)}) = Cardinality(Range(q))
  BY PlacesCount
<1>2. {i \in DOMAIN q : q[i] \in Range(q)} = 1 .. Len(q) /\ Len(q) \in Nat
  BY DEF Range
<1>3. \A m \in Nat : Cardinality(1 .. m) = m
  BY FS_Interval
<1> QED
  BY <1>1, <1>2, <1>3

-----------------------------------------------------------------------------
(* The learners.                                                           *)

LEMMA OwnListed ==
  ASSUME NEW L, Distinct(L), NEW u, NEW own, own = Of(L, u)
  PROVE  Distinct(own) /\ Range(own) = {s \in Range(L) : User[s] = u}
<1> DEFINE P == {i \in DOMAIN L : User[L[i]] = u}
<1>1. own = Picked(L, P)
  BY DEF Of
<1>2. P \in SUBSET DOMAIN L /\ L \in Seq(Sessions) /\ IsInjective(L)
  BY DEF Distinct
<1>3. {L[n] : n \in P} = {s \in Range(L) : User[s] = u}
  BY DEF Range
<1> HIDE DEF P
<1>4. own \in Seq(Sessions) /\ IsInjective(own) /\ Range(own) = {L[n] : n \in P}
  BY <1>1, <1>2, PickedLists
<1> QED
  BY <1>3, <1>4 DEF Distinct

NoneCrossed(L) == \A s, t \in Range(L) : Resumes(s, t) => User[s] = User[t]

LEMMA OwnLinks ==
  ASSUME NEW L, Distinct(L), NoneCrossed(L), NEW u, NEW own, own = Of(L, u)
  PROVE  KeepsLinks(own, L)
<1> DEFINE P == {i \in DOMAIN L : User[L[i]] = u}
<1>1. Distinct(own) /\ Range(own) = {s \in Range(L) : User[s] = u}
  BY OwnListed
<1>2. own = Picked(L, P) /\ P \in SUBSET DOMAIN L
  BY DEF Of
<1>3. /\ L \in Seq(Sessions) /\ DOMAIN L = 1 .. Len(L) /\ Len(L) \in Nat
      /\ DOMAIN own = 1 .. Len(own) /\ Len(own) \in Nat
  BY <1>1 DEF Distinct
<1>4. PICK at : StoodAt(at, own, L, P)
  <2> HIDE DEF P
  <2> QED
    BY <1>2, <1>3, PickedStood
<1>5. \A n \in DOMAIN own : at[n] \in DOMAIN L /\ own[n] = L[at[n]]
  BY <1>2, <1>4 DEF StoodAt
<1>6. \A i \in DOMAIN L : User[L[i]] = u => \E n \in DOMAIN own : at[n] = i
  BY <1>4 DEF StoodAt
<1>7. \A m, n \in DOMAIN own : m < n => at[m] < at[n]
  BY <1>4 DEF StoodAt
<1> HIDE DEF P
<1>8. ASSUME NEW s \in Range(own)
      PROVE  /\ IsHead(own, s) <=> IsHead(L, s)
             /\ Resumers(own, s) = {} <=> Resumers(L, s) = {}
             /\ Resumers(L, s) # {} => Successor(own, s) = Successor(L, s)
  <2>1. s \in Range(L) /\ User[s] = u
    BY <1>1
  <2>2. \A t \in Range(L) : Resumes(s, t) \/ Resumes(t, s) => t \in Range(own)
    BY <1>1, <2>1 DEF NoneCrossed
  <2>3. IsHead(own, s) <=> IsHead(L, s)
    BY <1>1, <2>2 DEF IsHead, Resumes
  <2>4. \A n \in DOMAIN own : n \in Resumers(own, s) <=> at[n] \in Resumers(L, s)
    BY <1>5 DEF Resumers
  <2>5. \A i \in Resumers(L, s) : \E n \in Resumers(own, s) : at[n] = i
    <3> SUFFICES ASSUME NEW i \in Resumers(L, s)
                 PROVE  \E n \in Resumers(own, s) : at[n] = i
      OBVIOUS
    <3>1. i \in DOMAIN L /\ Resumes(L[i], s)
      BY DEF Resumers
    <3>2. L[i] \in Range(L)
      BY <3>1 DEF Range
    <3>3. User[L[i]] = u
      BY <1>1, <2>2, <3>1, <3>2
    <3>4. PICK n \in DOMAIN own : at[n] = i
      BY <1>6, <3>1, <3>3
    <3> QED
      BY <2>4, <3>4
  <2>6. Resumers(own, s) = {} <=> Resumers(L, s) = {}
    <3>1. Resumers(own, s) \subseteq DOMAIN own
      BY DEF Resumers
    <3> QED
      BY <2>4, <2>5, <3>1
  <2>7. ASSUME Resumers(L, s) # {}
        PROVE  Successor(own, s) = Successor(L, s)
    <3> DEFINE N == Resumers(own, s)
               M == Resumers(L, s)
    <3>1. /\ N \in SUBSET (1 .. Len(own)) /\ N # {}
          /\ M \in SUBSET (1 .. Len(L)) /\ M # {}
      BY <1>3, <2>6, <2>7 DEF Resumers
    <3> HIDE DEF N, M
    <3>2. Max(N) \in N /\ \A k \in N : k <= Max(N)
      BY <1>3, <3>1, GreatestNumber
    <3>3. Max(M) \in M /\ \A k \in M : k <= Max(M)
      BY <1>3, <3>1, GreatestNumber
    <3>4. PICK m \in N : m = Max(N)
      BY <3>2
    <3>5. PICK k \in N : at[k] = Max(M)
      BY <2>5, <3>3 DEF N, M
    <3>6. m \in DOMAIN own /\ k \in DOMAIN own /\ k <= m /\ m \in Nat /\ k \in Nat
      BY <1>3, <3>1, <3>2, <3>4
    <3>7. at[m] \in M
      BY <2>4, <3>6 DEF N, M
    <3>8. at[m] \in Nat /\ at[k] \in Nat /\ at[m] <= at[k]
      <4>1. \A x \in M : x \in Nat /\ x <= Max(M)
        BY <1>3, <3>1, <3>3
      <4>2. at[k] \in M
        BY <3>3, <3>5
      <4> QED
        BY <3>5, <3>7, <4>1, <4>2
    <3>9. at[k] <= at[m]
      <4>1. k = m \/ k < m
        BY ONLY <3>6
      <4> QED
        BY <1>7, <3>6, <3>8, <4>1
    <3>10. at[m] = Max(M)
      BY ONLY <3>5, <3>8, <3>9
    <3>11. own[m] = L[Max(M)]
      BY <1>5, <3>6, <3>10
    <3> QED
      BY <3>4, <3>11 DEF Successor, N, M
  <2> QED
    BY <2>3, <2>6, <2>7
<1>9. Range(own) \subseteq Range(L)
  BY <1>1
<1> QED
  BY <1>1, <1>8, <1>9 DEF KeepsLinks

LEMMA NoJourneys ==
  ASSUME NEW L, Distinct(L)
  PROVE  Chains(L) = <<>> <=> \A s \in Range(L) : \E t \in Range(L) : Resumes(s, t)
<1> DEFINE H == Heads(L)
           chains == Chains(L)
<1>1. H \in Seq(Sessions) /\ Range(H) = {s \in Range(L) : IsHead(L, s)}
  BY HeadsListed
<1>2. chains \in Seq(Seq(Sessions)) /\ DOMAIN chains = DOMAIN H
  BY ChainsExactly, ChainsListed
<1> HIDE DEF H, chains
<1>3. chains = <<>> <=> DOMAIN H = {}
  BY <1>2
<1>4. DOMAIN H = {} <=> Range(H) = {}
  BY DEF Range
<1>5. \A s \in Range(L) : ~ IsHead(L, s) <=> \E t \in Range(L) : Resumes(s, t)
  BY DEF IsHead, Resumes
<1> QED
  BY <1>1, <1>3, <1>4, <1>5 DEF chains

UsersOf(L) == {User[s] : s \in Range(L)} \ {Nobody}

LEMMA LearnersAnswer ==
  ASSUME NEW L, NEW now, NEW answers, answers = Learners(now, L)
  PROVE  /\ answers = {} <=> \E u \in UsersOf(L) : Chains(Of(L, u)) = <<>>
         /\ \A report \in answers :
              /\ DOMAIN report.learners = UsersOf(L)
              /\ \A u \in UsersOf(L) :
                   /\ Chains(Of(L, u)) # <<>>
                   /\ report.learners[u] = Learner(now, Of(L, u))
              /\ report.anonymous = Len(Of(L, Nobody))
<1> DEFINE answer == [learners  |-> [u \in UsersOf(L) |-> Learner(now, Of(L, u))],
                      anonymous |-> Len(Of(L, Nobody))]
<1>1. answers = IF \E u \in UsersOf(L) : Chains(Of(L, u)) = <<>> THEN {} ELSE {answer}
  BY DEF Learners, UsersOf
<1>2. /\ DOMAIN answer.learners = UsersOf(L)
      /\ \A u \in UsersOf(L) : answer.learners[u] = Learner(now, Of(L, u))
      /\ answer.anonymous = Len(Of(L, Nobody))
  OBVIOUS
<1> HIDE DEF answer
<1> QED
  BY <1>1, <1>2

LEMMA UsersFinite ==
  ASSUME NEW L, Distinct(L)
  PROVE  IsFiniteSet(Range(L)) /\ IsFiniteSet(UsersOf(L))
<1> DEFINE users == {User[s] : s \in Range(L)}
<1>1. IsFiniteSet(Range(L))
  BY LengthCounts DEF Distinct
<1>2. IsFiniteSet(users)
  BY <1>1, ImageFinite
<1>3. UsersOf(L) \in SUBSET users
  BY DEF UsersOf
<1> HIDE DEF users
<1> QED
  BY <1>1, <1>2, <1>3, FS_Subset

LEMMA LearnersMissed ==
  ASSUME NEW L, Distinct(L), NEW now
  PROVE  Learners(now, L) = {} <=>
           \E u \in UsersOf(L) : \A s \in {t \in Range(L) : User[t] = u} :
             \E t \in Range(L) : User[t] = u /\ Resumes(s, t)
<1>1. \A u : Chains(Of(L, u)) = <<>> <=>
               \A s \in {t \in Range(L) : User[t] = u} :
                 \E t \in Range(L) : User[t] = u /\ Resumes(s, t)
  <2> SUFFICES ASSUME NEW u
               PROVE  Chains(Of(L, u)) = <<>> <=>
                        \A s \in {t \in Range(L) : User[t] = u} :
                          \E t \in Range(L) : User[t] = u /\ Resumes(s, t)
    OBVIOUS
  <2> DEFINE own == Of(L, u)
  <2>1. Distinct(own) /\ Range(own) = {s \in Range(L) : User[s] = u}
    BY OwnListed
  <2>2. Chains(own) = <<>> <=> \A s \in Range(own) : \E t \in Range(own) : Resumes(s, t)
    BY <2>1, NoJourneys
  <2> HIDE DEF own
  <2>3. (\A s \in Range(own) : \E t \in Range(own) : Resumes(s, t)) <=>
           \A s \in {t \in Range(L) : User[t] = u} :
             \E t \in Range(L) : User[t] = u /\ Resumes(s, t)
    BY <2>1
  <2> QED
    BY <2>2, <2>3 DEF own
<1>2. Learners(now, L) = {} <=> \E u \in UsersOf(L) : Chains(Of(L, u)) = <<>>
  BY LearnersAnswer
<1> QED
  BY <1>1, <1>2

LEMMA LearnerFields ==
  ASSUME NEW now, NEW own
  PROVE  /\ Learner(now, own).sessions = Len(own)
         /\ Learner(now, own).journeys = Len(Chains(own))
         /\ Learner(now, own).done = PagesDone(Best(Chains(own)))
BY DEF Learner

LEMMA LearnerFinished ==
  ASSUME NEW now, NEW own
  PROVE  Learner(now, own).finished <=>
           \E c \in Range(Chains(own)) : Outcome(now, c) = "finished"
BY Zenon DEF Learner

LEMMA LearnersSessions ==
  ASSUME NEW L, Distinct(L), NEW now, NEW report \in Learners(now, L)
  PROVE  SumOver(report.learners, LAMBDA l : l.sessions) + report.anonymous
           = Cardinality(Range(L))
<1> DEFINE V == UsersOf(L)
           T == {s \in Range(L) : User[s] # Nobody}
           Others == {s \in Range(L) : User[s] = Nobody}
           f == [u \in V |-> report.learners[u].sessions]
<1>1. /\ DOMAIN report.learners = V
      /\ \A u \in V : report.learners[u] = Learner(now, Of(L, u))
      /\ report.anonymous = Len(Of(L, Nobody))
  BY LearnersAnswer
<1>2. IsFiniteSet(Range(L)) /\ IsFiniteSet(V)
  BY UsersFinite
<1>3. IsFiniteSet(T) /\ IsFiniteSet(Others)
  <2>1. T \in SUBSET Range(L) /\ Others \in SUBSET Range(L)
    OBVIOUS
  <2> HIDE DEF T, Others
  <2> QED
    BY <1>2, <2>1, FS_Subset
<1>4. \A u : Len(Of(L, u)) = Cardinality({s \in Range(L) : User[s] = u})
  <2> SUFFICES ASSUME NEW u
               PROVE  Len(Of(L, u)) = Cardinality({s \in Range(L) : User[s] = u})
    OBVIOUS
  <2>1. Distinct(Of(L, u)) /\ Range(Of(L, u)) = {s \in Range(L) : User[s] = u}
    BY OwnListed
  <2>2. Len(Of(L, u)) = Cardinality(Range(Of(L, u)))
    BY <2>1, LengthCounts DEF Distinct
  <2> QED
    BY <2>1, <2>2
<1>5. AreShares(f, V, T, User)
  <2> SUFFICES ASSUME NEW u \in V
               PROVE  f[u] = Cardinality({s \in T : User[s] = u})
    BY DEF AreShares
  <2>1. f[u] = Len(Of(L, u))
    <3>1. f[u] = report.learners[u].sessions
      OBVIOUS
    <3>2. report.learners[u] = Learner(now, Of(L, u))
      BY <1>1
    <3> QED
      BY <3>1, <3>2, LearnerFields
  <2>2. {s \in T : User[s] = u} = {s \in Range(L) : User[s] = u}
    BY DEF UsersOf
  <2> QED
    BY <1>4, <2>1, <2>2
<1>6. \A s \in T : User[s] \in V
  BY DEF UsersOf
<1>7. SumOver(report.learners, LAMBDA l : l.sessions) = SumFunctionOnSet(f, V)
  <2>1. SumOver(report.learners, LAMBDA l : l.sessions)
          = SumFunction([u \in DOMAIN report.learners |-> report.learners[u].sessions])
    BY DEF SumOver
  <2>2. [u \in DOMAIN report.learners |-> report.learners[u].sessions] = f /\ DOMAIN f = V
    BY <1>1
  <2> HIDE DEF f, V
  <2> QED
    BY <2>1, <2>2 DEF SumFunction
<1>8. SumFunctionOnSet(f, V) = Cardinality(T)
  <2> HIDE DEF f, V, T
  <2> QED
    BY <1>2, <1>3, <1>5, <1>6, SumOfShares
<1>9. T \cup Others = Range(L) /\ T \cap Others = {}
  OBVIOUS
<1>10. report.anonymous = Cardinality(Others)
  BY <1>1, <1>4
<1> HIDE DEF T, Others, f, V
<1>11. Cardinality(Range(L)) = Cardinality(T) + Cardinality(Others)
  <2>1. Cardinality(T \cup Others)
          = Cardinality(T) + Cardinality(Others) - Cardinality(T \cap Others)
    BY <1>3, FS_Union
  <2>2. Cardinality(T \cap Others) = 0
    BY <1>9, FS_EmptySet
  <2>3. Cardinality(T) \in Nat /\ Cardinality(Others) \in Nat
    BY <1>3, FS_CardinalityType
  <2>4. Cardinality(Range(L)) = Cardinality(T \cup Others)
    BY <1>9
  <2> QED
    BY ONLY <2>1, <2>2, <2>3, <2>4
<1> QED
  BY <1>7, <1>8, <1>10, <1>11

(* The journeys of one learner, when no one carried on what another began. *)
LEMMA OwnJourneys ==
  ASSUME TypeOK, NEW L, OldestFirst(L), NoneCrossed(L), NEW u, NEW own, own = Of(L, u)
  PROVE  /\ Chains(own) \in Seq(Seq(Sessions)) /\ IsInjective(Chains(own))
         /\ Range(Chains(own)) = {c \in Range(Chains(L)) : User[c[1]] = u}
         /\ \A c \in Range(Chains(L)) : c[1] \in Range(L) /\ Range(c) \subseteq Range(L)
<1>1. Distinct(L)
  BY DEF OldestFirst
<1>2. Distinct(own) /\ Range(own) = {s \in Range(L) : User[s] = u}
  BY <1>1, OwnListed
<1>3. KeepsLinks(own, L)
  BY <1>1, OwnLinks
<1>4. Range(Chains(own)) = {c \in Range(Chains(L)) : c[1] \in Range(own)}
  BY <1>1, <1>3, SameJourneys
<1>5. Chains(own) \in Seq(Seq(Sessions)) /\ IsInjective(Chains(own))
  BY <1>2, ChainsExactly
<1>6. ASSUME NEW c \in Range(Chains(L))
      PROVE  c[1] \in Range(L) /\ Range(c) \subseteq Range(L)
  <2>1. PICK h \in Range(L) : ChainFrom(L, h, c)
    BY <1>1, ChainsExactly
  <2>2. c \in Seq(Range(L)) /\ c[1] = h
    BY <2>1 DEF ChainFrom
  <2> QED
    BY <2>2 DEF Range
<1>7. \A c \in Range(Chains(L)) : c[1] \in Range(own) <=> User[c[1]] = u
  BY <1>2, <1>6
<1> QED
  BY <1>4, <1>5, <1>6, <1>7

LEMMA LearnersJourneys ==
  ASSUME TypeOK, NEW L, OldestFirst(L), NoneCrossed(L), NEW now,
         NEW report \in Learners(now, L), NEW chains, chains = Range(Chains(L))
  PROVE  /\ SumOver(report.learners, LAMBDA l : l.journeys)
              = Cardinality({c \in chains : User[c[1]] # Nobody})
         /\ {u \in DOMAIN report.learners : report.learners[u].finished}
              = {User[c[1]] : c \in {k \in chains : Outcome(now, k) = "finished"}} \ {Nobody}
         /\ \A c \in chains : User[c[1]] # Nobody =>
              PagesDone(c) <= report.learners[User[c[1]]].done
<1> DEFINE V == UsersOf(L)
           T == {c \in chains : User[c[1]] # Nobody}
           by == [c \in chains |-> User[c[1]]]
           f == [u \in V |-> report.learners[u].journeys]
<1>0. Distinct(L) /\ Range(L) \subseteq Present
  BY DEF OldestFirst
<1>1. /\ DOMAIN report.learners = V
      /\ \A u \in V : /\ Chains(Of(L, u)) # <<>>
                      /\ report.learners[u] = Learner(now, Of(L, u))
  BY LearnersAnswer
<1>2. IsFiniteSet(V)
  BY <1>0, UsersFinite
<1>3. \A u : /\ Chains(Of(L, u)) \in Seq(Seq(Sessions)) /\ IsInjective(Chains(Of(L, u)))
             /\ Range(Chains(Of(L, u))) = {c \in chains : User[c[1]] = u}
  BY OwnJourneys
<1>4. \A c \in chains : c[1] \in Range(L) /\ Range(c) \subseteq Range(L)
  BY OwnJourneys
<1>5. \A c \in chains : User[c[1]] # Nobody => User[c[1]] \in V
  BY <1>4 DEF UsersOf
<1>6. IsFiniteSet(T)
  <2>1. IsFiniteSet(chains)
    <3>1. Chains(L) \in Seq(Seq(Sessions)) /\ IsInjective(Chains(L))
      BY <1>0, ChainsExactly
    <3> QED
      BY <3>1, LengthCounts
  <2>2. T \in SUBSET chains
    OBVIOUS
  <2> HIDE DEF T
  <2> QED
    BY <2>1, <2>2, FS_Subset
<1>7. \A u \in V : u # Nobody
  BY DEF UsersOf
<1> HIDE DEF V
<1>8. AreShares(f, V, T, by)
  <2> SUFFICES ASSUME NEW u \in V
               PROVE  f[u] = Cardinality({c \in T : by[c] = u})
    BY DEF AreShares
  <2>1. f[u] = Len(Chains(Of(L, u)))
    <3>1. f[u] = report.learners[u].journeys
      OBVIOUS
    <3>2. report.learners[u] = Learner(now, Of(L, u))
      BY <1>1
    <3> QED
      BY <3>1, <3>2, LearnerFields
  <2>2. f[u] = Cardinality(Range(Chains(Of(L, u))))
    BY <1>3, <2>1, LengthCounts
  <2>3. {c \in T : by[c] = u} = Range(Chains(Of(L, u)))
    BY <1>3, <1>7
  <2> QED
    BY <2>2, <2>3
<1>9. SumOver(report.learners, LAMBDA l : l.journeys) = SumFunctionOnSet(f, V)
  <2>1. SumOver(report.learners, LAMBDA l : l.journeys)
          = SumFunction([u \in DOMAIN report.learners |-> report.learners[u].journeys])
    BY DEF SumOver
  <2>2. [u \in DOMAIN report.learners |-> report.learners[u].journeys] = f /\ DOMAIN f = V
    BY <1>1
  <2> HIDE DEF f
  <2> QED
    BY <2>1, <2>2 DEF SumFunction
<1>10. SumFunctionOnSet(f, V) = Cardinality(T)
  <2>1. \A c \in T : by[c] \in V
    BY <1>5
  <2> HIDE DEF f, T, by
  <2> QED
    BY <1>2, <1>6, <1>8, <2>1, SumOfShares
<1>11. \A u \in V : report.learners[u].finished <=>
                      \E c \in chains : User[c[1]] = u /\ Outcome(now, c) = "finished"
  <2> SUFFICES ASSUME NEW u \in V
               PROVE  report.learners[u].finished <=>
                        \E c \in chains : User[c[1]] = u /\ Outcome(now, c) = "finished"
    OBVIOUS
  <2>1. report.learners[u].finished <=>
          \E c \in Range(Chains(Of(L, u))) : Outcome(now, c) = "finished"
    <3>1. report.learners[u] = Learner(now, Of(L, u))
      BY <1>1
    <3> QED
      BY <3>1, LearnerFinished
  <2>2. Range(Chains(Of(L, u))) = {c \in chains : User[c[1]] = u}
    BY <1>3
  <2> QED
    BY <2>1, <2>2
<1>12. {u \in DOMAIN report.learners : report.learners[u].finished}
         = {User[c[1]] : c \in {k \in chains : Outcome(now, k) = "finished"}} \ {Nobody}
  BY <1>1, <1>5, <1>7, <1>11
<1>13. ASSUME NEW c \in chains, User[c[1]] # Nobody
       PROVE  PagesDone(c) <= report.learners[User[c[1]]].done
  <2>1. PICK u \in V : u = User[c[1]]
    BY <1>5, <1>13
  <2>2. PICK own : own = Chains(Of(L, u))
    OBVIOUS
  <2>3. /\ own \in Seq(Seq(Sessions)) /\ own # <<>>
        /\ Range(own) = {k \in chains : User[k[1]] = u}
    BY <1>1, <1>3, <2>2
  <2>4. \A k \in Range(own) : PagesDone(k) \in Nat
    <3> SUFFICES ASSUME NEW k \in Range(own)
                 PROVE  PagesDone(k) \in Nat
      OBVIOUS
    <3>1. Range(k) \subseteq Present
      BY <1>0, <1>4, <2>3
    <3> QED
      BY <3>1, PagesDoneTyped
  <2>5. PagesDone(c) <= PagesDone(Best(own))
    <3>1. c \in Range(own)
      BY <2>1, <2>3
    <3> QED
      BY <2>3, <2>4, <3>1, BestIs
  <2>6. report.learners[u].done = PagesDone(Best(own))
    <3>1. report.learners[u] = Learner(now, Of(L, u))
      BY <1>1
    <3> QED
      BY <2>2, <3>1, LearnerFields
  <2> QED
    BY <2>1, <2>5, <2>6
<1> QED
  BY <1>9, <1>10, <1>12, <1>13

(* The learners are answered for unless every session of one resumed       *)
(* another of theirs; every session is counted to its learner or to no     *)
(* one; and where no one carried on what another began, the journeys, who  *)
(* finished and how far each got are those of the workshop's own journeys  *)
(* (queries.py:2371-2423).                                                 *)
THEOREM LearnersAlwaysAgree == Spec => []LearnersAgree
<1>1. TypeOK => LearnersAgree
  <2> SUFFICES ASSUME TypeOK, NEW q \in Questions, NEW L, L = Loaded(q)
               PROVE  LET ids     == Range(L)
                          answers == Learners(q.now, L)
                          chains  == Range(Chains(L))
                          Lost(u) == \A s \in {t \in ids : User[t] = u} :
                                       \E t \in ids : User[t] = u /\ Resumes(s, t)
                          Crossed == \E s, t \in ids : Resumes(s, t) /\ User[s] # User[t]
                      IN  /\ answers = {} <=> \E u \in UsersOf(L) : Lost(u)
                          /\ \A report \in answers :
                               /\ SumOver(report.learners, LAMBDA l : l.sessions)
                                    + report.anonymous = Cardinality(ids)
                               /\ ~Crossed =>
                                    /\ SumOver(report.learners, LAMBDA l : l.journeys)
                                         = Cardinality({c \in chains : User[c[1]] # Nobody})
                                    /\ {u \in DOMAIN report.learners :
                                          report.learners[u].finished}
                                         = {User[c[1]] : c \in
                                              {k \in chains : Outcome(q.now, k) = "finished"}}
                                             \ {Nobody}
                                    /\ \A c \in chains : User[c[1]] # Nobody =>
                                         PagesDone(c) <= report.learners[User[c[1]]].done
    BY DEF LearnersAgree, UsersOf
  <2>1. OldestFirst(L) /\ Distinct(L)
    BY IncludedOldestFirst DEF OldestFirst
  <2>2. ~(\E s, t \in Range(L) : Resumes(s, t) /\ User[s] # User[t]) => NoneCrossed(L)
    BY DEF NoneCrossed
  <2>3. Learners(q.now, L) = {} <=>
          \E u \in UsersOf(L) : \A s \in {t \in Range(L) : User[t] = u} :
            \E t \in Range(L) : User[t] = u /\ Resumes(s, t)
    BY <2>1, LearnersMissed
  <2>4. ASSUME NEW report \in Learners(q.now, L)
        PROVE  SumOver(report.learners, LAMBDA l : l.sessions) + report.anonymous
                 = Cardinality(Range(L))
    BY <2>1, LearnersSessions
  <2>5. ASSUME NEW report \in Learners(q.now, L), NEW chains, chains = Range(Chains(L)),
               NoneCrossed(L)
        PROVE  /\ SumOver(report.learners, LAMBDA l : l.journeys)
                    = Cardinality({c \in chains : User[c[1]] # Nobody})
               /\ {u \in DOMAIN report.learners : report.learners[u].finished}
                    = {User[c[1]] : c \in {k \in chains : Outcome(q.now, k) = "finished"}}
                        \ {Nobody}
               /\ \A c \in chains : User[c[1]] # Nobody =>
                    PagesDone(c) <= report.learners[User[c[1]]].done
    BY <2>1, <2>5, LearnersJourneys
  <2> QED
    BY <2>2, <2>3, <2>4, <2>5
<1> QED
  BY <1>1, TypeCorrect, PTL

-----------------------------------------------------------------------------
(* Percentiles.                                                            *)

LEMMA Rounded ==
  ASSUME NEW m \in Nat, NEW d \in Nat \ {0}
  PROVE  /\ RoundHalfEven(m, d) \in Nat
         /\ 2 * m <= 2 * (d * RoundHalfEven(m, d)) + d
         /\ 2 * (d * RoundHalfEven(m, d)) <= 2 * m + d
<1> DEFINE a == m \div d
           r == m % d
<1>1. a \in Nat /\ r \in Nat /\ r < d /\ m = d * a + r
  OBVIOUS
<1>2. RoundHalfEven(m, d) = IF 2 * r < d \/ (2 * r = d /\ a % 2 = 0) THEN a ELSE a + 1
  BY DEF RoundHalfEven
<1>3. d * (a + 1) = d * a + d /\ d * a \in Nat
  BY <1>1
<1> HIDE DEF a, r
<1>4. CASE 2 * r < d \/ (2 * r = d /\ a % 2 = 0)
  <2>1. RoundHalfEven(m, d) = a /\ 2 * r <= d
    BY <1>1, <1>2, <1>4
  <2> QED
    BY <1>1, <1>3, <2>1
<1>5. CASE ~(2 * r < d \/ (2 * r = d /\ a % 2 = 0))
  <2>1. RoundHalfEven(m, d) = a + 1 /\ 2 * r >= d
    BY <1>1, <1>2, <1>5
  <2> QED
    BY <1>1, <1>3, <2>1
<1> QED
  BY <1>4, <1>5

(* The index of a share of n in tenths: its rounding, kept between the     *)
(* first and the last.                                                     *)
RankOf(n, share) == Max({0, Min({n - 1, RoundHalfEven(share + 5, 10) - 1})})

IsRank(n, share, k) ==
  \E r \in Nat : /\ share <= 10 * r /\ 10 * r <= share + 10
                 /\ k = IF r = 0 THEN 0 ELSE IF r > n THEN n - 1 ELSE r - 1

LEMMA RankWithin ==
  ASSUME NEW n \in Nat \ {0}, NEW share \in Nat, share <= 10 * n
  PROVE  IsRank(n, share, RankOf(n, share))
<1>0. PICK r : r = RoundHalfEven(share + 5, 10)
  OBVIOUS
<1>1. share + 5 \in Nat /\ 10 \in Nat \ {0}
  OBVIOUS
<1>2. r \in Nat /\ share <= 10 * r /\ 10 * r <= share + 10
  <2>1. /\ r \in Nat /\ 2 * (share + 5) <= 2 * (10 * r) + 10
        /\ 2 * (10 * r) <= 2 * (share + 5) + 10
    BY <1>0, <1>1, Rounded
  <2> QED
    BY <2>1
<1>3. PICK x : x = Min({n - 1, r - 1})
  OBVIOUS
<1>4. x = IF r > n THEN n - 1 ELSE r - 1
  <2>1. \E y \in {n - 1, r - 1} : \A z \in {n - 1, r - 1} : y <= z
    BY <1>2
  <2>2. x \in {n - 1, r - 1} /\ \A z \in {n - 1, r - 1} : x <= z
    BY <1>3, <2>1 DEF Min
  <2> QED
    BY <1>2, <2>2
<1>5. PICK k : k = Max({0, x})
  OBVIOUS
<1>6. x \in Int
  BY <1>2, <1>4
<1>7. k \in {0, x} /\ \A z \in {0, x} : k >= z
  <2>1. \E y \in {0, x} : \A z \in {0, x} : y >= z
    BY <1>6
  <2> QED
    BY <1>5, <2>1 DEF Max
<1>8. k = IF r = 0 THEN 0 ELSE IF r > n THEN n - 1 ELSE r - 1
  BY <1>2, <1>4, <1>6, <1>7
<1>9. RankOf(n, share) = k
  BY <1>0, <1>3, <1>5 DEF RankOf
<1> QED
  BY <1>2, <1>8, <1>9 DEF IsRank

LEMMA RanksSplit ==
  ASSUME NEW n \in Nat \ {0}, NEW j, j = Rank10(5, n), NEW k, k = Rank10(9, n)
  PROVE  /\ j \in 0 .. n - 1 /\ 10 * (j + 1) >= 5 * n /\ 10 * j <= 5 * n
         /\ k \in 0 .. n - 1 /\ 10 * (k + 1) >= 9 * n /\ 10 * k <= 9 * n
         /\ j <= k
<1>1. IsRank(n, 5 * n, j)
  <2>1. PICK share : share = 5 * n
    OBVIOUS
  <2>2. share \in Nat /\ share <= 10 * n /\ j = RankOf(n, share)
    BY <2>1 DEF Rank10, RankOf
  <2> QED
    BY <2>1, <2>2, RankWithin
<1>2. IsRank(n, 9 * n, k)
  <2>1. PICK share : share = 9 * n
    OBVIOUS
  <2>2. share \in Nat /\ share <= 10 * n /\ k = RankOf(n, share)
    BY <2>1 DEF Rank10, RankOf
  <2> QED
    BY <2>1, <2>2, RankWithin
<1>3. PICK r \in Nat : /\ 5 * n <= 10 * r /\ 10 * r <= 5 * n + 10
                       /\ j = IF r = 0 THEN 0 ELSE IF r > n THEN n - 1 ELSE r - 1
  BY <1>1 DEF IsRank
<1>4. PICK m \in Nat : /\ 9 * n <= 10 * m /\ 10 * m <= 9 * n + 10
                       /\ k = IF m = 0 THEN 0 ELSE IF m > n THEN n - 1 ELSE m - 1
  BY <1>2 DEF IsRank
<1> QED
  BY ONLY <1>3, <1>4, n \in Nat \ {0}

LEMMA BoundedValues ==
  ASSUME NEW D, IsFiniteSet(D), NEW f, \A x \in D : f[x] \in Nat
  PROVE  \E m \in Nat : \A x \in D : f[x] <= m
<1> DEFINE n == Cardinality(D)
<1>1. n \in Nat /\ ExistsBijection(1 .. n, D)
  BY FS_CardinalityType
<1>2. PICK b : b \in Bijection(1 .. n, D)
  BY <1>1 DEF ExistsBijection
<1> HIDE DEF n
<1>3. /\ \A i \in 1 .. n : b[i] \in D
      /\ \A x \in D : \E i \in 1 .. n : b[i] = x
  BY <1>2 DEF Bijection, Injection, Surjection
<1> DEFINE a == [i \in 1 .. n |-> f[b[i]]]
<1>4. \A i \in 1 .. n : a[i] \in Nat
  BY <1>3
<1>5. PICK m \in Nat : \A i \in 1 .. n : a[i] \in 0 .. m
  <2> HIDE DEF a
  <2> QED
    BY <1>1, <1>4, Bounded
<1>6. \A i \in 1 .. n : f[b[i]] <= m
  BY <1>5
<1>7. \A x \in D : f[x] <= m
  BY <1>3, <1>6
<1> QED
  BY <1>7

Valued(f) == IsFiniteSet(DOMAIN f) /\ \A x \in DOMAIN f : f[x] \in Nat

LEMMA CountsOfValues ==
  ASSUME NEW f, Valued(f), NEW n, n = Cardinality(DOMAIN f)
  PROVE  /\ n \in Nat
         /\ \A v \in Int : /\ AtMost(f, v) \in 0 .. n
                           /\ AtLeast(f, v) = n - AtMost(f, v - 1)
         /\ \A v, w \in Int : v <= w => AtMost(f, v) <= AtMost(f, w)
<1> DEFINE D == DOMAIN f
<1>1. IsFiniteSet(D) /\ n \in Nat
  BY FS_CardinalityType DEF Valued
<1>2. ASSUME NEW v \in Int
      PROVE  /\ IsFiniteSet({x \in D : f[x] <= v}) /\ AtMost(f, v) \in 0 .. n
  <2> DEFINE T == {x \in D : f[x] <= v}
  <2>1. T \in SUBSET D
    OBVIOUS
  <2>2. AtMost(f, v) = Cardinality(T)
    BY DEF AtMost
  <2> HIDE DEF T, D
  <2>3. IsFiniteSet(T) /\ Cardinality(T) <= Cardinality(D) /\ Cardinality(T) \in Nat
    BY <1>1, <2>1, FS_Subset, FS_CardinalityType
  <2> QED
    BY <1>1, <2>2, <2>3 DEF T, D
<1>3. ASSUME NEW v \in Int
      PROVE  AtLeast(f, v) = n - AtMost(f, v - 1)
  <2> DEFINE T == {x \in D : f[x] <= v - 1}
             U == {x \in D : f[x] >= v}
  <2>1. U = D \ T
    BY DEF Valued
  <2>2. T \in SUBSET D /\ AtMost(f, v - 1) = Cardinality(T) /\ AtLeast(f, v) = Cardinality(U)
    BY DEF AtMost, AtLeast
  <2> HIDE DEF T, U, D
  <2>3. D \cap T = T
    BY <2>2
  <2>4. Cardinality(D \ T) = Cardinality(D) - Cardinality(D \cap T)
    BY <1>1, FS_Difference
  <2>5. n = Cardinality(D)
    BY DEF D
  <2> QED
    BY <2>1, <2>2, <2>3, <2>4, <2>5
<1>4. ASSUME NEW v \in Int, NEW w \in Int, v <= w
      PROVE  AtMost(f, v) <= AtMost(f, w)
  <2> DEFINE T == {x \in D : f[x] <= v}
             U == {x \in D : f[x] <= w}
  <2>1. T \in SUBSET U
    BY <1>4 DEF Valued
  <2>2. IsFiniteSet(U)
    BY <1>2
  <2>3. AtMost(f, v) = Cardinality(T) /\ AtMost(f, w) = Cardinality(U)
    BY DEF AtMost
  <2> HIDE DEF T, U
  <2> QED
    BY <2>1, <2>2, <2>3, FS_Subset
<1> QED
  BY <1>1, <1>2, <1>3, <1>4

(* The value at an index of the values in order.                           *)
IsNth(f, i, v) ==
  v \in Range(f) /\ AtMost(f, v) > i /\ AtLeast(f, v) >= Cardinality(DOMAIN f) - i

LEMMA NthExists ==
  ASSUME NEW f, Valued(f), NEW i \in 0 .. Cardinality(DOMAIN f) - 1
  PROVE  \E v \in Range(f) : IsNth(f, i, v)
<1> DEFINE A == {v \in Nat : AtMost(f, v) > i}
<1>0. PICK n : n = Cardinality(DOMAIN f)
  OBVIOUS
<1>1. /\ n \in Nat
      /\ \A v \in Int : /\ AtMost(f, v) \in 0 .. n
                        /\ AtLeast(f, v) = n - AtMost(f, v - 1)
      /\ \A v, w \in Int : v <= w => AtMost(f, v) <= AtMost(f, w)
  BY <1>0, CountsOfValues
<1>2. A # {}
  <2>1. PICK m \in Nat : \A x \in DOMAIN f : f[x] <= m
    BY BoundedValues DEF Valued
  <2>2. {x \in DOMAIN f : f[x] <= m} = DOMAIN f
    BY <2>1
  <2>3. AtMost(f, m) = n
    BY <1>0, <2>2 DEF AtMost
  <2>4. m \in Nat /\ AtMost(f, m) > i
    BY <1>0, <1>1, <2>3
  <2> QED
    BY <2>4
<1>3. PICK v \in A : \A w \in A : v <= w
  <2>1. A \in SUBSET Nat
    OBVIOUS
  <2> HIDE DEF A
  <2> QED
    BY <1>2, <2>1, LeastNumber
<1>4. v \in Nat /\ v \in Int /\ v - 1 \in Int /\ AtMost(f, v) > i
  BY <1>3
<1>5. AtMost(f, v - 1) <= i
  <2>1. CASE v = 0
    <3>1. {x \in DOMAIN f : f[x] <= v - 1} = {}
      BY <2>1 DEF Valued
    <3>2. AtMost(f, v - 1) = 0
      BY <3>1, FS_EmptySet DEF AtMost
    <3> QED
      BY <1>0, <1>1, <3>2
  <2>2. CASE v # 0
    <3>1. v - 1 \in Nat /\ ~(v <= v - 1)
      BY <1>4, <2>2
    <3>2. ~(AtMost(f, v - 1) > i)
      BY <1>3, <3>1
    <3> QED
      BY <1>0, <1>1, <1>4, <3>2
  <2> QED
    BY <2>1, <2>2
<1>6. v \in Range(f)
  <2>1. CASE v \in Range(f)
    BY <2>1
  <2>2. CASE v \notin Range(f)
    <3>1. {x \in DOMAIN f : f[x] <= v} = {x \in DOMAIN f : f[x] <= v - 1}
      BY <1>4, <2>2 DEF Valued, Range
    <3>2. AtMost(f, v) = AtMost(f, v - 1)
      BY <3>1 DEF AtMost
    <3> QED
      BY <1>0, <1>1, <1>4, <1>5, <3>2
  <2> QED
    BY <2>1, <2>2
<1>7. AtLeast(f, v) >= n - i
  BY <1>0, <1>1, <1>4, <1>5
<1> QED
  BY <1>0, <1>4, <1>6, <1>7 DEF IsNth

LEMMA NthOrdered ==
  ASSUME NEW f, Valued(f), NEW n, n = Cardinality(DOMAIN f),
         NEW i \in 0 .. n - 1, NEW j \in 0 .. n - 1, i <= j,
         NEW v, IsNth(f, i, v), NEW w, IsNth(f, j, w)
  PROVE  v <= w
<1>1. v \in Nat /\ w \in Nat
  BY DEF IsNth, Valued, Range
<1>2. /\ n \in Nat
      /\ AtMost(f, w) \in 0 .. n /\ AtMost(f, v - 1) \in 0 .. n
      /\ AtLeast(f, v) = n - AtMost(f, v - 1)
      /\ w <= v - 1 => AtMost(f, w) <= AtMost(f, v - 1)
  <2>1. v \in Int /\ w \in Int /\ v - 1 \in Int
    BY <1>1
  <2> QED
    BY <2>1, CountsOfValues
<1>3. AtMost(f, w) > j /\ AtLeast(f, v) >= n - i
  BY DEF IsNth
<1>4. ~(w <= v - 1)
  BY <1>2, <1>3
<1> QED
  BY <1>1, <1>4

LEMMA PercentilesSplit ==
  ASSUME NEW f, Valued(f)
  PROVE  Splits(f)
<1>0. PICK n : n = Cardinality(DOMAIN f)
  OBVIOUS
<1>1. n \in Nat /\ \A v \in Int : AtMost(f, v) \in 0 .. n /\ AtMost(f, v - 1) \in 0 .. n
  <2>1. \A v \in Int : v - 1 \in Int
    OBVIOUS
  <2> QED
    BY <1>0, <2>1, CountsOfValues
<1>2. CASE n = 0
  BY <1>0, <1>2 DEF Splits, Percentiles
<1>3. CASE n # 0
  <2>1. PICK ordered : ordered = Ordered(f)
    OBVIOUS
  <2>2. \A i \in 0 .. n - 1 : IsNth(f, i, ordered[i])
    <3> SUFFICES ASSUME NEW i \in 0 .. n - 1
                 PROVE  IsNth(f, i, ordered[i])
      OBVIOUS
    <3>1. ordered[i] = CHOOSE v \in Range(f) : AtMost(f, v) > i /\ AtLeast(f, v) >= n - i
      BY <1>0, <2>1 DEF Ordered
    <3>2. \E v \in Range(f) : AtMost(f, v) > i /\ AtLeast(f, v) >= n - i
      BY <1>0, NthExists DEF IsNth
    <3> QED
      BY <1>0, <3>1, <3>2 DEF IsNth
  <2>3. PICK j : j = Rank10(5, n)
    OBVIOUS
  <2>4. PICK k : k = Rank10(9, n)
    OBVIOUS
  <2>5. /\ j \in 0 .. n - 1 /\ 10 * (j + 1) >= 5 * n /\ 10 * j <= 5 * n
        /\ k \in 0 .. n - 1 /\ 10 * (k + 1) >= 9 * n /\ 10 * k <= 9 * n
        /\ j <= k
    BY <1>1, <1>3, <2>3, <2>4, RanksSplit
  <2>6. Percentiles(f) = [count |-> n, min |-> ordered[0], p50 |-> ordered[j],
                          p90 |-> ordered[k], max |-> ordered[n - 1]]
    BY <1>0, <1>3, <2>1, <2>3, <2>4 DEF Percentiles
  <2>7. ordered[0] <= ordered[j] /\ ordered[j] <= ordered[k] /\ ordered[k] <= ordered[n - 1]
    <3>1. 0 \in 0 .. n - 1 /\ n - 1 \in 0 .. n - 1 /\ 0 <= j /\ k <= n - 1
      BY <1>1, <1>3, <2>5
    <3> QED
      BY <1>0, <2>2, <2>5, <3>1, NthOrdered
  <2>8. \A i \in 0 .. n - 1 :
          /\ AtMost(f, ordered[i]) \in Nat /\ AtMost(f, ordered[i]) > i
          /\ AtLeast(f, ordered[i]) \in Int /\ AtLeast(f, ordered[i]) >= n - i
    <3> SUFFICES ASSUME NEW i \in 0 .. n - 1
                 PROVE  /\ AtMost(f, ordered[i]) \in Nat /\ AtMost(f, ordered[i]) > i
                        /\ AtLeast(f, ordered[i]) \in Int /\ AtLeast(f, ordered[i]) >= n - i
      OBVIOUS
    <3>1. /\ ordered[i] \in Range(f) /\ AtMost(f, ordered[i]) > i
          /\ AtLeast(f, ordered[i]) >= n - i
      BY <1>0, <2>2 DEF IsNth
    <3>2. ordered[i] \in Int
      BY <3>1 DEF Range, Valued
    <3>3. /\ AtMost(f, ordered[i]) \in 0 .. n
          /\ AtLeast(f, ordered[i]) = n - AtMost(f, ordered[i] - 1)
          /\ AtMost(f, ordered[i] - 1) \in 0 .. n
      BY <1>0, <1>1, <3>2, CountsOfValues
    <3> QED
      BY <1>1, <3>1, <3>3
  <2>9. SplitsAt(f, ordered[j], 5, n)
    <3>1. /\ AtMost(f, ordered[j]) \in Nat /\ AtMost(f, ordered[j]) > j
          /\ AtLeast(f, ordered[j]) \in Int /\ AtLeast(f, ordered[j]) >= n - j
      BY <2>5, <2>8
    <3> QED
      BY <1>1, <2>5, <3>1 DEF SplitsAt
  <2>10. SplitsAt(f, ordered[k], 9, n)
    <3>1. /\ AtMost(f, ordered[k]) \in Nat /\ AtMost(f, ordered[k]) > k
          /\ AtLeast(f, ordered[k]) \in Int /\ AtLeast(f, ordered[k]) >= n - k
      BY <2>5, <2>8
    <3> QED
      BY <1>1, <2>5, <3>1 DEF SplitsAt
  <2> QED
    BY <2>6, <2>7, <2>9, <2>10 DEF Splits
<1> QED
  BY <1>2, <1>3

-----------------------------------------------------------------------------
(* What the reports take percentiles of.                                   *)

(* The events of the sessions listed, and what is told of them.            *)
LEMMA EventsOf ==
  ASSUME TypeOK, NEW L, OldestFirst(L), NEW kinds, NEW keys, keys = StoredIn(L, kinds)
  PROVE  /\ IsFiniteSet(keys)
         /\ \A k \in keys : k[1] \in Range(L) /\ k \in Stored(k[1], kinds)
         /\ \A s \in Range(L) : \A k \in Stored(s, kinds) : k \in keys /\ k[1] = s
<1>1. Range(L) \subseteq Present /\ Range(L) \in SUBSET Sessions
  BY DEF OldestFirst, Present
<1>2. \A s \in Range(L) : /\ IsFiniteSet(Stored(s, kinds))
                          /\ \A k \in Stored(s, kinds) : k[1] = s
  BY <1>1, StoredEvents
<1>3. keys = UNION {Stored(s, kinds) : s \in Range(L)}
  BY DEF StoredIn
<1>4. IsFiniteSet(keys)
  <2> DEFINE stored == [s \in Range(L) |-> Stored(s, kinds)]
             Parts == {stored[s] : s \in Range(L)}
  <2>1. IsFiniteSet(Range(L))
    BY <1>1, JourneysAssumption, FS_Subset
  <2>2. IsFiniteSet(Parts)
    <3> HIDE DEF stored
    <3> QED
      BY <2>1, ImageFinite
  <2>3. \A P \in Parts : IsFiniteSet(P)
    BY <1>2
  <2>4. keys = UNION Parts
    BY <1>3
  <2> HIDE DEF Parts
  <2> QED
    BY <2>2, <2>3, <2>4, FS_UNION
<1> QED
  BY <1>2, <1>3, <1>4

LEMMA NumbersOfEvents ==
  ASSUME TypeOK, NEW s \in Present
  PROVE  /\ \A k \in Stored(s, {"page-leave"}) : Event(k).active \in Nat
         /\ \A k \in Stored(s, {"verify-result", "quiz-answered"}) : Event(k).attempt \in Nat
<1>1. s \in Sessions
  BY DEF Present
<1>2. ASSUME NEW kinds, NEW k \in Stored(s, kinds)
      PROVE  /\ k[2] \in 1 .. Length[s] /\ k[3] \in DOMAIN Sent[s][k[2]]
             /\ Event(k) = Sent[s][k[2]][k[3]] /\ Event(k).kind \in kinds
  BY StoredEvents DEF Event
<1>3. ASSUME NEW k \in Stored(s, {"page-leave"})
      PROVE  Event(k).active \in Nat
  <2>1. /\ k[2] \in 1 .. Length[s] /\ k[3] \in DOMAIN Sent[s][k[2]]
        /\ Event(k) = Sent[s][k[2]][k[3]] /\ Event(k).kind = "page-leave"
    BY <1>2
  <2> QED
    BY <1>1, <2>1, StatisticsAssumption
<1>4. ASSUME NEW k \in Stored(s, {"verify-result", "quiz-answered"})
      PROVE  Event(k).attempt \in Nat
  <2>1. /\ k[2] \in 1 .. Length[s] /\ k[3] \in DOMAIN Sent[s][k[2]]
        /\ Event(k) = Sent[s][k[2]][k[3]]
        /\ Event(k).kind \in {"verify-result", "quiz-answered"}
    BY <1>2
  <2> QED
    BY <1>1, <2>1, StatisticsAssumption
<1> QED
  BY <1>3, <1>4

(* An inventory gives each page listed the directives on it.               *)
LEMMA InventoryTyped ==
  ASSUME NEW s \in Sessions, InventoryOf(s) # NoInventory
  PROVE  /\ DOMAIN InventoryOf(s) = Range(Listed(s))
         /\ \A p \in DOMAIN InventoryOf(s) : InventoryOf(s)[p] \subseteq Directives
         /\ ListedIds(InventoryOf(s)) = UNION {InventoryOf(s)[p] : p \in DOMAIN InventoryOf(s)}
         /\ ListedIds(InventoryOf(s)) \in SUBSET Directives
         /\ IsFiniteSet(ListedIds(InventoryOf(s)))
<1>1. ~MissingHead(s) /\ InventoryOf(s) = Inventory[s]
  BY DEF InventoryOf
<1>2. Inventory[s] \in [Range(PageList[s]) -> SUBSET Directives]
  BY <1>1, StatisticsAssumption
<1>3. PICK f : f = InventoryOf(s)
  OBVIOUS
<1>4. f \in [Range(Listed(s)) -> SUBSET Directives]
  BY <1>1, <1>2, <1>3 DEF Listed
<1>5. ListedIds(f) = UNION {f[p] : p \in DOMAIN f}
  BY DEF ListedIds, Range
<1>6. ListedIds(f) \in SUBSET Directives
  BY <1>4, <1>5
<1>7. IsFiniteSet(ListedIds(f))
  BY <1>6, StatisticsAssumption, FS_Subset
<1> QED
  BY <1>3, <1>4, <1>5, <1>6, <1>7

LEMMA ShareTyped ==
  ASSUME NEW listed, IsFiniteSet(listed), listed # {}, NEW run
  PROVE  Share(listed, run) \in Nat
<1>1. listed \cap run \in SUBSET listed
  OBVIOUS
<1>2. Cardinality(listed) \in Nat /\ Cardinality(listed) # 0
  BY FS_CardinalityType, FS_EmptySet
<1>3. Cardinality(listed \cap run) \in Nat
  BY <1>1, FS_Subset, FS_CardinalityType
<1>4. PICK m : m = 10000 * Cardinality(listed \cap run)
  OBVIOUS
<1>5. m \in Nat
  BY <1>3, <1>4
<1>6. RoundHalfEven(m, Cardinality(listed)) \in Nat
  BY <1>2, <1>5, Rounded
<1> QED
  BY <1>4, <1>6 DEF Share

LEMMA SomeInventory ==
  ASSUME NEW chain \in Seq(Sessions), ChainInventory(chain) # NoInventory
  PROVE  \E s \in Sessions : /\ InventoryOf(s) # NoInventory
                             /\ ChainInventory(chain) = InventoryOf(s)
<1> DEFINE P == {i \in DOMAIN chain : InventoryOf(chain[i]) # NoInventory}
           Size(s) == Cardinality(ListedIds(InventoryOf(s)))
<1>1. PICK having : having = Picked(chain, P)
  OBVIOUS
<1> DEFINE N == {i \in DOMAIN having :
                   \A j \in DOMAIN having : Size(having[j]) <= Size(having[i])}
<1>2. having \in Seq(Sessions) /\ Range(having) = {chain[i] : i \in P}
  BY <1>1, PickedPlaces
<1>3. having # <<>> /\ ChainInventory(chain) = InventoryOf(having[Min(N)])
  BY <1>1 DEF ChainInventory
<1>4. \A s \in Range(having) : s \in Sessions /\ InventoryOf(s) # NoInventory
  BY <1>2
<1>5. DOMAIN having = 1 .. Len(having) /\ Len(having) \in Nat /\ Len(having) # 0
  BY <1>2, <1>3
<1>6. \A s \in Range(having) : Size(s) \in Nat
  BY <1>4, InventoryTyped, FS_CardinalityType
<1> DEFINE a == [i \in DOMAIN having |-> Size(having[i])]
<1>7. \A i \in 1 .. Len(having) : a[i] \in Nat
  BY <1>5, <1>6 DEF Range
<1>8. \A i \in DOMAIN having : a[i] = Size(having[i])
  OBVIOUS
<1> HIDE DEF a, Size
<1>9. PICK i \in DOMAIN having : \A j \in DOMAIN having : a[j] <= a[i]
  BY <1>5, <1>7, MostOf
<1>10. i \in N
  BY <1>8, <1>9
<1>11. N \in SUBSET Nat
  BY <1>5
<1>12. Min(N) \in N
  <2> HIDE DEF N
  <2>1. \E x \in N : \A y \in N : x <= y
    BY <1>10, <1>11, LeastNumber
  <2> QED
    BY <2>1 DEF Min
<1>13. having[Min(N)] \in Range(having)
  BY <1>12 DEF Range
<1> QED
  BY <1>3, <1>4, <1>13

LEMMA JourneysValued ==
  ASSUME TypeOK, NEW L, OldestFirst(L), NEW now,
         NEW report, report = Distributions(now, L)
  PROVE  Valued(report.pagesDone) /\ Valued(report.coverage)
<1> DEFINE chains == Chains(L)
           Ids(i) == ListedIds(ChainInventory(chains[i]))
           with   == {i \in DOMAIN chains : ChainInventory(chains[i]) # NoInventory}
           some   == {i \in with : Ids(i) # {}}
           done   == [i \in DOMAIN chains |-> PagesDone(chains[i])]
           shares == [i \in some |-> Share(Ids(i), RunIn(chains[i]))]
<1>1. Distinct(L) /\ Range(L) \subseteq Present /\ Range(L) \in SUBSET Sessions
  BY DEF OldestFirst, Distinct, Range
<1>2. /\ chains \in Seq(Seq(Sessions))
      /\ \A i \in DOMAIN chains : chains[i] \in Seq(Range(L))
  <2>1. /\ chains \in Seq(Seq(Sessions))
        /\ \A c \in Range(chains) : \E h \in Range(L) : ChainFrom(L, h, c)
    BY <1>1, ChainsExactly
  <2>2. \A c \in Range(chains) : c \in Seq(Range(L))
    BY <2>1 DEF ChainFrom
  <2>3. \A i \in DOMAIN chains : chains[i] \in Range(chains)
    BY DEF Range
  <2> QED
    BY <2>1, <2>2, <2>3
<1>3. IsFiniteSet(DOMAIN chains)
  BY <1>2, FS_Interval
<1>4. \A i \in DOMAIN chains : PagesDone(chains[i]) \in Nat
  <2> SUFFICES ASSUME NEW i \in DOMAIN chains
               PROVE  PagesDone(chains[i]) \in Nat
    OBVIOUS
  <2>1. PICK c : c = chains[i] /\ c \in Seq(Range(L))
    BY <1>2
  <2>2. Range(c) \subseteq Range(L)
    BY <2>1 DEF Range
  <2>3. Range(c) \subseteq Present
    BY ONLY <1>1, <2>2
  <2> QED
    BY <2>1, <2>3, PagesDoneTyped
<1>5. \A i \in some : Share(Ids(i), RunIn(chains[i])) \in Nat
  <2> SUFFICES ASSUME NEW i \in DOMAIN chains, ChainInventory(chains[i]) # NoInventory,
                      Ids(i) # {}
               PROVE  Share(Ids(i), RunIn(chains[i])) \in Nat
    OBVIOUS
  <2>1. chains[i] \in Seq(Sessions)
    BY <1>2
  <2>2. PICK s \in Sessions : /\ InventoryOf(s) # NoInventory
                              /\ ChainInventory(chains[i]) = InventoryOf(s)
    BY <2>1, SomeInventory
  <2>3. IsFiniteSet(Ids(i))
    BY <2>2, InventoryTyped
  <2> QED
    BY <2>3, ShareTyped
<1>6. some \in SUBSET DOMAIN chains
  OBVIOUS
<1>7. report.pagesDone = done /\ report.coverage = shares
  BY DEF Distributions
<1>8. Valued(done)
  BY <1>3, <1>4 DEF Valued
<1>9. Valued(shares)
  <2> HIDE DEF some, chains
  <2> QED
    BY <1>3, <1>5, <1>6, FS_Subset DEF Valued
<1> QED
  BY <1>7, <1>8, <1>9

LEMMA SharesValued ==
  ASSUME TypeOK, NEW L, OldestFirst(L)
  PROVE  Valued(Coverage(L).shares)
<1> DEFINE with == {s \in Range(L) : InventoryOf(s) # NoInventory}
           some == {t \in with : ListedIds(InventoryOf(t)) # {}}
           shares == [s \in some |-> Share(ListedIds(InventoryOf(s)), Run(s))]
<1>1. Range(L) \in SUBSET Sessions /\ IsFiniteSet(Range(L)) /\ some \in SUBSET Range(L)
  <2>1. Range(L) \in SUBSET Sessions
    BY DEF OldestFirst, Distinct, Range
  <2> QED
    BY <2>1, JourneysAssumption, FS_Subset
<1>2. Coverage(L).shares = shares
  BY DEF Coverage
<1>3. \A s \in some : Share(ListedIds(InventoryOf(s)), Run(s)) \in Nat
  BY <1>1, InventoryTyped, ShareTyped
<1> HIDE DEF some
<1>4. IsFiniteSet(some)
  BY <1>1, FS_Subset
<1> QED
  BY <1>2, <1>3, <1>4 DEF Valued

LEMMA TimingsValued ==
  ASSUME TypeOK, NEW L, OldestFirst(L), NEW timings, timings = PageTimings(L)
  PROVE  \A i \in DOMAIN timings : Valued(timings[i].active)
<1> DEFINE leaves == StoredIn(L, {"page-leave"})
           order  == WithOthers(PageOrder(L), {Event(k).page : k \in leaves})
           On(i)  == {k \in leaves : Event(k).page = order[i]}
<1>1. DOMAIN timings = DOMAIN order
  BY DEF PageTimings
<1>2. \A i \in DOMAIN order : timings[i].active = [k \in On(i) |-> Event(k).active]
  BY DEF PageTimings
<1>3. /\ IsFiniteSet(leaves)
      /\ \A k \in leaves : k[1] \in Range(L) /\ k \in Stored(k[1], {"page-leave"})
  BY EventsOf
<1>4. \A k \in leaves : Event(k).active \in Nat
  BY <1>3, NumbersOfEvents DEF OldestFirst
<1>5. \A i : On(i) \in SUBSET leaves
  OBVIOUS
<1> SUFFICES ASSUME NEW i \in DOMAIN order
             PROVE  Valued(timings[i].active)
  BY <1>1
<1>6. IsFiniteSet(On(i)) /\ \A k \in On(i) : Event(k).active \in Nat
  <2> HIDE DEF On, leaves, order
  <2> QED
    BY <1>3, <1>4, <1>5, FS_Subset
<1>7. Valued([k \in On(i) |-> Event(k).active])
  <2> HIDE DEF On
  <2> QED
    BY <1>6 DEF Valued
<1> QED
  BY <1>2, <1>7

(* One of two passes came first.                                           *)
LEMMA FirstPass ==
  ASSUME NEW K, K # {}, \A k \in K : k[2] \in Nat /\ k[3] \in Nat
  PROVE  \E k \in K : \A l \in K : ~Sooner(l, k)
<1> DEFINE A == {k[2] : k \in K}
<1>1. PICK m \in A : \A a \in A : m <= a
  <2>1. A \in SUBSET Nat /\ A # {}
    OBVIOUS
  <2> HIDE DEF A
  <2> QED
    BY <2>1, LeastNumber
<1> DEFINE B == {k[3] : k \in {l \in K : l[2] = m}}
<1>2. PICK n \in B : \A b \in B : n <= b
  <2>1. B \in SUBSET Nat /\ B # {}
    BY <1>1
  <2> HIDE DEF B
  <2> QED
    BY <2>1, LeastNumber
<1>3. PICK k \in K : k[2] = m /\ k[3] = n
  BY <1>2
<1>4. ASSUME NEW l \in K
      PROVE  ~Sooner(l, k)
  <2>1. m <= l[2] /\ m \in Nat /\ l[2] \in Nat /\ l[3] \in Nat /\ n \in Nat
    BY <1>1, <1>3
  <2>2. l[2] = m => n <= l[3]
    BY <1>2
  <2> QED
    BY <1>3, <2>1, <2>2 DEF Sooner
<1> QED
  BY <1>4

LEMMA AttemptsValued ==
  ASSUME TypeOK, NEW L, OldestFirst(L), NEW checks, checks = CheckOutcomes(L)
  PROVE  \A c \in DOMAIN checks : Valued(checks[c].attempts)
<1> DEFINE results == StoredIn(L, {"verify-result", "quiz-answered"})
           Of_(c)  == {k \in results : <<Event(k).kind, Event(k).id>> = c}
           Passes(c, s) == {k \in Of_(c) : k[1] = s /\ Event(k).ok}
           Passed(c)    == {s \in SessionsOf(Of_(c)) : Passes(c, s) # {}}
           First(c, s)  == CHOOSE k \in Passes(c, s) :
                             \A l \in Passes(c, s) : ~Sooner(l, k)
<1>1. DOMAIN checks = {<<Event(k).kind, Event(k).id>> : k \in results}
  BY DEF CheckOutcomes
<1>2. \A c \in DOMAIN checks :
        checks[c].attempts = [s \in Passed(c) |-> Event(First(c, s)).attempt]
  BY DEF CheckOutcomes
<1>3. /\ IsFiniteSet(results)
      /\ \A k \in results :
           k[1] \in Range(L) /\ k \in Stored(k[1], {"verify-result", "quiz-answered"})
  BY EventsOf
<1>4. \A k \in results : Event(k).attempt \in Nat /\ k[2] \in Nat /\ k[3] \in Nat
  <2> SUFFICES ASSUME NEW k \in results
               PROVE  Event(k).attempt \in Nat /\ k[2] \in Nat /\ k[3] \in Nat
    OBVIOUS
  <2>1. k[1] \in Present /\ k \in Stored(k[1], {"verify-result", "quiz-answered"})
    BY <1>3 DEF OldestFirst
  <2> QED
    BY <2>1, NumbersOfEvents, StoredEvents
<1> SUFFICES ASSUME NEW c \in DOMAIN checks
             PROVE  Valued(checks[c].attempts)
  OBVIOUS
<1>5. IsFiniteSet(Passed(c))
  <2>1. IsFiniteSet(Range(L))
    <3>1. Range(L) \in SUBSET Sessions
      BY DEF OldestFirst, Distinct, Range
    <3> QED
      BY <3>1, JourneysAssumption, FS_Subset
  <2>2. Passed(c) \in SUBSET Range(L)
    BY <1>3 DEF SessionsOf
  <2> HIDE DEF Passed
  <2> QED
    BY <2>1, <2>2, FS_Subset
<1>6. ASSUME NEW s \in Passed(c)
      PROVE  Event(First(c, s)).attempt \in Nat
  <2>1. PICK K : K = Passes(c, s)
    OBVIOUS
  <2>2. K # {} /\ \A k \in K : k \in results
    BY <2>1
  <2>3. First(c, s) = CHOOSE k \in K : \A l \in K : ~Sooner(l, k)
    BY <2>1
  <2> HIDE DEF Passed, First, results, Passes
  <2>4. \A k \in K : k[2] \in Nat /\ k[3] \in Nat
    BY <1>4, <2>2
  <2>5. \E k \in K : \A l \in K : ~Sooner(l, k)
    BY <2>2, <2>4, FirstPass
  <2>6. First(c, s) \in K
    BY <2>3, <2>5
  <2> QED
    BY <1>4, <2>2, <2>6
<1> HIDE DEF Passed, First
<1>7. Valued([s \in Passed(c) |-> Event(First(c, s)).attempt])
  BY <1>5, <1>6 DEF Valued
<1> QED
  BY <1>2, <1>7

LEMMA EveryReportSplits ==
  ASSUME TypeOK, NEW L, OldestFirst(L), NEW now
  PROVE  AllSplit(now, L)
<1>1. PICK report : report = Distributions(now, L)
  OBVIOUS
<1>2. Splits(report.pagesDone) /\ Splits(report.coverage)
  BY <1>1, JourneysValued, PercentilesSplit
<1>3. Splits(Coverage(L).shares)
  BY SharesValued, PercentilesSplit
<1>4. \A i \in DOMAIN PageTimings(L) : Splits(PageTimings(L)[i].active)
  BY TimingsValued, PercentilesSplit
<1>5. \A c \in DOMAIN CheckOutcomes(L) : Splits(CheckOutcomes(L)[c].attempts)
  BY AttemptsValued, PercentilesSplit
<1> QED
  BY <1>1, <1>2, <1>3, <1>4, <1>5 DEF AllSplit

-----------------------------------------------------------------------------
(* The coverage against the actions, the checks, the hints and the forms.  *)

(* The reports of events count for a directive the sessions that ran it.   *)
LEMMA UsingIs ==
  ASSUME TypeOK, NEW L, OldestFirst(L), NEW d \in Directives
  PROVE  Using(L)[d] = {s \in Range(L) : d \in Run(s)}
<1> DEFINE actions == StoredIn(L, {"action-executed"})
           results == StoredIn(L, {"verify-result", "quiz-answered"})
           opened  == StoredIn(L, {"hint-opened"})
           forms   == StoredIn(L, {"form-submitted"})
           ByEvents(keys) == {k[1] : k \in {l \in keys : Event(l).id = d}}
<1>1. \A kinds : \A s \in Range(L) : \A k \in Stored(s, kinds) : k[1] = s
  BY EventsOf
<1>2. ASSUME NEW kinds, NEW keys, keys = StoredIn(L, kinds)
      PROVE  ByEvents(keys)
               = {s \in Range(L) : \E k \in Stored(s, kinds) : Event(k).id = d}
  <2>1. \A k \in keys : k[1] \in Range(L) /\ k \in Stored(k[1], kinds)
    BY <1>2, EventsOf
  <2>2. \A s \in Range(L) : \A k \in Stored(s, kinds) : k \in keys /\ k[1] = s
    BY <1>2, EventsOf
  <2> QED
    BY <2>1, <2>2
<1>3. UNION {ActionUsages(L)[u].sessions : u \in (DOMAIN ActionUsages(L)) \cap {d}}
        = ByEvents(actions)
  <2>1. DOMAIN ActionUsages(L) = {Event(k).id : k \in actions}
    BY DEF ActionUsages
  <2>2. \A u \in DOMAIN ActionUsages(L) :
          ActionUsages(L)[u].sessions = {k[1] : k \in {l \in actions : Event(l).id = u}}
    BY DEF ActionUsages, SessionsOf
  <2> HIDE DEF actions
  <2> QED
    BY <2>1, <2>2
<1>4. UNION {CheckOutcomes(L)[c].sessions : c \in {e \in DOMAIN CheckOutcomes(L) : e[2] = d}}
        = ByEvents(results)
  <2>1. DOMAIN CheckOutcomes(L) = {<<Event(k).kind, Event(k).id>> : k \in results}
    BY DEF CheckOutcomes
  <2>2. \A c \in DOMAIN CheckOutcomes(L) :
          CheckOutcomes(L)[c].sessions
            = {k[1] : k \in {l \in results : <<Event(l).kind, Event(l).id>> = c}}
    BY DEF CheckOutcomes, SessionsOf
  <2> HIDE DEF results
  <2>3. ASSUME NEW x, NEW c \in DOMAIN CheckOutcomes(L), c[2] = d,
               x \in CheckOutcomes(L)[c].sessions
        PROVE  \E k \in results : Event(k).id = d /\ x = k[1]
    <3>1. PICK k \in results : <<Event(k).kind, Event(k).id>> = c /\ x = k[1]
      BY <2>2, <2>3
    <3> QED
      BY <2>3, <3>1
  <2>4. ASSUME NEW x, NEW k \in results, Event(k).id = d, x = k[1]
        PROVE  \E c \in DOMAIN CheckOutcomes(L) :
                 c[2] = d /\ x \in CheckOutcomes(L)[c].sessions
    <3>1. PICK c : c = <<Event(k).kind, Event(k).id>>
      OBVIOUS
    <3>2. c \in DOMAIN CheckOutcomes(L) /\ c[2] = d
      BY <2>1, <2>4, <3>1
    <3>3. k[1] \in CheckOutcomes(L)[c].sessions
      BY <2>2, <3>1, <3>2
    <3> QED
      BY <2>4, <3>2, <3>3
  <2> QED
    BY <2>3, <2>4
<1>5. UNION {Hints(L)[h] : h \in (DOMAIN Hints(L)) \cap {d}} = ByEvents(opened)
  <2>1. DOMAIN Hints(L) = {Event(k).id : k \in opened}
    BY DEF Hints
  <2>2. \A h \in DOMAIN Hints(L) :
          Hints(L)[h] = {k[1] : k \in {l \in opened : Event(l).id = h}}
    BY DEF Hints, SessionsOf
  <2> HIDE DEF opened
  <2> QED
    BY <2>1, <2>2
<1>6. SessionsOf({k \in forms : Event(k).id = d}) = ByEvents(forms)
  BY DEF SessionsOf
<1>7. Using(L)[d] = ByEvents(actions) \cup ByEvents(results) \cup ByEvents(opened)
                      \cup ByEvents(forms)
  <2>1. Using(L)[d] =
          (UNION {ActionUsages(L)[u].sessions : u \in (DOMAIN ActionUsages(L)) \cap {d}})
            \cup (UNION {CheckOutcomes(L)[c].sessions :
                           c \in {e \in DOMAIN CheckOutcomes(L) : e[2] = d}})
            \cup (UNION {Hints(L)[h] : h \in (DOMAIN Hints(L)) \cap {d}})
            \cup SessionsOf({k \in forms : Event(k).id = d})
    BY DEF Using
  <2> QED
    BY ONLY <1>3, <1>4, <1>5, <1>6, <2>1
<1>8. /\ ByEvents(actions)
           = {s \in Range(L) : \E k \in Stored(s, {"action-executed"}) : Event(k).id = d}
      /\ ByEvents(results)
           = {s \in Range(L) : \E k \in Stored(s, {"verify-result", "quiz-answered"}) :
                                 Event(k).id = d}
      /\ ByEvents(opened)
           = {s \in Range(L) : \E k \in Stored(s, {"hint-opened"}) : Event(k).id = d}
      /\ ByEvents(forms)
           = {s \in Range(L) : \E k \in Stored(s, {"form-submitted"}) : Event(k).id = d}
  BY <1>2
<1>9. ASSUME NEW s \in Range(L)
      PROVE  d \in Run(s) <=>
               \/ \E k \in Stored(s, {"action-executed"}) : Event(k).id = d
               \/ \E k \in Stored(s, {"verify-result", "quiz-answered"}) : Event(k).id = d
               \/ \E k \in Stored(s, {"hint-opened"}) : Event(k).id = d
               \/ \E k \in Stored(s, {"form-submitted"}) : Event(k).id = d
  <2>1. d \in Run(s) <=> \E k \in Stored(s, DirectiveKinds) : Event(k).id = d
    BY DEF Run
  <2>2. Stored(s, DirectiveKinds)
          = Stored(s, {"action-executed"}) \cup Stored(s, {"verify-result", "quiz-answered"})
              \cup Stored(s, {"hint-opened"}) \cup Stored(s, {"form-submitted"})
    BY DEF Stored, DirectiveKinds
  <2> QED
    BY ONLY <2>1, <2>2
<1> HIDE DEF actions, results, opened, forms, ByEvents
<1> QED
  BY ONLY <1>7, <1>8, <1>9

(* The directives listed, with the pages that list them.                   *)
ListedBy(L, p) == {s \in Range(L) : InventoryOf(s) # NoInventory /\ p \in DOMAIN InventoryOf(s)}

Seen(L) == {e \in Pages \X Directives :
              \E s \in ListedBy(L, e[1]) : e[2] \in InventoryOf(s)[e[1]]}

SeenOn(L, p) == {e[2] : e \in {f \in Seen(L) : f[1] = p}}

HavingOn(L, p, d) == {s \in ListedBy(L, p) : d \in InventoryOf(s)[p]}

LEMMA CoverageIs ==
  ASSUME NEW L, NEW report, report = Coverage(L), NEW order, order = PageOrder(L)
  PROVE  /\ report.directives = Cardinality(Seen(L))
         /\ report.neverRun
              = {e \in Seen(L) : {s \in HavingOn(L, e[1], e[2]) : e[2] \in Run(s)} = {}}
         /\ DOMAIN report.pages = DOMAIN order
         /\ \A i \in DOMAIN order :
              /\ DOMAIN report.pages[i].entries = SeenOn(L, order[i])
              /\ \A d \in SeenOn(L, order[i]) :
                   report.pages[i].entries[d]
                     = [listed |-> HavingOn(L, order[i], d),
                        ran    |-> {s \in HavingOn(L, order[i], d) : d \in Run(s)}]
<1> DEFINE with    == {s \in Range(L) : InventoryOf(s) # NoInventory}
           With(p) == {s \in with : p \in DOMAIN InventoryOf(s)}
           seen    == {e \in Pages \X Directives :
                         \E s \in With(e[1]) : e[2] \in InventoryOf(s)[e[1]]}
           Has(p, d) == {s \in With(p) : d \in InventoryOf(s)[p]}
           Ran(p, d) == {s \in Has(p, d) : d \in Run(s)}
           On(p) == {e[2] : e \in {f \in seen : f[1] = p}}
<1>1. \A p : With(p) = ListedBy(L, p)
  BY DEF ListedBy
<1>2. seen = Seen(L)
  BY <1>1 DEF Seen
<1>3. \A p : On(p) = SeenOn(L, p)
  BY <1>2 DEF SeenOn
<1>4. \A p, d : /\ Has(p, d) = HavingOn(L, p, d)
                /\ Ran(p, d) = {s \in HavingOn(L, p, d) : d \in Run(s)}
  BY <1>1 DEF HavingOn
<1>5. /\ report.directives = Cardinality(seen)
      /\ report.neverRun = {e \in seen : Ran(e[1], e[2]) = {}}
      /\ DOMAIN report.pages = DOMAIN order
  BY DEF Coverage
<1>6. \A i \in DOMAIN order :
        report.pages[i].entries
          = [d \in On(order[i]) |-> [listed |-> Has(order[i], d), ran |-> Ran(order[i], d)]]
  BY DEF Coverage
<1> HIDE DEF seen, On, Has, Ran
<1>7. report.neverRun
        = {e \in Seen(L) : {s \in HavingOn(L, e[1], e[2]) : e[2] \in Run(s)} = {}}
  BY <1>2, <1>4, <1>5
<1>8. ASSUME NEW i \in DOMAIN order
      PROVE  /\ DOMAIN report.pages[i].entries = SeenOn(L, order[i])
             /\ \A d \in SeenOn(L, order[i]) :
                  report.pages[i].entries[d]
                    = [listed |-> HavingOn(L, order[i], d),
                       ran    |-> {s \in HavingOn(L, order[i], d) : d \in Run(s)}]
  <2>1. PICK p : p = order[i]
    OBVIOUS
  <2>2. report.pages[i].entries = [d \in On(p) |-> [listed |-> Has(p, d), ran |-> Ran(p, d)]]
    BY <1>6, <2>1
  <2>3. \A d \in On(p) : report.pages[i].entries[d] = [listed |-> Has(p, d), ran |-> Ran(p, d)]
    BY <2>2
  <2>4. DOMAIN report.pages[i].entries = SeenOn(L, p)
    BY <1>3, <2>2
  <2> QED
    BY <1>3, <1>4, <2>1, <2>3, <2>4
<1> QED
  BY <1>2, <1>5, <1>7, <1>8

LEMMA CoverageCounts ==
  ASSUME NEW L, OldestFirst(L), NEW report, report = Coverage(L)
  PROVE  report.directives = SumOver(report.pages, LAMBDA p : Cardinality(DOMAIN p.entries))
<1>0. PICK order : order = PageOrder(L)
  OBVIOUS
<1> DEFINE f == [i \in DOMAIN order |-> Cardinality(SeenOn(L, order[i]))]
           A == [i \in DOMAIN order |-> {order[i]} \X SeenOn(L, order[i])]
<1>1. /\ order \in Seq(Pages) /\ IsInjective(order)
      /\ Range(order) = UNION {Range(Listed(s)) : s \in Range(L)}
  BY <1>0, PagesListed DEF OldestFirst
<1>2. /\ report.directives = Cardinality(Seen(L))
      /\ DOMAIN report.pages = DOMAIN order
      /\ \A i \in DOMAIN order : DOMAIN report.pages[i].entries = SeenOn(L, order[i])
  BY <1>0, CoverageIs
<1>3. IsFiniteSet(DOMAIN order)
  <2>1. DOMAIN order = 1 .. Len(order) /\ 1 \in Int /\ Len(order) \in Int
    BY <1>1
  <2> QED
    BY <2>1, FS_Interval
<1>4. AreSizes(f, DOMAIN order, A)
  <2> SUFFICES ASSUME NEW i \in DOMAIN order, NEW p, p = order[i]
               PROVE  /\ IsFiniteSet({p} \X SeenOn(L, p))
                      /\ Cardinality(SeenOn(L, p)) = Cardinality({p} \X SeenOn(L, p))
    BY DEF AreSizes
  <2>1. SeenOn(L, p) \in SUBSET Directives
    BY DEF SeenOn, Seen
  <2>2. IsFiniteSet(SeenOn(L, p)) /\ Cardinality(SeenOn(L, p)) \in Nat
    BY <2>1, StatisticsAssumption, FS_Subset, FS_CardinalityType
  <2>3. IsFiniteSet({p}) /\ Cardinality({p}) = 1
    BY FS_Singleton
  <2>4. /\ IsFiniteSet({p} \X SeenOn(L, p))
        /\ Cardinality({p} \X SeenOn(L, p)) = 1 * Cardinality(SeenOn(L, p))
    BY <2>2, <2>3, FS_Product
  <2> QED
    BY <2>2, <2>4
<1>5. DividesInto(DOMAIN order, A, Seen(L))
  <2>1. ASSUME NEW e \in Seen(L)
        PROVE  \E i \in DOMAIN order : e \in A[i]
    <3>1. PICK s \in ListedBy(L, e[1]) : e[2] \in InventoryOf(s)[e[1]]
      BY DEF Seen
    <3>2. /\ s \in Range(L) /\ s \in Sessions
          /\ InventoryOf(s) # NoInventory /\ e[1] \in DOMAIN InventoryOf(s)
      BY <3>1 DEF ListedBy, OldestFirst, Present
    <3>3. e[1] \in Range(Listed(s))
      BY <3>2, InventoryTyped
    <3>4. e[1] \in Range(order)
      BY <1>1, <3>2, <3>3
    <3>5. PICK i \in DOMAIN order : order[i] = e[1]
      BY <3>4 DEF Range
    <3>6. e = <<e[1], e[2]>> /\ e[2] \in SeenOn(L, e[1])
      BY DEF Seen, SeenOn
    <3> QED
      BY <3>5, <3>6
  <2>2. ASSUME NEW i \in DOMAIN order, NEW e \in A[i]
        PROVE  e \in Seen(L) /\ e[1] = order[i]
    <3>1. e = <<e[1], e[2]>> /\ e[1] = order[i] /\ e[2] \in SeenOn(L, order[i])
      OBVIOUS
    <3>2. PICK g \in Seen(L) : g[1] = order[i] /\ g[2] = e[2]
      BY <3>1 DEF SeenOn
    <3>3. g = <<g[1], g[2]>>
      BY <3>2 DEF Seen
    <3> QED
      BY <3>1, <3>2, <3>3
  <2>3. \A i, j \in DOMAIN order : order[i] = order[j] => i = j
    BY <1>1 DEF IsInjective
  <2> HIDE DEF A
  <2>4. Seen(L) = UNION {A[i] : i \in DOMAIN order}
    BY <2>1, <2>2
  <2>5. \A i, j \in DOMAIN order : i # j => A[i] \cap A[j] = {}
    BY <2>2, <2>3
  <2> QED
    BY <2>4, <2>5 DEF DividesInto
<1>6. SumFunctionOnSet(f, DOMAIN order) = Cardinality(Seen(L))
  <2> HIDE DEF f, A
  <2> QED
    BY <1>3, <1>4, <1>5, SumOfSizes
<1>7. SumOver(report.pages, LAMBDA p : Cardinality(DOMAIN p.entries))
        = SumFunctionOnSet(f, DOMAIN order)
  <2>1. SumOver(report.pages, LAMBDA p : Cardinality(DOMAIN p.entries))
          = SumFunction([i \in DOMAIN report.pages |->
                           Cardinality(DOMAIN report.pages[i].entries)])
    BY DEF SumOver
  <2>2. [i \in DOMAIN report.pages |-> Cardinality(DOMAIN report.pages[i].entries)] = f
    BY <1>2
  <2>3. DOMAIN f = DOMAIN order
    OBVIOUS
  <2> HIDE DEF f
  <2> QED
    BY <2>1, <2>2, <2>3 DEF SumFunction
<1> QED
  BY <1>2, <1>6, <1>7

LEMMA CoverageAlwaysAgrees ==
  ASSUME TypeOK, NEW L, OldestFirst(L)
  PROVE  CoverageAgrees(L)
<1>0. PICK order : order = PageOrder(L)
  OBVIOUS
<1>1. PICK report : report = Coverage(L)
  OBVIOUS
<1>2. PICK using : using = Using(L)
  OBVIOUS
<1>3. \A d \in Directives : using[d] = {s \in Range(L) : d \in Run(s)}
  BY <1>2, UsingIs
<1>4. /\ report.neverRun
           = {e \in Seen(L) : {s \in HavingOn(L, e[1], e[2]) : e[2] \in Run(s)} = {}}
      /\ DOMAIN report.pages = DOMAIN order
      /\ \A i \in DOMAIN order :
           /\ DOMAIN report.pages[i].entries = SeenOn(L, order[i])
           /\ \A d \in SeenOn(L, order[i]) :
                report.pages[i].entries[d]
                  = [listed |-> HavingOn(L, order[i], d),
                     ran    |-> {s \in HavingOn(L, order[i], d) : d \in Run(s)}]
  BY <1>0, <1>1, CoverageIs
<1>5. report.directives = SumOver(report.pages, LAMBDA p : Cardinality(DOMAIN p.entries))
  BY <1>1, CoverageCounts
<1>6. ASSUME NEW i \in DOMAIN report.pages, NEW d \in DOMAIN report.pages[i].entries
      PROVE  report.pages[i].entries[d].ran
               = report.pages[i].entries[d].listed \cap using[d]
  <2>1. PICK p : p = order[i]
    OBVIOUS
  <2>2. d \in SeenOn(L, p)
    BY <1>4, <2>1
  <2>3. d \in Directives
    BY <2>2 DEF SeenOn, Seen
  <2>4. report.pages[i].entries[d]
          = [listed |-> HavingOn(L, p, d),
             ran    |-> {s \in HavingOn(L, p, d) : d \in Run(s)}]
    BY <1>4, <2>1, <2>2
  <2>5. HavingOn(L, p, d) \subseteq Range(L)
    BY DEF HavingOn, ListedBy
  <2> QED
    BY <1>3, <2>3, <2>4, <2>5
<1>7. ASSUME NEW e \in report.neverRun, NEW s \in using[e[2]]
      PROVE  \/ InventoryOf(s) = NoInventory
             \/ e[1] \notin DOMAIN InventoryOf(s)
             \/ e[2] \notin InventoryOf(s)[e[1]]
  <2>1. /\ e \in Seen(L) /\ e[2] \in Directives
        /\ \A t \in HavingOn(L, e[1], e[2]) : e[2] \notin Run(t)
    BY <1>4 DEF Seen
  <2>2. s \in Range(L) /\ e[2] \in Run(s)
    BY <1>3, <2>1
  <2>3. s \notin HavingOn(L, e[1], e[2])
    BY <2>1, <2>2
  <2> QED
    BY <2>2, <2>3 DEF HavingOn, ListedBy
<1> QED
  BY <1>1, <1>2, <1>5, <1>6, <1>7 DEF CoverageAgrees

(* The time on a page, put together from the sessions' own pages.          *)
Stays(s, p) == [k \in Stored(s, {"page-leave"}) |->
                  IF Event(k).page = p THEN Event(k).active ELSE 0]

LEMMA TimingsAlwaysAgree ==
  ASSUME TypeOK, NEW L, OldestFirst(L)
  PROVE  TimingsAgree(L)
<1> DEFINE leaves == StoredIn(L, {"page-leave"})
           order  == WithOthers(PageOrder(L), {Event(k).page : k \in leaves})
           On(p)  == {k \in leaves : Event(k).page = p}
           Visited(p) == {s \in Range(L) : p \in DOMAIN PageVisits(s)}
<1>1. PICK report : report = PageTimings(L)
  OBVIOUS
<1>2. /\ DOMAIN report = DOMAIN order
      /\ \A i \in DOMAIN order :
           /\ report[i].page = order[i]
           /\ report[i].active = [k \in On(order[i]) |-> Event(k).active]
  BY <1>1 DEF PageTimings
<1>3. /\ IsFiniteSet(leaves)
      /\ \A k \in leaves : k[1] \in Range(L) /\ k \in Stored(k[1], {"page-leave"})
      /\ \A s \in Range(L) : \A k \in Stored(s, {"page-leave"}) : k \in leaves /\ k[1] = s
  BY EventsOf
<1>4. \A k \in leaves : Event(k).active \in Nat
  BY <1>3, NumbersOfEvents DEF OldestFirst
<1>5. IsFiniteSet(Range(L)) /\ Range(L) \subseteq Present
  <2>1. Range(L) \in SUBSET Sessions
    BY DEF OldestFirst, Distinct, Range
  <2> QED
    BY <2>1, JourneysAssumption, FS_Subset DEF OldestFirst
<1> HIDE DEF leaves
<1>6. ASSUME NEW i \in DOMAIN report, NEW p, p = report[i].page,
             \A s \in Range(L) : p \in Left(s) => s \in Visited(p)
      PROVE  SumOver(report[i].active, LAMBDA active : active)
               = SumFunction([s \in Visited(p) |-> PageVisits(s)[p]])
  <2> DEFINE K == On(p)
             V == Visited(p)
             weight == [k \in K |-> Event(k).active]
             A == [s \in V |-> {k \in K : k[1] = s}]
             f == [s \in V |-> PageVisits(s)[p]]
  <2>1. report[i].active = weight
    <3>1. i \in DOMAIN order /\ order[i] = p
      BY <1>2, <1>6
    <3>2. report[i].active = [k \in On(order[i]) |-> Event(k).active]
      BY <1>2, <3>1
    <3>3. On(order[i]) = On(p)
      BY <3>1
    <3> HIDE DEF On, order
    <3> QED
      BY <3>2, <3>3
  <2>2. SumOver(report[i].active, LAMBDA active : active) = SumFunctionOnSet(weight, K)
    <3>1. SumOver(weight, LAMBDA active : active) = SumFunction([k \in DOMAIN weight |-> weight[k]])
      BY DEF SumOver
    <3>2. [k \in DOMAIN weight |-> weight[k]] = weight /\ DOMAIN weight = K
      OBVIOUS
    <3> HIDE DEF weight, K
    <3> QED
      BY <2>1, <3>1, <3>2 DEF SumFunction
  <2>3. SumFunction([s \in Visited(p) |-> PageVisits(s)[p]]) = SumFunctionOnSet(f, V)
    <3>1. DOMAIN f = V
      OBVIOUS
    <3>2. f = [s \in Visited(p) |-> PageVisits(s)[p]]
      OBVIOUS
    <3> HIDE DEF f, V
    <3> QED
      BY <3>1, <3>2 DEF SumFunction
  <2>4. IsFiniteSet(K) /\ \A k \in K : weight[k] \in Nat
    <3>1. K \in SUBSET leaves
      OBVIOUS
    <3> QED
      BY <1>3, <1>4, <3>1, FS_Subset
  <2>5. IsFiniteSet(V)
    <3>1. V \in SUBSET Range(L)
      OBVIOUS
    <3> HIDE DEF V
    <3> QED
      BY <1>5, <3>1, FS_Subset
  <2>6. DividesInto(V, A, K)
    <3>1. \A k \in K : k[1] \in V
      <4> SUFFICES ASSUME NEW k \in leaves, Event(k).page = p
                   PROVE  k[1] \in Visited(p)
        OBVIOUS
      <4>1. p \in Left(k[1])
        BY <1>3 DEF Left
      <4> QED
        BY <1>3, <1>6, <4>1
    <3>2. K = UNION {A[s] : s \in V}
      <4> HIDE DEF K, V
      <4> QED
        BY <3>1
    <3>3. \A s, t \in V : s # t => A[s] \cap A[t] = {}
      OBVIOUS
    <3> HIDE DEF A, K, V
    <3> QED
      BY <3>2, <3>3 DEF DividesInto
  <2>7. ASSUME NEW s \in V
        PROVE  f[s] = SumFunctionOnSet(weight, A[s])
    <3> DEFINE T == Stored(s, {"page-leave"})
               stays == Stays(s, p)
    <3>1. s \in Range(L) /\ p \in DOMAIN PageVisits(s)
      OBVIOUS
    <3>2. PageVisits(s)[p] = Active(s, p)
      BY <3>1 DEF PageVisits
    <3>3. Active(s, p) = SumFunctionOnSet(stays, T)
      <4>1. Active(s, p) = SumFunction(stays) /\ DOMAIN stays = T
        BY DEF Active, Stays
      <4> HIDE DEF stays, T
      <4> QED
        BY <4>1 DEF SumFunction
    <3>4. A[s] = {k \in T : Event(k).page = p}
      BY <1>3, <3>1
    <3>5. \A k \in T : /\ Event(k).active \in Nat
                       /\ stays[k] = IF Event(k).page = p THEN Event(k).active ELSE 0
      BY <1>3, <1>4, <3>1 DEF Stays
    <3>6. \A k \in A[s] : k \in K /\ weight[k] = Event(k).active
      OBVIOUS
    <3>7. IsFiniteSet(T)
      BY <1>5, <3>1, StoredEvents
    <3>8. IsFiniteSet(A[s])
      <4>1. A[s] \in SUBSET T
        BY <3>4
      <4> HIDE DEF A, T
      <4> QED
        BY <3>7, <4>1, FS_Subset
    <3>9. f[s] = PageVisits(s)[p]
      OBVIOUS
    <3> HIDE DEF T, stays, A, K, weight, f, V
    <3>10. SumFunctionOnSet(stays, T) = SumFunctionOnSet(weight, A[s])
      <4> DEFINE B == A[s]
      <4>1. \A k \in T : stays[k] \in Nat
        BY <3>5
      <4>2. \A k \in B : weight[k] \in Nat
        BY <2>4, <3>6
      <4>3. \A k \in T : (k \in B /\ stays[k] = weight[k]) \/ stays[k] = 0
        BY <3>4, <3>5, <3>6
      <4>4. \A k \in B : (k \in T /\ stays[k] = weight[k]) \/ weight[k] = 0
        BY <3>4, <3>5, <3>6
      <4>5. IsFiniteSet(B)
        BY <3>8
      <4> HIDE DEF B
      <4>6. SumFunctionOnSet(stays, T) = SumFunctionOnSet(weight, B)
        BY ONLY <3>7, <4>1, <4>2, <4>3, <4>4, <4>5, SumsEqual
      <4> QED
        BY <4>6 DEF B
    <3> QED
      BY <3>2, <3>3, <3>9, <3>10
  <2>8. SumFunctionOnSet(f, V) = SumFunctionOnSet(weight, K)
    <3> HIDE DEF f, V, weight, K, A
    <3> QED
      BY <2>4, <2>5, <2>6, <2>7, SumOfSums
  <2> QED
    BY ONLY <2>2, <2>3, <2>8
<1> QED
  BY <1>1, <1>6 DEF TimingsAgree

(* A directive counts as run in exactly the sessions that listed it and    *)
(* that the actions, checks, hints and forms count for it, the time on a   *)
(* page is what the sessions' own pages add up to, and every percentile    *)
(* splits its values as it says (queries.py:997-1449).                     *)
THEOREM ReportsAlwaysAgree == Spec => []ReportsAgree
<1>1. TypeOK => ReportsAgree
  <2> SUFFICES ASSUME TypeOK, NEW q \in Questions, NEW L, L = Included(q)
               PROVE  CoverageAgrees(L) /\ TimingsAgree(L) /\ AllSplit(q.now, L)
    BY DEF ReportsAgree
  <2>1. OldestFirst(L)
    BY IncludedOldestFirst
  <2> QED
    BY <2>1, CoverageAlwaysAgrees, TimingsAlwaysAgree, EveryReportSplits
<1> QED
  BY <1>1, TypeCorrect, PTL

-----------------------------------------------------------------------------
(* Buckets, a length apart.                                                *)

LEMMA Quotient ==
  ASSUME NEW m \in Int, NEW d \in Nat \ {0}
  PROVE  m % d \in 0 .. d - 1 /\ \E k \in Int : m = k * d + (m % d)
<1>1. m \div d \in Int /\ m = d * (m \div d) + (m % d) /\ m % d \in 0 .. d - 1
  OBVIOUS
<1>2. PICK k \in Int : k = m \div d
  BY <1>1
<1>3. k * d = d * k
  OBVIOUS
<1> QED
  BY <1>1, <1>2, <1>3

LEMMA Multiples ==
  ASSUME NEW d \in Nat \ {0}, NEW j \in Int, NEW k \in Int
  PROVE  /\ j < k => j * d + d <= k * d
         /\ j * d < k * d => j < k
         /\ j * d \in Int
<1>1. j < k => j * d + d <= k * d
  <2> SUFFICES ASSUME j < k PROVE j * d + d <= k * d
    OBVIOUS
  <2>1. j + 1 \in Int /\ j + 1 <= k
    OBVIOUS
  <2>2. (j + 1) * d <= k * d
    BY <2>1, Scaled
  <2>3. (j + 1) * d = j * d + d
    OBVIOUS
  <2> QED
    BY <2>2, <2>3
<1>2. j * d < k * d => j < k
  BY Scaled
<1> QED
  BY <1>1, <1>2

LEMMA NoRemainder ==
  ASSUME NEW d \in Nat \ {0}, NEW k \in Int
  PROVE  (k * d) % d = 0
<1>1. PICK m : m = k * d
  OBVIOUS
<1>2. m \in Int
  BY <1>1
<1>3. PICK j \in Int : m = j * d + (m % d)
  BY <1>2, Quotient
<1>4. m % d \in 0 .. d - 1
  BY <1>2, Quotient
<1>5. /\ j < k => j * d + d <= k * d
      /\ k < j => k * d + d <= j * d
      /\ j * d \in Int /\ k * d \in Int
  BY Multiples
<1>6. j = k
  BY <1>1, <1>3, <1>4, <1>5
<1> QED
  BY <1>1, <1>3, <1>4, <1>5, <1>6

(* Where a bucket begins.                                                  *)
OnBucket(b, d) == b \in Int /\ \E k \in Int : b = k * d

LEMMA OnBucketIs ==
  ASSUME NEW d \in Nat \ {0}, NEW b \in Int
  PROVE  OnBucket(b, d) <=> b % d = 0
<1>1. ASSUME b % d = 0 PROVE OnBucket(b, d)
  <2>1. PICK k \in Int : b = k * d + (b % d)
    BY Quotient
  <2>2. k * d \in Int
    OBVIOUS
  <2> QED
    BY <1>1, <2>1, <2>2 DEF OnBucket
<1>2. ASSUME OnBucket(b, d) PROVE b % d = 0
  BY <1>2, NoRemainder DEF OnBucket
<1> QED
  BY <1>1, <1>2

LEMMA BucketIs ==
  ASSUME NEW d \in Nat \ {0}, NEW m \in Int, NEW b, b = BucketStart(m, d)
  PROVE  OnBucket(b, d) /\ b \in Int /\ b <= m /\ m < b + d
<1>1. PICK k \in Int : m = k * d + (m % d)
  BY Quotient
<1>2. m % d \in 0 .. d - 1
  BY Quotient
<1>3. k * d \in Int
  OBVIOUS
<1>4. b = k * d
  BY <1>1, <1>2, <1>3 DEF BucketStart
<1>5. OnBucket(b, d)
  BY <1>3, <1>4 DEF OnBucket
<1>6. b \in Int /\ b <= m /\ m < b + d
  BY ONLY <1>1, <1>2, <1>3, <1>4, m \in Int, d \in Nat \ {0}
<1> QED
  BY <1>5, <1>6

LEMMA NextBucket ==
  ASSUME NEW d \in Nat \ {0}, NEW b, OnBucket(b, d), NEW c, OnBucket(c, d), b < c
  PROVE  b + d <= c
<1>1. PICK j \in Int : b = j * d
  BY DEF OnBucket
<1>2. PICK k \in Int : c = k * d
  BY DEF OnBucket
<1>3. /\ j * d < k * d => j < k
      /\ j < k => j * d + d <= k * d
  BY Multiples
<1> QED
  BY <1>1, <1>2, <1>3

(* A bucket that has begun by a moment is one up to the moment's own.      *)
LEMMA BucketBegun ==
  ASSUME NEW d \in Nat \ {0}, NEW m \in Int, NEW b, OnBucket(b, d)
  PROVE  /\ b <= m <=> b <= BucketStart(m, d)
         /\ m < b + d <=> BucketStart(m, d) <= b
<1>1. PICK c : c = BucketStart(m, d)
  OBVIOUS
<1>2. OnBucket(c, d) /\ c \in Int /\ c <= m /\ m < c + d
  BY <1>1, BucketIs
<1>3. b \in Int
  BY DEF OnBucket
<1>4. c < b => c + d <= b
  BY <1>2, NextBucket
<1>5. b < c => b + d <= c
  BY <1>2, NextBucket
<1> QED
  BY <1>1, <1>2, <1>3, <1>4, <1>5

(* The buckets of a number of days that end with the one of a moment.      *)
LEMMA BucketsBack ==
  ASSUME NEW d \in Nat \ {0}, NEW m \in Int, NEW n \in Nat,
         NEW first, first = BucketStart(m - n * d, d)
  PROVE  /\ first + n * d = BucketStart(m, d) /\ first \in Int
         /\ \A b : OnBucket(b, d) /\ first <= b /\ b <= first + n * d =>
                     \E k \in 0 .. n : b = first + k * d
<1>1. n * d \in Int /\ m - n * d \in Int
  OBVIOUS
<1>2. OnBucket(first, d) /\ first \in Int /\ first <= m - n * d /\ m - n * d < first + d
  BY <1>1, BucketIs
<1>3. PICK j \in Int : first = j * d
  BY <1>2 DEF OnBucket
<1>4. (j + n) * d = j * d + n * d /\ j + n \in Int
  OBVIOUS
<1>5. OnBucket(first + n * d, d)
  <2>1. PICK i \in Int : i = j + n
    OBVIOUS
  <2>2. first + n * d = i * d /\ i * d \in Int
    BY <1>1, <1>2, <1>3, <1>4, <2>1
  <2> QED
    BY <2>2 DEF OnBucket
<1>6. first + n * d = BucketStart(m, d)
  <2>1. PICK c : c = first + n * d
    OBVIOUS
  <2>2. c \in Int /\ c <= m /\ m < c + d /\ OnBucket(c, d)
    BY <1>1, <1>2, <1>5, <2>1
  <2>3. BucketStart(m, d) <= c /\ c <= BucketStart(m, d) /\ BucketStart(m, d) \in Int
    BY <2>2, BucketBegun, BucketIs
  <2> QED
    BY ONLY <2>1, <2>2, <2>3
<1>7. ASSUME NEW b, OnBucket(b, d), first <= b, b <= first + n * d
      PROVE  \E k \in 0 .. n : b = first + k * d
  <2>1. PICK i \in Int : b = i * d
    BY <1>7 DEF OnBucket
  <2>2. b \in Int
    BY <1>7 DEF OnBucket
  <2>3. j <= i
    <3>1. i < j => i * d + d <= j * d
      BY Multiples
    <3> QED
      BY <1>2, <1>3, <1>7, <2>1, <2>2, <3>1
  <2>4. i <= j + n
    <3>1. j + n < i => (j + n) * d + d <= i * d
      BY <1>4, Multiples
    <3> QED
      BY <1>1, <1>2, <1>3, <1>4, <1>7, <2>1, <2>2, <3>1
  <2>5. i - j \in 0 .. n
    BY <2>3, <2>4
  <2>6. (i - j) * d = i * d - j * d
    OBVIOUS
  <2>7. b = first + (i - j) * d
    BY <1>2, <1>3, <2>1, <2>2, <2>6
  <2> QED
    BY <2>5, <2>7
<1> QED
  BY <1>2, <1>6, <1>7

LEMMA StartedNat ==
  ASSUME TypeOK, NEW s \in Present
  PROVE  StartedAt(s) \in Nat
<1>1. /\ rows[s].seqs \in SUBSET Nat /\ rows[s].seqs # {} /\ Begin[s] \in Nat
      /\ rows[s].seqs \subseteq 1 .. Length[s]
  BY JourneysAssumption DEF TypeOK, Present, Row
<1>2. PICK m \in rows[s].seqs : \A k \in rows[s].seqs : m <= k
  BY <1>1, LeastNumber
<1>3. Min(rows[s].seqs) \in rows[s].seqs
  BY <1>1, <1>2 DEF Min
<1>4. Min(rows[s].seqs) \in Nat \ {0}
  BY <1>1, <1>3
<1> QED
  BY <1>1, <1>4 DEF StartedAt

(* Rows that have come, each once.                                         *)
AreRows(L) == Distinct(L) /\ Range(L) \subseteq Present

(* When a journey began.                                                   *)
StartOf(c, d) == BucketStart(StartedAt(c[1]), d)

LEMMA JourneysBegin ==
  ASSUME TypeOK, NEW L, AreRows(L), NEW d \in Nat \ {0}
  PROVE  /\ Chains(L) \in Seq(Seq(Sessions)) /\ IsInjective(Chains(L))
         /\ IsFiniteSet(Range(Chains(L)))
         /\ \A c \in Range(Chains(L)) :
              /\ c[1] \in Range(L) /\ StartedAt(c[1]) \in Nat
              /\ StartOf(c, d) \in Nat /\ OnBucket(StartOf(c, d), d)
<1>1. /\ Chains(L) \in Seq(Seq(Sessions)) /\ IsInjective(Chains(L))
      /\ \A c \in Range(Chains(L)) : \E h \in Range(L) : ChainFrom(L, h, c)
  BY ChainsExactly DEF AreRows
<1>2. IsFiniteSet(Range(Chains(L)))
  BY <1>1, LengthCounts
<1>3. ASSUME NEW c \in Range(Chains(L))
      PROVE  /\ c[1] \in Range(L) /\ StartedAt(c[1]) \in Nat
             /\ StartOf(c, d) \in Nat /\ OnBucket(StartOf(c, d), d)
  <2>1. c[1] \in Range(L)
    BY <1>1 DEF ChainFrom
  <2>2. StartedAt(c[1]) \in Nat
    BY <2>1, StartedNat DEF AreRows
  <2>3. PICK m \in Nat : m = StartedAt(c[1])
    BY <2>2
  <2>4. PICK b : b = BucketStart(m, d)
    OBVIOUS
  <2>5. OnBucket(b, d) /\ b \in Int /\ m < b + d
    BY <2>4, BucketIs
  <2>6. OnBucket(0, d)
    <3>1. 0 = 0 * d
      OBVIOUS
    <3> QED
      BY <3>1 DEF OnBucket
  <2>7. 0 <= b
    <3>1. b < 0 => b + d <= 0
      BY <2>5, <2>6, NextBucket
    <3> QED
      BY <2>5, <3>1
  <2> QED
    BY <2>1, <2>2, <2>3, <2>4, <2>5, <2>7 DEF StartOf
<1> QED
  BY <1>1, <1>2, <1>3

LEMMA FirstAndLast ==
  ASSUME NEW N \in SUBSET Nat, N # {}, IsFiniteSet(N)
  PROVE  /\ Min(N) \in N /\ \A k \in N : Min(N) <= k
         /\ Max(N) \in N /\ \A k \in N : k <= Max(N)
<1>1. PICK m \in N : \A k \in N : m <= k
  BY LeastNumber
<1>2. Min(N) \in N /\ \A k \in N : Min(N) <= k
  BY <1>1 DEF Min
<1> DEFINE same == [x \in N |-> x]
<1>3. \E b \in Nat : \A x \in N : same[x] <= b
  <2>1. \A x \in N : same[x] \in Nat
    OBVIOUS
  <2> HIDE DEF same
  <2> QED
    BY <2>1, BoundedValues
<1>4. PICK b \in Nat : \A x \in N : x <= b
  BY <1>3
<1> DEFINE M == {b - k : k \in N}
<1>5. M \in SUBSET Nat /\ M # {}
  <2>1. \A k \in N : b - k \in Nat
    BY <1>4
  <2> QED
    BY <2>1
<1>6. PICK n \in M : \A k \in M : n <= k
  <2> HIDE DEF M
  <2> QED
    BY <1>5, LeastNumber
<1>7. PICK x \in N : n = b - x
  BY <1>6
<1>8. \A k \in N : k <= x
  <2> SUFFICES ASSUME NEW k \in N PROVE k <= x
    OBVIOUS
  <2>1. b - k \in M
    OBVIOUS
  <2>2. n <= b - k
    BY <1>6, <2>1
  <2>3. k \in Nat /\ x \in Nat
    OBVIOUS
  <2> QED
    BY ONLY <1>7, <2>2, <2>3, b \in Nat
<1>9. Max(N) \in N /\ \A k \in N : k <= Max(N)
  BY <1>8 DEF Max
<1> QED
  BY <1>2, <1>9

LEMMA StartsOf ==
  ASSUME TypeOK, NEW L, AreRows(L), NEW d \in Nat \ {0}, NEW starts, starts = Starts(L, d)
  PROVE  /\ starts \in SUBSET Nat /\ IsFiniteSet(starts)
         /\ starts = {StartOf(c, d) : c \in Range(Chains(L))}
<1>1. starts = {StartOf(c, d) : c \in Range(Chains(L))}
  BY DEF Starts, StartOf
<1>2. /\ IsFiniteSet(Range(Chains(L)))
      /\ \A c \in Range(Chains(L)) : StartOf(c, d) \in Nat
  BY JourneysBegin
<1>3. IsFiniteSet(starts)
  <2> DEFINE f == [c \in Range(Chains(L)) |-> StartOf(c, d)]
  <2>1. starts = {f[c] : c \in Range(Chains(L))}
    BY <1>1
  <2> HIDE DEF f
  <2> QED
    BY <1>2, <2>1, ImageFinite
<1> QED
  BY <1>1, <1>2, <1>3

(* The journeys of a bucket.                                               *)
BegunIn(L, d, m) == {c \in Range(Chains(L)) : StartOf(c, d) = m}

LEMMA BucketsAxis ==
  ASSUME TypeOK, NEW L, AreRows(L), NEW d \in Nat \ {0}, NEW now,
         NEW D, D = DOMAIN Bucketed(now, L, d)
  PROVE  /\ IsFiniteSet(D) /\ D \in SUBSET Nat
         /\ \A c \in Range(Chains(L)) : StartOf(c, d) \in D
         /\ D # {} => /\ Min(D) \in D
                      /\ \A b \in D : Min(D) <= b
<1>0. PICK starts : starts = Starts(L, d)
  OBVIOUS
<1>1. /\ starts \in SUBSET Nat /\ IsFiniteSet(starts)
      /\ starts = {StartOf(c, d) : c \in Range(Chains(L))}
  BY <1>0, StartsOf
<1>2. D = IF starts = {} THEN {}
          ELSE {m \in Min(starts) .. Max(starts) : m % d = 0}
  BY <1>0 DEF Bucketed
<1>3. CASE starts = {}
  <2>1. D = {} /\ Range(Chains(L)) = {}
    BY <1>1, <1>2, <1>3
  <2> QED
    BY <2>1, FS_EmptySet
<1>4. CASE starts # {}
  <2>1. /\ Min(starts) \in starts /\ \A k \in starts : Min(starts) <= k
        /\ Max(starts) \in starts /\ \A k \in starts : k <= Max(starts)
    BY <1>1, <1>4, FirstAndLast
  <2>2. Min(starts) \in Nat /\ Max(starts) \in Nat
    BY <1>1, <2>1
  <2>3. D = {m \in Min(starts) .. Max(starts) : m % d = 0}
    BY <1>2, <1>4
  <2>4. D \in SUBSET (Min(starts) .. Max(starts))
    BY <2>3
  <2>5. IsFiniteSet(D)
    <3>1. IsFiniteSet(Min(starts) .. Max(starts))
      BY <2>2, FS_Interval
    <3> QED
      BY <2>4, <3>1, FS_Subset
  <2>6. D \in SUBSET Nat
    BY <2>2, <2>4
  <2>7. \A c \in Range(Chains(L)) : StartOf(c, d) \in D
    <3> SUFFICES ASSUME NEW c \in Range(Chains(L)) PROVE StartOf(c, d) \in D
      OBVIOUS
    <3>1. PICK b : b = StartOf(c, d)
      OBVIOUS
    <3>2. b \in starts /\ b \in Nat /\ OnBucket(b, d)
      BY <1>1, <3>1, JourneysBegin
    <3>3. b % d = 0
      BY <3>2, OnBucketIs
    <3>4. b \in Min(starts) .. Max(starts)
      BY <2>1, <2>2, <3>2
    <3> QED
      BY <2>3, <3>1, <3>3, <3>4
  <2>8. D # {} => Min(D) \in D /\ \A b \in D : Min(D) <= b
    BY <2>5, <2>6, FirstAndLast
  <2> QED
    BY <2>5, <2>6, <2>7, <2>8
<1> QED
  BY <1>3, <1>4

LEMMA BucketCounts ==
  ASSUME TypeOK, NEW L, AreRows(L), NEW d \in Nat \ {0}, NEW now,
         NEW trends, trends = Bucketed(now, L, d), NEW n \in Counts, NEW m
  PROVE  /\ At(trends, m, n) = Cardinality({c \in BegunIn(L, d, m) : Counted(now, n, c)})
         /\ m \in DOMAIN trends => trends[m][n] = At(trends, m, n)
<1>1. \A c \in Range(Chains(L)) : StartOf(c, d) \in DOMAIN trends
  BY BucketsAxis
<1>2. CASE m \notin DOMAIN trends
  <2>1. {c \in BegunIn(L, d, m) : Counted(now, n, c)} = {}
    BY <1>1, <1>2 DEF BegunIn
  <2>2. At(trends, m, n) = 0
    BY <1>2 DEF At
  <2> QED
    BY <1>2, <2>1, <2>2, FS_EmptySet
<1>3. CASE m \in DOMAIN trends
  <2> DEFINE chains == Chains(L)
             P == {i \in DOMAIN chains : StartOf(chains[i], d) = m}
             part == FlattenSeq(Picked(chains, P))
  <2>1. At(trends, m, n) = trends[m][n]
    BY <1>3 DEF At
  <2>2. trends[m] = Outcomes(now, part)
    <3>1. trends[m] = Outcomes(now, Within(Chains(L), d, m))
      BY <1>3 DEF Bucketed
    <3>2. Within(Chains(L), d, m) = part
      BY DEF Within, Gathered, StartOf
    <3> QED
      BY <3>1, <3>2
  <2>3. Distinct(part) /\ Range(Chains(part)) = {chains[i] : i \in P}
    <3>1. P \in SUBSET DOMAIN chains
      OBVIOUS
    <3>2. Distinct(L)
      BY DEF AreRows
    <3> HIDE DEF P, part
    <3>3. part = FlattenSeq(Picked(chains, P))
      BY DEF part
    <3> QED
      BY <3>1, <3>2, <3>3, GatheredJourneys
  <2>4. Range(Chains(part)) = BegunIn(L, d, m)
    <3> HIDE DEF part
    <3> QED
      BY <2>3 DEF BegunIn, Range
  <2>5. Outcomes(now, part)[n] = Cardinality({c \in Range(Chains(part)) : Counted(now, n, c)})
    <3> HIDE DEF part
    <3> QED
      BY <2>3, OutcomesCount
  <2> QED
    BY <2>1, <2>2, <2>4, <2>5
<1> QED
  BY <1>2, <1>3

LEMMA TrendTotals ==
  ASSUME TypeOK, NEW L, AreRows(L), NEW d \in Nat \ {0}, NEW now,
         NEW trends, trends = Bucketed(now, L, d), NEW n \in Counts
  PROVE  TotalsOf(trends)[n] = Outcomes(now, L)[n]
<1> DEFINE T == {c \in Range(Chains(L)) : Counted(now, n, c)}
           D == DOMAIN trends
           f == [b \in D |-> trends[b][n]]
           key == [c \in Range(Chains(L)) |-> StartOf(c, d)]
<1>1. IsFiniteSet(T) /\ Outcomes(now, L)[n] = Cardinality(T)
  BY OutcomesCount DEF AreRows
<1>2. IsFiniteSet(D) /\ \A c \in Range(Chains(L)) : StartOf(c, d) \in D
  BY BucketsAxis
<1>3. AreShares(f, D, T, key)
  <2> SUFFICES ASSUME NEW b \in D
               PROVE  f[b] = Cardinality({c \in T : key[c] = b})
    BY DEF AreShares
  <2>1. f[b] = Cardinality({c \in BegunIn(L, d, b) : Counted(now, n, c)})
    BY BucketCounts
  <2>2. {c \in T : key[c] = b} = {c \in BegunIn(L, d, b) : Counted(now, n, c)}
    BY DEF BegunIn
  <2> QED
    BY <2>1, <2>2
<1>4. \A c \in T : key[c] \in D
  BY <1>2
<1>5. SumFunctionOnSet(f, D) = Cardinality(T)
  <2> HIDE DEF f, D, T, key
  <2> QED
    BY <1>1, <1>2, <1>3, <1>4, SumOfShares
<1>6. TotalsOf(trends)[n] = SumFunctionOnSet(f, D)
  <2>1. TotalsOf(trends)[n] = SumOver(trends, LAMBDA outcomes : outcomes[n])
    BY DEF TotalsOf
  <2>2. SumOver(trends, LAMBDA outcomes : outcomes[n]) = SumFunction(f)
    BY DEF SumOver
  <2>3. DOMAIN f = D
    OBVIOUS
  <2> HIDE DEF f, D
  <2> QED
    BY <2>1, <2>2, <2>3 DEF SumFunction
<1> QED
  BY <1>1, <1>5, <1>6

(* The bars of a chart.                                                    *)
SeriesOf(now, c) ==
  IF Outcome(now, c) = "in_progress" THEN "inProgress" ELSE Outcome(now, c)

LEMMA BarDrawn ==
  ASSUME TypeOK, NEW L, AreRows(L), NEW d \in Nat \ {0}, NEW now,
         NEW trends, trends = Bucketed(now, L, d), NEW m
  PROVE  Drawn([o \in Series |-> At(trends, m, o)]) = Cardinality(BegunIn(L, d, m))
<1> DEFINE T == BegunIn(L, d, m)
           f == [o \in Series |-> At(trends, m, o)]
           key == [c \in T |-> SeriesOf(now, c)]
<1>1. IsFiniteSet(T)
  <2>1. T \in SUBSET Range(Chains(L))
    BY DEF BegunIn
  <2> HIDE DEF T
  <2> QED
    BY <2>1, JourneysBegin, FS_Subset
<1>2. IsFiniteSet(Series)
  <2>1. Series = {"finished", "abandoned"} \cup {"lost", "inProgress"}
    BY DEF Series
  <2>2. \A a, b : IsFiniteSet({a, b})
    <3> SUFFICES ASSUME NEW a, NEW b PROVE IsFiniteSet({a, b})
      OBVIOUS
    <3>1. {a, b} = {a} \cup {b}
      OBVIOUS
    <3>2. IsFiniteSet({a}) /\ IsFiniteSet({b})
      BY FS_Singleton
    <3>3. IsFiniteSet({a} \cup {b})
      BY ONLY <3>2, FS_Union
    <3> QED
      BY ONLY <3>1, <3>3
  <2>3. IsFiniteSet({"finished", "abandoned"}) /\ IsFiniteSet({"lost", "inProgress"})
    BY <2>2
  <2> QED
    BY ONLY <2>1, <2>3, FS_Union
<1>3. \A c : Outcome(now, c) \in {"finished", "abandoned", "lost", "in_progress"}
  BY DEF Outcome
<1>4. \A c : SeriesOf(now, c) \in Series
  BY <1>3 DEF SeriesOf, Series
<1>5. \A c : \A o \in Series : Counted(now, o, c) <=> SeriesOf(now, c) = o
  BY <1>3 DEF SeriesOf, Series, Counted
<1>6. AreShares(f, Series, T, key)
  <2> SUFFICES ASSUME NEW o \in Series
               PROVE  f[o] = Cardinality({c \in T : key[c] = o})
    BY DEF AreShares
  <2>1. o \in Counts
    BY DEF Series, Counts
  <2>2. f[o] = Cardinality({c \in T : Counted(now, o, c)})
    BY <2>1, BucketCounts
  <2>3. {c \in T : key[c] = o} = {c \in T : Counted(now, o, c)}
    BY <1>5
  <2> QED
    BY <2>2, <2>3
<1>7. SumFunctionOnSet(f, Series) = Cardinality(T)
  <2>1. \A c \in T : key[c] \in Series
    BY <1>4
  <2> HIDE DEF T, f, key
  <2> QED
    BY <1>1, <1>2, <1>6, <2>1, SumOfShares
<1>8. Drawn(f) = SumFunctionOnSet(f, Series)
  <2>1. Drawn(f) = SumFunction([o \in DOMAIN f |-> f[o]])
    BY DEF Drawn, SumOver
  <2>2. [o \in DOMAIN f |-> f[o]] = f /\ DOMAIN f = Series
    OBVIOUS
  <2> HIDE DEF f
  <2> QED
    BY <2>1, <2>2 DEF SumFunction
<1> QED
  BY <1>7, <1>8

(* The journeys begun by a moment, to the end of its bucket.               *)
LEMMA BegunByCounts ==
  ASSUME TypeOK, NEW L, AreRows(L), NEW d \in Nat \ {0}, NEW moment \in Int,
         NEW T, T = {c \in Range(Chains(L)) : StartOf(c, d) <= BucketStart(moment, d)}
  PROVE  IsFiniteSet(T) /\ BegunBy(L, moment, d) = Cardinality(T)
<1> DEFINE chains == Chains(L)
           Begun(c) == StartedAt(c[1]) < BucketStart(moment, d) + d
<1>1. /\ chains \in Seq(Seq(Sessions)) /\ IsInjective(chains)
      /\ \A c \in Range(chains) : StartedAt(c[1]) \in Nat /\ StartOf(c, d) \in Nat
  BY JourneysBegin
<1>2. \A c \in Range(chains) : Begun(c) <=> c \in T
  <2> SUFFICES ASSUME NEW c \in Range(chains)
               PROVE  Begun(c) <=> StartOf(c, d) <= BucketStart(moment, d)
    OBVIOUS
  <2>1. PICK m \in Int : m = StartedAt(c[1])
    BY <1>1
  <2>2. PICK b : b = BucketStart(moment, d)
    OBVIOUS
  <2>3. OnBucket(b, d)
    BY <2>2, BucketIs
  <2>4. m < b + d <=> BucketStart(m, d) <= b
    BY <2>3, BucketBegun
  <2> QED
    BY <2>1, <2>2, <2>4 DEF StartOf
<1>3. T \in SUBSET Range(chains)
  OBVIOUS
<1>4. BegunBy(L, moment, d) = Cardinality({i \in DOMAIN chains : Begun(chains[i])})
  BY DEF BegunBy, HowMany
<1> HIDE DEF chains, Begun
<1>5. {i \in DOMAIN chains : Begun(chains[i])} = {i \in DOMAIN chains : chains[i] \in T}
  BY <1>2 DEF Range
<1>6. /\ IsFiniteSet(T)
      /\ Cardinality({i \in DOMAIN chains : chains[i] \in T}) = Cardinality(T)
  BY <1>1, <1>3, PlacesCount
<1> QED
  BY <1>4, <1>5, <1>6

(* A chart whose slots take every journey begun by a moment, and no other. *)
TakesBegun(S, L, d, moment) ==
  \A c \in Range(Chains(L)) : StartOf(c, d) \in S <=> StartOf(c, d) <= BucketStart(moment, d)

ShowsBegun(bars, L, d) ==
  \A m \in DOMAIN bars : Drawn(bars[m]) = Cardinality(BegunIn(L, d, m))

LEMMA ChartCounts ==
  ASSUME TypeOK, NEW L, AreRows(L), NEW d \in Nat \ {0}, NEW moment \in Int,
         NEW bars, IsFiniteSet(DOMAIN bars),
         ShowsBegun(bars, L, d), TakesBegun(DOMAIN bars, L, d, moment)
  PROVE  SumOver(bars, Drawn) = BegunBy(L, moment, d)
<1> DEFINE S == DOMAIN bars
           T == {c \in Range(Chains(L)) : StartOf(c, d) <= BucketStart(moment, d)}
           f == [m \in S |-> Drawn(bars[m])]
           key == [c \in T |-> StartOf(c, d)]
<1>1. IsFiniteSet(T) /\ BegunBy(L, moment, d) = Cardinality(T)
  BY BegunByCounts
<1>2. AreShares(f, S, T, key)
  <2> SUFFICES ASSUME NEW m \in S
               PROVE  f[m] = Cardinality({c \in T : key[c] = m})
    BY DEF AreShares
  <2>1. f[m] = Cardinality(BegunIn(L, d, m))
    BY DEF ShowsBegun
  <2>2. {c \in T : key[c] = m} = BegunIn(L, d, m)
    BY DEF BegunIn, TakesBegun
  <2> QED
    BY <2>1, <2>2
<1>3. \A c \in T : key[c] \in S
  BY DEF TakesBegun
<1>4. SumFunctionOnSet(f, S) = Cardinality(T)
  <2> HIDE DEF f, T, key
  <2> QED
    BY <1>1, <1>2, <1>3, SumOfShares
<1>5. SumOver(bars, Drawn) = SumFunctionOnSet(f, S)
  <2>1. SumOver(bars, Drawn) = SumFunction(f)
    BY DEF SumOver
  <2>2. DOMAIN f = S
    OBVIOUS
  <2> HIDE DEF f
  <2> QED
    BY <2>1, <2>2 DEF SumFunction
<1> QED
  BY <1>1, <1>4, <1>5

-----------------------------------------------------------------------------
(* What a view asks for.                                                   *)

LEMMA IncludedAre ==
  ASSUME TypeOK, NEW q, NEW L, L = Included(q)
  PROVE  /\ AreRows(L) /\ OldestFirst(L)
         /\ Range(L) = {s \in Present : /\ Matches(q, s)
                                        /\ ~q.incomplete => ~Excluded(s)}
<1> DEFINE S == {s \in Present : /\ Matches(q, s)
                                 /\ ~q.incomplete => ~Excluded(s)}
<1>1. OldestFirst(L)
  BY IncludedOldestFirst
<1>2. L = Sorted(S)
  BY DEF Included
<1>3. S \in SUBSET Present
  OBVIOUS
<1> HIDE DEF S
<1>4. Range(L) = S
  BY <1>2, <1>3, SortedLists
<1>5. AreRows(L)
  BY <1>1 DEF OldestFirst, AreRows
<1> QED
  BY <1>1, <1>4, <1>5 DEF S

LEMMA PeriodTyped ==
  ASSUME NEW v \in Views, NEW p, p = PeriodOf(v)
  PROVE  /\ p.since = NoTime \/ p.since \in Int
         /\ EndOf(v, p) \in Nat /\ v.now \in Nat
         /\ BucketFor(v, p) \in Nat \ {0}
<1>1. /\ v.now \in Nat /\ v.since \in Nat \cup {NoTime} /\ v.until \in Nat \cup {NoTime}
  BY ChartsAssumption
<1> DEFINE name == IF v.preset \in DOMAIN Presets THEN v.preset ELSE DefaultPreset
           days == Presets[name]
<1>2. days \in Nat
  BY ChartsAssumption
<1>3. Day \in Nat \ {0} /\ Week \in Nat \ {0}
  BY JourneysAssumption
<1>4. BucketStart(v.now - (days - 1) * Day, Day) \in Int
  <2> HIDE DEF days
  <2>1. v.now - (days - 1) * Day \in Int
    BY <1>1, <1>2, <1>3
  <2> QED
    BY <1>3, <2>1, BucketIs
<1>5. p = IF {v.since, v.until} # {NoTime}
          THEN [since |-> v.since, until |-> v.until, days |-> 0]
          ELSE [since |-> IF days = 0 THEN NoTime
                          ELSE BucketStart(v.now - (days - 1) * Day, Day),
                until |-> NoTime, days |-> days]
  BY DEF PeriodOf
<1> HIDE DEF days
<1>6. p.since = NoTime \/ p.since \in Int
  <2>1. CASE {v.since, v.until} # {NoTime}
    BY <1>1, <1>5, <2>1
  <2>2. CASE {v.since, v.until} = {NoTime}
    <3>1. p.since = IF days = 0 THEN NoTime
                    ELSE BucketStart(v.now - (days - 1) * Day, Day)
      BY <1>5, <2>2
    <3> QED
      BY <1>4, <3>1
  <2> QED
    BY <2>1, <2>2
<1>7. EndOf(v, p) \in Nat
  <2>1. p.until = NoTime \/ p.until \in Nat
    BY <1>1, <1>5
  <2> QED
    BY <1>1, <2>1 DEF EndOf
<1>8. BucketFor(v, p) \in {Day, Week}
  BY DEF BucketFor
<1> QED
  BY <1>1, <1>3, <1>6, <1>7, <1>8

LEMMA SlotsAre ==
  ASSUME TypeOK, NEW v \in Views,
         NEW L, L = Included(QuestionOf(v, AnyWorkshop)),
         NEW d, d = BucketFor(v, PeriodOf(v)),
         NEW trends, trends = Bucketed(v.now, L, d),
         NEW S, S = Slots(v, trends, d)
  PROVE  /\ IsFiniteSet(S)
         /\ \A c \in Range(Chains(L)) :
              StartOf(c, d) \in S <=> StartOf(c, d) <= BucketStart(EndOf(v, PeriodOf(v)), d)
<1>1. PICK p : p = PeriodOf(v)
  OBVIOUS
<1>2. /\ p.since = NoTime \/ p.since \in Int
      /\ EndOf(v, p) \in Int /\ d \in Nat \ {0}
  <2>1. EndOf(v, p) \in Nat /\ d \in Nat \ {0} /\ (p.since = NoTime \/ p.since \in Int)
    BY <1>1, PeriodTyped
  <2> QED
    BY <2>1
<1>3. PICK last : last = BucketStart(EndOf(v, p), d)
  OBVIOUS
<1>4. last \in Int
  BY <1>2, <1>3, BucketIs
<1>5. PICK first : first = IF p.since # NoTime THEN {BucketStart(p.since, d)}
                           ELSE DOMAIN trends
  OBVIOUS
<1>6. S = IF first = {} THEN {} ELSE {m \in Min(first) .. last : m % d = 0}
  BY <1>1, <1>3, <1>5 DEF Slots
<1>7. /\ AreRows(L)
      /\ \A s \in Range(L) : Matches(QuestionOf(v, AnyWorkshop), s)
  BY IncludedAre
<1>8. \A c \in Range(Chains(L)) :
        /\ c[1] \in Range(L) /\ StartedAt(c[1]) \in Nat
        /\ StartOf(c, d) \in Nat /\ OnBucket(StartOf(c, d), d)
  BY <1>2, <1>7, JourneysBegin
<1>9. first # {} => /\ Min(first) \in Int
                    /\ \A c \in Range(Chains(L)) : Min(first) <= StartOf(c, d)
  <2>1. CASE p.since = NoTime
    <3>1. first = DOMAIN trends
      BY <1>5, <2>1
    <3>2. /\ first \in SUBSET Nat
          /\ \A c \in Range(Chains(L)) : StartOf(c, d) \in first
          /\ first # {} => Min(first) \in first /\ \A b \in first : Min(first) <= b
      BY <1>2, <1>7, <3>1, BucketsAxis
    <3>3. first # {} => Min(first) \in Nat
      BY <3>2
    <3>4. \A k \in Nat : k \in Int
      OBVIOUS
    <3> QED
      BY <3>2, <3>3, <3>4
  <2>2. CASE p.since # NoTime
    <3>1. PICK b : b = BucketStart(p.since, d)
      OBVIOUS
    <3>2. first = {b}
      BY <1>5, <2>2, <3>1
    <3>3. p.since \in Int
      BY <1>2, <2>2
    <3>4. b \in Int /\ b <= p.since /\ OnBucket(b, d)
      BY <1>2, <3>1, <3>3, BucketIs
    <3>5. Min(first) = b
      BY <3>2, <3>4 DEF Min
    <3>6. \A c \in Range(Chains(L)) : b <= StartOf(c, d)
      <4> SUFFICES ASSUME NEW c \in Range(Chains(L)) PROVE b <= StartOf(c, d)
        OBVIOUS
      <4>1. Matches(QuestionOf(v, AnyWorkshop), c[1])
        BY <1>7, <1>8
      <4>2. QuestionOf(v, AnyWorkshop).since = p.since
        BY <1>1, <2>2 DEF QuestionOf
      <4>3. StartedAt(c[1]) >= p.since
        BY <4>1, <4>2 DEF Matches
      <4>4. PICK m \in Int : m = StartedAt(c[1])
        BY <1>8
      <4>5. b <= m
        BY <3>3, <3>4, <4>3, <4>4
      <4>6. b <= BucketStart(m, d)
        BY <1>2, <3>4, <4>5, BucketBegun
      <4> QED
        BY <4>4, <4>6 DEF StartOf
    <3> QED
      BY <3>4, <3>5, <3>6
  <2> QED
    BY <2>1, <2>2
<1>10. first = {} => Range(Chains(L)) = {}
  <2> SUFFICES ASSUME first = {} PROVE Range(Chains(L)) = {}
    OBVIOUS
  <2>1. DOMAIN trends = {}
    BY <1>5
  <2>2. \A c \in Range(Chains(L)) : StartOf(c, d) \in DOMAIN trends
    BY <1>2, <1>7, BucketsAxis
  <2> QED
    BY <2>1, <2>2
<1>11. IsFiniteSet(S)
  <2>1. CASE first = {}
    BY <1>6, <2>1, FS_EmptySet
  <2>2. CASE first # {}
    <3>1. S \in SUBSET (Min(first) .. last)
      BY <1>6, <2>2
    <3>2. IsFiniteSet(Min(first) .. last)
      BY <1>4, <1>9, <2>2, FS_Interval
    <3> QED
      BY <3>1, <3>2, FS_Subset
  <2> QED
    BY <2>1, <2>2
<1>12. ASSUME NEW c \in Range(Chains(L))
       PROVE  StartOf(c, d) \in S <=> StartOf(c, d) <= last
  <2>1. first # {}
    BY <1>10
  <2>2. PICK b : b = StartOf(c, d)
    OBVIOUS
  <2>3. b \in Int /\ OnBucket(b, d)
    BY <1>8, <2>2
  <2>4. b % d = 0
    BY <1>2, <2>3, OnBucketIs
  <2>5. PICK k \in Int : k = Min(first)
    BY <1>9, <2>1
  <2>6. k <= b
    BY <1>9, <2>1, <2>2, <2>5
  <2>7. S = {m \in k .. last : m % d = 0}
    BY <1>6, <2>1, <2>5
  <2>8. b \in k .. last <=> b <= last
    BY <1>4, <2>3, <2>6
  <2>9. b \in S <=> b <= last
    BY ONLY <2>4, <2>7, <2>8
  <2> QED
    BY <2>2, <2>9
<1> QED
  BY <1>1, <1>3, <1>11, <1>12

LEMMA JourneysChart ==
  ASSUME TypeOK, NEW v \in Views,
         NEW L, L = Included(QuestionOf(v, AnyWorkshop)),
         NEW d, d = BucketFor(v, PeriodOf(v)),
         NEW trends, trends = Bucketed(v.now, L, d),
         NEW chart, chart = OutcomeChart(v, trends, d)
  PROVE  /\ DOMAIN chart = Slots(v, trends, d)
         /\ ShowsBegun(chart, L, d)
         /\ SumOver(chart, Drawn) = BegunBy(L, EndOf(v, PeriodOf(v)), d)
<1>1. PICK S : S = Slots(v, trends, d)
  OBVIOUS
<1>2. chart = [m \in S |-> [o \in Series |-> At(trends, m, o)]]
  BY <1>1 DEF OutcomeChart
<1>3. AreRows(L) /\ d \in Nat \ {0} /\ EndOf(v, PeriodOf(v)) \in Nat
  BY IncludedAre, PeriodTyped
<1>4. \A m \in S : Drawn(chart[m]) = Cardinality(BegunIn(L, d, m))
  <2> SUFFICES ASSUME NEW m \in S
               PROVE  Drawn(chart[m]) = Cardinality(BegunIn(L, d, m))
    OBVIOUS
  <2>1. chart[m] = [o \in Series |-> At(trends, m, o)]
    BY <1>2
  <2>2. Drawn([o \in Series |-> At(trends, m, o)]) = Cardinality(BegunIn(L, d, m))
    BY <1>3, BarDrawn
  <2> QED
    BY <2>1, <2>2
<1>5. DOMAIN chart = S
  BY <1>2
<1>6. PICK moment \in Int : moment = EndOf(v, PeriodOf(v))
  <2>1. \A k \in Nat : k \in Int
    OBVIOUS
  <2> QED
    BY <1>3, <2>1
<1>7. IsFiniteSet(S) /\ TakesBegun(S, L, d, moment)
  BY <1>1, <1>6, SlotsAre DEF TakesBegun
<1>8. ShowsBegun(chart, L, d)
  BY <1>4, <1>5 DEF ShowsBegun
<1>9. SumOver(chart, Drawn) = BegunBy(L, moment, d)
  <2>1. IsFiniteSet(DOMAIN chart) /\ TakesBegun(DOMAIN chart, L, d, moment)
    BY <1>5, <1>7
  <2> QED
    BY <1>3, <1>8, <2>1, ChartCounts
<1> QED
  BY <1>1, <1>5, <1>6, <1>8, <1>9

(* The chart by value: each value has a colour of its own as long as there *)
(* are colours for them.                                                   *)
LEMMA OwnColour ==
  ASSUME NEW n \in Nat, NEW P \in Nat \ {0}, n <= P, NEW i \in 1 .. n, NEW j \in 1 .. n,
         (i - 1) % P = (j - 1) % P
  PROVE  i = j
<1>1. ASSUME NEW k \in 0 .. P - 1 PROVE k % P = k
  <2>1. k \in Int
    OBVIOUS
  <2>2. PICK q \in Int : k = q * P + (k % P)
    BY <2>1, Quotient
  <2>3. k % P \in 0 .. P - 1
    BY <2>1, Quotient
  <2>4. /\ 0 < q => 0 * P + P <= q * P
        /\ q < 0 => q * P + P <= 0 * P
        /\ q * P \in Int
    BY Multiples
  <2>5. 0 * P = 0
    OBVIOUS
  <2>6. q = 0
    BY ONLY <2>2, <2>3, <2>4, <2>5, q \in Int, P \in Nat \ {0}, k \in 0 .. P - 1
  <2> QED
    BY ONLY <2>2, <2>3, <2>5, <2>6
<1>2. i - 1 \in 0 .. P - 1 /\ j - 1 \in 0 .. P - 1
  OBVIOUS
<1>3. (i - 1) % P = i - 1 /\ (j - 1) % P = j - 1
  BY <1>1, <1>2
<1>4. i - 1 = j - 1
  BY <1>3
<1> QED
  BY <1>4

(* The journeys of a value.                                                *)
ValuesOf(L) == {Value[c[1]] : c \in Range(Chains(L))}

LEMMA ValuesAre ==
  ASSUME TypeOK, NEW L, AreRows(L)
  PROVE  IsFiniteSet(ValuesOf(L)) /\ ValuesOf(L) \in SUBSET Nat
<1>1. /\ IsFiniteSet(Range(Chains(L)))
      /\ \A c \in Range(Chains(L)) : c[1] \in Range(L)
  <2>1. 1 \in Nat \ {0}
    OBVIOUS
  <2> QED
    BY <2>1, JourneysBegin
<1>2. \A c \in Range(Chains(L)) : Value[c[1]] \in Nat
  <2>1. Range(L) \subseteq Sessions
    BY DEF AreRows, Present
  <2> QED
    BY <1>1, <2>1, ChartsAssumption
<1> DEFINE f == [c \in Range(Chains(L)) |-> Value[c[1]]]
<1>3. ValuesOf(L) = {f[c] : c \in Range(Chains(L))}
  BY DEF ValuesOf
<1> HIDE DEF f
<1>4. IsFiniteSet(ValuesOf(L))
  BY <1>1, <1>3, ImageFinite
<1> QED
  BY <1>2, <1>4 DEF ValuesOf

LEMMA GroupCounts ==
  ASSUME TypeOK, NEW L, AreRows(L), NEW d \in Nat \ {0}, NEW now,
         NEW groups, groups = TrendGroups(now, L, d)
  PROVE  /\ DOMAIN groups = ValuesOf(L)
         /\ \A x \in DOMAIN groups : \A m :
              At(groups[x], m, "journeys")
                = Cardinality({c \in BegunIn(L, d, m) : Value[c[1]] = x})
<1>1. DOMAIN groups = ValuesOf(L)
  BY DEF TrendGroups, ValuesOf
<1>2. ASSUME NEW x \in DOMAIN groups, NEW m
      PROVE  At(groups[x], m, "journeys")
               = Cardinality({c \in BegunIn(L, d, m) : Value[c[1]] = x})
  <2> DEFINE chains == Chains(L)
             P == {i \in DOMAIN chains : Value[chains[i][1]] = x}
             part == FlattenSeq(Picked(chains, P))
  <2>1. groups[x] = Bucketed(now, part, d)
    BY <1>1 DEF TrendGroups, Gathered, ValuesOf
  <2>2. /\ Distinct(part) /\ Range(Chains(part)) = {chains[i] : i \in P}
        /\ Range(part) \subseteq Range(L)
    <3>1. P \in SUBSET DOMAIN chains
      OBVIOUS
    <3>2. Distinct(L)
      BY DEF AreRows
    <3> HIDE DEF P, part
    <3>3. part = FlattenSeq(Picked(chains, P))
      BY DEF part
    <3> QED
      BY <3>1, <3>2, <3>3, GatheredJourneys
  <2>3. Range(Chains(part)) = {c \in Range(Chains(L)) : Value[c[1]] = x}
    <3> HIDE DEF part
    <3> QED
      BY <2>2 DEF Range
  <2> HIDE DEF part
  <2>4. AreRows(part)
    BY <2>2 DEF AreRows
  <2>5. "journeys" \in Counts
    BY DEF Counts
  <2>6. At(groups[x], m, "journeys")
          = Cardinality({c \in BegunIn(part, d, m) : Counted(now, "journeys", c)})
    BY <2>1, <2>4, <2>5, BucketCounts
  <2>7. {c \in BegunIn(part, d, m) : Counted(now, "journeys", c)}
          = {c \in BegunIn(L, d, m) : Value[c[1]] = x}
    BY <2>3 DEF BegunIn, Counted
  <2> QED
    BY <2>6, <2>7
<1> QED
  BY <1>1, <1>2

(* A bar of the values of the groups.                                      *)
ShowsValues(bar, groups, values, m) ==
  /\ DOMAIN bar = DOMAIN values
  /\ \A i \in DOMAIN values : bar[i] = At(groups[values[i]], m, "journeys")

LEMMA ValueBar ==
  ASSUME TypeOK, NEW L, AreRows(L), NEW d \in Nat \ {0}, NEW now,
         NEW groups, groups = TrendGroups(now, L, d), NEW m,
         NEW values, values = Ascending(DOMAIN groups),
         NEW bar, ShowsValues(bar, groups, values, m)
  PROVE  Drawn(bar) = Cardinality(BegunIn(L, d, m))
<1> DEFINE T == BegunIn(L, d, m)
           V == DOMAIN values
           key == [c \in T |-> CHOOSE i \in V : values[i] = Value[c[1]]]
<1>1. IsFiniteSet(T) /\ T \in SUBSET Range(Chains(L))
  <2>1. T \in SUBSET Range(Chains(L))
    BY DEF BegunIn
  <2> HIDE DEF T
  <2> QED
    BY <2>1, JourneysBegin, FS_Subset
<1>2. /\ DOMAIN groups = ValuesOf(L)
      /\ \A x \in DOMAIN groups :
           At(groups[x], m, "journeys") = Cardinality({c \in T : Value[c[1]] = x})
  BY GroupCounts
<1>3. ValuesOf(L) \in SUBSET Int /\ IsFiniteSet(ValuesOf(L))
  <2>1. \A k \in Nat : k \in Int
    OBVIOUS
  <2> QED
    BY <2>1, ValuesAre
<1>4. values \in Seq(ValuesOf(L)) /\ Range(values) = ValuesOf(L) /\ IsInjective(values)
  BY <1>2, <1>3, AscendingLists
<1>5. IsFiniteSet(V)
  <2>1. V = 1 .. Len(values) /\ Len(values) \in Nat
    BY <1>4
  <2>2. PICK n \in Nat : V = 1 .. n
    BY <2>1
  <2>3. IsFiniteSet(1 .. n)
    BY FS_Interval
  <2> QED
    BY ONLY <2>2, <2>3
<1>6. \A c \in T : \E i \in V : values[i] = Value[c[1]]
  <2>1. \A c \in T : Value[c[1]] \in Range(values)
    BY <1>1, <1>4 DEF ValuesOf
  <2> QED
    BY <2>1 DEF Range
<1>7. \A c \in T : key[c] \in V /\ values[key[c]] = Value[c[1]]
  BY <1>6
<1>8. \A c \in T : \A i \in V : key[c] = i <=> Value[c[1]] = values[i]
  <2> HIDE DEF key, T
  <2> QED
    BY <1>4, <1>7 DEF IsInjective
<1> HIDE DEF key, T
<1>9. AreShares(bar, V, T, key)
  <2> SUFFICES ASSUME NEW i \in V
               PROVE  bar[i] = Cardinality({c \in T : key[c] = i})
    BY DEF AreShares
  <2>1. values[i] \in DOMAIN groups
    BY <1>2, <1>4 DEF Range
  <2>2. bar[i] = Cardinality({c \in T : Value[c[1]] = values[i]})
    BY <1>2, <2>1 DEF ShowsValues
  <2>3. {c \in T : key[c] = i} = {c \in T : Value[c[1]] = values[i]}
    BY <1>8
  <2> QED
    BY <2>2, <2>3
<1>10. Drawn(bar) = SumFunctionOnSet([i \in V |-> bar[i]], V)
  <2>1. Drawn(bar) = SumFunction([i \in DOMAIN bar |-> bar[i]])
    BY DEF Drawn, SumOver
  <2>2. DOMAIN bar = V /\ DOMAIN [i \in V |-> bar[i]] = V
    BY DEF ShowsValues
  <2> QED
    BY <2>1, <2>2 DEF SumFunction
<1>11. AreShares([i \in V |-> bar[i]], V, T, key)
  BY <1>9 DEF AreShares
<1>12. SumFunctionOnSet([i \in V |-> bar[i]], V) = Cardinality(T)
  <2>1. \A c \in T : key[c] \in V
    BY <1>7
  <2> DEFINE g == [i \in V |-> bar[i]]
  <2>2. AreShares(g, V, T, key)
    BY <1>11
  <2> HIDE DEF V, g
  <2>3. SumFunctionOnSet(g, V) = Cardinality(T)
    BY <1>1, <1>5, <2>1, <2>2, SumOfShares
  <2> QED
    BY <2>3 DEF g
<1> QED
  BY <1>10, <1>12 DEF T

(* A part of an answer that has whatever its sessions resumed or were      *)
(* resumed by.                                                             *)
LEMMA PartLinks ==
  ASSUME NEW L, OldestFirst(L), NEW part, OldestFirst(part),
         Range(part) \subseteq Range(L),
         \A s \in Range(part) : \A t \in Range(L) :
           Resumes(s, t) \/ Resumes(t, s) => t \in Range(part)
  PROVE  KeepsLinks(part, L)
<1>1. Distinct(L) /\ Distinct(part)
  BY DEF OldestFirst
<1>2. \A s : /\ Resumers(L, s) = {} <=> ~ \E t \in Range(L) : Resumes(t, s)
             /\ Resumers(part, s) = {} <=> ~ \E t \in Range(part) : Resumes(t, s)
  BY DEF Resumers, Range
<1>3. ASSUME NEW s \in Range(part)
      PROVE  /\ IsHead(part, s) <=> IsHead(L, s)
             /\ Resumers(part, s) = {} <=> Resumers(L, s) = {}
             /\ Resumers(L, s) # {} => Successor(part, s) = Successor(L, s)
  <2>1. IsHead(part, s) <=> IsHead(L, s)
    BY DEF IsHead, Resumes
  <2>2. Resumers(part, s) = {} <=> Resumers(L, s) = {}
    BY <1>2
  <2>3. ASSUME Resumers(L, s) # {}
        PROVE  Successor(part, s) = Successor(L, s)
    <3>1. PICK a : a = Successor(L, s)
      OBVIOUS
    <3>2. PICK b : b = Successor(part, s)
      OBVIOUS
    <3>3. a \in Range(L) /\ Resumes(a, s)
      BY <1>1, <2>3, <3>1, Succeeds
    <3>4. b \in Range(part) /\ Resumes(b, s)
      BY <1>1, <2>2, <2>3, <3>2, Succeeds
    <3>5. a \in Range(part) /\ b \in Range(L)
      BY <3>3, <3>4
    <3>6. ~ Before(a, b)
      BY <3>1, <3>4, <3>5, SucceedsLast
    <3>7. ~ Before(b, a)
      BY <3>2, <3>3, <3>5, SucceedsLast
    <3>8. PICK i \in DOMAIN L : a = L[i]
      BY <3>3 DEF Range
    <3>9. PICK j \in DOMAIN L : b = L[j]
      BY <3>5 DEF Range
    <3>10. ~ (i < j) /\ ~ (j < i)
      BY <3>6, <3>7, <3>8, <3>9 DEF OldestFirst
    <3>11. i \in Nat /\ j \in Nat
      BY <1>1 DEF Distinct
    <3>12. i = j
      BY ONLY <3>10, <3>11
    <3> QED
      BY <3>1, <3>2, <3>8, <3>9, <3>12
  <2> QED
    BY <2>1, <2>2, <2>3
<1> QED
  BY <1>1, <1>3 DEF KeepsLinks

(* The workshops listed.                                                   *)
LEMMA WorkshopPart ==
  ASSUME TypeOK, NEW v \in Views, NEW w \in Workshops,
         NEW L, L = Included(QuestionOf(v, AnyWorkshop)), SameWorkshops(L),
         NEW part, part = Included(QuestionOf(v, w))
  PROVE  /\ Distinct(part)
         /\ Range(Chains(part)) = {c \in Range(Chains(L)) : Workshop[c[1]] = w}
<1>1. /\ OldestFirst(L) /\ OldestFirst(part) /\ AreRows(L)
      /\ Range(L) = {s \in Present : /\ Matches(QuestionOf(v, AnyWorkshop), s)
                                     /\ ~QuestionOf(v, AnyWorkshop).incomplete => ~Excluded(s)}
      /\ Range(part) = {s \in Present : /\ Matches(QuestionOf(v, w), s)
                                        /\ ~QuestionOf(v, w).incomplete => ~Excluded(s)}
  BY IncludedAre
<1>2. w # AnyWorkshop
  BY JourneysAssumption DEF Workshops
<1>3. \A s : Matches(QuestionOf(v, w), s)
               <=> Matches(QuestionOf(v, AnyWorkshop), s) /\ Workshop[s] = w
  BY <1>2 DEF Matches, QuestionOf
<1>4. QuestionOf(v, w).incomplete = QuestionOf(v, AnyWorkshop).incomplete
  BY DEF QuestionOf
<1>5. Range(part) = {s \in Range(L) : Workshop[s] = w}
  BY <1>1, <1>3, <1>4
<1>6. KeepsLinks(part, L)
  <2>1. Range(part) \subseteq Range(L)
    BY <1>5
  <2>2. \A s \in Range(part) : \A t \in Range(L) :
          Resumes(s, t) \/ Resumes(t, s) => t \in Range(part)
    BY <1>5 DEF SameWorkshops
  <2> QED
    BY <1>1, <2>1, <2>2, PartLinks
<1>7. Distinct(L)
  BY <1>1 DEF OldestFirst
<1>8. Range(Chains(part)) = {c \in Range(Chains(L)) : c[1] \in Range(part)}
  BY <1>6, <1>7, SameJourneys
<1>9. \A c \in Range(Chains(L)) : c[1] \in Range(L)
  <2>1. 1 \in Nat \ {0}
    OBVIOUS
  <2> QED
    BY <1>1, <2>1, JourneysBegin
<1>10. Range(Chains(part)) = {c \in Range(Chains(L)) : Workshop[c[1]] = w}
  BY <1>5, <1>8, <1>9
<1> QED
  BY <1>1, <1>10 DEF OldestFirst

LEMMA WorkshopsSum ==
  ASSUME TypeOK, NEW v \in Views, NEW q, q = QuestionOf(v, AnyWorkshop),
         NEW L, L = Included(q), SameWorkshops(L)
  PROVE  SumOver(ListWorkshops(q), LAMBDA o : o.journeys) = Outcomes(v.now, L)["journeys"]
<1> DEFINE W == {Workshop[s] : s \in Range(Loaded(q))}
           T == Range(Chains(L))
           key == [c \in T |-> Workshop[c[1]]]
           f == [w \in W |-> Outcomes(q.now, Included(QuestionOf(v, w)))["journeys"]]
<1>1. /\ AreRows(L) /\ Range(L) \subseteq Range(Loaded(q))
      /\ Range(Loaded(q)) = {s \in Present : Matches(q, s)}
  <2> DEFINE S == {s \in Present : Matches(q, s)}
  <2>1. AreRows(L) /\ Range(L) \subseteq S
    BY IncludedAre
  <2>2. Loaded(q) = Sorted(S) /\ S \in SUBSET Present
    BY DEF Loaded
  <2> HIDE DEF S
  <2>3. Range(Loaded(q)) = S
    BY <2>2, SortedLists
  <2> QED
    BY <2>1, <2>3 DEF S
<1>2. IsFiniteSet(W) /\ W \subseteq Workshops
  <2>1. Range(Loaded(q)) \in SUBSET Sessions
    BY <1>1 DEF Present
  <2>2. IsFiniteSet(Range(Loaded(q)))
    BY <2>1, JourneysAssumption, FS_Subset
  <2>3. IsFiniteSet(W)
    BY <2>2, ImageFinite
  <2> QED
    BY <2>1, <2>3 DEF Workshops
<1>3. IsFiniteSet(T) /\ \A c \in T : key[c] \in W
  <2>1. 1 \in Nat \ {0}
    OBVIOUS
  <2>2. IsFiniteSet(T) /\ \A c \in T : c[1] \in Range(L)
    BY <1>1, <2>1, JourneysBegin
  <2>3. \A c \in T : c[1] \in Range(Loaded(q))
    BY <1>1, <2>2
  <2> QED
    BY <2>2, <2>3
<1>4. "journeys" \in Counts /\ \A now, c : Counted(now, "journeys", c)
  BY DEF Counts, Counted
<1>5. Outcomes(v.now, L)["journeys"] = Cardinality(T)
  <2>1. Distinct(L)
    BY <1>1 DEF AreRows
  <2>2. {c \in Range(Chains(L)) : Counted(v.now, "journeys", c)} = T
    BY <1>4
  <2> QED
    BY <1>4, <2>1, <2>2, OutcomesCount
<1>6. AreShares(f, W, T, key)
  <2> SUFFICES ASSUME NEW w \in W
               PROVE  f[w] = Cardinality({c \in T : key[c] = w})
    BY DEF AreShares
  <2>1. PICK part : part = Included(QuestionOf(v, w))
    OBVIOUS
  <2>2. /\ Distinct(part)
        /\ Range(Chains(part)) = {c \in T : Workshop[c[1]] = w}
    BY <1>2, <2>1, WorkshopPart
  <2>3. Outcomes(q.now, part)["journeys"]
          = Cardinality({c \in Range(Chains(part)) : Counted(q.now, "journeys", c)})
    BY <1>4, <2>2, OutcomesCount
  <2>4. {c \in Range(Chains(part)) : Counted(q.now, "journeys", c)} = {c \in T : key[c] = w}
    BY <1>4, <2>2
  <2> QED
    BY <2>1, <2>3, <2>4
<1>7. SumFunctionOnSet(f, W) = Cardinality(T)
  <2> HIDE DEF T, W, f, key
  <2> QED
    BY <1>2, <1>3, <1>6, SumOfShares
<1>8. SumOver(ListWorkshops(q), LAMBDA o : o.journeys) = SumFunctionOnSet(f, W)
  <2>1. \A w : [q EXCEPT !.workshop = w] = QuestionOf(v, w)
    <3>1. PICK no : no = v.incomplete
      OBVIOUS
    <3>2. PICK a, b : \A w : QuestionOf(v, w) = [workshop |-> w, since |-> a, until |-> b,
                                                now |-> v.now, incomplete |-> no]
      BY <3>1 DEF QuestionOf
    <3>3. PICK r : r = q
      OBVIOUS
    <3>4. r = [workshop |-> AnyWorkshop, since |-> a, until |-> b,
               now |-> v.now, incomplete |-> no]
      BY <3>2, <3>3
    <3>5. ASSUME NEW w PROVE [r EXCEPT !.workshop = w] = QuestionOf(v, w)
      <4>1. [r EXCEPT !.workshop = w] = [workshop |-> w, since |-> a, until |-> b,
                                         now |-> v.now, incomplete |-> no]
        BY ONLY <3>4
      <4> QED
        BY <3>2, <4>1
    <3> QED
      BY <3>3, <3>5
  <2>2. ListWorkshops(q) = [w \in W |-> Outcomes(q.now, Included(QuestionOf(v, w)))]
    BY <2>1 DEF ListWorkshops
  <2>3. SumOver(ListWorkshops(q), LAMBDA o : o.journeys) = SumFunction(f)
    BY <2>2 DEF SumOver
  <2>4. DOMAIN f = W
    OBVIOUS
  <2> HIDE DEF f, W
  <2> QED
    BY <2>3, <2>4 DEF SumFunction
<1> QED
  BY <1>5, <1>7, <1>8

(* The sparklines: a value for each of the last days.                      *)
LEMMA SparklineDrawn ==
  ASSUME TypeOK, NEW v \in Views, NEW now \in Nat, now = v.now, NEW w,
         NEW L, L = Included(RecentQuestion(v, w)),
         NEW buckets, buckets = Bucketed(now, L, Day)
  PROVE  Drawn(Sparkline(now, buckets)) = BegunBy(L, now, Day)
<1>1. PICK n \in Nat : n = SparkDays - 1
  <2>1. SparkDays \in Nat \ {0}
    BY ChartsAssumption
  <2>2. SparkDays - 1 \in Nat
    BY ONLY <2>1
  <2> QED
    BY <2>2
<1>2. PICK d \in Nat \ {0} : d = Day
  BY JourneysAssumption
<1>3. PICK first : first = BucketStart(now - n * d, d)
  OBVIOUS
<1>4. PICK m \in Int : m = now
  OBVIOUS
<1>5. /\ first + n * d = BucketStart(m, d) /\ first \in Int
      /\ \A b : OnBucket(b, d) /\ first <= b /\ b <= first + n * d =>
                  \E k \in 0 .. n : b = first + k * d
  <2>1. first = BucketStart(m - n * d, d)
    BY <1>3, <1>4
  <2> QED
    BY ONLY <2>1, BucketsBack
<1> DEFINE T == {c \in Range(Chains(L)) : StartOf(c, d) <= BucketStart(m, d)}
           V == 0 .. n
           day == [k \in V |-> first + k * d]
           f == [k \in V |-> At(buckets, day[k], "journeys")]
           key == [c \in T |-> CHOOSE k \in V : StartOf(c, d) = day[k]]
<1>6. AreRows(L) /\ \A s \in Range(L) : Matches(RecentQuestion(v, w), s)
  BY IncludedAre
<1>7. \A c \in Range(Chains(L)) :
        /\ c[1] \in Range(L) /\ StartedAt(c[1]) \in Nat
        /\ StartOf(c, d) \in Nat /\ OnBucket(StartOf(c, d), d)
  BY <1>6, JourneysBegin
<1>8. IsFiniteSet(T) /\ BegunBy(L, m, d) = Cardinality(T)
  BY <1>6, BegunByCounts
<1>9. OnBucket(first, d)
  <2>1. now - n * d \in Int
    OBVIOUS
  <2> QED
    BY <1>3, <2>1, BucketIs
<1>10. \A c \in Range(Chains(L)) : first <= StartOf(c, d)
  <2> SUFFICES ASSUME NEW c \in Range(Chains(L)) PROVE first <= StartOf(c, d)
    OBVIOUS
  <2>1. RecentQuestion(v, w).since = first
    BY <1>1, <1>2, <1>3 DEF RecentQuestion
  <2>2. StartedAt(c[1]) >= first
    BY <1>6, <1>7, <2>1 DEF Matches
  <2>3. PICK t \in Int : t = StartedAt(c[1])
    BY <1>7
  <2>4. first <= t
    BY <1>5, <2>2, <2>3
  <2>5. first <= BucketStart(t, d)
    BY <1>9, <2>4, BucketBegun
  <2> QED
    BY <2>3, <2>5 DEF StartOf
<1>11. \A c \in T : \E k \in V : StartOf(c, d) = day[k]
  <2> SUFFICES ASSUME NEW c \in T PROVE \E k \in V : StartOf(c, d) = first + k * d
    OBVIOUS
  <2>1. PICK b : b = StartOf(c, d)
    OBVIOUS
  <2>2. OnBucket(b, d) /\ first <= b
    BY <1>7, <1>10, <2>1
  <2>3. b <= first + n * d
    BY <1>5, <2>1
  <2> QED
    BY <1>5, <2>1, <2>2, <2>3
<1>12. \A j, k \in V : day[j] = day[k] => j = k
  <2> SUFFICES ASSUME NEW j \in V, NEW k \in V, first + j * d = first + k * d
               PROVE  j = k
    OBVIOUS
  <2>1. j \in Int /\ k \in Int
    OBVIOUS
  <2>2. /\ j < k => j * d + d <= k * d
        /\ k < j => k * d + d <= j * d
        /\ j * d \in Int /\ k * d \in Int
    BY <2>1, Multiples
  <2> QED
    BY <1>5, <2>1, <2>2
<1>13. \A c \in T : key[c] \in V /\ StartOf(c, d) = day[key[c]]
  <2> HIDE DEF day, V
  <2> QED
    BY <1>11
<1>14. \A c \in T : \A k \in V : key[c] = k <=> StartOf(c, d) = day[k]
  <2> HIDE DEF day, V, key, T
  <2> QED
    BY <1>12, <1>13
<1>15. AreShares(f, V, T, key)
  <2> SUFFICES ASSUME NEW k \in V
               PROVE  f[k] = Cardinality({c \in T : key[c] = k})
    BY DEF AreShares
  <2>1. PICK b : b = day[k]
    OBVIOUS
  <2>2. "journeys" \in Counts /\ \A c : Counted(now, "journeys", c)
    BY DEF Counts, Counted
  <2>3. At(buckets, b, "journeys")
          = Cardinality({c \in BegunIn(L, d, b) : Counted(now, "journeys", c)})
    BY <1>2, <1>6, <2>2, BucketCounts
  <2>4. f[k] = Cardinality({c \in BegunIn(L, d, b) : Counted(now, "journeys", c)})
    BY <2>1, <2>3
  <2>5. b <= BucketStart(m, d)
    <3>1. k \in Int /\ n \in Int /\ k <= n
      OBVIOUS
    <3>2. k < n => k * d + d <= n * d
      BY <3>1, Multiples
    <3>3. k * d \in Int /\ n * d \in Int
      OBVIOUS
    <3>4. k * d <= n * d
      BY <3>1, <3>2, <3>3
    <3> QED
      BY <1>5, <2>1, <3>3, <3>4
  <2>6. \A c : c \in BegunIn(L, d, b) <=> c \in T /\ StartOf(c, d) = b
    BY <2>5 DEF BegunIn
  <2> HIDE DEF T, key, f, day
  <2>7. {c \in BegunIn(L, d, b) : Counted(now, "journeys", c)} = {c \in T : key[c] = k}
    BY <1>14, <2>1, <2>2, <2>6
  <2> QED
    BY <2>4, <2>7
<1>16. SumFunctionOnSet(f, V) = Cardinality(T)
  <2>1. IsFiniteSet(V)
    BY FS_Interval
  <2>2. \A c \in T : key[c] \in V
    BY <1>13
  <2> HIDE DEF T, V, f, key
  <2> QED
    BY <1>8, <1>15, <2>1, <2>2, SumOfShares
<1>17. Sparkline(now, buckets) = f
  BY <1>1, <1>2, <1>3 DEF Sparkline
<1>18. Drawn(f) = SumFunctionOnSet(f, V)
  <2>1. Drawn(f) = SumFunction([k \in DOMAIN f |-> f[k]])
    BY DEF Drawn, SumOver
  <2>2. [k \in DOMAIN f |-> f[k]] = f /\ DOMAIN f = V
    OBVIOUS
  <2> HIDE DEF f, V
  <2> QED
    BY <2>1, <2>2 DEF SumFunction
<1> HIDE DEF f, T, V, key
<1> QED
  BY <1>2, <1>4, <1>8, <1>16, <1>17, <1>18

LEMMA BarsByValue ==
  ASSUME TypeOK, NEW v \in Views, NEW L, AreRows(L), NEW d \in Nat \ {0},
         NEW groups, groups = TrendGroups(v.now, L, d), NEW trends,
         EnoughColours(groups),
         NEW byValue, byValue = GroupChart(v, trends, groups, d),
         NEW values, values = Ascending(DOMAIN groups), NEW m \in DOMAIN byValue
  PROVE  ShowsValues(byValue[m], groups, values, m)
<1> DEFINE Colour(i) == (i - 1) % PaletteSize
           Writers(i) == {j \in DOMAIN values : /\ Colour(j) = Colour(i)
                                                /\ m \in DOMAIN groups[values[j]]}
<1>1. byValue[m] = [i \in DOMAIN values |->
                      IF Writers(i) = {} THEN 0
                      ELSE groups[values[Max(Writers(i))]][m].journeys]
  BY DEF GroupChart
<1>2. PICK n \in Nat : n = Len(values) /\ DOMAIN values = 1 .. n /\ n <= PaletteSize
  <2>1. DOMAIN groups = ValuesOf(L)
    BY GroupCounts
  <2>2. ValuesOf(L) \in SUBSET Int /\ IsFiniteSet(ValuesOf(L))
    <3>1. \A k \in Nat : k \in Int
      OBVIOUS
    <3> QED
      BY <3>1, ValuesAre
  <2>3. values \in Seq(ValuesOf(L)) /\ Len(values) = Cardinality(ValuesOf(L))
    BY <2>1, <2>2, AscendingLists
  <2>4. DOMAIN values = 1 .. Len(values) /\ Len(values) \in Nat
    BY <2>3
  <2>5. Len(values) <= PaletteSize
    BY <2>1, <2>3 DEF EnoughColours
  <2> QED
    BY <2>4, <2>5
<1>3. PaletteSize \in Nat \ {0}
  BY ChartsAssumption
<1>4. ASSUME NEW i \in DOMAIN values
      PROVE  byValue[m][i] = At(groups[values[i]], m, "journeys")
  <2>1. \A j \in DOMAIN values : Colour(j) = Colour(i) => j = i
    BY <1>2, <1>3, OwnColour
  <2>2. Writers(i) = {j \in {i} : m \in DOMAIN groups[values[j]]}
    BY <2>1
  <2>3. CASE m \in DOMAIN groups[values[i]]
    <3>1. Writers(i) = {i}
      BY <2>2, <2>3
    <3>2. Max({i}) = i
      <4>1. i \in Int
        BY <1>2
      <4> QED
        BY <4>1 DEF Max
    <3> HIDE DEF Writers
    <3>3. byValue[m][i] = IF Writers(i) = {} THEN 0
                          ELSE groups[values[Max(Writers(i))]][m].journeys
      BY <1>1
    <3>4. Writers(i) # {} /\ Max(Writers(i)) = i
      BY <3>1, <3>2
    <3>5. byValue[m][i] = groups[values[i]][m].journeys
      BY ONLY <3>3, <3>4
    <3> QED
      BY <2>3, <3>5 DEF At
  <2>4. CASE m \notin DOMAIN groups[values[i]]
    <3>1. Writers(i) = {}
      BY <2>2, <2>4
    <3> HIDE DEF Writers
    <3>2. byValue[m][i] = 0
      BY <1>1, <3>1
    <3> QED
      BY <2>4, <3>2 DEF At
  <2> QED
    BY <2>3, <2>4
<1> HIDE DEF Writers
<1> QED
  BY <1>1, <1>4 DEF ShowsValues

LEMMA TrendsReportAdds ==
  ASSUME TypeOK, NEW v \in Views, NEW L, L = Included(QuestionOf(v, AnyWorkshop)),
         NEW d, d = BucketFor(v, PeriodOf(v)),
         NEW report, report = TrendsReport(v)
  PROVE  TrendsAdd(v, L, d, report)
<1>1. AreRows(L) /\ d \in Nat \ {0} /\ v.now \in Nat
  BY IncludedAre, PeriodTyped
<1>2. PICK trends : trends = Bucketed(v.now, L, d)
  OBVIOUS
<1>3. PICK groups : groups = TrendGroups(v.now, L, d)
  OBVIOUS
<1>4. PICK chart : chart = OutcomeChart(v, trends, d)
  OBVIOUS
<1>5. PICK byValue : byValue = GroupChart(v, trends, groups, d)
  OBVIOUS
<1>6. /\ report.totals = TotalsOf(trends) /\ report.chart = chart
      /\ report.groups = groups /\ report.byValue = byValue
  BY <1>2, <1>3, <1>4, <1>5 DEF TrendsReport
<1>7. \A n \in Counts : report.totals[n] = Outcomes(v.now, L)[n]
  BY <1>1, <1>2, <1>6, TrendTotals
<1>8. /\ DOMAIN chart = Slots(v, trends, d)
      /\ ShowsBegun(chart, L, d)
      /\ SumOver(chart, Drawn) = BegunBy(L, EndOf(v, PeriodOf(v)), d)
  BY <1>1, <1>2, <1>4, JourneysChart
<1>9. DOMAIN byValue = DOMAIN chart
  BY <1>5, <1>8 DEF GroupChart
<1>10. ASSUME EnoughColours(groups), NEW m \in DOMAIN byValue
       PROVE  Drawn(byValue[m]) = Drawn(chart[m])
  <2>1. PICK values : values = Ascending(DOMAIN groups)
    OBVIOUS
  <2>2. ShowsValues(byValue[m], groups, values, m)
    BY <1>1, <1>3, <1>5, <1>10, <2>1, BarsByValue
  <2>3. Drawn(byValue[m]) = Cardinality(BegunIn(L, d, m))
    BY <1>1, <1>3, <2>1, <2>2, ValueBar
  <2> QED
    BY <1>8, <1>9, <1>10, <2>3 DEF ShowsBegun
<1> QED
  BY <1>6, <1>7, <1>8, <1>9, <1>10 DEF TrendsAdd

(* Whatever sessions have come when a statement reads the store, and       *)
(* whatever period, buckets and moment a view asks for, with or without    *)
(* the sessions that miss events: each journey of the answer is on the     *)
(* card once, the chart and the chart by value show those begun by now and *)
(* no other; the workshops listed share the journeys of what was loaded    *)
(* for the list out between them where none was resumed in another         *)
(* workshop; and a sparkline shows the journeys of its own load.  Nothing  *)
(* is claimed of two answers of one page, which may have read two stores   *)
(* (views.py:245-476, queries.py:1505-1594, api/dashboard.py:212-231).     *)
THEOREM TrendsAlwaysAddUp == Spec => []TrendsAddUp
<1>1. ASSUME TypeOK, NEW v \in Views
      PROVE  TrendsAdd(v, Included(QuestionOf(v, AnyWorkshop)),
                       BucketFor(v, PeriodOf(v)), TrendsReport(v))
  BY <1>1, TrendsReportAdds
<1>2. ASSUME TypeOK, NEW v \in Views, NEW q, q = QuestionOf(v, AnyWorkshop)
      PROVE  ListingAdds(v.now, Included(q), ListWorkshops(q))
  BY <1>2, WorkshopsSum DEF ListingAdds
<1>3. ASSUME TypeOK, NEW v \in Views, NEW w
      PROVE  SparklineAdds(v, Included(RecentQuestion(v, w)), SparklineReport(v, w))
  <2>1. PICK M : M = Included(RecentQuestion(v, w))
    OBVIOUS
  <2>2. Drawn(Sparkline(v.now, Bucketed(v.now, M, Day))) = BegunBy(M, v.now, Day)
    <3>1. PICK now \in Nat : now = v.now
      BY <1>3, ChartsAssumption
    <3>2. PICK buckets : buckets = Bucketed(now, M, Day)
      OBVIOUS
    <3>3. Drawn(Sparkline(now, buckets)) = BegunBy(M, now, Day)
      BY <1>3, <2>1, <3>1, <3>2, SparklineDrawn
    <3> QED
      BY <3>1, <3>2, <3>3
  <2>3. SparklineReport(v, w) = Sparkline(v.now, Bucketed(v.now, M, Day))
    BY <2>1 DEF SparklineReport
  <2> QED
    BY <2>1, <2>2, <2>3 DEF SparklineAdds
<1>4. TypeOK => TrendsAddUp
  BY <1>1, <1>2, <1>3 DEF TrendsAddUp
<1> QED
  BY <1>4, TypeCorrect, PTL

=============================================================================
