---------------------------- MODULE Journeys_proofs ----------------------------
(***************************************************************************)
(* For any sessions, however they resumed each other, and any order of     *)
(* their events: what the journeys of an answer are.                       *)
(*                                                                         *)
(* A chain grows by the last session to resume its end.  The guard of the  *)
(* loop never acts: what would close a circle was resumed from two places, *)
(* or is a head that resumed something.  So a chain grows every round      *)
(* until nothing goes on, which is before the rounds run out, since no     *)
(* session is in it twice; and two chains that share a session share what  *)
(* it resumed, and so on back to one head.  Only the links between rows    *)
(* (LinkedBack) need an invariant; the rest is said of each state.         *)
(*                                                                         *)
(* A part of a list whose sessions keep their heads and successors has the *)
(* journeys that begin in it (SameJourneys); whole journeys gathered keep  *)
(* them, so that groups add up.                                            *)
(*                                                                         *)
(* The loops are recursive functions of the round.  The least number of a  *)
(* set stands for induction (Induction, Rounds).                           *)
(***************************************************************************)
EXTENDS Journeys, Lists_proofs

-----------------------------------------------------------------------------
(* Types.                                                                  *)

(* Only a session whose row knows it resumed this one made it resumed.     *)
LinkedBack ==
  \A s \in Sessions :
    LET by == rows[s].resumedBy
    IN  rows[s] # NoRow /\ by # NoSession =>
          /\ by # s /\ resumed[by] = s
          /\ rows[by] # NoRow /\ 1 \in rows[by].seqs

LEMMA PartsProjected ==
  ASSUME TypeOK, NEW s \in Sessions, NEW N \in SUBSET (1 .. Length[s]), N # {}
  PROVE  /\ Projected(s, N) \in Row
         /\ Projected(s, N).seqs \subseteq 1 .. Length[s]
<1>1. N \subseteq Nat
  BY JourneysAssumption
<1>2. CASE rows[s] = NoRow
  BY <1>1, <1>2 DEF Projected, Row
<1>3. CASE rows[s] # NoRow
  <2>1. rows[s] \in Row /\ rows[s].seqs \subseteq 1 .. Length[s]
    BY <1>3 DEF TypeOK
  <2> QED
    BY <1>1, <1>3, <2>1 DEF Projected, Row
<1> QED
  BY <1>2, <1>3

LEMMA RowLinked ==
  ASSUME NEW r \in Row, NEW s \in Sessions
  PROVE  [r EXCEPT !.resumedBy = s] = [seqs |-> r.seqs, resumedBy |-> s]
BY DEF Row

LEMMA ProjectTyped ==
  ASSUME TypeOK, NEW s \in Sessions, NEW N \in SUBSET (1 .. Length[s]), Project(s, N)
  PROVE  TypeOK'
<1> DEFINE seqs    == Projected(s, N).seqs
           from    == IF 1 \in seqs THEN resumed[s] ELSE NoSession
           written == [rows EXCEPT ![s] = Projected(s, N)]
<1>1. Projected(s, N) \in Row /\ seqs \subseteq 1 .. Length[s]
  BY PartsProjected DEF Project
<1>2. /\ written \in [Sessions -> Row \cup {NoRow}]
      /\ \A t \in Sessions : written[t] # NoRow => written[t].seqs \subseteq 1 .. Length[t]
  BY <1>1 DEF TypeOK
<1>3. resumed \in [Sessions -> Sessions \cup {NoSession}]
  BY JourneysAssumption DEF TypeOK
<1>4. CASE from \notin {NoSession, s} /\ rows[from] # NoRow
  <2>1. from \in Sessions /\ written[from] \in Row
    BY <1>2, <1>3, <1>4
  <2>2. rows' = [written EXCEPT ![from].resumedBy = s]
    BY <1>4 DEF Project
  <2> HIDE DEF written, from
  <2>3. rows' = [written EXCEPT ![from] = [seqs |-> written[from].seqs, resumedBy |-> s]]
    BY <2>1, <2>2, RowLinked
  <2>4. /\ \A t \in Sessions \ {from} : rows'[t] = written[t]
        /\ rows'[from] \in Row /\ rows'[from].seqs = written[from].seqs
        /\ DOMAIN rows' = Sessions /\ rows' \in [Sessions -> Row \cup {NoRow}]
    BY <1>2, <2>1, <2>3 DEF Row
  <2>5. \A t \in Sessions : rows'[t] # NoRow => rows'[t].seqs \subseteq 1 .. Length[t]
    BY <1>2, <2>1, <2>4, JourneysAssumption
  <2> QED
    BY <2>4, <2>5 DEF TypeOK, Project
<1>5. CASE ~ (from \notin {NoSession, s} /\ rows[from] # NoRow)
  <2>1. rows' = written
    BY <1>5 DEF Project
  <2> QED
    BY <1>2, <2>1 DEF TypeOK, Project
<1> QED
  BY <1>4, <1>5

LEMMA ProjectLinks ==
  ASSUME TypeOK, LinkedBack, NEW s \in Sessions, NEW N \in SUBSET (1 .. Length[s]),
         Project(s, N)
  PROVE  LinkedBack'
<1> DEFINE seqs    == Projected(s, N).seqs
           from    == IF 1 \in seqs THEN resumed[s] ELSE NoSession
           written == [rows EXCEPT ![s] = Projected(s, N)]
<1>1. Projected(s, N) \in Row
  BY PartsProjected DEF Project
<1>2. NoRow \notin Row /\ NoSession \notin Sessions
  BY JourneysAssumption
<1>3. /\ rows[s] = NoRow => Projected(s, N).resumedBy = NoSession
      /\ rows[s] # NoRow => /\ Projected(s, N).resumedBy = rows[s].resumedBy
                            /\ rows[s].seqs \subseteq seqs
  BY DEF Projected, TypeOK, Row
<1>4. /\ written \in [Sessions -> Row \cup {NoRow}]
      /\ written[s] = Projected(s, N)
      /\ \A t \in Sessions \ {s} : written[t] = rows[t]
  BY <1>1 DEF TypeOK
<1>5. resumed' = resumed /\ rows \in [Sessions -> Row \cup {NoRow}]
  BY DEF Project, TypeOK
<1>6. resumed \in [Sessions -> Sessions \cup {NoSession}]
  BY JourneysAssumption DEF TypeOK
<1>7. \A t \in Sessions : written[t] # NoRow /\ written[t].resumedBy # NoSession =>
        /\ rows[t] # NoRow /\ rows[t].resumedBy = written[t].resumedBy
        /\ written[t].resumedBy \in Sessions
  BY <1>3, <1>4, <1>5 DEF Row
<1>8. \A t \in Sessions : rows[t] # NoRow => /\ written[t] # NoRow
                                             /\ rows[t].seqs \subseteq written[t].seqs
  BY <1>1, <1>2, <1>3, <1>4
<1>9. \A t \in Sessions :
        LET by == written[t].resumedBy
        IN  written[t] # NoRow /\ by # NoSession =>
              /\ by # t /\ resumed[by] = t
              /\ written[by] # NoRow /\ 1 \in written[by].seqs
  <2> SUFFICES ASSUME NEW t \in Sessions, written[t] # NoRow,
                      written[t].resumedBy # NoSession
               PROVE  LET by == written[t].resumedBy
                      IN  /\ by # t /\ resumed[by] = t
                          /\ written[by] # NoRow /\ 1 \in written[by].seqs
    OBVIOUS
  <2> HIDE DEF written
  <2> QED
    BY <1>7, <1>8 DEF LinkedBack
<1>10. CASE from \notin {NoSession, s} /\ rows[from] # NoRow
  <2>1. /\ from \in Sessions /\ from # s /\ written[from] \in Row
        /\ resumed[s] = from /\ 1 \in written[s].seqs /\ written[s] # NoRow
    BY <1>1, <1>2, <1>4, <1>5, <1>6, <1>10
  <2>2. rows' = [written EXCEPT ![from].resumedBy = s]
    BY <1>10 DEF Project
  <2> HIDE DEF written, from
  <2>3. rows' = [written EXCEPT ![from] = [seqs |-> written[from].seqs, resumedBy |-> s]]
    BY <2>1, <2>2, RowLinked
  <2>4. /\ \A t \in Sessions \ {from} : rows'[t] = written[t]
        /\ rows'[from].seqs = written[from].seqs /\ rows'[from].resumedBy = s
        /\ rows'[from] # NoRow
    BY <1>2, <1>4, <2>1, <2>3 DEF Row
  <2> SUFFICES ASSUME NEW t \in Sessions, rows'[t] # NoRow,
                      rows'[t].resumedBy # NoSession
               PROVE  LET by == rows'[t].resumedBy
                      IN  /\ by # t /\ resumed[by] = t
                          /\ rows'[by] # NoRow /\ 1 \in rows'[by].seqs
    BY <1>5 DEF LinkedBack
  <2>5. CASE t = from
    BY <2>1, <2>4, <2>5
  <2>6. CASE t # from
    <3>1. rows'[t] = written[t]
      BY <2>4, <2>6
    <3>2. LET by == written[t].resumedBy
          IN  /\ by \in Sessions /\ by # t /\ resumed[by] = t
              /\ written[by] # NoRow /\ 1 \in written[by].seqs
      BY <1>7, <1>9, <3>1
    <3> QED
      BY <2>4, <3>1, <3>2
  <2> QED
    BY <2>5, <2>6
<1>11. CASE ~ (from \notin {NoSession, s} /\ rows[from] # NoRow)
  <2>1. rows' = written
    BY <1>11 DEF Project
  <2> QED
    BY <1>5, <1>9, <2>1 DEF LinkedBack
<1> QED
  BY <1>10, <1>11

LEMMA StateAlways == Spec => [](TypeOK /\ LinkedBack)
<1>1. Init => TypeOK /\ LinkedBack
  BY DEF Init, TypeOK, LinkedBack
<1>2. TypeOK /\ LinkedBack /\ [Next]_vars => (TypeOK /\ LinkedBack)'
  <2> SUFFICES ASSUME TypeOK, LinkedBack, [Next]_vars
               PROVE  TypeOK' /\ LinkedBack'
    OBVIOUS
  <2>1. CASE Next
    BY <2>1, ProjectTyped, ProjectLinks DEF Next
  <2>2. CASE UNCHANGED vars
    BY <2>2 DEF vars, TypeOK, LinkedBack
  <2> QED
    BY <2>1, <2>2
<1> QED
  BY <1>1, <1>2, PTL DEF Spec

(* Rows, with the parts of a session that have come, are well typed.       *)
THEOREM TypeCorrect == Spec => []TypeOK
BY StateAlways, PTL

-----------------------------------------------------------------------------
(* The sessions of an answer, oldest first.                                *)

LEMMA Started ==
  ASSUME TypeOK, NEW s \in Present
  PROVE  StartedAt(s) \in Int
<1>1. rows[s].seqs \in SUBSET Nat /\ rows[s].seqs # {} /\ Begin[s] \in Nat
  BY JourneysAssumption DEF TypeOK, Present, Row
<1>2. PICK m \in rows[s].seqs : \A k \in rows[s].seqs : m <= k
  BY <1>1, LeastNumber
<1>3. Min(rows[s].seqs) \in Nat
  BY <1>1, <1>2 DEF Min
<1> QED
  BY <1>1, <1>3 DEF StartedAt

LEMMA SortedLists ==
  ASSUME TypeOK, NEW S \in SUBSET Present, NEW L, L = Sorted(S)
  PROVE  /\ L \in Seq(S) /\ Range(L) = S /\ IsInjective(L)
         /\ \A i, j \in DOMAIN L : i < j <=> Before(L[i], L[j])
<1> DEFINE before == [s \in S |-> {t \in S : Before(t, s)}]
<1>1. IsFiniteSet(S)
  BY JourneysAssumption, FS_Subset DEF Present
<1>2. \A s \in S : StartedAt(s) \in Int /\ Rank[s] \in Nat
  BY Started, JourneysAssumption DEF Present
<1>3. \A s, t \in S : Rank[s] = Rank[t] => s = t
  BY JourneysAssumption DEF Present
<1>4. Strict(before, S)
  <2>1. before \in [S -> SUBSET S]
    OBVIOUS
  <2>2. \A x \in S : x \notin before[x]
    BY <1>2 DEF Before
  <2>3. \A x, y \in S : x # y => x \in before[y] \/ y \in before[x]
    BY <1>2, <1>3 DEF Before
  <2>4. \A x \in S : \A y \in before[x] : before[y] \subseteq before[x]
    BY <1>2 DEF Before
  <2> QED
    BY <2>1, <2>2, <2>3, <2>4 DEF Strict
<1> DEFINE q == Ranked(before)
<1>5. /\ q \in Seq(S) /\ Range(q) = S /\ IsInjective(q)
      /\ \A i, j \in DOMAIN q : i < j <=> q[i] \in before[q[j]]
  <2> HIDE DEF before
  <2> QED
    BY <1>1, <1>4, RankedLists
<1>6. L = q
  <2>1. L = q \o <<>>
    BY DEF Sorted, Listing
  <2> HIDE DEF q
  <2> QED
    BY <1>5, <2>1
<1>7. \A i \in DOMAIN q : q[i] \in S
  BY <1>5
<1> HIDE DEF q
<1> QED
  BY <1>5, <1>6, <1>7

(* A list of sessions, each once, and such a list in the order of rows.    *)
Distinct(L) == L \in Seq(Sessions) /\ IsInjective(L)

OldestFirst(L) ==
  /\ Distinct(L) /\ Range(L) \subseteq Present
  /\ \A i, j \in DOMAIN L : i < j <=> Before(L[i], L[j])

LEMMA IncludedOldestFirst ==
  ASSUME TypeOK, NEW q
  PROVE  OldestFirst(Included(q)) /\ OldestFirst(Loaded(q))
<1>1. \A S \in SUBSET Present : OldestFirst(Sorted(S))
  <2> SUFFICES ASSUME NEW S \in SUBSET Present
               PROVE  OldestFirst(Sorted(S))
    OBVIOUS
  <2> DEFINE L == Sorted(S)
  <2>1. /\ L \in Seq(S) /\ Range(L) = S /\ IsInjective(L)
        /\ \A i, j \in DOMAIN L : i < j <=> Before(L[i], L[j])
    BY SortedLists
  <2>2. S \subseteq Sessions
    BY DEF Present
  <2> HIDE DEF L
  <2>3. L \in Seq(Sessions)
    BY <2>1, <2>2
  <2> QED
    BY <2>1, <2>3 DEF OldestFirst, Distinct, L
<1> QED
  BY <1>1 DEF Included, Loaded

-----------------------------------------------------------------------------
(* Heads and successors.                                                   *)

IsHead(L, s) == ResumedFrom(s) \notin Range(L) \/ ResumedFrom(s) = s

LEMMA PickedLists ==
  ASSUME NEW S, NEW L \in Seq(S), IsInjective(L), NEW P \in SUBSET (DOMAIN L),
         NEW q, q = Picked(L, P)
  PROVE  /\ q \in Seq(S) /\ IsInjective(q) /\ Range(q) = {L[i] : i \in P}
<1> DEFINE order == Ascending(P)
<1>1. P \in SUBSET Int /\ IsFiniteSet(P)
  <2>1. IsFiniteSet(1 .. Len(L)) /\ DOMAIN L = 1 .. Len(L)
    BY FS_Interval
  <2> QED
    BY <2>1, FS_Subset
<1>2. /\ order \in Seq(P) /\ Range(order) = P /\ IsInjective(order)
  BY <1>1, AscendingLists
<1>3. q = [n \in DOMAIN order |-> L[order[n]]]
  BY DEF Picked, AtPlaces
<1> HIDE DEF order
<1>4. DOMAIN q = 1 .. Len(order) /\ Len(order) \in Nat /\ DOMAIN order = 1 .. Len(order)
  BY <1>2, <1>3
<1>5. \A n \in DOMAIN order : order[n] \in P /\ order[n] \in DOMAIN L /\ L[order[n]] \in S
  BY <1>2
<1>6. q \in Seq(S)
  BY <1>3, <1>4, <1>5
<1>7. IsInjective(q)
  BY <1>2, <1>3, <1>5 DEF IsInjective
<1>8. Range(q) = {L[i] : i \in P}
  BY <1>2, <1>3 DEF Range
<1> QED
  BY <1>6, <1>7, <1>8

LEMMA HeadsListed ==
  ASSUME NEW L, Distinct(L), NEW H, H = Heads(L)
  PROVE  /\ H \in Seq(Sessions) /\ IsInjective(H)
         /\ Range(H) = {s \in Range(L) : IsHead(L, s)}
<1> DEFINE P == {i \in DOMAIN L : \/ ResumedFrom(L[i]) \notin Range(L)
                                  \/ ResumedFrom(L[i]) = L[i]}
<1>1. /\ H \in Seq(Sessions) /\ IsInjective(H) /\ Range(H) = {L[i] : i \in P}
  BY PickedLists DEF Heads, Distinct
<1>2. {L[i] : i \in P} = {s \in Range(L) : IsHead(L, s)}
  BY DEF Range, IsHead
<1> QED
  BY <1>1, <1>2

LEMMA GreatestNumber ==
  ASSUME NEW b \in Nat, NEW N \in SUBSET (1 .. b), N # {}
  PROVE  Max(N) \in N /\ \A k \in N : k <= Max(N)
<1> DEFINE M == {b - k : k \in N}
<1>1. M \in SUBSET Nat /\ M # {}
  <2>1. \A k \in N : b - k \in Nat
    OBVIOUS
  <2> QED
    BY <2>1
<1>2. PICK m \in M : \A k \in M : m <= k
  BY <1>1, LeastNumber
<1>3. PICK n \in N : m = b - n
  BY <1>2
<1>4. \A k \in N : k <= n
  BY <1>2, <1>3
<1> QED
  BY <1>4 DEF Max

(* The last to resume a session follows it.                                *)
LEMMA Succeeds ==
  ASSUME NEW L, Distinct(L), NEW s, Resumers(L, s) # {}
  PROVE  Successor(L, s) \in Range(L) /\ Resumes(Successor(L, s), s)
<1> DEFINE N == Resumers(L, s)
<1>1. Len(L) \in Nat /\ DOMAIN L = 1 .. Len(L) /\ N \in SUBSET (1 .. Len(L))
  BY DEF Distinct, Resumers
<1>2. Max(N) \in N /\ \A k \in N : k <= Max(N)
  BY <1>1, GreatestNumber
<1>3. Successor(L, s) = L[Max(N)]
  BY DEF Successor
<1>4. Max(N) \in DOMAIN L /\ Resumes(L[Max(N)], s)
  BY <1>2 DEF Resumers
<1> QED
  BY <1>3, <1>4 DEF Range

LEMMA SucceedsLast ==
  ASSUME NEW L, OldestFirst(L), NEW s, NEW u \in Range(L), Resumes(u, s)
  PROVE  ~ Before(Successor(L, s), u)
<1> DEFINE N == Resumers(L, s)
<1>1. PICK k \in DOMAIN L : u = L[k]
  BY DEF Range
<1>2. /\ Len(L) \in Nat /\ DOMAIN L = 1 .. Len(L) /\ N \in SUBSET (1 .. Len(L))
      /\ k \in N
  BY <1>1 DEF OldestFirst, Distinct, Resumers
<1>3. Max(N) \in N /\ \A j \in N : j <= Max(N)
  BY <1>2, GreatestNumber
<1>4. Successor(L, s) = L[Max(N)]
  BY DEF Successor
<1>5. ~ (Max(N) < k)
  BY <1>2, <1>3
<1> QED
  BY <1>1, <1>2, <1>3, <1>4, <1>5 DEF OldestFirst

-----------------------------------------------------------------------------
(* Loops.  What a recursive function of the number of rounds is, and how   *)
(* what every round keeps is kept by all.                                  *)

LEMMA Induction ==
  ASSUME NEW S, 0 \in S, \A n \in Nat : n \in S => n + 1 \in S
  PROVE  \A n \in Nat : n \in S
<1> DEFINE N == {n \in Nat : n \notin S}
<1>1. SUFFICES ASSUME N # {}
               PROVE  FALSE
  OBVIOUS
<1>2. PICK m \in N : \A k \in N : m <= k
  BY <1>1, LeastNumber
<1>3. m # 0
  BY <1>2
<1>4. m - 1 \in Nat
  BY <1>2, <1>3
<1>5. m - 1 \in S
  BY <1>2, <1>4
<1> QED
  BY <1>2, <1>4, <1>5

AreRounds(f, n, X, step, x) ==
  /\ f \in [1 .. n -> X]
  /\ \A k \in 1 .. n : f[k] = IF k = 1 THEN x ELSE step[f[k - 1]]

LEMMA Rounds ==
  ASSUME NEW X, NEW step \in [X -> X], NEW x \in X, NEW n \in Nat
  PROVE  \E f : AreRounds(f, n, X, step, x)
<1> DEFINE Good(f, m) == AreRounds(f, m, X, step, x)
           S == {m \in Nat : \E f : Good(f, m)}
<1>1. 0 \in S
  <2>1. Good([k \in 1 .. 0 |-> x], 0)
    BY DEF AreRounds
  <2> QED
    BY <2>1
<1>2. \A m \in Nat : m \in S => m + 1 \in S
  <2> SUFFICES ASSUME NEW m \in Nat, NEW f, Good(f, m)
               PROVE  \E g : Good(g, m + 1)
    OBVIOUS
  <2> DEFINE g == [k \in 1 .. m + 1 |-> IF k \in 1 .. m THEN f[k]
                                        ELSE IF k = 1 THEN x ELSE step[f[k - 1]]]
  <2>1. \A k \in 1 .. m + 1 : g[k] \in X
    <3> SUFFICES ASSUME NEW k \in 1 .. m + 1
                 PROVE  g[k] \in X
      OBVIOUS
    <3>1. CASE k \in 1 .. m
      BY <3>1 DEF AreRounds
    <3>2. CASE k \notin 1 .. m /\ k = 1
      BY <3>2
    <3>3. CASE k \notin 1 .. m /\ k # 1
      <4>1. k - 1 \in 1 .. m
        BY <3>3
      <4> QED
        BY <3>3, <4>1 DEF AreRounds
    <3> QED
      BY <3>1, <3>2, <3>3
  <2>2. \A k \in 1 .. m + 1 : g[k] = IF k = 1 THEN x ELSE step[g[k - 1]]
    <3> SUFFICES ASSUME NEW k \in 1 .. m + 1
                 PROVE  g[k] = IF k = 1 THEN x ELSE step[g[k - 1]]
      OBVIOUS
    <3>1. k # 1 => k - 1 \in 1 .. m /\ k - 1 \in 1 .. m + 1
      OBVIOUS
    <3>2. k # 1 => g[k - 1] = f[k - 1]
      BY <3>1
    <3>3. g[k] = IF k = 1 THEN x ELSE step[f[k - 1]]
      BY DEF AreRounds
    <3> QED
      BY <3>2, <3>3
  <2>3. Good(g, m + 1)
    <3> HIDE DEF g
    <3>1. g \in [1 .. m + 1 -> X]
      BY <2>1 DEF g
    <3> QED
      BY <2>2, <3>1 DEF AreRounds
  <2> QED
    BY <2>3
<1>3. n \in S
  <2> HIDE DEF S
  <2> QED
    BY <1>1, <1>2, Induction
<1>4. PICK f : Good(f, n)
  BY <1>3
<1> QED
  BY <1>4

-----------------------------------------------------------------------------
(* Lists one after another.                                                *)

Joining(f, qs) ==
  /\ f[1] = qs[1]
  /\ \A i \in 2 .. Len(qs) : f[i] = f[i - 1] \o qs[i]

LEMMA FlattenRounds ==
  ASSUME NEW X, NEW qs \in Seq(Seq(X)), qs # <<>>
  PROVE  \E f : FlattenSeq(qs) = f[Len(qs)] /\ Joining(f, qs)
<1> DEFINE State == Nat \X Seq(X)
           step == [p \in State |->
                      <<p[1] + 1, IF p[1] + 1 \in DOMAIN qs THEN p[2] \o qs[p[1] + 1]
                                  ELSE p[2]>>]
           Rule(f) == [i \in 1 .. Len(qs) |-> IF i = 1 THEN qs[i] ELSE f[i - 1] \o qs[i]]
<1>1. Len(qs) \in Nat \ {0} /\ DOMAIN qs = 1 .. Len(qs) /\ \A i \in DOMAIN qs : qs[i] \in Seq(X)
  OBVIOUS
<1>2. step \in [State -> State]
  <2> SUFFICES ASSUME NEW p \in State
               PROVE  step[p] \in State
    OBVIOUS
  <2>1. p[1] \in Nat /\ p[2] \in Seq(X)
    OBVIOUS
  <2>2. (IF p[1] + 1 \in DOMAIN qs THEN p[2] \o qs[p[1] + 1] ELSE p[2]) \in Seq(X)
    BY <1>1, <2>1
  <2>3. PICK s : s = IF p[1] + 1 \in DOMAIN qs THEN p[2] \o qs[p[1] + 1] ELSE p[2]
    OBVIOUS
  <2>4. step[p] = <<p[1] + 1, s>>
    BY <2>3
  <2>5. s \in Seq(X)
    BY <2>2, <2>3
  <2> HIDE DEF step
  <2> QED
    BY <2>1, <2>4, <2>5
<1>20. \A p \in State :
         /\ p[1] \in Nat /\ p[2] \in Seq(X) /\ step[p][1] = p[1] + 1
         /\ p[1] + 1 \in DOMAIN qs => step[p][2] = p[2] \o qs[p[1] + 1]
  OBVIOUS
<1>3. PICK g : AreRounds(g, Len(qs), State, step, <<1, qs[1]>>)
  <2>1. <<1, qs[1]>> \in State /\ Len(qs) \in Nat
    BY <1>1
  <2> HIDE DEF State, step
  <2> QED
    BY <1>2, <2>1, Rounds
<1>4. \A i \in 1 .. Len(qs) : g[i] = IF i = 1 THEN <<1, qs[1]>> ELSE step[g[i - 1]]
  <2> HIDE DEF step
  <2> QED
    BY <1>3 DEF AreRounds
<1>5. \A i \in 1 .. Len(qs) : g[i] \in State
  <2> HIDE DEF step, State
  <2> QED
    BY <1>3 DEF AreRounds
<1> HIDE DEF step, State
<1>21. g[1] = <<1, qs[1]>>
  BY <1>1, <1>4
<1>22. g[1][1] = 1 /\ g[1][2] = qs[1]
  BY <1>21
<1> DEFINE S == {n \in Nat : n + 1 \in 1 .. Len(qs) => g[n + 1][1] = n + 1}
<1>6. 0 \in S
  BY <1>22
<1>7. \A n \in Nat : n \in S => n + 1 \in S
  <2> SUFFICES ASSUME NEW n \in Nat, n \in S, n + 2 \in 1 .. Len(qs)
               PROVE  g[n + 2][1] = n + 2
    <3>1. \A n \in Nat : (n + 1) + 1 = n + 2
      OBVIOUS
    <3> QED
      BY <3>1
  <2>1. n + 1 \in 1 .. Len(qs) /\ n + 2 # 1 /\ (n + 2) - 1 = n + 1
    BY <1>1
  <2>2. g[n + 1][1] = n + 1 /\ g[n + 2] = step[g[n + 1]]
    BY <1>4, <2>1
  <2>3. g[n + 1] \in State
    BY <1>5, <2>1
  <2> QED
    <3>1. step[g[n + 1]][1] = g[n + 1][1] + 1
      BY <1>20, <2>3
    <3>2. (n + 1) + 1 = n + 2
      OBVIOUS
    <3> QED
      BY <2>2, <3>1, <3>2
<1>8. \A n \in Nat : n \in S
  <2> HIDE DEF S
  <2> QED
    BY <1>6, <1>7, Induction
<1>9. \A i \in 2 .. Len(qs) : g[i][2] = g[i - 1][2] \o qs[i]
  <2> SUFFICES ASSUME NEW i \in 2 .. Len(qs)
               PROVE  g[i][2] = g[i - 1][2] \o qs[i]
    OBVIOUS
  <2>1. i - 1 \in 1 .. Len(qs) /\ i \in 1 .. Len(qs) /\ i # 1 /\ (i - 2) + 1 = i - 1 /\ i - 2 \in Nat
        /\ (i - 1) + 1 = i
    BY <1>1
  <2>2. g[i - 1][1] = i - 1
    BY <1>8, <2>1
  <2>3. g[i] = step[g[i - 1]] /\ g[i - 1] \in State
    BY <1>4, <1>5, <2>1
  <2> QED
    BY <1>1, <1>20, <2>1, <2>2, <2>3
<1>10. [i \in 1 .. Len(qs) |-> g[i][2]] = Rule([i \in 1 .. Len(qs) |-> g[i][2]])
  <2> DEFINE f == [i \in 1 .. Len(qs) |-> g[i][2]]
  <2>1. \A i \in 1 .. Len(qs) : f[i] = IF i = 1 THEN qs[i] ELSE f[i - 1] \o qs[i]
    <3> SUFFICES ASSUME NEW i \in 1 .. Len(qs)
                 PROVE  f[i] = IF i = 1 THEN qs[i] ELSE f[i - 1] \o qs[i]
      OBVIOUS
    <3>1. CASE i = 1
      BY <1>22, <3>1
    <3>2. CASE i # 1
      <4>1. i \in 2 .. Len(qs) /\ i - 1 \in 1 .. Len(qs)
        BY <1>1, <3>2
      <4> QED
        BY <1>9, <3>2, <4>1
    <3> QED
      BY <3>1, <3>2
  <2> HIDE DEF step, State, S
  <2> QED
    BY <2>1
<1>11. PICK f : FlattenSeq(qs) = f[Len(qs)] /\ f = Rule(f)
  <2> DEFINE f == CHOOSE u : u = Rule(u)
  <2>1. FlattenSeq(qs) = f[Len(qs)]
    BY <1>1 DEF FlattenSeq
  <2>2. f = Rule(f)
    <3> HIDE DEF Rule
    <3> QED
      BY <1>10
  <2> HIDE DEF Rule, f
  <2> QED
    BY <2>1, <2>2
<1>12. Joining(f, qs)
  <2>1. f[1] = qs[1]
    BY <1>1, <1>11
  <2>2. \A i \in 2 .. Len(qs) : f[i] = f[i - 1] \o qs[i]
    <3> SUFFICES ASSUME NEW i \in 2 .. Len(qs)
                 PROVE  f[i] = f[i - 1] \o qs[i]
      OBVIOUS
    <3>1. i \in 1 .. Len(qs) /\ i # 1
      BY <1>1
    <3> QED
      BY <1>11, <3>1
  <2> QED
    BY <2>1, <2>2 DEF Joining
<1> QED
  BY <1>11, <1>12

LEMMA ConcatLists ==
  ASSUME NEW X, NEW q \in Seq(X), NEW r \in Seq(X)
  PROVE  /\ q \o r \in Seq(X) /\ Range(q \o r) = Range(q) \cup Range(r)
         /\ IsInjective(q) /\ IsInjective(r) /\ Range(q) \cap Range(r) = {}
              => IsInjective(q \o r)
<1>1. /\ DOMAIN q = 1 .. Len(q) /\ Len(q) \in Nat /\ DOMAIN r = 1 .. Len(r) /\ Len(r) \in Nat
      /\ q \o r \in Seq(X) /\ DOMAIN (q \o r) = 1 .. Len(q) + Len(r)
      /\ \A i \in 1 .. Len(q) : (q \o r)[i] = q[i]
      /\ \A i \in 1 .. Len(q) + Len(r) : i \notin 1 .. Len(q) =>
           (q \o r)[i] = r[i - Len(q)] /\ i - Len(q) \in 1 .. Len(r)
  OBVIOUS
<1>2. PICK qr : qr = q \o r
  OBVIOUS
<1>3. \A i \in 1 .. Len(r) : i + Len(q) \in 1 .. Len(q) + Len(r)
                             /\ i + Len(q) \notin 1 .. Len(q) /\ (i + Len(q)) - Len(q) = i
  BY <1>1
<1>4. Range(qr) \subseteq Range(q) \cup Range(r)
  BY <1>1, <1>2 DEF Range
<1>5. Range(q) \cup Range(r) \subseteq Range(qr)
  <2>1. \A i \in 1 .. Len(q) : i \in 1 .. Len(q) + Len(r)
    BY <1>1
  <2>2. Range(q) \subseteq Range(qr)
    BY <1>1, <1>2, <2>1 DEF Range
  <2>3. \A i \in 1 .. Len(r) : r[i] = qr[i + Len(q)]
    BY <1>1, <1>2, <1>3
  <2>4. Range(r) \subseteq Range(qr)
    BY <1>1, <1>2, <1>3, <2>3 DEF Range
  <2> QED
    BY <2>2, <2>4
<1>6. ASSUME IsInjective(q), IsInjective(r), Range(q) \cap Range(r) = {},
             NEW i \in DOMAIN qr, NEW j \in DOMAIN qr, qr[i] = qr[j]
      PROVE  i = j
  <2>1. CASE i \in 1 .. Len(q) /\ j \in 1 .. Len(q)
    BY <1>1, <1>2, <1>6, <2>1 DEF IsInjective
  <2>2. CASE i \notin 1 .. Len(q) /\ j \notin 1 .. Len(q)
    <3>1. /\ i - Len(q) \in DOMAIN r /\ j - Len(q) \in DOMAIN r
          /\ r[i - Len(q)] = r[j - Len(q)]
      BY <1>1, <1>2, <1>6, <2>2
    <3>2. i - Len(q) = j - Len(q)
      BY <1>6, <3>1 DEF IsInjective
    <3> QED
      BY <1>1, <1>2, <3>2
  <2>3. \A x \in 1 .. Len(q) : qr[x] \in Range(q)
    BY <1>1, <1>2 DEF Range
  <2>4. \A x \in DOMAIN qr : x \notin 1 .. Len(q) => qr[x] \in Range(r)
    BY <1>1, <1>2 DEF Range
  <2> QED
    BY <1>6, <2>1, <2>2, <2>3, <2>4
<1> QED
  BY <1>1, <1>2, <1>4, <1>5, <1>6 DEF IsInjective

LEMMA FlattenLists ==
  ASSUME NEW X, NEW qs \in Seq(Seq(X)), NEW q, q = FlattenSeq(qs)
  PROVE  /\ q \in Seq(X) /\ Range(q) = UNION {Range(qs[n]) : n \in DOMAIN qs}
         /\ /\ \A n \in DOMAIN qs : IsInjective(qs[n])
            /\ \A m, n \in DOMAIN qs : m # n => Range(qs[m]) \cap Range(qs[n]) = {}
            => IsInjective(q)
<1>1. CASE qs = <<>>
  <2>1. q = <<>>
    BY <1>1 DEF FlattenSeq
  <2>2. DOMAIN qs = {} /\ DOMAIN q = {} /\ q \in Seq(X)
    <3>1. <<>> \in Seq(X) /\ Len(<<>>) = 0 /\ DOMAIN <<>> = {}
      OBVIOUS
    <3> QED
      BY <1>1, <2>1, <3>1
  <2>3. Range(q) = {} /\ IsInjective(q)
    BY <2>2 DEF Range, IsInjective
  <2>4. UNION {Range(qs[n]) : n \in DOMAIN qs} = {}
    BY <2>2
  <2> QED
    BY <2>2, <2>3, <2>4
<1>2. CASE qs # <<>>
  <2>1. Len(qs) \in Nat \ {0} /\ DOMAIN qs = 1 .. Len(qs) /\ \A i \in DOMAIN qs : qs[i] \in Seq(X)
    BY <1>2
  <2>2. PICK f : q = f[Len(qs)] /\ Joining(f, qs)
    BY <1>2, FlattenRounds
  <2> DEFINE Apart == /\ \A n \in DOMAIN qs : IsInjective(qs[n])
                      /\ \A m, n \in DOMAIN qs : m # n => Range(qs[m]) \cap Range(qs[n]) = {}
             Fine(n) == /\ f[n] \in Seq(X)
                        /\ Range(f[n]) = UNION {Range(qs[i]) : i \in 1 .. n}
                        /\ Apart => IsInjective(f[n])
             S == {n \in Nat : n + 1 \in 1 .. Len(qs) => Fine(n + 1)}
  <2>3. 0 \in S
    <3>1. Fine(1)
      BY <2>1, <2>2 DEF Joining
    <3>2. 0 + 1 = 1 /\ 0 \in Nat
      OBVIOUS
    <3> HIDE DEF Fine
    <3> QED
      BY <3>1, <3>2
  <2>4. \A n \in Nat : n \in S => n + 1 \in S
    <3> SUFFICES ASSUME NEW n \in Nat, n \in S, n + 2 \in 1 .. Len(qs)
                 PROVE  Fine(n + 2)
      <4>1. \A n \in Nat : (n + 1) + 1 = n + 2 /\ n + 1 \in Nat
        OBVIOUS
      <4>2. \A n \in Nat : n \in S /\ n + 2 \in 1 .. Len(qs) => Fine(n + 2)
        OBVIOUS
      <4> HIDE DEF Fine
      <4> QED
        BY <4>1, <4>2
    <3>1. n + 1 \in 1 .. Len(qs) /\ n + 2 \in 2 .. Len(qs) /\ (n + 2) - 1 = n + 1
      BY <2>1
    <3>2. Fine(n + 1)
      BY <3>1
    <3>3. f[n + 2] = f[n + 1] \o qs[n + 2]
      BY <2>2, <3>1 DEF Joining
    <3>4. qs[n + 2] \in Seq(X) /\ f[n + 1] \in Seq(X)
      BY <2>1, <3>2
    <3>5. f[n + 2] \in Seq(X) /\ Range(f[n + 2]) = Range(f[n + 1]) \cup Range(qs[n + 2])
      <4> HIDE DEF Fine, S
      <4> QED
        BY ONLY <3>3, <3>4, ConcatLists
    <3>6. \A i : i \in 1 .. n + 2 <=> i \in 1 .. n + 1 \/ i = n + 2
      OBVIOUS
    <3>7. Range(f[n + 2]) = UNION {Range(qs[i]) : i \in 1 .. n + 2}
      <4>1. Range(f[n + 1]) = UNION {Range(qs[i]) : i \in 1 .. n + 1}
        BY <3>2
      <4> HIDE DEF Fine, S
      <4> QED
        BY <3>5, <3>6, <4>1
    <3>8. ASSUME Apart
          PROVE  IsInjective(f[n + 2])
      <4>1. IsInjective(f[n + 1]) /\ IsInjective(qs[n + 2])
        BY <2>1, <3>1, <3>2, <3>8
      <4>2. Range(f[n + 1]) \cap Range(qs[n + 2]) = {}
        <5>1. \A i \in 1 .. n + 1 : i \in DOMAIN qs /\ i # n + 2
          <6>1. n + 1 \in 1 .. Len(qs) /\ Len(qs) \in Nat /\ DOMAIN qs = 1 .. Len(qs)
            BY <2>1, <3>1
          <6> QED
            BY ONLY <6>1, n \in Nat
        <5>2. \A i \in 1 .. n + 1 : Range(qs[i]) \cap Range(qs[n + 2]) = {}
          BY <2>1, <3>1, <3>8, <5>1
        <5>3. Range(f[n + 1]) = UNION {Range(qs[i]) : i \in 1 .. n + 1}
          BY <3>2
        <5> HIDE DEF Fine, S
        <5> QED
          BY <5>2, <5>3
      <4> HIDE DEF Apart
      <4> QED
        BY <3>3, <3>4, <4>1, <4>2, ConcatLists
    <3> HIDE DEF Apart
    <3> QED
      BY <3>5, <3>7, <3>8
  <2>5. Len(qs) - 1 \in S
    <3>1. Len(qs) - 1 \in Nat
      BY <2>1
    <3> HIDE DEF S
    <3> QED
      BY <2>3, <2>4, <3>1, Induction
  <2>6. Fine(Len(qs))
    <3>1. (Len(qs) - 1) + 1 = Len(qs) /\ Len(qs) \in 1 .. Len(qs)
      BY <2>1
    <3> HIDE DEF Fine
    <3> QED
      BY <2>5, <3>1
  <2> QED
    BY <2>1, <2>2, <2>6
<1> QED
  BY <1>1, <1>2

-----------------------------------------------------------------------------
(* A chain in the making: from a head, each the successor of the one       *)
(* before it, none twice.                                                  *)

ChainFrom(L, h, c) ==
  /\ c \in Seq(Range(L)) /\ c # <<>> /\ c[1] = h
  /\ \A i \in 1 .. Len(c) - 1 : Resumers(L, c[i]) # {} /\ c[i + 1] = Successor(L, c[i])
  /\ IsInjective(c)

(* One more round of the loop.                                             *)
Further(L, c) ==
  IF Resumers(L, Last(c)) = {} \/ Successor(L, Last(c)) \in Range(c) THEN c
  ELSE Append(c, Successor(L, Last(c)))

LEMMA ChainBack ==
  ASSUME NEW L, Distinct(L), NEW h, NEW c, ChainFrom(L, h, c), NEW i \in DOMAIN c
  PROVE  /\ c[i] \in Range(L)
         /\ i # 1 => i - 1 \in DOMAIN c /\ Resumes(c[i], c[i - 1])
<1>1. DOMAIN c = 1 .. Len(c) /\ Len(c) \in Nat /\ c[i] \in Range(L)
  BY DEF ChainFrom
<1>2. i # 1 => i - 1 \in 1 .. Len(c) - 1 /\ (i - 1) + 1 = i
  BY <1>1
<1>3. i # 1 => Resumers(L, c[i - 1]) # {} /\ c[i] = Successor(L, c[i - 1])
  BY <1>2 DEF ChainFrom
<1> QED
  BY <1>1, <1>2, <1>3, Succeeds

(* The guard against a session passed already never acts.                  *)
LEMMA NeverAround ==
  ASSUME NEW L, Distinct(L), NEW h, IsHead(L, h), NEW c, ChainFrom(L, h, c),
         Resumers(L, Last(c)) # {}
  PROVE  Successor(L, Last(c)) \notin Range(c)
<1>1. DOMAIN c = 1 .. Len(c) /\ Len(c) \in Nat \ {0} /\ Last(c) = c[Len(c)]
  BY DEF ChainFrom, Last
<1>2. Last(c) \in Range(L)
  BY <1>1 DEF ChainFrom
<1>3. Resumes(Successor(L, Last(c)), Last(c))
  BY Succeeds
<1> SUFFICES ASSUME NEW j \in DOMAIN c, c[j] = Successor(L, Last(c))
             PROVE  FALSE
  BY DEF Range
<1>4. CASE j = 1
  BY <1>2, <1>3, <1>4 DEF ChainFrom, IsHead, Resumes
<1>5. CASE j # 1
  <2>1. j - 1 \in DOMAIN c /\ Resumes(c[j], c[j - 1])
    BY <1>5, ChainBack
  <2>2. c[j - 1] = c[Len(c)]
    BY <1>1, <1>3, <2>1 DEF Resumes
  <2>3. j - 1 = Len(c)
    BY <1>1, <2>1, <2>2 DEF ChainFrom, IsInjective
  <2> QED
    BY <1>1, <2>3
<1> QED
  BY <1>4, <1>5

LEMMA ChainFurther ==
  ASSUME NEW L, Distinct(L), NEW h, IsHead(L, h), NEW c, ChainFrom(L, h, c)
  PROVE  /\ ChainFrom(L, h, Further(L, c))
         /\ Resumers(L, Last(c)) = {} => Further(L, c) = c
         /\ Resumers(L, Last(c)) # {} => Len(Further(L, c)) = Len(c) + 1
<1>1. DOMAIN c = 1 .. Len(c) /\ Len(c) \in Nat \ {0} /\ Last(c) = c[Len(c)]
  BY DEF ChainFrom, Last
<1>2. CASE Resumers(L, Last(c)) = {}
  BY <1>2 DEF Further
<1>3. CASE Resumers(L, Last(c)) # {}
  <2> DEFINE s == Successor(L, Last(c))
             d == Append(c, s)
  <2>1. s \notin Range(c) /\ s \in Range(L)
    BY <1>3, NeverAround, Succeeds
  <2>2. Further(L, c) = d
    BY <1>3, <2>1 DEF Further
  <2>3. c \in Seq(Range(L))
    BY DEF ChainFrom
  <2>4. /\ d \in Seq(Range(L)) /\ d # <<>> /\ Len(d) = Len(c) + 1
        /\ DOMAIN d = 1 .. Len(c) + 1
        /\ \A i \in 1 .. Len(c) : d[i] = c[i]
        /\ d[Len(c) + 1] = s
    BY <1>1, <2>1, <2>3
  <2>5. \A i \in 1 .. Len(d) - 1 : Resumers(L, d[i]) # {} /\ d[i + 1] = Successor(L, d[i])
    <3> SUFFICES ASSUME NEW i \in 1 .. Len(c)
                 PROVE  Resumers(L, d[i]) # {} /\ d[i + 1] = Successor(L, d[i])
      BY <1>1, <2>4
    <3>1. d[i] = c[i]
      BY <2>4
    <3>2. CASE i = Len(c)
      BY <1>1, <1>3, <2>4, <3>1, <3>2
    <3>3. CASE i # Len(c)
      <4>0. i \in Nat /\ 1 <= i /\ i <= Len(c) /\ Len(c) \in Nat
        BY <1>1
      <4>1. i \in 1 .. Len(c) - 1 /\ i + 1 \in 1 .. Len(c)
        BY <3>3, <4>0
      <4>2. Resumers(L, c[i]) # {} /\ c[i + 1] = Successor(L, c[i])
        BY <4>1 DEF ChainFrom
      <4> QED
        BY <2>4, <3>1, <4>1, <4>2
    <3> QED
      BY <3>2, <3>3
  <2> HIDE DEF d, s
  <2>6. IsInjective(d)
    <3> SUFFICES ASSUME NEW i \in DOMAIN d, NEW j \in DOMAIN d, d[i] = d[j]
                 PROVE  i = j
      BY DEF IsInjective
    <3>1. CASE i \in 1 .. Len(c) /\ j \in 1 .. Len(c)
      BY <1>1, <2>4, <3>1 DEF ChainFrom, IsInjective
    <3>2. \A k \in 1 .. Len(c) : d[k] # s
      BY <1>1, <2>1, <2>4 DEF Range
    <3> QED
      BY <1>1, <2>4, <3>1, <3>2
  <2>7. d[1] = h
    BY <1>1, <2>4 DEF ChainFrom
  <2> QED
    BY <1>3, <2>2, <2>4, <2>5, <2>6, <2>7 DEF ChainFrom
<1> QED
  BY <1>2, <1>3

LEMMA SegmentsRounds ==
  ASSUME NEW L, Distinct(L), NEW h \in Range(L)
  PROVE  \E f : /\ Segments(L, h) = f[Len(L)]
                /\ f[1] = <<h>>
                /\ \A n \in 2 .. Len(L) : f[n] = Further(L, f[n - 1])
<1> DEFINE X == Seq(Range(L))
           step == [c \in X |-> Further(L, c)]
           Rule(f) == [n \in 1 .. Len(L) |->
                         IF n = 1 THEN <<h>>
                         ELSE LET sofar == f[n - 1]
                              IN  IF \/ Resumers(L, Last(sofar)) = {}
                                     \/ Successor(L, Last(sofar)) \in Range(sofar)
                                  THEN sofar
                                  ELSE Append(sofar, Successor(L, Last(sofar)))]
<1>1. step \in [X -> X]
  <2> SUFFICES ASSUME NEW c \in X
               PROVE  Further(L, c) \in X
    OBVIOUS
  <2>1. CASE Further(L, c) = c
    BY <2>1
  <2>2. CASE Further(L, c) # c
    <3>1. Resumers(L, Last(c)) # {} /\ Further(L, c) = Append(c, Successor(L, Last(c)))
      BY <2>2 DEF Further
    <3> QED
      BY <3>1, Succeeds
  <2> QED
    BY <2>1, <2>2
<1>2. <<h>> \in X /\ Len(L) \in Nat \ {0} /\ DOMAIN L = 1 .. Len(L)
  BY DEF Distinct, Range
<1>3. PICK f : AreRounds(f, Len(L), X, step, <<h>>)
  <2>1. <<h>> \in X
    BY <1>2
  <2>2. Len(L) \in Nat
    BY <1>2
  <2> HIDE DEF X, step
  <2> QED
    BY <1>1, <2>1, <2>2, Rounds
<1>4. \A n \in 1 .. Len(L) : f[n] = IF n = 1 THEN <<h>> ELSE Further(L, f[n - 1])
  <2> SUFFICES ASSUME NEW n \in 1 .. Len(L), n # 1
               PROVE  step[f[n - 1]] = Further(L, f[n - 1])
    BY <1>3 DEF AreRounds
  <2>1. n - 1 \in 1 .. Len(L)
    BY <1>2
  <2> QED
    BY <1>3, <2>1 DEF AreRounds
<1>5. f = Rule(f)
  <2> HIDE DEF X, step
  <2> QED
    BY <1>3, <1>4 DEF Further, AreRounds
<1>6. PICK g : Segments(L, h) = g[Len(L)] /\ g = Rule(g)
  <2> DEFINE g == CHOOSE u : u = Rule(u)
  <2>1. Segments(L, h) = g[Len(L)]
    BY DEF Segments
  <2>2. g = Rule(g)
    <3> HIDE DEF Rule
    <3> QED
      BY <1>5
  <2> HIDE DEF Rule, g
  <2> QED
    BY <2>1, <2>2
<1>7. g[1] = <<h>>
  BY <1>2, <1>6
<1>8. \A n \in 2 .. Len(L) : g[n] = Further(L, g[n - 1])
  <2> SUFFICES ASSUME NEW n \in 2 .. Len(L)
               PROVE  g[n] = Further(L, g[n - 1])
    OBVIOUS
  <2>1. n \in 1 .. Len(L) /\ n # 1
    BY <1>2
  <2> HIDE DEF X, step
  <2> QED
    BY <1>6, <2>1 DEF Further
<1> QED
  BY <1>6, <1>7, <1>8

(* The loop goes on to the end: after as many rounds as there are sessions *)
(* all of them have been passed, if it has not stopped before.             *)
LEMMA SegmentsChain ==
  ASSUME NEW L, Distinct(L), NEW h \in Range(L), IsHead(L, h),
         NEW c, c = Segments(L, h)
  PROVE  ChainFrom(L, h, c) /\ Resumers(L, Last(c)) = {}
<1>1. Len(L) \in Nat \ {0} /\ DOMAIN L = 1 .. Len(L)
  BY DEF Distinct, Range
<1>2. PICK f : /\ c = f[Len(L)] /\ f[1] = <<h>>
               /\ \A n \in 2 .. Len(L) : f[n] = Further(L, f[n - 1])
  BY SegmentsRounds
<1> DEFINE Fine(n) == /\ ChainFrom(L, h, f[n])
                      /\ Resumers(L, Last(f[n])) = {} \/ Len(f[n]) = n
           S == {n \in Nat : n + 1 \in 1 .. Len(L) => Fine(n + 1)}
<1>3. 0 \in S
  <2>1. /\ <<h>> \in Seq(Range(L)) /\ <<h>> # <<>> /\ Len(<<h>>) = 1
        /\ <<h>>[1] = h /\ IsInjective(<<h>>)
    BY DEF IsInjective
  <2>2. ChainFrom(L, h, <<h>>)
    BY <2>1 DEF ChainFrom
  <2> QED
    BY <1>2, <2>1, <2>2
<1>4. \A n \in Nat : n \in S => n + 1 \in S
  <2> SUFFICES ASSUME NEW n \in Nat, n \in S, n + 2 \in 1 .. Len(L)
               PROVE  Fine(n + 2)
    <3>1. \A n \in Nat : n \in S /\ n + 2 \in 1 .. Len(L) => Fine(n + 2)
      OBVIOUS
    <3>2. \A n \in Nat : (n + 1) + 1 = n + 2 /\ n + 1 \in Nat
      OBVIOUS
    <3> HIDE DEF Fine
    <3> QED
      BY <3>1, <3>2
  <2>1. n + 1 \in 1 .. Len(L) /\ n + 2 \in 2 .. Len(L) /\ (n + 2) - 1 = n + 1
    BY <1>1
  <2>2. Fine(n + 1)
    BY <2>1
  <2>3. f[n + 2] = Further(L, f[n + 1])
    BY <1>2, <2>1
  <2> QED
    BY <2>2, <2>3, ChainFurther
<1>5. Fine(Len(L))
  <2>1. Len(L) - 1 \in Nat /\ (Len(L) - 1) + 1 = Len(L)
    BY <1>1
  <2>2. Len(L) - 1 \in S
    <3> HIDE DEF S
    <3> QED
      BY <1>3, <1>4, <2>1, Induction
  <2> QED
    BY <1>1, <2>1, <2>2
<1>6. CASE Resumers(L, Last(c)) = {}
  BY <1>2, <1>5, <1>6
<1>7. CASE Resumers(L, Last(c)) # {}
  <2>1. ChainFrom(L, h, c) /\ Len(c) = Len(L) /\ DOMAIN c = 1 .. Len(L)
    BY <1>1, <1>2, <1>5, <1>7 DEF ChainFrom
  <2>2. IsFiniteSet(1 .. Len(L)) /\ Cardinality(1 .. Len(L)) = Len(L)
    BY <1>1, FS_Interval
  <2>3. L \in Surjection(1 .. Len(L), Range(L)) /\ L \in Injection(1 .. Len(L), Range(L))
    BY <1>1 DEF Surjection, Injection, Distinct, Range, IsInjective
  <2>4. IsFiniteSet(Range(L)) /\ Cardinality(Range(L)) = Len(L)
    BY <2>2, <2>3, FS_Surjection
  <2>5. c \in Injection(1 .. Len(L), Range(L))
    BY <2>1 DEF ChainFrom, Injection
  <2>6. c \in Surjection(1 .. Len(L), Range(L))
    BY <2>2, <2>4, <2>5, FS_Injection
  <2>7. Successor(L, Last(c)) \in Range(L)
    BY <1>7, Succeeds
  <2>8. Successor(L, Last(c)) \in Range(c)
    BY <2>1, <2>6, <2>7 DEF Surjection, Range
  <2> QED
    BY <1>7, <2>1, <2>8, NeverAround
<1> QED
  BY <1>6, <1>7

-----------------------------------------------------------------------------
(* The chains of an answer.                                                *)

LEMMA ChainsApart ==
  ASSUME NEW L, Distinct(L), NEW g, NEW h, IsHead(L, g), IsHead(L, h),
         NEW c, NEW d, ChainFrom(L, g, c), ChainFrom(L, h, d),
         NEW m \in DOMAIN c, NEW n \in DOMAIN d, c[m] = d[n]
  PROVE  g = h /\ m = n
<1> DEFINE N == {i \in DOMAIN c : \E j \in DOMAIN d : c[i] = d[j] /\ ~ (g = h /\ i = j)}
<1> SUFFICES ASSUME N # {}
             PROVE  FALSE
  OBVIOUS
<1>1. /\ DOMAIN c = 1 .. Len(c) /\ Len(c) \in Nat
      /\ DOMAIN d = 1 .. Len(d) /\ Len(d) \in Nat /\ c[1] = g /\ d[1] = h
  BY DEF ChainFrom
<1>2. N \in SUBSET Nat
  BY <1>1
<1>3. PICK i \in N : \A k \in N : i <= k
  BY <1>2, LeastNumber
<1>4. PICK j \in DOMAIN d : c[i] = d[j] /\ ~ (g = h /\ i = j)
  BY <1>3
<1>5. i \in DOMAIN c
  BY <1>3
<1>6. /\ c[i] \in Range(L) /\ i # 1 => i - 1 \in DOMAIN c /\ Resumes(c[i], c[i - 1])
      /\ d[j] \in Range(L) /\ j # 1 => j - 1 \in DOMAIN d /\ Resumes(d[j], d[j - 1])
  BY <1>5, ChainBack
<1>7. CASE i = 1 \/ j = 1
  <2>1. ~ (i = 1 /\ j = 1)
    BY <1>1, <1>4
  <2>2. \A s \in Range(L) : \A u \in {g, h} : ~ Resumes(u, s)
    BY DEF IsHead, Resumes
  <2>3. i = 1 => j - 1 \in DOMAIN d /\ Resumes(g, d[j - 1]) /\ d[j - 1] \in Range(L)
    <3> SUFFICES ASSUME i = 1
                 PROVE  j - 1 \in DOMAIN d /\ Resumes(g, d[j - 1]) /\ d[j - 1] \in Range(L)
      OBVIOUS
    <3>1. j - 1 \in DOMAIN d /\ Resumes(d[j], d[j - 1])
      BY <1>6, <2>1, ChainBack
    <3> QED
      BY <1>1, <1>4, <3>1, ChainBack
  <2>4. j = 1 => i - 1 \in DOMAIN c /\ Resumes(h, c[i - 1]) /\ c[i - 1] \in Range(L)
    <3> SUFFICES ASSUME j = 1
                 PROVE  i - 1 \in DOMAIN c /\ Resumes(h, c[i - 1]) /\ c[i - 1] \in Range(L)
      OBVIOUS
    <3>1. i - 1 \in DOMAIN c /\ Resumes(c[i], c[i - 1])
      BY <1>5, <2>1, ChainBack
    <3> QED
      BY <1>1, <1>4, <3>1, ChainBack
  <2> QED
    BY <1>7, <2>2, <2>3, <2>4
<1>8. CASE i # 1 /\ j # 1
  <2>1. /\ i - 1 \in DOMAIN c /\ Resumes(c[i], c[i - 1])
        /\ j - 1 \in DOMAIN d /\ Resumes(d[j], d[j - 1])
    BY <1>5, <1>8, ChainBack
  <2>2. c[i - 1] = d[j - 1]
    BY <1>4, <2>1 DEF Resumes
  <2>3. ~ (g = h /\ i - 1 = j - 1)
    BY <1>1, <1>4, <1>5
  <2>4. i - 1 \in N
    BY <2>1, <2>2, <2>3
  <2> QED
    BY <1>1, <1>3, <1>5, <2>4
<1> QED
  BY <1>7, <1>8

LEMMA ChainsListed ==
  ASSUME NEW L, Distinct(L), NEW H, H = Heads(L), NEW chains, chains = Chains(L)
  PROVE  /\ DOMAIN chains = DOMAIN H
         /\ \A n \in DOMAIN H :
              /\ H[n] \in Range(L) /\ IsHead(L, H[n])
              /\ ChainFrom(L, H[n], chains[n])
              /\ Resumers(L, Last(chains[n])) = {}
<1>1. H \in Seq(Sessions) /\ IsInjective(H) /\ Range(H) = {s \in Range(L) : IsHead(L, s)}
  BY HeadsListed
<1> DEFINE q == [n \in DOMAIN H |-> Segments(L, H[n])]
<1>2. \A n \in DOMAIN H : H[n] \in Range(L) /\ IsHead(L, H[n])
  BY <1>1 DEF Range
<1>3. chains = q \o <<>>
  BY DEF Chains, Listing
<1>4. q \in Seq({Segments(L, H[n]) : n \in DOMAIN H}) /\ DOMAIN q = DOMAIN H
  BY <1>1
<1>5. chains = q
  <2> HIDE DEF q
  <2> QED
    BY <1>3, <1>4
<1>6. \A n \in DOMAIN H : chains[n] = Segments(L, H[n])
  BY <1>5
<1> QED
  BY <1>2, <1>4, <1>5, <1>6, SegmentsChain

LEMMA ChainsShape ==
  ASSUME TypeOK, NEW L, Distinct(L), NEW chains, chains = Chains(L)
  PROVE  /\ \A i, j \in DOMAIN chains :
              \A m \in DOMAIN chains[i] : \A n \in DOMAIN chains[j] :
                chains[i][m] = chains[j][n] => i = j /\ m = n
         /\ \A c \in Range(chains) :
              /\ c # <<>> /\ Range(c) \subseteq Range(L)
              /\ \A i \in 1 .. Len(c) - 1 : Resumes(c[i + 1], c[i])
              /\ ~ \E t \in Range(L) : Resumes(c[1], t)
              /\ ~ \E t \in Range(L) : Resumes(t, Last(c))
<1> DEFINE H == Heads(L)
<1>1. /\ DOMAIN chains = DOMAIN H
      /\ \A n \in DOMAIN H :
           /\ H[n] \in Range(L) /\ IsHead(L, H[n])
           /\ ChainFrom(L, H[n], chains[n])
           /\ Resumers(L, Last(chains[n])) = {}
  BY ChainsListed
<1>2. IsInjective(H)
  BY HeadsListed
<1> HIDE DEF H
<1>3. \A i, j \in DOMAIN chains :
        \A m \in DOMAIN chains[i] : \A n \in DOMAIN chains[j] :
          chains[i][m] = chains[j][n] => i = j /\ m = n
  <2> SUFFICES ASSUME NEW i \in DOMAIN chains, NEW j \in DOMAIN chains,
                      NEW m \in DOMAIN chains[i], NEW n \in DOMAIN chains[j],
                      chains[i][m] = chains[j][n]
               PROVE  i = j /\ m = n
    OBVIOUS
  <2>1. H[i] = H[j] /\ m = n
    BY <1>1, ChainsApart
  <2> QED
    BY <1>1, <1>2, <2>1 DEF IsInjective
<1>4. ASSUME NEW n \in DOMAIN chains, NEW c, c = chains[n]
      PROVE  /\ c # <<>> /\ Range(c) \subseteq Range(L)
             /\ \A i \in 1 .. Len(c) - 1 : Resumes(c[i + 1], c[i])
             /\ ~ \E t \in Range(L) : Resumes(c[1], t)
             /\ ~ \E t \in Range(L) : Resumes(t, Last(c))
  <2>1. /\ IsHead(L, c[1]) /\ ChainFrom(L, c[1], c) /\ Resumers(L, Last(c)) = {}
    BY <1>1, <1>4 DEF ChainFrom
  <2>2. c # <<>> /\ Range(c) \subseteq Range(L)
    BY <2>1 DEF ChainFrom, Range
  <2>3. \A i \in 1 .. Len(c) - 1 : Resumes(c[i + 1], c[i])
    BY <2>1, Succeeds DEF ChainFrom
  <2>4. ~ \E t \in Range(L) : Resumes(c[1], t)
    BY <2>1 DEF IsHead, Resumes
  <2>5. ~ \E t \in Range(L) : Resumes(t, Last(c))
    BY <2>1 DEF Resumers, Range
  <2> QED
    BY <2>2, <2>3, <2>4, <2>5
<1> QED
  BY <1>3, <1>4 DEF Range

(* Whoever resumed whom, forks and circles included, the journeys of an    *)
(* answer share no session, each carries on from one to the next, begins   *)
(* where nothing loaded came before and stops only where nothing loaded    *)
(* goes on (queries.py:500-540).                                           *)
THEOREM JourneysAlwaysChains == Spec => []JourneysAreChains
<1>1. TypeOK => JourneysAreChains
  <2> SUFFICES ASSUME TypeOK, NEW q \in Questions
               PROVE  LET L      == Included(q)
                          chains == Chains(L)
                      IN  /\ \A i, j \in DOMAIN chains :
                               \A m \in DOMAIN chains[i] : \A n \in DOMAIN chains[j] :
                                 chains[i][m] = chains[j][n] => i = j /\ m = n
                          /\ \A c \in Range(chains) :
                               /\ c # <<>> /\ Range(c) \subseteq Range(L)
                               /\ \A i \in 1 .. Len(c) - 1 : Resumes(c[i + 1], c[i])
                               /\ ~ \E t \in Range(L) : Resumes(c[1], t)
                               /\ ~ \E t \in Range(L) : Resumes(t, Last(c))
    BY DEF JourneysAreChains
  <2> QED
    BY IncludedOldestFirst, ChainsShape DEF OldestFirst
<1> QED
  BY <1>1, StateAlways, PTL

(* A journey an answer calls in progress ends live, or is carried on by a  *)
(* session that the answer leaves out (queries.py:419-427).                *)
THEOREM InProgressIsExplained == Spec => []InProgressExplained
<1>1. TypeOK /\ LinkedBack => InProgressExplained
  <2> SUFFICES ASSUME TypeOK, LinkedBack, NEW q \in Questions,
                      NEW c \in Range(Chains(Included(q))),
                      Outcome(q.now, c) = "in_progress",
                      Status(q.now, Last(c)) # "live"
               PROVE  \E s \in Present \ Range(Included(q)) :
                        resumed[s] = Last(c) /\ 1 \in rows[s].seqs
    BY DEF InProgressExplained
  <2> DEFINE L == Included(q)
             t == Last(c)
             by == rows[t].resumedBy
  <2>1. OldestFirst(L)
    BY IncludedOldestFirst
  <2> HIDE DEF L
  <2>2. /\ c # <<>> /\ Range(c) \subseteq Range(L)
        /\ ~ \E s \in Range(L) : Resumes(s, t)
    BY <2>1, ChainsShape DEF L, OldestFirst
  <2>3. c \in Seq(Range(L))
    <3> DEFINE H == Heads(L)
               chains == Chains(L)
    <3>1. DOMAIN chains = DOMAIN H /\ \A n \in DOMAIN H : ChainFrom(L, H[n], chains[n])
      BY <2>1, ChainsListed DEF OldestFirst
    <3>2. \E n \in DOMAIN chains : c = chains[n]
      BY DEF L, Range
    <3> QED
      BY <3>1, <3>2 DEF ChainFrom
  <2>4. t \in Range(L) /\ t \in Present /\ t \in Sessions /\ rows[t] # NoRow
    <3>1. Last(c) = c[Len(c)] /\ Len(c) \in DOMAIN c
      BY <2>2, <2>3 DEF Last
    <3>2. t \in Range(L)
      BY <2>3, <3>1
    <3> QED
      BY <2>1, <3>2 DEF OldestFirst, Present
  <2>5. by # NoSession
    BY DEF Outcome, Status
  <2>6. by \in Sessions /\ by # t /\ resumed[by] = t /\ rows[by] # NoRow /\ 1 \in rows[by].seqs
    BY <2>4, <2>5 DEF LinkedBack, TypeOK, Row
  <2>7. Resumes(by, t)
    BY <2>6 DEF Resumes, ResumedFrom
  <2>8. by \in Present \ Range(L)
    BY <2>2, <2>6, <2>7 DEF Present
  <2> QED
    BY <2>6, <2>8 DEF L
<1> QED
  BY <1>1, StateAlways, PTL

-----------------------------------------------------------------------------
(* Who is left out.                                                        *)

(* What came before a session of a chain is the chain before it.           *)
LEMMA BehindInChain ==
  ASSUME NEW L, OldestFirst(L), NEW h, IsHead(L, h), NEW c, ChainFrom(L, h, c),
         NEW i \in DOMAIN c
  PROVE  CarriesOn(Range(L), c[i]) \subseteq {c[j] : j \in 1 .. i - 1}
<1> DEFINE S == {c[j] : j \in 1 .. i - 1}
<1>1. DOMAIN c = 1 .. Len(c) /\ Len(c) \in Nat /\ c[1] = h
  BY DEF ChainFrom
<1>2. S \in SUBSET Range(L)
  BY <1>1 DEF ChainFrom
<1>3. Back(Range(L), S \cup {c[i]}) \subseteq S
  <2> SUFFICES ASSUME NEW t \in Range(L), NEW j \in 1 .. i, Resumes(c[j], t)
               PROVE  t \in S
    BY <1>1 DEF Back
  <2>1. j \in DOMAIN c
    BY <1>1
  <2>2. j # 1
    BY <1>1 DEF IsHead, Resumes
  <2>3. Resumes(c[j], c[j - 1])
    BY <2>1, <2>2, ChainBack DEF OldestFirst
  <2>4. j - 1 \in 1 .. i - 1
    BY <1>1, <2>1, <2>2
  <2> QED
    BY <2>3, <2>4 DEF Resumes
<1> HIDE DEF S
<1>4. CarriesOn(Range(L), c[i]) \subseteq S
  BY <1>2, <1>3 DEF CarriesOn
<1> QED
  BY <1>4 DEF S

LEMMA ChainedNotLeftOut ==
  ASSUME NEW L, OldestFirst(L), NEW h, IsHead(L, h), NEW c, ChainFrom(L, h, c),
         NEW s \in Range(c), NEW t \in {s} \cup CarriesOn(Range(L), s)
  PROVE  t \notin CarriesOn(Range(L), t) /\ ~ Overtaken(Range(L), t)
<1>1. DOMAIN c = 1 .. Len(c) /\ Len(c) \in Nat /\ c[1] = h /\ IsInjective(c)
  BY DEF ChainFrom
<1>2. PICK i \in DOMAIN c : s = c[i]
  BY DEF Range
<1>3. PICK j \in DOMAIN c : t = c[j]
  <2>1. CASE t = s
    BY <1>2, <2>1
  <2>2. CASE t \in CarriesOn(Range(L), s)
    <3>1. PICK k \in 1 .. i - 1 : t = c[k]
      BY <1>2, <2>2, BehindInChain
    <3> QED
      BY <1>1, <3>1
  <2> QED
    BY <2>1, <2>2
<1>4. t \notin CarriesOn(Range(L), t)
  <2> SUFFICES ASSUME t \in CarriesOn(Range(L), t)
               PROVE  FALSE
    OBVIOUS
  <2>1. PICK k \in 1 .. j - 1 : c[j] = c[k]
    BY <1>3, BehindInChain
  <2>2. k \in DOMAIN c /\ k # j
    BY <1>1, <1>3
  <2> QED
    BY <1>1, <2>1, <2>2 DEF IsInjective
<1>5. ~ Overtaken(Range(L), t)
  <2> SUFFICES ASSUME NEW x \in Range(L), NEW u \in Range(L),
                      Resumes(t, x), Resumes(u, x), Before(t, u)
               PROVE  FALSE
    BY DEF Overtaken
  <2>1. j # 1
    BY <1>1, <1>3 DEF IsHead, Resumes
  <2>2. j - 1 \in 1 .. Len(c) - 1 /\ (j - 1) + 1 = j
    BY <1>1, <1>3, <2>1
  <2>3. Resumers(L, c[j - 1]) # {} /\ t = Successor(L, c[j - 1])
    BY <1>3, <2>2 DEF ChainFrom
  <2>4. x = c[j - 1]
    BY <2>3, Succeeds DEF Resumes, OldestFirst
  <2> QED
    BY <2>3, <2>4, SucceedsLast
<1> QED
  BY <1>4, <1>5

LEMMA CarriesOnBack ==
  ASSUME NEW ids, NEW s \in ids, NEW t \in ids, Resumes(s, t)
  PROVE  t \in CarriesOn(ids, s) /\ CarriesOn(ids, t) \subseteq CarriesOn(ids, s)
<1> SUFFICES ASSUME NEW S \in SUBSET ids, Back(ids, S \cup {s}) \subseteq S
             PROVE  t \in S /\ CarriesOn(ids, t) \subseteq S
  BY DEF CarriesOn
<1>1. t \in S
  BY DEF Back
<1>2. Back(ids, S \cup {t}) \subseteq S
  BY <1>1 DEF Back
<1>3. CarriesOn(ids, t) \subseteq S
  BY <1>2 DEF CarriesOn
<1> QED
  BY <1>1, <1>3

LEMMA LeftOutOnlyOvertaken ==
  ASSUME TypeOK, NEW L, OldestFirst(L), NEW s \in Range(L),
         \A t \in {s} \cup CarriesOn(Range(L), s) :
           t \notin CarriesOn(Range(L), t) /\ ~ Overtaken(Range(L), t)
  PROVE  \E c \in Range(Chains(L)) : s \in Range(c)
<1> DEFINE ids == Range(L)
           Fine(t) == \A u \in {t} \cup CarriesOn(ids, t) :
                        u \notin CarriesOn(ids, u) /\ ~ Overtaken(ids, u)
           Told(t) == \E c \in Range(Chains(L)) : t \in Range(c)
           H == Heads(L)
           chains == Chains(L)
           N == {Cardinality(CarriesOn(ids, t)) : t \in {u \in ids : Fine(u) /\ ~ Told(u)}}
<1>1. IsFiniteSet(ids)
  <2>1. ids \subseteq Sessions
    BY DEF OldestFirst, Present
  <2> QED
    BY <2>1, JourneysAssumption, FS_Subset
<1>2. \A t \in ids : /\ CarriesOn(ids, t) \subseteq ids
                     /\ IsFiniteSet(CarriesOn(ids, t))
                     /\ Cardinality(CarriesOn(ids, t)) \in Nat
  <2>1. \A t \in ids : CarriesOn(ids, t) \subseteq ids
    BY DEF CarriesOn
  <2> HIDE DEF ids
  <2> QED
    BY <1>1, <2>1, FS_Subset, FS_CardinalityType
<1>3. /\ DOMAIN chains = DOMAIN H
      /\ \A n \in DOMAIN H :
           /\ H[n] \in ids /\ IsHead(L, H[n])
           /\ ChainFrom(L, H[n], chains[n])
           /\ Resumers(L, Last(chains[n])) = {}
  BY ChainsListed DEF OldestFirst
<1>4. Range(H) = {t \in ids : IsHead(L, t)}
  BY HeadsListed DEF OldestFirst
<1> HIDE DEF H, chains
<1>5. \A t \in ids : Fine(t) => Told(t)
  <2> SUFFICES ASSUME N # {}
               PROVE  FALSE
    OBVIOUS
  <2>1. N \in SUBSET Nat
    BY <1>2
  <2>2. PICK m \in N : \A k \in N : m <= k
    <3> HIDE DEF N
    <3> QED
      BY <2>1, LeastNumber
  <2>3. PICK t \in ids : Fine(t) /\ ~ Told(t) /\ m = Cardinality(CarriesOn(ids, t))
    BY <2>2
  <2>4. CASE IsHead(L, t)
    <3>1. PICK n \in DOMAIN H : H[n] = t
      BY <1>4, <2>4 DEF Range
    <3>2. ChainFrom(L, t, chains[n]) /\ n \in DOMAIN chains
      BY <1>3, <3>1
    <3>3. t \in Range(chains[n]) /\ chains[n] \in Range(Chains(L))
      BY <3>2 DEF ChainFrom, Range, chains
    <3> QED
      BY <2>3, <3>3
  <2>5. CASE ~ IsHead(L, t)
    <3> DEFINE x == ResumedFrom(t)
    <3>1. x \in ids /\ Resumes(t, x)
      BY <2>5 DEF IsHead, Resumes
    <3>2. x \in CarriesOn(ids, t) /\ CarriesOn(ids, x) \subseteq CarriesOn(ids, t)
      BY <3>1, CarriesOnBack
    <3>3. x \notin CarriesOn(ids, x) /\ Fine(x)
      BY <2>3, <3>2
    <3>4. Cardinality(CarriesOn(ids, x)) < Cardinality(CarriesOn(ids, t))
      <4>1. CarriesOn(ids, x) # CarriesOn(ids, t)
        BY <3>2, <3>3
      <4> DEFINE A == CarriesOn(ids, x)
                 B == CarriesOn(ids, t)
      <4>2. /\ A \subseteq B /\ A # B /\ IsFiniteSet(B)
            /\ Cardinality(A) \in Nat /\ Cardinality(B) \in Nat
        BY <1>2, <3>1, <3>2, <4>1
      <4> HIDE DEF A, B
      <4>3. Cardinality(A) < Cardinality(B)
        BY <4>2, FS_Subset
      <4> QED
        BY <4>3 DEF A, B
    <3>5. Told(x)
      <4> SUFFICES ASSUME ~ Told(x)
                   PROVE  FALSE
        OBVIOUS
      <4>1. Cardinality(CarriesOn(ids, x)) \in N
        BY <3>1, <3>3
      <4> QED
        BY <1>2, <2>2, <2>3, <3>1, <3>4, <4>1
    <3>6. PICK n \in DOMAIN chains : x \in Range(chains[n])
      BY <3>5 DEF Range, chains
    <3> DEFINE c == chains[n]
    <3>7. ChainFrom(L, H[n], c) /\ Resumers(L, Last(c)) = {}
      BY <1>3, <3>6
    <3>8. PICK i \in DOMAIN c : x = c[i]
      BY <3>6 DEF Range
    <3>9. DOMAIN c = 1 .. Len(c) /\ Len(c) \in Nat /\ c # <<>> /\ Last(c) = c[Len(c)]
      BY <3>7 DEF ChainFrom, Last
    <3>10. Resumers(L, x) # {}
      BY <3>1 DEF Resumers, Range
    <3>11. Successor(L, x) = t
      <4> DEFINE u == Successor(L, x)
      <4>1. u \in ids /\ Resumes(u, x) /\ ~ Before(u, t)
        BY <3>1, <3>10, Succeeds, SucceedsLast DEF OldestFirst
      <4>2. ~ Before(t, u)
        BY <2>3, <3>1, <4>1 DEF Overtaken
      <4> HIDE DEF u
      <4>3. PICK a \in DOMAIN L : u = L[a]
        BY <4>1 DEF Range
      <4>4. PICK b \in DOMAIN L : t = L[b]
        BY DEF Range
      <4>5. a \in Nat /\ b \in Nat
        BY <4>3, <4>4 DEF OldestFirst, Distinct
      <4>6. ~ (a < b) /\ ~ (b < a)
        BY <4>1, <4>2, <4>3, <4>4 DEF OldestFirst
      <4> QED
        BY <4>3, <4>4, <4>5, <4>6 DEF u
    <3>12. i \in 1 .. Len(c) - 1 /\ i + 1 \in DOMAIN c
      <4>1. i # Len(c)
        BY <3>7, <3>8, <3>9, <3>10
      <4>2. i \in Nat /\ 1 <= i /\ i <= Len(c) /\ Len(c) \in Nat
        BY <3>8, <3>9
      <4>3. i \in 1 .. Len(c) - 1 /\ i + 1 \in 1 .. Len(c)
        BY <4>1, <4>2
      <4> QED
        BY <3>9, <4>3
    <3>13. c[i + 1] = t
      BY <3>7, <3>8, <3>11, <3>12 DEF ChainFrom
    <3> QED
      BY <2>3, <3>6, <3>12, <3>13 DEF Range, chains
  <2> QED
    BY <2>4, <2>5
<1> QED
  BY <1>5

(* A session that no journey of an answer has is, or carries on from, one  *)
(* in a circle or one whose place a later session took; every other is in  *)
(* one (queries.py:508-540).                                               *)
THEOREM OnlyOvertakenAreLeftOut == Spec => []OnlyOvertakenLeftOut
<1>1. TypeOK => OnlyOvertakenLeftOut
  <2> SUFFICES ASSUME TypeOK, NEW q \in Questions, NEW L, L = Included(q),
                      NEW s \in Range(L)
               PROVE  (\E c \in Range(Chains(L)) : s \in Range(c))
                        <=> ~ \E t \in {s} \cup CarriesOn(Range(L), s) :
                                 t \in CarriesOn(Range(L), t) \/ Overtaken(Range(L), t)
    BY DEF OnlyOvertakenLeftOut
  <2>1. OldestFirst(L)
    BY IncludedOldestFirst
  <2>2. ASSUME NEW c \in Range(Chains(L)), s \in Range(c)
        PROVE  \A t \in {s} \cup CarriesOn(Range(L), s) :
                 t \notin CarriesOn(Range(L), t) /\ ~ Overtaken(Range(L), t)
    <3>1. \E h : IsHead(L, h) /\ ChainFrom(L, h, c)
      BY <2>1, <2>2, ChainsListed DEF Range, OldestFirst
    <3> QED
      BY <2>1, <2>2, <3>1, ChainedNotLeftOut
  <2> QED
    BY <2>1, <2>2, LeftOutOnlyOvertaken
<1> QED
  BY <1>1, StateAlways, PTL

-----------------------------------------------------------------------------
(* The chain of a session's detail.                                        *)

From(t) == IF rows[t] = NoRow THEN NoSession ELSE ResumedFrom(t)
By(t)   == IF rows[t] = NoRow THEN NoSession ELSE rows[t].resumedBy

Older(ids) == IF From(ids[1]) \in Range(ids) \cup {NoSession} THEN ids
              ELSE <<From(ids[1])>> \o ids

Newer(ids) == IF By(Last(ids)) \in Range(ids) \cup {NoSession} THEN ids
              ELSE Append(ids, By(Last(ids)))

LEMMA StepsTyped ==
  ASSUME TypeOK, NEW ids \in Seq(Sessions), ids # <<>>
  PROVE  /\ Older(ids) \in Seq(Sessions) /\ Older(ids) # <<>>
         /\ Newer(ids) \in Seq(Sessions) /\ Newer(ids) # <<>>
<1>1. /\ Len(ids) \in Nat \ {0} /\ ids[1] \in Sessions
      /\ Last(ids) = ids[Len(ids)] /\ Last(ids) \in Sessions
  BY DEF Last
<1>2. \A t \in Sessions : /\ From(t) \in Sessions \cup {NoSession}
                          /\ By(t) \in Sessions \cup {NoSession}
  BY JourneysAssumption DEF From, By, ResumedFrom, TypeOK, Row
<1>3. Older(ids) \in Seq(Sessions) /\ Older(ids) # <<>>
  <2>1. CASE From(ids[1]) \in Range(ids) \cup {NoSession}
    BY <2>1 DEF Older
  <2>2. CASE From(ids[1]) \notin Range(ids) \cup {NoSession}
    <3>1. From(ids[1]) \in Sessions /\ Older(ids) = <<From(ids[1])>> \o ids
      BY <1>1, <1>2, <2>2 DEF Older
    <3>2. Older(ids) \in Seq(Sessions) /\ Len(Older(ids)) = Len(ids) + 1
      BY <1>1, <3>1
    <3> QED
      BY <1>1, <3>2
  <2> QED
    BY <2>1, <2>2
<1>4. Newer(ids) \in Seq(Sessions) /\ Newer(ids) # <<>>
  <2>1. CASE By(Last(ids)) \in Range(ids) \cup {NoSession}
    BY <2>1 DEF Newer
  <2>2. CASE By(Last(ids)) \notin Range(ids) \cup {NoSession}
    <3>1. By(Last(ids)) \in Sessions /\ Newer(ids) = Append(ids, By(Last(ids)))
      BY <1>1, <1>2, <2>2 DEF Newer
    <3>2. Newer(ids) \in Seq(Sessions) /\ Len(Newer(ids)) = Len(ids) + 1
      BY <1>1, <3>1
    <3> QED
      BY <1>1, <3>2
  <2> QED
    BY <2>1, <2>2
<1> QED
  BY <1>3, <1>4

(* What ChainOf goes through: back, and then on from there.                *)
ThereAndBack(s, last, back, on) ==
  /\ ChainOf(s) = on[last]
  /\ back[1] = <<s>> /\ on[1] = back[last]
  /\ \A n \in 2 .. last : back[n] = Older(back[n - 1]) /\ on[n] = Newer(on[n - 1])

LEMMA ChainOfRounds ==
  ASSUME TypeOK, NEW s \in Sessions, NEW last, last = Cardinality(Sessions) + 1
  PROVE  \E back, on : ThereAndBack(s, last, back, on)
<1> DEFINE X == Seq(Sessions) \ {<<>>}
           older == [ids \in X |-> Older(ids)]
           newer == [ids \in X |-> Newer(ids)]
           Steps == 1 .. last
           BackRule(back) ==
             [n \in Steps |->
                IF n = 1 THEN <<s>>
                ELSE LET ids == back[n - 1]
                     IN  IF From(ids[1]) \in Range(ids) \cup {NoSession} THEN ids
                         ELSE <<From(ids[1])>> \o ids]
           OnRule(back, on) ==
             [n \in Steps |->
                IF n = 1 THEN back[last]
                ELSE LET ids == on[n - 1]
                     IN  IF By(Last(ids)) \in Range(ids) \cup {NoSession} THEN ids
                         ELSE Append(ids, By(Last(ids)))]
<1>1. older \in [X -> X] /\ newer \in [X -> X]
  BY StepsTyped
<1>2. <<s>> \in X
  OBVIOUS
<1>3. last \in Nat \ {0} /\ last \in Nat
  BY JourneysAssumption, FS_CardinalityType
<1>4. \A x \in X : \E f : AreRounds(f, last, X, older, x)
  <2> HIDE DEF X, older
  <2> QED
    BY <1>1, <1>3, Rounds
<1>5. \A x \in X : \E f : AreRounds(f, last, X, newer, x)
  <2> HIDE DEF X, newer
  <2> QED
    BY <1>1, <1>3, Rounds
<1>6. \A f, x : AreRounds(f, last, X, older, x) =>
        /\ f \in [Steps -> X]
        /\ \A n \in Steps : f[n] = IF n = 1 THEN x ELSE Older(f[n - 1])
  <2> SUFFICES ASSUME NEW f, NEW x, AreRounds(f, last, X, older, x)
               PROVE  /\ f \in [Steps -> X]
                      /\ \A n \in Steps : f[n] = IF n = 1 THEN x ELSE Older(f[n - 1])
    OBVIOUS
  <2>1. /\ f \in [Steps -> X]
        /\ \A n \in Steps : f[n] = IF n = 1 THEN x ELSE older[f[n - 1]]
    BY DEF AreRounds
  <2>2. \A n \in Steps : n # 1 => n - 1 \in Steps
    BY <1>3
  <2>3. \A ids \in X : older[ids] = Older(ids)
    OBVIOUS
  <2> HIDE DEF X, older
  <2> QED
    BY <2>1, <2>2, <2>3
<1>7. \A f, x : AreRounds(f, last, X, newer, x) =>
        /\ f \in [Steps -> X]
        /\ \A n \in Steps : f[n] = IF n = 1 THEN x ELSE Newer(f[n - 1])
  <2> SUFFICES ASSUME NEW f, NEW x, AreRounds(f, last, X, newer, x)
               PROVE  /\ f \in [Steps -> X]
                      /\ \A n \in Steps : f[n] = IF n = 1 THEN x ELSE Newer(f[n - 1])
    OBVIOUS
  <2>1. /\ f \in [Steps -> X]
        /\ \A n \in Steps : f[n] = IF n = 1 THEN x ELSE newer[f[n - 1]]
    BY DEF AreRounds
  <2>2. \A n \in Steps : n # 1 => n - 1 \in Steps
    BY <1>3
  <2>3. \A ids \in X : newer[ids] = Newer(ids)
    OBVIOUS
  <2> HIDE DEF X, newer
  <2> QED
    BY <2>1, <2>2, <2>3
<1> DEFINE back == CHOOSE f : f = BackRule(f)
           on   == CHOOSE f : f = OnRule(back, f)
<1>8. ChainOf(s) = on[last]
  BY DEF ChainOf, From, By
<1>9. PICK f : AreRounds(f, last, X, older, <<s>>)
  BY <1>2, <1>4
<1>10. f = BackRule(f) /\ f \in [Steps -> X]
  <2> HIDE DEF X, older
  <2>1. /\ f \in [Steps -> X]
        /\ \A n \in Steps : f[n] = IF n = 1 THEN <<s>> ELSE Older(f[n - 1])
    BY <1>6, <1>9
  <2> QED
    BY <2>1 DEF Older
<1>11. back = BackRule(back)
  <2> HIDE DEF BackRule
  <2> QED
    BY <1>10
<1>12. /\ back[1] = <<s>>
       /\ \A n \in 2 .. last : back[n] = Older(back[n - 1])
  <2> HIDE DEF back
  <2>1. back[1] = <<s>>
    BY <1>3, <1>11
  <2>2. \A n \in 2 .. last : n \in Steps /\ n # 1
    BY <1>3
  <2> QED
    BY <1>11, <2>1, <2>2 DEF Older
<1>13. back[last] \in X
  <2> DEFINE S == {n \in Nat : n + 1 \in Steps => back[n + 1] \in X}
  <2> HIDE DEF back
  <2>1. 0 \in S
    <3> HIDE DEF X
    <3>1. back[1] \in X /\ 0 + 1 = 1
      BY <1>2, <1>12
    <3> QED
      BY <3>1
  <2>2. \A n \in Nat : n \in S => n + 1 \in S
    <3> SUFFICES ASSUME NEW n \in Nat, n \in S, n + 2 \in Steps
                 PROVE  back[n + 2] \in X
      <4>1. \A n \in Nat : (n + 1) + 1 = n + 2 /\ n + 1 \in Nat
        OBVIOUS
      <4> HIDE DEF X
      <4> QED
        BY <4>1
    <3>1. n + 2 \in 2 .. last /\ (n + 2) - 1 = n + 1 /\ n + 1 \in Steps
      BY <1>3
    <3> QED
      BY <1>12, <3>1, StepsTyped
  <2>3. last - 1 \in Nat /\ (last - 1) + 1 = last /\ last \in Steps
    BY <1>3
  <2>4. last - 1 \in S
    <3> HIDE DEF S
    <3> QED
      BY <2>1, <2>2, <2>3, Induction
  <2> QED
    BY <2>3, <2>4
<1> HIDE DEF back
<1>14. PICK g : AreRounds(g, last, X, newer, back[last])
  BY <1>5, <1>13
<1>15. g = OnRule(back, g)
  <2> HIDE DEF X, newer
  <2>1. /\ g \in [Steps -> X]
        /\ \A n \in Steps : g[n] = IF n = 1 THEN back[last] ELSE Newer(g[n - 1])
    BY <1>7, <1>14
  <2> QED
    BY <2>1 DEF Newer
<1>16. on = OnRule(back, on)
  <2> HIDE DEF OnRule
  <2> QED
    BY <1>15
<1>17. /\ on[1] = back[last]
       /\ \A n \in 2 .. last : on[n] = Newer(on[n - 1])
  <2> HIDE DEF on
  <2>1. on[1] = back[last]
    BY <1>3, <1>16
  <2>2. \A n \in 2 .. last : n \in Steps /\ n # 1
    BY <1>3
  <2> QED
    BY <1>16, <2>1, <2>2 DEF Newer
<1> HIDE DEF on
<1> QED
  BY <1>8, <1>12, <1>17 DEF ThereAndBack

(* A part of a chain, and what one more session at either end makes of it. *)
IsWindow(X, c, a, b, w) ==
  /\ w \in Seq(X) /\ Len(w) = b - a + 1 /\ w # <<>>
  /\ w[1] = c[a] /\ Last(w) = c[b]
  /\ Range(w) = {c[j] : j \in a .. b}
  /\ a > 1 => <<c[a - 1]>> \o w = SubSeq(c, a - 1, b)
  /\ b < Len(c) => Append(w, c[b + 1]) = SubSeq(c, a, b + 1)

LEMMA Windows ==
  ASSUME NEW X, NEW c \in Seq(X), NEW a \in Nat, NEW b \in Nat,
         1 <= a, a <= b, b <= Len(c), NEW w, w = SubSeq(c, a, b)
  PROVE  IsWindow(X, c, a, b, w)
<1>1. /\ w \in Seq(X) /\ Len(w) = b - a + 1 /\ w # <<>>
      /\ \A k \in 1 .. b - a + 1 : w[k] = c[a + k - 1]
  OBVIOUS
<1>2. w[1] = c[a] /\ Last(w) = c[b]
  <2>1. w[1] = c[a + 1 - 1] /\ w[b - a + 1] = c[a + (b - a + 1) - 1]
    BY <1>1
  <2>2. a + 1 - 1 = a /\ a + (b - a + 1) - 1 = b
    OBVIOUS
  <2> QED
    BY <1>1, <2>1, <2>2 DEF Last
<1>3. Range(w) = {c[j] : j \in a .. b}
  <2>1. DOMAIN w = 1 .. b - a + 1
    BY <1>1
  <2>2. \A k \in 1 .. b - a + 1 : a + k - 1 \in a .. b
    OBVIOUS
  <2>3. \A j \in a .. b : j - a + 1 \in 1 .. b - a + 1 /\ a + (j - a + 1) - 1 = j
    OBVIOUS
  <2>4. \A j \in a .. b : w[j - a + 1] = c[j]
    BY <1>1, <2>3
  <2>5. \A j \in a .. b : c[j] \in Range(w)
    BY <2>1, <2>3, <2>4 DEF Range
  <2>6. \A x \in Range(w) : \E j \in a .. b : x = c[j]
    <3> SUFFICES ASSUME NEW k \in 1 .. b - a + 1
                 PROVE  \E j \in a .. b : w[k] = c[j]
      BY <2>1 DEF Range
    <3> QED
      BY <1>1, <2>2
  <2> QED
    BY <2>5, <2>6
<1>4. ASSUME a > 1
      PROVE  <<c[a - 1]>> \o w = SubSeq(c, a - 1, b)
  <2> DEFINE v == <<c[a - 1]>> \o w
             u == SubSeq(c, a - 1, b)
  <2>1. a - 1 \in 1 .. Len(c) /\ c[a - 1] \in X
    BY <1>4
  <2>2. v \in Seq(X) /\ Len(v) = b - a + 2 /\ v[1] = c[a - 1]
        /\ \A k \in 2 .. b - a + 2 : v[k] = w[k - 1]
    BY <1>1, <2>1
  <2>3. u \in Seq(X) /\ Len(u) = b - a + 2
        /\ \A k \in 1 .. b - a + 2 : u[k] = c[a - 1 + k - 1]
    BY <1>4
  <2>4. ASSUME NEW k \in 1 .. b - a + 2
        PROVE  v[k] = u[k]
    <3>1. CASE k = 1
      <4>1. a - 1 + k - 1 = a - 1
        BY <1>4, <3>1
      <4> QED
        BY <2>2, <2>3, <3>1, <4>1
    <3>2. CASE k # 1
      <4>1. k \in 2 .. b - a + 2 /\ k - 1 \in 1 .. b - a + 1
            /\ a + (k - 1) - 1 = a - 1 + k - 1
        BY <3>2
      <4> QED
        BY <1>1, <2>2, <2>3, <4>1
    <3> QED
      BY <3>1, <3>2
  <2> HIDE DEF u, v
  <2>5. u = v
    BY <2>2, <2>3, <2>4, SeqEqual
  <2> QED
    BY <2>5 DEF u, v
<1>5. ASSUME b < Len(c)
      PROVE  Append(w, c[b + 1]) = SubSeq(c, a, b + 1)
  <2> DEFINE v == Append(w, c[b + 1])
             u == SubSeq(c, a, b + 1)
  <2>1. b + 1 \in 1 .. Len(c) /\ c[b + 1] \in X
    BY <1>5
  <2>2. v \in Seq(X) /\ Len(v) = b - a + 2 /\ v[b - a + 2] = c[b + 1]
        /\ \A k \in 1 .. b - a + 1 : v[k] = w[k]
    BY <1>1, <2>1
  <2>3. u \in Seq(X) /\ Len(u) = b - a + 2
        /\ \A k \in 1 .. b - a + 2 : u[k] = c[a + k - 1]
    BY <1>5
  <2>4. ASSUME NEW k \in 1 .. b - a + 2
        PROVE  v[k] = u[k]
    <3>1. CASE k = b - a + 2
      <4>1. a + k - 1 = b + 1
        BY <3>1
      <4> QED
        BY <2>2, <2>3, <3>1, <4>1
    <3>2. CASE k # b - a + 2
      <4>1. k \in 1 .. b - a + 1
        BY <3>2
      <4> QED
        BY <1>1, <2>2, <2>3, <4>1
    <3> QED
      BY <3>1, <3>2
  <2> HIDE DEF u, v
  <2>5. u = v
    BY <2>2, <2>3, <2>4, SeqEqual
  <2> QED
    BY <2>5 DEF u, v
<1> QED
  BY <1>1, <1>2, <1>3, <1>4, <1>5 DEF IsWindow

(* Everything has come: the chain goes by the links, both ways.            *)
LEMMA SettledLinks ==
  ASSUME TypeOK, LinkedBack, Settled, NEW L, OldestFirst(L), Range(L) = Sessions,
         NEW h, IsHead(L, h), NEW c, ChainFrom(L, h, c), Resumers(L, Last(c)) = {}
  PROVE  /\ From(c[1]) \in {NoSession, c[1]}
         /\ \A k \in 2 .. Len(c) : From(c[k]) = c[k - 1]
         /\ \A k \in 1 .. Len(c) - 1 : By(c[k]) = c[k + 1]
         /\ By(c[Len(c)]) = NoSession
<1>1. /\ DOMAIN c = 1 .. Len(c) /\ Len(c) \in Nat \ {0} /\ c[1] = h
      /\ Last(c) = c[Len(c)] /\ \A k \in DOMAIN c : c[k] \in Sessions
  BY DEF ChainFrom, Last
<1>2. \A t \in Sessions : /\ rows[t] # NoRow /\ 1 \in rows[t].seqs
                          /\ ResumedFrom(t) = resumed[t] /\ From(t) = resumed[t]
                          /\ By(t) = rows[t].resumedBy
                          /\ resumed[t] \in Sessions \cup {NoSession}
                          /\ By(t) \in Sessions \cup {NoSession}
  <2>1. \A t \in Sessions : rows[t] # NoRow /\ rows[t].seqs = 1 .. Length[t]
    BY DEF Settled
  <2>2. \A t \in Sessions : 1 \in 1 .. Length[t]
    BY JourneysAssumption
  <2>3. resumed \in [Sessions -> Sessions \cup {NoSession}]
    BY JourneysAssumption DEF TypeOK
  <2> QED
    BY <2>1, <2>2, <2>3 DEF From, By, ResumedFrom, TypeOK, Row
<1>3. From(c[1]) \in {NoSession, c[1]}
  BY <1>1, <1>2 DEF IsHead
<1>4. \A k \in 2 .. Len(c) : From(c[k]) = c[k - 1]
  <2> SUFFICES ASSUME NEW k \in 2 .. Len(c)
               PROVE  From(c[k]) = c[k - 1]
    OBVIOUS
  <2>1. k \in DOMAIN c /\ k # 1
    BY <1>1
  <2> QED
    BY <1>1, <1>2, <2>1, ChainBack DEF Resumes, OldestFirst
<1>5. \A k \in 1 .. Len(c) - 1 : By(c[k]) = c[k + 1]
  <2> SUFFICES ASSUME NEW k \in 1 .. Len(c) - 1
               PROVE  By(c[k]) = c[k + 1]
    OBVIOUS
  <2>1. /\ k \in DOMAIN c /\ k + 1 \in DOMAIN c /\ k + 1 \in 2 .. Len(c)
        /\ (k + 1) - 1 = k
    BY <1>1
  <2>2. From(c[k + 1]) = c[k]
    BY <1>4, <2>1
  <2>3. c[k] \in Sessions /\ c[k + 1] \in Sessions
    BY <1>1, <2>1
  <2>4. resumed[c[k + 1]] = c[k] /\ c[k] # NoSession
    BY <1>2, <2>2, <2>3, JourneysAssumption
  <2> QED
    BY <1>2, <2>3, <2>4 DEF Settled
<1>6. By(c[Len(c)]) = NoSession
  <2> DEFINE t == c[Len(c)]
             by == By(t)
  <2> SUFFICES ASSUME by # NoSession
               PROVE  FALSE
    OBVIOUS
  <2>1. t \in Sessions
    BY <1>1
  <2>2. by \in Sessions /\ by # t /\ resumed[by] = t
    BY <1>2, <2>1 DEF LinkedBack
  <2>3. Resumes(by, t)
    BY <1>2, <2>2 DEF Resumes
  <2>4. \E n \in DOMAIN L : L[n] = by
    BY <2>2 DEF Range
  <2> QED
    BY <1>1, <2>3, <2>4 DEF Resumers
<1> QED
  BY <1>3, <1>4, <1>5, <1>6

LEMMA NextPlace ==
  ASSUME NEW b \in Nat, NEW n \in Nat, 1 <= b, b <= n, b # n
  PROVE  b < n /\ b \in 1 .. n - 1 /\ b + 1 \in 1 .. n
OBVIOUS

LEMMA OnePlaceLower ==
  ASSUME NEW i \in Nat, 1 <= i, NEW n \in Nat, NEW low, NEW lower,
         low = IF n + 1 <= i THEN i - (n + 1) + 1 ELSE 1,
         lower = IF n + 2 <= i THEN i - (n + 2) + 1 ELSE 1
  PROVE  low \in 1 .. i /\ lower = IF low = 1 THEN low ELSE low - 1
<1>1. CASE n + 2 <= i
  <2>1. low = i - n /\ lower = i - n - 1 /\ low # 1
    BY <1>1
  <2> QED
    BY <1>1, <2>1
<1>2. CASE n + 1 = i
  <2>1. low = 1 /\ lower = 1
    BY <1>2
  <2> QED
    BY <2>1
<1>3. CASE n + 1 > i
  <2>1. low = 1 /\ lower = 1
    BY <1>3
  <2> QED
    BY <2>1
<1> QED
  BY <1>1, <1>2, <1>3

LEMMA ChainIsDetail ==
  ASSUME TypeOK, LinkedBack, Settled, NEW L, OldestFirst(L), Range(L) = Sessions,
         NEW h, IsHead(L, h), NEW c, ChainFrom(L, h, c), Resumers(L, Last(c)) = {},
         NEW s \in Range(c)
  PROVE  ChainOf(s) = c
<1> DEFINE last == Cardinality(Sessions) + 1
<1>1. /\ DOMAIN c = 1 .. Len(c) /\ Len(c) \in Nat \ {0} /\ c \in Seq(Sessions)
      /\ IsInjective(c) /\ \A k \in DOMAIN c : c[k] \in Sessions
      /\ Len(c) \in Nat
  BY DEF ChainFrom
<1>2. Cardinality(Sessions) \in Nat /\ Len(c) <= Cardinality(Sessions)
  <2>1. c \in Injection(1 .. Len(c), Sessions)
    BY <1>1 DEF Injection
  <2>2. Cardinality(1 .. Len(c)) = Len(c)
    BY <1>1, FS_Interval
  <2> QED
    BY <2>1, <2>2, JourneysAssumption, FS_Injection, FS_CardinalityType
<1>3. /\ From(c[1]) \in {NoSession, c[1]}
      /\ \A k \in 2 .. Len(c) : From(c[k]) = c[k - 1]
      /\ \A k \in 1 .. Len(c) - 1 : By(c[k]) = c[k + 1]
      /\ By(c[Len(c)]) = NoSession
  BY SettledLinks
<1>4. PICK i \in DOMAIN c : s = c[i]
  BY DEF Range
<1>5. i \in Nat /\ 1 <= i /\ i <= Len(c) /\ s \in Sessions
  BY <1>1, <1>4
<1>6. PICK back, on : ThereAndBack(s, last, back, on)
  <2>1. last = Cardinality(Sessions) + 1
    OBVIOUS
  <2> HIDE DEF last
  <2> QED
    BY <1>5, <2>1, ChainOfRounds
<1> DEFINE Low(n)  == IF n <= i THEN i - n + 1 ELSE 1
           High(n) == IF i + n - 1 <= Len(c) THEN i + n - 1 ELSE Len(c)
<1>7. last \in Nat \ {0} /\ Low(last) = 1 /\ High(last) = Len(c)
  BY <1>2, <1>5
<1> HIDE DEF last
<1>8. ASSUME NEW a \in 1 .. i, NEW w, w = SubSeq(c, a, i)
      PROVE  Older(w) = IF a = 1 THEN w ELSE SubSeq(c, a - 1, i)
  <2>1. a \in Nat /\ 1 <= a /\ a <= i /\ i <= Len(c) /\ a \in DOMAIN c
    BY <1>1, <1>5
  <2>2. /\ w[1] = c[a] /\ Range(w) = {c[j] : j \in a .. i}
        /\ a > 1 => <<c[a - 1]>> \o w = SubSeq(c, a - 1, i)
    <3>1. IsWindow(Sessions, c, a, i, w)
      BY <1>1, <1>5, <1>8, <2>1, Windows
    <3> QED
      BY <3>1 DEF IsWindow
  <2>3. CASE a = 1
    <3>1. c[1] \in Range(w)
      BY <2>1, <2>2, <2>3
    <3>2. Older(w) = w
      BY <1>3, <2>2, <2>3, <3>1 DEF Older
    <3> QED
      BY <2>3, <3>2
  <2>4. CASE a # 1
    <3>1. a > 1 /\ a \in 2 .. Len(c) /\ a - 1 \in DOMAIN c
      BY <1>1, <2>1, <2>4
    <3>2. From(w[1]) = c[a - 1]
      BY <1>3, <2>2, <3>1
    <3>3. c[a - 1] # NoSession
      BY <1>1, <3>1, JourneysAssumption
    <3>4. c[a - 1] \notin Range(w)
      <4> SUFFICES ASSUME NEW j \in a .. i, c[a - 1] = c[j]
                   PROVE  FALSE
        BY <2>2
      <4>1. j \in DOMAIN c /\ j # a - 1
        BY <1>1, <2>1
      <4> QED
        BY <1>1, <3>1, <4>1 DEF IsInjective
    <3>5. Older(w) = <<c[a - 1]>> \o w
      BY <3>2, <3>3, <3>4 DEF Older
    <3> QED
      BY <2>2, <2>4, <3>1, <3>5
  <2> QED
    BY <2>3, <2>4
<1>9. ASSUME NEW b \in i .. Len(c), NEW w, w = SubSeq(c, 1, b)
      PROVE  Newer(w) = IF b = Len(c) THEN w ELSE SubSeq(c, 1, b + 1)
  <2>1. b \in Nat /\ 1 \in Nat /\ 1 <= 1 /\ 1 <= b /\ b <= Len(c) /\ b \in DOMAIN c
    BY <1>1, <1>5
  <2>2. /\ Last(w) = c[b] /\ Range(w) = {c[j] : j \in 1 .. b}
        /\ b < Len(c) => Append(w, c[b + 1]) = SubSeq(c, 1, b + 1)
    <3>1. IsWindow(Sessions, c, 1, b, w)
      BY <1>1, <1>9, <2>1, Windows
    <3> QED
      BY <3>1 DEF IsWindow
  <2>3. CASE b = Len(c)
    <3>1. Newer(w) = w
      BY <1>3, <2>2, <2>3 DEF Newer
    <3> QED
      BY <2>3, <3>1
  <2>4. CASE b # Len(c)
    <3>1. b < Len(c) /\ b \in 1 .. Len(c) - 1 /\ b + 1 \in DOMAIN c
      <4>1. b + 1 \in 1 .. Len(c) /\ b < Len(c) /\ b \in 1 .. Len(c) - 1
        BY <1>1, <2>1, <2>4, NextPlace
      <4> QED
        BY <1>1, <4>1
    <3>2. By(Last(w)) = c[b + 1]
      BY <1>3, <2>2, <3>1
    <3>3. c[b + 1] # NoSession
      BY <1>1, <3>1, JourneysAssumption
    <3>4. c[b + 1] \notin Range(w)
      <4> SUFFICES ASSUME NEW j \in 1 .. b, c[b + 1] = c[j]
                   PROVE  FALSE
        BY <2>2
      <4>1. j \in DOMAIN c /\ j # b + 1
        BY <1>1, <2>1
      <4> QED
        BY <1>1, <3>1, <4>1 DEF IsInjective
    <3>5. Newer(w) = Append(w, c[b + 1])
      BY <3>2, <3>3, <3>4 DEF Newer
    <3> QED
      BY <2>2, <2>4, <3>1, <3>5
  <2> QED
    BY <2>3, <2>4
<1>10. back[last] = SubSeq(c, 1, i)
  <2> DEFINE S == {n \in Nat : n + 1 \in 1 .. last => back[n + 1] = SubSeq(c, Low(n + 1), i)}
  <2>1. 0 \in S
    <3>1. <<s>> = SubSeq(c, i, i)
      <4>1. PICK w : w = SubSeq(c, i, i)
        OBVIOUS
      <4>2. w \in Seq(Sessions) /\ Len(w) = i - i + 1 /\ w[1] = c[i]
        BY <1>1, <1>5, <4>1, Windows DEF IsWindow
      <4>3. Len(w) = 1
        BY <1>5, <4>2
      <4>4. w = <<s>>
        <5>1. \A k \in 1 .. Len(w) : w[k] = <<s>>[k]
          BY <1>4, <4>2, <4>3
        <5>2. <<s>> \in Seq(Sessions) /\ Len(<<s>>) = 1
          BY <1>5
        <5> QED
          BY <4>2, <4>3, <5>1, <5>2, SeqEqual
      <4> QED
        BY <4>1, <4>4
    <3>2. Low(1) = i
      BY <1>5
    <3>3. 0 + 1 = 1
      OBVIOUS
    <3> HIDE DEF Low
    <3> QED
      BY <1>6, <3>1, <3>2, <3>3 DEF ThereAndBack
  <2>2. \A n \in Nat : n \in S => n + 1 \in S
    <3> SUFFICES ASSUME NEW n \in Nat, n \in S, n + 2 \in 1 .. last
                 PROVE  back[n + 2] = SubSeq(c, Low(n + 2), i)
      <4>1. \A n \in Nat : (n + 1) + 1 = n + 2 /\ n + 1 \in Nat
        OBVIOUS
      <4> HIDE DEF Low
      <4> QED
        BY <4>1
    <3>1. n + 1 \in 1 .. last /\ n + 2 \in 2 .. last /\ (n + 2) - 1 = n + 1
      BY <1>7
    <3>2. back[n + 1] = SubSeq(c, Low(n + 1), i)
      BY <3>1
    <3>3. /\ Low(n + 1) \in 1 .. i
          /\ Low(n + 2) = IF Low(n + 1) = 1 THEN Low(n + 1) ELSE Low(n + 1) - 1
      <4>1. PICK low, lower : low = Low(n + 1) /\ lower = Low(n + 2)
        OBVIOUS
      <4>2. low \in 1 .. i /\ lower = IF low = 1 THEN low ELSE low - 1
        BY <1>5, <4>1, OnePlaceLower
      <4> HIDE DEF Low
      <4> QED
        BY <4>1, <4>2
    <3> HIDE DEF Low
    <3>4. back[n + 2] = Older(back[n + 1])
      BY <1>6, <3>1 DEF ThereAndBack
    <3> QED
      BY <1>8, <3>2, <3>3, <3>4
  <2>3. last - 1 \in Nat /\ (last - 1) + 1 = last /\ last \in 1 .. last
    BY <1>7
  <2>4. last - 1 \in S
    <3> HIDE DEF S
    <3> QED
      BY <2>1, <2>2, <2>3, Induction
  <2>5. back[last] = SubSeq(c, Low(last), i)
    <3> HIDE DEF Low
    <3> QED
      BY <2>3, <2>4
  <2> HIDE DEF Low
  <2> QED
    BY <1>7, <2>5
<1>11. on[last] = SubSeq(c, 1, Len(c))
  <2> DEFINE S == {n \in Nat : n + 1 \in 1 .. last => on[n + 1] = SubSeq(c, 1, High(n + 1))}
  <2>1. 0 \in S
    <3>1. High(1) = i
      BY <1>5
    <3> HIDE DEF High
    <3> QED
      BY <1>6, <1>10, <3>1 DEF ThereAndBack
  <2>2. \A n \in Nat : n \in S => n + 1 \in S
    <3> SUFFICES ASSUME NEW n \in Nat, n \in S, n + 2 \in 1 .. last
                 PROVE  on[n + 2] = SubSeq(c, 1, High(n + 2))
      <4>1. \A n \in Nat : (n + 1) + 1 = n + 2 /\ n + 1 \in Nat
        OBVIOUS
      <4> HIDE DEF High
      <4> QED
        BY <4>1
    <3>1. n + 1 \in 1 .. last /\ n + 2 \in 2 .. last /\ (n + 2) - 1 = n + 1
      BY <1>7
    <3>2. on[n + 1] = SubSeq(c, 1, High(n + 1))
      BY <3>1
    <3>3. /\ High(n + 1) \in i .. Len(c)
          /\ High(n + 2) = IF High(n + 1) = Len(c) THEN High(n + 1) ELSE High(n + 1) + 1
      BY <1>1, <1>5
    <3> HIDE DEF High
    <3>4. on[n + 2] = Newer(on[n + 1])
      BY <1>6, <3>1 DEF ThereAndBack
    <3> QED
      BY <1>9, <3>2, <3>3, <3>4
  <2>3. last - 1 \in Nat /\ (last - 1) + 1 = last /\ last \in 1 .. last
    BY <1>7
  <2>4. last - 1 \in S
    <3> HIDE DEF S
    <3> QED
      BY <2>1, <2>2, <2>3, Induction
  <2>5. on[last] = SubSeq(c, 1, High(last))
    <3> HIDE DEF High
    <3> QED
      BY <2>3, <2>4
  <2> HIDE DEF High
  <2> QED
    BY <1>7, <2>5
<1>12. SubSeq(c, 1, Len(c)) = c
  BY <1>1
<1> QED
  BY <1>6, <1>11, <1>12 DEF ThereAndBack

(* Where everything has come, nothing was resumed twice and every link was *)
(* recorded, a session's detail shows the journey the reports count it in  *)
(* (queries.py:1873-1902 and 500-540).                                     *)
THEOREM ChainsAgree == Spec => []ChainAgrees
<1>1. TypeOK /\ LinkedBack => ChainAgrees
  <2> SUFFICES ASSUME TypeOK, LinkedBack, Settled, NEW q \in Questions,
                      Range(Loaded(q)) = Sessions,
                      NEW c \in Range(Chains(Included(q))), NEW s \in Range(c)
               PROVE  ChainOf(s) = c
    BY DEF ChainAgrees
  <2> DEFINE L == Included(q)
  <2>1. OldestFirst(L)
    BY IncludedOldestFirst
  <2>2. \A t \in Sessions : t \in Present /\ Matches(q, t)
    <3>1. {t \in Present : Matches(q, t)} \in SUBSET Present
      OBVIOUS
    <3>2. Range(Loaded(q)) = {t \in Present : Matches(q, t)}
      BY <3>1, SortedLists DEF Loaded
    <3> QED
      BY <3>2
  <2>3. \A t \in Sessions : ~ Excluded(t)
    <3> SUFFICES ASSUME NEW t \in Sessions
                 PROVE  ~ MissingHead(t) /\ ~ Gapped(t)
      BY DEF Excluded
    <3>1. rows[t].seqs = 1 .. Length[t] /\ Length[t] \in Nat \ {0}
      BY JourneysAssumption DEF Settled
    <3>2. ~ MissingHead(t)
      BY <3>1 DEF MissingHead
    <3>3. Max(1 .. Length[t]) \in 1 .. Length[t]
      <4>1. PICK b, N : /\ b = Length[t] /\ N = 1 .. b /\ N # {}
                         /\ b \in Nat /\ N \in SUBSET (1 .. b)
        <5>1. 1 \in 1 .. Length[t] /\ Length[t] \in Nat
          BY <3>1
        <5> QED
          BY <5>1
      <4>2. Max(N) \in N
        BY <4>1, GreatestNumber
      <4> QED
        BY <4>1, <4>2
    <3>4. ~ Gapped(t)
      BY <3>1, <3>3 DEF Gapped
    <3> QED
      BY <3>2, <3>4
  <2>4. Range(L) = Sessions
    <3> DEFINE S == {t \in Present : /\ Matches(q, t)
                                     /\ ~ q.incomplete => ~ Excluded(t)}
    <3>1. S \in SUBSET Present /\ L = Sorted(S)
      BY DEF Included
    <3>2. S = Sessions
      BY <2>2, <2>3 DEF Present
    <3> HIDE DEF S, L
    <3> QED
      BY <3>1, <3>2, SortedLists
  <2> HIDE DEF L
  <2>5. \E h : /\ IsHead(L, h) /\ ChainFrom(L, h, c)
               /\ Resumers(L, Last(c)) = {}
    <3>1. \E n \in DOMAIN Chains(L) : c = Chains(L)[n]
      BY DEF L, Range
    <3> QED
      BY <2>1, <3>1, ChainsListed DEF OldestFirst
  <2> QED
    BY <2>1, <2>4, <2>5, ChainIsDetail
<1> QED
  BY <1>1, StateAlways, PTL

-----------------------------------------------------------------------------
(* Journeys of a part of the sessions.                                     *)

(* A chain that nothing goes on from is the only one from its head.        *)
LEMMA OneChain ==
  ASSUME NEW L, Distinct(L), NEW h, NEW c, NEW d,
         ChainFrom(L, h, c), Resumers(L, Last(c)) = {},
         ChainFrom(L, h, d), Resumers(L, Last(d)) = {}
  PROVE  c = d
<1>1. /\ DOMAIN c = 1 .. Len(c) /\ Len(c) \in Nat \ {0} /\ Last(c) = c[Len(c)] /\ c[1] = h
      /\ DOMAIN d = 1 .. Len(d) /\ Len(d) \in Nat \ {0} /\ Last(d) = d[Len(d)] /\ d[1] = h
  BY DEF ChainFrom, Last
<1> DEFINE N == {i \in DOMAIN c \cap DOMAIN d : c[i] # d[i]}
<1>2. N = {}
  <2> SUFFICES ASSUME N # {}
               PROVE  FALSE
    OBVIOUS
  <2>1. N \in SUBSET Nat
    BY <1>1
  <2>2. PICK m \in N : \A k \in N : m <= k
    BY <2>1, LeastNumber
  <2>3. m \in DOMAIN c /\ m \in DOMAIN d /\ c[m] # d[m] /\ m # 1
    BY <1>1, <2>2
  <2>4. m - 1 \in 1 .. Len(c) - 1 /\ m - 1 \in 1 .. Len(d) - 1 /\ (m - 1) + 1 = m
    BY <1>1, <2>3
  <2>5. c[m - 1] = d[m - 1]
    <3>1. m - 1 \in DOMAIN c \cap DOMAIN d /\ ~(m <= m - 1)
      BY <1>1, <2>4
    <3> QED
      BY <2>2, <3>1
  <2>6. c[m] = Successor(L, c[m - 1]) /\ d[m] = Successor(L, d[m - 1])
    BY <2>4 DEF ChainFrom
  <2> QED
    BY <2>3, <2>5, <2>6
<1>3. Len(c) = Len(d)
  <2>1. ASSUME Len(c) < Len(d)
        PROVE  FALSE
    <3>1. Len(c) \in 1 .. Len(d) - 1 /\ Len(c) \in DOMAIN c \cap DOMAIN d
      BY <1>1, <2>1
    <3>2. c[Len(c)] = d[Len(c)] /\ Resumers(L, d[Len(c)]) # {}
      BY <1>2, <3>1 DEF ChainFrom
    <3> QED
      BY <1>1, <3>2
  <2>2. ASSUME Len(d) < Len(c)
        PROVE  FALSE
    <3>1. Len(d) \in 1 .. Len(c) - 1 /\ Len(d) \in DOMAIN c \cap DOMAIN d
      BY <1>1, <2>2
    <3>2. c[Len(d)] = d[Len(d)] /\ Resumers(L, c[Len(d)]) # {}
      BY <1>2, <3>1 DEF ChainFrom
    <3> QED
      BY <1>1, <3>2
  <2>3. Len(c) \in Nat /\ Len(d) \in Nat
    BY <1>1
  <2>4. ~(Len(c) < Len(d)) /\ ~(Len(d) < Len(c))
    BY <2>1, <2>2
  <2> QED
    BY ONLY <2>3, <2>4
<1>4. \A i \in 1 .. Len(c) : c[i] = d[i]
  BY <1>1, <1>2, <1>3
<1>5. c \in Seq(Range(L)) /\ d \in Seq(Range(L))
  BY DEF ChainFrom
<1> HIDE DEF N
<1> QED
  BY <1>3, <1>4, <1>5

(* The complete chains from the heads of a list are its chains.            *)
LEMMA ChainsExactly ==
  ASSUME NEW L, Distinct(L), NEW chains, chains = Chains(L)
  PROVE  /\ chains \in Seq(Seq(Sessions)) /\ IsInjective(chains)
         /\ \A c : c \in Range(chains) <=>
              \E h \in Range(L) :
                IsHead(L, h) /\ ChainFrom(L, h, c) /\ Resumers(L, Last(c)) = {}
<1> DEFINE H == Heads(L)
<1>1. /\ H \in Seq(Sessions) /\ IsInjective(H) /\ Range(H) = {s \in Range(L) : IsHead(L, s)}
  BY HeadsListed
<1>2. /\ DOMAIN chains = DOMAIN H
      /\ \A n \in DOMAIN H :
           /\ H[n] \in Range(L) /\ IsHead(L, H[n])
           /\ ChainFrom(L, H[n], chains[n])
           /\ Resumers(L, Last(chains[n])) = {}
  BY ChainsListed
<1> HIDE DEF H
<1>3. \A n \in DOMAIN H : chains[n] \in Seq(Sessions) /\ chains[n][1] = H[n]
  <2>1. \A x \in Range(L) : x \in Sessions
    BY DEF Distinct, Range
  <2>2. \A c \in Seq(Range(L)) : c \in Seq(Sessions)
    BY <2>1
  <2> QED
    BY <1>2, <2>2 DEF ChainFrom
<1>4. chains \in Seq(Seq(Sessions))
  <2>1. chains = [n \in DOMAIN H |-> Segments(L, H[n])] \o <<>>
    BY DEF Chains, Listing, H
  <2>2. PICK q : q = [n \in DOMAIN H |-> Segments(L, H[n])]
    OBVIOUS
  <2>3. q \in Seq({q[n] : n \in DOMAIN H})
    BY <1>1, <2>2
  <2>4. chains = q
    BY <2>1, <2>2, <2>3
  <2> QED
    BY <1>1, <1>2, <1>3, <2>3, <2>4
<1>5. IsInjective(chains)
  BY <1>1, <1>2, <1>3 DEF IsInjective
<1>6. ASSUME NEW c \in Range(chains)
      PROVE  \E h \in Range(L) :
               IsHead(L, h) /\ ChainFrom(L, h, c) /\ Resumers(L, Last(c)) = {}
  BY <1>2 DEF Range
<1>7. ASSUME NEW c, NEW h \in Range(L), IsHead(L, h), ChainFrom(L, h, c),
             Resumers(L, Last(c)) = {}
      PROVE  c \in Range(chains)
  <2>1. PICK n \in DOMAIN H : H[n] = h
    BY <1>1, <1>7 DEF Range
  <2>2. c = chains[n]
    BY <1>2, <1>7, <2>1, OneChain
  <2> QED
    BY <1>2, <2>2 DEF Range
<1> QED
  BY <1>4, <1>5, <1>6, <1>7

(* A part of a list in which whoever carries on a session does, and a head *)
(* is one.                                                                 *)
KeepsLinks(part, L) ==
  /\ Distinct(part) /\ Range(part) \subseteq Range(L)
  /\ \A s \in Range(part) :
       /\ IsHead(part, s) <=> IsHead(L, s)
       /\ Resumers(part, s) = {} <=> Resumers(L, s) = {}
       /\ Resumers(L, s) # {} => Successor(part, s) = Successor(L, s)

LEMMA SameJourneys ==
  ASSUME NEW L, Distinct(L), NEW part, KeepsLinks(part, L)
  PROVE  Range(Chains(part)) = {c \in Range(Chains(L)) : c[1] \in Range(part)}
<1>1. Distinct(part) /\ Range(part) \subseteq Range(L)
  BY DEF KeepsLinks
<1>2. \A c : c \in Range(Chains(L)) <=>
        \E h \in Range(L) : IsHead(L, h) /\ ChainFrom(L, h, c) /\ Resumers(L, Last(c)) = {}
  BY ChainsExactly
<1>3. \A c : c \in Range(Chains(part)) <=>
        \E h \in Range(part) :
          IsHead(part, h) /\ ChainFrom(part, h, c) /\ Resumers(part, Last(c)) = {}
  BY <1>1, ChainsExactly
<1>4. ASSUME NEW c, NEW h \in Range(part), IsHead(part, h), ChainFrom(part, h, c),
             Resumers(part, Last(c)) = {}
      PROVE  /\ IsHead(L, h) /\ ChainFrom(L, h, c) /\ Resumers(L, Last(c)) = {}
             /\ h \in Range(L) /\ c[1] = h
  <2>1. /\ c \in Seq(Range(part)) /\ c # <<>> /\ c[1] = h /\ IsInjective(c)
        /\ \A i \in 1 .. Len(c) - 1 :
             Resumers(part, c[i]) # {} /\ c[i + 1] = Successor(part, c[i])
    BY <1>4 DEF ChainFrom
  <2>2. /\ Len(c) \in Nat \ {0} /\ DOMAIN c = 1 .. Len(c) /\ Last(c) = c[Len(c)]
        /\ \A i \in DOMAIN c : c[i] \in Range(part)
    BY <2>1 DEF Last
  <2>3. c \in Seq(Range(L))
    BY <1>1, <2>1
  <2>4. \A i \in 1 .. Len(c) - 1 : Resumers(L, c[i]) # {} /\ c[i + 1] = Successor(L, c[i])
    <3> SUFFICES ASSUME NEW i \in 1 .. Len(c) - 1
                 PROVE  Resumers(L, c[i]) # {} /\ c[i + 1] = Successor(L, c[i])
      OBVIOUS
    <3>1. c[i] \in Range(part)
      BY <2>2
    <3> QED
      BY <2>1, <3>1 DEF KeepsLinks
  <2>5. Last(c) \in Range(part)
    BY <2>2
  <2>6. Resumers(L, Last(c)) = {}
    BY <1>4, <2>5 DEF KeepsLinks
  <2>7. IsHead(L, h) /\ h \in Range(L)
    BY <1>4 DEF KeepsLinks
  <2> QED
    BY <2>1, <2>3, <2>4, <2>6, <2>7 DEF ChainFrom
<1>5. ASSUME NEW c \in Range(Chains(part))
      PROVE  c \in Range(Chains(L)) /\ c[1] \in Range(part)
  BY <1>2, <1>3, <1>4
<1>6. ASSUME NEW d \in Range(Chains(L)), d[1] \in Range(part)
      PROVE  d \in Range(Chains(part))
  <2>1. PICK h \in Range(L) :
          IsHead(L, h) /\ ChainFrom(L, h, d) /\ Resumers(L, Last(d)) = {}
    BY <1>2, <1>6
  <2>2. h = d[1] /\ IsHead(part, h)
    BY <1>6, <2>1 DEF ChainFrom, KeepsLinks
  <2> DEFINE c == Segments(part, h)
  <2>3. ChainFrom(part, h, c) /\ Resumers(part, Last(c)) = {}
    BY <1>1, <1>6, <2>2, SegmentsChain
  <2>4. ChainFrom(L, h, c) /\ Resumers(L, Last(c)) = {}
    BY <1>4, <1>6, <2>2, <2>3
  <2> HIDE DEF c
  <2>5. c = d
    BY <2>1, <2>4, OneChain
  <2> QED
    BY <1>3, <1>6, <2>2, <2>3, <2>5
<1> QED
  BY <1>5, <1>6

(* The sessions of some of the chains, one chain after another.            *)
LEMMA GatheredJourneys ==
  ASSUME NEW L, Distinct(L), NEW chains, chains = Chains(L),
         NEW P \in SUBSET (DOMAIN chains),
         NEW part, part = FlattenSeq(Picked(chains, P))
  PROVE  /\ Distinct(part)
         /\ Range(Chains(part)) = {chains[i] : i \in P}
         /\ Range(part) \subseteq Range(L)
<1>1. /\ chains \in Seq(Seq(Sessions)) /\ IsInjective(chains)
      /\ \A c : c \in Range(chains) <=>
           \E h \in Range(L) :
             IsHead(L, h) /\ ChainFrom(L, h, c) /\ Resumers(L, Last(c)) = {}
  BY ChainsExactly
<1>2. \A i \in DOMAIN chains :
        /\ \E h \in Range(L) :
             IsHead(L, h) /\ ChainFrom(L, h, chains[i]) /\ Resumers(L, Last(chains[i])) = {}
        /\ chains[i] \in Seq(Sessions) /\ IsInjective(chains[i])
        /\ Len(chains[i]) \in Nat \ {0} /\ DOMAIN chains[i] = 1 .. Len(chains[i])
        /\ Last(chains[i]) = chains[i][Len(chains[i])]
        /\ Range(chains[i]) \subseteq Range(L)
  <2> SUFFICES ASSUME NEW i \in DOMAIN chains
               PROVE  /\ \E h \in Range(L) :
                           /\ IsHead(L, h) /\ ChainFrom(L, h, chains[i])
                           /\ Resumers(L, Last(chains[i])) = {}
                      /\ chains[i] \in Seq(Sessions) /\ IsInjective(chains[i])
                      /\ Len(chains[i]) \in Nat \ {0} /\ DOMAIN chains[i] = 1 .. Len(chains[i])
                      /\ Last(chains[i]) = chains[i][Len(chains[i])]
                      /\ Range(chains[i]) \subseteq Range(L)
    OBVIOUS
  <2>1. PICK h \in Range(L) : /\ IsHead(L, h) /\ ChainFrom(L, h, chains[i])
                              /\ Resumers(L, Last(chains[i])) = {}
    BY <1>1 DEF Range
  <2>2. chains[i] \in Seq(Sessions) /\ IsInjective(chains[i]) /\ chains[i] # <<>>
    BY <1>1, <2>1 DEF ChainFrom
  <2>3. \A j \in DOMAIN chains[i] : chains[i][j] \in Range(L)
    BY <2>1 DEF ChainFrom
  <2> QED
    BY <2>1, <2>2, <2>3 DEF Last, Range
<1>3. \A i, j \in DOMAIN chains : \A m \in DOMAIN chains[i] : \A n \in DOMAIN chains[j] :
        chains[i][m] = chains[j][n] => i = j /\ m = n
  <2> SUFFICES ASSUME NEW i \in DOMAIN chains, NEW j \in DOMAIN chains,
                      NEW m \in DOMAIN chains[i], NEW n \in DOMAIN chains[j],
                      chains[i][m] = chains[j][n]
               PROVE  i = j /\ m = n
    OBVIOUS
  <2>1. PICK g \in Range(L) : /\ IsHead(L, g) /\ ChainFrom(L, g, chains[i])
                              /\ Resumers(L, Last(chains[i])) = {}
    BY <1>2
  <2>2. PICK h \in Range(L) : /\ IsHead(L, h) /\ ChainFrom(L, h, chains[j])
                              /\ Resumers(L, Last(chains[j])) = {}
    BY <1>2
  <2>3. g = h /\ m = n
    BY <2>1, <2>2, ChainsApart
  <2>4. chains[i] = chains[j]
    BY <2>1, <2>2, <2>3, OneChain
  <2> QED
    BY <1>1, <2>3, <2>4 DEF IsInjective
<1> DEFINE qs == Picked(chains, P)
<1>4. qs \in Seq(Seq(Sessions)) /\ IsInjective(qs) /\ Range(qs) = {chains[i] : i \in P}
  BY <1>1, PickedLists
<1>5. \A n \in DOMAIN qs : \E i \in P : qs[n] = chains[i]
  BY <1>4 DEF Range
<1> HIDE DEF qs
<1>6. Distinct(part) /\ Range(part) = UNION {Range(chains[i]) : i \in P}
  <2>1. \A n \in DOMAIN qs : IsInjective(qs[n])
    BY <1>2, <1>5
  <2>2. \A m, n \in DOMAIN qs : m # n => Range(qs[m]) \cap Range(qs[n]) = {}
    <3> SUFFICES ASSUME NEW m \in DOMAIN qs, NEW n \in DOMAIN qs, m # n,
                        NEW a \in DOMAIN qs[m], NEW b \in DOMAIN qs[n], qs[m][a] = qs[n][b]
                 PROVE  FALSE
      BY DEF Range
    <3>1. PICK i \in P : qs[m] = chains[i]
      BY <1>5
    <3>2. PICK j \in P : qs[n] = chains[j]
      BY <1>5
    <3>3. i = j
      BY <1>3, <3>1, <3>2
    <3> QED
      BY <1>4, <3>1, <3>2, <3>3 DEF IsInjective
  <2>3. part = FlattenSeq(qs)
    BY DEF qs
  <2>4. /\ part \in Seq(Sessions) /\ IsInjective(part)
        /\ Range(part) = UNION {Range(qs[n]) : n \in DOMAIN qs}
    BY <1>4, <2>1, <2>2, <2>3, FlattenLists
  <2>5. {Range(qs[n]) : n \in DOMAIN qs} = {Range(chains[i]) : i \in P}
    <3>1. \A i \in P : \E n \in DOMAIN qs : qs[n] = chains[i]
      BY <1>4 DEF Range
    <3> QED
      BY <1>5, <3>1
  <2> QED
    BY <2>4, <2>5 DEF Distinct
<1>7. \A s : s \in Range(part) <=> \E i \in P : \E j \in DOMAIN chains[i] : s = chains[i][j]
  <2>1. \A s : s \in Range(part) <=> \E i \in P : s \in Range(chains[i])
    BY <1>6
  <2> SUFFICES ASSUME NEW s
               PROVE  s \in Range(part) <=> \E i \in P : \E j \in DOMAIN chains[i] : s = chains[i][j]
    OBVIOUS
  <2>2. (\E i \in P : s \in Range(chains[i]))
          <=> \E i \in P : \E j \in DOMAIN chains[i] : s = chains[i][j]
    <3>1. ASSUME NEW i \in P, s \in Range(chains[i])
          PROVE  \E k \in P : \E j \in DOMAIN chains[k] : s = chains[k][j]
      BY <3>1 DEF Range
    <3>2. ASSUME NEW i \in P, NEW j \in DOMAIN chains[i], s = chains[i][j]
          PROVE  \E k \in P : s \in Range(chains[k])
      BY <3>2 DEF Range
    <3> QED
      BY <3>1, <3>2
  <2> QED
    BY <2>1, <2>2, Zenon
<1>8. Range(part) \subseteq Range(L)
  BY <1>2, <1>6
<1>9. KeepsLinks(part, L)
  <2> SUFFICES ASSUME NEW i \in P, NEW j \in DOMAIN chains[i], NEW s, s = chains[i][j]
               PROVE  /\ IsHead(part, s) <=> IsHead(L, s)
                      /\ Resumers(part, s) = {} <=> Resumers(L, s) = {}
                      /\ Resumers(L, s) # {} => Successor(part, s) = Successor(L, s)
    BY <1>6, <1>7, <1>8 DEF KeepsLinks
  <2>1. PICK h \in Range(L) : /\ IsHead(L, h) /\ ChainFrom(L, h, chains[i])
                              /\ Resumers(L, Last(chains[i])) = {}
    BY <1>2
  <2>2. /\ Len(chains[i]) \in Nat \ {0} /\ DOMAIN chains[i] = 1 .. Len(chains[i])
        /\ Last(chains[i]) = chains[i][Len(chains[i])] /\ chains[i][1] = h
        /\ s \in Range(part) /\ s \in Range(L)
    BY <1>2, <1>7, <1>8, <2>1 DEF ChainFrom
  <2>3. IsHead(part, s) <=> IsHead(L, s)
    <3>1. CASE j = 1
      BY <1>8, <2>1, <2>2, <3>1 DEF IsHead
    <3>2. CASE j # 1
      <4>1. j - 1 \in DOMAIN chains[i] /\ Resumes(s, chains[i][j - 1])
        BY <2>1, <3>2, ChainBack
      <4>2. chains[i][j - 1] \in Range(part)
        BY <1>7, <4>1
      <4> QED
        BY <1>8, <4>1, <4>2 DEF IsHead, Resumes
    <3> QED
      BY <3>1, <3>2
  <2>4. ASSUME NEW t \in Range(part), Resumes(t, s)
        PROVE  j + 1 \in DOMAIN chains[i] /\ t = chains[i][j + 1]
    <3>1. PICK k \in P : \E m \in DOMAIN chains[k] : t = chains[k][m]
      BY <1>7, <2>4
    <3>2. PICK m \in DOMAIN chains[k] : t = chains[k][m]
      BY <3>1
    <3>3. PICK g \in Range(L) : IsHead(L, g) /\ ChainFrom(L, g, chains[k])
      BY <1>2
    <3>4. m # 1
      BY <2>2, <2>4, <3>2, <3>3 DEF ChainFrom, IsHead, Resumes
    <3>5. m - 1 \in DOMAIN chains[k] /\ Resumes(t, chains[k][m - 1])
      BY <3>2, <3>3, <3>4, ChainBack
    <3>6. chains[k][m - 1] = chains[i][j]
      BY <2>4, <3>5 DEF Resumes
    <3>7. k = i /\ m - 1 = j
      BY <1>3, <3>5, <3>6
    <3>8. j + 1 = m
      BY <1>2, <3>7
    <3> QED
      BY <3>2, <3>7, <3>8
  <2>5. \A M : Resumers(M, s) # {} <=> \E t \in Range(M) : Resumes(t, s)
    BY DEF Resumers, Range
  <2>6. CASE j = Len(chains[i])
    <3>1. Resumers(L, s) = {}
      BY <2>1, <2>2, <2>6
    <3>2. Resumers(part, s) = {}
      BY <1>8, <2>5, <3>1
    <3> QED
      BY <2>3, <3>1, <3>2
  <2>7. CASE j # Len(chains[i])
    <3>1. j \in 1 .. Len(chains[i]) - 1 /\ j + 1 \in DOMAIN chains[i]
      BY <2>2, <2>7
    <3>2. Resumers(L, s) # {} /\ chains[i][j + 1] = Successor(L, s)
      BY <2>1, <3>1 DEF ChainFrom
    <3>3. chains[i][j + 1] \in Range(part) /\ Resumes(chains[i][j + 1], s)
      BY <1>7, <3>1, <3>2, Succeeds
    <3>4. Resumers(part, s) # {}
      BY <2>5, <3>3
    <3>5. Successor(part, s) \in Range(part) /\ Resumes(Successor(part, s), s)
      BY <1>6, <3>4, Succeeds
    <3>6. Successor(part, s) = Successor(L, s)
      BY <2>4, <3>2, <3>5
    <3> QED
      BY <2>3, <3>2, <3>4, <3>6
  <2> QED
    BY <2>3, <2>6, <2>7
<1>10. \A i \in DOMAIN chains : chains[i][1] \in Range(part) <=> i \in P
  <2>1. \A i \in DOMAIN chains : 1 \in DOMAIN chains[i]
    BY <1>2
  <2> QED
    BY <1>3, <1>7, <2>1
<1>11. Range(Chains(part)) = {c \in Range(chains) : c[1] \in Range(part)}
  BY <1>9, SameJourneys
<1>12. {c \in Range(chains) : c[1] \in Range(part)} = {chains[i] : i \in P}
  BY <1>10 DEF Range
<1> QED
  BY <1>6, <1>8, <1>11, <1>12

-----------------------------------------------------------------------------
(* The groups of an answer.                                                *)

(* Whether an outcome's count has a journey in it.                         *)
Counted(now, n, c) ==
  \/ n = "journeys"
  \/ n = "finished"   /\ Outcome(now, c) = "finished"
  \/ n = "abandoned"  /\ Outcome(now, c) = "abandoned"
  \/ n = "lost"       /\ Outcome(now, c) = "lost"
  \/ n = "inProgress" /\ Outcome(now, c) = "in_progress"

LEMMA PlacesCount ==
  ASSUME NEW X, NEW q \in Seq(X), IsInjective(q), NEW T \in SUBSET Range(q)
  PROVE  /\ IsFiniteSet(T)
         /\ Cardinality({i \in DOMAIN q : q[i] \in T}) = Cardinality(T)
<1> DEFINE P == {i \in DOMAIN q : q[i] \in T}
           to == [i \in P |-> q[i]]
<1>1. DOMAIN q = 1 .. Len(q) /\ Len(q) \in Nat
  OBVIOUS
<1>2. IsFiniteSet(P)
  <2>1. IsFiniteSet(DOMAIN q)
    BY <1>1, FS_Interval
  <2>2. P \in SUBSET DOMAIN q
    OBVIOUS
  <2> HIDE DEF P
  <2> QED
    BY <2>1, <2>2, FS_Subset
<1>3. to \in [P -> T] /\ IsInjective(to)
  BY DEF IsInjective
<1>4. \A x \in T : \E i \in P : to[i] = x
  BY DEF Range
<1>5. to \in Bijection(P, T)
  <2> HIDE DEF to, P
  <2> QED
    BY <1>3, <1>4 DEF Bijection, Injection, Surjection
<1> HIDE DEF to, P
<1>6. ExistsBijection(P, T)
  BY <1>5 DEF ExistsBijection
<1> QED
  BY <1>2, <1>6, FS_Bijection DEF P

LEMMA OutcomesCount ==
  ASSUME NEW L, Distinct(L), NEW now, NEW n \in Counts,
         NEW T, T = {c \in Range(Chains(L)) : Counted(now, n, c)}
  PROVE  IsFiniteSet(T) /\ Outcomes(now, L)[n] = Cardinality(T)
<1> DEFINE chains == Chains(L)
<1>1. chains \in Seq(Seq(Sessions)) /\ IsInjective(chains)
  BY ChainsExactly
<1> HIDE DEF chains
<1>2. T \in SUBSET Range(chains)
  BY DEF chains
<1>3. IsFiniteSet(T) /\ Cardinality({i \in DOMAIN chains : chains[i] \in T}) = Cardinality(T)
  BY <1>1, <1>2, PlacesCount
<1>4. {i \in DOMAIN chains : chains[i] \in T} = {i \in DOMAIN chains : Counted(now, n, chains[i])}
  BY DEF chains, Range
<1>5. Outcomes(now, L)[n] = Cardinality({i \in DOMAIN chains : Counted(now, n, chains[i])})
  <2>1. n \in {"journeys", "finished", "abandoned", "lost", "inProgress"}
    BY DEF Counts
  <2>2. CASE n = "journeys"
    <3>1. Outcomes(now, L)[n] = Len(chains)
      BY <2>2 DEF Outcomes, chains
    <3>2. {i \in DOMAIN chains : Counted(now, n, chains[i])} = 1 .. Len(chains) /\ Len(chains) \in Nat
      BY <1>1, <2>2 DEF Counted
    <3>3. \A m \in Nat : Cardinality(1 .. m) = m
      BY FS_Interval
    <3> QED
      BY <3>1, <3>2, <3>3
  <2>3. CASE n = "finished"
    BY <2>3 DEF Outcomes, HowMany, Counted, chains
  <2>4. CASE n = "abandoned"
    BY <2>4 DEF Outcomes, HowMany, Counted, chains
  <2>5. CASE n = "lost"
    BY <2>5 DEF Outcomes, HowMany, Counted, chains
  <2>6. CASE n = "inProgress"
    BY <2>6 DEF Outcomes, HowMany, Counted, chains
  <2> QED
    BY <2>1, <2>2, <2>3, <2>4, <2>5, <2>6
<1> QED
  BY <1>3, <1>4, <1>5

(* A value for each journey, by its first session, and the sets of         *)
(* sessions gathered by it.                                                *)
GroupedBy(parts, value, L) ==
  \A v \in DOMAIN parts :
    parts[v] = FlattenSeq(Picked(Chains(L), {i \in DOMAIN Chains(L) : value[Chains(L)[i][1]] = v}))

LEMMA GroupsSum ==
  ASSUME NEW L, Distinct(L), NEW now, NEW n \in Counts,
         NEW value, NEW parts, GroupedBy(parts, value, L), IsFiniteSet(DOMAIN parts),
         \A c \in Range(Chains(L)) : value[c[1]] \in DOMAIN parts,
         NEW f, DOMAIN f = DOMAIN parts,
         \A v \in DOMAIN parts : f[v] = Outcomes(now, parts[v])[n]
  PROVE  SumFunction(f) = Outcomes(now, L)[n]
<1> DEFINE chains == Chains(L)
           V == DOMAIN parts
           T == {c \in Range(chains) : Counted(now, n, c)}
           A == [v \in V |-> {c \in T : value[c[1]] = v}]
<1>1. IsFiniteSet(T) /\ Outcomes(now, L)[n] = Cardinality(T)
  BY OutcomesCount
<1>2. ASSUME NEW v \in V
      PROVE  IsFiniteSet(A[v]) /\ f[v] = Cardinality(A[v])
  <2> DEFINE P == {i \in DOMAIN chains : value[chains[i][1]] = v}
             part == parts[v]
  <2>1. part = FlattenSeq(Picked(chains, P))
    BY DEF GroupedBy
  <2>2. Distinct(part) /\ Range(Chains(part)) = {chains[i] : i \in P}
    <3> HIDE DEF P, part
    <3>1. P \in SUBSET DOMAIN chains
      BY DEF P
    <3> QED
      BY <2>1, <3>1, GatheredJourneys
  <2>3. A[v] = {c \in Range(Chains(part)) : Counted(now, n, c)}
    <3>1. Range(Chains(part)) = {c \in Range(chains) : value[c[1]] = v}
      <4> HIDE DEF part, chains
      <4> QED
        BY <2>2 DEF Range
    <3> HIDE DEF part, chains, P
    <3> QED
      BY <3>1
  <2>4. f[v] = Outcomes(now, part)[n]
    OBVIOUS
  <2> HIDE DEF part, chains, P, A, T
  <2> QED
    BY <2>2, <2>3, <2>4, OutcomesCount
<1>3. AreSizes(f, V, A)
  <2> HIDE DEF A
  <2> QED
    BY <1>2 DEF AreSizes
<1>4. DividesInto(V, A, T)
  <2>1. \A v, w \in V : v # w => A[v] \cap A[w] = {}
    OBVIOUS
  <2>2. \A c \in T : value[c[1]] \in V
    OBVIOUS
  <2>3. \A v \in V : A[v] = {c \in T : value[c[1]] = v}
    OBVIOUS
  <2>4. T = UNION {A[v] : v \in V}
    <3> HIDE DEF A, T, V
    <3> QED
      BY <2>2, <2>3
  <2> HIDE DEF A, T, V
  <2> QED
    BY <2>1, <2>4 DEF DividesInto
<1>5. SumFunctionOnSet(f, V) = Cardinality(T)
  <2> HIDE DEF A, T, V
  <2>1. IsFiniteSet(V)
    BY DEF V
  <2> QED
    BY <1>3, <1>4, <2>1, SumOfSizes
<1> QED
  BY <1>1, <1>5 DEF SumFunction

(* Whatever the sessions and however they resumed each other, the groups   *)
(* of an answer have its journeys between them: none split, none lost, and *)
(* each with the outcome it has in the total (queries.py:693-709).         *)
THEOREM GroupsAlwaysAddUp == Spec => []GroupsAddUp
<1>1. TypeOK => GroupsAddUp
  <2> SUFFICES ASSUME TypeOK, NEW q \in Questions, NEW n \in Counts
               PROVE  Outcomes(q.now, Included(q))[n]
                        = SumFunction([v \in DOMAIN Grouped(q.now, Included(q)) |->
                                         Grouped(q.now, Included(q))[v][n]])
    BY DEF GroupsAddUp, AddUp
  <2> DEFINE L == Included(q)
             chains == Chains(L)
             V == {Value[c[1]] : c \in Range(chains)}
             parts == [v \in V |-> FlattenSeq(Picked(chains, {i \in DOMAIN chains : Value[chains[i][1]] = v}))]
             f == [v \in V |-> Outcomes(q.now, parts[v])[n]]
  <2>1. Distinct(L)
    BY IncludedOldestFirst DEF OldestFirst
  <2>2. Grouped(q.now, L) = [v \in V |-> Outcomes(q.now, parts[v])]
    BY DEF Grouped, Gathered
  <2>3. [v \in DOMAIN Grouped(q.now, L) |-> Grouped(q.now, L)[v][n]] = f
    BY <2>2
  <2>4. IsFiniteSet(V)
    <3> HIDE DEF L
    <3>1. chains \in Seq(Seq(Sessions))
      BY <2>1, ChainsExactly
    <3> HIDE DEF chains
    <3>2. DOMAIN chains = 1 .. Len(chains) /\ Len(chains) \in Nat
      BY <3>1
    <3> DEFINE to == [i \in DOMAIN chains |-> Value[chains[i][1]]]
    <3>3. IsFiniteSet(DOMAIN chains)
      BY <3>2, FS_Interval
    <3>4. to \in Surjection(DOMAIN chains, V)
      BY DEF Surjection, Range
    <3> HIDE DEF to, V
    <3> QED
      BY <3>3, <3>4, FS_Surjection
  <2>5. GroupedBy(parts, Value, L)
    BY DEF GroupedBy
  <2>6. /\ DOMAIN parts = V /\ DOMAIN f = V
        /\ \A v \in V : f[v] = Outcomes(q.now, parts[v])[n]
        /\ \A c \in Range(chains) : Value[c[1]] \in V
    OBVIOUS
  <2> HIDE DEF f, parts, V, L
  <2>7. SumFunction(f) = Outcomes(q.now, L)[n]
    BY <2>1, <2>4, <2>5, <2>6, GroupsSum
  <2> QED
    BY <2>3, <2>7 DEF L
<1> QED
  BY <1>1, TypeCorrect, PTL

=============================================================================
