----------------------------- MODULE Reading_proofs ----------------------------
(***************************************************************************)
(* For every store, every selection, page size, batch size and every order *)
(* of posts and readers: what a reader of the store is owed.               *)
(*                                                                         *)
(* One invariant for each kind of reader.  Of those that page, it says     *)
(* what is on which side of the cursor: what matched and is not yet seen   *)
(* lies beyond it, and what was seen does not (EventsInv, PageInv).  Of a  *)
(* download, that what came is of sessions no longer queued (DownloadInv). *)
(* Of an import, that the rows are the lines of the file, place by place   *)
(* (ExportInv).  Under them lie TypeInv and what is said of the lists that *)
(* the statements return: Lists_proofs proves that Ranked lists a set in   *)
(* its order.  What is said of labels needs no invariant: it is about what *)
(* merge_labels makes of any two sets of them.                             *)
(***************************************************************************)
EXTENDS Reading, Lists_proofs

-----------------------------------------------------------------------------
(* What merging labels keeps, for any labels of a token and any of an      *)
(* event.                                                                  *)

(* Labels under different keys are kept under different ones behind the    *)
(* prefix.                                                                 *)
LEMMA PrefixedApart ==
  ASSUME NEW Part, NEW k \in Seq(Part), NEW l \in Seq(Part),
         Prefixed(k) = Prefixed(l)
  PROVE  k = l
<1> DEFINE All == Part \cup {"client"}
<1>1. k \in Seq(All) /\ l \in Seq(All) /\ Reserved \in Seq(All)
  BY DEF Reserved
<1>2. ASSUME NEW q \in Seq(All)
      PROVE  /\ Len(Reserved \o q) = 1 + Len(q)
             /\ \A n \in 1 .. Len(q) : (Reserved \o q)[n + 1] = q[n]
  BY <1>1, <1>2 DEF Reserved
<1> HIDE DEF All
<1>3. Len(k) = Len(l) /\ Len(k) \in Nat
  BY <1>1, <1>2 DEF Prefixed
<1>4. \A n \in 1 .. Len(k) : k[n] = l[n]
  BY <1>1, <1>2, <1>3 DEF Prefixed
<1> QED
  BY <1>1, <1>3, <1>4

(* Labels, each under a key of its own. *)
IsObject(reported, Part) ==
  /\ \A i \in DOMAIN reported : reported[i].key \in Seq(Part)
  /\ \A i, j \in DOMAIN reported : reported[i].key = reported[j].key => i = j

(* Two of an event's labels that go to one key: one moved there and it is  *)
(* the other's own.                                                        *)
LEMMA SameTarget ==
  ASSUME NEW trusted, NEW reported, NEW Part, IsObject(reported, Part),
         NEW i \in DOMAIN reported, NEW j \in DOMAIN reported, i # j,
         Target(trusted, reported[i].key) = Target(trusted, reported[j].key)
  PROVE  \/ MovesOnto(trusted, reported[i].key, reported[j].key)
         \/ MovesOnto(trusted, reported[j].key, reported[i].key)
<1> DEFINE k == reported[i].key
           l == reported[j].key
<1>1. k # l /\ k \in Seq(Part) /\ l \in Seq(Part)
  BY DEF IsObject
<1>2. Target(trusted, k) = Target(trusted, l)
  OBVIOUS
<1> HIDE DEF k, l
<1>3. Prefixed(k) # Prefixed(l)
  BY <1>1, PrefixedApart
<1>4. MovesOnto(trusted, k, l) \/ MovesOnto(trusted, l, k)
  BY <1>1, <1>2, <1>3 DEF Target, MovesOnto
<1> QED
  BY <1>4 DEF k, l

(* The last label to go to a key is what the key has.  merge_labels,       *)
(* labels.py.                                                              *)
LEMMA LastWritten ==
  ASSUME NEW trusted, NEW Label, NEW reported \in Seq(Label),
         NEW i \in DOMAIN reported,
         \A j \in DOMAIN reported :
           j > i => Target(trusted, reported[j].key)
                      # Target(trusted, reported[i].key)
  PROVE  MergeLabels(trusted, reported)[Target(trusted, reported[i].key)]
           = reported[i].value
<1> DEFINE key    == Target(trusted, reported[i].key)
           writes == Writes(trusted, reported, key)
<1>1. i \in writes /\ writes \subseteq DOMAIN reported
  BY DEF Writes
<1>2. DOMAIN reported \subseteq Int
  OBVIOUS
<1>3. \A j \in writes : j <= i
  <2>1. SUFFICES ASSUME NEW j \in writes, ~(j <= i) PROVE FALSE
    OBVIOUS
  <2>2. j \in DOMAIN reported /\ j > i
    BY <1>1, <1>2, <2>1
  <2>3. Target(trusted, reported[j].key) = key
    BY DEF Writes
  <2> QED BY <2>2, <2>3
<1>4. (CHOOSE last \in writes : \A j \in writes : j <= last) = i
  <2> DEFINE last == CHOOSE n \in writes : \A j \in writes : j <= n
  <2>1. last \in writes /\ \A j \in writes : j <= last
    BY <1>1, <1>3
  <2>2. last <= i /\ i <= last
    BY <1>1, <1>3, <2>1
  <2>3. last \in Int /\ i \in Int
    BY <1>1, <1>2, <2>1
  <2> HIDE DEF last
  <2>4. last = i
    BY <2>2, <2>3
  <2> QED BY <2>4 DEF last
<1>5. key \in DOMAIN trusted \cup {Target(trusted, k) : k \in Keys(reported)}
  BY DEF Keys
<1>6. writes # {}
  BY <1>1
<1> QED BY <1>4, <1>5, <1>6 DEF MergeLabels

(* A token's label gives way only to what the client sent under the key    *)
(* its own has the prefix in front of.                                     *)
LEMMA TokensKept ==
  ASSUME NEW trusted, NEW Label, NEW reported \in Seq(Label),
         NEW Part, IsObject(reported, Part), NEW k \in DOMAIN trusted,
         MergeLabels(trusted, reported)[k] # trusted[k]
  PROVE  \E i \in DOMAIN reported :
           /\ reported[i].key \in DOMAIN trusted
           /\ Prefixed(reported[i].key) = k
           /\ MergeLabels(trusted, reported)[k] = reported[i].value
<1>1. Writes(trusted, reported, k) # {}
  BY DEF MergeLabels
<1>2. PICK i \in DOMAIN reported : Target(trusted, reported[i].key) = k
  BY <1>1 DEF Writes
<1>3. reported[i].key \in DOMAIN trusted /\ Prefixed(reported[i].key) = k
  BY <1>2 DEF Target
<1>4. ASSUME NEW j \in DOMAIN reported, j > i,
             Target(trusted, reported[j].key) = Target(trusted, reported[i].key)
      PROVE  FALSE
  <2>1. i # j
    BY <1>4
  <2>2. reported[j].key \notin DOMAIN trusted
    BY <1>3, <1>4, <2>1, SameTarget DEF MovesOnto
  <2> QED
    BY <1>2, <1>4, <2>2 DEF Target
<1>5. MergeLabels(trusted, reported)[k] = reported[i].value
  BY <1>2, <1>4, LastWritten
<1> QED
  BY <1>3, <1>5

(* A client's label gives way only to a later one of the same event, which *)
(* goes where it does.                                                     *)
LEMMA ClientsKept ==
  ASSUME NEW trusted, NEW Label, NEW reported \in Seq(Label),
         NEW Part, IsObject(reported, Part), NEW i \in DOMAIN reported,
         NEW to, to = Target(trusted, reported[i].key),
         MergeLabels(trusted, reported)[to] # reported[i].value
  PROVE  \E j \in DOMAIN reported :
           /\ j > i
           /\ \/ MovesOnto(trusted, reported[i].key, reported[j].key)
              \/ MovesOnto(trusted, reported[j].key, reported[i].key)
           /\ MergeLabels(trusted, reported)[to] = reported[j].value
<1>0. DOMAIN reported \subseteq Int
  OBVIOUS
<1>1. PICK j \in DOMAIN reported :
         j > i /\ Target(trusted, reported[j].key) = to
  BY LastWritten
<1>2. \/ MovesOnto(trusted, reported[i].key, reported[j].key)
      \/ MovesOnto(trusted, reported[j].key, reported[i].key)
  <2>1. i # j
    BY <1>0, <1>1
  <2> QED
    BY <1>1, <2>1, SameTarget
<1>3. ASSUME NEW n \in DOMAIN reported, n > j,
             Target(trusted, reported[n].key) = Target(trusted, reported[j].key)
      PROVE  FALSE
  <2>1. n # i /\ n # j
    BY <1>0, <1>1, <1>3
  <2>2. \/ MovesOnto(trusted, reported[i].key, reported[n].key)
        \/ MovesOnto(trusted, reported[n].key, reported[i].key)
    BY <1>1, <1>3, <2>1, SameTarget
  <2>3. \/ MovesOnto(trusted, reported[j].key, reported[n].key)
        \/ MovesOnto(trusted, reported[n].key, reported[j].key)
    BY <1>1, <1>3, <2>1, SameTarget
  <2> QED
    BY <1>2, <2>2, <2>3 DEF MovesOnto
<1>4. MergeLabels(trusted, reported)[to] = reported[j].value
  BY <1>1, <1>3, LastWritten
<1> QED
  BY <1>1, <1>2, <1>4

(* What an event is stored with, for any labels of a token and any of an   *)
(* event: none is lost but where a key and another with the prefix in      *)
(* front meet, and there to whom.  merge_labels, labels.py.                *)
THEOREM MergedLabelsKept ==
  ASSUME NEW trusted, NEW Label, NEW reported \in Seq(Label),
         NEW Part, IsObject(reported, Part)
  PROVE  Kept(trusted, reported, MergeLabels(trusted, reported))
<1> DEFINE merged == MergeLabels(trusted, reported)
<1>1. ASSUME NEW k \in DOMAIN trusted, merged[k] # trusted[k]
      PROVE  \E i \in DOMAIN reported :
               /\ reported[i].key \in DOMAIN trusted
               /\ Prefixed(reported[i].key) = k
               /\ merged[k] = reported[i].value
  BY <1>1, TokensKept
<1>2. ASSUME NEW i \in DOMAIN reported,
             merged[Target(trusted, reported[i].key)] # reported[i].value
      PROVE  \E j \in DOMAIN reported :
               /\ j > i
               /\ \/ MovesOnto(trusted, reported[i].key, reported[j].key)
                  \/ MovesOnto(trusted, reported[j].key, reported[i].key)
               /\ merged[Target(trusted, reported[i].key)] = reported[j].value
  BY <1>2, ClientsKept
<1> HIDE DEF merged
<1>3. Kept(trusted, reported, merged)
  BY <1>1, <1>2 DEF Kept
<1> QED BY <1>3 DEF merged

-----------------------------------------------------------------------------
(* Lists, and what Accept adds to one.                                     *)

IsList(q) == q \in Seq(Range(q))

LEMMA ListShape ==
  ASSUME NEW q, IsList(q)
  PROVE  Len(q) \in Nat /\ DOMAIN q = 1 .. Len(q)
BY DEF IsList

LEMMA SeqIsList ==
  ASSUME NEW S, NEW q \in Seq(S)
  PROVE  IsList(q) /\ \A i \in DOMAIN q : q[i] \in S
BY DEF IsList, Range

LEMMA SeqWider ==
  ASSUME NEW S, NEW T, S \subseteq T, NEW q \in Seq(S)
  PROVE  q \in Seq(T)
<1>1. Len(q) \in Nat /\ q \in [1 .. Len(q) -> S]
  OBVIOUS
<1>2. q \in [1 .. Len(q) -> T]
  BY <1>1
<1> QED
  BY <1>1, <1>2

Joins(both, q, r) ==
  /\ IsList(both)
  /\ Len(both) = Len(q) + Len(r)
  /\ \A i \in DOMAIN q : i \in DOMAIN both /\ both[i] = q[i]
  /\ \A i \in DOMAIN both \ DOMAIN q :
       i - Len(q) \in DOMAIN r /\ both[i] = r[i - Len(q)]
  /\ \A i \in DOMAIN r : i + Len(q) \in DOMAIN both /\ both[i + Len(q)] = r[i]

LEMMA ListMade ==
  ASSUME NEW q, NEW n \in Nat, DOMAIN q = 1 .. n, q = [i \in DOMAIN q |-> q[i]]
  PROVE  IsList(q)
<1>1. \A i \in 1 .. n : q[i] \in Range(q)
  BY DEF Range
<1>2. q \in [1 .. n -> Range(q)]
  BY <1>1
<1> QED
  BY <1>2 DEF IsList

LEMMA Joined ==
  ASSUME NEW q, IsList(q), NEW r, IsList(r), NEW both, both = q \o r
  PROVE  Joins(both, q, r)
<1> DEFINE S == Range(q) \cup Range(r)
<1>1. q \in Seq(S) /\ r \in Seq(S)
  BY DEF IsList
<1>2. /\ both \in Seq(S) /\ Len(both) = Len(q) + Len(r)
      /\ \A i \in 1 .. Len(q) + Len(r) :
           both[i] = IF i <= Len(q) THEN q[i] ELSE r[i - Len(q)]
  <2> HIDE DEF S
  <2> QED
    BY <1>1, ConcatProperties
<1>3. /\ Len(q) \in Nat /\ DOMAIN q = 1 .. Len(q)
      /\ Len(r) \in Nat /\ DOMAIN r = 1 .. Len(r)
  BY ListShape
<1>4. DOMAIN both = 1 .. Len(q) + Len(r)
  BY <1>2
<1>5. IsList(both)
  BY <1>2, SeqIsList
<1> HIDE DEF S
<1>6. \A i \in DOMAIN q : i \in DOMAIN both /\ both[i] = q[i]
  BY <1>2, <1>3, <1>4
<1>7. \A i \in DOMAIN both \ DOMAIN q :
        i - Len(q) \in DOMAIN r /\ both[i] = r[i - Len(q)]
  BY <1>2, <1>3, <1>4
<1>8. \A i \in DOMAIN r : i + Len(q) \in DOMAIN both /\ both[i + Len(q)] = r[i]
  BY <1>2, <1>3, <1>4
<1> QED
  BY <1>2, <1>5, <1>6, <1>7, <1>8 DEF Joins

LEMMA JoinedRange ==
  ASSUME NEW q, IsList(q), NEW r, IsList(r)
  PROVE  Range(q \o r) = Range(q) \cup Range(r)
<1> DEFINE both == q \o r
<1>1. \A i \in DOMAIN both : both[i] \in Range(q) \cup Range(r)
  <2> SUFFICES ASSUME NEW i \in DOMAIN both
               PROVE  both[i] \in Range(q) \cup Range(r)
    OBVIOUS
  <2> HIDE DEF both
  <2> QED
    BY Joined DEF Joins, Range, both
<1>2. \A i \in DOMAIN q : q[i] \in Range(both)
  <2> HIDE DEF both
  <2> QED
    BY Joined DEF Joins, Range, both
<1>3. \A i \in DOMAIN r : r[i] \in Range(both)
  <2> HIDE DEF both
  <2> SUFFICES ASSUME NEW i \in DOMAIN r
               PROVE  r[i] \in Range(both)
    OBVIOUS
  <2>1. i + Len(q) \in DOMAIN both /\ both[i + Len(q)] = r[i]
    BY Joined DEF Joins, both
  <2> QED
    BY <2>1 DEF Range
<1> HIDE DEF both
<1> QED
  BY <1>1, <1>2, <1>3 DEF Range, both

LEMMA FreshPlaces ==
  ASSUME NEW rows, NEW items, IsList(items), NEW fresh,
         fresh = Ascending(Fresh(rows, items))
  PROVE  /\ Fresh(rows, items) \subseteq DOMAIN items
         /\ IsFiniteSet(Fresh(rows, items))
         /\ IsList(fresh) /\ Len(fresh) = Cardinality(Fresh(rows, items))
         /\ Range(fresh) = Fresh(rows, items) /\ IsInjective(fresh)
         /\ \A n \in DOMAIN fresh : fresh[n] \in Fresh(rows, items)
<1>1. Len(items) \in Nat /\ DOMAIN items = 1 .. Len(items)
  BY ListShape
<1>2. /\ Min({Len(items), MaxBatch}) \in Nat
      /\ Min({Len(items), MaxBatch}) <= Len(items)
  BY <1>1, MinOfTwo, ReadingAssumption
<1>3. /\ Fresh(rows, items) \in SUBSET (1 .. Min({Len(items), MaxBatch}))
      /\ Fresh(rows, items) \subseteq DOMAIN items
  <2> DEFINE most == Min({Len(items), MaxBatch})
  <2>1. Fresh(rows, items) \in SUBSET (1 .. most)
    BY DEF Fresh
  <2> HIDE DEF most
  <2>2. 1 .. most \subseteq 1 .. Len(items)
    BY <1>1, <1>2 DEF most
  <2> QED
    BY <1>1, <2>1, <2>2 DEF most
<1>4. IsFiniteSet(Fresh(rows, items))
  BY <1>2, <1>3, FS_Interval, FS_Subset
<1>5. Fresh(rows, items) \in SUBSET Int
  BY <1>2, <1>3
<1>6. /\ fresh \in Seq(Fresh(rows, items))
      /\ Len(fresh) = Cardinality(Fresh(rows, items))
      /\ Range(fresh) = Fresh(rows, items) /\ IsInjective(fresh)
  BY <1>4, <1>5, AscendingLists
<1> QED
  BY <1>3, <1>4, <1>6, SeqIsList

(* Accept keeps the rows there are where they are, and puts a row for each *)
(* fresh item behind them.                                                 *)
LEMMA AcceptAdds ==
  ASSUME NEW rows, IsList(rows), NEW items, IsList(items),
         NEW claims, NEW extra, NEW moment,
         NEW next, next = Accept(rows, items, claims, extra, moment),
         NEW fresh, fresh = Ascending(Fresh(rows, items))
  PROVE  /\ IsList(next)
         /\ Len(next) = Len(rows) + Cardinality(Fresh(rows, items))
         /\ \A i \in DOMAIN rows : i \in DOMAIN next /\ next[i] = rows[i]
         /\ \A i \in DOMAIN next \ DOMAIN rows :
              /\ i - Len(rows) \in DOMAIN fresh
              /\ fresh[i - Len(rows)] \in Fresh(rows, items)
              /\ next[i] = StoredEvent(items[fresh[i - Len(rows)]], claims, extra, moment)
         /\ \A n \in DOMAIN fresh :
              /\ n + Len(rows) \in DOMAIN next
              /\ next[n + Len(rows)] = StoredEvent(items[fresh[n]], claims, extra, moment)
<1> DEFINE new == [n \in DOMAIN fresh |->
                     StoredEvent(items[fresh[n]], claims, extra, moment)]
<1>1. next = rows \o new
  BY DEF Accept
<1>2. /\ Len(fresh) \in Nat /\ DOMAIN fresh = 1 .. Len(fresh)
      /\ Len(fresh) = Cardinality(Fresh(rows, items))
      /\ \A n \in DOMAIN fresh : fresh[n] \in Fresh(rows, items)
  BY FreshPlaces, ListShape
<1>3. /\ DOMAIN new = DOMAIN fresh
      /\ \A n \in DOMAIN new :
           new[n] = StoredEvent(items[fresh[n]], claims, extra, moment)
  OBVIOUS
<1>4. \A n \in DOMAIN new : new[n] \in Range(new)
  BY DEF Range
<1>5. new \in [1 .. Len(fresh) -> Range(new)]
  BY <1>2, <1>4
<1>6. new \in Seq(Range(new)) /\ Len(new) = Len(fresh)
  <2> HIDE DEF new
  <2> QED
    BY <1>2, <1>5
<1> HIDE DEF new
<1>7. IsList(new)
  BY <1>6 DEF IsList
<1>8. Joins(next, rows, new)
  BY <1>1, <1>7, Joined
<1> QED
  BY <1>2, <1>3, <1>6, <1>8 DEF Joins

Extends(next, rows) == \A i \in DOMAIN rows : i \in DOMAIN next /\ next[i] = rows[i]

LEMMA AcceptExtends ==
  ASSUME NEW rows, IsList(rows), NEW items, IsList(items),
         NEW claims, NEW extra, NEW moment,
         NEW next, next = Accept(rows, items, claims, extra, moment)
  PROVE  Extends(next, rows)
<1> DEFINE fresh == Ascending(Fresh(rows, items))
<1>1. fresh = Ascending(Fresh(rows, items))
  OBVIOUS
<1> HIDE DEF fresh
<1> QED
  BY <1>1, AcceptAdds DEF Extends

(* The rows of a table are of different events.                            *)
Apart(rows) ==
  \A i, j \in DOMAIN rows : Hash(rows[i].ev) = Hash(rows[j].ev) => i = j

LEMMA AcceptApart ==
  ASSUME NEW rows, IsList(rows), Apart(rows), NEW items, IsList(items),
         NEW claims, NEW extra, NEW moment,
         NEW next, next = Accept(rows, items, claims, extra, moment)
  PROVE  Apart(next)
<1> DEFINE fresh == Ascending(Fresh(rows, items))
           item(i) == items[fresh[i - Len(rows)]]
<1>1. /\ \A i \in DOMAIN rows : i \in DOMAIN next /\ next[i] = rows[i]
      /\ \A i \in DOMAIN next \ DOMAIN rows :
           /\ i - Len(rows) \in DOMAIN fresh
           /\ fresh[i - Len(rows)] \in Fresh(rows, items)
           /\ next[i].ev = item(i).event
  <2> HIDE DEF fresh
  <2> QED
    BY AcceptAdds DEF StoredEvent, fresh
<1>2. \A n \in Fresh(rows, items), i \in DOMAIN rows :
        Hash(rows[i].ev) # Hash(items[n].event)
  BY DEF Fresh, Range
<1>3. ASSUME NEW n \in Fresh(rows, items), NEW m \in Fresh(rows, items), n # m
      PROVE  Hash(items[n].event) # Hash(items[m].event)
  <2>1. n \in Int /\ m \in Int /\ n >= 1 /\ m >= 1
    <3>1. DOMAIN items = 1 .. Len(items) /\ Fresh(rows, items) \subseteq DOMAIN items
      BY ListShape, FreshPlaces
    <3> QED
      BY <3>1, ListShape
  <2>2. CASE n < m
    <3>1. n \in 1 .. m - 1
      BY <2>1, <2>2
    <3> QED
      BY <3>1 DEF Fresh
  <2>3. CASE m < n
    <3>1. m \in 1 .. n - 1
      BY <2>1, <2>3
    <3> QED
      BY <3>1 DEF Fresh
  <2> QED
    BY <1>3, <2>1, <2>2, <2>3
<1>4. IsInjective(fresh) /\ DOMAIN rows = 1 .. Len(rows) /\ Len(rows) \in Nat
      /\ DOMAIN fresh \subseteq Int
  <2>1. IsInjective(fresh) /\ IsList(fresh)
    BY FreshPlaces
  <2> QED
    BY <2>1, ListShape
<1>5. IsList(next)
  BY AcceptAdds
<1>6. DOMAIN next \subseteq Int
  BY <1>5, ListShape
<1> HIDE DEF fresh
<1>7. SUFFICES ASSUME NEW i \in DOMAIN next, NEW j \in DOMAIN next,
                      Hash(next[i].ev) = Hash(next[j].ev)
               PROVE  i = j
  BY DEF Apart
<1>8. CASE i \in DOMAIN rows /\ j \in DOMAIN rows
  BY <1>1, <1>7, <1>8 DEF Apart
<1>9. CASE i \in DOMAIN rows /\ j \notin DOMAIN rows
  BY <1>1, <1>2, <1>7, <1>9
<1>10. CASE i \notin DOMAIN rows /\ j \in DOMAIN rows
  BY <1>1, <1>2, <1>7, <1>10
<1>11. CASE i \notin DOMAIN rows /\ j \notin DOMAIN rows
  <2>1. fresh[i - Len(rows)] = fresh[j - Len(rows)]
    BY <1>1, <1>3, <1>7, <1>11
  <2>2. i - Len(rows) = j - Len(rows)
    BY <1>1, <1>4, <1>7, <1>11, <2>1 DEF IsInjective
  <2> QED
    BY <1>4, <1>6, <1>7, <2>2
<1> QED
  BY <1>8, <1>9, <1>10, <1>11

LEMMA UptoList ==
  ASSUME NEW S, NEW q \in Seq(S), NEW n \in Nat, NEW page, page = Upto(q, n)
  PROVE  /\ page \in Seq(S)
         /\ Len(page) = IF Len(q) <= n THEN Len(q) ELSE n
         /\ \A i \in DOMAIN page : i \in DOMAIN q /\ page[i] = q[i]
<1> DEFINE most == IF Len(q) <= n THEN Len(q) ELSE n
<1>1. /\ Len(q) \in Nat /\ DOMAIN q = 1 .. Len(q)
      /\ most \in Nat /\ most <= Len(q)
      /\ \A i \in 1 .. most : q[i] \in S
  OBVIOUS
<1>2. page = SubSeq(q, 1, most)
  BY <1>1, MinOfTwo DEF Upto
<1> HIDE DEF most
<1>3. /\ page \in Seq(S)
      /\ Len(page) = IF 1 <= most THEN most - 1 + 1 ELSE 0
      /\ \A i \in 1 .. most - 1 + 1 : page[i] = q[1 + i - 1]
  BY <1>1, <1>2, SubSeqProperties
<1>4. Len(page) = most /\ DOMAIN page = 1 .. most
  BY <1>1, <1>3
<1>5. \A i \in 1 .. most : i \in DOMAIN q /\ page[i] = q[i]
  BY <1>1, <1>3
<1> QED
  BY <1>3, <1>4, <1>5 DEF most

-----------------------------------------------------------------------------
(* What the events of a table say of its sessions.                         *)

IsTable(rows) == IsList(rows) /\ \A i \in DOMAIN rows : RowType(rows[i])

LEMMA TableEvents ==
  ASSUME NEW rows, IsTable(rows), NEW i \in DOMAIN rows
  PROVE  /\ i \in Nat \ {0}
         /\ rows[i].ev \in Events
         /\ rows[i].ev.sid \in Sessions
         /\ rows[i].ev.seq \in Nat /\ rows[i].ev.ts \in Nat
<1>1. rows[i].ev \in Events
  BY DEF IsTable, RowType
<1>2. i \in Nat \ {0}
  BY ListShape DEF IsTable
<1> QED
  BY <1>1, <1>2, ReadingAssumption

LEMMA FirstPlace ==
  ASSUME NEW rows, IsTable(rows), NEW s \in Present(rows)
  PROVE  /\ First(rows, s) \in Places(rows, s)
         /\ \A j \in Places(rows, s) :
              \/ rows[First(rows, s)].ev.seq < rows[j].ev.seq
              \/ rows[First(rows, s)].ev.seq = rows[j].ev.seq /\ First(rows, s) <= j
<1> DEFINE Seqs == {rows[i].ev.seq : i \in Places(rows, s)}
<1>1. \A i \in Places(rows, s) : i \in Nat /\ rows[i].ev.seq \in Nat
  BY TableEvents DEF Places
<1>2. Places(rows, s) # {}
  BY DEF Places, Present
<1>3. Seqs \in SUBSET Nat /\ Seqs # {}
  BY <1>1, <1>2
<1>4. PICK least \in Seqs : \A n \in Seqs : least <= n
  BY <1>3, LeastNumber
<1> DEFINE Firsts == {i \in Places(rows, s) : rows[i].ev.seq = least}
<1>5. Firsts \in SUBSET Nat /\ Firsts # {}
  BY <1>1, <1>4
<1>6. PICK first \in Firsts : \A i \in Firsts : first <= i
  BY <1>5, LeastNumber
<1>7. \A j \in Places(rows, s) :
        \/ rows[first].ev.seq < rows[j].ev.seq
        \/ rows[first].ev.seq = rows[j].ev.seq /\ first <= j
  BY <1>1, <1>4, <1>6
<1>8. first \in Places(rows, s)
  BY <1>6
<1> QED
  BY <1>7, <1>8 DEF First

LEMMA StartedNumber ==
  ASSUME NEW rows, IsTable(rows), NEW s \in Present(rows)
  PROVE  StartedAt(rows, s) \in Nat
<1> DEFINE Times == {rows[First(rows, s)].ev.ts}
             \cup {rows[i].ev.ts : i \in {j \in Places(rows, s) : rows[j].ev.opens}}
<1>1. \A i \in Places(rows, s) : rows[i].ev.ts \in Nat
  BY TableEvents DEF Places
<1>2. rows[First(rows, s)].ev.ts \in Nat
  BY <1>1, FirstPlace
<1>3. Times \in SUBSET Nat /\ Times # {}
  BY <1>1, <1>2
<1>4. PICK least \in Times : \A t \in Times : least <= t
  BY <1>3, LeastNumber
<1>5. Min(Times) \in Times
  <2> HIDE DEF Times
  <2> QED
    BY <1>4 DEF Min
<1> QED
  BY <1>3, <1>5 DEF StartedAt

Keyed(key) == key.started \in Nat /\ key.sid \in Sessions

LEMMA KeysKeyed ==
  ASSUME NEW rows, IsTable(rows), NEW s \in Present(rows)
  PROVE  Keyed(Key(rows, s)) /\ Key(rows, s).sid = s /\ s \in Sessions
<1>1. s \in Sessions
  BY TableEvents DEF Present
<1> QED
  BY <1>1, StartedNumber DEF Keyed, Key

(* Precedes is a strict order of the keys of sessions, total where they    *)
(* differ in the session, for no two session ids are at one place.         *)
LEMMA PrecedesOrders ==
  ASSUME NEW a, Keyed(a), NEW b, Keyed(b), NEW c, Keyed(c)
  PROVE  /\ ~Precedes(a, a)
         /\ a.sid # b.sid => Precedes(a, b) \/ Precedes(b, a)
         /\ Precedes(a, b) /\ Precedes(b, c) => Precedes(a, c)
<1>1. /\ Rank[a.sid] \in Nat /\ Rank[b.sid] \in Nat /\ Rank[c.sid] \in Nat
      /\ a.sid # b.sid => Rank[a.sid] # Rank[b.sid]
  BY ReadingAssumption DEF Keyed, IsInjective
<1> QED
  BY <1>1 DEF Precedes, Keyed

LEMMA PresentFinite ==
  ASSUME NEW rows, IsTable(rows)
  PROVE  IsFiniteSet(Present(rows))
<1> DEFINE of == [i \in DOMAIN rows |-> rows[i].ev.sid]
<1>1. IsFiniteSet(DOMAIN rows)
  BY ListShape, FS_Interval DEF IsTable
<1>2. of \in Surjection(DOMAIN rows, Present(rows))
  BY DEF Present, Surjection
<1> HIDE DEF of
<1> QED
  BY <1>1, <1>2, FS_Surjection

LEMMA NewestLists ==
  ASSUME NEW rows, IsTable(rows), NEW S \in SUBSET Present(rows),
         NEW q, q = NewestFirst(rows, S)
  PROVE  /\ q \in Seq(S) /\ Len(q) = Cardinality(S) /\ Range(q) = S
         /\ \A i, j \in DOMAIN q :
              i < j <=> Precedes(Key(rows, q[j]), Key(rows, q[i]))
         /\ IsInjective(q)
<1> DEFINE before == [s \in S |-> {t \in S : Precedes(Key(rows, s), Key(rows, t))}]
<1>1. IsFiniteSet(S)
  BY PresentFinite, FS_Subset
<1>2. \A s \in S : Keyed(Key(rows, s)) /\ Key(rows, s).sid = s
  BY KeysKeyed
<1>3. \A s, t \in S : t \in before[s] <=> Precedes(Key(rows, s), Key(rows, t))
  OBVIOUS
<1>4. before \in [S -> SUBSET S]
  OBVIOUS
<1>5. q = Ranked(before)
  BY DEF NewestFirst
<1> HIDE DEF before
<1>6. \A s \in S : s \notin before[s]
  BY <1>2, <1>3, PrecedesOrders
<1>7. \A s, t \in S : s # t => s \in before[t] \/ t \in before[s]
  BY <1>2, <1>3, PrecedesOrders
<1>8. ASSUME NEW s \in S, NEW t \in before[s], NEW u \in before[t]
      PROVE  u \in before[s]
  <2>1. t \in S /\ u \in S
    BY <1>4, <1>8
  <2>2. Precedes(Key(rows, s), Key(rows, t)) /\ Precedes(Key(rows, t), Key(rows, u))
    BY <1>3, <1>8, <2>1
  <2>3. Precedes(Key(rows, s), Key(rows, u))
    BY <1>2, <2>1, <2>2, PrecedesOrders
  <2> QED
    BY <1>3, <2>1, <2>3
<1>9. Strict(before, S)
  BY <1>4, <1>6, <1>7, <1>8 DEF Strict
<1>10. /\ q \in Seq(S) /\ Len(q) = Cardinality(S) /\ Range(q) = S
       /\ \A i, j \in DOMAIN q : i < j <=> q[i] \in before[q[j]]
       /\ IsInjective(q)
  BY <1>1, <1>5, <1>9, RankedLists
<1>11. \A i \in DOMAIN q : q[i] \in S
  BY <1>10, SeqIsList
<1> QED
  BY <1>3, <1>10, <1>11

-----------------------------------------------------------------------------
(* What one page holds, and what it leaves to those behind its cursor.     *)

HoldsSessions(page, rows, left) ==
  /\ page.items \in Seq(left) /\ IsInjective(page.items)
  /\ page.next = NoCursor \/ \E s \in left : page.next = Key(rows, s)
  /\ \A s \in left : \/ s \in Range(page.items)
                     \/ /\ page.next # NoCursor
                        /\ Precedes(Key(rows, s), page.next)
  /\ \A s \in Range(page.items) :
       page.next # NoCursor => ~Precedes(Key(rows, s), page.next)

HoldsEvents(page, rows, f, left) ==
  /\ page.items \in Seq(left)
  /\ \A i, j \in DOMAIN page.items : i < j => page.items[i] < page.items[j]
  /\ page.next = NoCursor \/ page.next \in left
  /\ \A i \in left : Matches(rows[i].labels, f.labels) =>
       \/ i \in Range(page.items)
       \/ page.next # NoCursor /\ i > page.next
  /\ \A i \in Range(page.items) : page.next # NoCursor => i <= page.next

LEMMA SessionsPage ==
  ASSUME NEW rows, IsTable(rows), NEW f, NEW limit \in Nat \ {0}, NEW cursor,
         NEW page, page = ListSessions(rows, f, limit, cursor),
         NEW left, left = {s \in LoadSessions(rows, f) :
                             cursor = NoCursor \/ Precedes(Key(rows, s), cursor)}
  PROVE  HoldsSessions(page, rows, left)
<1> DEFINE read == NewestFirst(rows, left)
           items == Upto(read, limit)
<1>1. left \in SUBSET Present(rows)
  BY DEF LoadSessions
<1>2. /\ read \in Seq(left) /\ Range(read) = left /\ IsInjective(read)
      /\ \A i, j \in DOMAIN read :
           i < j <=> Precedes(Key(rows, read[j]), Key(rows, read[i]))
  <2> HIDE DEF read
  <2> QED
    BY <1>1, NewestLists DEF read
<1>3. page = [items |-> items,
              next  |-> IF Len(read) > limit THEN Key(rows, read[limit]) ELSE NoCursor]
  BY DEF ListSessions
<1> HIDE DEF read
<1>4. /\ items \in Seq(left)
      /\ Len(items) = IF Len(read) <= limit THEN Len(read) ELSE limit
      /\ \A i \in DOMAIN items : i \in DOMAIN read /\ items[i] = read[i]
  <2> HIDE DEF items
  <2> QED
    BY <1>2, UptoList DEF items
<1> HIDE DEF items
<1>5. /\ Len(read) \in Nat /\ DOMAIN read = 1 .. Len(read)
      /\ DOMAIN items = 1 .. Len(items) /\ Len(items) \in Nat
  BY <1>2, <1>4
<1>6. IsInjective(items)
  BY <1>2, <1>4 DEF IsInjective
<1>7. Len(read) > limit => limit \in DOMAIN read /\ read[limit] \in left
  BY <1>2, <1>5 DEF Range
<1>8. ASSUME NEW s \in left, s \notin Range(items)
      PROVE  Len(read) > limit /\ Precedes(Key(rows, s), Key(rows, read[limit]))
  <2>1. PICK i \in DOMAIN read : read[i] = s
    BY <1>2 DEF Range
  <2>2. i \notin DOMAIN items
    BY <1>4, <1>8, <2>1 DEF Range
  <2>3. Len(read) > limit /\ limit < i
    BY <1>4, <1>5, <2>1, <2>2
  <2> QED
    BY <1>2, <1>7, <2>1, <2>3
<1>9. ASSUME NEW s \in Range(items), Len(read) > limit
      PROVE  ~Precedes(Key(rows, s), Key(rows, read[limit]))
  <2>1. PICK i \in DOMAIN items : items[i] = s
    BY DEF Range
  <2>2. i \in DOMAIN read /\ read[i] = s /\ ~(limit < i)
    BY <1>4, <1>5, <1>9, <2>1
  <2> QED
    BY <1>2, <1>7, <1>9, <2>2
<1>10. page.items = items
       /\ page.next = IF Len(read) > limit THEN Key(rows, read[limit]) ELSE NoCursor
  BY <1>3
<1>11. ASSUME Len(read) > limit
       PROVE  Key(rows, read[limit]) # NoCursor
  <2>1. Keyed(Key(rows, read[limit]))
    BY <1>1, <1>7, <1>11, KeysKeyed
  <2>2. Key(rows, read[limit]) \in [started : Nat, sid : Sessions]
    BY <2>1 DEF Key, Keyed
  <2> QED
    BY <2>2, ReadingAssumption
<1> QED
  BY <1>4, <1>6, <1>7, <1>8, <1>9, <1>10, <1>11 DEF HoldsSessions

LEMMA EventsPage ==
  ASSUME NEW rows, IsTable(rows), NEW f, NEW limit \in Nat \ {0}, NEW cursor,
         NEW page, page = QueryEvents(rows, f, limit, cursor),
         NEW left, left = {i \in Found(rows, f) : cursor = NoCursor \/ i > cursor}
  PROVE  HoldsEvents(page, rows, f, left)
<1> DEFINE read == Ascending(left)
           head == Upto(read, limit)
           match == {i \in Range(head) : Matches(rows[i].labels, f.labels)}
           items == Ascending(match)
<1>1. left \in SUBSET DOMAIN rows /\ left \in SUBSET Int /\ IsFiniteSet(left)
  <2>1. left \in SUBSET DOMAIN rows
    BY DEF Found
  <2>2. DOMAIN rows = 1 .. Len(rows) /\ Len(rows) \in Nat
    BY ListShape DEF IsTable
  <2>3. IsFiniteSet(DOMAIN rows)
    BY <2>2, FS_Interval
  <2>4. IsFiniteSet(left)
    BY <2>1, <2>3, FS_Subset
  <2> QED
    BY <2>1, <2>2, <2>4
<1>2. page = [items |-> items,
              next  |-> IF Len(read) > limit THEN read[limit] ELSE NoCursor]
  BY DEF QueryEvents
<1>3. /\ read \in Seq(left) /\ Range(read) = left
      /\ \A i, j \in DOMAIN read : i < j <=> read[i] < read[j]
  <2> HIDE DEF read
  <2> QED
    BY <1>1, AscendingLists DEF read
<1> HIDE DEF read
<1>4. /\ head \in Seq(left)
      /\ Len(head) = IF Len(read) <= limit THEN Len(read) ELSE limit
      /\ \A i \in DOMAIN head : i \in DOMAIN read /\ head[i] = read[i]
  <2> HIDE DEF head
  <2> QED
    BY <1>3, UptoList DEF head
<1> HIDE DEF head
<1>5. /\ Len(read) \in Nat /\ DOMAIN read = 1 .. Len(read)
      /\ DOMAIN head = 1 .. Len(head) /\ Len(head) \in Nat
  BY <1>3, <1>4
<1>6. Range(head) \in SUBSET left
  BY <1>4 DEF Range
<1>7. match \in SUBSET left /\ match \in SUBSET Int /\ IsFiniteSet(match)
  <2>1. match \in SUBSET left
    BY <1>6
  <2> HIDE DEF match
  <2> QED
    BY <1>1, <2>1, FS_Subset
<1>8. /\ items \in Seq(match) /\ Range(items) = match
      /\ \A i, j \in DOMAIN items : i < j <=> items[i] < items[j]
  <2> HIDE DEF items, match
  <2> QED
    BY <1>7, AscendingLists DEF items
<1> HIDE DEF items
<1>9. items \in Seq(left)
  <2> HIDE DEF match
  <2> QED
    BY <1>7, <1>8, SeqWider
<1>10. Len(read) > limit => limit \in DOMAIN read /\ read[limit] \in left
  BY <1>3, <1>5 DEF Range
<1>11. ASSUME NEW i \in left, i \notin Range(head)
       PROVE  Len(read) > limit /\ i > read[limit]
  <2>1. PICK k \in DOMAIN read : read[k] = i
    BY <1>3 DEF Range
  <2>2. k \notin DOMAIN head
    BY <1>4, <1>11, <2>1 DEF Range
  <2>3. Len(read) > limit /\ limit < k
    BY <1>4, <1>5, <2>1, <2>2
  <2>4. read[limit] < read[k]
    BY <1>3, <1>10, <2>3
  <2> QED
    BY <1>1, <1>10, <2>1, <2>3, <2>4
<1>12. ASSUME NEW i \in match, Len(read) > limit
       PROVE  i <= read[limit]
  <2>1. PICK k \in DOMAIN head : head[k] = i
    BY DEF Range
  <2>2. k \in DOMAIN read /\ read[k] = i /\ ~(limit < k)
    BY <1>4, <1>5, <1>12, <2>1
  <2>3. ~(read[limit] < read[k])
    BY <1>3, <1>10, <1>12, <2>2
  <2>4. read[limit] \in Int /\ read[k] \in Int
    BY <1>1, <1>7, <1>10, <1>12, <2>2
  <2> QED
    BY <2>2, <2>3, <2>4
<1>13. page.items = items
       /\ page.next = IF Len(read) > limit THEN read[limit] ELSE NoCursor
  BY <1>2
<1>14. \A i \in left : Matches(rows[i].labels, f.labels) =>
         i \in match \/ (Len(read) > limit /\ i > read[limit])
  BY <1>11
<1>15. Len(read) > limit => read[limit] # NoCursor
  <2>1. Len(read) > limit => read[limit] \in Nat
    BY <1>1, <1>10, TableEvents
  <2> QED
    BY <2>1, ReadingAssumption
<1> HIDE DEF match
<1> QED
  BY <1>8, <1>9, <1>10, <1>12, <1>13, <1>14, <1>15 DEF HoldsEvents

(* Session by session and each in its order: each event of the sessions    *)
(* once.                                                                   *)
HoldsAll(q, rows, places) ==
  /\ q \in Seq(places) /\ Range(q) = places /\ IsInjective(q)
  /\ \A m, n \in DOMAIN q :
       m < n /\ rows[q[m]].ev.sid = rows[q[n]].ev.sid =>
         rows[q[m]].ev.seq <= rows[q[n]].ev.seq

LEMMA LoadedEvents ==
  ASSUME NEW rows, IsTable(rows), NEW S, NEW q, q = LoadEvents(rows, S),
         NEW places, places = {i \in DOMAIN rows : rows[i].ev.sid \in S}
  PROVE  HoldsAll(q, rows, places)
<1> DEFINE Earlier(i, j) ==
             LET d == rows[i].ev  e == rows[j].ev
             IN  \/ Rank[d.sid] < Rank[e.sid]
                 \/ d.sid = e.sid /\ d.seq < e.seq
                 \/ d.sid = e.sid /\ d.seq = e.seq /\ i < j
           before == [j \in places |-> {i \in places : Earlier(i, j)}]
<1>1. IsFiniteSet(places)
  BY ListShape, FS_Interval, FS_Subset DEF IsTable
<1>2. \A i \in places : /\ i \in Int /\ rows[i].ev.seq \in Int
                         /\ rows[i].ev.sid \in Sessions
                         /\ Rank[rows[i].ev.sid] \in Int
  BY TableEvents, ReadingAssumption
<1>3. \A i, j \in places : Rank[rows[i].ev.sid] = Rank[rows[j].ev.sid]
                             => rows[i].ev.sid = rows[j].ev.sid
  BY <1>2, ReadingAssumption DEF IsInjective
<1>4. q = Ranked(before)
  BY DEF LoadEvents
<1>5. \A i, j \in places : i \in before[j] <=> Earlier(i, j)
  OBVIOUS
<1>6. before \in [places -> SUBSET places]
  OBVIOUS
<1> HIDE DEF before
<1>7. \A i \in places : ~Earlier(i, i)
  BY <1>2
<1>8. \A i, j \in places : i # j => Earlier(i, j) \/ Earlier(j, i)
  BY <1>2, <1>3
<1>9. \A i, j, k \in places : Earlier(i, j) /\ Earlier(j, k) => Earlier(i, k)
  BY <1>2
<1>10. \A m, n \in places :
         Earlier(m, n) /\ rows[m].ev.sid = rows[n].ev.sid => rows[m].ev.seq <= rows[n].ev.seq
  BY <1>2
<1> HIDE DEF Earlier
<1>11. Strict(before, places)
  BY <1>5, <1>6, <1>7, <1>8, <1>9 DEF Strict
<1>12. /\ q \in Seq(places) /\ Range(q) = places /\ IsInjective(q)
       /\ \A i, j \in DOMAIN q : i < j <=> q[i] \in before[q[j]]
  BY <1>1, <1>4, <1>11, RankedLists
<1>13. \A i \in DOMAIN q : q[i] \in places
  BY <1>12, SeqIsList
<1> QED
  BY <1>5, <1>10, <1>12, <1>13 DEF HoldsAll

-----------------------------------------------------------------------------
(* Types.                                                                  *)

(* What an import or a post hands to Accept.                               *)
IsItem(item) ==
  /\ item.event \in Events
  /\ item.exported => /\ item.token \in {c.jti : c \in Trust}
                      /\ item.received \in Nat \ {0}

IsBatch(items) == IsList(items) /\ \A n \in DOMAIN items : IsItem(items[n])

LEMMA AcceptTable ==
  ASSUME NEW rows, IsTable(rows), NEW items, IsBatch(items),
         NEW claims \in Trust, NEW extra, NEW moment \in Nat \ {0},
         NEW next, next = Accept(rows, items, claims, extra, moment)
  PROVE  /\ IsTable(next)
         /\ \A i \in DOMAIN rows : i \in DOMAIN next /\ next[i] = rows[i]
<1> DEFINE fresh == Ascending(Fresh(rows, items))
<1>1. /\ IsList(next)
      /\ \A i \in DOMAIN rows : i \in DOMAIN next /\ next[i] = rows[i]
      /\ \A i \in DOMAIN next \ DOMAIN rows :
           /\ fresh[i - Len(rows)] \in Fresh(rows, items)
           /\ next[i] = StoredEvent(items[fresh[i - Len(rows)]], claims, extra, moment)
  <2> HIDE DEF fresh
  <2> QED
    BY AcceptAdds DEF IsTable, IsBatch, fresh
<1>2. Fresh(rows, items) \subseteq DOMAIN items
  BY FreshPlaces DEF IsBatch
<1> HIDE DEF fresh
<1>3. ASSUME NEW item, IsItem(item)
      PROVE  RowType(StoredEvent(item, claims, extra, moment))
  BY <1>3 DEF IsItem, RowType, StoredEvent
<1>4. \A i \in DOMAIN next : RowType(next[i])
  BY <1>1, <1>2, <1>3 DEF IsTable, IsBatch
<1> QED
  BY <1>1, <1>4 DEF IsTable

Walks ==
  [task   : {"none", "sessions", "workshop", "events", "download", "export"},
   state  : {"idle", "on", "done", "loaded", "400", "404", "409"},
   filter : Filters \cup {Nothing},
   limit  : 1 .. MaxLimit,
   cursor : {NoCursor, Forged} \cup Nat \cup [started : Nat, sid : Sessions],
   queue  : Seq(Sessions),
   seen   : Seq(Nat \cup Sessions),
   owed   : SUBSET (Nat \cup Sessions),
   early  : SUBSET Sessions,
   given  : Imports \cup {Nothing}]

Asked == walk.task \in {"sessions", "workshop", "events", "download"}
           => walk.filter \in Filters

(* A cursor that the service gave out.                                     *)
Issued ==
  walk.cursor \notin {NoCursor, Forged} =>
    \/ walk.task = "events" /\ walk.cursor \in DOMAIN store
    \/ /\ walk.task \in {"sessions", "workshop"}
       /\ walk.cursor \in [started : Nat, sid : Present(store)]

TypeInv ==
  /\ IsTable(store) /\ IsTable(other) /\ IsBatch(file)
  /\ walk \in Walks /\ Asked /\ Issued

LEMMA TypeInvTypes == TypeInv => TypeOK
BY DEF TypeInv, TypeOK, IsTable, Issued, Walks

LEMMA MomentCounts == IsTable(store) /\ IsTable(other) => Moment \in Nat \ {0}
BY ListShape DEF IsTable, Moment

LEMMA BoundedLimit ==
  ASSUME NEW limit \in Limits
  PROVE  Limited(limit) \in 1 .. MaxLimit
<1>1. limit \in Nat /\ MaxLimit \in Nat \ {0}
  BY ReadingAssumption
<1>2. Min({limit, MaxLimit}) \in Nat /\ Min({limit, MaxLimit}) <= MaxLimit
  BY <1>1, MinOfTwo
<1> QED
  BY <1>1, <1>2, MaxOfTwo DEF Limited

LEMMA PostBatch ==
  ASSUME NEW p \in Posts,
         NEW items, items = [i \in DOMAIN p.events |-> Plain(p.events[i])]
  PROVE  /\ IsBatch(items) /\ p.claims \in Trust
         /\ \A n \in DOMAIN items : /\ n \in DOMAIN p.events
                                    /\ items[n] = Plain(p.events[n])
<1>1. p.events \in Seq(Events) /\ p.claims \in Trust
  BY ReadingAssumption
<1>2. /\ DOMAIN items = 1 .. Len(p.events) /\ Len(p.events) \in Nat
      /\ \A n \in DOMAIN items : items[n] = Plain(p.events[n]) /\ p.events[n] \in Events
  BY <1>1
<1>3. items = [n \in DOMAIN items |-> items[n]]
  OBVIOUS
<1>4. IsList(items)
  BY <1>2, <1>3, ListMade
<1> QED
  BY <1>1, <1>2, <1>4 DEF IsBatch, IsItem, Plain

LEMMA TypeStarts == Init => TypeInv
<1> SUFFICES ASSUME Init
             PROVE  TypeInv
  OBVIOUS
<1>1. IsTable(store) /\ IsTable(other) /\ IsBatch(file)
  BY DEF Init, IsTable, IsBatch, IsList, Range
<1>2. walk \in Walks
  BY ReadingAssumption DEF Init, Idle, Walks
<1> QED
  BY <1>1, <1>2 DEF TypeInv, Asked, Issued, Init, Idle

(* A later store has the sessions of an earlier one.                       *)
LEMMA PresentStays ==
  ASSUME NEW rows, NEW next,
         \A i \in DOMAIN rows : i \in DOMAIN next /\ next[i] = rows[i]
  PROVE  Present(rows) \subseteq Present(next)
BY DEF Present

LEMMA TypePost ==
  ASSUME TypeInv, NEW p \in Posts, Post(p)
  PROVE  /\ TypeInv'
         /\ \A i \in DOMAIN store : i \in DOMAIN store' /\ store'[i] = store[i]
<1> DEFINE items == [i \in DOMAIN p.events |-> Plain(p.events[i])]
<1>1. IsBatch(items) /\ p.claims \in Trust
  BY PostBatch
<1>2. store' = Accept(store, items, p.claims, <<>>, Moment)
  BY DEF Post
<1>3. Moment \in Nat \ {0}
  BY MomentCounts DEF TypeInv
<1> HIDE DEF items
<1>4. /\ IsTable(store')
      /\ \A i \in DOMAIN store : i \in DOMAIN store' /\ store'[i] = store[i]
  BY <1>1, <1>2, <1>3, AcceptTable DEF TypeInv
<1>5. IsTable(other') /\ IsBatch(file')
  BY DEF TypeInv, Post
<1>6. Present(store) \subseteq Present(store')
  BY <1>4, PresentStays
<1>7. Present(store) \subseteq Sessions
  BY TableEvents DEF TypeInv, Present
<1>8. walk' \in Walks /\ walk'.task = walk.task /\ walk'.cursor = walk.cursor
      /\ walk'.filter = walk.filter
  <2>1. CASE ~Walking
    BY <2>1 DEF Post, TypeInv
  <2>2. CASE Walking
    <3>1. PICK O \in SUBSET walk.owed, E \in SUBSET Present(store) :
            walk' = [walk EXCEPT !.owed = O, !.early = walk.early \cup E]
      BY <2>2 DEF Post
    <3>2. walk \in Walks
      BY DEF TypeInv
    <3>3. walk.early \cup E \in SUBSET Sessions /\ O \in SUBSET (Nat \cup Sessions)
      BY <1>7, <3>2 DEF Walks
    <3> QED
      BY <3>1, <3>2, <3>3 DEF Walks
  <2> QED
    BY <2>1, <2>2
<1>9. Asked' /\ Issued'
  BY <1>4, <1>6, <1>8 DEF TypeInv, Asked, Issued
<1> QED
  BY <1>4, <1>5, <1>8, <1>9 DEF TypeInv

Begun(task, f, limit, cursor, queue, owed) ==
  [task |-> task, state |-> "on", filter |-> f, limit |-> limit,
   cursor |-> cursor, queue |-> queue, seen |-> <<>>, owed |-> owed,
   early |-> {}, given |-> Nothing]

LEMMA BegunTypes ==
  ASSUME NEW task \in {"sessions", "workshop", "events", "download"},
         NEW f \in Filters, NEW limit \in 1 .. MaxLimit,
         NEW cursor \in {NoCursor, Forged}, NEW queue \in Seq(Sessions),
         NEW owed \in SUBSET (Nat \cup Sessions)
  PROVE  Begun(task, f, limit, cursor, queue, owed) \in Walks
<1>0. <<>> \in Seq(Nat \cup Sessions) /\ {} \in SUBSET Sessions
  OBVIOUS
<1>1. PICK seen \in Seq(Nat \cup Sessions), early \in SUBSET Sessions :
        seen = <<>> /\ early = {}
  BY <1>0, Zenon
<1> QED
  BY <1>1 DEF Walks, Begun

LEMMA TypeBegin ==
  ASSUME TypeInv, NEW task \in {"sessions", "workshop", "events", "download"},
         NEW f \in Filters, NEW limit \in 1 .. MaxLimit,
         NEW cursor \in {NoCursor, Forged}, NEW queue \in Seq(Sessions),
         NEW owed \in SUBSET (Nat \cup Sessions),
         walk' = Begun(task, f, limit, cursor, queue, owed),
         UNCHANGED <<store, file, other>>
  PROVE  TypeInv'
<1>1. walk' \in Walks
  BY BegunTypes
<1>2. Asked' /\ Issued'
  BY DEF Asked, Issued, Begun
<1> QED
  BY <1>1, <1>2 DEF TypeInv

LEMMA ListedPresent ==
  ASSUME NEW rows, NEW f
  PROVE  LoadSessions(rows, f) \subseteq Present(rows)
BY DEF LoadSessions

LEMMA StoreTypes ==
  ASSUME TypeInv
  PROVE  /\ Present(store) \subseteq Sessions
         /\ DOMAIN store \subseteq Nat
BY TableEvents DEF TypeInv, Present

LEMMA TypeBeginPaging ==
  ASSUME TypeInv, NEW f \in Filters, NEW limit \in Limits,
         NEW cursor \in {NoCursor, Forged},
         \/ \E task \in {"sessions", "workshop"} : BeginSessions(task, f, limit, cursor)
         \/ BeginEvents(f, limit, cursor)
  PROVE  TypeInv'
<1>1. PICK task \in {"sessions", "workshop", "events"}, owed \in SUBSET (Nat \cup Sessions) :
        Begin(task, f, limit, cursor, owed)
  <2>1. LoadSessions(store, f) \in SUBSET (Nat \cup Sessions)
    BY ListedPresent, StoreTypes
  <2>2. {i \in Found(store, f) : Matches(store[i].labels, f.labels)}
          \in SUBSET (Nat \cup Sessions)
    BY StoreTypes DEF Found
  <2> QED
    BY <2>1, <2>2 DEF BeginSessions, BeginEvents
<1> DEFINE queue == <<>>
<1>2. walk' = Begun(task, f, Limited(limit), cursor, queue, owed)
  BY <1>1 DEF Begin, Idle, Begun
<1>3. queue \in Seq(Sessions) /\ UNCHANGED <<store, file, other>>
  BY <1>1 DEF Begin
<1>4. Limited(limit) \in 1 .. MaxLimit
  BY BoundedLimit
<1> HIDE DEF queue
<1> QED
  BY <1>2, <1>3, <1>4, TypeBegin

LEMMA DownloadBegins ==
  ASSUME TypeInv, NEW f \in Filters, BeginDownload(f)
  PROVE  /\ TypeInv'
         /\ walk'.task = "download" /\ walk'.seen = <<>> /\ IsInjective(walk'.queue)
         /\ walk'.owed = {i \in DOMAIN store : store[i].ev.sid \in Range(walk'.queue)}
         /\ walk'.state = "on"
<1> DEFINE listed == LoadSessions(store, f)
           queue == NewestFirst(store, listed)
           owed  == {i \in DOMAIN store : store[i].ev.sid \in listed}
<1>1. listed \in SUBSET Present(store)
  BY ListedPresent
<1>2. queue \in Seq(listed) /\ Range(queue) = listed /\ IsInjective(queue)
  <2> HIDE DEF listed, queue
  <2> QED
    BY <1>1, NewestLists DEF queue, TypeInv
<1>3. /\ walk' = [Idle EXCEPT !.task = "download", !.state = "on", !.filter = f,
                              !.queue = queue, !.owed = owed]
      /\ UNCHANGED <<store, file, other>>
  BY DEF BeginDownload
<1>4. owed \in SUBSET (Nat \cup Sessions)
  BY StoreTypes
<1>5. owed = {i \in DOMAIN store : store[i].ev.sid \in Range(queue)}
  BY <1>2
<1> HIDE DEF listed, queue, owed
<1>6. listed \subseteq Sessions
  BY <1>1, StoreTypes
<1>7. queue \in Seq(Sessions)
  BY <1>2, <1>6, SeqWider
<1>8. /\ walk'.task = "download" /\ walk'.seen = <<>> /\ walk'.queue = queue
      /\ walk'.owed = owed /\ walk'.state = "on"
  BY <1>3 DEF Idle
<1>9. walk' = Begun("download", f, 1, NoCursor, queue, owed)
  BY <1>3 DEF Idle, Begun
<1>10. 1 \in 1 .. MaxLimit
  BY ReadingAssumption
<1>11. TypeInv'
  BY <1>3, <1>4, <1>7, <1>9, <1>10, TypeBegin
<1> QED
  BY <1>2, <1>5, <1>8, <1>11

(* A page's items go behind those seen.                                    *)
LEMMA TypeTurn ==
  ASSUME TypeInv, NEW page, Turn(page), UNCHANGED <<store, file, other>>,
         walk.task \in {"sessions", "workshop", "events"},
         page.items \in Seq(Nat \cup Sessions),
         page.next # NoCursor =>
           IF walk.task = "events" THEN page.next \in DOMAIN store
           ELSE page.next \in [started : Nat, sid : Present(store)]
  PROVE  TypeInv'
<1>1. walk \in Walks /\ Present(store) \subseteq Sessions /\ DOMAIN store \subseteq Nat
  BY StoreTypes DEF TypeInv
<1>2. walk.seen \o page.items \in Seq(Nat \cup Sessions)
  <2>1. walk.seen \in Seq(Nat \cup Sessions)
    BY <1>1 DEF Walks
  <2> QED
    BY <2>1, ConcatProperties
<1>3. page.next \in {NoCursor, Forged} \cup Nat \cup [started : Nat, sid : Sessions]
  BY <1>1
<1>4. PICK state \in {"on", "done"}, seen \in Seq(Nat \cup Sessions),
           next \in {NoCursor, Forged} \cup Nat \cup [started : Nat, sid : Sessions] :
        /\ next = page.next
        /\ walk' = [walk EXCEPT !.seen = seen, !.cursor = next, !.state = state]
  BY <1>2, <1>3 DEF Turn
<1>5. walk' \in Walks
  BY <1>1, <1>4 DEF Walks
<1>6. walk'.task = walk.task /\ walk'.filter = walk.filter /\ walk'.cursor = page.next
  BY <1>1, <1>4 DEF Walks
<1>7. Asked' /\ Issued'
  BY <1>6 DEF TypeInv, Asked, Issued
<1> QED
  BY <1>5, <1>7 DEF TypeInv

LEMMA TypeRefuse ==
  ASSUME TypeInv, NEW status \in {"400", "404", "409"}, Refuse(status),
         UNCHANGED <<store, file, other>>
  PROVE  TypeInv'
<1>1. walk' \in Walks /\ walk'.task = walk.task /\ walk'.filter = walk.filter
      /\ walk'.cursor = walk.cursor
  BY DEF TypeInv, Refuse, Walks
<1>2. Asked' /\ Issued'
  BY <1>1 DEF TypeInv, Asked, Issued
<1> QED
  BY <1>1, <1>2 DEF TypeInv

LEMMA TypeReadEvents ==
  ASSUME TypeInv, ReadEvents
  PROVE  TypeInv'
<1> DEFINE page == QueryEvents(store, walk.filter, walk.limit, walk.cursor)
           left == {i \in Found(store, walk.filter) :
                      walk.cursor = NoCursor \/ i > walk.cursor}
<1>1. CASE walk.cursor = Forged
  <2>1. Refuse("400") /\ UNCHANGED <<store, file, other>>
    BY <1>1 DEF ReadEvents
  <2> QED
    BY <2>1, TypeRefuse
<1>2. CASE walk.cursor # Forged
  <2>1. /\ Turn(page) /\ UNCHANGED <<store, file, other>>
        /\ walk.task = "events"
    BY <1>2 DEF ReadEvents
  <2>2. IsTable(store) /\ walk.limit \in Nat \ {0}
    BY DEF TypeInv, Walks
  <2>a. /\ page = QueryEvents(store, walk.filter, walk.limit, walk.cursor)
        /\ left = {i \in Found(store, walk.filter) :
                     walk.cursor = NoCursor \/ i > walk.cursor}
    OBVIOUS
  <2> HIDE DEF page
  <2>3. page.items \in Seq(left) /\ (page.next = NoCursor \/ page.next \in left)
    <3> HIDE DEF left
    <3>1. HoldsEvents(page, store, walk.filter, left)
      BY <2>a, <2>2, EventsPage
    <3> QED
      BY <3>1 DEF HoldsEvents
  <2>4. left \subseteq DOMAIN store /\ left \subseteq Nat \cup Sessions
    BY StoreTypes DEF Found
  <2> HIDE DEF left
  <2>5. page.items \in Seq(Nat \cup Sessions)
    BY <2>3, <2>4, SeqWider
  <2> QED
    BY <2>1, <2>3, <2>4, <2>5, TypeTurn
<1> QED
  BY <1>1, <1>2

(* What a page of sessions is asked for: the filter, and of a workshop the *)
(* collection its name stands for now.                                     *)
Asking == IF walk.task = "workshop" THEN ResolveWorkshop(store, walk.filter)
          ELSE <<"ok", walk.filter.collection>>

Resolved == [walk.filter EXCEPT !.collection = Asking[2]]

LEMMA SessionsTurn ==
  ASSUME ReadSessions
  PROVE  /\ UNCHANGED <<store, file, other>> /\ Walking
         /\ \/ \E status \in {"400", "404", "409"} : Refuse(status)
            \/ /\ Asking[1] = "ok" /\ walk.cursor # Forged
               /\ Turn(ListSessions(store, Resolved, walk.limit, walk.cursor))
<1>1. Asking[1] \in {"ok", "404", "409"}
  BY DEF Asking, ResolveWorkshop
<1>2. CASE Asking[1] # "ok"
  BY <1>1, <1>2 DEF ReadSessions, Asking
<1>3. CASE Asking[1] = "ok" /\ walk.cursor = Forged
  BY <1>3 DEF ReadSessions, Asking
<1>4. CASE Asking[1] = "ok" /\ walk.cursor # Forged
  BY <1>4 DEF ReadSessions, Asking, Resolved
<1> QED
  BY <1>2, <1>3, <1>4

LEMMA TypeReadSessions ==
  ASSUME TypeInv, ReadSessions
  PROVE  TypeInv'
<1> DEFINE page == ListSessions(store, Resolved, walk.limit, walk.cursor)
           left == {s \in LoadSessions(store, Resolved) :
                      walk.cursor = NoCursor \/ Precedes(Key(store, s), walk.cursor)}
<1>0. UNCHANGED <<store, file, other>> /\ walk.task \in {"sessions", "workshop"}
  BY SessionsTurn DEF Walking
<1>1. CASE \E status \in {"400", "404", "409"} : Refuse(status)
  BY <1>0, <1>1, TypeRefuse
<1>2. CASE Turn(page)
  <2>1. IsTable(store) /\ walk.limit \in Nat \ {0}
    BY DEF TypeInv, Walks
  <2>a. /\ page = ListSessions(store, Resolved, walk.limit, walk.cursor)
        /\ left = {s \in LoadSessions(store, Resolved) :
                     walk.cursor = NoCursor \/ Precedes(Key(store, s), walk.cursor)}
    OBVIOUS
  <2> HIDE DEF page
  <2>2. /\ page.items \in Seq(left)
        /\ page.next = NoCursor \/ \E s \in left : page.next = Key(store, s)
    <3> HIDE DEF left
    <3> QED
      BY <2>a, <2>1, SessionsPage DEF HoldsSessions
  <2>3. left \subseteq Present(store) /\ left \subseteq Nat \cup Sessions
    BY ListedPresent, StoreTypes
  <2> HIDE DEF left
  <2>4. page.items \in Seq(Nat \cup Sessions)
    BY <2>2, <2>3, SeqWider
  <2>5. page.next = NoCursor \/ page.next \in [started : Nat, sid : Present(store)]
    <3>1. \A s \in left : StartedAt(store, s) \in Nat /\ s \in Present(store)
      BY <2>1, <2>3, StartedNumber
    <3>2. SUFFICES ASSUME NEW s \in left, page.next = Key(store, s)
                   PROVE  page.next \in [started : Nat, sid : Present(store)]
      BY <2>2
    <3> QED
      BY <3>1, <3>2 DEF Key
  <2>6. walk.task # "events"
    BY <1>0
  <2> QED
    BY <1>0, <1>2, <2>4, <2>5, <2>6, TypeTurn
<1> QED
  BY <1>1, <1>2, SessionsTurn

(* A list in two parts.                                                    *)
Parts(q, chunk, rest) ==
  /\ Range(q) \subseteq Range(chunk) \cup Range(rest)
  /\ Range(chunk) \subseteq Range(q) /\ Range(rest) \subseteq Range(q)
  /\ IsInjective(q) => IsInjective(rest) /\ Range(chunk) \cap Range(rest) = {}

CutAt(q, chunk, rest, k, m, n, o) ==
  /\ n = IF m <= k THEN m ELSE k
  /\ o = IF k < m THEN m - k ELSE 0
  /\ DOMAIN q = 1 .. m /\ DOMAIN chunk = 1 .. n /\ DOMAIN rest = 1 .. o
  /\ \A i \in DOMAIN chunk : chunk[i] = q[i]
  /\ \A i \in DOMAIN rest : rest[i] = q[i + k]

LEMMA PartsByPlace ==
  ASSUME NEW k \in Nat, NEW m \in Nat, NEW n \in Nat, NEW o \in Nat,
         NEW q, NEW chunk, NEW rest, CutAt(q, chunk, rest, k, m, n, o)
  PROVE  Parts(q, chunk, rest)
<1>1. /\ n = IF m <= k THEN m ELSE k
      /\ o = IF k < m THEN m - k ELSE 0
      /\ DOMAIN q = 1 .. m /\ DOMAIN chunk = 1 .. n /\ DOMAIN rest = 1 .. o
      /\ \A i \in DOMAIN chunk : chunk[i] = q[i]
      /\ \A i \in DOMAIN rest : rest[i] = q[i + k]
  BY DEF CutAt
<1>2. \A i \in DOMAIN chunk : i \in DOMAIN q /\ i <= k /\ chunk[i] = q[i]
  BY <1>1
<1>3. \A i \in DOMAIN rest : i + k \in DOMAIN q /\ i + k > k /\ rest[i] = q[i + k]
  BY <1>1
<1>4. \A i \in DOMAIN q :
        i \in DOMAIN chunk \/ (i - k \in DOMAIN rest /\ rest[i - k] = q[i])
  <2> SUFFICES ASSUME NEW i \in DOMAIN q, i \notin DOMAIN chunk
               PROVE  i - k \in DOMAIN rest /\ rest[i - k] = q[i]
    OBVIOUS
  <2>1. i \in Int /\ k < i /\ i <= m
    BY <1>1
  <2>2. i - k \in DOMAIN rest /\ i - k + k = i
    BY <1>1, <2>1
  <2> QED
    BY <1>1, <2>2
<1>5. Range(q) \subseteq Range(chunk) \cup Range(rest)
  BY <1>2, <1>4 DEF Range
<1>6. Range(chunk) \subseteq Range(q) /\ Range(rest) \subseteq Range(q)
  BY <1>2, <1>3 DEF Range
<1>7. ASSUME IsInjective(q)
      PROVE  IsInjective(rest) /\ Range(chunk) \cap Range(rest) = {}
  <2>1. \A i, j \in DOMAIN rest : rest[i] = rest[j] => i + k = j + k
    BY <1>3, <1>7 DEF IsInjective
  <2>2. \A i, j \in DOMAIN rest : i + k = j + k => i = j
    BY <1>1
  <2>3. ASSUME NEW i \in DOMAIN chunk, NEW j \in DOMAIN rest, chunk[i] = rest[j]
        PROVE  FALSE
    <3>1. i = j + k
      BY <1>2, <1>3, <1>7, <2>3 DEF IsInjective
    <3>2. i \in Int /\ j + k \in Int /\ i <= k /\ j + k > k
      BY <1>1, <1>2, <1>3
    <3> QED
      BY <3>1, <3>2
  <2>4. Range(chunk) \cap Range(rest) = {}
    BY <2>3 DEF Range
  <2> QED
    BY <2>1, <2>2, <2>4 DEF IsInjective
<1> QED
  BY <1>5, <1>6, <1>7 DEF Parts

LEMMA Parted ==
  ASSUME NEW S, NEW q \in Seq(S), NEW k \in Nat, NEW chunk, chunk = Upto(q, k),
         NEW rest, rest = SubSeq(q, k + 1, Len(q))
  PROVE  chunk \in Seq(S) /\ rest \in Seq(S) /\ Parts(q, chunk, rest)
<1> DEFINE from == k + 1
           end  == Len(q)
<1>1. /\ chunk \in Seq(S)
      /\ Len(chunk) = IF Len(q) <= k THEN Len(q) ELSE k
      /\ \A i \in DOMAIN chunk : chunk[i] = q[i]
  BY UptoList
<1>2. Len(q) \in Nat /\ \A i \in 1 .. Len(q) : q[i] \in S
  OBVIOUS
<1>3. from \in Int /\ end \in Int /\ \A i \in from .. end : q[i] \in S
  BY <1>2
<1>4. from = k + 1 /\ end = Len(q) /\ rest = SubSeq(q, from, end)
  OBVIOUS
<1> HIDE DEF from, end
<1>5. /\ SubSeq(q, from, end) \in Seq(S)
      /\ Len(SubSeq(q, from, end)) = IF from <= end THEN end - from + 1 ELSE 0
      /\ \A i \in 1 .. end - from + 1 : SubSeq(q, from, end)[i] = q[from + i - 1]
  BY <1>3, SubSeqProperties
<1>6. /\ rest \in Seq(S)
      /\ Len(rest) = IF k < Len(q) THEN Len(q) - k ELSE 0
  BY <1>2, <1>4, <1>5
<1>7. \A i \in 1 .. Len(q) - k : rest[i] = q[i + k]
  <2>1. \A i \in 1 .. Len(q) - k : i \in 1 .. end - from + 1 /\ from + i - 1 = i + k
    BY <1>2, <1>4
  <2> QED
    BY <1>4, <1>5, <2>1
<1>8. \A i \in DOMAIN rest : rest[i] = q[i + k]
  <2>1. \A i \in DOMAIN rest : i \in 1 .. Len(q) - k
    BY <1>2, <1>6
  <2> QED
    BY <1>7, <2>1
<1>9. /\ Len(q) \in Nat /\ DOMAIN q = 1 .. Len(q)
      /\ Len(chunk) \in Nat /\ DOMAIN chunk = 1 .. Len(chunk)
      /\ Len(rest) \in Nat /\ DOMAIN rest = 1 .. Len(rest)
  BY <1>1, <1>6
<1>10. PICK m \in Nat, n \in Nat, o \in Nat :
         /\ DOMAIN q = 1 .. m /\ DOMAIN chunk = 1 .. n /\ DOMAIN rest = 1 .. o
         /\ n = IF m <= k THEN m ELSE k
         /\ o = IF k < m THEN m - k ELSE 0
  BY <1>1, <1>6, <1>9
<1>11. \A i \in DOMAIN chunk : chunk[i] = q[i]
  BY <1>1
<1>12. CutAt(q, chunk, rest, k, m, n, o)
  BY <1>8, <1>10, <1>11 DEF CutAt
<1>13. Parts(q, chunk, rest)
  BY <1>12, PartsByPlace
<1> QED
  BY <1>1, <1>6, <1>13

(* What a chunk takes from the queue and adds to what was seen.            *)
LEMMA ChunkRead ==
  ASSUME TypeInv, ReadChunk, walk.queue # <<>>
  PROVE  \E chunk \in Seq(Sessions), rest \in Seq(Sessions) :
           /\ Parts(walk.queue, chunk, rest)
           /\ walk' = [walk EXCEPT !.seen  = walk.seen \o LoadEvents(store, Range(chunk)),
                                   !.queue = rest]
<1> DEFINE chunk == Upto(walk.queue, Chunk)
           rest  == SubSeq(walk.queue, Chunk + 1, Len(walk.queue))
<1>1. walk.queue \in Seq(Sessions) /\ Chunk \in Nat
  BY ReadingAssumption DEF TypeInv, Walks
<1>2. chunk \in Seq(Sessions) /\ rest \in Seq(Sessions)
      /\ Parts(walk.queue, chunk, rest)
  <2>1. chunk = Upto(walk.queue, Chunk)
        /\ rest = SubSeq(walk.queue, Chunk + 1, Len(walk.queue))
    OBVIOUS
  <2> HIDE DEF chunk, rest
  <2> QED
    BY <1>1, <2>1, Parted
<1>3. walk' = [walk EXCEPT !.seen  = walk.seen \o LoadEvents(store, Range(chunk)),
                           !.queue = rest]
  BY DEF ReadChunk
<1> HIDE DEF chunk, rest
<1> QED
  BY <1>2, <1>3

LEMMA TypeReadChunk ==
  ASSUME TypeInv, ReadChunk
  PROVE  TypeInv'
<1>0. UNCHANGED <<store, file, other>> /\ walk.task = "download" /\ walk \in Walks
  BY DEF ReadChunk, TypeInv
<1>1. CASE walk.queue = <<>>
  <2>1. walk' = [walk EXCEPT !.state = "done"]
    BY <1>1 DEF ReadChunk
  <2>2. walk' \in Walks /\ walk'.task = walk.task /\ walk'.filter = walk.filter
        /\ walk'.cursor = walk.cursor
    BY <1>0, <2>1 DEF Walks
  <2> QED
    BY <1>0, <2>2 DEF TypeInv, Asked, Issued
<1>2. CASE walk.queue # <<>>
  <2>1. PICK chunk \in Seq(Sessions), rest \in Seq(Sessions) :
          walk' = [walk EXCEPT !.seen  = walk.seen \o LoadEvents(store, Range(chunk)),
                               !.queue = rest]
    BY <1>2, ChunkRead
  <2> DEFINE read   == LoadEvents(store, Range(chunk))
             places == {i \in DOMAIN store : store[i].ev.sid \in Range(chunk)}
             seen   == walk.seen \o read
  <2>2. read \in Seq(places)
    <3>1. read = LoadEvents(store, Range(chunk)) /\ IsTable(store)
          /\ places = {i \in DOMAIN store : store[i].ev.sid \in Range(chunk)}
      BY DEF TypeInv
    <3> HIDE DEF read, places
    <3> QED
      BY <3>1, LoadedEvents DEF HoldsAll
  <2>3. places \subseteq Nat \cup Sessions
    BY StoreTypes
  <2>4. walk' = [walk EXCEPT !.seen = seen, !.queue = rest]
    BY <2>1
  <2> HIDE DEF read, places
  <2>5. read \in Seq(Nat \cup Sessions)
    BY <2>2, <2>3, SeqWider
  <2>6. walk.seen \in Seq(Nat \cup Sessions)
    BY <1>0 DEF Walks
  <2>7. seen \in Seq(Nat \cup Sessions)
    BY <2>5, <2>6, ConcatProperties
  <2> HIDE DEF seen
  <2>8. walk' \in Walks /\ walk'.task = walk.task /\ walk'.filter = walk.filter
        /\ walk'.cursor = walk.cursor
    BY <1>0, <2>4, <2>7 DEF Walks
  <2> QED
    BY <1>0, <2>8 DEF TypeInv, Asked, Issued
<1> QED
  BY <1>1, <1>2

(* What an export writes of a row.                                         *)
Line(row) == [exported |-> TRUE, event |-> row.ev, labels |-> row.labels,
              token |-> row.token, received |-> row.received]

LEMMA Exported ==
  ASSUME TypeInv, NEW f \in Filters, Export(f)
  PROVE  /\ IsList(file')
         /\ \A n \in DOMAIN file' : \E i \in DOMAIN store : file'[n] = Line(store[i])
         /\ \A m, n \in DOMAIN file' : \A i \in DOMAIN store :
              file'[m] = Line(store[i]) /\ file'[n] = Line(store[i]) /\ Apart(store) => m = n
<1> DEFINE match == {i \in Found(store, f) : Matches(store[i].labels, f.labels)}
           rows  == Ascending(match)
<1>1. match \in SUBSET DOMAIN store /\ match \in SUBSET Int /\ IsFiniteSet(match)
  <2>1. match \in SUBSET DOMAIN store
    BY DEF Found
  <2>2. DOMAIN store = 1 .. Len(store) /\ Len(store) \in Nat
    BY ListShape DEF TypeInv, IsTable
  <2> HIDE DEF match
  <2>3. IsFiniteSet(DOMAIN store)
    BY <2>2, FS_Interval
  <2>4. IsFiniteSet(match)
    BY <2>1, <2>3, FS_Subset
  <2> QED
    BY <2>1, <2>2, <2>4
<1>2. rows \in Seq(match) /\ IsInjective(rows)
  <2>1. rows = Ascending(match)
    OBVIOUS
  <2> HIDE DEF match, rows
  <2> QED
    BY <1>1, <2>1, AscendingLists
<1>3. file' = [n \in DOMAIN rows |-> Line(store[rows[n]])]
  BY DEF Export, Line
<1> HIDE DEF match, rows
<1>4. /\ DOMAIN rows = 1 .. Len(rows) /\ Len(rows) \in Nat
      /\ \A n \in DOMAIN rows : rows[n] \in DOMAIN store
  BY <1>1, <1>2
<1>5. DOMAIN file' = DOMAIN rows /\ \A n \in DOMAIN file' : file'[n] = Line(store[rows[n]])
  BY <1>3
<1>6. file' = [n \in DOMAIN file' |-> file'[n]]
  BY <1>3
<1>7. IsList(file')
  BY <1>4, <1>5, <1>6, ListMade
<1>8. ASSUME NEW m \in DOMAIN file', NEW n \in DOMAIN file', NEW i \in DOMAIN store,
             file'[m] = Line(store[i]), file'[n] = Line(store[i]), Apart(store)
      PROVE  m = n
  <2>1. store[rows[m]].ev = store[i].ev /\ store[rows[n]].ev = store[i].ev
    BY <1>5, <1>8 DEF Line
  <2>2. rows[m] = i /\ rows[n] = i
    BY <1>4, <1>5, <1>8, <2>1 DEF Apart
  <2> QED
    BY <1>2, <1>5, <2>2 DEF IsInjective
<1> QED
  BY <1>4, <1>5, <1>7, <1>8

LEMMA TypeExport ==
  ASSUME TypeInv, NEW f \in Filters, Export(f)
  PROVE  TypeInv'
<1>1. IsBatch(file')
  <2>1. \A i \in DOMAIN store : IsItem(Line(store[i]))
    BY DEF TypeInv, IsTable, RowType, IsItem, Line
  <2> QED
    BY <2>1, Exported DEF IsBatch
<1>2. walk' = [Idle EXCEPT !.task = "export", !.state = "done"] /\ UNCHANGED <<store, other>>
  BY DEF Export
<1>3. <<>> \in Seq(Nat \cup Sessions) /\ <<>> \in Seq(Sessions) /\ {} \in SUBSET Sessions
      /\ {} \in SUBSET (Nat \cup Sessions) /\ 1 \in 1 .. MaxLimit
  BY ReadingAssumption
<1>4. walk' = [task |-> "export", state |-> "done", filter |-> Nothing, limit |-> 1,
               cursor |-> NoCursor, queue |-> <<>>, seen |-> <<>>, owed |-> {},
               early |-> {}, given |-> Nothing]
  BY <1>2 DEF Idle
<1>5. walk' \in Walks
  BY <1>3, <1>4 DEF Walks
<1>6. Asked' /\ Issued'
  BY <1>4 DEF Asked, Issued
<1> QED
  BY <1>1, <1>2, <1>5, <1>6 DEF TypeInv

LEMMA TypeImport ==
  ASSUME TypeInv, NEW i \in Imports, Import(i)
  PROVE  TypeInv'
<1>1. other' = Accept(other, file, i.claims, i.labels, Moment) /\ UNCHANGED <<store, file>>
  BY DEF Import
<1>2. Moment \in Nat \ {0}
  BY MomentCounts DEF TypeInv
<1>3. i.claims \in Trust
  BY ReadingAssumption
<1>4. IsTable(other')
  BY <1>1, <1>2, <1>3, AcceptTable DEF TypeInv
<1>5. walk \in Walks /\ walk.task = "export"
  BY DEF TypeInv, Import
<1>6. PICK given \in Imports \cup {Nothing} :
        walk' = [walk EXCEPT !.state = "loaded", !.given = given]
  BY <1>5 DEF Import, Walks
<1>7. walk' \in Walks /\ walk'.task = walk.task /\ walk'.filter = walk.filter
      /\ walk'.cursor = walk.cursor
  BY <1>5, <1>6 DEF Walks
<1> QED
  BY <1>1, <1>4, <1>7 DEF TypeInv, Asked, Issued

LEMMA TypeStep == TypeInv /\ [Next]_vars => TypeInv'
<1> SUFFICES ASSUME TypeInv, [Next]_vars
             PROVE  TypeInv'
  OBVIOUS
<1>1. CASE UNCHANGED vars
  BY <1>1 DEF vars, TypeInv, Asked, Issued
<1>2. ASSUME NEW p \in Posts, Post(p)
      PROVE  TypeInv'
  BY <1>2, TypePost
<1>3. ASSUME NEW task \in {"sessions", "workshop"}, NEW f \in Filters,
             NEW limit \in Limits, NEW cursor \in {NoCursor, Forged},
             BeginSessions(task, f, limit, cursor)
      PROVE  TypeInv'
  BY <1>3, TypeBeginPaging
<1>4. ASSUME NEW f \in Filters, NEW limit \in Limits, NEW cursor \in {NoCursor, Forged},
             BeginEvents(f, limit, cursor)
      PROVE  TypeInv'
  BY <1>4, TypeBeginPaging
<1>5. ASSUME NEW f \in Filters, BeginDownload(f)
      PROVE  TypeInv'
  BY <1>5, DownloadBegins
<1>6. ASSUME NEW f \in Filters, Export(f)
      PROVE  TypeInv'
  BY <1>6, TypeExport
<1>7. CASE ReadSessions
  BY <1>7, TypeReadSessions
<1>8. CASE ReadEvents
  BY <1>8, TypeReadEvents
<1>9. CASE ReadChunk
  BY <1>9, TypeReadChunk
<1>10. ASSUME NEW i \in Imports, Import(i)
       PROVE  TypeInv'
  BY <1>10, TypeImport
<1> QED
  BY <1>1, <1>2, <1>3, <1>4, <1>5, <1>6, <1>7, <1>8, <1>9, <1>10 DEF Next

LEMMA TypeAlways == Spec => []TypeInv
<1> QED
  BY TypeStarts, TypeStep, PTL DEF Spec

(* The rows of both stores are whole, a page is never empty by its limit,  *)
(* and a cursor that the service gave out points at something stored       *)
(* (queries.py:1719-1755 and 2010-2077).                                   *)
THEOREM TypeCorrect == Spec => []TypeOK
<1> QED
  BY TypeAlways, TypeInvTypes, PTL

-----------------------------------------------------------------------------
(* Labels of the rows the sink stored.                                     *)

LEMMA OverNothing ==
  ASSUME NEW f, NEW over, over = Over(f, <<>>)
  PROVE  DOMAIN over = DOMAIN f /\ \A x \in DOMAIN f : over[x] = f[x]
BY DEF Over

LEMMA KeptBySame ==
  ASSUME NEW f, NEW over, DOMAIN over = DOMAIN f, \A x \in DOMAIN f : over[x] = f[x],
         NEW reported, NEW merged, Kept(over, reported, merged)
  PROVE  Kept(f, reported, merged)
<1>1. \A key : Target(over, key) = Target(f, key)
  BY DEF Target
<1>2. \A k, l : MovesOnto(over, k, l) <=> MovesOnto(f, k, l)
  BY DEF MovesOnto
<1>3. ASSUME NEW k \in DOMAIN f
      PROVE  \/ merged[k] = f[k]
             \/ \E i \in DOMAIN reported :
                  /\ reported[i].key \in DOMAIN f
                  /\ Prefixed(reported[i].key) = k
                  /\ merged[k] = reported[i].value
  BY DEF Kept
<1>4. ASSUME NEW i \in DOMAIN reported
      PROVE  LET mine == reported[i].key
             IN  \/ merged[Target(f, mine)] = reported[i].value
                 \/ \E j \in DOMAIN reported :
                      /\ j > i
                      /\ \/ MovesOnto(f, mine, reported[j].key)
                         \/ MovesOnto(f, reported[j].key, mine)
                      /\ merged[Target(f, mine)] = reported[j].value
  BY <1>1, <1>2 DEF Kept
<1> QED
  BY <1>3, <1>4 DEF Kept

(* The rows a post adds.                                                   *)
LEMMA Posted ==
  ASSUME TypeInv, NEW p \in Posts, Post(p),
         NEW i \in DOMAIN store' \ DOMAIN store
  PROVE  \E n \in DOMAIN p.events :
           store'[i] = StoredEvent(Plain(p.events[n]), p.claims, <<>>, Moment)
<1> DEFINE items == [n \in DOMAIN p.events |-> Plain(p.events[n])]
           fresh == Ascending(Fresh(store, items))
<1>1. IsBatch(items) /\ \A n \in DOMAIN items : /\ n \in DOMAIN p.events
                                               /\ items[n] = Plain(p.events[n])
  BY PostBatch
<1>2. store' = Accept(store, items, p.claims, <<>>, Moment)
  BY DEF Post
<1>3. IsList(store) /\ IsList(items) /\ fresh = Ascending(Fresh(store, items))
  BY <1>1 DEF TypeInv, IsTable, IsBatch
<1> HIDE DEF items, fresh
<1>4. /\ fresh[i - Len(store)] \in Fresh(store, items)
      /\ store'[i] = StoredEvent(items[fresh[i - Len(store)]], p.claims, <<>>, Moment)
  BY <1>2, <1>3, AcceptAdds
<1>5. fresh[i - Len(store)] \in DOMAIN items
  BY <1>3, <1>4, FreshPlaces
<1> QED
  BY <1>1, <1>4, <1>5

LEMMA LabelsStep == TypeInv /\ LabelsKept /\ [Next]_vars => LabelsKept'
<1> SUFFICES ASSUME TypeInv, LabelsKept, [Next]_vars
             PROVE  LabelsKept'
  OBVIOUS
<1>1. CASE store' = store
  BY <1>1 DEF LabelsKept
<1>2. ASSUME NEW p \in Posts, Post(p)
      PROVE  LabelsKept'
  <2> SUFFICES ASSUME NEW i \in DOMAIN store'
               PROVE  \E c \in Trust :
                        /\ c.jti = store'[i].token
                        /\ Kept(c.labels, store'[i].ev.labels, store'[i].labels)
    BY DEF LabelsKept
  <2>1. CASE i \in DOMAIN store
    BY <1>2, <2>1, TypePost DEF LabelsKept
  <2>2. CASE i \notin DOMAIN store
    <3>1. PICK n \in DOMAIN p.events :
            store'[i] = StoredEvent(Plain(p.events[n]), p.claims, <<>>, Moment)
      BY <1>2, <2>2, Posted
    <3> DEFINE e == p.events[n]
               over == Over(p.claims.labels, <<>>)
    <3>2. e \in Events /\ p.claims \in Trust
      BY ReadingAssumption
    <3>3. /\ store'[i].ev = e /\ store'[i].token = p.claims.jti
          /\ store'[i].labels = MergeLabels(over, e.labels)
      BY <3>1 DEF StoredEvent, Plain
    <3>4. over = Over(p.claims.labels, <<>>)
      OBVIOUS
    <3> HIDE DEF e, over
    <3>5. e.labels \in Seq(Range(e.labels))
      BY <3>2, ReadingAssumption
    <3>6. IsObject(e.labels, STRING)
      BY <3>2, LabelsAssumption DEF IsObject
    <3>7. Kept(over, e.labels, MergeLabels(over, e.labels))
      BY <3>5, <3>6, MergedLabelsKept
    <3>8. DOMAIN over = DOMAIN p.claims.labels
          /\ \A x \in DOMAIN p.claims.labels : over[x] = p.claims.labels[x]
      BY <3>4, OverNothing
    <3>9. Kept(p.claims.labels, e.labels, MergeLabels(over, e.labels))
      BY <3>7, <3>8, KeptBySame
    <3> QED
      BY <3>2, <3>3, <3>9
  <2> QED
    BY <2>1, <2>2
<1>3. (\E p \in Posts : Post(p)) \/ store' = store
  BY DEF Next, vars, BeginSessions, BeginEvents, Begin, BeginDownload, Export,
         ReadSessions, ReadEvents, ReadChunk, Import
<1> QED
  BY <1>1, <1>2, <1>3

(* In every row the sink stored, no label of the token's and none of the   *)
(* client's is lost but where a key and another with the reserved prefix   *)
(* in front meet (labels.py:68-88).                                        *)
THEOREM LabelsKeptAlways == Spec => []LabelsKept
<1>1. Init => LabelsKept
  BY DEF Init, LabelsKept
<1> QED
  BY <1>1, LabelsStep, TypeAlways, PTL DEF Spec

-----------------------------------------------------------------------------
(* Paging through the events.                                              *)

Rising(q) == \A i, j \in DOMAIN q : i < j => q[i] < q[j]

LEMMA RisingJoined ==
  ASSUME NEW q \in Seq(Nat), Rising(q), NEW r \in Seq(Nat), Rising(r),
         \A a \in Range(q), b \in Range(r) : a < b
  PROVE  Rising(q \o r)
<1> DEFINE both == q \o r
<1>1. IsList(q) /\ IsList(r) /\ both = q \o r
  BY SeqIsList
<1> HIDE DEF both
<1>2. Joins(both, q, r)
  BY <1>1, Joined
<1>3. /\ Len(q) \in Nat /\ DOMAIN q = 1 .. Len(q)
      /\ Len(both) \in Nat /\ DOMAIN both = 1 .. Len(both)
  BY <1>1, <1>2, ListShape DEF Joins
<1> SUFFICES ASSUME NEW i \in DOMAIN both, NEW j \in DOMAIN both, i < j
             PROVE  both[i] < both[j]
  BY <1>1 DEF Rising
<1>4. CASE j \in DOMAIN q
  <2>1. i \in DOMAIN q
    BY <1>3, <1>4
  <2> QED
    BY <1>2, <1>4, <2>1 DEF Joins, Rising
<1>5. CASE j \notin DOMAIN q /\ i \in DOMAIN q
  <2>1. both[i] \in Range(q) /\ both[j] \in Range(r)
    BY <1>2, <1>5 DEF Joins, Range
  <2> QED
    BY <2>1
<1>6. CASE i \notin DOMAIN q /\ j \notin DOMAIN q
  <2>1. /\ i - Len(q) \in DOMAIN r /\ j - Len(q) \in DOMAIN r
        /\ both[i] = r[i - Len(q)] /\ both[j] = r[j - Len(q)]
    BY <1>2, <1>6 DEF Joins
  <2>2. i - Len(q) < j - Len(q)
    BY <1>3
  <2> QED
    BY <2>1, <2>2 DEF Rising
<1> QED
  BY <1>4, <1>5, <1>6

(* All that matched and was not behind the cursor has been seen, and       *)
(* nothing behind it.                                                      *)
EventsInv ==
  walk.task = "events" =>
    /\ walk.seen \in Seq(Nat) /\ Rising(walk.seen)
    /\ walk.owed \subseteq {i \in Found(store, walk.filter) :
                             Matches(store[i].labels, walk.filter.labels)}
    /\ walk.state # "done" /\ walk.cursor = NoCursor => walk.seen = <<>>
    /\ walk.cursor \notin {NoCursor, Forged} =>
         /\ \A i \in Range(walk.seen) : i <= walk.cursor
         /\ \A i \in walk.owed : i <= walk.cursor => i \in Range(walk.seen)
    /\ walk.state = "done" => walk.owed \subseteq Range(walk.seen)

LEMMA EventsShow == EventsInv => EventsPagedWhole
BY DEF EventsInv, EventsPagedWhole, Rising

LEMMA EventsStep == TypeInv /\ EventsInv /\ [Next]_vars => EventsInv'
<1> SUFFICES ASSUME TypeInv, EventsInv, [Next]_vars
             PROVE  EventsInv'
  OBVIOUS
<1>1. ASSUME NEW p \in Posts, Post(p)
      PROVE  EventsInv'
  <2>1. SUFFICES ASSUME walk'.task = "events"
                 PROVE  EventsInv'
    BY DEF EventsInv
  <2>2. walk' = walk
    <3>1. CASE Walking
      <4>1. walk \in Walks
        BY DEF TypeInv
      <4>2. walk'.task = walk.task
        BY <1>1, <3>1, <4>1 DEF Post, Walks
      <4> QED
        BY <2>1, <3>1, <4>2 DEF Walking
    <3>2. CASE ~Walking
      BY <1>1, <3>2 DEF Post
    <3> QED
      BY <3>1, <3>2
  <2>3. \A i \in DOMAIN store : i \in DOMAIN store' /\ store'[i] = store[i]
    BY <1>1, TypePost
  <2>4. {i \in Found(store, walk.filter) : Matches(store[i].labels, walk.filter.labels)}
          \subseteq {i \in Found(store', walk.filter) :
                       Matches(store'[i].labels, walk.filter.labels)}
    BY <2>3 DEF Found
  <2> QED
    BY <2>1, <2>2, <2>4 DEF EventsInv
<1>2. ASSUME NEW f \in Filters, NEW limit \in Limits, NEW cursor \in {NoCursor, Forged},
             BeginEvents(f, limit, cursor)
      PROVE  EventsInv'
  <2> DEFINE owed == {i \in Found(store, f) : Matches(store[i].labels, f.labels)}
  <2>1. /\ walk'.filter = f /\ walk'.cursor = cursor /\ walk'.seen = <<>>
        /\ walk'.owed = owed /\ walk'.state = "on" /\ store' = store
    BY <1>2 DEF BeginEvents, Begin, Idle
  <2>2. <<>> \in Seq(Nat) /\ Rising(<<>>)
    BY DEF Rising
  <2> QED
    BY <2>1, <2>2 DEF EventsInv
<1>3. CASE ReadEvents
  <2>0. walk.task = "events" /\ walk.state = "on" /\ store' = store /\ walk \in Walks
    BY <1>3 DEF ReadEvents, TypeInv
  <2>1. CASE walk.cursor = Forged
    <3>1. walk' = [walk EXCEPT !.state = "400"]
      BY <1>3, <2>1 DEF ReadEvents, Refuse
    <3>2. /\ walk'.filter = walk.filter /\ walk'.cursor = walk.cursor
          /\ walk'.seen = walk.seen /\ walk'.owed = walk.owed /\ walk'.state = "400"
      BY <2>0, <3>1 DEF Walks
    <3> QED
      BY <2>0, <3>2 DEF EventsInv
  <2>2. CASE walk.cursor # Forged
    <3> DEFINE f    == walk.filter
               page == QueryEvents(store, f, walk.limit, walk.cursor)
               left == {i \in Found(store, f) : walk.cursor = NoCursor \/ i > walk.cursor}
    <3>1. Turn(page)
      BY <1>3, <2>2 DEF ReadEvents
    <3>2. HoldsEvents(page, store, f, left)
      <4>1. /\ page = QueryEvents(store, f, walk.limit, walk.cursor)
            /\ left = {i \in Found(store, f) :
                         walk.cursor = NoCursor \/ i > walk.cursor}
            /\ IsTable(store) /\ walk.limit \in Nat \ {0}
        BY DEF TypeInv, Walks
      <4> HIDE DEF page, left, f
      <4> QED
        BY <4>1, EventsPage
    <3> HIDE DEF page
    <3>3. /\ walk'.task = "events" /\ walk'.filter = f /\ walk'.cursor = page.next
          /\ walk'.seen = walk.seen \o page.items /\ walk'.owed = walk.owed
          /\ walk'.state = IF page.next = NoCursor THEN "done" ELSE "on"
      BY <2>0, <3>1 DEF Turn, Walks
    <3>4. left \subseteq Nat
      BY StoreTypes DEF Found
    <3>5. walk.seen \in Seq(Nat) /\ Rising(walk.seen)
      BY <2>0 DEF EventsInv
    <3>6. \A a \in Range(walk.seen), b \in left : a < b
      <4>1. CASE walk.cursor = NoCursor
        BY <2>0, <4>1 DEF EventsInv, Range
      <4>2. CASE walk.cursor # NoCursor
        <5>1. walk.cursor \in Nat
          BY <2>0, <2>2, <4>2, StoreTypes DEF TypeInv, Issued
        <5>2. \A a \in Range(walk.seen) : a <= walk.cursor /\ a \in Nat
          BY <2>0, <2>2, <3>5, <4>2 DEF EventsInv, Range
        <5>3. \A b \in left : b > walk.cursor
          BY <4>2
        <5> QED
          BY <3>4, <5>1, <5>2, <5>3
      <4> QED
        BY <4>1, <4>2
    <3>7. ASSUME NEW i \in walk.owed, i \notin left
          PROVE  i \in Range(walk.seen)
      <4>1. i \in Found(store, f) /\ i \in Nat
        BY <2>0, StoreTypes DEF EventsInv, Found
      <4>2. walk.cursor # NoCursor /\ ~(i > walk.cursor)
        BY <3>7, <4>1
      <4>3. walk.cursor \in Nat
        BY <2>0, <2>2, <4>2, StoreTypes DEF TypeInv, Issued
      <4>4. i <= walk.cursor
        BY <4>1, <4>2, <4>3
      <4> QED
        BY <2>0, <2>2, <4>2, <4>4 DEF EventsInv
    <3>8. \A i \in walk.owed : Matches(store[i].labels, f.labels)
      BY <2>0 DEF EventsInv
    <3> HIDE DEF left
    <3>9. page.items \in Seq(left) /\ page.items \in Seq(Nat) /\ Rising(page.items)
          /\ Range(page.items) \subseteq left
      <4>1. page.items \in Seq(left)
        BY <3>2 DEF HoldsEvents
      <4>2. Range(page.items) \subseteq left
        BY <4>1, SeqIsList DEF Range
      <4>3. page.items \in Seq(Nat)
        BY <3>4, <4>1, SeqWider
      <4> QED
        BY <3>2, <4>1, <4>2, <4>3 DEF HoldsEvents, Rising
    <3>10. Rising(walk.seen \o page.items)
      BY <3>5, <3>6, <3>9, RisingJoined
    <3>11. Range(walk.seen \o page.items) = Range(walk.seen) \cup Range(page.items)
      BY <3>5, <3>9, SeqIsList, JoinedRange
    <3>12. walk.seen \o page.items \in Seq(Nat)
      BY <3>5, <3>9, ConcatProperties
    <3>13. page.next # NoCursor => page.next \in Nat
      BY <3>2, <3>4 DEF HoldsEvents
    <3>14. page.next # NoCursor => \A i \in Range(walk.seen \o page.items) : i <= page.next
      <4>1. SUFFICES ASSUME page.next # NoCursor, NEW i \in Range(walk.seen)
                     PROVE  i <= page.next
        BY <3>2, <3>11 DEF HoldsEvents
      <4>2. page.next \in left
        BY <3>2, <4>1 DEF HoldsEvents
      <4>3. i < page.next
        BY <3>6, <4>2
      <4>4. i \in Nat
        BY <3>5, SeqIsList DEF Range
      <4> QED
        BY <3>13, <4>1, <4>3, <4>4
    <3>15. \A i \in walk.owed :
             \/ i \in Range(walk.seen \o page.items)
             \/ page.next # NoCursor /\ i > page.next /\ i \in Nat
      BY <3>2, <3>4, <3>7, <3>8, <3>11 DEF HoldsEvents
    <3>16. \A i \in walk.owed :
             page.next # NoCursor /\ i <= page.next => i \in Range(walk.seen \o page.items)
      BY <3>13, <3>15
    <3>17. walk.owed \subseteq {i \in Found(store, f) : Matches(store[i].labels, f.labels)}
      BY <2>0 DEF EventsInv
    <3> HIDE DEF f
    <3> QED
      BY <2>0, <3>3, <3>10, <3>12, <3>14, <3>15, <3>16, <3>17 DEF EventsInv
  <2> QED
    BY <2>1, <2>2
<1>4. CASE UNCHANGED <<store, walk>>
  BY <1>4 DEF EventsInv
<1>5. CASE walk'.task # "events"
  BY <1>5 DEF EventsInv
<1>6. ASSUME NEW task \in {"sessions", "workshop"}, NEW f, NEW limit, NEW cursor,
             BeginSessions(task, f, limit, cursor)
      PROVE  walk'.task # "events"
  BY <1>6 DEF BeginSessions, Begin, Idle
<1>7. ASSUME NEW f, BeginDownload(f) \/ Export(f)
      PROVE  walk'.task # "events"
  BY <1>7 DEF BeginDownload, Export, Idle
<1>8. ASSUME ReadSessions \/ ReadChunk \/ \E i \in Imports : Import(i)
      PROVE  walk'.task # "events"
  <2>1. walk.task # "events" /\ walk \in Walks
    BY <1>8 DEF ReadSessions, Walking, ReadChunk, Import, TypeInv
  <2>2. walk'.task = walk.task
    <3>1. CASE ReadSessions
      BY <2>1, <3>1, SessionsTurn DEF Refuse, Turn, Walks
    <3>2. CASE ReadChunk
      BY <2>1, <3>2 DEF ReadChunk, Walks
    <3>3. CASE \E i \in Imports : Import(i)
      BY <2>1, <3>3 DEF Import, Walks
    <3> QED
      BY <1>8, <3>1, <3>2, <3>3
  <2> QED
    BY <2>1, <2>2
<1> QED
  BY <1>1, <1>2, <1>3, <1>4, <1>5, <1>6, <1>7, <1>8 DEF Next, vars

(* Paging through the events gives each that matches once, in the order    *)
(* they were stored, and leaves out none that was there at the start, even *)
(* where the selector empties a page (queries.py:2010-2077).               *)
THEOREM EventsArePagedWhole == Spec => []EventsPagedWhole
<1>1. Init => EventsInv
  BY DEF Init, Idle, EventsInv
<1> QED
  BY <1>1, EventsStep, EventsShow, TypeAlways, PTL DEF Spec

-----------------------------------------------------------------------------
(* The download.                                                           *)

(* What is in the queue is still to come, and what came is of sessions no  *)
(* longer in it.                                                           *)
DownloadInv ==
  walk.task = "download" =>
    /\ IsInjective(walk.queue) /\ IsInjective(walk.seen)
    /\ \A n \in DOMAIN walk.seen :
         /\ walk.seen[n] \in DOMAIN store
         /\ store[walk.seen[n]].ev.sid \notin Range(walk.queue)
    /\ \A i, j \in DOMAIN walk.seen :
         i < j /\ store[walk.seen[i]].ev.sid = store[walk.seen[j]].ev.sid
           => store[walk.seen[i]].ev.seq <= store[walk.seen[j]].ev.seq
    /\ \A i \in walk.owed :
         /\ i \in DOMAIN store
         /\ i \in Range(walk.seen) \/ store[i].ev.sid \in Range(walk.queue)
    /\ walk.state = "done" => walk.queue = <<>>

LEMMA DownloadShows == DownloadInv => DownloadWhole
<1> SUFFICES ASSUME DownloadInv, walk.task = "download"
             PROVE  DownloadWhole
  BY DEF DownloadWhole
<1>1. walk.state = "done" => walk.owed \subseteq Range(walk.seen)
  BY DEF DownloadInv, Range
<1> QED
  BY <1>1 DEF DownloadInv, DownloadWhole

LEMMA DownloadChunk ==
  ASSUME TypeInv, DownloadInv, ReadChunk, walk.queue # <<>>
  PROVE  DownloadInv'
<1>0. walk.task = "download" /\ walk.state = "on" /\ store' = store /\ walk \in Walks
  BY DEF ReadChunk, TypeInv
<1>1. PICK chunk \in Seq(Sessions), rest \in Seq(Sessions) :
        /\ Parts(walk.queue, chunk, rest)
        /\ walk' = [walk EXCEPT !.seen  = walk.seen \o LoadEvents(store, Range(chunk)),
                                !.queue = rest]
  BY ChunkRead
<1> DEFINE read   == LoadEvents(store, Range(chunk))
           places == {i \in DOMAIN store : store[i].ev.sid \in Range(chunk)}
           both   == walk.seen \o read
           Sid(i) == store[i].ev.sid
           Seq_(i) == store[i].ev.seq
<1>2. /\ read \in Seq(places) /\ Range(read) = places /\ IsInjective(read)
      /\ \A m, n \in DOMAIN read :
           m < n /\ Sid(read[m]) = Sid(read[n]) => Seq_(read[m]) <= Seq_(read[n])
  <2>1. read = LoadEvents(store, Range(chunk)) /\ IsTable(store)
        /\ places = {i \in DOMAIN store : store[i].ev.sid \in Range(chunk)}
    BY DEF TypeInv
  <2> HIDE DEF read, places
  <2>2. HoldsAll(read, store, places)
    BY <2>1, LoadedEvents
  <2> QED
    BY <2>2 DEF HoldsAll
<1>3. /\ walk'.seen = both /\ walk'.queue = rest /\ walk'.owed = walk.owed
      /\ walk'.state = "on"
  BY <1>0, <1>1 DEF Walks
<1>4. both = walk.seen \o read
  OBVIOUS
<1>5. \A i : i \in places <=> i \in DOMAIN store /\ Sid(i) \in Range(chunk)
  OBVIOUS
<1> HIDE DEF read, places, both
<1>6. IsList(walk.seen) /\ IsList(read)
  <2>1. walk.seen \in Seq(Nat \cup Sessions)
    BY <1>0 DEF Walks
  <2> QED
    BY <1>2, <2>1, SeqIsList
<1>7. Joins(both, walk.seen, read)
  BY <1>4, <1>6, Joined
<1>8. Range(both) = Range(walk.seen) \cup places
  BY <1>2, <1>4, <1>6, JoinedRange
<1>9. /\ IsInjective(rest) /\ Range(chunk) \cap Range(rest) = {}
      /\ Range(walk.queue) \subseteq Range(chunk) \cup Range(rest)
      /\ Range(chunk) \subseteq Range(walk.queue) /\ Range(rest) \subseteq Range(walk.queue)
  BY <1>0, <1>1 DEF DownloadInv, Parts
<1> DEFINE Old == DOMAIN walk.seen
           New(n) == n - Len(walk.seen)
<1>10. \A n \in DOMAIN both \ Old :
         /\ New(n) \in DOMAIN read /\ both[n] = read[New(n)]
         /\ both[n] \in DOMAIN store /\ Sid(both[n]) \in Range(chunk)
  <2>1. \A n \in DOMAIN read : read[n] \in DOMAIN store /\ Sid(read[n]) \in Range(chunk)
    <3>1. \A n \in DOMAIN read : read[n] \in places
      BY <1>2, SeqIsList
    <3> HIDE DEF Sid
    <3> QED
      BY <1>5, <3>1
  <2> HIDE DEF Sid
  <2> QED
    BY <1>7, <2>1 DEF Joins
<1>11. \A n \in Old : /\ n \in DOMAIN both /\ both[n] = walk.seen[n]
                      /\ both[n] \in DOMAIN store /\ Sid(both[n]) \notin Range(walk.queue)
  BY <1>0, <1>7 DEF Joins, DownloadInv
<1>12. /\ Len(walk.seen) \in Nat /\ Old = 1 .. Len(walk.seen)
       /\ Len(both) \in Nat /\ DOMAIN both = 1 .. Len(both)
       /\ Len(read) \in Nat /\ DOMAIN read = 1 .. Len(read)
  BY <1>6, <1>7, ListShape DEF Joins
<1>13. \A m, n \in DOMAIN both : m \notin Old /\ n \notin Old /\ m < n => New(m) < New(n)
  BY <1>12
<1>14. \A m, n \in DOMAIN both : m \notin Old /\ n \in Old => ~(m < n)
  BY <1>12
<1>15. \A m, n \in DOMAIN both : New(m) = New(n) => m = n
  BY <1>12
<1> HIDE DEF Old, New, Sid, Seq_
<1>16. IsInjective(both)
  <2> SUFFICES ASSUME NEW m \in DOMAIN both, NEW n \in DOMAIN both, both[m] = both[n]
               PROVE  m = n
    BY DEF IsInjective
  <2>1. CASE m \in Old /\ n \in Old
    BY <1>0, <1>11, <2>1 DEF DownloadInv, IsInjective, Old
  <2>2. CASE m \notin Old /\ n \notin Old
    BY <1>2, <1>10, <1>15, <2>2 DEF IsInjective
  <2>3. CASE (m \in Old /\ n \notin Old) \/ (m \notin Old /\ n \in Old)
    BY <1>9, <1>10, <1>11, <2>3
  <2> QED
    BY <2>1, <2>2, <2>3
<1>17. \A n \in DOMAIN both : both[n] \in DOMAIN store /\ Sid(both[n]) \notin Range(rest)
  BY <1>9, <1>10, <1>11
<1>18. ASSUME NEW m \in DOMAIN both, NEW n \in DOMAIN both,
              m < n, Sid(both[m]) = Sid(both[n])
       PROVE  Seq_(both[m]) <= Seq_(both[n])
  <2>1. CASE m \in Old /\ n \in Old
    BY <1>0, <1>11, <1>18, <2>1 DEF DownloadInv, Old, Sid, Seq_
  <2>2. CASE m \notin Old /\ n \notin Old
    BY <1>2, <1>10, <1>13, <1>18, <2>2
  <2>3. CASE m \in Old /\ n \notin Old
    BY <1>9, <1>10, <1>11, <1>18, <2>3
  <2> QED
    BY <1>14, <1>18, <2>1, <2>2, <2>3
<1>19. \A i \in walk.owed : /\ i \in DOMAIN store
                            /\ i \in Range(both) \/ Sid(i) \in Range(rest)
  BY <1>0, <1>5, <1>8, <1>9 DEF DownloadInv, Sid
<1> QED
  BY <1>0, <1>3, <1>9, <1>16, <1>17, <1>18, <1>19 DEF DownloadInv, Sid, Seq_

LEMMA DownloadStep == TypeInv /\ DownloadInv /\ [Next]_vars => DownloadInv'
<1> SUFFICES ASSUME TypeInv, DownloadInv, [Next]_vars, walk'.task = "download"
             PROVE  DownloadInv'
  BY DEF DownloadInv
<1>1. ASSUME NEW p \in Posts, Post(p)
      PROVE  DownloadInv'
  <2>1. walk' = walk
    <3>1. CASE Walking
      <4>1. walk \in Walks
        BY DEF TypeInv
      <4>2. walk'.task = walk.task
        BY <1>1, <3>1, <4>1 DEF Post, Walks
      <4> QED
        BY <3>1, <4>2 DEF Walking
    <3>2. CASE ~Walking
      BY <1>1, <3>2 DEF Post
    <3> QED
      BY <3>1, <3>2
  <2>2. \A i \in DOMAIN store : i \in DOMAIN store' /\ store'[i] = store[i]
    BY <1>1, TypePost
  <2> QED
    BY <2>1, <2>2 DEF DownloadInv
<1>2. ASSUME NEW f \in Filters, BeginDownload(f)
      PROVE  DownloadInv'
  <2>1. /\ walk'.seen = <<>> /\ IsInjective(walk'.queue) /\ walk'.state = "on"
        /\ walk'.owed = {i \in DOMAIN store : store[i].ev.sid \in Range(walk'.queue)}
    BY <1>2, DownloadBegins
  <2>2. store' = store
    BY <1>2 DEF BeginDownload
  <2>3. IsInjective(<<>>) /\ DOMAIN <<>> = {}
    BY DEF IsInjective
  <2> QED
    BY <2>1, <2>2, <2>3 DEF DownloadInv
<1>3. CASE ReadChunk
  <2>1. CASE walk.queue # <<>>
    BY <1>3, <2>1, DownloadChunk
  <2>2. CASE walk.queue = <<>>
    <3>1. walk' = [walk EXCEPT !.state = "done"] /\ store' = store /\ walk \in Walks
      BY <1>3, <2>2 DEF ReadChunk, TypeInv
    <3>2. /\ walk'.queue = walk.queue /\ walk'.seen = walk.seen /\ walk'.owed = walk.owed
          /\ walk'.task = walk.task
      BY <3>1 DEF Walks
    <3> QED
      BY <2>2, <3>1, <3>2 DEF DownloadInv
  <2> QED
    BY <2>1, <2>2
<1>4. CASE UNCHANGED <<store, walk>>
  BY <1>4 DEF DownloadInv
<1>5. ASSUME NEW task \in {"sessions", "workshop"}, NEW f, NEW limit, NEW cursor,
             BeginSessions(task, f, limit, cursor) \/ BeginEvents(f, limit, cursor)
      PROVE  FALSE
  BY <1>5 DEF BeginSessions, BeginEvents, Begin, Idle
<1>6. ASSUME NEW f, Export(f)
      PROVE  FALSE
  BY <1>6 DEF Export, Idle
<1>7. ASSUME ReadSessions \/ ReadEvents \/ \E i \in Imports : Import(i)
      PROVE  FALSE
  <2>1. walk.task # "download" /\ walk \in Walks
    BY <1>7 DEF ReadSessions, Walking, ReadEvents, Import, TypeInv
  <2>2. walk'.task = walk.task
    <3>1. CASE ReadSessions
      BY <2>1, <3>1, SessionsTurn DEF Refuse, Turn, Walks
    <3>2. CASE ReadEvents
      BY <2>1, <3>2 DEF ReadEvents, Refuse, Turn, Walks
    <3>3. CASE \E i \in Imports : Import(i)
      BY <2>1, <3>3 DEF Import, Walks
    <3> QED
      BY <1>7, <3>1, <3>2, <3>3
  <2> QED
    BY <2>1, <2>2
<1> QED
  BY <1>1, <1>2, <1>3, <1>4, <1>5, <1>6, <1>7 DEF Next, vars

(* A download holds, of every session selected when it began, each event   *)
(* stored by then once, and those of a session in their order              *)
(* (dashboard.py:497-534).                                                 *)
THEOREM DownloadsAreWhole == Spec => []DownloadWhole
<1>1. Init => DownloadInv
  BY DEF Init, Idle, DownloadInv
<1> QED
  BY <1>1, DownloadStep, DownloadShows, TypeAlways, PTL DEF Spec

-----------------------------------------------------------------------------
(* Export and import.                                                      *)

LEMMA ApartStep == TypeInv /\ Apart(store) /\ [Next]_vars => Apart(store')
<1> SUFFICES ASSUME TypeInv, Apart(store), [Next]_vars
             PROVE  Apart(store')
  OBVIOUS
<1>1. ASSUME NEW p \in Posts, Post(p)
      PROVE  Apart(store')
  <2> DEFINE items == [i \in DOMAIN p.events |-> Plain(p.events[i])]
  <2>1. store' = Accept(store, items, p.claims, <<>>, Moment)
    BY <1>1 DEF Post
  <2>2. IsList(items)
    BY PostBatch DEF IsBatch
  <2> HIDE DEF items
  <2> QED
    BY <2>1, <2>2, AcceptApart DEF TypeInv, IsTable
<1>2. (\E p \in Posts : Post(p)) \/ store' = store
  BY DEF Next, vars, BeginSessions, BeginEvents, Begin, BeginDownload, Export,
         ReadSessions, ReadEvents, ReadChunk, Import
<1> QED
  BY <1>1, <1>2

(* The numbers up to one are in order what they are.                       *)
LEMMA CountedOut ==
  ASSUME NEW m \in Nat, NEW q, q = Ascending(1 .. m)
  PROVE  DOMAIN q = 1 .. m /\ \A n \in 1 .. m : q[n] = n
<1> DEFINE S == 1 .. m
           before == [i \in S |-> {j \in S : j < i}]
<1>1. q = Ranked(before) /\ DOMAIN before = S
  BY DEF Ascending
<1>2. Cardinality(S) = m
  BY FS_Interval
<1>3. ASSUME NEW x \in S
      PROVE  Cardinality(before[x]) = x - 1
  <2>1. before[x] = 1 .. x - 1
    OBVIOUS
  <2>2. x - 1 \in Int /\ x - 1 >= 0
    OBVIOUS
  <2> HIDE DEF before
  <2> QED
    BY <2>1, <2>2, FS_Interval
<1> HIDE DEF before
<1>4. q = [n \in 1 .. m |-> CHOOSE x \in S : Cardinality(before[x]) = n - 1]
  BY <1>1, <1>2 DEF Ranked
<1>5. ASSUME NEW n \in 1 .. m
      PROVE  q[n] = n
  <2>1. n \in S /\ Cardinality(before[n]) = n - 1
    BY <1>3
  <2>2. \A x \in S : Cardinality(before[x]) = n - 1 => x = n
    BY <1>3
  <2>3. (CHOOSE x \in S : Cardinality(before[x]) = n - 1) = n
    BY <2>1, <2>2
  <2> QED
    BY <1>4, <2>3
<1> QED
  BY <1>4, <1>5

Most == Min({Len(file), MaxBatch})

(* What a file loads into an empty store.                                  *)
Loaded(rows, i) ==
  /\ IsList(rows) /\ Len(rows) = Most
  /\ \A n \in DOMAIN rows :
       /\ n \in DOMAIN file
       /\ \E moment : rows[n] = StoredEvent(file[n], i.claims, i.labels, moment)

ExportInv ==
  /\ Apart(store)
  /\ walk.task # "export" => other = <<>>
  /\ walk.task = "export" =>
       /\ \A n \in DOMAIN file : \E i \in DOMAIN store : file[n] = Line(store[i])
       /\ \A m, n \in DOMAIN file : Hash(file[m].event) = Hash(file[n].event) => m = n
       /\ walk.state # "loaded" => other = <<>> /\ walk.given = Nothing
       /\ walk.state = "loaded" => walk.given \in Imports /\ Loaded(other, walk.given)

LEMMA MostBounds ==
  ASSUME TypeInv
  PROVE  Most \in Nat /\ Most <= Len(file) /\ DOMAIN file = 1 .. Len(file) /\ Len(file) \in Nat
<1>1. Len(file) \in Nat /\ DOMAIN file = 1 .. Len(file)
  BY ListShape DEF TypeInv, IsBatch
<1> QED
  BY <1>1, MinOfTwo, ReadingAssumption DEF Most

(* Into an empty store goes what there is room for.                        *)
LEMMA FirstImport ==
  ASSUME TypeInv, ExportInv, NEW i \in Imports, Import(i), walk.state # "loaded"
  PROVE  Loaded(other', i)
<1> DEFINE fresh == Ascending(Fresh(other, file))
<1>1. walk.task = "export" /\ other = <<>>
      /\ other' = Accept(other, file, i.claims, i.labels, Moment)
  BY DEF Import, ExportInv
<1>2. Most \in Nat /\ Most <= Len(file) /\ DOMAIN file = 1 .. Len(file) /\ Len(file) \in Nat
  BY MostBounds
<1>3. Fresh(other, file) = 1 .. Most
  <2>1. Range(other) = {}
    BY <1>1 DEF Range
  <2>2. ASSUME NEW n \in 1 .. Most, NEW m \in 1 .. n - 1
        PROVE  Hash(file[m].event) # Hash(file[n].event)
    <3>1. n \in DOMAIN file /\ m \in DOMAIN file /\ m # n
      BY <1>2
    <3> QED
      BY <1>1, <3>1 DEF ExportInv
  <2>3. Fresh(other, file) =
          {n \in 1 .. Most : /\ \A r \in Range(other) : Hash(r.ev) # Hash(file[n].event)
                            /\ \A m \in 1 .. n - 1 : Hash(file[m].event) # Hash(file[n].event)}
    BY DEF Fresh, Most
  <2> QED
    BY <2>1, <2>2, <2>3
<1>4. DOMAIN fresh = 1 .. Most /\ \A n \in 1 .. Most : fresh[n] = n
  <2>1. fresh = Ascending(1 .. Most)
    BY <1>3
  <2> HIDE DEF fresh
  <2> QED
    BY <1>2, <2>1, CountedOut
<1>5. IsList(other) /\ IsList(file) /\ fresh = Ascending(Fresh(other, file))
  BY DEF TypeInv, IsTable, IsBatch
<1> HIDE DEF fresh
<1>6. /\ IsList(other')
      /\ Len(other') = Len(other) + Cardinality(Fresh(other, file))
      /\ \A n \in DOMAIN other' \ DOMAIN other :
           /\ n - Len(other) \in DOMAIN fresh
           /\ other'[n] = StoredEvent(file[fresh[n - Len(other)]], i.claims, i.labels, Moment)
  BY <1>1, <1>5, AcceptAdds
<1>7. Len(other) = 0 /\ DOMAIN other = {}
  BY <1>1
<1>8. Cardinality(Fresh(other, file)) = Most
  BY <1>2, <1>3, FS_Interval
<1>9. Len(other') = Most /\ DOMAIN other' = 1 .. Most
  BY <1>2, <1>6, <1>7, <1>8, ListShape
<1>10. ASSUME NEW n \in DOMAIN other'
       PROVE  /\ n \in DOMAIN file
              /\ other'[n] = StoredEvent(file[n], i.claims, i.labels, Moment)
  <2>1. n - Len(other) = n /\ n \in 1 .. Most /\ n \in DOMAIN file
    BY <1>2, <1>7, <1>9
  <2> QED
    BY <1>4, <1>6, <1>7, <2>1
<1>11. UNCHANGED file
  BY DEF Import
<1> QED
  BY <1>6, <1>9, <1>10 DEF Loaded

(* Again, nothing of it is new.                                            *)
LEMMA LaterImport ==
  ASSUME TypeInv, ExportInv, NEW i \in Imports, Import(i), walk.state = "loaded"
  PROVE  Loaded(other', walk.given)
<1>1. walk.task = "export" /\ Loaded(other, walk.given)
      /\ other' = Accept(other, file, i.claims, i.labels, Moment)
  BY DEF Import, ExportInv
<1>2. Most \in Nat /\ Most <= Len(file) /\ DOMAIN file = 1 .. Len(file) /\ Len(file) \in Nat
  BY MostBounds
<1>3. IsList(other) /\ IsList(file) /\ DOMAIN other = 1 .. Most
  BY <1>1, ListShape DEF Loaded, TypeInv, IsBatch
<1>4. Fresh(other, file) = {}
  <2> SUFFICES ASSUME NEW n \in Fresh(other, file)
               PROVE  FALSE
    OBVIOUS
  <2>1. n \in 1 .. Most /\ \A r \in Range(other) : Hash(r.ev) # Hash(file[n].event)
    BY DEF Fresh, Most
  <2>2. n \in DOMAIN other /\ other[n].ev = file[n].event
    BY <1>1, <1>3, <2>1 DEF Loaded, StoredEvent
  <2> QED
    BY <2>1, <2>2 DEF Range
<1>5. /\ IsList(other') /\ Len(other') = Len(other) + Cardinality(Fresh(other, file))
      /\ \A n \in DOMAIN other : n \in DOMAIN other' /\ other'[n] = other[n]
  <2> DEFINE fresh == Ascending(Fresh(other, file))
  <2>1. fresh = Ascending(Fresh(other, file))
    OBVIOUS
  <2> HIDE DEF fresh
  <2>2. IsList(other') /\ Len(other') = Len(other) + Cardinality(Fresh(other, file))
    BY <1>1, <1>3, <2>1, AcceptAdds
  <2>3. Extends(other', other)
    BY <1>1, <1>3, AcceptExtends
  <2> QED
    BY <2>2, <2>3 DEF Extends
<1>6. Len(other') = Most /\ DOMAIN other' = DOMAIN other
  <2>1. Cardinality(Fresh(other, file)) = 0
    BY <1>4, FS_EmptySet
  <2>2. Len(other') = Most
    BY <1>1, <1>2, <1>5, <2>1 DEF Loaded
  <2> QED
    BY <1>2, <1>3, <1>5, <2>2, ListShape
<1>7. UNCHANGED file
  BY DEF Import
<1> QED
  BY <1>1, <1>5, <1>6 DEF Loaded

LEMMA ExportShows == TypeInv /\ ExportInv => ExportRestores
<1> SUFFICES ASSUME TypeInv, ExportInv, walk.task = "export", walk.state = "loaded"
             PROVE  ExportRestores
  BY DEF ExportRestores
<1> DEFINE given == walk.given
           mine  == DOMAIN given.claims.labels \cup DOMAIN given.labels
<1>1. Loaded(other, given) /\ given \in Imports
  BY DEF ExportInv
<1>2. ASSUME NEW n \in DOMAIN other
      PROVE  \E i \in DOMAIN store :
               /\ other[n].ev = store[i].ev /\ other[n].received = store[i].received
               /\ store[i].token # NoToken => other[n].token = store[i].token
               /\ DOMAIN other[n].labels = DOMAIN store[i].labels \cup mine
               /\ \A k \in DOMAIN store[i].labels \ mine :
                    other[n].labels[k] = store[i].labels[k]
  <2>1. PICK moment : /\ n \in DOMAIN file
                      /\ other[n] = StoredEvent(file[n], given.claims, given.labels, moment)
    BY <1>1 DEF Loaded
  <2>2. PICK i \in DOMAIN store : file[n] = Line(store[i])
    BY <2>1 DEF ExportInv
  <2>3. /\ file[n].exported = TRUE /\ file[n].event = store[i].ev
        /\ file[n].labels = store[i].labels /\ file[n].token = store[i].token
        /\ file[n].received = store[i].received
    BY <2>2 DEF Line
  <2>4. /\ other[n].ev = store[i].ev /\ other[n].received = store[i].received
        /\ store[i].token # NoToken => other[n].token = store[i].token
        /\ other[n].labels = Over(Over(given.claims.labels, given.labels), store[i].labels)
    BY <2>1, <2>3 DEF StoredEvent
  <2> DEFINE labels == other[n].labels
  <2>5. labels = Over(Over(given.claims.labels, given.labels), store[i].labels)
        /\ mine = DOMAIN given.claims.labels \cup DOMAIN given.labels
    BY <2>4
  <2> HIDE DEF given, mine, labels
  <2>6. DOMAIN labels = DOMAIN store[i].labels \cup mine
    BY <2>5 DEF Over
  <2>7. ASSUME NEW k \in DOMAIN store[i].labels \ mine
        PROVE  labels[k] = store[i].labels[k]
    BY <2>5 DEF Over
  <2> QED
    BY <2>4, <2>6, <2>7 DEF labels
<1> HIDE DEF given
<1> QED
  BY <1>1, <1>2 DEF ExportRestores, Loaded, Most, given

LEMMA ExportStep == TypeInv /\ ExportInv /\ [Next]_vars => ExportInv'
<1> SUFFICES ASSUME TypeInv, ExportInv, [Next]_vars
             PROVE  ExportInv'
  OBVIOUS
<1>0. Apart(store) /\ Apart(store') /\ walk \in Walks
  BY ApartStep DEF ExportInv, TypeInv
<1>1. ASSUME NEW p \in Posts, Post(p)
      PROVE  ExportInv'
  <2>1. /\ walk'.task = walk.task /\ walk'.state = walk.state /\ walk'.given = walk.given
        /\ file' = file /\ other' = other
    <3>1. CASE Walking
      BY <1>0, <1>1, <3>1 DEF Post, Walks
    <3>2. CASE ~Walking
      BY <1>1, <3>2 DEF Post
    <3> QED
      BY <3>1, <3>2
  <2>2. \A i \in DOMAIN store : i \in DOMAIN store' /\ store'[i] = store[i]
    BY <1>1, TypePost
  <2>3. \A rows, i : Loaded(rows, i) => Loaded(rows, i)'
    BY <2>1 DEF Loaded, Most
  <2> QED
    BY <1>0, <2>1, <2>2, <2>3 DEF ExportInv, Loaded, Most
<1>2. ASSUME NEW f \in Filters, Export(f)
      PROVE  ExportInv'
  <2>1. /\ walk'.task = "export" /\ walk'.state = "done" /\ walk'.given = Nothing
        /\ other' = other /\ store' = store /\ walk.task = "none"
    BY <1>2 DEF Export, Idle
  <2>2. /\ \A n \in DOMAIN file' : \E i \in DOMAIN store : file'[n] = Line(store[i])
        /\ \A m, n \in DOMAIN file' : \A i \in DOMAIN store :
             file'[m] = Line(store[i]) /\ file'[n] = Line(store[i]) /\ Apart(store) => m = n
    BY <1>2, Exported
  <2>3. ASSUME NEW m \in DOMAIN file', NEW n \in DOMAIN file',
               Hash(file'[m].event) = Hash(file'[n].event)
        PROVE  m = n
    <3>1. PICK i \in DOMAIN store, j \in DOMAIN store :
            file'[m] = Line(store[i]) /\ file'[n] = Line(store[j])
      BY <2>2
    <3>2. Hash(store[i].ev) = Hash(store[j].ev)
      BY <2>3, <3>1 DEF Line
    <3>3. i = j
      BY <1>0, <3>2 DEF Apart
    <3> QED
      BY <1>0, <2>2, <3>1, <3>3
  <2> QED
    BY <1>0, <2>1, <2>2, <2>3 DEF ExportInv
<1>3. ASSUME NEW i \in Imports, Import(i)
      PROVE  ExportInv'
  <2>1. /\ walk.task = "export" /\ file' = file /\ store' = store
        /\ walk'.task = "export" /\ walk'.state = "loaded"
        /\ walk'.given = IF walk.given = Nothing THEN i ELSE walk.given
    BY <1>0, <1>3 DEF Import, Walks
  <2>2. CASE walk.state # "loaded"
    <3>1. walk'.given = i /\ Loaded(other', i)
      BY <1>3, <2>1, <2>2, FirstImport DEF ExportInv
    <3>2. Loaded(other, walk.given)'
      BY <2>1, <3>1 DEF Loaded, Most
    <3> QED
      BY <1>0, <2>1, <3>1, <3>2 DEF ExportInv
  <2>3. CASE walk.state = "loaded"
    <3>1. walk.given \in Imports /\ walk'.given = walk.given /\ Loaded(other', walk.given)
      BY <1>3, <2>1, <2>3, LaterImport, ReadingAssumption DEF ExportInv
    <3>2. Loaded(other, walk.given)'
      BY <2>1, <3>1 DEF Loaded, Most
    <3> QED
      BY <1>0, <2>1, <3>1, <3>2 DEF ExportInv
  <2> QED
    BY <2>2, <2>3
<1>4. CASE UNCHANGED vars
  BY <1>4 DEF ExportInv, Apart, Loaded, Most, vars
<1>5. ASSUME walk'.task # "export", other' = other, walk.task # "export"
      PROVE  ExportInv'
  BY <1>0, <1>5 DEF ExportInv
<1>6. ASSUME NEW task \in {"sessions", "workshop"}, NEW f, NEW limit, NEW cursor,
             \/ BeginSessions(task, f, limit, cursor) \/ BeginEvents(f, limit, cursor)
             \/ BeginDownload(f)
      PROVE  walk'.task # "export" /\ other' = other /\ walk.task # "export"
  BY <1>6 DEF BeginSessions, BeginEvents, Begin, BeginDownload, Idle
<1>7. ASSUME ReadSessions \/ ReadEvents \/ ReadChunk
      PROVE  walk'.task # "export" /\ other' = other /\ walk.task # "export"
  <2>1. walk.task # "export" /\ other' = other
    BY <1>7 DEF ReadSessions, Walking, ReadEvents, ReadChunk
  <2>2. walk'.task = walk.task
    <3>1. CASE ReadSessions
      BY <1>0, <3>1, SessionsTurn DEF Refuse, Turn, Walks
    <3>2. CASE ReadEvents
      BY <1>0, <3>2 DEF ReadEvents, Refuse, Turn, Walks
    <3>3. CASE ReadChunk
      BY <1>0, <3>3 DEF ReadChunk, Walks
    <3> QED
      BY <1>7, <3>1, <3>2, <3>3
  <2> QED
    BY <2>1, <2>2
<1> QED
  BY <1>1, <1>2, <1>3, <1>4, <1>5, <1>6, <1>7 DEF Next

(* A row loaded from an export is the row that was exported: the same      *)
(* event, when it was received, the token if there was one, and its labels *)
(* but for those the import put on top; and as many as one import reads    *)
(* (ingest.py:139-174 and 278-304, cli.py:346-426).                        *)
THEOREM ExportsRestore == Spec => []ExportRestores
<1>1. Init => ExportInv
  BY DEF Init, Idle, ExportInv, Apart
<1> QED
  BY <1>1, ExportStep, ExportShows, TypeAlways, PTL DEF Spec

-----------------------------------------------------------------------------
(* Paging through the sessions.                                            *)

LEMMA OneOfOne ==
  ASSUME NEW S, IsFiniteSet(S), ~(Cardinality(S) > 1), NEW x \in S, NEW y \in S
  PROVE  x = y
<1> SUFFICES ASSUME x # y
             PROVE  FALSE
  OBVIOUS
<1>1. IsFiniteSet({x}) /\ Cardinality({x}) = 1
  BY FS_Singleton
<1>2. IsFiniteSet({x} \cup {y}) /\ Cardinality({x} \cup {y}) = 2
  <2> DEFINE one == {x}
  <2>1. y \notin one /\ IsFiniteSet(one) /\ Cardinality(one) = 1
    BY <1>1
  <2> HIDE DEF one
  <2>2. IsFiniteSet(one \cup {y}) /\ Cardinality(one \cup {y}) = 1 + 1
    BY <2>1, FS_AddElement
  <2> QED
    BY <2>2 DEF one
<1>3. Cardinality({x} \cup {y}) <= Cardinality(S)
  BY <1>2, FS_Subset
<1>4. Cardinality(S) \in Nat
  BY FS_CardinalityType
<1> QED
  BY <1>2, <1>3, <1>4

LEMMA NamedFinite ==
  ASSUME NEW rows, IsTable(rows), NEW name
  PROVE  IsFiniteSet({Collection[s] : s \in {t \in Present(rows) : Name[t] = name}})
<1> DEFINE named == {t \in Present(rows) : Name[t] = name}
           seen  == {Collection[s] : s \in named}
           of    == [s \in named |-> Collection[s]]
<1>1. IsFiniteSet(named)
  BY PresentFinite, FS_Subset
<1>2. of \in Surjection(named, seen)
  BY DEF Surjection
<1> HIDE DEF of, named, seen
<1>3. IsFiniteSet(seen)
  BY <1>1, <1>2, FS_Surjection
<1> QED
  BY <1>3 DEF seen, named

(* The collection a name stands for takes no session away.                 *)
LEMMA ResolvedSelects ==
  ASSUME TypeInv, walk.task \in {"sessions", "workshop"}, Asking[1] = "ok",
         walk.task = "workshop" => walk.filter.name # Unfiltered
  PROVE  LoadSessions(store, walk.filter) \subseteq LoadSessions(store, Resolved)
<1> DEFINE f == walk.filter
<1>1. f \in Filters
  BY DEF TypeInv, Asked
<1>2. DOMAIN f = {"name", "collection", "since", "until", "labels"}
  BY <1>1, ReadingAssumption
<1>3. /\ Resolved.name = f.name /\ Resolved.since = f.since /\ Resolved.until = f.until
      /\ Resolved.labels = f.labels /\ Resolved.collection = Asking[2]
  BY <1>2 DEF Resolved
<1>4. ASSUME NEW s \in LoadSessions(store, f)
      PROVE  Asking[2] \in {Unfiltered, Collection[s]}
  <2>1. s \in Present(store) /\ f.name \in {Unfiltered, Name[s]}
        /\ f.collection \in {Unfiltered, Collection[s]}
    BY DEF LoadSessions, Selects
  <2>2. CASE walk.task = "sessions" \/ f.collection # Unfiltered
    BY <2>1, <2>2 DEF Asking, ResolveWorkshop
  <2>3. CASE walk.task = "workshop" /\ f.collection = Unfiltered
    <3> DEFINE seen == {Collection[t] : t \in {u \in Present(store) : Name[u] = f.name}}
    <3>1. Name[s] = f.name
      BY <2>1, <2>3
    <3>2. Collection[s] \in seen
      BY <2>1, <3>1
    <3>3. Asking = IF seen = {} THEN <<"404", Unfiltered>>
                   ELSE IF Cardinality(seen) > 1 THEN <<"409", Unfiltered>>
                   ELSE <<"ok", CHOOSE c \in seen : TRUE>>
      BY <2>3 DEF Asking, ResolveWorkshop
    <3>4. IsFiniteSet(seen)
      BY NamedFinite DEF TypeInv
    <3> HIDE DEF seen
    <3>5. ~(Cardinality(seen) > 1) /\ Asking[2] = CHOOSE c \in seen : TRUE
      BY <3>2, <3>3
    <3>6. Asking[2] \in seen
      BY <3>2, <3>5
    <3> QED
      BY <3>2, <3>4, <3>5, <3>6, OneOfOne
  <2> QED
    BY <2>2, <2>3
<1> HIDE DEF f
<1> QED
  BY <1>3, <1>4 DEF LoadSessions, Selects, f

(* A session that does not start later does not come later.                *)
LEMMA StaysBefore ==
  ASSUME NEW s \in Sessions, NEW a \in Nat, NEW b \in Nat, NEW cursor, Keyed(cursor)
  PROVE  /\ b <= a /\ Precedes([started |-> a, sid |-> s], cursor)
              => Precedes([started |-> b, sid |-> s], cursor)
BY ReadingAssumption DEF Precedes, Keyed

(* What is owed has been seen or is before the cursor, and what has been   *)
(* seen is not, unless it has come to be of an earlier start.              *)
PageInv ==
  /\ walk.task = "workshop" => walk.filter.name # Unfiltered
  /\ walk.seen \in Seq(Present(store))
  /\ walk.owed \subseteq LoadSessions(store, walk.filter)
  /\ walk.cursor = NoCursor => walk.seen = <<>>
  /\ walk.cursor \notin {NoCursor, Forged} =>
       /\ \A s \in walk.owed :
            s \in Range(walk.seen) \/ Precedes(Key(store, s), walk.cursor)
       /\ \A s \in Range(walk.seen) :
            s \in walk.early \/ ~Precedes(Key(store, s), walk.cursor)

OnlyEarly ==
  \A i, j \in DOMAIN walk.seen :
    i # j /\ walk.seen[i] = walk.seen[j] => walk.seen[i] \in walk.early

SessionsInv ==
  walk.task \in {"sessions", "workshop"} =>
    /\ walk.state = "on" => PageInv /\ OnlyEarly
    /\ walk.state = "done" => OnlyEarly /\ walk.owed \subseteq Range(walk.seen)

LEMMA SessionsShow == SessionsInv => NoneSkipped
BY DEF SessionsInv, NoneSkipped, OnlyEarly

LEMMA SessionsPost ==
  ASSUME TypeInv, SessionsInv, NEW p \in Posts, Post(p)
  PROVE  SessionsInv'
<1>1. CASE ~Walking
  <2>1. walk' = walk /\ (walk.task \in {"sessions", "workshop"} => walk.state # "on")
    BY <1>1 DEF Post, Walking
  <2> QED
    BY <2>1 DEF SessionsInv, OnlyEarly
<1>2. CASE Walking
  <2>1. walk.task \in {"sessions", "workshop"} /\ walk.state = "on" /\ PageInv /\ OnlyEarly
    BY <1>2 DEF Walking, SessionsInv
  <2> DEFINE owed  == {s \in walk.owed :
                         /\ s \in LoadSessions(store', walk.filter)
                         /\ StartedAt(store', s) <= StartedAt(store, s)}
             early == walk.early \cup {s \in Present(store) :
                                        StartedAt(store', s) < StartedAt(store, s)}
  <2>2. walk' = [walk EXCEPT !.owed = owed, !.early = early] /\ walk \in Walks
    BY <1>2 DEF Post, TypeInv
  <2>3. /\ \A s : s \in owed <=> /\ s \in walk.owed
                                 /\ s \in LoadSessions(store', walk.filter)
                                 /\ StartedAt(store', s) <= StartedAt(store, s)
        /\ \A s : s \in early <=>
             \/ s \in walk.early
             \/ s \in Present(store) /\ StartedAt(store', s) < StartedAt(store, s)
    OBVIOUS
  <2> HIDE DEF owed, early
  <2>4. /\ walk'.task = walk.task /\ walk'.filter = walk.filter /\ walk'.state = walk.state
        /\ walk'.seen = walk.seen /\ walk'.cursor = walk.cursor
        /\ walk'.owed = owed /\ walk'.early = early
    BY <2>2 DEF Walks
  <2>5. /\ IsTable(store) /\ IsTable(store')
        /\ \A i \in DOMAIN store : i \in DOMAIN store' /\ store'[i] = store[i]
    BY TypePost DEF TypeInv
  <2>6. Present(store) \subseteq Present(store')
    BY <2>5, PresentStays
  <2>7. \A s \in Present(store) : /\ StartedAt(store, s) \in Nat
                                 /\ StartedAt(store', s) \in Nat /\ s \in Sessions
    BY <2>5, <2>6, StartedNumber, StoreTypes
  <2>8. walk.seen \in Seq(Present(store'))
    BY <2>1, <2>6, SeqWider DEF PageInv
  <2>9. owed \subseteq LoadSessions(store', walk.filter)
    BY <2>3
  <2>10. ASSUME walk.cursor \notin {NoCursor, Forged}
         PROVE  /\ \A s \in owed :
                     s \in Range(walk.seen) \/ Precedes(Key(store', s), walk.cursor)
                /\ \A s \in Range(walk.seen) :
                     s \in early \/ ~Precedes(Key(store', s), walk.cursor)
    <3>1. Keyed(walk.cursor)
      BY <2>1, <2>10, StoreTypes DEF TypeInv, Issued, Keyed
    <3>2. ASSUME NEW s \in owed, s \notin Range(walk.seen)
          PROVE  Precedes(Key(store', s), walk.cursor)
      <4>1. s \in walk.owed /\ s \in Present(store)
            /\ StartedAt(store', s) <= StartedAt(store, s)
        BY <2>1, <2>3, ListedPresent DEF PageInv
      <4>2. Precedes(Key(store, s), walk.cursor)
        BY <2>1, <2>10, <3>2, <4>1 DEF PageInv
      <4> QED
        BY <2>7, <3>1, <4>1, <4>2, StaysBefore DEF Key
    <3>3. ASSUME NEW s \in Range(walk.seen), s \notin early
          PROVE  ~Precedes(Key(store', s), walk.cursor)
      <4>1. s \in Present(store)
        BY <2>1, SeqIsList DEF PageInv, Range
      <4>2. s \notin walk.early /\ ~(StartedAt(store', s) < StartedAt(store, s))
        BY <2>3, <3>3, <4>1
      <4>3. ~Precedes(Key(store, s), walk.cursor)
        BY <2>1, <2>10, <4>2 DEF PageInv
      <4>4. StartedAt(store, s) <= StartedAt(store', s)
        BY <2>7, <4>1, <4>2
      <4> QED
        BY <2>7, <3>1, <4>1, <4>3, <4>4, StaysBefore DEF Key
    <3> QED
      BY <3>2, <3>3
  <2>11. walk.early \subseteq early
    BY <2>3
  <2>12. PageInv'
    BY <2>1, <2>4, <2>8, <2>9, <2>10 DEF PageInv
  <2>13. OnlyEarly'
    BY <2>1, <2>4, <2>11 DEF OnlyEarly
  <2> QED
    BY <2>1, <2>4, <2>12, <2>13 DEF SessionsInv
<1> QED
  BY <1>1, <1>2

LEMMA SessionsRead ==
  ASSUME TypeInv, SessionsInv, ReadSessions
  PROVE  SessionsInv'
<1>0. /\ walk.task \in {"sessions", "workshop"} /\ walk.state = "on"
      /\ store' = store /\ walk \in Walks /\ PageInv /\ OnlyEarly
  BY SessionsTurn DEF Walking, SessionsInv, TypeInv
<1>1. ASSUME NEW status \in {"400", "404", "409"}, Refuse(status)
      PROVE  SessionsInv'
  <2>1. walk'.state = status
    BY <1>0, <1>1 DEF Refuse, Walks
  <2> QED
    BY <2>1 DEF SessionsInv
<1> DEFINE page == ListSessions(store, Resolved, walk.limit, walk.cursor)
           left == {s \in LoadSessions(store, Resolved) :
                      walk.cursor = NoCursor \/ Precedes(Key(store, s), walk.cursor)}
           both == walk.seen \o page.items
<1>2. ASSUME Asking[1] = "ok", walk.cursor # Forged, Turn(page)
      PROVE  SessionsInv'
  <2>1. HoldsSessions(page, store, left)
    <3>1. /\ page = ListSessions(store, Resolved, walk.limit, walk.cursor)
          /\ left = {s \in LoadSessions(store, Resolved) :
                       walk.cursor = NoCursor \/ Precedes(Key(store, s), walk.cursor)}
          /\ IsTable(store) /\ walk.limit \in Nat \ {0}
      BY DEF TypeInv, Walks
    <3> HIDE DEF page, left
    <3> QED
      BY <3>1, SessionsPage
  <2>2. walk.owed \subseteq LoadSessions(store, Resolved)
    BY <1>0, <1>2, ResolvedSelects DEF PageInv
  <2>3. left \subseteq Present(store)
    BY ListedPresent
  <2>4. /\ walk'.task = walk.task /\ walk'.filter = walk.filter
        /\ walk'.seen = both /\ walk'.cursor = page.next
        /\ walk'.owed = walk.owed /\ walk'.early = walk.early
        /\ walk'.state = IF page.next = NoCursor THEN "done" ELSE "on"
    BY <1>0, <1>2 DEF Turn, Walks
  <2>5. \A s : s \in left <=>
          /\ s \in LoadSessions(store, Resolved)
          /\ walk.cursor = NoCursor \/ Precedes(Key(store, s), walk.cursor)
    OBVIOUS
  <2> HIDE DEF page, left
  <2>6. page.items \in Seq(Present(store)) /\ Range(page.items) \subseteq left
        /\ IsInjective(page.items)
    <3>1. page.items \in Seq(left) /\ IsInjective(page.items)
      BY <2>1 DEF HoldsSessions
    <3> QED
      BY <2>3, <3>1, SeqWider, SeqIsList DEF Range
  <2>7. walk.seen \in Seq(Present(store)) /\ both \in Seq(Present(store))
    BY <1>0, <2>6, ConcatProperties DEF PageInv
  <2>8. IsList(walk.seen) /\ IsList(page.items) /\ both = walk.seen \o page.items
    BY <2>6, <2>7, SeqIsList
  <2> HIDE DEF both
  <2>9. Joins(both, walk.seen, page.items)
    BY <2>8, Joined
  <2>10. Range(both) = Range(walk.seen) \cup Range(page.items)
    BY <2>8, JoinedRange
  <2>11. \A s \in Present(store) : Keyed(Key(store, s))
    BY KeysKeyed DEF TypeInv
  <2>12. walk.cursor # NoCursor => Keyed(walk.cursor)
    BY <1>0, <1>2, StoreTypes DEF TypeInv, Issued, Keyed
  <2>13. \A s \in walk.owed :
           \/ s \in Range(both)
           \/ page.next # NoCursor /\ Precedes(Key(store, s), page.next)
    <3> SUFFICES ASSUME NEW s \in walk.owed, s \notin Range(both)
                 PROVE  page.next # NoCursor /\ Precedes(Key(store, s), page.next)
      OBVIOUS
    <3>1. walk.cursor = NoCursor \/ Precedes(Key(store, s), walk.cursor)
      BY <1>0, <1>2, <2>10 DEF PageInv
    <3>2. s \in left
      BY <2>2, <2>5, <3>1
    <3>3. s \notin Range(page.items)
      BY <2>10
    <3> QED
      BY <2>1, <3>2, <3>3 DEF HoldsSessions
  <2>14. ASSUME NEW s \in Range(walk.seen), s \notin walk.early
         PROVE  walk.cursor # NoCursor /\ ~Precedes(Key(store, s), walk.cursor)
    <3>1. walk.cursor # NoCursor
      BY <1>0 DEF PageInv, Range
    <3> QED
      BY <1>0, <1>2, <2>14, <3>1 DEF PageInv
  <2>15. ASSUME page.next # NoCursor, NEW s \in Range(both), s \notin walk.early
         PROVE  ~Precedes(Key(store, s), page.next)
    <3>1. CASE s \in Range(page.items)
      BY <2>1, <2>15, <3>1 DEF HoldsSessions
    <3>2. CASE s \in Range(walk.seen)
      <4>1. walk.cursor # NoCursor /\ ~Precedes(Key(store, s), walk.cursor)
        BY <2>14, <2>15, <3>2
      <4>2. PICK t \in left : page.next = Key(store, t)
        BY <2>1, <2>15 DEF HoldsSessions
      <4>3. Precedes(page.next, walk.cursor)
        BY <2>5, <4>1, <4>2
      <4>4. Keyed(Key(store, s)) /\ Keyed(page.next) /\ Keyed(walk.cursor)
        <5>1. s \in Present(store)
          BY <2>7, <3>2, SeqIsList DEF Range
        <5> QED
          BY <2>3, <2>11, <2>12, <4>1, <4>2, <5>1
      <4> QED
        BY <4>1, <4>3, <4>4, PrecedesOrders
    <3> QED
      BY <2>10, <3>1, <3>2
  <2>16. OnlyEarly'
    <3> SUFFICES ASSUME NEW i \in DOMAIN both, NEW j \in DOMAIN both, i # j,
                        both[i] = both[j]
                 PROVE  both[i] \in walk.early
      BY <2>4 DEF OnlyEarly
    <3> DEFINE Old == DOMAIN walk.seen
    <3>1. /\ Len(walk.seen) \in Nat
          /\ DOMAIN both \subseteq Int
      <4>1. IsList(both)
        BY <2>9 DEF Joins
      <4>2. DOMAIN both = 1 .. Len(both) /\ Len(both) \in Nat
        BY <4>1, ListShape
      <4>3. Len(walk.seen) \in Nat
        BY <2>8, ListShape
      <4> QED
        BY <4>2, <4>3
    <3>2. \A k \in Old : both[k] = walk.seen[k] /\ both[k] \in Range(walk.seen)
      BY <2>9 DEF Joins, Range
    <3>3. \A k \in DOMAIN both \ Old :
            /\ k - Len(walk.seen) \in DOMAIN page.items
            /\ both[k] = page.items[k - Len(walk.seen)]
            /\ both[k] \in Range(page.items)
      BY <2>9 DEF Joins, Range
    <3>4. CASE i \in Old /\ j \in Old
      BY <1>0, <3>2, <3>4 DEF OnlyEarly
    <3>5. CASE i \notin Old /\ j \notin Old
      <4>1. i - Len(walk.seen) = j - Len(walk.seen)
        BY <2>6, <3>3, <3>5 DEF IsInjective
      <4> QED
        BY <3>1, <4>1
    <3>6. ASSUME NEW s, s \in Range(walk.seen), s \in Range(page.items)
          PROVE  s \in walk.early
      BY <2>5, <2>6, <2>14, <3>6
    <3>7. CASE (i \in Old /\ j \notin Old) \/ (i \notin Old /\ j \in Old)
      BY <3>2, <3>3, <3>6, <3>7
    <3> QED
      BY <3>4, <3>5, <3>7
  <2>17. CASE page.next = NoCursor
    <3>1. walk'.state = "done" /\ walk'.owed \subseteq Range(walk'.seen)
      BY <2>4, <2>13, <2>17
    <3> QED
      BY <2>16, <3>1 DEF SessionsInv
  <2>18. CASE page.next # NoCursor
    <3>1. walk'.state = "on"
      BY <2>4, <2>18
    <3>2. walk.owed \subseteq LoadSessions(store, walk.filter)
          /\ (walk.task = "workshop" => walk.filter.name # Unfiltered)
      BY <1>0 DEF PageInv
    <3>3. PageInv'
      BY <1>0, <2>4, <2>7, <2>13, <2>15, <2>18, <3>2 DEF PageInv
    <3> QED
      BY <2>16, <3>1, <3>3 DEF SessionsInv
  <2> QED
    BY <2>17, <2>18
<1> QED
  BY <1>1, <1>2, SessionsTurn

LEMMA SessionsStep == TypeInv /\ SessionsInv /\ [Next]_vars => SessionsInv'
<1> SUFFICES ASSUME TypeInv, SessionsInv, [Next]_vars
             PROVE  SessionsInv'
  OBVIOUS
<1>1. ASSUME NEW p \in Posts, Post(p)
      PROVE  SessionsInv'
  BY <1>1, SessionsPost
<1>2. ASSUME NEW task \in {"sessions", "workshop"}, NEW f \in Filters,
             NEW limit \in Limits, NEW cursor \in {NoCursor, Forged},
             BeginSessions(task, f, limit, cursor)
      PROVE  SessionsInv'
  <2>1. /\ walk'.task = task /\ walk'.filter = f /\ walk'.state = "on"
        /\ walk'.cursor = cursor /\ walk'.seen = <<>>
        /\ walk'.owed = LoadSessions(store, f) /\ store' = store
        /\ task = "workshop" => f.name # Unfiltered
    BY <1>2 DEF BeginSessions, Begin, Idle
  <2>2. <<>> \in Seq(Present(store)) /\ DOMAIN <<>> = {}
    OBVIOUS
  <2>3. PageInv' /\ OnlyEarly'
    BY <2>1, <2>2 DEF PageInv, OnlyEarly
  <2> QED
    BY <2>1, <2>3 DEF SessionsInv
<1>3. CASE ReadSessions
  BY <1>3, SessionsRead
<1>4. CASE UNCHANGED vars
  BY <1>4 DEF SessionsInv, PageInv, OnlyEarly, vars
<1>5. CASE walk'.task \notin {"sessions", "workshop"}
  BY <1>5 DEF SessionsInv
<1>6. ASSUME NEW f, NEW limit, NEW cursor,
             BeginEvents(f, limit, cursor) \/ BeginDownload(f) \/ Export(f)
      PROVE  walk'.task \notin {"sessions", "workshop"}
  BY <1>6 DEF BeginEvents, Begin, BeginDownload, Export, Idle
<1>7. ASSUME ReadEvents \/ ReadChunk \/ \E i \in Imports : Import(i)
      PROVE  walk'.task \notin {"sessions", "workshop"}
  <2>1. walk.task \notin {"sessions", "workshop"} /\ walk \in Walks
    BY <1>7 DEF ReadEvents, ReadChunk, Import, TypeInv
  <2>2. walk'.task = walk.task
    <3>1. CASE ReadEvents
      BY <2>1, <3>1 DEF ReadEvents, Refuse, Turn, Walks
    <3>2. CASE ReadChunk
      BY <2>1, <3>2 DEF ReadChunk, Walks
    <3>3. CASE \E i \in Imports : Import(i)
      BY <2>1, <3>3 DEF Import, Walks
    <3> QED
      BY <1>7, <3>1, <3>2, <3>3
  <2> QED
    BY <2>1, <2>2
<1> QED
  BY <1>1, <1>2, <1>3, <1>4, <1>5, <1>6, <1>7 DEF Next

(* A client that pages to the end sees every session that was selected all *)
(* the while and never started later than it was taken to, and sees one    *)
(* twice only if it turned out to have started earlier                     *)
(* (queries.py:1719-1755).                                                 *)
THEOREM NoSessionIsSkipped == Spec => []NoneSkipped
<1>1. Init => SessionsInv
  BY DEF Init, Idle, SessionsInv
<1> QED
  BY <1>1, SessionsStep, SessionsShow, TypeAlways, PTL DEF Spec

=============================================================================
