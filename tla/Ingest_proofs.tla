----------------------------- MODULE Ingest_proofs -----------------------------
(***************************************************************************)
(* Proofs about Ingest, for any events, batches and number of threads: its *)
(* types and that no event is stored twice, under either database; and,    *)
(* under SQLite's single writer, that every sessions row that can be read  *)
(* says what the stored events say, that a resume link is one the resuming *)
(* session's row bears out, and that it is never lost.  What the fold      *)
(* computes is opaque to all of it but for the last step of                *)
(* CompleteMeansAll and the links' one parent.                             *)
(***************************************************************************)
EXTENDS Ingest, SequenceTheorems, TLAPS

-----------------------------------------------------------------------------
(* Types.  A process has no lines in hand before its lookup, and a session *)
(* in hand from the fold to the link.                                      *)

InHand(p) == /\ pc[p] \in {"idle", "lookup"} => fresh[p] = {}
             /\ pc[p] \in {"load", "write", "link"} => turn[p].sid \in Sessions

(* What is kept of each process, which Rest() resets.                      *)
PCs == Writing \cup {"idle", "lookup", "insert", "publish", "answer"}

RestType ==
  /\ pc \in [Procs -> PCs]
  /\ batch \in [Procs -> Batches \cup {<<>>}]
  /\ fresh \in [Procs -> SUBSET Nat]
  /\ \A p \in Procs : fresh[p] \subseteq Accepted(batch[p])
  /\ ins \in [Procs -> SUBSET EventRow]
  /\ wrote \in [Procs -> [Sessions -> Row \cup {NoRow, Unwritten}]]
  /\ todo \in [Procs -> SUBSET [sid : Sessions, token : TokenId]]
  /\ turn \in [Procs -> [sid : Sessions \cup {NoSession}, token : TokenId,
                         derived : Columns, row : Row \cup {NoRow}]]
  /\ projected \in [Procs -> SUBSET Sessions]
  /\ \A p \in Procs : InHand(p)

TypeInv == TypeOK /\ \A p \in Procs : InHand(p)

LEMMA BatchLines ==
  ASSUME TypeOK, NEW p \in Procs, NEW i \in Accepted(batch[p])
  PROVE  /\ i \in Nat
         /\ batch[p][i].ev \in Events /\ batch[p][i].token \in TokenId
         /\ batch[p][i].ev.sid \in Sessions
<1>1. batch[p] \in Batches \cup {<<>>} /\ i \in DOMAIN batch[p]
      /\ batch[p][i].ev # Malformed
  BY DEF TypeOK, Accepted
<1>2. batch[p] \in Seq(Line)
  BY <1>1, IngestAssumption
<1>3. i \in 1 .. Len(batch[p]) /\ batch[p][i] \in Line
  BY <1>1, <1>2, LenProperties, ElementOfSeq
<1>4. batch[p][i].ev \in Events
  BY <1>1, <1>3 DEF Line
<1> QED
  BY <1>2, <1>3, <1>4, LenProperties, EventsAssumption DEF Line, EventRecord

LEMMA FoldTyped ==
  ASSUME TypeOK, NEW p \in Procs, NEW s
  PROVE  Derived(Of(s, table \cup ins[p])) \in Columns
<1>1. table \cup ins[p] \subseteq EventRow
  BY DEF TypeOK
<1>2. Of(s, table \cup ins[p]) \subseteq Events
  BY <1>1 DEF Of, EventRow
<1> QED
  BY <1>2 DEF Columns

LEMMA RowSeenTyped ==
  ASSUME TypeOK, NEW p \in Procs, NEW s \in Sessions
  PROVE  RowSeen(p, s) \in Row \cup {NoRow}
BY DEF TypeOK, RowSeen

(* A row written, anywhere, keeps what a transaction has written typed.    *)
LEMMA WroteTyped ==
  ASSUME TypeOK, NEW p \in Procs, NEW s, NEW v, s \in Sessions => v \in Row
  PROVE  [wrote EXCEPT ![p] = [wrote[p] EXCEPT ![s] = v]]
           \in [Procs -> [Sessions -> Row \cup {NoRow, Unwritten}]]
<1> DEFINE R == Row \cup {NoRow, Unwritten}
           W == [Sessions -> R]
<1>1. wrote \in [Procs -> W] /\ wrote[p] \in W
  BY DEF TypeOK
<1>2. s \in Sessions => v \in R
  OBVIOUS
<1> HIDE DEF R
<1>3. [wrote[p] EXCEPT ![s] = v] \in W
  BY <1>1, <1>2
<1> HIDE DEF W
<1>4. [wrote EXCEPT ![p] = [wrote[p] EXCEPT ![s] = v]] \in [Procs -> W]
  BY <1>1, <1>3
<1> QED
  BY <1>4 DEF W, R

LEMMA InitTyped == Init => TypeInv
<1> SUFFICES ASSUME Init
             PROVE  TypeInv
  OBVIOUS
<1>1. Derived({}) \in Columns
  BY DEF Columns
<1>2. NoTurn \in [sid : Sessions \cup {NoSession}, token : TokenId,
                  derived : Columns, row : Row \cup {NoRow}]
  BY <1>1 DEF NoTurn, TokenId
<1> QED
  BY <1>2 DEF Init, TypeInv, TypeOK, InHand, Accepted

(* Forgetting its work keeps a process typed.                              *)
LEMMA RestTyped ==
  ASSUME TypeInv, NEW p \in Procs, Rest(p)
  PROVE  RestType'
<1>1. Derived({}) \in Columns
  BY DEF Columns
<1>2. NoTurn \in [sid : Sessions \cup {NoSession}, token : TokenId,
                  derived : Columns, row : Row \cup {NoRow}]
  BY <1>1 DEF NoTurn, TokenId
<1>3. /\ pc' = [pc EXCEPT ![p] = "idle"]
      /\ batch' = [batch EXCEPT ![p] = <<>>]
      /\ fresh' = [fresh EXCEPT ![p] = {}]
      /\ ins' = [ins EXCEPT ![p] = {}]
      /\ wrote' = [wrote EXCEPT ![p] = [s \in Sessions |-> Unwritten]]
      /\ todo' = [todo EXCEPT ![p] = {}]
      /\ turn' = [turn EXCEPT ![p] = NoTurn]
      /\ projected' = [projected EXCEPT ![p] = {}]
  BY DEF Rest
<1>4. ASSUME NEW q \in Procs
      PROVE  InHand(q)' /\ fresh'[q] \subseteq Accepted(batch'[q])
  BY <1>3 DEF TypeInv, TypeOK, RestType, InHand, Accepted
<1> USE DEF TypeInv, TypeOK, RestType
<1>5. /\ pc' \in [Procs -> PCs]
      /\ batch' \in [Procs -> Batches \cup {<<>>}]
      /\ fresh' \in [Procs -> SUBSET Nat]
  BY <1>3 DEF PCs
<1>6. /\ ins' \in [Procs -> SUBSET EventRow]
      /\ wrote' \in [Procs -> [Sessions -> Row \cup {NoRow, Unwritten}]]
  BY <1>3
<1>7. /\ todo' \in [Procs -> SUBSET [sid : Sessions, token : TokenId]]
      /\ projected' \in [Procs -> SUBSET Sessions]
  BY <1>3
<1>8. turn' \in [Procs -> [sid : Sessions \cup {NoSession}, token : TokenId,
                           derived : Columns, row : Row \cup {NoRow}]]
  BY <1>2, <1>3
<1> QED
  BY <1>4, <1>5, <1>6, <1>7, <1>8

LEMMA TypeStep == TypeInv /\ [Next]_vars => TypeInv'
<1> SUFFICES ASSUME TypeInv, [Next]_vars
             PROVE  TypeInv'
  OBVIOUS
<1>1. TypeOK /\ (\A p \in Procs : InHand(p)) /\ IngestAssumption
  BY IngestAssumption DEF TypeInv
<1>2. ASSUME NEW p \in Workers, NEW b \in Batches, Receive(p, b)
      PROVE  TypeInv'
  <2>1. p \in Procs
    BY DEF Procs
  <2>2. \A q \in Procs : fresh'[q] \subseteq Accepted(batch'[q])
    BY <1>1, <1>2, <2>1 DEF Receive, TypeOK, InHand
  <2> QED
    BY <1>1, <1>2, <2>1, <2>2 DEF Receive, TypeInv, TypeOK, InHand
<1>3. ASSUME NEW p \in Procs, Lookup(p)
      PROVE  TypeInv'
  <2>1. /\ Fresh(batch[p], {r.ev : r \in table}) \in SUBSET Nat
        /\ Fresh(batch[p], {r.ev : r \in table}) \subseteq Accepted(batch[p])
    BY <1>1, BatchLines DEF Fresh
  <2> HIDE DEF Fresh
  <2>2. \A q \in Procs : fresh'[q] \subseteq Accepted(batch'[q])
    BY <1>1, <1>3, <2>1 DEF Lookup, TypeOK
  <2> QED
    BY <1>1, <1>3, <2>1, <2>2 DEF Lookup, TypeInv, TypeOK, InHand
<1>4. ASSUME NEW p \in Procs, Insert(p)
      PROVE  TypeInv'
  <2>1. \A i \in fresh[p] :
           /\ i \in Nat
           /\ batch[p][i].ev \in Events /\ batch[p][i].token \in TokenId
           /\ batch[p][i].ev.sid \in Sessions
    BY <1>1, BatchLines DEF TypeOK
  <2>2. Len(batch[p]) \in Nat
    <3>1. batch[p] \in Seq(Line)
      <4>1. batch[p] \in Batches \cup {<<>>} /\ Batches \subseteq Seq(Line)
        BY <1>1, IngestAssumption DEF TypeOK
      <4>2. <<>> \in Seq(Line)
        BY EmptySeq
      <4> QED
        BY <4>1, <4>2
    <3> QED
      BY <3>1, LenProperties
  <2>3. /\ nextId' \in Nat
        /\ ins' \in [Procs -> SUBSET EventRow]
        /\ todo' \in [Procs -> SUBSET [sid : Sessions, token : TokenId]]
    BY <1>1, <1>4, <2>1, <2>2 DEF Insert, TypeOK, EventRow
  <2>4. /\ pc' \in [Procs -> PCs]
        /\ \A q \in Procs : InHand(q)'
    BY <1>1, <1>4 DEF Insert, TypeOK, InHand, PCs, Writing
  <2> QED
    BY <1>1, <1>4, <2>3, <2>4 DEF Insert, TypeInv, TypeOK, PCs
<1>5. ASSUME NEW p \in Procs, FoldEvents(p)
      PROVE  TypeInv'
  <2>1. PICK t \in todo[p], token \in TokenId :
           /\ turn' = [turn EXCEPT ![p] =
                         [sid |-> t.sid, token |-> token, row |-> NoRow,
                          derived |-> Derived(Of(t.sid, table \cup ins[p]))]]
           /\ todo' = [todo EXCEPT ![p] = @ \ {t}]
    BY <1>5 DEF FoldEvents
  <2>2. Derived(Of(t.sid, table \cup ins[p])) \in Columns /\ t.sid \in Sessions
    BY <1>1, FoldTyped DEF TypeOK
  <2>3. /\ turn' \in [Procs -> [sid : Sessions \cup {NoSession}, token : TokenId,
                                derived : Columns, row : Row \cup {NoRow}]]
        /\ todo' \in [Procs -> SUBSET [sid : Sessions, token : TokenId]]
        /\ turn'[p].sid \in Sessions
    BY <1>1, <2>1, <2>2 DEF TypeOK
  <2>4. /\ pc' \in [Procs -> PCs]
        /\ \A q \in Procs : InHand(q)'
    BY <1>1, <1>5, <2>1, <2>3 DEF FoldEvents, TypeOK, InHand, PCs, Writing
  <2> QED
    BY <1>1, <1>5, <2>3, <2>4 DEF FoldEvents, TypeInv, TypeOK, PCs
<1>6. ASSUME NEW p \in Procs, LoadSession(p)
      PROVE  TypeInv'
  <2>1. RowSeen(p, turn[p].sid) \in Row \cup {NoRow}
    BY <1>1, <1>6, RowSeenTyped DEF LoadSession, InHand
  <2>2. turn' = [turn EXCEPT ![p] = [turn[p] EXCEPT
                                      !.row = RowSeen(p, turn[p].sid)]]
    BY <1>6 DEF LoadSession
  <2>3. /\ turn' \in [Procs -> [sid : Sessions \cup {NoSession}, token : TokenId,
                                derived : Columns, row : Row \cup {NoRow}]]
        /\ turn'[p].sid = turn[p].sid
        /\ \A q \in Procs : q # p => turn'[q] = turn[q]
    <3> DEFINE T == [sid : Sessions \cup {NoSession}, token : TokenId,
                     derived : Columns, row : Row \cup {NoRow}]
               loaded == [turn[p] EXCEPT !.row = RowSeen(p, turn[p].sid)]
    <3>1. turn \in [Procs -> T] /\ turn[p] \in T
      BY <1>1 DEF TypeOK
    <3>2. loaded \in T /\ loaded.sid = turn[p].sid
      BY <2>1, <3>1
    <3> HIDE DEF T, loaded
    <3>3. turn' = [turn EXCEPT ![p] = loaded]
      BY <2>2 DEF loaded
    <3>4. turn' \in [Procs -> T] /\ turn'[p] = loaded
          /\ \A q \in Procs : q # p => turn'[q] = turn[q]
      BY <3>1, <3>2, <3>3
    <3> QED
      BY <3>2, <3>4 DEF T
  <2>4. /\ pc' \in [Procs -> PCs]
        /\ \A q \in Procs : InHand(q)'
    BY <1>1, <1>6, <2>3 DEF LoadSession, TypeOK, InHand, PCs, Writing
  <2> QED
    BY <1>1, <1>6, <2>3, <2>4 DEF LoadSession, TypeInv, TypeOK, PCs
<1>7. ASSUME NEW p \in Procs, WriteSession(p)
      PROVE  TypeInv'
  <2>1. NewRow(turn[p]) \in Row
    BY <1>1 DEF TypeOK, NewRow, Row
  <2>2. wrote' \in [Procs -> [Sessions -> Row \cup {NoRow, Unwritten}]]
    <3> DEFINE s == turn[p].sid
    <3>1. wrote' = wrote \/ wrote' = [wrote EXCEPT ![p] =
                                       [wrote[p] EXCEPT ![s] = NewRow(turn[p])]]
      BY <1>7 DEF WriteSession
    <3> HIDE DEF s
    <3>2. wrote \in [Procs -> [Sessions -> Row \cup {NoRow, Unwritten}]]
      BY <1>1 DEF TypeOK
    <3>3. [wrote EXCEPT ![p] = [wrote[p] EXCEPT ![s] = NewRow(turn[p])]]
             \in [Procs -> [Sessions -> Row \cup {NoRow, Unwritten}]]
      BY <1>1, <2>1, WroteTyped
    <3> QED
      BY <3>1, <3>2, <3>3
  <2>3. /\ pc' \in [Procs -> PCs]
        /\ \A q \in Procs : InHand(q)'
    BY <1>1, <1>7 DEF WriteSession, TypeOK, InHand, PCs, Writing
  <2> QED
    BY <1>1, <1>7, <2>2, <2>3 DEF WriteSession, TypeInv, TypeOK, PCs
<1>8. ASSUME NEW p \in Procs, LinkResume(p)
      PROVE  TypeInv'
  <2> DEFINE s == turn[p].sid
             from == turn[p].derived.resumedFrom
             linked == [RowSeen(p, from) EXCEPT !.resumedBy = s]
  <2>1. s \in Sessions
    BY <1>1, <1>8 DEF LinkResume, InHand
  <2>2. wrote' \in [Procs -> [Sessions -> Row \cup {NoRow, Unwritten}]]
    <3>1. \/ wrote' = wrote
          \/ /\ RowSeen(p, from) # NoRow
             /\ wrote' = [wrote EXCEPT ![p] = [wrote[p] EXCEPT ![from] = linked]]
      BY <1>8 DEF LinkResume
    <3>2. from \in Sessions /\ RowSeen(p, from) # NoRow => linked \in Row
      BY <1>1, <2>1, RowSeenTyped DEF Row
    <3>3. wrote \in [Procs -> [Sessions -> Row \cup {NoRow, Unwritten}]]
      BY <1>1 DEF TypeOK
    <3> HIDE DEF from, linked
    <3>4. [wrote EXCEPT ![p] = [wrote[p] EXCEPT ![from] = linked]]
             \in [Procs -> [Sessions -> Row \cup {NoRow, Unwritten}]]
          \/ RowSeen(p, from) = NoRow
      BY <1>1, <3>2, WroteTyped
    <3> QED
      BY <3>1, <3>3, <3>4
  <2>3. NoTurn \in [sid : Sessions \cup {NoSession}, token : TokenId,
                    derived : Columns, row : Row \cup {NoRow}]
    BY DEF NoTurn, TokenId, Columns
  <2>4. /\ turn' \in [Procs -> [sid : Sessions \cup {NoSession}, token : TokenId,
                                derived : Columns, row : Row \cup {NoRow}]]
        /\ projected' \in [Procs -> SUBSET Sessions]
    BY <1>1, <1>8, <2>1, <2>3 DEF LinkResume, TypeOK
  <2>5. /\ pc' \in [Procs -> PCs]
        /\ \A q \in Procs : InHand(q)'
    BY <1>1, <1>8 DEF LinkResume, FoldOrCommit, TypeOK, InHand, PCs, Writing
  <2> QED
    BY <1>1, <1>8, <2>2, <2>4, <2>5 DEF LinkResume, TypeInv, TypeOK, PCs
<1>9. ASSUME NEW p \in Procs, Commit(p)
      PROVE  TypeInv'
  <2>1. /\ table' \subseteq EventRow
        /\ rows' \in [Sessions -> Row \cup {NoRow}]
    BY <1>1, <1>9, RowSeenTyped DEF Commit, TypeOK
  <2>2. CASE p = Rebuilder
    <3>1. RestType'
      BY <1>9, <2>2, RestTyped DEF Commit
    <3> QED
      BY <1>1, <1>9, <2>1, <3>1 DEF Commit, RestType, TypeInv, TypeOK, PCs
  <2>3. CASE p # Rebuilder
    <3>1. /\ pc' \in [Procs -> PCs]
          /\ \A q \in Procs : InHand(q)'
      <4>1. /\ pc' = [pc EXCEPT ![p] = "publish"]
            /\ fresh' = fresh /\ turn' = turn
        BY <1>9, <2>3 DEF Commit
      <4>2. pc \in [Procs -> PCs]
        BY <1>1 DEF TypeOK, PCs
      <4>3. pc' \in [Procs -> PCs]
        BY <4>1, <4>2 DEF PCs
      <4>4. \A q \in Procs : InHand(q)'
        BY <1>1, <4>1, <4>2 DEF InHand
      <4> QED
        BY <4>3, <4>4
    <3>2. /\ ins' \in [Procs -> SUBSET EventRow]
          /\ wrote' \in [Procs -> [Sessions -> Row \cup {NoRow, Unwritten}]]
      <4>1. /\ ins' = [ins EXCEPT ![p] = {}]
            /\ wrote' = [wrote EXCEPT ![p] = [s \in Sessions |-> Unwritten]]
        BY <1>9, <2>3 DEF Commit
      <4>2. /\ ins \in [Procs -> SUBSET EventRow]
            /\ wrote \in [Procs -> [Sessions -> Row \cup {NoRow, Unwritten}]]
        BY <1>1 DEF TypeOK
      <4>3. [s \in Sessions |-> Unwritten] \in [Sessions -> Row \cup {NoRow, Unwritten}]
        OBVIOUS
      <4> HIDE DEF Row
      <4> QED
        BY <4>1, <4>2, <4>3
    <3> QED
      BY <1>1, <1>9, <2>1, <2>3, <3>1, <3>2 DEF Commit, TypeInv, TypeOK, PCs
  <2> QED
    BY <2>2, <2>3
<1>10. ASSUME NEW p \in Procs, Publish(p)
       PROVE  TypeInv'
  BY <1>1, <1>10 DEF Publish, TypeInv, TypeOK, InHand
<1>11. ASSUME NEW p \in Procs, Answer(p)
       PROVE  TypeInv'
  <2>1. RestType'
    BY <1>11, RestTyped DEF Answer
  <2>2. acked' \subseteq Events
    BY <1>1, <1>11, BatchLines DEF Answer, TypeOK
  <2> QED
    BY <1>1, <1>11, <2>1, <2>2 DEF Answer, RestType, TypeInv, TypeOK, PCs
<1>12. ASSUME NEW p \in Procs, DropRows(p)
       PROVE  TypeInv'
  <2>1. wrote' \in [Procs -> [Sessions -> Row \cup {NoRow, Unwritten}]]
    BY <1>1, <1>12 DEF DropRows, TypeOK
  <2>2. /\ pc' \in [Procs -> PCs]
        /\ \A q \in Procs : InHand(q)'
    BY <1>1, <1>12 DEF DropRows, TypeOK, InHand, PCs, Writing
  <2> QED
    BY <1>1, <1>12, <2>1, <2>2 DEF DropRows, TypeInv, TypeOK, PCs
<1>13. ASSUME NEW p \in Procs, ListSessions(p)
       PROVE  TypeInv'
  <2>1. {[sid |-> r.ev.sid, token |-> NoToken] : r \in table}
          \in SUBSET [sid : Sessions, token : TokenId]
    BY <1>1, EventsAssumption DEF TypeOK, EventRow, EventRecord, TokenId
  <2>2. todo' \in [Procs -> SUBSET [sid : Sessions, token : TokenId]]
    BY <1>1, <1>13, <2>1 DEF ListSessions, TypeOK
  <2>3. /\ pc' \in [Procs -> PCs]
        /\ \A q \in Procs : InHand(q)'
    BY <1>1, <1>13 DEF ListSessions, FoldOrCommit, TypeOK, InHand, PCs, Writing
  <2> QED
    BY <1>1, <1>13, <2>2, <2>3 DEF ListSessions, TypeInv, TypeOK, PCs
<1>14. ASSUME NEW p \in Procs, Fail(p)
       PROVE  TypeInv'
  <2>1. RestType'
    BY <1>14, RestTyped DEF Fail
  <2> QED
    BY <1>1, <1>14, <2>1 DEF Fail, RestType, TypeInv, TypeOK, PCs
<1>15. CASE UNCHANGED vars
  BY <1>1, <1>15 DEF vars, TypeInv, TypeOK, InHand
<1> QED
  BY <1>2, <1>3, <1>4, <1>5, <1>6, <1>7, <1>8, <1>9, <1>10, <1>11, <1>12,
     <1>13, <1>14, <1>15 DEF Next, Step

(* Every variable keeps to its type, in the server's threads and in a      *)
(* rebuild, whichever database holds the rows.                             *)
THEOREM TypeCorrect == Spec => []TypeOK
<1>1. Init => TypeInv
  BY InitTyped
<1>2. TypeInv /\ [Next]_vars => TypeInv'
  BY TypeStep
<1>3. TypeInv => TypeOK
  BY DEF TypeInv
<1> QED
  BY <1>1, <1>2, <1>3, PTL DEF Spec

-----------------------------------------------------------------------------
(* No event is stored twice.  What a transaction has inserted and not yet  *)
(* committed is in neither the table nor another transaction: the insert   *)
(* waits for the others and leaves out what is there.                      *)

Apart(p) ==
  /\ ins[p] # {} => pc[p] \in Writing \ {"list"}
  /\ \A i, j \in fresh[p] : batch[p][i].ev = batch[p][j].ev => i = j
  /\ \A r, q \in ins[p] : r.ev = q.ev => r = q
  /\ \A r \in ins[p], q \in table : r.ev # q.ev

Disjoint == \A p, q \in Procs : p # q => \A r \in ins[p], t \in ins[q] : r.ev # t.ev

StoreInv == StoredOnce /\ Disjoint /\ \A p \in Procs : Apart(p)

(* A step that neither stores nor looks anything up.                       *)
LEMMA ApartKept ==
  ASSUME StoreInv, UNCHANGED <<table, batch, fresh, ins>>,
         \A q \in Procs : pc'[q] = pc[q] \/ pc'[q] \in Writing \ {"list"}
                          \/ ins[q] = {}
  PROVE  StoreInv'
BY DEF StoreInv, StoredOnce, Disjoint, Apart

LEMMA ApartAtRest ==
  ASSUME StoreInv, TypeInv, NEW p \in Procs, Rest(p), UNCHANGED table
  PROVE  StoreInv'
<1>1. /\ fresh'[p] = {} /\ ins'[p] = {}
      /\ \A q \in Procs \ {p} : /\ pc'[q] = pc[q] /\ batch'[q] = batch[q]
                                 /\ fresh'[q] = fresh[q] /\ ins'[q] = ins[q]
  BY DEF Rest, TypeInv, TypeOK
<1> QED
  BY <1>1 DEF StoreInv, StoredOnce, Disjoint, Apart

LEMMA StoreStep == StoreInv /\ TypeInv /\ [Next]_vars => StoreInv'
<1> SUFFICES ASSUME StoreInv, TypeInv, [Next]_vars
             PROVE  StoreInv'
  OBVIOUS
<1>1. TypeOK
  BY DEF TypeInv
<1>2. ASSUME NEW p \in Workers, NEW b \in Batches, Receive(p, b)
      PROVE  StoreInv'
  <2>1. p \in Procs
    BY DEF Procs
  <2>2. /\ fresh[p] = {} /\ ins[p] = {}
        /\ UNCHANGED <<table, fresh, ins>>
        /\ \A q \in Procs \ {p} : pc'[q] = pc[q] /\ batch'[q] = batch[q]
    BY <1>1, <1>2, <2>1 DEF Receive, StoreInv, Apart, TypeInv, TypeOK, InHand, Writing
  <2> QED
    BY <2>1, <2>2 DEF StoreInv, StoredOnce, Disjoint, Apart
<1>3. ASSUME NEW p \in Procs, Lookup(p)
      PROVE  StoreInv'
  <2>1. /\ ins[p] = {}
        /\ UNCHANGED <<table, batch, ins>>
        /\ fresh'[p] = Fresh(batch[p], {r.ev : r \in table})
        /\ \A q \in Procs \ {p} : pc'[q] = pc[q] /\ fresh'[q] = fresh[q]
    BY <1>1, <1>3 DEF Lookup, StoreInv, Apart, TypeOK, Writing
  <2>2. ASSUME NEW i \in fresh'[p], NEW j \in fresh'[p],
               batch[p][i].ev = batch[p][j].ev
        PROVE  i = j
    <3>1. i \in Nat /\ j \in Nat /\ i <= j /\ j <= i
      BY <1>1, <2>1, <2>2, BatchLines DEF Fresh
    <3> QED
      BY <3>1
  <2> QED
    BY <2>1, <2>2 DEF StoreInv, StoredOnce, Disjoint, Apart
<1>4. ASSUME NEW p \in Procs, Insert(p)
      PROVE  StoreInv'
  <2> DEFINE new == {i \in fresh[p] : \A r \in table : r.ev # batch[p][i].ev}
  <2>1. /\ ins'[p] = {[id |-> nextId + i, ev |-> batch[p][i].ev,
                       token |-> batch[p][i].token] : i \in new}
        /\ pc'[p] \in Writing \ {"list"}
        /\ UNCHANGED <<table, batch, fresh>>
        /\ \A q \in Procs \ {p} : pc'[q] = pc[q] /\ ins'[q] = ins[q]
    BY <1>1, <1>4 DEF Insert, TypeOK, Writing
  <2>2. \A r \in ins'[p] : \E i \in new :
           r = [id |-> nextId + i, ev |-> batch[p][i].ev,
                token |-> batch[p][i].token]
    BY <2>1
  <2>3. \A r \in ins'[p], t \in ins'[p] : r.ev = t.ev => r = t
    <3> SUFFICES ASSUME NEW r \in ins'[p], NEW t \in ins'[p], r.ev = t.ev
                 PROVE  r = t
      OBVIOUS
    <3>1. PICK i \in new : r = [id |-> nextId + i, ev |-> batch[p][i].ev,
                                token |-> batch[p][i].token]
      BY <2>2
    <3>2. PICK j \in new : t = [id |-> nextId + j, ev |-> batch[p][j].ev,
                                token |-> batch[p][j].token]
      BY <2>2
    <3>3. i = j
      BY <3>1, <3>2 DEF StoreInv, Apart
    <3> QED
      BY <3>1, <3>2, <3>3
  <2>4. \A r \in ins'[p], t \in table : r.ev # t.ev
    BY <2>2
  <2>5. \A q \in Procs \ {p} : \A r \in ins[q], t \in ins'[p] : r.ev # t.ev
    BY <1>4, <2>2 DEF Insert
  <2>6. Disjoint'
    BY <2>1, <2>5 DEF StoreInv, Disjoint
  <2>7. \A q \in Procs : Apart(q)'
    BY <2>1, <2>3, <2>4 DEF StoreInv, Apart
  <2> QED
    BY <2>1, <2>6, <2>7 DEF StoreInv, StoredOnce
<1>5. ASSUME NEW p \in Procs, Commit(p)
      PROVE  StoreInv'
  <2>1. /\ table' = table \cup ins[p] /\ ins'[p] = {}
        /\ (fresh'[p] = fresh[p] /\ batch'[p] = batch[p]) \/ fresh'[p] = {}
        /\ \A q \in Procs \ {p} : /\ pc'[q] = pc[q] /\ ins'[q] = ins[q]
                                   /\ batch'[q] = batch[q] /\ fresh'[q] = fresh[q]
    BY <1>1, <1>5 DEF Commit, Rest, TypeOK
  <2>2. StoredOnce'
    BY <2>1 DEF StoreInv, StoredOnce, Apart
  <2>3. Disjoint'
    BY <2>1 DEF StoreInv, Disjoint
  <2>4. \A q \in Procs : Apart(q)'
    BY <2>1 DEF StoreInv, Disjoint, Apart
  <2> QED
    BY <2>2, <2>3, <2>4 DEF StoreInv
<1>6. ASSUME NEW p \in Procs,
             \/ FoldEvents(p) \/ LoadSession(p) \/ WriteSession(p)
             \/ LinkResume(p) \/ Publish(p) \/ DropRows(p) \/ ListSessions(p)
      PROVE  StoreInv'
  <2>1. UNCHANGED <<table, batch, fresh, ins>>
    BY <1>6 DEF FoldEvents, LoadSession, WriteSession, LinkResume, Publish,
                DropRows, ListSessions
  <2>2. \A q \in Procs \ {p} : pc'[q] = pc[q]
    BY <1>1, <1>6 DEF FoldEvents, LoadSession, WriteSession, LinkResume, Publish,
                DropRows, ListSessions, TypeOK
  <2>3. \/ pc'[p] \in {"fold", "load", "write", "link", "commit"}
        \/ pc[p] = "publish" \/ pc[p] = "idle"
    BY <1>1, <1>6 DEF FoldEvents, LoadSession, WriteSession, LinkResume, Publish,
                DropRows, ListSessions, FoldOrCommit, TypeOK
  <2>4. pc'[p] \in Writing \ {"list"} \/ ins[p] = {}
    BY <2>3 DEF StoreInv, Apart, Writing
  <2> QED
    BY <2>1, <2>2, <2>4, ApartKept
<1>7. ASSUME NEW p \in Procs, Answer(p) \/ Fail(p)
      PROVE  StoreInv'
  BY <1>7, ApartAtRest DEF Answer, Fail
<1>8. CASE UNCHANGED vars
  BY <1>8, ApartKept DEF vars
<1> QED
  BY <1>2, <1>3, <1>4, <1>5, <1>6, <1>7, <1>8 DEF Next, Step

(* However many threads are sent the same event, and whichever of them     *)
(* fails, it is stored once: on SQLite and on PostgreSQL.                  *)
THEOREM EveryEventOnce == Spec => []StoredOnce
<1>1. Init => TypeInv /\ StoreInv
  <2>1. Init => StoreInv
    BY DEF Init, StoreInv, StoredOnce, Disjoint, Apart
  <2> QED
    BY <2>1, InitTyped
<1>2. TypeInv /\ StoreInv /\ [Next]_vars => (TypeInv /\ StoreInv)'
  BY TypeStep, StoreStep
<1>3. TypeInv /\ StoreInv => StoredOnce
  BY DEF StoreInv
<1> QED
  BY <1>1, <1>2, <1>3, PTL DEF Spec

-----------------------------------------------------------------------------
(* The projection is current, under SQLite's single writer.  The one       *)
(* transaction that may be under way sees the committed tables under its   *)
(* own writes; every session it does not still have to write has, in what  *)
(* it sees, the row its events say.                                        *)

Seen(p) == table \cup ins[p]

(* The sessions p still has to write.                                      *)
Pending(p) == {t.sid : t \in todo[p]}
                \cup (IF pc[p] \in {"load", "write"} THEN {turn[p].sid} ELSE {})

(* The row is the one the events say, or there is neither.                 *)
Agree(row, S) == IF S = {} THEN row = NoRow
                 ELSE row # NoRow /\ row.derived = Derived(S)

Bare(p) == ins[p] = {} /\ \A s \in Sessions : wrote[p][s] = Unwritten

Projecting(p) ==
  /\ IF pc[p] = "list"
     THEN ins[p] = {} /\ \A s \in Sessions : RowSeen(p, s) = NoRow
     ELSE /\ \A s \in Sessions \ Pending(p) : Agree(RowSeen(p, s), Of(s, Seen(p)))
          /\ \A s \in Pending(p) : Of(s, Seen(p)) # {}
  /\ pc[p] \in {"load", "write"} => turn[p].derived = Derived(Of(turn[p].sid, Seen(p)))
  /\ pc[p] = "write" => turn[p].row = RowSeen(p, turn[p].sid)
  /\ pc[p] = "commit" => todo[p] = {}

Worker(p) == IF pc[p] \in Writing THEN Projecting(p) ELSE Bare(p)

OneWriter == \A p, q \in Procs : pc[p] \in Writing /\ pc[q] \in Writing => p = q

ProjectionInv == ProjectionCurrent /\ OneWriter /\ \A p \in Procs : Worker(p)

(* A process is as it was when neither it nor the tables changed.          *)
LEMMA WorkerKept ==
  ASSUME NEW q \in Procs, Worker(q), UNCHANGED <<table, rows>>,
         pc'[q] = pc[q], ins'[q] = ins[q], wrote'[q] = wrote[q],
         todo'[q] = todo[q], turn'[q] = turn[q]
  PROVE  Worker(q)'
<1>1. \A s : RowSeen(q, s)' = RowSeen(q, s)
  BY DEF RowSeen
<1>2. Seen(q)' = Seen(q)
  BY DEF Seen
<1>3. Pending(q)' = Pending(q)
  BY DEF Pending
<1>4. \A s : Of(s, Seen(q))' = Of(s, Seen(q))
  BY <1>2 DEF Of
<1>5. \A s \in Sessions : Agree(RowSeen(q, s), Of(s, Seen(q)))'
                           = Agree(RowSeen(q, s), Of(s, Seen(q)))
  BY <1>1, <1>4 DEF Agree
<1>6. CASE pc[q] \in Writing
  <2>1. Projecting(q)
    BY <1>6 DEF Worker
  <2>2. Projecting(q)'
    BY <1>1, <1>3, <1>4, <1>5, <2>1 DEF Projecting
  <2> QED
    BY <1>6, <2>2 DEF Worker
<1>7. CASE pc[q] \notin Writing
  BY <1>7 DEF Worker, Bare
<1> QED
  BY <1>6, <1>7

(* A step of p that leaves the committed tables alone.                     *)
LEMMA PrivateStep ==
  ASSUME ProjectionInv, NEW p \in Procs, UNCHANGED <<table, rows>>,
         \A q \in Procs \ {p} : /\ pc'[q] = pc[q] /\ ins'[q] = ins[q]
                                /\ wrote'[q] = wrote[q]
                                /\ todo'[q] = todo[q] /\ turn'[q] = turn[q],
         Worker(p)',
         \/ pc'[p] \notin Writing
         \/ pc[p] \in Writing
         \/ \A q \in Procs \ {p} : pc[q] \notin Writing
  PROVE  ProjectionInv'
<1>1. ProjectionCurrent'
  BY DEF ProjectionInv, ProjectionCurrent, StoredOf, Of
<1>2. OneWriter'
  BY DEF ProjectionInv, OneWriter
<1>3. ASSUME NEW q \in Procs
      PROVE  Worker(q)'
  <2>1. CASE q = p
    BY <2>1
  <2>2. CASE q # p
    BY <2>2, WorkerKept DEF ProjectionInv
  <2> QED
    BY <2>1, <2>2
<1> QED
  BY <1>1, <1>2, <1>3 DEF ProjectionInv

LEMMA ProjectionStep ==
  ASSUME Serialised, ProjectionInv, TypeInv, [Next]_vars
  PROVE  ProjectionInv'
<1>1. TypeOK /\ \A p \in Procs : InHand(p)
  BY DEF TypeInv
<1>2. ASSUME NEW p \in Workers, NEW b \in Batches, Receive(p, b)
      PROVE  ProjectionInv'
  <2>1. p \in Procs
    BY DEF Procs
  <2>2. /\ pc[p] = "idle" /\ pc'[p] = "lookup"
        /\ UNCHANGED <<table, rows, ins, wrote, todo, turn>>
        /\ \A q \in Procs \ {p} : pc'[q] = pc[q]
    BY <1>1, <1>2, <2>1 DEF Receive, TypeOK
  <2>3. Worker(p)' /\ pc'[p] \notin Writing
    BY <2>1, <2>2 DEF ProjectionInv, Worker, Bare, Writing
  <2> QED
    BY <2>1, <2>2, <2>3, PrivateStep
<1>3. ASSUME NEW p \in Procs, Lookup(p) \/ Publish(p)
      PROVE  ProjectionInv'
  <2>1. /\ pc[p] \in {"lookup", "publish"} /\ pc'[p] \in {"insert", "publish", "answer"}
        /\ UNCHANGED <<table, rows, ins, wrote, todo, turn>>
        /\ \A q \in Procs \ {p} : pc'[q] = pc[q]
    BY <1>1, <1>3 DEF Lookup, Publish, TypeOK
  <2>2. Worker(p)' /\ pc'[p] \notin Writing
    BY <2>1 DEF ProjectionInv, Worker, Bare, Writing
  <2> QED
    BY <2>1, <2>2, PrivateStep
<1>4. ASSUME NEW p \in Procs, Answer(p) \/ Fail(p)
      PROVE  ProjectionInv'
  <2>1. /\ pc'[p] = "idle" /\ ins'[p] = {}
        /\ \A s \in Sessions : wrote'[p][s] = Unwritten
        /\ UNCHANGED <<table, rows>>
        /\ \A q \in Procs \ {p} : /\ pc'[q] = pc[q] /\ ins'[q] = ins[q]
                                   /\ wrote'[q] = wrote[q]
                                   /\ todo'[q] = todo[q] /\ turn'[q] = turn[q]
    BY <1>1, <1>4 DEF Answer, Fail, Rest, TypeOK
  <2>2. Worker(p)' /\ pc'[p] \notin Writing
    BY <2>1 DEF Worker, Bare, Writing
  <2> QED
    BY <2>1, <2>2, PrivateStep
<1>5. ASSUME NEW p \in Procs, Insert(p)
      PROVE  ProjectionInv'
  <2> DEFINE new == {i \in fresh[p] : \A r \in table : r.ev # batch[p][i].ev}
  <2>1. /\ pc[p] = "insert" /\ pc'[p] = "fold"
        /\ UNCHANGED <<table, rows, wrote, turn>>
        /\ ins'[p] = {[id |-> nextId + i, ev |-> batch[p][i].ev,
                       token |-> batch[p][i].token] : i \in new}
        /\ todo'[p] = {[sid |-> batch[p][i].ev.sid, token |-> batch[p][i].token]
                         : i \in fresh[p]}
        /\ \A q \in Procs \ {p} : /\ pc'[q] = pc[q] /\ ins'[q] = ins[q]
                                   /\ todo'[q] = todo[q]
                                   /\ pc[q] \notin Writing
    BY <1>1, <1>5 DEF Insert, WriterFree, TypeOK
  <2>2. Bare(p)
    BY <2>1 DEF ProjectionInv, Worker, Writing
  <2>3. \A s \in Sessions : RowSeen(p, s)' = rows[s]
    BY <2>1, <2>2 DEF Bare, RowSeen
  <2>4. \A s : s \in Pending(p)' <=> \E i \in fresh[p] : s = batch[p][i].ev.sid
    <3>1. \A s : s \in Pending(p)' <=> \E t \in todo'[p] : s = t.sid
      BY <2>1 DEF Pending
    <3>2. \A t \in todo'[p] : \E i \in fresh[p] : t.sid = batch[p][i].ev.sid
      BY <2>1
    <3>3. ASSUME NEW i \in fresh[p]
          PROVE  \E t \in todo'[p] : t.sid = batch[p][i].ev.sid
      <4>1. [sid |-> batch[p][i].ev.sid, token |-> batch[p][i].token] \in todo'[p]
        BY <2>1
      <4> QED
        BY <4>1
    <3> QED
      BY <3>1, <3>2, <3>3
  <2>5. ASSUME NEW s \in Sessions, s \notin Pending(p)'
        PROVE  Agree(RowSeen(p, s), Of(s, Seen(p)))'
    <3>1. \A r \in ins'[p] : r.ev.sid # s
      BY <2>1, <2>4, <2>5
    <3>2. Of(s, Seen(p))' = StoredOf(s)
      BY <2>1, <3>1 DEF Of, Seen, StoredOf
    <3> QED
      BY <2>3, <3>2 DEF ProjectionInv, ProjectionCurrent, Agree
  <2>6. ASSUME NEW s \in Pending(p)'
        PROVE  Of(s, Seen(p))' # {}
    <3>1. PICK i \in fresh[p] : s = batch[p][i].ev.sid
      BY <2>4, <2>6
    <3>2. CASE i \in new
      <4>1. [id |-> nextId + i, ev |-> batch[p][i].ev,
             token |-> batch[p][i].token] \in Seen(p)'
        BY <2>1, <3>2 DEF Seen
      <4> QED
        BY <3>1, <4>1 DEF Of
    <3>3. CASE i \notin new
      <4>1. \E r \in Seen(p)' : r.ev = batch[p][i].ev
        BY <2>1, <3>3 DEF Seen
      <4> QED
        BY <3>1, <4>1 DEF Of
    <3> QED
      BY <3>2, <3>3
  <2>7. Worker(p)'
    BY <2>1, <2>5, <2>6 DEF Worker, Projecting, Writing
  <2> QED
    BY <2>1, <2>7, PrivateStep
<1>6. ASSUME NEW p \in Procs, FoldEvents(p)
      PROVE  ProjectionInv'
  <2>1. PICK t \in todo[p] :
           /\ turn'[p].sid = t.sid
           /\ turn'[p].derived = Derived(Of(t.sid, Seen(p)))
           /\ todo'[p] = todo[p] \ {t}
           /\ \A q \in Procs \ {p} : todo'[q] = todo[q] /\ turn'[q] = turn[q]
    BY <1>1, <1>6 DEF FoldEvents, TypeOK, Seen
  <2>2. /\ pc[p] = "fold" /\ pc'[p] = "load"
        /\ UNCHANGED <<table, rows, ins, wrote>>
        /\ \A q \in Procs \ {p} : pc'[q] = pc[q]
    BY <1>1, <1>6 DEF FoldEvents, TypeOK
  <2>3. Projecting(p)
    BY <2>2 DEF ProjectionInv, Worker, Writing
  <2>4. Pending(p)' = Pending(p)
    BY <2>1, <2>2 DEF Pending
  <2>5. \A s : /\ RowSeen(p, s)' = RowSeen(p, s)
               /\ Of(s, Seen(p))' = Of(s, Seen(p))
    BY <2>2 DEF RowSeen, Seen, Of
  <2>6. \A s : Agree(RowSeen(p, s), Of(s, Seen(p)))'
               = Agree(RowSeen(p, s), Of(s, Seen(p)))
    BY <2>5 DEF Agree
  <2>7. turn'[p].derived = Derived(Of(turn'[p].sid, Seen(p)'))
    BY <2>1, <2>2 DEF Seen
  <2>8. Worker(p)'
    BY <2>2, <2>3, <2>4, <2>5, <2>6, <2>7 DEF Worker, Projecting, Writing
  <2> QED
    BY <2>1, <2>2, <2>8, PrivateStep DEF Writing
<1>7. ASSUME NEW p \in Procs, LoadSession(p)
      PROVE  ProjectionInv'
  <2>1. /\ pc[p] = "load" /\ pc'[p] = "write"
        /\ UNCHANGED <<table, rows, ins, wrote, todo>>
        /\ \A q \in Procs \ {p} : pc'[q] = pc[q]
    BY <1>1, <1>7 DEF LoadSession, TypeOK
  <2>2. /\ turn'[p].sid = turn[p].sid /\ turn'[p].derived = turn[p].derived
        /\ turn'[p].row = RowSeen(p, turn[p].sid)
        /\ \A q \in Procs \ {p} : turn'[q] = turn[q]
    <3> DEFINE T == [sid : Sessions \cup {NoSession}, token : TokenId,
                     derived : Columns, row : Row \cup {NoRow}]
               loaded == [turn[p] EXCEPT !.row = RowSeen(p, turn[p].sid)]
    <3>1. turn \in [Procs -> T] /\ turn[p] \in T
      BY <1>1 DEF TypeOK
    <3>2. /\ loaded.sid = turn[p].sid /\ loaded.derived = turn[p].derived
          /\ loaded.row = RowSeen(p, turn[p].sid)
      BY <3>1
    <3>3. turn' = [turn EXCEPT ![p] = loaded]
      BY <1>7 DEF LoadSession
    <3> HIDE DEF T, loaded
    <3> QED
      BY <3>1, <3>2, <3>3
  <2>3. Projecting(p)
    BY <2>1 DEF ProjectionInv, Worker, Writing
  <2>4. Pending(p)' = Pending(p)
    BY <2>1, <2>2 DEF Pending
  <2>5. \A s : /\ RowSeen(p, s)' = RowSeen(p, s)
               /\ Of(s, Seen(p))' = Of(s, Seen(p))
    BY <2>1 DEF RowSeen, Seen, Of
  <2>6. \A s : Agree(RowSeen(p, s), Of(s, Seen(p)))'
               = Agree(RowSeen(p, s), Of(s, Seen(p)))
    BY <2>5 DEF Agree
  <2>7. /\ turn'[p].derived = Derived(Of(turn'[p].sid, Seen(p)'))
        /\ turn'[p].row = RowSeen(p, turn[p].sid)'
    <3>1. turn[p].derived = Derived(Of(turn[p].sid, Seen(p)))
      BY <2>1, <2>3 DEF Projecting
    <3>2. Seen(p)' = Seen(p)
      BY <2>1 DEF Seen
    <3> QED
      BY <2>1, <2>2, <3>1, <3>2 DEF RowSeen
  <2>8. Worker(p)'
    BY <2>1, <2>3, <2>4, <2>5, <2>6, <2>7 DEF Worker, Projecting, Writing
  <2> QED
    BY <2>1, <2>2, <2>8, PrivateStep DEF Writing
<1>8. ASSUME NEW p \in Procs, WriteSession(p)
      PROVE  ProjectionInv'
  <2>1. /\ pc[p] = "write" /\ pc'[p] = "link"
        /\ UNCHANGED <<table, rows, ins, todo, turn>>
        /\ \A q \in Procs \ {p} : pc'[q] = pc[q]
    BY <1>1, <1>8 DEF WriteSession, TypeOK
  <2>0. PICK s \in Sessions : s = turn[p].sid
    BY <1>1, <2>1 DEF InHand
  <2>2. Projecting(p) /\ turn[p].row = RowSeen(p, s)
    BY <2>1, <2>0 DEF ProjectionInv, Worker, Projecting, Writing
  <2>3. wrote' = [wrote EXCEPT ![p] = [wrote[p] EXCEPT ![s] = NewRow(turn[p])]]
    BY <1>8, <2>2, <2>0 DEF WriteSession
  <2>4. /\ wrote'[p][s] = NewRow(turn[p])
        /\ \A r \in Sessions \ {s} : wrote'[p][r] = wrote[p][r]
        /\ \A q \in Procs \ {p} : wrote'[q] = wrote[q]
    <3>1. wrote \in [Procs -> [Sessions -> Row \cup {NoRow, Unwritten}]]
      BY <1>1 DEF TypeOK
    <3> QED
      BY <2>3, <3>1
  <2>5. /\ NewRow(turn[p]) \in Row
        /\ NewRow(turn[p]).derived = turn[p].derived
    BY <1>1 DEF TypeOK, NewRow, Row
  <2>6. /\ RowSeen(p, s)' = NewRow(turn[p])
        /\ \A r \in Sessions \ {s} : RowSeen(p, r)' = RowSeen(p, r)
    BY <2>1, <2>4, <2>5, IngestAssumption DEF RowSeen
  <2>7. /\ Pending(p) = Pending(p)' \cup {s}
        /\ \A r : Of(r, Seen(p))' = Of(r, Seen(p))
    BY <2>1, <2>0 DEF Pending, Seen, Of
  <2>8. ASSUME NEW r \in Sessions \ Pending(p)'
        PROVE  Agree(RowSeen(p, r), Of(r, Seen(p)))'
    <3>1. CASE r = s
      <4>1. Of(s, Seen(p)) # {} /\ turn[p].derived = Derived(Of(s, Seen(p)))
        BY <2>1, <2>2, <2>7, <2>0 DEF Projecting
      <4>2. RowSeen(p, s)' # NoRow
        BY <2>5, <2>6, IngestAssumption
      <4>3. RowSeen(p, s)'.derived = Derived(Of(s, Seen(p))')
        BY <2>5, <2>6, <2>7, <4>1
      <4> QED
        BY <2>7, <3>1, <4>1, <4>2, <4>3 DEF Agree
    <3>2. CASE r # s
      <4>1. Agree(RowSeen(p, r), Of(r, Seen(p)))
        BY <2>1, <2>2, <2>7, <3>2 DEF Projecting
      <4> QED
        BY <2>6, <2>7, <3>2, <4>1 DEF Agree
    <3> QED
      BY <3>1, <3>2
  <2>9. \A r \in Pending(p)' : Of(r, Seen(p))' # {}
    BY <2>1, <2>2, <2>7 DEF Projecting
  <2>10. Worker(p)'
    BY <2>1, <2>8, <2>9 DEF Worker, Projecting, Writing
  <2> QED
    BY <2>1, <2>4, <2>10, PrivateStep DEF Writing
<1>9. ASSUME NEW p \in Procs, LinkResume(p)
      PROVE  ProjectionInv'
  <2> DEFINE s == turn[p].sid
             from == turn[p].derived.resumedFrom
             linked == [RowSeen(p, from) EXCEPT !.resumedBy = s]
  <2>1. /\ pc[p] = "link" /\ pc'[p] = FoldOrCommit(todo[p])
        /\ pc'[p] \in {"fold", "commit"}
        /\ UNCHANGED <<table, rows, ins, todo>>
        /\ \A q \in Procs \ {p} : pc'[q] = pc[q] /\ turn'[q] = turn[q]
    BY <1>1, <1>9 DEF LinkResume, FoldOrCommit, TypeOK
  <2>2. Projecting(p) /\ s \in Sessions
    BY <1>1, <2>1 DEF ProjectionInv, Worker, Writing, InHand
  <2>3. \/ wrote' = wrote
        \/ /\ RowSeen(p, from) # NoRow
           /\ wrote' = [wrote EXCEPT ![p] = [wrote[p] EXCEPT ![from] = linked]]
    BY <1>9 DEF LinkResume
  <2>4. from \in Sessions /\ RowSeen(p, from) # NoRow =>
          linked \in Row /\ linked.derived = RowSeen(p, from).derived
    BY <1>1, <2>2, RowSeenTyped DEF Row
  <2>5. /\ \A r \in Sessions : \/ wrote'[p][r] = wrote[p][r]
                               \/ /\ r = from /\ wrote'[p][r] = linked
                                  /\ RowSeen(p, r) # NoRow
        /\ \A q \in Procs \ {p} : wrote'[q] = wrote[q]
    <3>1. wrote \in [Procs -> [Sessions -> Row \cup {NoRow, Unwritten}]]
      BY <1>1 DEF TypeOK
    <3> HIDE DEF s, from, linked
    <3> QED
      BY <2>3, <3>1
  <2>6. \A r \in Sessions : \/ RowSeen(p, r)' = RowSeen(p, r)
                           \/ /\ RowSeen(p, r) # NoRow /\ RowSeen(p, r)' # NoRow
                              /\ RowSeen(p, r)'.derived = RowSeen(p, r).derived
    <3> SUFFICES ASSUME NEW r \in Sessions
                 PROVE  \/ RowSeen(p, r)' = RowSeen(p, r)
                        \/ /\ RowSeen(p, r) # NoRow /\ RowSeen(p, r)' # NoRow
                           /\ RowSeen(p, r)'.derived = RowSeen(p, r).derived
      OBVIOUS
    <3>1. CASE wrote'[p][r] = wrote[p][r]
      BY <2>1, <3>1 DEF RowSeen
    <3>2. CASE r = from /\ wrote'[p][r] = linked /\ RowSeen(p, r) # NoRow
      <4>1. linked \in Row /\ linked.derived = RowSeen(p, r).derived
        BY <2>4, <3>2
      <4>2. linked # NoRow /\ linked # Unwritten
        BY <4>1, IngestAssumption
      <4>3. RowSeen(p, r)' = linked
        <5> HIDE DEF linked
        <5> QED
          BY <3>2, <4>2 DEF RowSeen
      <4> HIDE DEF linked
      <4> QED
        BY <3>2, <4>1, <4>2, <4>3
    <3> QED
      BY <2>5, <3>1, <3>2
  <2>7. /\ Pending(p)' = Pending(p)
        /\ \A r : Of(r, Seen(p))' = Of(r, Seen(p))
    BY <2>1 DEF Pending, Seen, Of
  <2>8. ASSUME NEW r \in Sessions \ Pending(p)'
        PROVE  Agree(RowSeen(p, r), Of(r, Seen(p)))'
    <3>1. Agree(RowSeen(p, r), Of(r, Seen(p)))
      BY <2>1, <2>2, <2>7 DEF Projecting
    <3> QED
      BY <2>6, <2>7, <3>1 DEF Agree
  <2>9. \A r \in Pending(p)' : Of(r, Seen(p))' # {}
    BY <2>1, <2>2, <2>7 DEF Projecting
  <2>10. Worker(p)'
    BY <2>1, <2>8, <2>9 DEF Worker, Projecting, FoldOrCommit, Writing
  <2> QED
    BY <2>1, <2>5, <2>10, PrivateStep DEF Writing
<1>10. ASSUME NEW p \in Procs, Commit(p)
       PROVE  ProjectionInv'
  <2>1. /\ pc[p] = "commit" /\ pc'[p] \notin Writing /\ ins'[p] = {}
        /\ \A s \in Sessions : wrote'[p][s] = Unwritten
        /\ table' = Seen(p)
        /\ \A s \in Sessions : rows'[s] = RowSeen(p, s)
        /\ \A q \in Procs \ {p} : /\ pc'[q] = pc[q] /\ ins'[q] = ins[q]
                                   /\ wrote'[q] = wrote[q]
    BY <1>1, <1>10 DEF Commit, Rest, Seen, TypeOK, Writing
  <2>2. Projecting(p) /\ Pending(p) = {}
    BY <2>1 DEF ProjectionInv, Worker, Projecting, Pending, Writing
  <2>3. ASSUME NEW s \in Sessions
        PROVE  Agree(rows[s], StoredOf(s))'
    <3>1. Agree(RowSeen(p, s), Of(s, Seen(p)))
      BY <2>1, <2>2 DEF Projecting
    <3>2. StoredOf(s)' = Of(s, Seen(p))
      BY <2>1 DEF StoredOf, Of
    <3> QED
      BY <2>1, <3>1, <3>2 DEF Agree
  <2>4. ProjectionCurrent'
    BY <2>3 DEF ProjectionCurrent, Agree
  <2>5. \A q \in Procs \ {p} : pc[q] \notin Writing /\ Bare(q)
    BY <2>1 DEF ProjectionInv, OneWriter, Worker, Writing
  <2>6. \A q \in Procs : pc'[q] \notin Writing /\ Bare(q)'
    BY <2>1, <2>5 DEF Bare
  <2> QED
    BY <2>4, <2>6 DEF ProjectionInv, OneWriter, Worker
<1>11. ASSUME NEW p \in Procs, DropRows(p)
       PROVE  ProjectionInv'
  <2>1. /\ pc[p] = "idle" /\ pc'[p] = "list"
        /\ UNCHANGED <<table, rows, ins, todo, turn>>
        /\ \A s \in Sessions : wrote'[p][s] = IF rows[s] = NoRow THEN Unwritten
                                                                 ELSE NoRow
        /\ \A q \in Procs \ {p} : /\ pc'[q] = pc[q] /\ wrote'[q] = wrote[q]
                                   /\ pc[q] \notin Writing
    BY <1>1, <1>11 DEF DropRows, WriterFree, TypeOK
  <2>2. \A s \in Sessions : RowSeen(p, s)' = NoRow
    BY <2>1, IngestAssumption DEF RowSeen
  <2>3. ins'[p] = {}
    BY <2>1 DEF ProjectionInv, Worker, Bare, Writing
  <2>4. Worker(p)'
    BY <2>1, <2>2, <2>3 DEF Worker, Projecting, Writing
  <2> QED
    BY <2>1, <2>4, PrivateStep
<1>12. ASSUME NEW p \in Procs, ListSessions(p)
       PROVE  ProjectionInv'
  <2>1. /\ pc[p] = "list" /\ pc'[p] = FoldOrCommit(todo'[p])
        /\ pc'[p] \in {"fold", "commit"}
        /\ todo'[p] = {[sid |-> r.ev.sid, token |-> NoToken] : r \in table}
        /\ UNCHANGED <<table, rows, ins, wrote, turn>>
        /\ \A q \in Procs \ {p} : pc'[q] = pc[q] /\ todo'[q] = todo[q]
    BY <1>1, <1>12 DEF ListSessions, FoldOrCommit, TypeOK
  <2>2. ins[p] = {} /\ \A s \in Sessions : RowSeen(p, s) = NoRow
    BY <2>1 DEF ProjectionInv, Worker, Projecting, Writing
  <2>3. \A s \in Sessions : RowSeen(p, s)' = NoRow
    BY <2>1, <2>2 DEF RowSeen
  <2>4. /\ \A s : s \in Pending(p)' <=> \E r \in table : s = r.ev.sid
        /\ \A s : Of(s, Seen(p))' = StoredOf(s)
    <3>1. \A s : s \in Pending(p)' <=> \E t \in todo'[p] : s = t.sid
      BY <2>1 DEF Pending
    <3>2. Seen(p)' = table
      BY <2>1, <2>2 DEF Seen
    <3>3. \A t \in todo'[p] : \E r \in table : t.sid = r.ev.sid
      BY <2>1
    <3>4. ASSUME NEW r \in table
          PROVE  \E t \in todo'[p] : t.sid = r.ev.sid
      <4>1. [sid |-> r.ev.sid, token |-> NoToken] \in todo'[p]
        BY <2>1
      <4> QED
        BY <4>1
    <3>5. \A s : s \in Pending(p)' <=> \E r \in table : s = r.ev.sid
      BY <3>1, <3>3, <3>4
    <3> QED
      BY <3>2, <3>5 DEF StoredOf, Of
  <2>5. ASSUME NEW s \in Sessions \ Pending(p)'
        PROVE  Agree(RowSeen(p, s), Of(s, Seen(p)))'
    <3>1. StoredOf(s) = {}
      BY <2>4, <2>5 DEF StoredOf, Of
    <3> QED
      BY <2>3, <2>4, <3>1 DEF Agree
  <2>6. \A s \in Pending(p)' : Of(s, Seen(p))' # {}
    <3> SUFFICES ASSUME NEW s \in Pending(p)'
                 PROVE  StoredOf(s) # {}
      BY <2>4
    <3>1. PICK r \in table : s = r.ev.sid
      BY <2>4
    <3>2. r.ev \in StoredOf(s)
      BY <3>1 DEF StoredOf, Of
    <3> QED
      BY <3>2
  <2>7. Worker(p)'
    BY <2>1, <2>5, <2>6 DEF Worker, Projecting, FoldOrCommit, Writing
  <2> QED
    BY <2>1, <2>7, PrivateStep DEF Writing
<1>13. CASE UNCHANGED vars
  <2>1. UNCHANGED <<table, rows, pc, ins, wrote, todo, turn>>
    BY <1>13 DEF vars
  <2>2. \A q \in Procs : Worker(q)'
    BY <2>1, WorkerKept DEF ProjectionInv
  <2> QED
    BY <2>1, <2>2 DEF ProjectionInv, ProjectionCurrent, StoredOf, Of, OneWriter
<1> QED
  BY <1>2, <1>3, <1>4, <1>5, <1>6, <1>7, <1>8, <1>9, <1>10, <1>11, <1>12, <1>13
     DEF Next, Step

LEMMA ProjectionInit == Init => ProjectionInv
<1> SUFFICES ASSUME Init
             PROVE  ProjectionInv
  OBVIOUS
<1>1. \A s : StoredOf(s) = {}
  BY DEF Init, StoredOf, Of
<1> QED
  BY <1>1 DEF Init, ProjectionInv, ProjectionCurrent, OneWriter, Worker, Bare, Writing

(* On SQLite a sessions row that can be read says what the stored events   *)
(* of its session say, whatever was lost, resent, delayed or reordered,    *)
(* whichever threads stored it and whichever of them failed.               *)
THEOREM ProjectionIsCurrent ==
  ASSUME Serialised
  PROVE  Spec => []ProjectionCurrent
<1>1. Init => TypeInv /\ ProjectionInv
  BY InitTyped, ProjectionInit
<1>2. TypeInv /\ ProjectionInv /\ [Next]_vars => (TypeInv /\ ProjectionInv)'
  BY TypeStep, ProjectionStep
<1>3. TypeInv /\ ProjectionInv => ProjectionCurrent
  BY DEF ProjectionInv
<1> QED
  BY <1>1, <1>2, <1>3, PTL DEF Spec

-----------------------------------------------------------------------------
(* What a current projection says is true of the events that were sent.    *)

LEMMA ExpectedIsLast ==
  ASSUME NEW S \in SUBSET Events, S # {}
  PROVE  Expected(S) \in Nat
<1> DEFINE N == Seqs(S) \cup Seqs(OfKind(S, TerminalKinds))
<1>1. PICK last \in S : \A e \in S : e.seq <= last.seq
  BY EventsAssumption
<1>2. \A e \in S : e.seq \in Nat
  BY EventsAssumption DEF EventRecord
<1>3. N = Seqs(S)
  BY DEF Seqs, OfKind
<1>4. last.seq \in N /\ \A n \in N : n \in Nat /\ last.seq >= n
  BY <1>1, <1>2, <1>3 DEF Seqs
<1>5. Max(N) \in N
  BY <1>4 DEF Max
<1> QED
  BY <1>4, <1>5 DEF Expected

LEMMA CurrentMeansAll == TypeOK /\ ProjectionCurrent => CompleteMeansAll
<1> SUFFICES ASSUME TypeOK, ProjectionCurrent,
                    NEW s \in Sessions, rows[s] # NoRow, rows[s].derived.complete
             PROVE  /\ StoredOf(s) \cap OfKind(Events, TerminalKinds) # {}
                    /\ {e \in Events : e.sid = s /\ e.seq <= rows[s].derived.expected}
                         \subseteq StoredOf(s)
  BY DEF CompleteMeansAll
<1> DEFINE S == StoredOf(s)
<1>1. S \in SUBSET Events /\ \A e \in S : e.sid = s
  BY DEF TypeOK, EventRow, StoredOf, Of
<1>2. S # {} /\ rows[s].derived = Derived(S)
  BY DEF ProjectionCurrent
<1>3. /\ OfKind(S, TerminalKinds) # {} /\ Missing(S) = {}
      /\ rows[s].derived.expected = Expected(S)
  <2> HIDE DEF S
  <2>1. Derived(S).complete /\ Derived(S).expected = rows[s].derived.expected
    BY <1>2
  <2>2. Derived(S).complete = Complete(S) /\ Derived(S).expected = Expected(S)
    BY DEF Derived
  <2> QED
    BY <2>1, <2>2 DEF Complete
<1>4. StoredOf(s) \cap OfKind(Events, TerminalKinds) # {}
  BY <1>1, <1>3 DEF OfKind
<1> HIDE DEF S
<1>5. ASSUME NEW e \in Events, e.sid = s, e.seq <= Expected(S)
      PROVE  e \in S
  <2>1. Expected(S) \in Nat /\ e.seq \in Nat \ {0}
    BY <1>1, <1>2, ExpectedIsLast, EventsAssumption DEF EventRecord
  <2>2. e.seq \in Seqs(S)
    BY <1>3, <1>5, <2>1 DEF Missing
  <2>3. PICK f \in S : f.seq = e.seq
    BY <2>2 DEF Seqs
  <2> QED
    BY <1>1, <1>5, <2>3, EventsAssumption
<1> QED
  BY <1>3, <1>4, <1>5 DEF S

(* On SQLite a session whose row says it is complete has ended, and has    *)
(* every event it sent up to its last in the store.                        *)
THEOREM CompleteIsComplete ==
  ASSUME Serialised
  PROVE  Spec => []CompleteMeansAll
<1>1. TypeOK /\ ProjectionCurrent => CompleteMeansAll
  BY CurrentMeansAll
<1> QED
  BY <1>1, TypeCorrect, ProjectionIsCurrent, PTL

-----------------------------------------------------------------------------
(* A delta follows its commit, and the rows it is about are there for good:*)
(* a session that has stored events has a row, whoever rebuilds.           *)

Stored(p) == /\ \A s \in projected[p] : Of(s, Seen(p)) # {}
             /\ pc[p] = "link" => Of(turn[p].sid, Seen(p)) # {}

AnnouncedInv == /\ \A s \in announced : StoredOf(s) # {}
                /\ \A p \in Procs : Stored(p)

(* Nothing is forgotten of a process but with all of its work.             *)
LEMMA StoredKept ==
  ASSUME AnnouncedInv, table \subseteq table', UNCHANGED announced,
         \A q \in Procs :
           \/ projected'[q] = {} /\ pc'[q] # "link"
           \/ /\ Seen(q) \subseteq Seen(q)' /\ projected'[q] = projected[q]
              /\ pc'[q] = "link" => Of(turn[q].sid, Seen(q)) # {} /\ turn'[q] = turn[q]
  PROVE  AnnouncedInv'
<1>1. \A s, E, F : E \subseteq F /\ Of(s, E) # {} => Of(s, F) # {}
  BY DEF Of
<1>2. \A s \in announced' : StoredOf(s)' # {}
  BY <1>1 DEF AnnouncedInv, StoredOf
<1>3. ASSUME NEW q \in Procs
      PROVE  Stored(q)'
  BY <1>1 DEF AnnouncedInv, Stored
<1> QED
  BY <1>2, <1>3 DEF AnnouncedInv

LEMMA AnnouncedStep ==
  ASSUME AnnouncedInv, ProjectionInv, TypeInv, [Next]_vars
  PROVE  AnnouncedInv'
<1>1. TypeOK
  BY DEF TypeInv
<1>2. ASSUME NEW p \in Workers, NEW b \in Batches, Receive(p, b)
      PROVE  AnnouncedInv'
  <2>1. /\ UNCHANGED <<table, announced, projected, ins, turn>>
        /\ \A q \in Procs : pc'[q] = "link" => pc[q] = "link"
    BY <1>1, <1>2 DEF Receive, TypeOK
  <2> QED
    BY <2>1, StoredKept DEF AnnouncedInv, Stored, Seen
<1>3. ASSUME NEW p \in Procs,
             \/ Lookup(p) \/ LoadSession(p) \/ FoldEvents(p)
             \/ DropRows(p) \/ ListSessions(p)
      PROVE  AnnouncedInv'
  <2>1. /\ UNCHANGED <<table, announced, projected, ins>>
        /\ pc'[p] # "link"
        /\ \A q \in Procs \ {p} : pc'[q] = pc[q] /\ turn'[q] = turn[q]
    BY <1>1, <1>3 DEF Lookup, LoadSession, FoldEvents, DropRows, ListSessions,
                      FoldOrCommit, TypeOK
  <2> QED
    BY <2>1, StoredKept DEF AnnouncedInv, Stored, Seen
<1>4. ASSUME NEW p \in Procs, Insert(p)
      PROVE  AnnouncedInv'
  <2>1. /\ UNCHANGED <<table, announced, projected, turn>>
        /\ pc[p] \notin Writing /\ pc'[p] # "link"
        /\ \A q \in Procs \ {p} : pc'[q] = pc[q] /\ ins'[q] = ins[q]
    BY <1>1, <1>4 DEF Insert, TypeOK, Writing
  <2>2. ins[p] = {}
    BY <2>1 DEF ProjectionInv, Worker, Bare
  <2> QED
    BY <2>1, <2>2, StoredKept DEF AnnouncedInv, Stored, Seen
<1>5. ASSUME NEW p \in Procs, WriteSession(p)
      PROVE  AnnouncedInv'
  <2>1. /\ UNCHANGED <<table, announced, projected, ins, turn>>
        /\ pc[p] = "write"
        /\ \A q \in Procs \ {p} : pc'[q] = pc[q]
    BY <1>1, <1>5 DEF WriteSession, TypeOK
  <2>2. turn[p].sid \in Pending(p) /\ Projecting(p)
    BY <2>1 DEF Pending, ProjectionInv, Worker, Writing
  <2>3. Of(turn[p].sid, Seen(p)) # {}
    BY <2>1, <2>2 DEF Projecting
  <2> QED
    BY <2>1, <2>3, StoredKept DEF AnnouncedInv, Stored, Seen
<1>6. ASSUME NEW p \in Procs, LinkResume(p)
      PROVE  AnnouncedInv'
  <2>1. /\ UNCHANGED <<table, announced, ins>>
        /\ pc[p] = "link" /\ pc'[p] # "link"
        /\ projected'[p] = projected[p] \cup {turn[p].sid}
        /\ \A q \in Procs \ {p} : /\ pc'[q] = pc[q] /\ turn'[q] = turn[q]
                                   /\ projected'[q] = projected[q]
    BY <1>1, <1>6 DEF LinkResume, FoldOrCommit, TypeOK
  <2>2. \A q \in Procs : Seen(q)' = Seen(q)
    BY <2>1 DEF Seen
  <2>3. \A q \in Procs : Stored(q)'
    BY <2>1, <2>2 DEF AnnouncedInv, Stored
  <2>4. \A s \in announced' : StoredOf(s)' # {}
    BY <2>1 DEF AnnouncedInv, StoredOf
  <2> QED
    BY <2>3, <2>4 DEF AnnouncedInv
<1>7. ASSUME NEW p \in Procs, Commit(p)
      PROVE  AnnouncedInv'
  <2>1. /\ table' = table \cup ins[p] /\ announced' = announced
        /\ pc'[p] # "link"
        /\ projected'[p] = projected[p] \/ projected'[p] = {}
        /\ \A q \in Procs \ {p} : /\ pc'[q] = pc[q] /\ turn'[q] = turn[q]
                                   /\ projected'[q] = projected[q]
                                   /\ ins'[q] = ins[q]
    BY <1>1, <1>7 DEF Commit, Rest, TypeOK
  <2>2. \A q \in Procs : Seen(q) \subseteq Seen(q)'
    BY <2>1 DEF Seen
  <2> QED
    BY <2>1, <2>2, StoredKept DEF AnnouncedInv, Stored
<1>8. ASSUME NEW p \in Procs, Publish(p)
      PROVE  AnnouncedInv'
  <2>1. /\ UNCHANGED <<table, projected, ins, turn>>
        /\ announced' = announced \cup projected[p]
        /\ pc[p] \notin Writing /\ pc'[p] # "link"
        /\ \A q \in Procs \ {p} : pc'[q] = pc[q]
    BY <1>1, <1>8 DEF Publish, TypeOK, Writing
  <2>2. Seen(p) = table
    BY <2>1 DEF ProjectionInv, Worker, Bare, Seen
  <2>3. \A s \in announced' : StoredOf(s)' # {}
    BY <2>1, <2>2 DEF AnnouncedInv, Stored, StoredOf
  <2>4. \A q \in Procs : Stored(q)'
    BY <2>1 DEF AnnouncedInv, Stored, Seen
  <2> QED
    BY <2>3, <2>4 DEF AnnouncedInv
<1>9. ASSUME NEW p \in Procs, Answer(p) \/ Fail(p)
      PROVE  AnnouncedInv'
  <2>1. /\ UNCHANGED <<table, announced>>
        /\ pc'[p] # "link" /\ projected'[p] = {}
        /\ \A q \in Procs \ {p} : /\ pc'[q] = pc[q] /\ turn'[q] = turn[q]
                                   /\ projected'[q] = projected[q]
                                   /\ ins'[q] = ins[q]
    BY <1>1, <1>9 DEF Answer, Fail, Rest, TypeOK
  <2> QED
    BY <2>1, StoredKept DEF AnnouncedInv, Stored, Seen
<1>10. CASE UNCHANGED vars
  BY <1>10, StoredKept DEF vars, AnnouncedInv, Stored, Seen
<1> QED
  BY <1>2, <1>3, <1>4, <1>5, <1>6, <1>7, <1>8, <1>9, <1>10 DEF Next, Step

(* On SQLite a stream never hears about a session the database does not    *)
(* hold, and no rebuild takes away the row it heard of.                    *)
THEOREM AnnouncedAreThere ==
  ASSUME Serialised
  PROVE  Spec => []AnnouncedAreStored
<1>1. Init => TypeInv /\ ProjectionInv /\ AnnouncedInv
  <2>1. Init => AnnouncedInv
    BY DEF Init, AnnouncedInv, Stored
  <2> QED
    BY <2>1, InitTyped, ProjectionInit
<1>2. TypeInv /\ ProjectionInv /\ AnnouncedInv /\ [Next]_vars
        => (TypeInv /\ ProjectionInv /\ AnnouncedInv)'
  BY TypeStep, ProjectionStep, AnnouncedStep
<1>3. TypeInv /\ ProjectionInv /\ AnnouncedInv => AnnouncedAreStored
  BY DEF TypeInv, TypeOK, ProjectionInv, ProjectionCurrent, AnnouncedInv,
         AnnouncedAreStored
<1> QED
  BY <1>1, <1>2, <1>3, PTL DEF Spec

-----------------------------------------------------------------------------
(* Nothing a 202 accepted is lost: from the lookup to the answer every line*)
(* of the batch is stored, or inserted and not yet committed, or about to  *)
(* be inserted.                                                            *)

Known(p, e) == \E r \in table \cup ins[p] : r.ev = e

Accounted(p) ==
  \A i \in Accepted(batch[p]) :
    /\ pc[p] = "insert" => \/ Known(p, batch[p][i].ev)
                           \/ \E j \in fresh[p] : batch[p][j].ev = batch[p][i].ev
    /\ pc[p] \in PCs \ {"idle", "lookup", "insert"} => Known(p, batch[p][i].ev)

AnsweredInv == /\ AcknowledgedDurable
               /\ batch[Rebuilder] = <<>>
               /\ \A p \in Procs : Accounted(p)

(* Each line the lookup leaves out is stored, or is another's repetition.  *)
LEMMA FreshCovers ==
  ASSUME TypeOK, NEW p \in Procs, NEW known, NEW i \in Accepted(batch[p]),
         batch[p][i].ev \notin known
  PROVE  \E j \in Fresh(batch[p], known) : batch[p][j].ev = batch[p][i].ev
<1> DEFINE same == {j \in Accepted(batch[p]) : batch[p][j].ev = batch[p][i].ev}
<1>1. batch[p] \in Batches
  BY DEF TypeOK, Accepted
<1>2. same \in SUBSET DOMAIN batch[p] /\ i \in same
  BY DEF Accepted
<1>3. PICK first \in same : \A j \in same : first <= j
  <2> HIDE DEF same
  <2> QED
    BY <1>1, <1>2, IngestAssumption
<1>4. first \in Fresh(batch[p], known)
  BY <1>3 DEF Fresh
<1> QED
  BY <1>3, <1>4

(* What is stored stays so, and a transaction keeps what it inserted.      *)
Steady(q) == \/ pc'[q] \in {"idle", "lookup"}
             \/ batch'[q] = <<>>
             \/ /\ batch'[q] = batch[q] /\ fresh'[q] = fresh[q]
                /\ Seen(q) \subseteq Seen(q)'
                /\ pc[q] \in PCs \ {"idle", "lookup"}
                /\ pc'[q] = pc[q] \/ (pc[q] # "insert" /\ pc'[q] # "insert")

LEMMA AccountedKept ==
  ASSUME AnsweredInv, table \subseteq table', UNCHANGED acked,
         batch'[Rebuilder] = <<>>, \A q \in Procs : Steady(q)
  PROVE  AnsweredInv'
<1>1. AcknowledgedDurable'
  BY DEF AnsweredInv, AcknowledgedDurable
<1>2. ASSUME NEW q \in Procs
      PROVE  Accounted(q)'
  <2>1. CASE pc'[q] \in {"idle", "lookup"}
    BY <2>1 DEF Accounted
  <2>2. CASE batch'[q] = <<>>
    BY <2>2 DEF Accounted, Accepted
  <2>3. CASE /\ batch'[q] = batch[q] /\ fresh'[q] = fresh[q]
             /\ Seen(q) \subseteq Seen(q)'
             /\ pc[q] \in PCs \ {"idle", "lookup"}
             /\ pc'[q] = pc[q] \/ (pc[q] # "insert" /\ pc'[q] # "insert")
    <3>1. \A e : Known(q, e) => Known(q, e)'
      BY <2>3 DEF Known, Seen
    <3>2. Accounted(q)
      BY DEF AnsweredInv
    <3> QED
      BY <2>3, <3>1, <3>2 DEF Accounted
  <2> QED
    BY <2>1, <2>2, <2>3 DEF Steady
<1> QED
  BY <1>1, <1>2 DEF AnsweredInv

LEMMA AnsweredStep ==
  ASSUME AnsweredInv, StoreInv, TypeInv, [Next]_vars
  PROVE  AnsweredInv'
<1>1. TypeOK /\ pc \in [Procs -> PCs] /\ Rebuilder \in Procs
  BY DEF TypeInv, TypeOK, PCs, Procs
<1>2. ASSUME NEW p \in Workers, NEW b \in Batches, Receive(p, b)
      PROVE  AnsweredInv'
  <2>1. /\ UNCHANGED <<table, acked, ins, fresh>>
        /\ pc'[p] = "lookup" /\ p # Rebuilder /\ p \in Procs
        /\ \A q \in Procs \ {p} : pc'[q] = pc[q] /\ batch'[q] = batch[q]
    BY <1>1, <1>2, IngestAssumption DEF Receive, TypeOK, Procs
  <2>2. \A q \in Procs : Seen(q)' = Seen(q)
    BY <2>1 DEF Seen
  <2>3. \A q \in Procs : Steady(q)
    BY <1>1, <2>1, <2>2 DEF Steady
  <2> QED
    BY <1>1, <2>1, <2>3, AccountedKept DEF AnsweredInv
<1>3. ASSUME NEW p \in Procs, Lookup(p)
      PROVE  AnsweredInv'
  <2> DEFINE known == {r.ev : r \in table}
             new   == Fresh(batch[p], known)
  <2>1. /\ UNCHANGED <<table, acked, ins, batch>>
        /\ fresh'[p] = new
        /\ pc'[p] = IF new = {} THEN "publish" ELSE "insert"
        /\ \A q \in Procs \ {p} : pc'[q] = pc[q] /\ fresh'[q] = fresh[q]
    BY <1>1, <1>3 DEF Lookup, TypeOK
  <2>2. ASSUME NEW i \in Accepted(batch[p])
        PROVE  \/ Known(p, batch[p][i].ev)
               \/ \E j \in new : batch[p][j].ev = batch[p][i].ev
    <3>1. CASE batch[p][i].ev \in known
      BY <3>1 DEF Known
    <3>2. CASE batch[p][i].ev \notin known
      BY <1>1, <3>2, FreshCovers
    <3> QED
      BY <3>1, <3>2
  <2> HIDE DEF new
  <2>3. \A e : \A q \in Procs : Known(q, e)' = Known(q, e)
    BY <2>1 DEF Known
  <2>4. Accounted(p)'
    BY <2>1, <2>2, <2>3 DEF Accounted, PCs
  <2>5. \A q \in Procs \ {p} : Accounted(q)'
    BY <2>1, <2>3 DEF AnsweredInv, Accounted
  <2> QED
    BY <2>1, <2>4, <2>5 DEF AnsweredInv, AcknowledgedDurable
<1>4. ASSUME NEW p \in Procs, Insert(p)
      PROVE  AnsweredInv'
  <2> DEFINE new == {i \in fresh[p] : \A r \in table : r.ev # batch[p][i].ev}
  <2>1. /\ UNCHANGED <<table, acked, batch, fresh>>
        /\ pc[p] = "insert" /\ pc'[p] = "fold"
        /\ ins'[p] = {[id |-> nextId + i, ev |-> batch[p][i].ev,
                       token |-> batch[p][i].token] : i \in new}
        /\ \A q \in Procs \ {p} : pc'[q] = pc[q] /\ ins'[q] = ins[q]
    BY <1>1, <1>4 DEF Insert, TypeOK
  <2>2. ins[p] = {}
    BY <2>1 DEF StoreInv, Apart, Writing
  <2>3. ASSUME NEW j \in fresh[p]
        PROVE  Known(p, batch[p][j].ev)'
    <3>1. CASE j \in new
      <4>1. [id |-> nextId + j, ev |-> batch[p][j].ev,
             token |-> batch[p][j].token] \in ins'[p]
        BY <2>1, <3>1
      <4> QED
        BY <2>1, <4>1 DEF Known
    <3>2. CASE j \notin new
      BY <2>1, <3>2 DEF Known
    <3> QED
      BY <3>1, <3>2
  <2>4. \A e : Known(p, e) => Known(p, e)'
    BY <2>1, <2>2 DEF Known
  <2>5. Accounted(p)
    BY DEF AnsweredInv
  <2>6. Accounted(p)'
    BY <2>1, <2>3, <2>4, <2>5 DEF Accounted
  <2>7. \A q \in Procs \ {p} : Accounted(q)'
    BY <2>1 DEF AnsweredInv, Accounted, Known
  <2> QED
    BY <2>1, <2>6, <2>7 DEF AnsweredInv, AcknowledgedDurable
<1>5. ASSUME NEW p \in Procs,
             \/ FoldEvents(p) \/ LoadSession(p) \/ WriteSession(p)
             \/ LinkResume(p) \/ Publish(p) \/ ListSessions(p)
      PROVE  AnsweredInv'
  <2>1. UNCHANGED <<table, acked, ins, fresh, batch>>
    BY <1>5 DEF FoldEvents, LoadSession, WriteSession, LinkResume, Publish,
                ListSessions
  <2>2. /\ pc[p] \in PCs \ {"idle", "lookup", "insert"} /\ pc'[p] # "insert"
        /\ \A q \in Procs \ {p} : pc'[q] = pc[q]
    BY <1>1, <1>5 DEF FoldEvents, LoadSession, WriteSession, LinkResume, Publish,
                ListSessions, FoldOrCommit, PCs
  <2>3. \A q \in Procs : Seen(q)' = Seen(q)
    BY <2>1 DEF Seen
  <2>4. \A q \in Procs : Steady(q)
    BY <1>1, <2>1, <2>2, <2>3 DEF Steady
  <2> QED
    BY <1>1, <2>1, <2>4, AccountedKept DEF AnsweredInv
<1>6. ASSUME NEW p \in Procs, DropRows(p)
      PROVE  AnsweredInv'
  <2>1. UNCHANGED <<table, acked, ins, fresh, batch>> /\ p = Rebuilder
        /\ \A q \in Procs \ {p} : pc'[q] = pc[q]
    BY <1>1, <1>6 DEF DropRows
  <2>2. \A q \in Procs : Seen(q)' = Seen(q)
    BY <2>1 DEF Seen
  <2>3. \A q \in Procs : Steady(q)
    BY <1>1, <2>1, <2>2 DEF Steady, AnsweredInv
  <2> QED
    BY <1>1, <2>1, <2>3, AccountedKept DEF AnsweredInv
<1>7. ASSUME NEW p \in Procs, Commit(p)
      PROVE  AnsweredInv'
  <2>1. /\ table' = table \cup ins[p] /\ acked' = acked
        /\ \A q \in Procs \ {p} : /\ pc'[q] = pc[q] /\ ins'[q] = ins[q]
                                   /\ batch'[q] = batch[q] /\ fresh'[q] = fresh[q]
        /\ pc[p] = "commit"
        /\ \/ pc'[p] = "idle" /\ batch'[p] = <<>>
           \/ pc'[p] = "publish" /\ batch'[p] = batch[p] /\ fresh'[p] = fresh[p]
    BY <1>1, <1>7 DEF Commit, Rest, TypeOK
  <2>2. \A q \in Procs : Seen(q) \subseteq Seen(q)'
    BY <2>1 DEF Seen
  <2>3. batch'[Rebuilder] = <<>>
    BY <1>1, <2>1 DEF AnsweredInv
  <2>4. \A q \in Procs \ {p} : Steady(q)
    BY <1>1, <2>1, <2>2 DEF Steady
  <2>5. Steady(p)
    BY <1>1, <2>1, <2>2 DEF Steady
  <2> QED
    BY <2>1, <2>3, <2>4, <2>5, AccountedKept
<1>8. ASSUME NEW p \in Procs, Answer(p) \/ Fail(p)
      PROVE  AnsweredInv'
  <2>1. /\ UNCHANGED table
        /\ pc'[p] = "idle" /\ batch'[p] = <<>>
        /\ \A q \in Procs \ {p} : /\ pc'[q] = pc[q] /\ ins'[q] = ins[q]
                                   /\ batch'[q] = batch[q] /\ fresh'[q] = fresh[q]
    BY <1>1, <1>8 DEF Answer, Fail, Rest, TypeOK
  <2>2. \/ acked' = acked
        \/ /\ pc[p] = "answer"
           /\ acked' = acked \cup {batch[p][i].ev : i \in Accepted(batch[p])}
    BY <1>8 DEF Answer, Fail
  <2>3. pc[p] = "answer" => \A i \in Accepted(batch[p]) :
                              \E r \in table : r.ev = batch[p][i].ev
    BY DEF AnsweredInv, Accounted, Known, StoreInv, Apart, PCs, Writing
  <2>4. AcknowledgedDurable'
    BY <2>1, <2>2, <2>3 DEF AnsweredInv, AcknowledgedDurable
  <2>5. \A q \in Procs : Accounted(q)'
    BY <2>1 DEF AnsweredInv, Accounted, Known, PCs
  <2> QED
    BY <1>1, <2>1, <2>4, <2>5 DEF AnsweredInv
<1>9. CASE UNCHANGED vars
  BY <1>9 DEF vars, AnsweredInv, AcknowledgedDurable, Accounted, Known
<1> QED
  BY <1>2, <1>3, <1>4, <1>5, <1>6, <1>7, <1>8, <1>9 DEF Next, Step

(* Nothing that a 202 accepted is missing from the store, whichever thread *)
(* stored it and whichever failed: on SQLite and on PostgreSQL.            *)
THEOREM AnsweredIsStored == Spec => []AcknowledgedDurable
<1>1. Init => TypeInv /\ StoreInv /\ AnsweredInv
  <2>1. Init => StoreInv
    BY DEF Init, StoreInv, StoredOnce, Disjoint, Apart
  <2>2. Init => AnsweredInv
    BY DEF Init, AnsweredInv, AcknowledgedDurable, Accounted, Procs, PCs
  <2> QED
    BY <2>1, <2>2, InitTyped
<1>2. TypeInv /\ StoreInv /\ AnsweredInv /\ [Next]_vars
        => (TypeInv /\ StoreInv /\ AnsweredInv)'
  BY TypeStep, StoreStep, AnsweredStep
<1>3. TypeInv /\ StoreInv /\ AnsweredInv => AcknowledgedDurable
  BY DEF AnsweredInv
<1> QED
  BY <1>1, <1>2, <1>3, PTL DEF Spec
-----------------------------------------------------------------------------
(* Resume links.  A link anyone can read, committed or not, is there       *)
(* because an event is: one of the session it names, that resumes the      *)
(* session whose row it is in.                                             *)

Resumed(b, s, E) == b # s /\ \E e \in Of(b, E) : e.kind = Resume /\ e.from = s

Linked(s, row, E) ==
  row # NoRow /\ row.resumedBy # NoSession => Resumed(row.resumedBy, s, E)

Linking(p) ==
  /\ pc[p] \notin Writing => \A s \in Sessions : wrote[p][s] = Unwritten
  /\ \A s \in Sessions :
       wrote[p][s] # Unwritten => Linked(s, wrote[p][s], Seen(p))
  /\ pc[p] = "write" => Linked(turn[p].sid, turn[p].row, Seen(p))
  /\ pc[p] \in {"load", "write", "link"} =>
       LET from == turn[p].derived.resumedFrom
       IN  from \notin {NoSession, turn[p].sid} => Resumed(turn[p].sid, from, Seen(p))

LinkInv == /\ \A s \in Sessions : Linked(s, rows[s], table)
           /\ \A p \in Procs : Linking(p)

(* More events are no reason to give a link up.                            *)
LEMMA LinkedMore ==
  ASSUME NEW E, NEW F, E \subseteq F, NEW s
  PROVE  /\ \A b : Resumed(b, s, E) => Resumed(b, s, F)
         /\ \A row : Linked(s, row, E) => Linked(s, row, F)
BY DEF Resumed, Linked, Of

LEMMA SeenLinked ==
  ASSUME LinkInv, NEW p \in Procs, NEW s \in Sessions
  PROVE  Linked(s, RowSeen(p, s), Seen(p))
<1>1. table \subseteq Seen(p)
  BY DEF Seen
<1> QED
  BY <1>1, LinkedMore DEF LinkInv, Linking, RowSeen

(* What a fold takes for the session resumed, one of its events says.      *)
LEMMA FoldedFrom ==
  ASSUME NEW S \in SUBSET Events, Derived(S).resumedFrom # NoSession
  PROVE  \E e \in S : e.kind = Resume /\ e.from = Derived(S).resumedFrom
<1> DEFINE resumes == OfKind(S, {Resume})
<1>1. Derived(S).resumedFrom = ResumedFrom(S)
  BY DEF Derived
<1>2. resumes # {} /\ resumes \in SUBSET Events
  BY <1>1 DEF ResumedFrom, OfKind
<1>3. PICK last \in resumes : \A e \in resumes : e.seq <= last.seq
  BY <1>2, EventsAssumption
<1> DEFINE chosen == CHOOSE e \in resumes : \A f \in resumes : f.seq <= e.seq
<1>4. chosen \in resumes
  BY <1>3
<1>5. ResumedFrom(S) = chosen.from
  BY <1>2 DEF ResumedFrom
<1> HIDE DEF chosen
<1> QED
  BY <1>1, <1>4, <1>5 DEF OfKind

(* Where every resume names the same session, the fold takes that one.     *)
LEMMA FoldedResume ==
  ASSUME NEW b, NEW S \in SUBSET {e \in Events : e.sid = b},
         \A e, f \in Events :
           e.sid = f.sid /\ e.kind = Resume /\ f.kind = Resume => e.from = f.from,
         NEW s, \E e \in S : e.kind = Resume /\ e.from = s
  PROVE  Derived(S).resumedFrom = s
<1> DEFINE resumes == OfKind(S, {Resume})
<1>1. PICK e \in S : e.kind = Resume /\ e.from = s
  OBVIOUS
<1>2. e \in resumes /\ resumes # {} /\ resumes \in SUBSET Events
  BY <1>1 DEF OfKind
<1>3. PICK last \in resumes : \A f \in resumes : f.seq <= last.seq
  BY <1>2, EventsAssumption
<1> DEFINE chosen == CHOOSE f \in resumes : \A g \in resumes : g.seq <= f.seq
<1>4. chosen \in resumes
  BY <1>3
<1>5. ResumedFrom(S) = chosen.from
  BY <1>2 DEF ResumedFrom
<1> HIDE DEF chosen
<1> QED
  BY <1>1, <1>4, <1>5 DEF OfKind, Derived

(* A process that wrote nothing is as well linked as it was.               *)
LEMMA LinkingKept ==
  ASSUME NEW q \in Procs, Linking(q), Seen(q) \subseteq Seen(q)',
         \/ wrote'[q] = wrote[q] /\ (pc[q] \in Writing => pc'[q] \in Writing)
         \/ \A s \in Sessions : wrote'[q][s] = Unwritten,
         \/ pc'[q] \notin {"load", "write", "link"}
         \/ pc'[q] = pc[q] /\ turn'[q] = turn[q]
  PROVE  Linking(q)'
<1>1. \A s, row : Linked(s, row, Seen(q)) => Linked(s, row, Seen(q)')
  BY LinkedMore
<1>2. \A b, s : Resumed(b, s, Seen(q)) => Resumed(b, s, Seen(q)')
  BY LinkedMore
<1>3. \A s \in Sessions :
        wrote'[q][s] # Unwritten => Linked(s, wrote'[q][s], Seen(q)')
  BY <1>1 DEF Linking
<1>4. pc'[q] = "write" => Linked(turn'[q].sid, turn'[q].row, Seen(q)')
  BY <1>1 DEF Linking
<1>5. pc'[q] \in {"load", "write", "link"} =>
        LET from == turn'[q].derived.resumedFrom
        IN  from \notin {NoSession, turn'[q].sid}
              => Resumed(turn'[q].sid, from, Seen(q)')
  BY <1>2 DEF Linking
<1>6. /\ \A s, row, E : Linked(s, row, E)' <=> Linked(s, row, E)
      /\ \A b, s, E : Resumed(b, s, E)' <=> Resumed(b, s, E)
  BY DEF Linked, Resumed, Of
<1>7. pc'[q] \notin Writing => \A s \in Sessions : wrote'[q][s] = Unwritten
  BY DEF Linking
<1> QED
  BY <1>3, <1>4, <1>5, <1>6, <1>7 DEF Linking


(* What the steps that read and write rows leave in hand and written.      *)
LEMMA LoadTurns ==
  ASSUME TypeOK, NEW p \in Procs, LoadSession(p)
  PROVE  /\ pc[p] = "load" /\ pc'[p] = "write"
         /\ UNCHANGED <<table, rows, ins, wrote>>
         /\ turn'[p].sid = turn[p].sid /\ turn'[p].derived = turn[p].derived
         /\ turn'[p].row = RowSeen(p, turn[p].sid)
         /\ \A q \in Procs \ {p} : pc'[q] = pc[q] /\ turn'[q] = turn[q]
<1> DEFINE T == [sid : Sessions \cup {NoSession}, token : TokenId,
                 derived : Columns, row : Row \cup {NoRow}]
           loaded == [turn[p] EXCEPT !.row = RowSeen(p, turn[p].sid)]
<1>1. turn \in [Procs -> T] /\ turn[p] \in T
  BY DEF TypeOK
<1>2. /\ loaded.sid = turn[p].sid /\ loaded.derived = turn[p].derived
      /\ loaded.row = RowSeen(p, turn[p].sid)
  BY <1>1
<1>3. turn' = [turn EXCEPT ![p] = loaded]
  BY DEF LoadSession
<1>4. turn'[p] = loaded /\ \A q \in Procs \ {p} : turn'[q] = turn[q]
  <2> HIDE DEF T, loaded
  <2> QED
    BY <1>1, <1>3
<1>5. /\ pc[p] = "load" /\ pc'[p] = "write"
      /\ UNCHANGED <<table, rows, ins, wrote>>
      /\ \A q \in Procs \ {p} : pc'[q] = pc[q]
  BY DEF LoadSession, TypeOK
<1> HIDE DEF loaded
<1> QED
  BY <1>2, <1>4, <1>5

LEMMA WriteWrites ==
  ASSUME TypeOK, NEW p \in Procs, WriteSession(p)
  PROVE  /\ \A r \in Sessions :
              \/ wrote'[p][r] = wrote[p][r]
              \/ r = turn[p].sid /\ wrote'[p][r] = NewRow(turn[p])
         /\ \A q \in Procs \ {p} : wrote'[q] = wrote[q]
<1> DEFINE written == [wrote[p] EXCEPT ![turn[p].sid] = NewRow(turn[p])]
<1>1. wrote \in [Procs -> [Sessions -> Row \cup {NoRow, Unwritten}]]
  BY DEF TypeOK
<1>2. wrote' = wrote \/ wrote' = [wrote EXCEPT ![p] = written]
  BY DEF WriteSession
<1>3. \A r \in Sessions : \/ written[r] = wrote[p][r]
                          \/ r = turn[p].sid /\ written[r] = NewRow(turn[p])
  BY <1>1
<1> HIDE DEF written
<1> QED
  BY <1>1, <1>2, <1>3

LEMMA LinkWrites ==
  ASSUME TypeOK, NEW p \in Procs, LinkResume(p), turn[p].sid \in Sessions
  PROVE  /\ \A r \in Sessions :
              \/ wrote'[p][r] = wrote[p][r]
              \/ /\ r = turn[p].derived.resumedFrom
                 /\ r \notin {NoSession, turn[p].sid}
                 /\ RowSeen(p, r) # NoRow /\ wrote'[p][r] \in Row
                 /\ wrote'[p][r].resumedBy = turn[p].sid
         /\ \A q \in Procs \ {p} : wrote'[q] = wrote[q]
<1> DEFINE s == turn[p].sid
           from == turn[p].derived.resumedFrom
           linked == [RowSeen(p, from) EXCEPT !.resumedBy = s]
<1>1. wrote \in [Procs -> [Sessions -> Row \cup {NoRow, Unwritten}]]
  BY DEF TypeOK
<1>2. \/ wrote' = wrote
      \/ /\ from \notin {NoSession, s} /\ RowSeen(p, from) # NoRow
         /\ wrote' = [wrote EXCEPT ![p] = [wrote[p] EXCEPT ![from] = linked]]
  BY DEF LinkResume
<1>3. from \in Sessions /\ RowSeen(p, from) # NoRow =>
        linked \in Row /\ linked.resumedBy = s
  BY RowSeenTyped DEF Row
<1> HIDE DEF linked, from, s
<1>4. /\ \A r \in Sessions : \/ wrote'[p][r] = wrote[p][r]
                             \/ /\ r = from /\ wrote'[p][r] = linked
                                /\ from \notin {NoSession, s}
                                /\ RowSeen(p, r) # NoRow
      /\ \A q \in Procs \ {p} : wrote'[q] = wrote[q]
  BY <1>1, <1>2
<1> QED
  BY <1>3, <1>4 DEF from, s


LEMMA LinkInit == Init => LinkInv
<1> SUFFICES ASSUME Init
             PROVE  LinkInv
  OBVIOUS
<1>1. \A p \in Procs : pc[p] = "idle" /\ \A s \in Sessions : wrote[p][s] = Unwritten
  BY DEF Init
<1> QED
  BY <1>1 DEF Init, LinkInv, Linking, Linked

LEMMA LinkStep == LinkInv /\ TypeInv /\ [Next]_vars => LinkInv'
<1> SUFFICES ASSUME LinkInv, TypeInv, [Next]_vars
             PROVE  LinkInv'
  OBVIOUS
<1>1. TypeOK /\ (\A p \in Procs : InHand(p)) /\ \A p \in Procs : Linking(p)
  BY DEF TypeInv, LinkInv
<1>2. ASSUME UNCHANGED <<table, rows>>, \A p \in Procs : Linking(p)'
      PROVE  LinkInv'
  BY <1>2 DEF LinkInv, Linked, Resumed, Of
<1>3. ASSUME NEW p \in Workers, NEW b \in Batches, Receive(p, b)
      PROVE  LinkInv'
  <2>1. /\ UNCHANGED <<table, rows, ins, wrote, turn>>
        /\ \A q \in Procs : \/ pc'[q] = pc[q]
                            \/ pc[q] = "idle" /\ pc'[q] = "lookup"
    BY <1>1, <1>3 DEF Receive, TypeOK
  <2>2. \A q \in Procs : Seen(q) \subseteq Seen(q)'
    BY <2>1 DEF Seen
  <2> QED
    BY <1>1, <1>2, <2>1, <2>2, LinkingKept DEF Writing
<1>4. ASSUME NEW p \in Procs, Lookup(p) \/ Publish(p) \/ ListSessions(p)
      PROVE  LinkInv'
  <2>1. /\ UNCHANGED <<table, rows, ins, wrote, turn>>
        /\ pc'[p] \notin {"load", "write", "link"}
        /\ pc[p] \in Writing => pc'[p] \in Writing
        /\ \A q \in Procs \ {p} : pc'[q] = pc[q]
    BY <1>1, <1>4 DEF Lookup, Publish, ListSessions, FoldOrCommit, TypeOK, Writing
  <2>2. \A q \in Procs : Seen(q) \subseteq Seen(q)'
    BY <2>1 DEF Seen
  <2> QED
    BY <1>1, <1>2, <2>1, <2>2, LinkingKept
<1>5. ASSUME NEW p \in Procs, Insert(p)
      PROVE  LinkInv'
  <2>1. /\ UNCHANGED <<table, rows, wrote, turn>>
        /\ pc[p] \notin Writing /\ pc'[p] = "fold"
        /\ \A q \in Procs \ {p} : pc'[q] = pc[q] /\ ins'[q] = ins[q]
    BY <1>1, <1>5 DEF Insert, TypeOK, Writing
  <2>2. \A q \in Procs \ {p} : Seen(q) \subseteq Seen(q)'
    BY <2>1 DEF Seen
  <2>3. \A q \in Procs \ {p} : Linking(q)'
    BY <1>1, <2>1, <2>2, LinkingKept
  <2>4. \A s \in Sessions : wrote[p][s] = Unwritten
    BY <1>1, <2>1 DEF Linking
  <2>5. Linking(p)'
    BY <2>1, <2>4 DEF Linking
  <2> QED
    BY <1>2, <2>1, <2>3, <2>5
<1>6. ASSUME NEW p \in Procs, FoldEvents(p)
      PROVE  LinkInv'
  <2>1. /\ pc'[p] = "load"
        /\ UNCHANGED <<table, rows, ins, wrote>>
        /\ turn'[p].derived = Derived(Of(turn'[p].sid, Seen(p)))
        /\ \A q \in Procs \ {p} : pc'[q] = pc[q] /\ turn'[q] = turn[q]
    BY <1>1, <1>6 DEF FoldEvents, TypeOK, Seen
  <2>2. \A q \in Procs : Seen(q)' = Seen(q)
    BY <2>1 DEF Seen
  <2>3. \A q \in Procs \ {p} : Linking(q)'
    BY <1>1, <2>1, <2>2, LinkingKept
  <2>4. ASSUME turn'[p].derived.resumedFrom \notin {NoSession, turn'[p].sid}
        PROVE  Resumed(turn'[p].sid, turn'[p].derived.resumedFrom, Seen(p))
    <3>1. Of(turn'[p].sid, Seen(p)) \in SUBSET Events
      BY <1>1 DEF Of, Seen, TypeOK, EventRow
    <3> QED
      BY <2>1, <2>4, <3>1, FoldedFrom DEF Resumed
  <2>5. \A s \in Sessions : wrote'[p][s] # Unwritten => Linked(s, wrote'[p][s], Seen(p))
    BY <1>1, <2>1 DEF Linking
  <2>6. Linking(p)'
    BY <2>1, <2>2, <2>4, <2>5 DEF Linking, Linked, Resumed, Of, Writing
  <2> QED
    BY <1>2, <2>1, <2>3, <2>6
<1>7. ASSUME NEW p \in Procs, LoadSession(p)
      PROVE  LinkInv'
  <2>1. /\ pc[p] = "load" /\ pc'[p] = "write"
        /\ UNCHANGED <<table, rows, ins, wrote>>
        /\ turn'[p].sid = turn[p].sid /\ turn'[p].derived = turn[p].derived
        /\ turn'[p].row = RowSeen(p, turn[p].sid)
        /\ \A q \in Procs \ {p} : pc'[q] = pc[q] /\ turn'[q] = turn[q]
    BY <1>1, <1>7, LoadTurns
  <2>2. \A q \in Procs : Seen(q)' = Seen(q)
    BY <2>1 DEF Seen
  <2>3. \A q \in Procs \ {p} : Linking(q)'
    BY <1>1, <2>1, <2>2, LinkingKept
  <2>4. Linked(turn'[p].sid, turn'[p].row, Seen(p))
    BY <1>1, <2>1, SeenLinked DEF InHand
  <2>5. /\ \A s \in Sessions : wrote'[p][s] # Unwritten => Linked(s, wrote'[p][s], Seen(p))
        /\ LET from == turn'[p].derived.resumedFrom
           IN  from \notin {NoSession, turn'[p].sid} => Resumed(turn'[p].sid, from, Seen(p))
    BY <1>1, <2>1 DEF Linking
  <2>6. Linking(p)'
    BY <2>1, <2>2, <2>4, <2>5 DEF Linking, Linked, Resumed, Of, Writing
  <2> QED
    BY <1>2, <2>1, <2>3, <2>6
<1>8. ASSUME NEW p \in Procs, WriteSession(p)
      PROVE  LinkInv'
  <2>1. /\ pc[p] = "write" /\ pc'[p] = "link"
        /\ UNCHANGED <<table, rows, ins, turn>>
        /\ \A q \in Procs \ {p} : pc'[q] = pc[q]
    BY <1>1, <1>8 DEF WriteSession, TypeOK
  <2>2. PICK s \in Sessions : s = turn[p].sid
    BY <1>1, <2>1 DEF InHand
  <2>3. /\ \A r \in Sessions : \/ wrote'[p][r] = wrote[p][r]
                               \/ r = s /\ wrote'[p][r] = NewRow(turn[p])
        /\ \A q \in Procs \ {p} : wrote'[q] = wrote[q]
    BY <1>1, <1>8, <2>2, WriteWrites
  <2>4. \A q \in Procs : Seen(q)' = Seen(q)
    BY <2>1 DEF Seen
  <2>5. \A q \in Procs \ {p} : Linking(q)'
    BY <1>1, <2>1, <2>3, <2>4, LinkingKept
  <2>6. Linked(s, NewRow(turn[p]), Seen(p))
    <3>1. Linked(s, turn[p].row, Seen(p))
      BY <1>1, <2>1, <2>2 DEF Linking
    <3>2. NewRow(turn[p]).resumedBy = IF turn[p].row = NoRow THEN NoSession
                                      ELSE turn[p].row.resumedBy
      BY DEF NewRow
    <3> QED
      BY <3>1, <3>2 DEF Linked
  <2>7. \A r \in Sessions : wrote'[p][r] # Unwritten => Linked(r, wrote'[p][r], Seen(p))
    BY <1>1, <2>3, <2>6 DEF Linking
  <2>8. LET from == turn'[p].derived.resumedFrom
        IN  from \notin {NoSession, turn'[p].sid} => Resumed(turn'[p].sid, from, Seen(p))
    BY <1>1, <2>1 DEF Linking
  <2>9. Linking(p)'
    BY <2>1, <2>4, <2>7, <2>8 DEF Linking, Linked, Resumed, Of, Writing
  <2> QED
    BY <1>2, <2>1, <2>5, <2>9
<1>9. ASSUME NEW p \in Procs, LinkResume(p)
      PROVE  LinkInv'
  <2> DEFINE s == turn[p].sid
             from == turn[p].derived.resumedFrom
  <2>1. /\ pc[p] = "link" /\ pc'[p] \in {"fold", "commit"}
        /\ UNCHANGED <<table, rows, ins>>
        /\ \A q \in Procs \ {p} : pc'[q] = pc[q] /\ turn'[q] = turn[q]
    BY <1>1, <1>9 DEF LinkResume, FoldOrCommit, TypeOK
  <2>2. /\ \A r \in Sessions : \/ wrote'[p][r] = wrote[p][r]
                               \/ /\ r = from /\ from \notin {NoSession, s}
                                  /\ wrote'[p][r].resumedBy = s
        /\ \A q \in Procs \ {p} : wrote'[q] = wrote[q]
    <3>1. s \in Sessions
      BY <1>1, <2>1 DEF InHand
    <3> QED
      BY <1>1, <1>9, <3>1, LinkWrites
  <2>3. \A q \in Procs : Seen(q)' = Seen(q)
    BY <2>1 DEF Seen
  <2>4. \A q \in Procs \ {p} : Linking(q)'
    BY <1>1, <2>1, <2>2, <2>3, LinkingKept
  <2>5. from \notin {NoSession, s} => Resumed(s, from, Seen(p))
    BY <1>1, <2>1 DEF Linking
  <2>6. \A r \in Sessions : wrote'[p][r] # Unwritten => Linked(r, wrote'[p][r], Seen(p))
    BY <1>1, <2>2, <2>5 DEF Linking, Linked
  <2>7. Linking(p)'
    BY <2>1, <2>3, <2>6 DEF Linking, Linked, Resumed, Of, Writing
  <2> QED
    BY <1>2, <2>1, <2>4, <2>7
<1>10. ASSUME NEW p \in Procs, Commit(p)
       PROVE  LinkInv'
  <2>1. /\ pc'[p] \notin Writing /\ ins'[p] = {}
        /\ \A s \in Sessions : wrote'[p][s] = Unwritten
        /\ table' = Seen(p)
        /\ \A s \in Sessions : rows'[s] = RowSeen(p, s)
        /\ \A q \in Procs \ {p} : /\ pc'[q] = pc[q] /\ ins'[q] = ins[q]
                                   /\ wrote'[q] = wrote[q] /\ turn'[q] = turn[q]
    BY <1>1, <1>10 DEF Commit, Rest, Seen, TypeOK, Writing
  <2>2. \A q \in Procs : Seen(q) \subseteq Seen(q)'
    BY <2>1 DEF Seen
  <2>3. \A q \in Procs : Linking(q)'
    BY <1>1, <2>1, <2>2, LinkingKept DEF Writing
  <2>4. \A s \in Sessions : Linked(s, rows'[s], table')
    BY <2>1, SeenLinked
  <2>5. \A s \in Sessions : Linked(s, rows[s], table)'
    BY <2>4 DEF Linked, Resumed, Of
  <2> QED
    BY <2>3, <2>5 DEF LinkInv
<1>11. ASSUME NEW p \in Procs, Answer(p) \/ Fail(p)
       PROVE  LinkInv'
  <2>1. /\ pc'[p] = "idle" /\ UNCHANGED <<table, rows>> /\ ins'[p] = {}
        /\ \A s \in Sessions : wrote'[p][s] = Unwritten
        /\ \A q \in Procs \ {p} : /\ pc'[q] = pc[q] /\ ins'[q] = ins[q]
                                   /\ wrote'[q] = wrote[q] /\ turn'[q] = turn[q]
    BY <1>1, <1>11 DEF Answer, Fail, Rest, TypeOK
  <2>2. \A q \in Procs \ {p} : Seen(q) \subseteq Seen(q)'
    BY <2>1 DEF Seen
  <2>3. \A q \in Procs \ {p} : Linking(q)'
    BY <1>1, <2>1, <2>2, LinkingKept
  <2>4. Linking(p)'
    BY <2>1 DEF Linking
  <2> QED
    BY <1>2, <2>1, <2>3, <2>4
<1>12. ASSUME NEW p \in Procs, DropRows(p)
       PROVE  LinkInv'
  <2>1. /\ pc'[p] = "list" /\ UNCHANGED <<table, rows, ins, turn>>
        /\ \A s \in Sessions : wrote'[p][s] \in {NoRow, Unwritten}
        /\ \A q \in Procs \ {p} : pc'[q] = pc[q] /\ wrote'[q] = wrote[q]
    BY <1>1, <1>12 DEF DropRows, TypeOK
  <2>2. \A q \in Procs : Seen(q)' = Seen(q)
    BY <2>1 DEF Seen
  <2>3. \A q \in Procs \ {p} : Linking(q)'
    BY <1>1, <2>1, <2>2, LinkingKept
  <2>4. Linking(p)'
    BY <2>1 DEF Linking, Linked, Writing
  <2> QED
    BY <1>2, <2>1, <2>3, <2>4
<1>13. CASE UNCHANGED vars
  <2>1. UNCHANGED <<table, rows, pc, ins, wrote, turn>>
    BY <1>13 DEF vars
  <2>2. \A q \in Procs : Seen(q) \subseteq Seen(q)'
    BY <2>1 DEF Seen
  <2> QED
    BY <1>1, <1>2, <2>1, <2>2, LinkingKept
<1> QED
  BY <1>3, <1>4, <1>5, <1>6, <1>7, <1>8, <1>9, <1>10, <1>11, <1>12, <1>13
     DEF Next, Step

(* On SQLite a session reads as resumed only by one whose row says it      *)
(* resumed it.  The client resumes once, when a session opens, so that a   *)
(* session's resumes name one session; of two, the last named would win.   *)
THEOREM LinksAreSound ==
  ASSUME Serialised,
         \A e, f \in Events :
           e.sid = f.sid /\ e.kind = Resume /\ f.kind = Resume => e.from = f.from
  PROVE  Spec => []LinkSound
<1>1. Init => TypeInv /\ ProjectionInv /\ LinkInv
  BY InitTyped, ProjectionInit, LinkInit
<1>2. TypeInv /\ ProjectionInv /\ LinkInv /\ [Next]_vars
        => (TypeInv /\ ProjectionInv /\ LinkInv)'
  BY TypeStep, ProjectionStep, LinkStep
<1>3. TypeInv /\ ProjectionInv /\ LinkInv => LinkSound
  <2> SUFFICES ASSUME TypeInv, ProjectionInv, LinkInv, NEW s \in Sessions,
                      rows[s] # NoRow, rows[s].resumedBy # NoSession,
                      NEW b, b = rows[s].resumedBy
               PROVE  b # s /\ rows[b] # NoRow /\ rows[b].derived.resumedFrom = s
    BY DEF LinkSound
  <2>1. b # s /\ \E e \in StoredOf(b) : e.kind = Resume /\ e.from = s
    BY DEF LinkInv, Linked, Resumed, StoredOf
  <2>2. b \in Sessions
    BY DEF TypeInv, TypeOK, Row
  <2>3. rows[b] # NoRow /\ rows[b].derived = Derived(StoredOf(b))
    BY <2>1, <2>2 DEF ProjectionInv, ProjectionCurrent
  <2>4. StoredOf(b) \in SUBSET {e \in Events : e.sid = b}
    BY DEF StoredOf, Of, TypeInv, TypeOK, EventRow
  <2>5. Derived(StoredOf(b)).resumedFrom = s
    BY <2>1, <2>4, FoldedResume
  <2> QED
    BY <2>1, <2>3, <2>5
<1> QED
  BY <1>1, <1>2, <1>3, PTL DEF Spec

-----------------------------------------------------------------------------
(* A link, once committed, is in what every later transaction of a batch   *)
(* sees, and so in what it commits.                                        *)

IsLinked(row) == row # NoRow /\ row.resumedBy # NoSession

Keeping(p) ==
  pc[p] \in Writing =>
    \A s \in Sessions : IsLinked(rows[s]) => IsLinked(RowSeen(p, s))

LinksKept == \A p \in Workers : Keeping(p)

LEMMA KeepingKept ==
  ASSUME NEW p, Keeping(p), UNCHANGED rows,
         \/ pc'[p] \notin Writing
         \/ pc[p] \in Writing /\ wrote'[p] = wrote[p]
  PROVE  Keeping(p)'
BY DEF Keeping, RowSeen, IsLinked

LEMMA KeepStep ==
  ASSUME Serialised, TypeInv, ProjectionInv, LinksKept, [Next]_vars
  PROVE  LinksKept'
<1> SUFFICES ASSUME NEW p \in Workers
             PROVE  Keeping(p)'
  BY DEF LinksKept
<1>1. TypeOK /\ p \in Procs /\ p # Rebuilder /\ Keeping(p) /\ Worker(p) /\ InHand(p)
  BY IngestAssumption DEF LinksKept, TypeInv, ProjectionInv, Procs
<1>2. ASSUME NEW q \in Workers, NEW b \in Batches, Receive(q, b)
      PROVE  Keeping(p)'
  <2>1. UNCHANGED <<rows, wrote>> /\ (pc'[p] = pc[p] \/ pc'[p] = "lookup")
    BY <1>1, <1>2 DEF Receive, TypeOK
  <2> QED
    BY <1>1, <2>1, KeepingKept DEF Writing
<1>3. ASSUME NEW q \in Procs \ {p}, Step(q)
      PROVE  Keeping(p)'
  <2>1. /\ pc'[p] = pc[p] /\ wrote'[p] = wrote[p]
        /\ rows' = rows \/ pc[q] = "commit"
    BY <1>1, <1>3 DEF Step, Lookup, Insert, FoldEvents, LoadSession, Commit,
                      Publish, Answer, DropRows, ListSessions, Fail, Rest, TypeOK,
                      WriteSession, LinkResume
  <2>2. CASE rows' = rows
    BY <1>1, <2>1, <2>2, KeepingKept
  <2>3. CASE pc[q] = "commit"
    <3>1. pc'[p] \notin Writing
      BY <1>1, <2>1, <2>3 DEF ProjectionInv, OneWriter, Writing
    <3> QED
      BY <3>1 DEF Keeping
  <2> QED
    BY <2>1, <2>2, <2>3
<1>4. ASSUME Lookup(p) \/ Publish(p) \/ Answer(p) \/ Fail(p) \/ Commit(p)
      PROVE  Keeping(p)'
  <2>1. pc'[p] \notin Writing
    BY <1>1, <1>4 DEF Lookup, Publish, Answer, Fail, Commit, Rest, TypeOK, Writing
  <2> QED
    BY <2>1 DEF Keeping
<1>5. CASE DropRows(p)
  BY <1>1, <1>5 DEF DropRows
<1>6. CASE FoldEvents(p) \/ LoadSession(p) \/ ListSessions(p)
  <2>1. UNCHANGED <<rows, wrote>> /\ pc[p] \in Writing
    BY <1>6 DEF FoldEvents, LoadSession, ListSessions, Writing
  <2> QED
    BY <1>1, <2>1, KeepingKept
<1>7. CASE Insert(p)
  <2>1. UNCHANGED <<rows, wrote>> /\ pc[p] \notin Writing
    BY <1>7 DEF Insert, Writing
  <2>2. \A s \in Sessions : RowSeen(p, s)' = rows[s]
    BY <1>1, <2>1 DEF Worker, Bare, RowSeen
  <2> QED
    BY <2>1, <2>2 DEF Keeping, IsLinked
<1>8. CASE WriteSession(p)
  <2>1. UNCHANGED rows /\ pc[p] = "write"
    BY <1>8 DEF WriteSession
  <2>2. turn[p].row = RowSeen(p, turn[p].sid) /\ turn[p].sid \in Sessions
    BY <1>1, <2>1 DEF Worker, Projecting, InHand, Writing
  <2>3. ASSUME NEW s \in Sessions, IsLinked(rows[s])
        PROVE  IsLinked(RowSeen(p, s)')
    <3>1. IsLinked(RowSeen(p, s))
      BY <1>1, <2>1, <2>3 DEF Keeping, Writing
    <3>2. CASE wrote'[p][s] = wrote[p][s]
      BY <2>1, <3>1, <3>2 DEF RowSeen, IsLinked
    <3>3. CASE s = turn[p].sid /\ wrote'[p][s] = NewRow(turn[p])
      <4>1. NewRow(turn[p]).resumedBy = RowSeen(p, s).resumedBy
        BY <2>2, <3>1, <3>3 DEF NewRow, IsLinked
      <4>2. NewRow(turn[p]) \in Row
        BY <1>1 DEF TypeOK, NewRow, Row
      <4>3. NewRow(turn[p]) # Unwritten /\ NewRow(turn[p]) # NoRow
        BY <4>2, IngestAssumption
      <4>4. RowSeen(p, s)' = NewRow(turn[p])
        BY <3>3, <4>3 DEF RowSeen
      <4> QED
        BY <3>1, <4>1, <4>3, <4>4 DEF IsLinked
    <3> QED
      BY <1>1, <1>8, <3>2, <3>3, WriteWrites
  <2> QED
    BY <2>1, <2>3 DEF Keeping, IsLinked
<1>9. CASE LinkResume(p)
  <2>1. UNCHANGED rows /\ pc[p] = "link"
    BY <1>9 DEF LinkResume
  <2>2. turn[p].sid \in Sessions
    BY <1>1, <2>1 DEF InHand
  <2>3. ASSUME NEW s \in Sessions, IsLinked(rows[s])
        PROVE  IsLinked(RowSeen(p, s)')
    <3>1. IsLinked(RowSeen(p, s))
      BY <1>1, <2>1, <2>3 DEF Keeping, Writing
    <3>2. CASE wrote'[p][s] = wrote[p][s]
      BY <2>1, <3>1, <3>2 DEF RowSeen, IsLinked
    <3>3. CASE wrote'[p][s] \in Row /\ wrote'[p][s].resumedBy = turn[p].sid
      <4>1. RowSeen(p, s)' = wrote'[p][s] /\ wrote'[p][s] # NoRow
        BY <3>3, IngestAssumption DEF RowSeen
      <4> QED
        BY <2>2, <3>3, <4>1, EventsAssumption DEF IsLinked
    <3> QED
      BY <1>1, <1>9, <2>2, <3>2, <3>3, LinkWrites
  <2> QED
    BY <2>1, <2>3 DEF Keeping, IsLinked
<1>10. CASE UNCHANGED vars
  BY <1>1, <1>10, KeepingKept DEF vars
<1> QED
  BY <1>1, <1>2, <1>3, <1>4, <1>5, <1>6, <1>7, <1>8, <1>9, <1>10 DEF Next, Step

(* On SQLite no later batch, of either session, makes a resumed session    *)
(* forget that it was resumed.                                             *)
THEOREM LinksStay ==
  ASSUME Serialised
  PROVE  Spec => LinkStays
<1>1. Init => TypeInv /\ ProjectionInv /\ LinksKept
  BY InitTyped, ProjectionInit DEF Init, LinksKept, Keeping, Writing, Procs
<1>2. TypeInv /\ ProjectionInv /\ LinksKept /\ [Next]_vars
        => (TypeInv /\ ProjectionInv /\ LinksKept)'
  BY TypeStep, ProjectionStep, KeepStep
<1>3. TypeInv /\ LinksKept /\ [Next]_vars
        => [\A s \in Sessions :
              /\ rows[s] # NoRow /\ rows[s].resumedBy # NoSession
              /\ pc[Rebuilder] # "commit"
              => rows'[s] # NoRow /\ rows'[s].resumedBy # NoSession]_rows
  <2> SUFFICES ASSUME TypeInv, LinksKept, Next, rows' # rows,
                      NEW s \in Sessions, IsLinked(rows[s]), pc[Rebuilder] # "commit"
               PROVE  IsLinked(rows'[s])
    BY DEF IsLinked, vars
  <2>1. PICK p \in Procs : Commit(p)
    BY DEF Next, Step, Receive, Lookup, Insert, FoldEvents, LoadSession, Publish,
           Answer, DropRows, ListSessions, Fail, WriteSession, LinkResume
  <2>2. p \in Workers /\ pc[p] \in Writing
    BY <2>1 DEF Commit, Procs, Writing
  <2>3. rows'[s] = RowSeen(p, s)
    BY <2>1 DEF Commit
  <2> QED
    BY <2>2, <2>3 DEF LinksKept, Keeping
<1> QED
  BY <1>1, <1>2, <1>3, PTL DEF Spec, LinkStays

=============================================================================
