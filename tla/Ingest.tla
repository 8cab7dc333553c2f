-------------------------------- MODULE Ingest --------------------------------
(***************************************************************************)
(* The batch pipeline against the store: Ingest.accept run by several      *)
(* threads at once, each in one database transaction that inserts the      *)
(* events not yet stored and reprojects the sessions they touch, and the   *)
(* `rebuild` command, a process of its own that drops every sessions row   *)
(* and projects them again.                                                *)
(*                                                                         *)
(* A transaction keeps what it wrote to itself until it commits: ins[p]    *)
(* and wrote[p] are read over the committed tables by p alone.  One step   *)
(* is one SQL statement.  With Serialised the database is SQLite: the      *)
(* driver opens the transaction at the first statement that writes, and    *)
(* one transaction writes at a time.  Without it the database is           *)
(* PostgreSQL at its default isolation: every statement sees what is       *)
(* committed when it starts, and a statement waits only for a row another  *)
(* transaction has written.                                                *)
(***************************************************************************)
EXTENDS Projection, Sequences

CONSTANTS
  Workers,      \* threads of the server, and `import` processes
  Rebuilder,    \* the process that runs `rebuild`
  Tokens,       \* token ids (the jti)
  NoToken,      \* the empty token id: an import without a token
  Malformed,    \* a line the validator refuses
  Batches,      \* the batches that may be posted, each a sequence of lines
  MaxBatch,     \* the setting max_batch: lines of a batch that are read
  Rank,         \* the text order of session ids
  Serialised,   \* SQLite's single writer
  MaxPosts,     \* bound: batches posted in one behaviour
  MaxRebuilds,  \* bound: rebuilds started in one behaviour
  NoRow,        \* no sessions row
  Unwritten     \* a sessions row this transaction has not written

TokenId == Tokens \cup {NoToken}
Line    == [ev : Events \cup {Malformed}, token : TokenId]
Procs   == Workers \cup {Rebuilder}

EventRow == [id : Nat, ev : Events, token : TokenId]

(* A sessions row: what the events say, and the two columns they do not.   *)
Columns == {Derived(S) : S \in SUBSET Events}
Row     == [derived : Columns, token : TokenId,
            resumedBy : Sessions \cup {NoSession}]

(* A batch is finite: of any of its lines, one comes first.                *)
ASSUME IngestAssumption ==
  /\ Rebuilder \notin Workers
  /\ NoToken \notin Tokens
  /\ Malformed \notin Events
  /\ Batches \subseteq Seq(Line)
  /\ \A b \in Batches : \A I \in SUBSET DOMAIN b :
       I # {} => \E first \in I : \A i \in I : first <= i
  /\ MaxBatch \in Nat
  /\ Rank \in [Sessions -> Nat]
  /\ Serialised \in BOOLEAN
  /\ MaxPosts \in Nat /\ MaxRebuilds \in Nat
  /\ NoRow \notin Row /\ Unwritten \notin Row /\ Unwritten # NoRow

VARIABLES
  table,      \* the committed events rows
  nextId,     \* the events table's next id
  rows,       \* the committed sessions rows
  pc,         \* what each process does next
  batch,      \* the batch it was given
  fresh,      \* the lines it takes to be new, after the hash lookup
  ins,        \* the events rows its transaction has inserted
  wrote,      \* the sessions rows its transaction has written
  todo,       \* sessions still to project, with the token to project under
  turn,       \* the session being projected: its fold, and its row as read
  projected,  \* sessions to publish after the commit
  announced,  \* sessions a delta has been published for
  acked,      \* events a 202 answer has accepted
  posts,      \* batches posted so far
  rebuilds    \* rebuilds started so far

vars == <<table, nextId, rows, pc, batch, fresh, ins, wrote, todo, turn,
          projected, announced, acked, posts, rebuilds>>

-----------------------------------------------------------------------------
(* The lines accept() keeps: within max_batch, and passed by the validator. *)
Accepted(b) == {i \in DOMAIN b : i <= MaxBatch /\ b[i].ev # Malformed}

(* insert_events: the first line with each hash, unless the hash is known. *)
Fresh(b, known) ==
  {i \in Accepted(b) : /\ b[i].ev \notin known
                       /\ \A j \in Accepted(b) : b[j].ev = b[i].ev => i <= j}

Of(s, eventRows) == {r.ev : r \in {q \in eventRows : q.ev.sid = s}}

(* What a statement of p reads: the committed rows under its own writes.   *)
RowSeen(p, s) == IF wrote[p][s] = Unwritten THEN rows[s] ELSE wrote[p][s]

(* A process is in a write transaction from its first write to its end.    *)
Writing == {"list", "fold", "load", "write", "link", "commit"}

WriterFree(p) == Serialised => \A q \in Procs \ {p} : pc[q] \notin Writing

(* No other transaction has written the sessions row of s.                 *)
RowFree(p, s) == \A q \in Procs \ {p} : wrote[q][s] = Unwritten

(* The order of projection: the tokens of a batch in the order its new     *)
(* lines first name them and the sessions of each likewise; a rebuild      *)
(* takes the sessions in the order of their ids.                           *)
TokenLines(p, t)   == {i \in fresh[p] : batch[p][i].token = t.token}
SessionLines(p, t) == {i \in TokenLines(p, t) : batch[p][i].ev.sid = t.sid}

Precedes(p, a, b) ==
  IF p = Rebuilder THEN Rank[a.sid] < Rank[b.sid]
  ELSE IF a.token # b.token
       THEN Min(TokenLines(p, a)) < Min(TokenLines(p, b))
       ELSE Min(SessionLines(p, a)) < Min(SessionLines(p, b))

(* The token a session is projected under: the batch's own, and in a       *)
(* rebuild the one the session's first events row came with.               *)
ProjectedUnder(p, t, token) ==
  IF p = Rebuilder
  THEN \E r \in table : /\ r.ev.sid = t.sid /\ r.token = token
                        /\ \A q \in table : q.ev.sid = t.sid => r.id <= q.id
  ELSE token = t.token

NoTurn == [sid |-> NoSession, token |-> NoToken, derived |-> Derived({}),
           row |-> NoRow]

(* After the last session of a transaction comes its commit.               *)
FoldOrCommit(left) == IF left = {} THEN "commit" ELSE "fold"

-----------------------------------------------------------------------------
Init ==
  /\ table = {} /\ nextId = 1
  /\ rows = [s \in Sessions |-> NoRow]
  /\ pc = [p \in Procs |-> "idle"]
  /\ batch = [p \in Procs |-> <<>>]
  /\ fresh = [p \in Procs |-> {}]
  /\ ins = [p \in Procs |-> {}]
  /\ wrote = [p \in Procs |-> [s \in Sessions |-> Unwritten]]
  /\ todo = [p \in Procs |-> {}]
  /\ turn = [p \in Procs |-> NoTurn]
  /\ projected = [p \in Procs |-> {}]
  /\ announced = {} /\ acked = {} /\ posts = 0 /\ rebuilds = 0

(* p forgets its work: nothing of it is committed or kept.                 *)
Rest(p) ==
  /\ pc' = [pc EXCEPT ![p] = "idle"]
  /\ batch' = [batch EXCEPT ![p] = <<>>]
  /\ fresh' = [fresh EXCEPT ![p] = {}]
  /\ ins' = [ins EXCEPT ![p] = {}]
  /\ wrote' = [wrote EXCEPT ![p] = [s \in Sessions |-> Unwritten]]
  /\ todo' = [todo EXCEPT ![p] = {}]
  /\ turn' = [turn EXCEPT ![p] = NoTurn]
  /\ projected' = [projected EXCEPT ![p] = {}]

(* A batch arrives: a new one, one resent, one delayed or reordered.       *)
Receive(p, b) ==
  /\ pc[p] = "idle" /\ posts < MaxPosts
  /\ posts' = posts + 1
  /\ batch' = [batch EXCEPT ![p] = b]
  /\ pc' = [pc EXCEPT ![p] = "lookup"]
  /\ UNCHANGED <<table, nextId, rows, fresh, ins, wrote, todo, turn,
                 projected, announced, acked, rebuilds>>

(* Which of the batch's hashes are stored.  Under SQLite this statement    *)
(* runs before the write transaction it decides about.                     *)
Lookup(p) ==
  /\ pc[p] = "lookup"
  /\ LET new == Fresh(batch[p], {r.ev : r \in table})
     IN  /\ fresh' = [fresh EXCEPT ![p] = new]
         /\ pc' = [pc EXCEPT ![p] = IF new = {} THEN "publish" ELSE "insert"]
  /\ UNCHANGED <<table, nextId, rows, batch, ins, wrote, todo, turn,
                 projected, announced, acked, posts, rebuilds>>

(* Slip: a plain INSERT of what the lookup took to be new, with neither    *)
(* the conflict clause nor the unique index behind it.                     *)
InsertPlain(p) ==
  /\ pc[p] = "insert"
  /\ WriterFree(p)
  /\ ins' = [ins EXCEPT ![p] =
                {[id |-> nextId + i, ev |-> batch[p][i].ev,
                  token |-> batch[p][i].token] : i \in fresh[p]}]
  /\ nextId' = nextId + Len(batch[p])
  /\ todo' = [todo EXCEPT ![p] =
                {[sid |-> batch[p][i].ev.sid, token |-> batch[p][i].token]
                   : i \in fresh[p]}]
  /\ pc' = [pc EXCEPT ![p] = "fold"]
  /\ UNCHANGED <<table, rows, batch, fresh, wrote, turn, projected,
                 announced, acked, posts, rebuilds>>

(* INSERT ... ON CONFLICT DO NOTHING: a line another batch has stored      *)
(* since the lookup inserts nothing, and one another transaction is        *)
(* inserting is waited for.  The sessions to project come from the lines   *)
(* the lookup took to be new, whether they were inserted or not.           *)
Insert(p) ==
  /\ pc[p] = "insert"
  /\ WriterFree(p)
  /\ \A q \in Procs \ {p} : \A r \in ins[q] :
       \A i \in fresh[p] : r.ev # batch[p][i].ev
  /\ LET new == {i \in fresh[p] : \A r \in table : r.ev # batch[p][i].ev}
     IN  ins' = [ins EXCEPT ![p] =
                   {[id |-> nextId + i, ev |-> batch[p][i].ev,
                     token |-> batch[p][i].token] : i \in new}]
  /\ nextId' = nextId + Len(batch[p])
  /\ todo' = [todo EXCEPT ![p] =
                {[sid |-> batch[p][i].ev.sid, token |-> batch[p][i].token]
                   : i \in fresh[p]}]
  /\ pc' = [pc EXCEPT ![p] = "fold"]
  /\ UNCHANGED <<table, rows, batch, fresh, wrote, turn, projected,
                 announced, acked, posts, rebuilds>>

(* Slip: the session is folded from the batch's own events alone.          *)
FoldBatchOnly(p) ==
  /\ pc[p] = "fold"
  /\ \E t \in todo[p], token \in TokenId :
       /\ \A u \in todo[p] : ~ Precedes(p, u, t)
       /\ ProjectedUnder(p, t, token)
       /\ turn' = [turn EXCEPT ![p] =
                     [sid |-> t.sid, token |-> token, row |-> NoRow,
                      derived |-> Derived(Of(t.sid, IF p = Rebuilder THEN table
                                                    ELSE ins[p]))]]
       /\ todo' = [todo EXCEPT ![p] = @ \ {t}]
  /\ pc' = [pc EXCEPT ![p] = "load"]
  /\ UNCHANGED <<table, nextId, rows, batch, fresh, ins, wrote, projected,
                 announced, acked, posts, rebuilds>>

(* project_session reads the session's events, all of them, and folds.     *)
FoldEvents(p) ==
  /\ pc[p] = "fold"
  /\ \E t \in todo[p], token \in TokenId :
       /\ \A u \in todo[p] : ~ Precedes(p, u, t)
       /\ ProjectedUnder(p, t, token)
       /\ turn' = [turn EXCEPT ![p] =
                     [sid |-> t.sid, token |-> token, row |-> NoRow,
                      derived |-> Derived(Of(t.sid, table \cup ins[p]))]]
       /\ todo' = [todo EXCEPT ![p] = @ \ {t}]
  /\ pc' = [pc EXCEPT ![p] = "load"]
  /\ UNCHANGED <<table, nextId, rows, batch, fresh, ins, wrote, projected,
                 announced, acked, posts, rebuilds>>

(* ... then the row the session already has, if any ...                    *)
LoadSession(p) ==
  /\ pc[p] = "load"
  /\ turn' = [turn EXCEPT ![p].row = RowSeen(p, turn[p].sid)]
  /\ pc' = [pc EXCEPT ![p] = "write"]
  /\ UNCHANGED <<table, nextId, rows, batch, fresh, ins, wrote, todo,
                 projected, announced, acked, posts, rebuilds>>

(* Slips: the row is written with no resumed_by, as the fold leaves it; or *)
(* with a null token when the batch came with none.                        *)
NewRowUnlinked(t) ==
  [derived   |-> t.derived,
   token     |-> IF t.token = NoToken /\ t.row # NoRow THEN t.row.token
                                                       ELSE t.token,
   resumedBy |-> NoSession]

NewRowNullToken(t) ==
  [derived   |-> t.derived,
   token     |-> IF t.token = NoToken THEN NoRow ELSE t.token,
   resumedBy |-> IF t.row = NoRow THEN NoSession ELSE t.row.resumedBy]

(* The row to write: the fold, resumed_by kept, and the token too unless   *)
(* this projection has one of its own.                                     *)
NewRow(t) ==
  [derived   |-> t.derived,
   token     |-> IF t.token = NoToken /\ t.row # NoRow THEN t.row.token
                                                       ELSE t.token,
   resumedBy |-> IF t.row = NoRow THEN NoSession ELSE t.row.resumedBy]

(* ... and writes it.  An INSERT of a row another transaction committed    *)
(* meanwhile is a key violation, which only Fail(p) follows; an UPDATE of  *)
(* a row that is gone writes nothing.                                      *)
WriteSession(p) ==
  /\ pc[p] = "write"
  /\ LET s == turn[p].sid
         seen == RowSeen(p, s)
     IN  /\ RowFree(p, s)
         /\ turn[p].row = NoRow => seen = NoRow
         /\ wrote' = IF turn[p].row # NoRow /\ seen = NoRow THEN wrote
                     ELSE [wrote EXCEPT ![p][s] = NewRow(turn[p])]
  /\ pc' = [pc EXCEPT ![p] = "link"]
  /\ UNCHANGED <<table, nextId, rows, batch, fresh, ins, todo, turn,
                 projected, announced, acked, posts, rebuilds>>

(* Slips: the link is written the wrong way round; or the delta goes out   *)
(* as each session is projected, ahead of the commit.                      *)
LinkReversed(p) ==
  /\ pc[p] = "link"
  /\ LET s == turn[p].sid
         from == turn[p].derived.resumedFrom
     IN  /\ IF from = NoSession \/ from = s \/ RowSeen(p, from) = NoRow
            THEN wrote' = wrote
            ELSE wrote' = [wrote EXCEPT ![p][s] =
                             [RowSeen(p, s) EXCEPT !.resumedBy = from]]
         /\ projected' = [projected EXCEPT ![p] = @ \cup {s}]
  /\ turn' = [turn EXCEPT ![p] = NoTurn]
  /\ pc' = [pc EXCEPT ![p] = FoldOrCommit(todo[p])]
  /\ UNCHANGED <<table, nextId, rows, batch, fresh, ins, todo, announced,
                 acked, posts, rebuilds>>

LinkAndPublish(p) ==
  /\ pc[p] = "link"
  /\ LET s == turn[p].sid
         from == turn[p].derived.resumedFrom
     IN  /\ wrote' = IF from = NoSession \/ RowSeen(p, from) = NoRow THEN wrote
                     ELSE [wrote EXCEPT ![p][from] =
                             [RowSeen(p, from) EXCEPT !.resumedBy = s]]
         /\ projected' = [projected EXCEPT ![p] = @ \cup {s}]
         /\ announced' = announced \cup {s}
  /\ turn' = [turn EXCEPT ![p] = NoTurn]
  /\ pc' = [pc EXCEPT ![p] = FoldOrCommit(todo[p])]
  /\ UNCHANGED <<table, nextId, rows, batch, fresh, ins, todo, acked,
                 posts, rebuilds>>

(* _link_resume: the resumed session's row, when there is one, learns who  *)
(* carried it on.  A row another transaction has only inserted is not      *)
(* there yet; one it has updated is waited for.                            *)
LinkResume(p) ==
  /\ pc[p] = "link"
  /\ LET s == turn[p].sid
         from == turn[p].derived.resumedFrom
     IN  /\ IF from = NoSession \/ from = s \/ RowSeen(p, from) = NoRow
            THEN wrote' = wrote
            ELSE /\ RowFree(p, from)
                 /\ wrote' = [wrote EXCEPT ![p][from] =
                                [RowSeen(p, from) EXCEPT !.resumedBy = s]]
         /\ projected' = [projected EXCEPT ![p] = @ \cup {s}]
  /\ turn' = [turn EXCEPT ![p] = NoTurn]
  /\ pc' = [pc EXCEPT ![p] = FoldOrCommit(todo[p])]
  /\ UNCHANGED <<table, nextId, rows, batch, fresh, ins, todo, announced,
                 acked, posts, rebuilds>>

(* The transaction ends: what it wrote is there for everyone at once.      *)
Commit(p) ==
  /\ pc[p] = "commit"
  /\ table' = table \cup ins[p]
  /\ rows' = [s \in Sessions |-> RowSeen(p, s)]
  /\ IF p = Rebuilder
     THEN Rest(p)
     ELSE /\ pc' = [pc EXCEPT ![p] = "publish"]
          /\ ins' = [ins EXCEPT ![p] = {}]
          /\ wrote' = [wrote EXCEPT ![p] = [s \in Sessions |-> Unwritten]]
          /\ UNCHANGED <<batch, fresh, todo, turn, projected>>
  /\ UNCHANGED <<nextId, announced, acked, posts, rebuilds>>

(* A delta to every open stream for each session projected.                *)
Publish(p) ==
  /\ pc[p] = "publish"
  /\ announced' = announced \cup projected[p]
  /\ pc' = [pc EXCEPT ![p] = "answer"]
  /\ UNCHANGED <<table, nextId, rows, batch, fresh, ins, wrote, todo, turn,
                 projected, acked, posts, rebuilds>>

(* The 202: every line that was not rejected is stored or a duplicate.     *)
Answer(p) ==
  /\ pc[p] = "answer"
  /\ acked' = acked \cup {batch[p][i].ev : i \in Accepted(batch[p])}
  /\ Rest(p)
  /\ UNCHANGED <<table, nextId, rows, announced, posts, rebuilds>>

(* rebuild: DELETE every sessions row, list the sessions that have events, *)
(* and project each in the same transaction.                               *)
DropRows(p) ==
  /\ p = Rebuilder /\ pc[p] = "idle" /\ rebuilds < MaxRebuilds
  /\ WriterFree(p)
  /\ \A s \in Sessions : rows[s] # NoRow => RowFree(p, s)
  /\ rebuilds' = rebuilds + 1
  /\ wrote' = [wrote EXCEPT ![p] =
                 [s \in Sessions |-> IF rows[s] = NoRow THEN Unwritten
                                                        ELSE NoRow]]
  /\ pc' = [pc EXCEPT ![p] = "list"]
  /\ UNCHANGED <<table, nextId, rows, batch, fresh, ins, todo, turn,
                 projected, announced, acked, posts>>

ListSessions(p) ==
  /\ pc[p] = "list"
  /\ LET all == {[sid |-> r.ev.sid, token |-> NoToken] : r \in table}
     IN  /\ todo' = [todo EXCEPT ![p] = all]
         /\ pc' = [pc EXCEPT ![p] = FoldOrCommit(all)]
  /\ UNCHANGED <<table, nextId, rows, batch, fresh, ins, wrote, turn,
                 projected, announced, acked, posts, rebuilds>>

(* Slip: a failed transaction is logged and the batch answered as usual.   *)
FailAnswered(p) ==
  /\ pc[p] \in Writing
  /\ pc' = [pc EXCEPT ![p] = IF p = Rebuilder THEN "idle" ELSE "answer"]
  /\ ins' = [ins EXCEPT ![p] = {}]
  /\ wrote' = [wrote EXCEPT ![p] = [s \in Sessions |-> Unwritten]]
  /\ todo' = [todo EXCEPT ![p] = {}]
  /\ turn' = [turn EXCEPT ![p] = NoTurn]
  /\ projected' = [projected EXCEPT ![p] = {}]
  /\ UNCHANGED <<table, nextId, rows, batch, fresh, announced, acked, posts,
                 rebuilds>>

(* The request or its process ends early, by a busy database, a deadlock   *)
(* or key violation, or a crash: its transaction leaves nothing behind.    *)
Fail(p) ==
  /\ pc[p] # "idle"
  /\ Rest(p)
  /\ UNCHANGED <<table, nextId, rows, announced, acked, posts, rebuilds>>

Step(p) ==
  \/ Lookup(p) \/ Insert(p)
  \/ FoldEvents(p) \/ LoadSession(p) \/ WriteSession(p) \/ LinkResume(p)
  \/ Commit(p) \/ Publish(p) \/ Answer(p)
  \/ DropRows(p) \/ ListSessions(p)
  \/ Fail(p)

Next == \/ \E p \in Workers, b \in Batches : Receive(p, b)
        \/ \E p \in Procs : Step(p)

Spec == Init /\ [][Next]_vars

-----------------------------------------------------------------------------
(* Every variable keeps to its type; a sessions row is always one that     *)
(* projection.py could have written.                                       *)
TypeOK ==
  /\ table \subseteq EventRow
  /\ nextId \in Nat
  /\ rows \in [Sessions -> Row \cup {NoRow}]
  /\ pc \in [Procs -> Writing \cup {"idle", "lookup", "insert", "publish",
                                    "answer"}]
  /\ batch \in [Procs -> Batches \cup {<<>>}]
  /\ fresh \in [Procs -> SUBSET Nat]
  /\ \A p \in Procs : fresh[p] \subseteq Accepted(batch[p])
  /\ ins \in [Procs -> SUBSET EventRow]
  /\ wrote \in [Procs -> [Sessions -> Row \cup {NoRow, Unwritten}]]
  /\ todo \in [Procs -> SUBSET [sid : Sessions, token : TokenId]]
  /\ turn \in [Procs -> [sid : Sessions \cup {NoSession}, token : TokenId,
                         derived : Columns, row : Row \cup {NoRow}]]
  /\ projected \in [Procs -> SUBSET Sessions]
  /\ announced \subseteq Sessions
  /\ acked \subseteq Events
  /\ posts \in Nat /\ rebuilds \in Nat

StoredOf(s) == Of(s, table)

(* A sessions row says what the events stored for its session say, in      *)
(* every state anyone can read: "a session's completeness columns are      *)
(* right the moment its events are" (ingest.py:308).                       *)
ProjectionCurrent ==
  \A s \in Sessions :
    IF StoredOf(s) = {} THEN rows[s] = NoRow
    ELSE rows[s] # NoRow /\ rows[s].derived = Derived(StoredOf(s))

(* A session that reads as complete has every event it sent, up to the     *)
(* one that ended it, in the store, whatever was lost or came late.        *)
CompleteMeansAll ==
  \A s \in Sessions :
    rows[s] # NoRow /\ rows[s].derived.complete =>
      /\ StoredOf(s) \cap OfKind(Events, TerminalKinds) # {}
      /\ {e \in Events : e.sid = s /\ e.seq <= rows[s].derived.expected}
           \subseteq StoredOf(s)

(* Nothing a 202 accepted is ever missing from the store, whichever of the *)
(* threads that were sent it stored it and whichever of them failed.       *)
AcknowledgedDurable == acked \subseteq {r.ev : r \in table}

(* No event is in the store twice, however often and from however many     *)
(* threads at once it is sent: "two batches racing on the same hash"       *)
(* (writes.py:112).                                                        *)
StoredOnce == \A r, q \in table : r.ev = q.ev => r = q

(* "A stream never hears about a session the database does not yet hold"   *)
(* (ingest.py:330), and the row it heard of outlives every rebuild.        *)
AnnouncedAreStored == \A s \in announced : rows[s] # NoRow

(* A session reads as resumed only by one whose row says it resumed it.    *)
(* (No session resumes two others: the last one named would win.)          *)
LinkSound ==
  \A s \in Sessions :
    rows[s] # NoRow /\ rows[s].resumedBy # NoSession =>
      LET b == rows[s].resumedBy
      IN  b # s /\ rows[b] # NoRow /\ rows[b].derived.resumedFrom = s

(* No later batch, of either session, makes a resumed session forget that  *)
(* it was resumed; only a rebuild may.                                     *)
LinkStays ==
  [][\A s \in Sessions :
       /\ rows[s] # NoRow /\ rows[s].resumedBy # NoSession
       /\ pc[Rebuilder] # "commit"
       => rows'[s] # NoRow /\ rows'[s].resumedBy # NoSession]_rows

-----------------------------------------------------------------------------
(* What the documentation says and the code does not always do.            *)

(* "token_id: the jti of the token the session's first batch arrived       *)
(* under" (docs/api.md:59).                                                *)
TokenIsFirst ==
  \A s \in Sessions :
    rows[s] # NoRow =>
      \E r \in table : /\ r.ev.sid = s /\ r.token = rows[s].token
                       /\ \A q \in table : q.ev.sid = s => r.id <= q.id

(* "The projection is derived, so this is always safe" (docs/cli.md:75):   *)
(* a rebuild writes the rows that were there.                              *)
RebuildReproduces == [][pc[Rebuilder] = "commit" => rows' = rows]_rows

=============================================================================
