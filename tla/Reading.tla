------------------------------- MODULE Reading --------------------------------
(***************************************************************************)
(* Readers of the store while it is written: a client that pages through   *)
(* the sessions or the events (list_sessions and query_events behind       *)
(* api/query.py), a download that streams a selection (dashboard.py), and  *)
(* the export command, whose file `import` loads into another store.       *)
(*                                                                         *)
(* A post is one step here: what happens inside it is in Ingest.  Each     *)
(* page and each chunk is one statement and sees the store as it is then.  *)
(* The store is SQLite's, where ids follow the order of the commits: a     *)
(* row's id is its place in the sequence.  A sessions row is what the      *)
(* events say, so it is derived and not kept.                              *)
(***************************************************************************)
EXTENDS Labels, Lists, FiniteSetsExt, Functions

CONSTANTS
  Sessions,    \* session ids
  Rank,        \* the text order of session ids
  Name,        \* the workshop of each session
  Collection,  \* the collection of each session
  Events,      \* the events clients send: [sid, seq, ts, opens, labels]
  Claims,      \* the tokens: [jti, labels]; NoClaims is an import without one
  NoClaims,
  Posts,       \* what may be posted: a sequence of events and its claims
  Imports,     \* what an import is given besides the file: claims and --label
  Filters,     \* the selections asked for
  Limits,      \* the page sizes asked for
  Unfiltered,  \* the filter on names or collections that is not there
  NoCursor,    \* no cursor
  Forged,      \* a cursor this service never issued
  Nothing,     \* what a reader does not have
  MaxBatch,    \* the setting max_batch
  MaxLimit,    \* MAX_LIMIT
  Chunk        \* EVENT_CHUNK

Trust  == Claims \cup {NoClaims}
NoToken == NoClaims.jti

ASSUME ReadingAssumption ==
  /\ Rank \in [Sessions -> Nat] /\ IsInjective(Rank)
  /\ \A e \in Events : /\ e.sid \in Sessions /\ e.seq \in Nat /\ e.ts \in Nat
                       /\ e.opens \in BOOLEAN
                       /\ e.labels \in Seq(Range(e.labels))
  /\ NoClaims.labels = <<>> /\ NoClaims \notin Claims
  /\ \A p \in Posts : p.events \in Seq(Events) /\ p.claims \in Trust
  /\ \A i \in Imports : i.claims \in Trust
  /\ \A f \in Filters :
       DOMAIN f = {"name", "collection", "since", "until", "labels"}
  /\ Nothing \notin Imports
  /\ NoCursor \notin Nat \cup [started : Nat, sid : Sessions]
  /\ Limits \subseteq Nat /\ MaxBatch \in Nat
  /\ MaxLimit \in Nat \ {0} /\ Chunk \in Nat \ {0}

(* An event's labels are an object: no two are under one key.  A key is the *)
(* sequence of its parts.                                                   *)
ASSUME LabelsAssumption ==
  \A e \in Events :
    /\ \A i \in DOMAIN e.labels : e.labels[i].key \in Seq(STRING)
    /\ \A i, j \in DOMAIN e.labels :
         e.labels[i].key = e.labels[j].key => i = j

VARIABLES
  store,  \* the events table, in the order of its ids
  walk,   \* what the reader is doing
  file,   \* the lines the reader has exported
  other   \* the events table of the store the file is loaded into

vars == <<store, walk, file, other>>

-----------------------------------------------------------------------------
(* Storing: Ingest.accept over a batch of plain events and exported lines. *)

Plain(event) == [exported |-> FALSE, event |-> event]

(* What makes two events the same: all of it but the labels.               *)
Hash(event) == [f \in DOMAIN event \ {"labels"} |-> event[f]]

(* What an event is stored with.  An exported line keeps what it was       *)
(* stored with before, the import's own labels put on top.                 *)
StoredEvent_Now(item, claims, extra, moment) ==
  LET trusted == Over(claims.labels, extra)
  IN  [ev       |-> item.event,
       labels   |-> IF item.exported THEN Over(trusted, item.labels)
                    ELSE MergeLabels(trusted, item.event.labels),
       token    |-> IF item.exported /\ item.token # NoToken
                    THEN item.token ELSE claims.jti,
       received |-> moment]

StoredEvent(item, claims, extra, moment) ==
  LET trusted == Over(claims.labels, extra)
  IN  [ev       |-> item.event,
       labels   |-> IF item.exported THEN Over(trusted, item.labels)
                    ELSE MergeLabels(trusted, item.event.labels),
       token    |-> IF item.exported /\ item.token # NoToken
                    THEN item.token ELSE claims.jti,
       received |-> IF item.exported THEN item.received ELSE moment]

(* Of the first MaxBatch items, the first with each hash that no row has.  *)
Fresh(rows, items) ==
  {n \in 1 .. Min({Len(items), MaxBatch}) :
     /\ \A r \in Range(rows) : Hash(r.ev) # Hash(items[n].event)
     /\ \A m \in 1 .. n - 1 : Hash(items[m].event) # Hash(items[n].event)}

(* They are stored, in their order.                                        *)
Accept(rows, items, claims, extra, moment) ==
  LET fresh == Ascending(Fresh(rows, items))
  IN  rows \o [n \in DOMAIN fresh |->
                 StoredEvent(items[fresh[n]], claims, extra, moment)]

(* The time: it goes on with what is stored anywhere.                      *)
Moment == Len(store) + Len(other) + 1

-----------------------------------------------------------------------------
(* The sessions rows of a table, as fold derives them from its events.     *)
Places(rows, s) == {i \in DOMAIN rows : rows[i].ev.sid = s}
Present(rows)   == {rows[i].ev.sid : i \in DOMAIN rows}

First(rows, s) ==
  CHOOSE i \in Places(rows, s) : \A j \in Places(rows, s) :
    \/ rows[i].ev.seq < rows[j].ev.seq
    \/ rows[i].ev.seq = rows[j].ev.seq /\ i <= j

StartedAt(rows, s) ==
  Min({rows[First(rows, s)].ev.ts}
      \cup {rows[i].ev.ts : i \in {j \in Places(rows, s) : rows[j].ev.opens}})

LabelsOf(rows, s) == rows[First(rows, s)].labels

Selects(f, name, collection, moment, labels) ==
  /\ f.name \in {Unfiltered, name} /\ f.collection \in {Unfiltered, collection}
  /\ f.since <= moment /\ moment < f.until
  /\ Matches(labels, f.labels)

LoadSessions(rows, f) ==
  {s \in Present(rows) : Selects(f, Name[s], Collection[s], StartedAt(rows, s),
                                 LabelsOf(rows, s))}

Precedes(key, other_) ==
  \/ key.started < other_.started
  \/ key.started = other_.started /\ Rank[key.sid] < Rank[other_.sid]

Key(rows, s) == [started |-> StartedAt(rows, s), sid |-> s]

NewestFirst(rows, S) ==
  Ranked([s \in S |-> {t \in S : Precedes(Key(rows, s), Key(rows, t))}])

Upto(seq, n) == SubSeq(seq, 1, Min({Len(seq), n}))

(* The page size, whatever was asked for.                                  *)
Limited_High(limit) == Min({limit, MaxLimit})

Limited(limit) == Max({1, Min({limit, MaxLimit})})

-----------------------------------------------------------------------------
(* One page: what it holds, and the cursor it names the next one by.       *)

(* Slip: the cursor is the next session, which is then not below it.       *)
ListSessions_Next(rows, f, limit, cursor) ==
  LET left == NewestFirst(rows, {s \in LoadSessions(rows, f) :
                                   cursor = NoCursor
                                     \/ Precedes(Key(rows, s), cursor)})
  IN  [items |-> Upto(left, limit),
       next  |-> IF Len(left) > limit THEN Key(rows, left[limit + 1])
                                      ELSE NoCursor]

ListSessions(rows, f, limit, cursor) ==
  LET left == NewestFirst(rows, {s \in LoadSessions(rows, f) :
                                   cursor = NoCursor
                                     \/ Precedes(Key(rows, s), cursor)})
  IN  [items |-> Upto(left, limit),
       next  |-> IF Len(left) > limit THEN Key(rows, left[limit]) ELSE NoCursor]

(* The rows the statement finds: on the columns, not on the labels.        *)
Found(rows, f) ==
  {i \in DOMAIN rows :
     LET e == rows[i].ev
     IN  Selects([f EXCEPT !.labels = {}], Name[e.sid], Collection[e.sid], e.ts,
                 rows[i].labels)}

(* Slip: a page that its selector empties is taken for the last.           *)
QueryEvents_Short(rows, f, limit, cursor) ==
  LET read == Ascending({i \in Found(rows, f) : cursor = NoCursor \/ i > cursor})
      page == Ascending({i \in Range(Upto(read, limit)) :
                           Matches(rows[i].labels, f.labels)})
  IN  [items |-> page,
       next  |-> IF Len(read) > limit /\ page # <<>> THEN read[limit] ELSE NoCursor]

QueryEvents(rows, f, limit, cursor) ==
  LET read == Ascending({i \in Found(rows, f) : cursor = NoCursor \/ i > cursor})
      page == Ascending({i \in Range(Upto(read, limit)) :
                           Matches(rows[i].labels, f.labels)})
  IN  [items |-> page,
       next  |-> IF Len(read) > limit THEN read[limit] ELSE NoCursor]

(* The answer to a name: its one collection, or which refusal it gets.     *)
ResolveWorkshop(rows, f) ==
  LET seen == {Collection[s] : s \in {t \in Present(rows) : Name[t] = f.name}}
  IN  IF f.collection # Unfiltered THEN <<"ok", f.collection>>
      ELSE IF seen = {} THEN <<"404", Unfiltered>>
      ELSE IF Cardinality(seen) > 1 THEN <<"409", Unfiltered>>
      ELSE <<"ok", CHOOSE c \in seen : TRUE>>

(* load_events of some sessions: session by session, each in its order.    *)
LoadEvents(rows, S) ==
  LET places == {i \in DOMAIN rows : rows[i].ev.sid \in S}
      Earlier(i, j) == LET d == rows[i].ev  e == rows[j].ev
                       IN  \/ Rank[d.sid] < Rank[e.sid]
                           \/ d.sid = e.sid /\ d.seq < e.seq
                           \/ d.sid = e.sid /\ d.seq = e.seq /\ i < j
  IN  Ranked([j \in places |-> {i \in places : Earlier(i, j)}])

-----------------------------------------------------------------------------
Idle == [task |-> "none", state |-> "idle", filter |-> Nothing, limit |-> 1,
         cursor |-> NoCursor, queue |-> <<>>, seen |-> <<>>, owed |-> {},
         early |-> {}, given |-> Nothing]

Init == store = <<>> /\ walk = Idle /\ file = <<>> /\ other = <<>>

Walking == walk.task \in {"sessions", "workshop"} /\ walk.state = "on"

(* A post.  What a reader of the sessions is still owed: those there since *)
(* it began that were selected and did not start later ever since.         *)
Post(p) ==
  /\ store' = Accept(store, [i \in DOMAIN p.events |-> Plain(p.events[i])],
                     p.claims, <<>>, Moment)
  /\ walk' = IF ~Walking THEN walk ELSE
       [walk EXCEPT
          !.owed  = {s \in @ : /\ s \in LoadSessions(store', walk.filter)
                               /\ StartedAt(store', s) <= StartedAt(store, s)},
          !.early = @ \cup {s \in Present(store) :
                              StartedAt(store', s) < StartedAt(store, s)}]
  /\ UNCHANGED <<file, other>>

(* A reader begins; a cursor it may have from elsewhere is not ours.       *)
Begin(task, f, limit, cursor, owed) ==
  /\ walk.task = "none"
  /\ walk' = [Idle EXCEPT !.task = task, !.state = "on", !.filter = f,
                          !.limit = Limited(limit), !.cursor = cursor,
                          !.owed = owed]
  /\ UNCHANGED <<store, file, other>>

BeginSessions(task, f, limit, cursor) ==
  /\ task = "workshop" => f.name # Unfiltered
  /\ Begin(task, f, limit, cursor, LoadSessions(store, f))

BeginEvents(f, limit, cursor) ==
  Begin("events", f, limit, cursor,
        {i \in Found(store, f) : Matches(store[i].labels, f.labels)})

(* The answer of a page: its items, and whether the reader goes on.        *)
Turn(page) ==
  walk' = [walk EXCEPT !.seen   = @ \o page.items,
                       !.cursor = page.next,
                       !.state  = IF page.next = NoCursor THEN "done" ELSE "on"]

Refuse(status) == walk' = [walk EXCEPT !.state = status]

(* GET /api/sessions and GET /api/workshops/{name}/sessions, which finds   *)
(* out what the name means each time, before it looks at the cursor.       *)
ReadSessions ==
  /\ Walking
  /\ LET found == IF walk.task = "workshop" THEN ResolveWorkshop(store, walk.filter)
                  ELSE <<"ok", walk.filter.collection>>
         f     == [walk.filter EXCEPT !.collection = found[2]]
     IN  IF found[1] # "ok" THEN Refuse(found[1])
         ELSE IF walk.cursor = Forged THEN Refuse("400")
         ELSE Turn(ListSessions(store, f, walk.limit, walk.cursor))
  /\ UNCHANGED <<store, file, other>>

(* GET /api/events.                                                        *)
ReadEvents ==
  /\ walk.task = "events" /\ walk.state = "on"
  /\ IF walk.cursor = Forged THEN Refuse("400")
     ELSE Turn(QueryEvents(store, walk.filter, walk.limit, walk.cursor))
  /\ UNCHANGED <<store, file, other>>

(* GET /downloads/events.ndjson: the sessions first, and then the events   *)
(* of a chunk of them at a time, as they are when the chunk is read.       *)
BeginDownload(f) ==
  /\ walk.task = "none"
  /\ LET listed == LoadSessions(store, f)
     IN  walk' = [Idle EXCEPT !.task = "download", !.state = "on",
                    !.filter = f, !.queue = NewestFirst(store, listed),
                    !.owed = {i \in DOMAIN store : store[i].ev.sid \in listed}]
  /\ UNCHANGED <<store, file, other>>

(* Slip: a chunk is one session shorter than the step to the next.         *)
ReadChunk_Short ==
  /\ walk.task = "download" /\ walk.state = "on"
  /\ walk' = IF walk.queue = <<>> THEN [walk EXCEPT !.state = "done"] ELSE
       [walk EXCEPT
          !.seen  = @ \o LoadEvents(store, Range(Upto(walk.queue, Chunk - 1))),
          !.queue = SubSeq(@, Chunk + 1, Len(@))]
  /\ UNCHANGED <<store, file, other>>

ReadChunk ==
  /\ walk.task = "download" /\ walk.state = "on"
  /\ walk' = IF walk.queue = <<>> THEN [walk EXCEPT !.state = "done"] ELSE
       [walk EXCEPT
          !.seen  = @ \o LoadEvents(store, Range(Upto(walk.queue, Chunk))),
          !.queue = SubSeq(@, Chunk + 1, Len(@))]
  /\ UNCHANGED <<store, file, other>>

(* The export command: one statement, its rows in the order of their ids.  *)
Export(f) ==
  /\ walk.task = "none"
  /\ LET rows == Ascending({i \in Found(store, f) :
                              Matches(store[i].labels, f.labels)})
     IN  file' = [n \in DOMAIN rows |->
                    [exported |-> TRUE,
                     event    |-> store[rows[n]].ev,
                     labels   |-> store[rows[n]].labels,
                     token    |-> store[rows[n]].token,
                     received |-> store[rows[n]].received]]
  /\ walk' = [Idle EXCEPT !.task = "export", !.state = "done"]
  /\ UNCHANGED <<store, other>>

(* `import` of the file into a store that is new.                          *)
Import(i) ==
  /\ walk.task = "export"
  /\ other' = Accept(other, file, i.claims, i.labels, Moment)
  /\ walk' = [walk EXCEPT !.state = "loaded",
                          !.given = IF @ = Nothing THEN i ELSE @]
  /\ UNCHANGED <<store, file>>

Next ==
  \/ \E p \in Posts : Post(p)
  \/ \E task \in {"sessions", "workshop"}, f \in Filters, limit \in Limits,
        cursor \in {NoCursor, Forged} : BeginSessions(task, f, limit, cursor)
  \/ \E f \in Filters, limit \in Limits, cursor \in {NoCursor, Forged} :
        BeginEvents(f, limit, cursor)
  \/ \E f \in Filters : BeginDownload(f) \/ Export(f)
  \/ ReadSessions \/ ReadEvents \/ ReadChunk
  \/ \E i \in Imports : Import(i)

Spec == Init /\ [][Next]_vars

-----------------------------------------------------------------------------
RowType(r) ==
  /\ r.ev \in Events /\ r.received \in Nat \ {0}
  /\ r.token \in {c.jti : c \in Trust}

(* Rows are whole, a page is never empty by its limit, and a cursor points *)
(* at something stored (queries.py:1719-1755 and 2010-2077).               *)
TypeOK ==
  /\ \A i \in DOMAIN store : RowType(store[i])
  /\ \A i \in DOMAIN other : RowType(other[i])
  /\ walk.limit \in 1 .. MaxLimit
  /\ walk.cursor \notin {NoCursor, Forged} =>
       IF walk.task = "events" THEN walk.cursor \in DOMAIN store
       ELSE walk.cursor.sid \in Present(store)

(* A client that pages to the end sees every session that was selected all *)
(* the while and never started later than it was taken to, and sees one    *)
(* twice only if it turned out to have started earlier                     *)
(* (queries.py:1719-1755).                                                 *)
NoneSkipped ==
  walk.task \in {"sessions", "workshop"} /\ walk.state = "done" =>
    /\ walk.owed \subseteq Range(walk.seen)
    /\ \A i, j \in DOMAIN walk.seen :
         i # j /\ walk.seen[i] = walk.seen[j] => walk.seen[i] \in walk.early

(* Paging through the events gives each that matches once, in the order    *)
(* they were stored, and leaves out none that was there at the start, even *)
(* where the selector empties a page (queries.py:2010-2077).               *)
EventsPagedWhole ==
  walk.task = "events" =>
    /\ \A i, j \in DOMAIN walk.seen : i < j => walk.seen[i] < walk.seen[j]
    /\ walk.state = "done" => walk.owed \subseteq Range(walk.seen)

(* A download holds, of every session selected when it began, each event   *)
(* stored by then once, and those of a session in their order              *)
(* (dashboard.py:497-534).                                                 *)
DownloadWhole ==
  walk.task = "download" =>
    /\ IsInjective(walk.seen)
    /\ \A i, j \in DOMAIN walk.seen :
         LET d == store[walk.seen[i]].ev  e == store[walk.seen[j]].ev
         IN  i < j /\ d.sid = e.sid => d.seq <= e.seq
    /\ walk.state = "done" => walk.owed \subseteq Range(walk.seen)

(* A row loaded from an export is the row that was exported: the same      *)
(* event, when it was received, the token if there was one, and its labels *)
(* but for those the import put on top; and as many as one import reads    *)
(* (ingest.py:139-174 and 278-304, cli.py:346-426).                        *)
ExportRestores ==
  walk.task = "export" /\ walk.state = "loaded" =>
    /\ Len(other) = Min({Len(file), MaxBatch})
    /\ \A n \in DOMAIN other : \E i \in DOMAIN store :
         LET row == store[i]  copy == other[n]
             mine == DOMAIN walk.given.claims.labels \cup DOMAIN walk.given.labels
         IN  /\ copy.ev = row.ev /\ copy.received = row.received
             /\ row.token # NoToken => copy.token = row.token
             /\ DOMAIN copy.labels = DOMAIN row.labels \cup mine
             /\ \A k \in DOMAIN row.labels \ mine : copy.labels[k] = row.labels[k]

(* In every row the sink stored, the labels are the token's and the        *)
(* client's, none of them lost but by the collision of a key with another   *)
(* behind the reserved prefix, which Kept says when and to whose gain       *)
(* (labels.py:68-88).                                                       *)
LabelsKept ==
  \A i \in DOMAIN store :
    \E c \in Trust : /\ c.jti = store[i].token
                     /\ Kept(c.labels, store[i].ev.labels, store[i].labels)

(* "The token's labels are the operator's signed statement and always      *)
(* stand", and an event's label with the same key is kept under the        *)
(* reserved prefix, "so nothing a client sent is lost" (labels.py:73-76).  *)
NoLabelLost ==
  \A i \in DOMAIN store :
    \A c \in Trust :
      c.jti = store[i].token =>
        NoneLost(c.labels, store[i].ev.labels, store[i].labels)

(* "Write the stored events as JSON lines that `import` reads back whole." *)
(* (cli.py:347): one import of a file loads all of it.                     *)
RestoredWhole ==
  walk.task = "export" /\ walk.state = "loaded" => Len(other) = Len(file)

=============================================================================
