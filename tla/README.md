# Workshop analytics: a verification development

The service takes the events of workshop sessions over HTTP, stores each of
them once, keeps one derived row per session, and shows the sessions under way
on a live page. This directory holds TLA+ models of it, the TLC runs that
check them on small instances, and proofs, checked by TLAPS, of the most
important results for every size of the system. Paths below are relative to
`src/src/workshop_analytics/` unless they start with `docs/`.

## The system

| component | state | operations | works with |
|---|---|---|---|
| sink (`api/sink.py`) | none | `receive`, `preflight` | checks a token, asks the rate limiter, reads the body and hands the lines to the pipeline in a thread pool |
| pipeline (`ingest.py`, `store/writes.py`) | none of its own | `Ingest.accept`, `insert_events` | one transaction on the store, then the broadcaster |
| rate limiter (`ingest.py`) | request times per token | `allow` | the sink |
| projection (`projection.py`) | the `sessions` table | `project_session`, `apply_events`, `rebuild`, `live_rows` | reads the `events` table inside the pipeline's transaction |
| store (`store/`) | tables `events`, `sessions` | transactions | SQLite (one writer) today, PostgreSQL planned |
| broadcaster (`live.py`) | subscribers, their queues, `closed` | `subscribe`, `unsubscribe`, `publish`, `close`, `stream` | called by pipeline threads and the shutdown; runs on the event loop |
| live page (`dashboard/static/live.js`) | its rows, its stream | `load`, `subscribe`, `accept`, `render`, timers | `GET /api/live`, `GET /api/live/stream` |
| tokens (`tokens.py`, `api/auth.py`) | deny list, cookie | `issue`, `verify`, `read_session` | every route |
| queries (`queries.py`, `labels.py`, `selectors.py`) | none | journeys, outcomes, funnels, coverage, checks, trends, learners, paging | query API, dashboard, MCP server |
| dashboard (`api/dashboard.py`, `views.py`) | none | overview, history, downloads, charts, sign in and out | queries, one statement after the other |
| command line (`cli.py`) | none | `serve`, `import`, `rebuild`, `export`, `migrate`, `token`, `key` | processes of their own on the same store |

What is hard in it, and what makes each part correct:

* **Pipeline and store.** Several threads, `import` and `rebuild` in other
  processes, and clients that resend what was never answered. The hash lookup
  runs before SQLite's write transaction opens, batches come late, twice, in
  any order or never, and any of it may stop at any statement. Correct means:
  every event once; what was accepted is there; the session's row is what its
  events say, always; complete means complete; a session that was published
  exists.
* **Broadcaster.** Threads that publish and close hand items to an event loop
  after letting go of the lock, queues are bounded, streams open during a
  shutdown, and clients vanish. Correct means: in order and without a hole, or
  told so; bounded memory; a shutdown that ends every stream.
* **Live page.** Snapshots and deltas cross, the service restarts under it, and
  a delta does not exist for every change of a row. Correct means: never ahead
  of the store, and right again in the end.
* **Access.** The order of a request's checks, a deny list cached by file stamp
  and edited under the service, a cookie that must not outlive its token by more
  than is said, and a sliding window that turned-away batches do not widen.
  Correct means: judged by the list as it stands, a minute's wait after a full
  allowance while the service stays up, signed in until the session, its token
  or the browser's own limit ends, whichever is first.
* **Queries and charts.** Chains of resumed sessions with forks and circles over
  rows that are incomplete and out of order, counts made again from a part of
  an answer, buckets and percentiles at their boundaries, and the same events
  read once by the fold and again by each report. Correct means: each journey
  counted once, parts that add up to the whole, and reports that agree.
* **Reading.** Pages, downloads and exports of tables that change between two
  statements, and rows that move in the order they are paged in when a late
  event makes them start earlier. Correct means: nothing missed that was there
  all the while, and nothing twice without a reason.

`PROJECT.json` lists every component with its status and every hazard at its
line.

## Modules

| module | models | extends |
|---|---|---|
| `Projection` | `fold` and `completeness` as a function of the set of a session's events | |
| `Ingest` | `Ingest.accept`, `insert_events`, `project_session`, `rebuild` against the store | `Projection` |
| `Ingest_proofs` | theorems about `Ingest` | `Ingest` |
| `Feed` | what a listener is promised (abstract) | |
| `Broadcast` | `live.py` and the route that opens a stream | `Feed` by a refinement |
| `Broadcast_proofs` | theorems about `Broadcast` | `Broadcast` |
| `LiveView` | the page, the service's two live routes, and the rows they read | |
| `LiveView_proofs` | theorems about `LiveView` | `LiveView` |
| `Access` | requests with tokens and cookies, the deny list, the limiter, the sink's route, signing in and out | |
| `Access_proofs` | theorems about `Access` | `Access` |
| `Labels` | `merge_labels` and selectors | |
| `Lists` | `ORDER BY`, `WHERE` over a list, and one dictionary laid over another | |
| `Lists_proofs` | what they return, and sums as the sizes of parts | `Lists` |
| `Reading` | paging, downloads, export and import while batches are stored | `Labels`, `Lists` |
| `Reading_proofs` | theorems about `Reading` and the labels | `Reading`, `Lists_proofs` |
| `Journeys` | the rows as they come, filters, journeys, outcomes, groups, trends, the detail's chain | `Lists` |
| `Journeys_proofs` | theorems about the journeys and groups of `Journeys` | `Journeys`, `Lists_proofs` |
| `Reports` | the page funnel and the collection funnel | `Journeys` |
| `Statistics` | page timings, actions, checks, coverage, percentiles, learners | `Reports` |
| `Charts` | periods, slots, charts, sparklines, totals, the overview's statements one by one | `Statistics` |
| `Reports_proofs` | theorems about `Reports`, `Statistics` and `Charts` | `Charts`, `Journeys_proofs` |
| `MC_*` | the small instances | each its component |

### Projection and Ingest

An event is `[sid, seq, kind, from]`. The events table is the set `table` of
rows `[id, ev, token]`, the sessions table the function `rows`; a row keeps the
columns that are a function of the session's events (`Derived`) and the two
that are not, `token` and `resumedBy`. Equal events are the ones with equal
hashes: the hash is over the whole event, so a collision is left out. A
session's events have distinct numbers (`EventsAssumption`), as the extension
numbers them; an event's time, pages and identity are other functions of the
same events and are not kept.

A process `p` goes through one batch by the statements it executes:

| step | code |
|---|---|
| `Receive` | a batch arrives at `accept`; which batches, and how often, is free |
| `Lookup` | `select hash ... in`, before the write transaction opens |
| `Insert` | `insert ... on conflict do nothing`; opens the transaction on SQLite |
| `FoldEvents` | `project_session`: the session's events, and the fold of them |
| `LoadSession` | `_load_session`, the row the session already has |
| `WriteSession` | `_write_session`, insert or update |
| `LinkResume` | `_link_resume`, then the next session or the commit |
| `Commit` | end of `engine.begin()` |
| `Publish` | `broadcaster.publish` for each projected session |
| `Answer` | the 202 |
| `DropRows`, `ListSessions` | `rebuild`'s first statements; it goes on with the steps above |
| `Fail` | an exception, a busy database, a deadlock or a crash: the transaction is rolled back |

What a transaction has written (`ins`, `wrote`) is read over the committed
tables by itself alone until `Commit`. `Serialised` chooses the database: under
SQLite a transaction starts writing only when no other does (`WriterFree`, the
busy timeout running out is a `Fail`); under PostgreSQL at read committed, the
default the code leaves in place, a statement sees what is committed when it
starts and waits only for rows and keys another transaction has written
(`RowFree`, and the second conjunct of `Insert`).

`import` without a token is a batch under `NoToken`; an exported file keeps the
token of every line, so a batch may hold several.

### Feed and Broadcast

`publish` and `close` are two steps: the critical section that copies the
subscribers (`Publish`, `Close`) and, without the lock, one `HandOver` per
listener, which is a `call_soon_threadsafe`. The loop runs a listener's
callbacks in order (`RunCallback`, `Subscription.offer`). The response starts
(`StartResponse`), takes items (`Take`), may be cancelled before or after it
started (`Disconnect`) and unsubscribes in its `finally` clause (`Leave`).
`handed` and `taken` are history variables, as the abstract `Feed` sees them:
the identity is the refinement mapping, queue, callbacks, lock and subscribers
are what it hides. The keepalive changes nothing and is left out.

### LiveView

A session's row is reduced to the number of batches it has had and its status;
`pending` is the delta between a commit and its publication, `wire` everything
from the loop's callbacks to the network, `load` the snapshots in flight. A
snapshot is read (`Query`) and put in place (`Land`) in two steps. The page's
`conn` is `first` (its first load), `waiting` (a timer or the browser will
connect), `listening`, `never` (the first load failed) or `failed` (the browser
gave up). `Stop`, `Exit` and `Restart` are the service going down with or
without its grace period; with `Proxied` a proxy answers in its place.
Statuses move as `status_of` lets them: `Age` is time passing, `LinkResume` a
session being resumed by another.

Two things are external, modelled from what the page relies on: the browser's
`EventSource`, which reconnects by itself after a broken connection and gives
up when it is answered with an error, and whoever restarts the process.

### Access

Every check of a request runs on the event loop without an await, so two never
interleave; a check is one step, but for the two places where it asks the
outside twice. `DenyList._refresh` looks up the file's stamp and then reads the
file (`Ask`, `ReadFile`): an operator may edit or remove it in between, and a
file gone by then is an error nobody catches. Signing in verifies a token and
then reads the clock again for the cookie (`IssueSession`).

| action | code |
|---|---|
| `Request` | a token at any route of `Wanted`: `verified` with the route's scopes, then the deny list |
| `Visit` | a page, a download or the live view opened with the cookie: `read_session`, then the deny list |
| `Decide`, `Admit`, `Preflight` | what the route does next: answer, ask the limiter and read the body, look for the origin |
| `Logout` | the browser is told to drop the cookie |
| `EditFile`, `Tick`, `Restart` | the operator, the clock, the supervisor |

A token is its claims and whether its signature holds. `clock` is the one clock
of verification, cookie, limiter and file stamps; the limiter's own is
monotonic, which is this one without its jumps. `passed`, `edited`, `shared` and
`signedIn` are history variables, and `answer` records with each answer whether
the file listed the token's id always or ever during the check. `PerMinute` is
positive: with 0 there is no limiter. Three exceptions are part of the
properties:

* `DenyListCurrent` asks nothing once two versions of the file had one stamp
  (`shared`): the code cannot tell them apart.
* `WindowBound` asks nothing of two batches between which the service restarted.
  The limiter is in memory (`ingest.py:183`), so `Restart` empties `window`; what
  had passed did pass, so `passed` stays, and `cuts` marks the place in it. A
  token may then have its allowance again at once: a minute with one restart in it
  may hold two. `docs/development.md:39`, "Batches one token may post per minute",
  names no exception. Without the exception TLC finds such a minute.
* `SessionLasts` ends a session at the browser's twelve hours (`MaxAge`, a constant
  of the code) when `SESSION_HOURS` is more. `length` is that setting, any of
  `SessionLengths`; the instance has one below `MaxAge` and one above it, and
  without the exception TLC finds the difference.

### Labels and Reading

A label's key is the sequence of its dotted parts, so that `client.` is a part
put in front. In `Reading` a post is one step (its inside is `Ingest`), the
events table is a sequence in the order of ids, which on SQLite is that of the
commits, and the sessions rows are derived from it. Each page of a client
(`ReadSessions`, `ReadEvents`) and each chunk of a download (`ReadChunk`) is one
statement on the store as it is then; `walk` keeps the reader's cursor, what it
has `seen`, and, as history, what it is `owed`: what was selected when it began,
and, for sessions, ever since without starting later. `Export` and `Import` are
the two commands, on another store. There is one reader in a behaviour: readers
change nothing.

The documents say that a token's labels always stand and that nothing a client sent
is lost. `NoLabelLost` states that, and the run `reading_labels` refutes both halves
of it. `LabelsKept` says what is true instead: a label, the token's or the client's,
is lost only when one label is under a key the token has and the other under that
key behind `client.`, and it names the label that is there in its place. An event's
labels are a JSON object, so no key comes twice (`LabelsAssumption`).

### Lists

A statement's `ORDER BY` is `Ranked`: the set and, for each element, those that
come before it. `Picked` keeps the places of a list that pass a test, and `Over`
is one dictionary laid over another. The community modules have all three
(`SetToSortSeq`, `SelectSeq`, `@@`), but the proof system does not expand the
operators they are made of. `Listing` is the same list again, which TLC then
evaluates once and not at every use.

### Journeys and Reports

The state is what `project_session` leaves in the sessions table, one batch a
step in any order (`Project`): per session the parts that have come, a part
being a run of consecutive events that arrive together, and `resumedBy`.
`resumed` says which session each one resumed when it
was opened; it never changes, but a row knows it only once the session's first
part is in. `rebuild` adds no states: a row it has dropped is one that has not
come yet. Everything else is a question asked of that state: the operators have
the functions' names (`Journey.outcome` is `Outcome`, `chain_of` `ChainOf`) and
take the moment and the list of sessions the functions take. A question is a
record of the filters used, the moment and `include_incomplete`.

A timestamp is a session's `Begin` and the number of the part; `active`, `away`
and `silent` are one status, `live`; a page list is a sequence of page ids.
Loops over data are recursive functions, a chain's loop bounded by the number of
sessions, more than which it cannot pass. What the code sums is `SumFunction` of
the numbers summed, and a list filtered or without its repetitions is `Picked`
from the places that stay: both are in the prover's reach.

### Statistics and Charts

`Sent` says which events each part of a session holds, as far as a report tells
them apart. A row's columns (`Run`, `Entered`, `Left`, `Listed`) are the fold's
view of them, and the reports load events by the kinds each of them names
(`Stored`), so that `ReportsAgree` can set one against the other. A page lists a
directive once; shares are in ten thousandths as `round(x, 4)` leaves them;
means, durations and the fields that repeat a row are left out.

A chart is the values of its bars by slot; where they are drawn is left out. A
view is the query parameters of a page, `include_incomplete` among them, and the
moment it is asked for. A page is put together from several statements, each of
which reads the store as it is then: `workshop_report` and `overview_report` have no
transaction around them. `TrendsReport`, `ListWorkshops` and `SparklineReport` are
one statement's answer each, and `TrendsAddUp` sets each against the sessions that
same statement loaded. It compares no two of them: with a batch committed in
between, the list of workshops need not have the journeys of the card above it.
`GroupChart` keeps the one thing of the drawing that changes a value: bars are
kept under the colour of their series.

## Runs

| run | shows | bounds |
|---|---|---|
| `ingest` | the pipeline's invariants on SQLite | 2 threads and a rebuild, 2 sessions one of which resumes the other, 5 events, 2 tokens, 6 batches (overlapping, reordered, two sessions, a malformed line, past `max_batch`, without a token), 3 posts, 1 rebuild |
| `broadcast` | the broadcaster's invariants, the shutdown, and that it implements `Feed` | 2 streams, 1 publisher and the closer, queues of 1, 2 deltas |
| `liveview` | the page's safety, convergence and reconnection | 1 session, 2 threads, 2 loads in flight, 2 batches, 1 outage |
| `access` | the deny list as it stands, the limit of a minute without a restart, the length of a session | 2 tokens (one for batches and queries, good from the second moment on, and one for the dashboard, which ends early), 2 origins, 3 bodies, a minute of 2 moments with 2 batches, sessions of 1 and of 3 in a browser that keeps them 2, 4 moments, 2 edits of the file to either of 2 lists, 3 passed batches of a token, any number of restarts |
| `reading` | paging, downloads and exports miss nothing and repeat nothing but what moved, an export comes back, labels are lost only where the reserved prefix collides | 3 sessions (two of one name in two collections), 5 events, 7 batches, 2 tokens and none, 4 selections, pages of 1 and 2, batches of at most 3, chunks of 2, 2 ways to import |
| `reports` | each journey is counted once, who is left out of all of them, that groups, periods, pages, workshops, bars and instances add up in the answer of a statement, that a session's detail shows its journey, and that the reports of directives, times and learners agree | 3 sessions of one workshop that resumed each other in any of 20 ways (forks, circles, one resuming itself), 1 of another, 2 instances, up to 3 parts a session, arriving in any order, 4 pages, 3 directives; 3 questions: everything while sessions are live, one workshop without the incomplete sessions later, and the same cut off by time; 3 views: all time, a preset by day with the incomplete sessions, a custom period |

Why these are enough. Two threads and a rebuild are every pair of processes
that can meet; a third post lets a retry meet both a first and a second
attempt; two sessions are what a resume link relates. The order of session ids
is the one in which a rebuild meets the resuming session first, the harder one.
A queue of one is full after one item, so a drop happens with two. In
`LiveView` sessions do not affect each other, so one is enough, and two batches
by two threads are what it takes for deltas to overtake each other, two loads
for snapshots to. Three sessions are a fork, a circle with a tail and a chain
whose middle is missing; the other workshop gives an instance something to
open between two sessions of the first. A minute of two moments can be full,
half over and over, and with a limit of two a third batch is turned away and
let in later, or at once after a restart; the dashboard token's session ends by
its own length, with the token or with the browser's cookie, or starts as the token
ends. Two edits are a version before and
after a reading, with a removal. In `Reading` a page of one puts a cursor
between any two sessions, the late first event of one moves it past the cursor
and out of a selection, and the second collection makes a name ambiguous.

`OnlyOvertakenLeftOut` says exactly which sessions no journey has: when two
sessions resume the same one, `journeys` follows the later and the other, with
everything that carried it on, is in no count although its detail shows a chain.
`ChainAgrees` therefore asks only for stores in which nothing was resumed twice
and every link was recorded. The loop's guard against a session met twice never
acts: a circle has no head to be reached from.

Where the documentation says something that the code does not always do, a run
of its own finds the counterexample; `PROJECT.json` quotes the sentence.

| run | counterexample |
|---|---|
| `ingest_token` | the second batch of a session comes under another token, which takes the place of the first |
| `ingest_rebuild` | `rebuild` takes sessions by id; a resuming session with the smaller id finds no row to link |
| `ingest_postgres` | two transactions each fold without the other's events, and the second to write wins |
| `liveview_proxy` | after a shutdown a proxy answers the page's one attempt with an error and the page never tries again |
| `reading_transfer` | an export of four lines into a store that takes three a batch: the fourth is never read, and the command ends with success |
| `reading_labels` | a token has both `y` and `client.y`; a client sends `client.client.y`, `client.y` and `y`. Its `y` replaces the token's `client.y` ("always stand", `labels.py:73`), and its `client.y`, moved, replaces its own `client.client.y` ("nothing a client sent is lost", `docs/tokens.md:91`) |

Seen while modelling, and without a run of their own:

* `docs/api.md:131`: `resumed` is "a later session named this one in
  `resumed_from`"; nothing sets `resumed_by` when the resumed session is stored
  after the one that resumed it. A rebuild's order does the same
  (`ingest_rebuild`).
* `live.py:66`: the count of streams that are open includes a client that left
  before its response started; nothing removes it.
* `docs/dashboard.md:160`: a late batch of a resumed session puts a row on the
  live page that says of itself that it was resumed.
* `docs/api.md:214`: percentiles are called nearest rank. The rank is rounded
  after a half is added, and halves to even: of two values `p50` is the greater,
  of ten `p90` is the greatest. `ReportsAgree` asks what holds of both.
* `views.py:438`: in a grouped chart "each value of the dimension gets a bar of
  its own"; the ninth value shares a colour's key with the first, and both bars
  show what the last wrote. `TrendsAddUp` asks only for as many values as colours.
* `views.py:525`: the attention card says more journeys stop on a page "than on
  any other" when two tie.
* `queries.py:1925`: a session's detail leaves out a page that was left and
  neither listed nor entered, which the workshop's timings count.
* `api/dashboard.py:497`: the download is "newest session first"; within a chunk
  `load_events` sorts by session id. And its lines carry the service's own
  fields inside the event, so that importing them makes other events.
* `docs/dashboard.md`: the cookie opens nothing under `/api`; the live view's
  two routes take it (`require_viewer`).
* `docs/dashboard.md:48`: the cookie lasts "`SESSION_HOURS` (12 by default) or until
  the token expires, whichever is sooner". `config.py:99` takes any number of hours,
  and the cookie is set to be forgotten after twelve (`api/auth.py:25` and `162`):
  with 24 a browser is signed out at twelve. `SessionLasts` says so.
* `docs/development.md:39`: a token's batches per minute are counted anew after a
  restart. `WindowBound` says so.
* `queries.py:2398`: all learners of a workshop are refused with an error when
  the sessions of one of them resume each other in a circle
  (`LearnersAgree` says exactly when).
* `queries.py:2412`: a learner's progress can exceed 1 when a later session lists
  fewer pages than the journey left.

### Fairness

`Ingest`, `Access`, `Reading` and `Journeys` have none: their properties are safety,
and a batch that is never sent again is simply missing. In `Broadcast` a thread inside `publish` or `close`
goes on with its loop, the event loop runs what was scheduled on it, a response
starts, takes and leaves (weak fairness each); nobody has to publish,
subscribe, close or go away. In `LiveView` threads publish what they have
committed, the service answers, ends its grace period and is restarted, and the
page's timers fire and its stream is read. `Opened` has strong fairness: a
connection that keeps being made is at some time not broken before its response
starts and a load is free to be asked. Breaks and outages are bounded and never
required.

## Proofs

TLAPS proves, for any sessions, events, batches, threads, streams and queue
sizes that satisfy the modules' assumptions:

| theorem | property | needs |
|---|---|---|
| `Ingest_proofs!TypeCorrect` | `TypeOK` | |
| `Ingest_proofs!EveryEventOnce` | `StoredOnce` | |
| `Ingest_proofs!AnsweredIsStored` | `AcknowledgedDurable` | |
| `Ingest_proofs!ProjectionIsCurrent` | `ProjectionCurrent` | `Serialised` |
| `Ingest_proofs!CompleteIsComplete` | `CompleteMeansAll` | `Serialised` |
| `Ingest_proofs!AnnouncedAreThere` | `AnnouncedAreStored` | `Serialised` |
| `Ingest_proofs!LinksAreSound` | `LinkSound` | `Serialised`, and that the resumes of one session name one session |
| `Ingest_proofs!LinksStay` | `LinkStays` | `Serialised` |
| `Broadcast_proofs!TypeCorrect` | `TypeOK` | |
| `Broadcast_proofs!MemoryIsBounded` | `MemoryBounded` | |
| `Broadcast_proofs!NothingIsLost` | `NothingLost` | |
| `Broadcast_proofs!LossIsAlwaysTold` | `LossIsTold` | |
| `Broadcast_proofs!ImplementsFeedSafety` | the safety half of `ImplementsFeed` | |
| `Access_proofs!TypeCorrect` | `TypeOK` | |
| `Access_proofs!DenyListIsCurrent` | `DenyListCurrent` | |
| `Access_proofs!MinutesAreBounded` | `WindowBound`, which excepts batches with a restart between them | |
| `Access_proofs!SessionsLast` | `SessionLasts`, for any `SESSION_HOURS` | |
| `LiveView_proofs!TypeCorrect` | `TypeOK` | |
| `LiveView_proofs!ViewIsBehind` | `ViewIsCommitted` | |
| `Reading_proofs!TypeCorrect` | `TypeOK` | |
| `Reading_proofs!NoSessionIsSkipped` | `NoneSkipped` | |
| `Reading_proofs!EventsArePagedWhole` | `EventsPagedWhole` | |
| `Reading_proofs!DownloadsAreWhole` | `DownloadWhole` | |
| `Reading_proofs!ExportsRestore` | `ExportRestores` | |
| `Reading_proofs!LabelsKeptAlways` | `LabelsKept`, which names the collisions that lose a label | the labels of an event are an object: no key twice |
| `Journeys_proofs!TypeCorrect` | `TypeOK` | |
| `Journeys_proofs!JourneysAlwaysChains` | `JourneysAreChains` | |
| `Journeys_proofs!OnlyOvertakenAreLeftOut` | `OnlyOvertakenLeftOut` | |
| `Journeys_proofs!InProgressIsExplained` | `InProgressExplained` | |
| `Journeys_proofs!ChainsAgree` | `ChainAgrees` | |
| `Journeys_proofs!GroupsAlwaysAddUp` | `GroupsAddUp` | |
| `Reports_proofs!FunnelAlwaysAddsUp` | `FunnelAddsUp` | |
| `Reports_proofs!CollectionAlwaysAddsUp` | `CollectionAddsUp` | |
| `Reports_proofs!CommonOrderAlwaysFound` | `CommonOrderFound` | |
| `Reports_proofs!ReportsAlwaysAgree` | `ReportsAgree` | |
| `Reports_proofs!LearnersAlwaysAgree` | `LearnersAgree` | |
| `Reports_proofs!TrendsAlwaysAddUp` | `TrendsAddUp`, which is about each statement's answer by itself | |
| `Reading_proofs!MergedLabelsKept` | what `LabelsKept` says of one row | |
| `Lists_proofs!SumOfSizes` | a sum of the sizes of parts is the size of the whole | the parts are finite, finitely many and apart |
| `Lists_proofs!RankedLists` | each element of a finite set once, in its order | the order is strict and total on the set |

`Serialised` is not a convenience: `ingest_postgres` is the counterexample
without it. Nor is the other condition of `LinksAreSound`: a row names
the session of its last resume (`projection.py:155`), and what an earlier one
linked stays linked, so a session that said it resumed two others would break the
property. A client says it once, of the session it opened from.

The argument for `Ingest`. `TypeInv` adds to `TypeOK` what a process has in
hand at each `pc`. `StoreInv` says that uncommitted inserts are apart from the
table and from each other's: that is what the conflict clause and the unique
index buy, and `StoredOnce` follows on either database. `AnsweredInv` says that
every line a process accepted is stored, in its own insert, or still to be
inserted, so that at `answer` only the first is left. `ProjectionInv` carries
the rest: with one writer, the committed rows are current in every state, and
the writer's own view of each session is current, still in `todo`, or the one
in its turn; at the commit nothing is left in `todo`, so the view that becomes
the table is current. It is needed because `ProjectionCurrent` alone says
nothing of a transaction half way. `AnnouncedInv` adds that what is projected
has a row that no later step takes away. `CompleteMeansAll` follows from
`ProjectionCurrent` and the arithmetic of `Missing`. `LinkInv` says of every row,
committed or in a transaction's hands, and of the link a process is about to
set, that a stored event of the session named does name this one; that is more
than `LinkSound`, which speaks of rows, and a rebuild has dropped those.
`LinksKept` says that a process that is writing sees every link that is
committed, so that the row it puts back has it; a rebuild drops rows and is left out,
as it is in `LinkStays`.

The argument for `Broadcast` is one invariant per stream, `StreamInv`: while a
subscription is not dropped, what was handed to it is what it took, then its
queue, then its callbacks; once dropped, it is in one of two shapes, marker in
the queue or marker taken. The refinement theorem maps each action to its feed
action or to a stutter, using the same invariant for `Deliver` and `Drop`.

The arguments for `Access`. `LimiterInv` says that a token's window is the end of
the history of what passed, in order of time, and that what is no longer in it
is a minute older than anything to come, or from before the last restart; a batch
that passes finds fewer than the limit in the window, so the one as many places
back is out of it.
`WindowBound` alone does not say what the window holds. `DenyInv` ties the cache
to the file by the stamp: a cache under the file's stamp has its ids, as long as
no two versions shared one, and what a check in progress has seen is always and
ever what its history says. `CookieInv` relates the cookie's end to the sign-in
and the token's claims, and the browser's keeping of it to the sign-in alone; the
session's length is any, so neither bounds the other. `MergedLabelsKept` is a fact
about a function of any labels, by cases on where each label goes: two labels of an
event go to one key only when one was moved there and the other has that key itself
(`SameTarget`).

The argument for `LiveView`. What the page shows was scheduled by a thread that
had committed it, or read in a snapshot. `BehindInv` says of the page, of the
deltas between a commit and their publication, of everything on the stream and of
every load in flight that it is behind the store: not a later version of a row,
and not an end or a resume the row does not have. It is kept because a row only
moves on. It holds through restarts, which change nothing of the store.

The arguments for `Reading`. Each kind of reader has an invariant of the cursor.
`EventsInv`: what a client has of the events lies at or below the cursor, and
what it is owed at or below it, it has. `PageInv`: a session owed and not seen
comes after the cursor, and one seen comes at or before it unless it has turned
out since to have started earlier; `OnlyEarly` is the second half of `NoneSkipped`.
A post moves rows, so both speak of the order as it is now. `DownloadInv`: what
has come is of sessions no longer in the queue, and what is owed has come or is
of one that is. `ExportInv`: the import's rows are the file's lines place by
place, and no two lines have one hash. What a statement returns is
`Lists_proofs!RankedLists`: in a strict total order on a finite set the number of
elements before one is its place, and no place is left empty.

The arguments for `Journeys`. Only the links need an invariant (`LinkedBack`: a
row that says it was resumed was, by a session whose row has its first part).
The rest is said of each state. A chain only ever grows by the last to resume its
end, and the loop's guard never acts: the session it refuses would have resumed
two, or be a head that resumed something loaded. So in each round the chain grows
or nothing goes on; no session is in it twice, and the rounds are as many as the
sessions, so it stops because nothing goes on. Two chains with a session in common
have in common what it resumed, and so on back to one head, and `JourneysAreChains`
follows. For `OnlyOvertakenLeftOut`, take a session in no chain, neither it nor
anything it carries on from overtaken or in a circle, with the fewest sessions it
carries on from. It is no head, so it resumed one that has fewer and is in a chain;
that chain goes on with the last to resume that one, and this is the session. `ChainAgrees` compares two loops: while everything has come, the links say of
a chain's neighbours the same both ways, so the detail's first loop finds the part
of the chain up to the session, a session a round, and the second the rest. The
loops are recursive functions, which the prover knows by their equation once they
are shown to exist (`Rounds`); where an induction is needed, the least number
that fails stands for it (`Induction`), because the library's theorems take an
operator.

The arguments for the reports. Each of them counts what one state of the rows
holds, so none has an invariant of its own: `TypeOK`, and what is proved of the
journeys of a list, is all that is asked of the state, and the theorems are about
the functions that count, for every list they may be given.

* *Adding up.* A number of a report is the size of a set: the places of a list
  without repetitions that pass a test are as many as the elements that do
  (`PlacesCount`). Numbers add up because the sets they count are apart and make
  up the whole, which is `SumOfSizes`, or, where the parts are told apart by a
  key, `SumOfShares`. `SumOfSizes` counts pairs of a part and one of its elements,
  so that no part is counted with another.
* *Counting again from a part.* Groups, buckets, workshops, instances and
  learners each chain their own sessions anew. A part of a list whose sessions
  have the head and the successor they had in the list (`KeepsLinks`) has exactly
  the list's journeys that begin in it (`SameJourneys`). What a group or a bucket
  gathers are whole journeys, so it keeps links whatever was resumed
  (`GatheredJourneys`), and `GroupsAddUp` has no condition; the sessions of a
  workshop or of a learner do only when no link crosses from one to another, which
  is the condition of `TrendsAddUp` and `LearnersAgree`. A store may hold such
  links: `resumed_from` is the client's.
* *The funnels.* A journey stops on the last page of the list that it entered, so
  it is in one part or in none; an instance stops at the last workshop it reached,
  unless it finished as many as there are, and then it finished them all, since
  what it finished is among what it opened.
* *The common order.* A mean is compared as a fraction. That fractions with
  positive denominators are in a strict total order is proved from products
  (`Fractions`). Where all opened the workshops in one order, each has the
  same place in every instance that opened it (`CommonPlaces`), its mean is that
  place, and the order by means is the common one.
* *Reports that agree.* The row's columns and the events of a kind are two unions
  over the same parts that have come; `CoverageIs` and `UsingIs` say of both which
  sessions they name. Page times are a sum over the leaves of all sessions by
  session. A percentile is the value at a rank: of `n` values `RankOf` lies in `1 .. n`
  and as far into it as `Splits` says (`RanksSplit`); a value at that place exists,
  with enough values at or below it and at or above it (`NthExists`), and of two
  places the later has no lesser value (`NthOrdered`).
* *Learners.* The answer is a set with at most one element, empty when the code
  raises. It raises exactly when one of its learners has no journey, which is when
  none of their sessions is a head.
* *Trends.* Bucket starts are the multiples of the length (`OnBucket`), and the
  start of a moment's bucket is the greatest of them up to it (`BucketBegun`), on
  both sides of zero. The axis of the buckets holds the start of every journey
  (`BucketsAxis`), and the chart's slots hold it exactly when it has begun
  (`SlotsAre`), whether the period has a beginning or begins with the first
  journey. With no more values than colours `% PaletteSize` gives each its own
  (`OwnColour`). A sparkline's days are the buckets from its first to that of now
  (`BucketsBack`), and none of its journeys began earlier.

They assume of the data what the schema and the settings say: what a page leave or
an attempt counts is a natural number, as are times and the days of a preset, the
lengths of buckets are positive, and sessions and directives are finitely many. A
grouping value is a number in `Charts`, for the order in which the bars are listed.

While `TrendsAddUp` was being proved it turned out to need its condition on
workshops: a journey that a session of another workshop carried on is one journey of
all the sessions a listing loads and two in the list it makes of them. No history of
the run `reports` has one.

Only checked by TLC:

* liveness: `ShutdownDrains`, the fairness of `ImplementsFeed`, `Converges`,
  `StreamComesBack`. TLAPS has neither fairness nor `ENABLED`;
* what the folds of `Accept` compute beyond what the theorems about `Reading` need,
  and `Projection` against `fold` line by line.

Every invariant of the passing runs, and every action property but the temporal
ones above, is the subject of a theorem.

## Not modelled, and what could be added

* **SQL tool** (`sql.py`): a filter on the text of a statement and a deadline
  around the database driver. What it guarantees is the parser's and the
  driver's.
* **MCP server** (`mcp.py`): its guard is a route of `Access`; its tools are calls
  of `queries.py` over a vendor library and keep no state. The routes of
  `api/query.py` that do not page are the same.
* **Settings, wiring, health, migrations** (`config.py`, `app.py`,
  `api/health.py`, `store/`): environment variables, constants, and Alembic's
  business before the service starts.
* **In `queries.py`**: `describe`, `label_keys` and `instance` restate rows;
  durations, means and rates are arithmetic on what is modelled; the detail's
  timeline is the events in order. Of the filters the columns that only compare
  for equality are one, the workshop.
* **In `views.py` and `api/dashboard.py`**: where bars are drawn, the attention
  card's sentences, the history's choices, the CSV, and the templates. The
  overview's list of collections is `CollectionProgress` for each.
* **Time within a live session**: the instants at which `active` becomes `away`
  and `silent`; `LiveView` follows the order of the statuses.
* **A rebuild under a reader**, and readers at PostgreSQL's isolation, where ids
  are not in the order of commits: `Reading` is about SQLite.

Worth proving next: `Projection` against a specification of the fold that does not
follow the code (what is missing, first and last of the numbers that have come),
and the modelled half of `ImplementsFeed`'s liveness, once the prover has `ENABLED`.
