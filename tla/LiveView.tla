------------------------------- MODULE LiveView -------------------------------
(***************************************************************************)
(* The live dashboard end to end: batches commit and publish deltas        *)
(* (ingest.py), a stream carries them, and a page holds a copy of the rows *)
(* (dashboard/static/live.js) that it fills from snapshots, GET /api/live, *)
(* and patches with the deltas.                                            *)
(*                                                                         *)
(* Of the broadcaster the page needs what Feed says of one listener: it is *)
(* given what is published while it listens, in order, until a marker says *)
(* that it was dropped or that the service is closing.  `wire` is what is  *)
(* scheduled for the page's stream and not yet taken.                      *)
(*                                                                         *)
(* A sessions row is a version, counting the batches projected into it,    *)
(* and a status.  Deltas change hands after their commit and so not always *)
(* in the order of the commits; a row also changes with no delta at all,   *)
(* when time passes or when another session resumes it.  A snapshot is     *)
(* read when the server gets to it and lands when the network lets it.     *)
(***************************************************************************)
EXTENDS Integers, Sequences

CONSTANTS
  Sessions,
  NoSession,
  Workers,      \* threads that ingest batches
  Loads,        \* loads the page may have in flight at once
  FirstLoad,    \* the load a page starts with
  Closing,      \* the marker of a stream that the service closes
  Proxied,      \* an HTTP proxy answers for the service while it is down
  MaxVersion,   \* bound: batches a session gets
  MaxOutages    \* bound: loads and connections lost, and times the service
                \*   goes down; what it takes with it then is not counted

Statuses == {"none", "live", "ended", "past", "lost", "resumed"}
Row      == [n : 0 .. MaxVersion, status : Statuses]
Delta    == [sid : Sessions, n : 1 .. MaxVersion, status : Statuses]

ASSUME LiveViewAssumption ==
  /\ NoSession \notin Sessions
  /\ FirstLoad \in Loads
  /\ Closing \notin Delta
  /\ Proxied \in BOOLEAN
  /\ MaxVersion \in Nat /\ MaxOutages \in Nat

VARIABLES
  db,        \* the committed sessions rows
  pending,   \* a worker's delta, committed and not yet published
  mode,      \* the service: up, stopping or down
  stream,    \* the page's stream at the server: none, new or open
  wire,      \* what is on its way to the page over it
  view,      \* the page's copy of the rows
  load,      \* each load: asked, answered with rows, or none
  conn,      \* what the page does about its stream
  outages    \* what has gone wrong so far

serverVars == <<db, pending, mode>>
vars       == <<serverVars, stream, wire, view, load, conn, outages>>

Unshown == [n |-> 0, status |-> "none"]
NoDelta == [sid |-> NoSession, n |-> 0, status |-> "none"]
NoLoad  == [at |-> "none", rows |-> [s \in Sessions |-> Unshown]]

(* live_rows: the sessions under way, and the ended ones for a while.      *)
Shown(row) == IF row.status \in {"live", "ended"} THEN row ELSE Unshown

-----------------------------------------------------------------------------
Init ==
  /\ db = [s \in Sessions |-> Unshown]
  /\ pending = [w \in Workers |-> NoDelta]
  /\ mode = "up"
  /\ stream = "none" /\ wire = <<>>
  /\ view = [s \in Sessions |-> Unshown]
  /\ load = [i \in Loads |-> IF i = FirstLoad THEN [NoLoad EXCEPT !.at = "asked"]
                                              ELSE NoLoad]
  /\ conn = "first" /\ outages = 0

(* What a session's next batch can leave it as (status_of).  A batch so    *)
(* late that the session is lost or past by then is one that is fresh,     *)
(* and Age before anything is published.                                   *)
StatusAfter(row) ==
  CASE row.status = "resumed" -> {"resumed"}
    [] row.status \in {"ended", "past"} -> {row.status}
    [] OTHER -> {"live", "ended"}

(* Slip: the delta is published and its transaction never commits.         *)
CommitNothing(w, s) ==
  /\ mode # "down" /\ pending[w] = NoDelta /\ db[s].n < MaxVersion
  /\ \E status \in StatusAfter(db[s]) :
       pending' = [pending EXCEPT ![w] =
                     [n |-> db[s].n + 1, status |-> status, sid |-> s]]
  /\ UNCHANGED <<db, mode, stream, wire, view, load, conn, outages>>

(* A batch of s commits: the row's next version, and a delta to publish.   *)
Commit(w, s) ==
  /\ mode # "down" /\ pending[w] = NoDelta /\ db[s].n < MaxVersion
  /\ \E status \in StatusAfter(db[s]) :
       LET row == [n |-> db[s].n + 1, status |-> status]
       IN  /\ db' = [db EXCEPT ![s] = row]
           /\ pending' = [pending EXCEPT ![w] = [sid |-> s, n |-> row.n,
                                                  status |-> status]]
  /\ UNCHANGED <<mode, stream, wire, view, load, conn, outages>>

(* A batch of a session that resumes s commits: the row of s is marked in  *)
(* that transaction, and the only delta is the other session's, whose row  *)
(* is like any other and not followed here.                                *)
LinkResume(s) ==
  /\ mode # "down" /\ db[s].n > 0 /\ db[s].status # "resumed"
  /\ db' = [db EXCEPT ![s].status = "resumed"]
  /\ UNCHANGED <<pending, mode, stream, wire, view, load, conn, outages>>

(* Time passes: silence becomes loss, and the linger of an ended one ends. *)
Age(s) ==
  /\ db[s].status \in {"live", "ended"}
  /\ db' = [db EXCEPT ![s].status = IF @ = "live" THEN "lost" ELSE "past"]
  /\ UNCHANGED <<pending, mode, stream, wire, view, load, conn,
                 outages>>

(* The row to publish is the one that was projected, but its status is     *)
(* told from the clock as it is now.                                       *)
Published(w) ==
  LET row == db[pending[w].sid]
  IN  IF row.n = pending[w].n /\ row.status \in {"lost", "past"}
      THEN [pending[w] EXCEPT !.status = row.status] ELSE pending[w]

(* What is scheduled for the page's stream, once the route subscribed it.  *)
Scheduled(item) == IF stream = "none" THEN wire ELSE Append(wire, item)

(* Slip: the worker lets go of what it committed before it publishes it.   *)
AnnounceCleared(w) ==
  /\ pending[w] # NoDelta
  /\ pending' = [pending EXCEPT ![w] = NoDelta]
  /\ wire' = Scheduled(pending'[w])
  /\ UNCHANGED <<db, mode, stream, view, load, conn, outages>>

(* The worker publishes what it committed.                                 *)
Announce(w) ==
  /\ pending[w] # NoDelta
  /\ wire' = Scheduled(Published(w))
  /\ pending' = [pending EXCEPT ![w] = NoDelta]
  /\ UNCHANGED <<db, mode, stream, view, load, conn, outages>>

(* The service is told to stop and closes its broadcaster.                 *)
Stop ==
  /\ mode = "up" /\ outages < MaxOutages
  /\ mode' = "stopping"
  /\ outages' = outages + 1
  /\ wire' = Scheduled(Closing)
  /\ UNCHANGED <<db, pending, stream, view, load, conn>>

(* A page's stream is over, and with it what was still on its way.  The    *)
(* page tries again: by its own timer after a marker, and as EventSources  *)
(* do when a connection breaks.                                            *)
StreamOver == stream' = "none" /\ wire' = <<>>

(* The service is gone, at the end of the grace period or at once: what it *)
(* had still to publish and to answer goes with it.                        *)
Exit ==
  /\ \/ mode = "stopping" /\ outages' = outages
     \/ mode = "up" /\ outages < MaxOutages /\ outages' = outages + 1
  /\ mode' = "down"
  /\ pending' = [w \in Workers |-> NoDelta]
  /\ StreamOver
  /\ load' = [i \in Loads |-> IF load[i].at = "asked" THEN NoLoad ELSE load[i]]
  /\ conn' = CASE conn = "listening" -> "waiting"
               [] conn = "first" /\ load[FirstLoad].at = "asked" -> "never"
               [] OTHER -> conn
  /\ UNCHANGED <<db, view>>

Restart ==
  /\ mode = "down"
  /\ mode' = "up"
  /\ UNCHANGED <<db, pending, stream, wire, view, load, conn, outages>>

-----------------------------------------------------------------------------
(* A load is sent off, by the timer that runs once a minute.               *)
Ask(i) ==
  /\ load[i] = NoLoad
  /\ load' = [load EXCEPT ![i].at = "asked"]
  /\ UNCHANGED <<serverVars, stream, wire, view, conn, outages>>

(* The server reads the rows, in one statement.                            *)
Query(i) ==
  /\ load[i].at = "asked" /\ mode # "down"
  /\ load' = [load EXCEPT ![i] = [at |-> "answered",
                                  rows |-> [s \in Sessions |-> Shown(db[s])]]]
  /\ UNCHANGED <<serverVars, stream, wire, view, conn, outages>>

(* Slip: the rows that arrive are put over the ones there are.             *)
LandOver(i) ==
  /\ load[i].at = "answered"
  /\ view' = [s \in Sessions |-> IF load[i].rows[s] = Unshown THEN view[s]
                                                   ELSE load[i].rows[s]]
  /\ load' = [load EXCEPT ![i] = NoLoad]
  /\ conn' = IF conn = "first" /\ i = FirstLoad THEN "waiting" ELSE conn
  /\ UNCHANGED <<serverVars, stream, wire, outages>>

(* The rows replace the page's; after the first load it subscribes.        *)
Land(i) ==
  /\ load[i].at = "answered"
  /\ view' = load[i].rows
  /\ load' = [load EXCEPT ![i] = NoLoad]
  /\ conn' = IF conn = "first" /\ i = FirstLoad THEN "waiting" ELSE conn
  /\ UNCHANGED <<serverVars, stream, wire, outages>>

(* A load fails, which nothing looks at: only, a page whose first load     *)
(* fails never subscribes.                                                 *)
LoseLoad(i) ==
  /\ load[i] # NoLoad
  /\ mode = "down" \/ outages < MaxOutages
  /\ load' = [load EXCEPT ![i] = NoLoad]
  /\ conn' = IF conn = "first" /\ i = FirstLoad THEN "never" ELSE conn
  /\ outages' = IF mode = "down" THEN outages ELSE outages + 1
  /\ UNCHANGED <<serverVars, stream, wire, view>>

(* The page asks for a stream and the route subscribes it; a broadcaster   *)
(* that is closed ends it at once.                                         *)
Connect ==
  /\ conn = "waiting" /\ mode # "down"
  /\ conn' = "listening"
  /\ stream' = "new"
  /\ wire' = IF mode = "stopping" THEN <<Closing>> ELSE <<>>
  /\ UNCHANGED <<serverVars, view, load, outages>>

(* A refused connection is retried; an error answered in the service's     *)
(* place is not: an EventSource that gets one gives up.                    *)
Refused ==
  /\ conn = "waiting" /\ mode = "down" /\ Proxied
  /\ conn' = "failed"
  /\ UNCHANGED <<serverVars, stream, wire, view, load, outages>>

(* The response starts: the stream's open event, which asks for a load.    *)
Opened(i) ==
  /\ stream = "new" /\ load[i] = NoLoad
  /\ stream' = "open"
  /\ load' = [load EXCEPT ![i].at = "asked"]
  /\ UNCHANGED <<serverVars, wire, view, conn, outages>>

(* A delta, whatever its status, takes its row's place.                    *)
AcceptDelta ==
  /\ stream = "open" /\ wire # <<>> /\ Head(wire) # Closing
  /\ view' = [view EXCEPT ![Head(wire).sid] =
                 [n |-> Head(wire).n, status |-> Head(wire).status]]
  /\ wire' = Tail(wire)
  /\ UNCHANGED <<serverVars, stream, load, conn, outages>>

(* The stream ends with a marker: of the shutdown, when that is next, or,  *)
(* whenever something is on its way, of a page that fell behind.           *)
MarkerUnheard ==
  /\ stream = "open" /\ wire # <<>>
  /\ StreamOver
  /\ UNCHANGED <<serverVars, view, load, conn, outages>>

Marker ==
  /\ stream = "open" /\ wire # <<>>
  /\ StreamOver
  /\ conn' = "waiting"
  /\ UNCHANGED <<serverVars, view, load, outages>>

(* The connection breaks.                                                  *)
Break ==
  /\ stream # "none" /\ outages < MaxOutages
  /\ StreamOver
  /\ conn' = "waiting"
  /\ outages' = outages + 1
  /\ UNCHANGED <<serverVars, view, load>>

(* A row that has ended leaves the page when its linger is over.           *)
Expire(s) ==
  /\ \/ view[s].status = "past"
     \/ view[s].status = "ended" /\ db[s].status # "ended"
  /\ view' = [view EXCEPT ![s] = Unshown]
  /\ UNCHANGED <<serverVars, stream, wire, load, conn, outages>>

Next ==
  \/ \E w \in Workers : Announce(w) \/ \E s \in Sessions : Commit(w, s)
  \/ \E s \in Sessions : LinkResume(s) \/ Age(s) \/ Expire(s)
  \/ Stop \/ Exit \/ Restart
  \/ \E i \in Loads : Ask(i) \/ Query(i) \/ Land(i) \/ LoseLoad(i) \/ Opened(i)
  \/ Connect \/ Refused \/ AcceptDelta \/ Marker \/ Break

Spec == Init /\ [][Next]_vars

(* The service publishes what it committed, answers, and comes back up;    *)
(* the page's timers fire and its stream is read.  Nobody has to post,     *)
(* nothing has to fail and no stream has to be dropped.                    *)
Fairness ==
  /\ \A w \in Workers : WF_vars(Announce(w))
  /\ WF_vars(mode = "stopping" /\ Exit) /\ WF_vars(Restart)
  /\ \A i \in Loads : WF_vars(Ask(i)) /\ WF_vars(Query(i)) /\ WF_vars(Land(i))
  /\ WF_vars(Connect) /\ SF_vars(\E i \in Loads : Opened(i))
  /\ WF_vars(AcceptDelta \/ Marker)
  /\ \A s \in Sessions : WF_vars(Expire(s))

FairSpec == Spec /\ Fairness

-----------------------------------------------------------------------------
TypeOK ==
  /\ db \in [Sessions -> Row]
  /\ pending \in [Workers -> Delta \cup {NoDelta}]
  /\ mode \in {"up", "stopping", "down"}
  /\ stream \in {"none", "new", "open"}
  /\ wire \in Seq(Delta \cup {Closing})
  /\ view \in [Sessions -> Row]
  /\ load \in [Loads -> [at : {"none", "asked", "answered"},
                        rows : [Sessions -> Row]]]
  /\ conn \in {"first", "never", "waiting", "listening", "failed"}
  /\ outages \in 0 .. MaxOutages

(* The page never shows what the store does not hold: neither a version    *)
(* still to be committed nor an end or a resume that has not happened,     *)
(* however deltas and snapshots cross and whenever the service goes down   *)
(* ("a stream never hears about a session the database does not yet        *)
(* hold", ingest.py:330).                                                  *)
ViewIsCommitted ==
  \A s \in Sessions :
    /\ view[s].n <= db[s].n
    /\ view[s].status = "resumed" => db[s].status = "resumed"
    /\ view[s].status = "ended" => db[s].status \in {"ended", "past", "resumed"}

(* When batches stop the page comes to show exactly the rows the service   *)
(* would show it, whatever it missed, got twice or got out of order: it    *)
(* "reloads the snapshot every minute so it never drifts from the server's *)
(* view" (docs/dashboard.md:176).                                          *)
Converges == <>[](\A s \in Sessions : view[s] = Shown(db[s]))

(* A page that has lost its stream, or has its first rows, comes to have   *)
(* one, through drops, shutdowns and breaks, unless a proxy refused it.    *)
StreamComesBack ==
  stream = "none" /\ conn \in {"waiting", "listening"}
    ~> stream = "open" \/ conn = "failed"

-----------------------------------------------------------------------------
(* What the documentation says and the code does not always do.            *)

(* It "ends with a closed event when the service shuts down, on which the  *)
(* page reconnects until the service is back" (docs/dashboard.md:174).     *)
ReconnectsUntilBack ==
  stream = "open" /\ mode = "stopping" ~> stream = "open" /\ mode = "up"

=============================================================================
