------------------------------- MODULE Access -------------------------------
(***************************************************************************)
(* Who is let in: tokens, the deny list and the cookie (tokens.py,         *)
(* api/auth.py), the sink's route and its rate limiter (api/sink.py,       *)
(* ingest.py), signing in and out (api/dashboard.py) and the MCP server's  *)
(* guard (mcp.py).                                                         *)
(*                                                                         *)
(* Every check runs on the event loop, so two never interleave; what moves *)
(* under one is the file of revoked ids, which an operator edits, and the  *)
(* clock.  A check that has to read that file is therefore two steps, and  *)
(* so is signing in, which reads the clock again for the cookie.           *)
(***************************************************************************)
EXTENDS Integers, Sequences

CONSTANTS
  Tokens,         \* the ids (jti) of the tokens that exist
  Claims,         \* what each says
  Origins,        \* origins a browser may post from
  AllowedOrigins, \* ALLOWED_ORIGINS
  AnyOrigin,      \* the entry "*"
  SessionLengths, \* what SESSION_HOURS may be set to
  MaxAge,         \* SESSION_COOKIE_MAX_AGE, whatever SESSION_HOURS says
  PerMinute,      \* RATE_LIMIT_PER_MINUTE; with 0 there is no limiter
  Minute,         \* the limiter's sixty seconds
  Bodies,         \* bodies that are sent
  Lists,          \* what the operator writes into the file of revoked ids
  MaxBody,        \* MAX_BODY_BYTES
  MaxClock,       \* bound: the last moment looked at
  MaxEdits,       \* bound: edits of the file of revoked ids
  MaxPassed       \* bound: batches of one token that pass the limiter

Scopes == {"ingest", "api", "dashboard"}

Never == -1       \* no stamp, no moment

ASSUME AccessAssumption ==
  /\ Claims \in [Tokens -> [signed : BOOLEAN, scopes : SUBSET Scopes,
                            starts : Nat, expires : Nat,
                            origins : SUBSET (Origins \cup {AnyOrigin})]]
  /\ \A t \in Tokens : Claims[t].starts < Claims[t].expires
  /\ AllowedOrigins \subseteq Origins \cup {AnyOrigin}
  /\ SessionLengths \subseteq Nat /\ SessionLengths # {}
  /\ MaxAge \in Nat \ {0}
  /\ Minute \in Nat \ {0}
  /\ PerMinute \in Nat \ {0}
  /\ MaxBody \in Nat
  /\ Lists \subseteq SUBSET Tokens

VARIABLES
  clock,     \* the moment
  file,      \* the file of revoked ids, and its modification stamp
  edits,     \* edits made
  edited,    \* history: the last stamp an edit left
  shared,    \* history: two edits left the same stamp
  cache,     \* DenyList: the stamp and ids it last read
  busy,      \* the check the loop is in the middle of
  window,    \* RateLimiter: the times it counts for a token
  passed,    \* history: the times a token's batches were let pass
  cuts,      \* history: how many had been at each restart
  length,    \* SESSION_HOURS, which stays as it is set
  cookie,    \* the cookie a browser holds, and until when
  signedIn,  \* history: the sign-in the browser relies on
  answer     \* the last answer, and what the file said during its check

limiter == <<window, passed, cuts>>
browser == <<cookie, signedIn>>
disk    == <<file, edits, edited, shared>>
vars    == <<clock, disk, cache, busy, limiter, length, browser, answer>>

(* What each route asks of a token.  A cookie opens the pages, and the live *)
(* view as well as a token does.                                            *)
Wanted == [events    |-> {"ingest"},
           preflight |-> {"ingest"},
           api       |-> {"api"},
           mcp       |-> {"api"},
           live      |-> {"api", "dashboard"},
           login     |-> {"dashboard"}]

Routes  == DOMAIN Wanted
Answers == {"in", "refused", "revoked", "error",
            "too many", "too large", "unreadable"}

Idle     == [stage |-> "idle"]
NoCookie == [who |-> "nobody"]
NobodyIn == [who |-> "nobody"]

Listed(t) == file.there /\ t \in file.ids

(* min(). *)
Sooner(a, b) == IF a <= b THEN a ELSE b

Later(a, b) == IF a >= b THEN a ELSE b
-----------------------------------------------------------------------------
Init ==
  /\ clock = 0
  /\ file = [there |-> FALSE, stamp |-> Never, ids |-> {}]
  /\ edits = 0
  /\ edited = Never
  /\ shared = FALSE
  /\ cache = [stamp |-> Never, ids |-> {}]
  /\ busy = Idle
  /\ window = [t \in Tokens |-> <<>>]
  /\ passed = [t \in Tokens |-> <<>>]
  /\ cuts = [t \in Tokens |-> {}]
  /\ length \in SessionLengths
  /\ cookie = NoCookie
  /\ signedIn = NobodyIn
  /\ answer = [is |-> "refused", always |-> FALSE, ever |-> FALSE]

-----------------------------------------------------------------------------
(* The body of a batch: read_body, then parse_body.  A line that is not     *)
(* JSON does not make a body unreadable.                                    *)

TooLarge(body) == body.declared > MaxBody \/ body.size > MaxBody

Lines == {"ndjson", "jsonlines", "none", "plain"}

Readable(body) ==
  /\ body.utf8
  /\ \/ body.media = "json" /\ body.holds \in {"object", "array"}
     \/ body.media \in Lines

Received(body) ==
  IF TooLarge(body) THEN "too large"
  ELSE IF Readable(body) THEN "in" ELSE "unreadable"

(* allowed_origin: the deployment's origins and those of the token, if one  *)
(* was accepted.                                                            *)
AllowedOrigin(origin, origins) ==
  {origin, AnyOrigin} \cap (AllowedOrigins \cup origins) # {}

-----------------------------------------------------------------------------
(* RateLimiter.allow: what a minute and more ago passed is dropped from the *)
(* front, and a batch that finds the window full is not put in it.          *)

Expired(times, k) == clock - times[k] >= Minute

(* Slip: the times in the window may be a minute old. *)
Popped_Late(times, k) ==
  /\ \A j \in 1 .. k : clock - times[j] >= Minute - 1
  /\ k < Len(times) => clock - times[k + 1] < Minute - 1

(* The first k of the times are popped. *)
Popped(times, k) ==
  /\ \A j \in 1 .. k : Expired(times, j)
  /\ k < Len(times) => ~Expired(times, k + 1)

(* What became of a request, and what the file had said of its token.       *)
Says(seen, is) == [is |-> is, always |-> seen.always, ever |-> seen.ever]

Answer(seen, is) ==
  /\ answer' = Says(seen, is)
  /\ busy' = Idle

Admit(t, seen) ==
  /\ \E k \in 0 .. Len(window[t]) :
       LET left == SubSeq(window[t], k + 1, Len(window[t]))
       IN  /\ Popped(window[t], k)
           /\ IF Len(left) >= PerMinute
              THEN /\ window' = [window EXCEPT ![t] = left]
                   /\ UNCHANGED passed
                   /\ Answer(seen, "too many")
              ELSE /\ Len(passed[t]) < MaxPassed
                   /\ window' = [window EXCEPT ![t] = Append(left, clock)]
                   /\ passed' = [passed EXCEPT ![t] = Append(@, clock)]
                   /\ \E body \in Bodies : Answer(seen, Received(body))
  /\ UNCHANGED cuts

-----------------------------------------------------------------------------
(* What follows once the deny list has said whether it has the id.          *)

(* A preflight goes on without a token that is not accepted; its answer is  *)
(* put down to the token only when it was.                                  *)
Preflight(who, accepted, seen) ==
  \E origin \in Origins :
    Answer([always |-> seen.always /\ accepted,
            ever   |-> seen.ever /\ accepted],
           IF AllowedOrigin(origin, IF accepted THEN Claims[who].origins
                                                ELSE {})
           THEN "in" ELSE "refused")

Decide(request, denied, seen) ==
  /\ UNCHANGED browser
  /\ \/ /\ request.route = "preflight"
        /\ Preflight(request.who, ~denied, seen)
        /\ UNCHANGED limiter
     \/ /\ request.route # "preflight"
        /\ denied
        /\ Answer(seen, "revoked")
        /\ UNCHANGED limiter
     \/ /\ request.route = "events"
        /\ ~denied
        /\ Admit(request.who, seen)
     \/ /\ request.route = "login"
        /\ ~denied
        /\ busy' = [stage |-> "issue", who |-> request.who, seen |-> seen]
        /\ UNCHANGED <<limiter, answer>>
     \/ /\ request.route \notin {"preflight", "events", "login"}
        /\ ~denied
        /\ Answer(seen, "in")
        /\ UNCHANGED limiter

Once(t) == [always |-> Listed(t), ever |-> Listed(t)]

(* DenyList._refresh: without a file nobody is denied; under the stamp of   *)
(* the last reading the ids read then are; under another it is read again,  *)
(* which is a step of its own.                                              *)
Ask(request) ==
  \/ /\ ~file.there
     /\ cache' = [stamp |-> Never, ids |-> {}]
     /\ Decide(request, FALSE, Once(request.who))
  \/ /\ file.there
     /\ file.stamp = cache.stamp
     /\ UNCHANGED cache
     /\ Decide(request, request.who \in cache.ids, Once(request.who))
  \/ /\ file.there
     /\ file.stamp # cache.stamp
     /\ busy' = [stage |-> "read", request |-> request, stamp |-> file.stamp,
                 seen |-> Once(request.who)]
     /\ UNCHANGED <<cache, limiter, browser, answer>>

(* Slip: the stamp of the reading is not kept. *)
Reread_Stampless(stamp) == [ids |-> file.ids]

(* Slip: the ids of the last reading are kept as well. *)
Reread_Merged(stamp) == [stamp |-> stamp, ids |-> cache.ids \cup file.ids]

(* The ids read now go with the stamp that was looked up before.            *)
Reread(stamp) == [stamp |-> stamp, ids |-> file.ids]

(* The file is read, or is gone by now: an error nobody handles.            *)
ReadFile ==
  /\ busy.stage = "read"
  /\ IF file.there
     THEN /\ cache' = Reread(busy.stamp)
          /\ Decide(busy.request, busy.request.who \in file.ids, busy.seen)
     ELSE /\ Answer(busy.seen, "error")
          /\ UNCHANGED <<cache, limiter, browser>>
  /\ UNCHANGED <<clock, disk, length>>

-----------------------------------------------------------------------------
(* Requests. *)

(* verify, up to the deny list: the signature, the times, the scope.        *)
Verifies(t, route) ==
  /\ Claims[t].signed
  /\ Claims[t].starts <= clock
  /\ clock < Claims[t].expires
  /\ Claims[t].scopes \cap Wanted[route] # {}

(* A request with a token: receive, preflight, require, Guard, login and    *)
(* the overview's one-time link, require_viewer.                            *)
Request(t, route) ==
  /\ busy = Idle
  /\ IF Verifies(t, route)
     THEN Ask([who |-> t, route |-> route])
     ELSE /\ IF route = "preflight"
             THEN Preflight(t, FALSE, Once(t))
             ELSE Answer(Once(t), "refused")
          /\ UNCHANGED <<cache, limiter, browser>>
  /\ UNCHANGED <<clock, disk, length>>

(* Slip: a cookie is good until the browser forgets it. *)
CookieReads_Forever == cookie # NoCookie /\ clock < cookie.until

(* The browser still sends the cookie, and read_session takes it, as far as *)
(* the deny list.                                                           *)
CookieReads ==
  /\ cookie # NoCookie
  /\ clock < cookie.until
  /\ clock < cookie.exp

(* A page, a download, the live view or its stream, opened with the cookie; *)
(* without one that is taken it is the login page.                          *)
Visit ==
  /\ busy = Idle
  /\ IF CookieReads
     THEN Ask([who |-> cookie.who, route |-> "page"])
     ELSE /\ Answer([always |-> FALSE, ever |-> FALSE], "refused")
          /\ UNCHANGED <<cache, limiter, browser>>
  /\ UNCHANGED <<clock, disk, length>>

(* Slip: the cookie lasts its hours whatever the token says. *)
Lifetime_Whole(t) == length

Lifetime(t) == Sooner(length, Claims[t].expires - clock)

(* issue_session and set_session_cookie, with the clock read anew; the      *)
(* browser's part of the cookie is the same whatever SESSION_HOURS says.    *)
IssueSession ==
  /\ busy.stage = "issue"
  /\ cookie' = [who |-> busy.who, exp |-> clock + Later(Lifetime(busy.who), 1),
                until |-> clock + MaxAge]
  /\ signedIn' = [who |-> busy.who, at |-> clock]
  /\ Answer(busy.seen, "in")
  /\ UNCHANGED <<clock, disk, cache, limiter, length>>

(* logout: the browser drops the cookie. *)
Logout ==
  /\ busy = Idle
  /\ cookie # NoCookie
  /\ cookie' = NoCookie
  /\ signedIn' = NobodyIn
  /\ UNCHANGED <<clock, disk, cache, busy, limiter, length, answer>>

-----------------------------------------------------------------------------
(* What happens to the service. *)

(* Time passes, also in the middle of a check. *)
Tick ==
  /\ clock < MaxClock
  /\ clock' = clock + 1
  /\ UNCHANGED <<disk, cache, busy, limiter, length, browser, answer>>

(* What a check in progress has seen of the file once it is this one.       *)
Seen(t, now) ==
  [always |-> busy.seen.always /\ now.there /\ t \in now.ids,
   ever   |-> busy.seen.ever \/ (now.there /\ t \in now.ids)]

(* The operator writes the file, or takes it away; a check in progress has  *)
(* then seen both.                                                          *)
Edit(now) ==
  /\ edits < MaxEdits
  /\ edits' = edits + 1
  /\ now # file
  /\ file' = now
  /\ edited' = IF now.there THEN clock ELSE edited
  /\ shared' = (shared \/ (now.there /\ edited = clock))
  /\ busy' = IF busy.stage = "read"
             THEN [busy EXCEPT !.seen = Seen(busy.request.who, now)]
             ELSE busy
  /\ UNCHANGED <<clock, cache, limiter, length, browser, answer>>

(* The process starts anew, on the same file, with the same key and the     *)
(* same settings.  The limiter, being in memory, starts empty; what it had  *)
(* let pass did pass.                                                       *)
Restart ==
  /\ cache' = [stamp |-> Never, ids |-> {}]
  /\ busy' = Idle
  /\ window' = [t \in Tokens |-> <<>>]
  /\ cuts' = [t \in Tokens |-> cuts[t] \cup ({Len(passed[t])} \ {0})]
  /\ UNCHANGED <<clock, disk, passed, length, browser, answer>>

EditFile ==
  \/ \E ids \in Lists :
       Edit([there |-> TRUE, stamp |-> clock, ids |-> ids])
  \/ /\ file.there
     /\ Edit([there |-> FALSE, stamp |-> Never, ids |-> {}])

Next ==
  \/ \E t \in Tokens, route \in Routes : Request(t, route)
  \/ Visit
  \/ ReadFile
  \/ IssueSession
  \/ Logout
  \/ Tick
  \/ EditFile
  \/ Restart

Spec == Init /\ [][Next]_vars

-----------------------------------------------------------------------------
Seens == [always : BOOLEAN, ever : BOOLEAN]

Requests == [who : Tokens, route : Routes \cup {"page"}]

Files == [there : BOOLEAN, stamp : Int, ids : SUBSET Tokens]

TypeOK ==
  /\ clock \in Nat
  /\ file \in Files
  /\ edits \in Nat
  /\ edited \in Int
  /\ shared \in BOOLEAN
  /\ cache \in [stamp : Int, ids : SUBSET Tokens]
  /\ \/ busy = Idle
     \/ busy \in [stage : {"read"}, request : Requests, stamp : Int,
                  seen : Seens]
     \/ busy \in [stage : {"issue"}, who : Tokens, seen : Seens]
  /\ window \in [Tokens -> Seq(Nat)]
  /\ passed \in [Tokens -> Seq(Nat)]
  /\ cuts \in [Tokens -> SUBSET Nat]
  /\ length \in SessionLengths
  /\ cookie = NoCookie \/ cookie \in [who : Tokens, exp : Int, until : Int]
  /\ signedIn = NobodyIn \/ signedIn \in [who : Tokens, at : Nat]
  /\ answer \in [is : Answers, always : BOOLEAN, ever : BOOLEAN]

(* A token whose id the file listed all through a check is not let in, and  *)
(* none is said to be revoked that the file did not list at some moment of  *)
(* it, as long as no two versions of the file had the same stamp.           *)
(* DenyList._refresh, tokens.py.                                            *)
DenyListCurrent ==
  ~shared =>
    /\ answer.always => answer.is \in {"refused", "revoked", "error"}
    /\ answer.is = "revoked" => answer.ever

(* The process restarted after the i-th batch of t that passed and before   *)
(* the one that passed j-th.                                                *)
RestartedBetween(t, i, j) == \E c \in cuts[t] : i <= c /\ c < j

(* A token that has a full allowance let pass waits a whole minute from the *)
(* first of them for the next, however its batches fall and however many    *)
(* are turned away, unless the process restarted meanwhile: what passed     *)
(* before a restart is forgotten, and a minute that spans n restarts may    *)
(* hold n + 1 allowances.  RateLimiter, ingest.py.                          *)
WindowBound ==
  \A t \in Tokens :
    \A i \in 1 .. Len(passed[t]) - PerMinute :
      \/ RestartedBetween(t, i, i + PerMinute)
      \/ passed[t][i + PerMinute] - passed[t][i] >= Minute

(* A browser that signed in is taken for signed in until the session's      *)
(* length has passed, its token expires or the browser's twelve hours are   *)
(* over, whichever is first, and no longer, through time and restarts; a    *)
(* SESSION_HOURS of more than twelve ends at twelve all the same.           *)
(* A token that expired while it was being exchanged gives one second.      *)
(* issue_session, set_session_cookie and read_session, api/auth.py.         *)
SessionLasts ==
  signedIn # NobodyIn =>
    LET ends == Sooner(signedIn.at + Sooner(length, MaxAge),
                       Claims[signedIn.who].expires)
    IN  CookieReads <=> clock < Later(ends, signedIn.at + 1)
=============================================================================
