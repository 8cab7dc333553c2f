------------------------------- MODULE Journeys -------------------------------
(***************************************************************************)
(* What the reports make of the sessions rows (queries.py): sessions       *)
(* chained into journeys by the sessions they resumed, what became of each *)
(* journey, and the counts by group and by period.                         *)
(*                                                                         *)
(* The parts of a session are numbered 1 .. Length, each a run of its      *)
(* events that arrive together, and a row is what project_session makes of *)
(* those that have arrived, so a row lacks resumed_from as long as part 1  *)
(* is missing and its start is that of the first event it has.  Rows come  *)
(* in any order; the questions are asked of every state.  A row a rebuild  *)
(* has dropped is one that has not arrived.                                *)
(***************************************************************************)
EXTENDS Lists, SequencesExt

CONSTANTS
  Sessions,     \* session ids
  NoSession,    \* the empty session id
  NoRow,        \* no sessions row
  Histories,    \* which session each session may turn out to have resumed
  Length,       \* how many parts each session sends
  Finishing,    \* sessions whose last part ends in workshop-finish
  Abandoning,   \* sessions whose last part ends in workshop-abandon
  Begin,        \* the timestamp of each session's first event
  Rank,         \* the text order of session ids
  Workshop,     \* the workshop of each session
  Value,        \* the value of each session in a grouping dimension
  SilentLimit,  \* the setting silent_limit
  Day, Week,    \* how long the buckets of the trends are
  Questions     \* the questions asked: filters, moment and include_incomplete

AnyWorkshop == "any"

Question == [workshop   : {AnyWorkshop} \cup {Workshop[s] : s \in Sessions},
             since      : Nat,
             until      : Nat,
             now        : Nat,
             incomplete : BOOLEAN]

Row == [seqs      : (SUBSET Nat) \ {{}},
        resumedBy : Sessions \cup {NoSession}]

ASSUME JourneysAssumption ==
  /\ IsFiniteSet(Sessions)
  /\ NoSession \notin Sessions /\ NoRow \notin Row
  /\ Histories \subseteq [Sessions -> Sessions \cup {NoSession}]
  /\ Length \in [Sessions -> Nat \ {0}]
  /\ Finishing \subseteq Sessions /\ Abandoning \subseteq Sessions \ Finishing
  /\ Begin \in [Sessions -> Nat]
  /\ Rank \in [Sessions -> Nat]
  /\ \A s, t \in Sessions : Rank[s] = Rank[t] => s = t
  /\ AnyWorkshop \notin {Workshop[s] : s \in Sessions}
  /\ SilentLimit \in Nat /\ Day \in Nat \ {0} /\ Week \in Nat \ {0}
  /\ Questions \subseteq Question

VARIABLES
  resumed,  \* the session each session resumed when it was opened
  rows      \* the sessions rows: the events arrived, and resumed_by

vars == <<resumed, rows>>

TypeOK ==
  /\ resumed \in Histories
  /\ rows \in [Sessions -> Row \cup {NoRow}]
  /\ \A s \in Sessions : rows[s] # NoRow => rows[s].seqs \subseteq 1 .. Length[s]

-----------------------------------------------------------------------------
(* The columns of a row that the reports read.                             *)
Present == {s \in Sessions : rows[s] # NoRow}

(* Each part is stamped a unit after the one before it.                    *)
StartedAt(s) == Begin[s] + Min(rows[s].seqs) - 1
LastSeen(s)  == Begin[s] + Max(rows[s].seqs) - 1

ResumedFrom(s) == IF 1 \in rows[s].seqs THEN resumed[s] ELSE NoSession

Ended(s)       == Length[s] \in rows[s].seqs
MissingHead(s) == 1 \notin rows[s].seqs
Gapped(s)      == \E n \in rows[s].seqs :
                     n + 1 \notin rows[s].seqs /\ n < Max(rows[s].seqs)
Excluded(s)    == MissingHead(s) \/ Gapped(s)

(* active, away and silent are told apart in no count: all are "live", the *)
(* allowances of the first two being shorter than silent_limit.            *)
Status(now, s) ==
  CASE rows[s].resumedBy # NoSession       -> "resumed"
    [] OTHER -> CASE Ended(s) /\ s \in Finishing  -> "finished"
                  [] Ended(s) /\ s \in Abandoning -> "abandoned"
                  [] OTHER -> IF now - LastSeen(s) < SilentLimit
                              THEN "live" ELSE "lost"

(* The order of the rows: by start, then by id.                            *)
Before(s, t) == \/ StartedAt(s) < StartedAt(t)
                \/ StartedAt(s) = StartedAt(t) /\ Rank[s] < Rank[t]

Matches(q, s) == /\ q.workshop \in {AnyWorkshop, Workshop[s]}
                 /\ StartedAt(s) >= q.since /\ StartedAt(s) < q.until

Sorted(S) == Listing(Ranked([s \in S |-> {t \in S : Before(t, s)}]))

(* The sessions an answer uses, oldest first.                              *)
Loaded(q)   == Sorted({s \in Present : Matches(q, s)})
Included(q) == Sorted({s \in Present : /\ Matches(q, s)
                                       /\ ~q.incomplete => ~Excluded(s)})

-----------------------------------------------------------------------------
(* Journeys.  Of several sessions resuming the same one the last wins.     *)
Resumes(s, t) == ResumedFrom(s) = t /\ s # t

Resumers(L, s)  == {i \in DOMAIN L : Resumes(L[i], s)}
Successor(L, s) == L[Max(Resumers(L, s))]

(* Slip: a head is what resumed nothing, loaded or not.                    *)
HeadsUnresumed(L) ==
  Picked(L, {i \in DOMAIN L : ResumedFrom(L[i]) \in {NoSession, L[i]}})

(* Slip: a session is a head unless one before it was resumed.             *)
HeadsSoFar(L) ==
  Picked(L, {i \in DOMAIN L : ~ \E j \in 1 .. i - 1 : Resumes(L[i], L[j])})

Heads(L) ==
  Picked(L, {i \in DOMAIN L : \/ ResumedFrom(L[i]) \notin Range(L)
                              \/ ResumedFrom(L[i]) = L[i]})

(* A head followed through its successors, until there is none or it has   *)
(* been passed already.                                                    *)
Segments(L, head) ==
  LET upTo[n \in 1 .. Len(L)] ==
        IF n = 1 THEN <<head>>
        ELSE LET sofar == upTo[n - 1]
             IN  IF \/ Resumers(L, Last(sofar)) = {}
                    \/ Successor(L, Last(sofar)) \in Range(sofar)
                 THEN sofar
                 ELSE Append(sofar, Successor(L, Last(sofar)))
  IN  upTo[Len(L)]

Chains(L) ==
  LET heads == Heads(L) IN Listing([n \in DOMAIN heads |-> Segments(L, heads[n])])

(* Slip: only a finish settles a journey that is not lost.                 *)
OutcomeUnabandoned(now, chain) ==
  LET status == Status(now, Last(chain))
  IN  IF status \in {"finished", "lost"} THEN status ELSE "in_progress"

Outcome(now, chain) ==
  LET status == Status(now, Last(chain))
  IN  IF status \in {"finished", "abandoned", "lost"} THEN status
      ELSE "in_progress"

HowMany(L, Test(_)) == Cardinality({i \in DOMAIN L : Test(L[i])})

Outcomes(now, L) ==
  LET chains    == Chains(L)
      Ending(o) == HowMany(chains, LAMBDA c : Outcome(now, c) = o)
  IN  [sessions   |-> Len(L),
       journeys   |-> Len(chains),
       starts     |-> HowMany(L, LAMBDA s : ResumedFrom(s) = NoSession),
       resumes    |-> HowMany(L, LAMBDA s : ResumedFrom(s) # NoSession),
       finished   |-> Ending("finished"),
       abandoned  |-> Ending("abandoned"),
       lost       |-> Ending("lost"),
       inProgress |-> Ending("in_progress")]

(* The sessions of the journeys whose first session passes the test.       *)
Gathered(chains, Test(_)) ==
  FlattenSeq(Picked(chains, {i \in DOMAIN chains : Test(chains[i][1])}))

(* Slip: each session in the group of its own value.                       *)
GroupedEach(now, L) ==
  [v \in {Value[s] : s \in Range(L)} |->
     Outcomes(now, Picked(L, {i \in DOMAIN L : Value[L[i]] = v}))]

(* By the first session's value, and by the period it started in; every    *)
(* period between the first and the last is there.                         *)
Grouped(now, L) ==
  LET chains == Chains(L)
  IN  [v \in {Value[c[1]] : c \in Range(chains)} |->
         Outcomes(now, Gathered(chains, LAMBDA s : Value[s] = v))]

BucketStart(moment, length) == moment - (moment % length)

Starts(L, length) ==
  {BucketStart(StartedAt(c[1]), length) : c \in Range(Chains(L))}

Within(chains, length, b) ==
  Gathered(chains, LAMBDA s : BucketStart(StartedAt(s), length) = b)

Bucketed(now, L, length) ==
  LET starts == Starts(L, length)
      chains == Chains(L)
  IN  [b \in IF starts = {} THEN {}
             ELSE {m \in Min(starts) .. Max(starts) : m % length = 0} |->
         Outcomes(now, Within(chains, length, b))]

(* Slip: what came before is appended, not inserted.                       *)
ChainOfBackwards(s) ==
  LET Steps == 1 .. Cardinality(Sessions) + 1
      ids[n \in Steps] ==
        IF n = 1 THEN <<s>>
        ELSE LET last == Last(ids[n - 1])
                 from == IF rows[last] = NoRow THEN NoSession ELSE ResumedFrom(last)
             IN  IF from \in Range(ids[n - 1]) \cup {NoSession} THEN ids[n - 1]
                 ELSE Append(ids[n - 1], from)
  IN  ids[Cardinality(Sessions) + 1]

(* The chain in a session's detail: back through resumed_from, a session   *)
(* without a row included but not gone past, and on through resumed_by.    *)
ChainOf(s) ==
  LET Steps == 1 .. Cardinality(Sessions) + 1
      From(t) == IF rows[t] = NoRow THEN NoSession ELSE ResumedFrom(t)
      By(t)   == IF rows[t] = NoRow THEN NoSession ELSE rows[t].resumedBy
      back[n \in Steps] ==
        IF n = 1 THEN <<s>>
        ELSE LET ids == back[n - 1]
             IN  IF From(ids[1]) \in Range(ids) \cup {NoSession} THEN ids
                 ELSE <<From(ids[1])>> \o ids
      on[n \in Steps] ==
        IF n = 1 THEN back[Cardinality(Sessions) + 1]
        ELSE LET ids == on[n - 1]
             IN  IF By(Last(ids)) \in Range(ids) \cup {NoSession} THEN ids
                 ELSE Append(ids, By(Last(ids)))
  IN  on[Cardinality(Sessions) + 1]

-----------------------------------------------------------------------------
Init == /\ resumed \in Histories
        /\ rows = [s \in Sessions |-> NoRow]

(* Slip: a new row's resumed_by is null.                                   *)
ProjectedNull(s, N) ==
  IF rows[s] = NoRow THEN [seqs |-> N, resumedBy |-> NoRow]
  ELSE [rows[s] EXCEPT !.seqs = @ \cup N]

(* The row of s with the parts N arrived as well: resumed_by is kept.     *)
Projected(s, N) ==
  IF rows[s] = NoRow THEN [seqs |-> N, resumedBy |-> NoSession]
  ELSE [rows[s] EXCEPT !.seqs = @ \cup N]

(* project_session after a batch of parts N of s, none stored before: the *)
(* row is written, and then resumed_by of the one it resumes, if there.    *)
Project(s, N) ==
  LET seqs    == Projected(s, N).seqs
      from    == IF 1 \in seqs THEN resumed[s] ELSE NoSession
      written == [rows EXCEPT ![s] = Projected(s, N)]
  IN  /\ N # {}
      /\ rows[s] # NoRow => N \cap rows[s].seqs = {}
      /\ rows' = IF from \notin {NoSession, s} /\ rows[from] # NoRow
                 THEN [written EXCEPT ![from].resumedBy = s]
                 ELSE written
      /\ UNCHANGED resumed

Next == \E s \in Sessions : \E N \in SUBSET (1 .. Length[s]) : Project(s, N)

Spec == Init /\ [][Next]_vars

-----------------------------------------------------------------------------
(* No session is counted twice: the journeys of an answer share none, each *)
(* goes from a session to one that resumed it, begins where nothing loaded *)
(* came before and stops only where nothing goes on (queries.py:500-540).  *)
JourneysAreChains ==
  \A q \in Questions :
    LET L      == Included(q)
        chains == Chains(L)
    IN  /\ \A i, j \in DOMAIN chains :
             \A m \in DOMAIN chains[i] : \A n \in DOMAIN chains[j] :
               chains[i][m] = chains[j][n] => i = j /\ m = n
        /\ \A c \in Range(chains) :
             /\ c # <<>> /\ Range(c) \subseteq Range(L)
             /\ \A i \in 1 .. Len(c) - 1 : Resumes(c[i + 1], c[i])
             /\ ~ \E t \in Range(L) : Resumes(c[1], t)
             /\ ~ \E t \in Range(L) : Resumes(t, Last(c))

(* What the sessions of a set resumed, as far as these ids hold it; all    *)
(* that came before a session; and whether a later one took its place.     *)
Back(ids, S) == {t \in ids : \E s \in S : Resumes(s, t)}

CarriesOn(ids, s) ==
  {t \in ids : \A S \in SUBSET ids : Back(ids, S \cup {s}) \subseteq S => t \in S}

Overtaken(ids, s) == \E t, u \in ids : Resumes(s, t) /\ Resumes(u, t) /\ Before(s, u)

(* A session is left out of every journey only when it, or one it carries  *)
(* on from, is in a circle, or resumed what a later session of the answer  *)
(* resumed too (queries.py:508-540).                                       *)
OnlyOvertakenLeftOut ==
  \A q \in Questions :
    LET L   == Included(q)
        ids == Range(L)
    IN  \A s \in ids :
          (\E c \in Range(Chains(L)) : s \in Range(c))
            <=> ~ \E t \in {s} \cup CarriesOn(ids, s) :
                     t \in CarriesOn(ids, t) \/ Overtaken(ids, t)

Counts == {"journeys", "finished", "abandoned", "lost", "inProgress"}

AddUp(parts, whole) ==
  \A n \in Counts : whole[n] = SumFunction([v \in DOMAIN parts |-> parts[v][n]])

(* Grouping neither splits a journey, nor loses one, nor changes what      *)
(* became of it: the groups add up to the total (queries.py:693-709).      *)
GroupsAddUp ==
  \A q \in Questions :
    AddUp(Grouped(q.now, Included(q)), Outcomes(q.now, Included(q)))

(* An answer that calls a journey in progress has seen its last session    *)
(* live, or does not include one that carried it on, which the filters or  *)
(* the events it lacks kept out (queries.py:419-427).                      *)
InProgressExplained ==
  \A q \in Questions :
    \A c \in Range(Chains(Included(q))) :
      Outcome(q.now, c) = "in_progress" =>
        \/ Status(q.now, Last(c)) = "live"
        \/ \E s \in Present \ Range(Included(q)) :
             resumed[s] = Last(c) /\ 1 \in rows[s].seqs

(* Where everything has come, each session was resumed once at most, and   *)
(* every resume found its row, a session's detail and the reports give the *)
(* same journey (queries.py:1873-1902 and 500-540).                        *)
Settled ==
  /\ \A s \in Sessions : rows[s] # NoRow /\ rows[s].seqs = 1 .. Length[s]
  /\ \A s, t \in Sessions :
       resumed[s] = resumed[t] /\ resumed[s] # NoSession => s = t
  /\ \A s \in Sessions : resumed[s] # NoSession =>
       rows[resumed[s]].resumedBy = s

ChainAgrees ==
  Settled => \A q \in Questions :
    Range(Loaded(q)) = Sessions =>
      \A c \in Range(Chains(Included(q))) : \A s \in Range(c) : ChainOf(s) = c

=============================================================================
