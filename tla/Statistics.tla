------------------------------ MODULE Statistics ------------------------------
(***************************************************************************)
(* The reports of queries.py that read events beside the sessions rows:    *)
(* times on pages, actions, checks, the coverage of the directives listed, *)
(* one session in detail, and the learners.                                *)
(*                                                                         *)
(* A row's own columns, such as the directives its session ran, are the    *)
(* fold of all its events; the reports load events by kind themselves.     *)
(* Both are read here from the events that have arrived, each by its own   *)
(* rule.                                                                   *)
(***************************************************************************)
EXTENDS Reports

CONSTANTS
  Directives,   \* directive ids
  Inventory,    \* the directives each session lists for each of its pages
  NoInventory,  \* what a session lists that lists none on any page
  User,         \* who did each session
  Nobody,       \* the empty user
  NoValues      \* the percentiles of no values

ASSUME StatisticsAssumption ==
  /\ IsFiniteSet(Directives)
  /\ \A s \in Sessions :
       /\ Inventory[s] \in [Range(PageList[s]) -> SUBSET Directives] \cup {NoInventory}
       /\ \A n \in 1 .. Length[s] : \A i \in DOMAIN Sent[s][n] :
            /\ Sent[s][n][i].kind = "page-leave" => Sent[s][n][i].active \in Nat
            /\ Sent[s][n][i].kind \in {"verify-result", "quiz-answered"} =>
                 Sent[s][n][i].attempt \in Nat

StoredIn(L, kinds) == UNION {Stored(s, kinds) : s \in Range(L)}
SessionsOf(keys)   == {k[1] : k \in keys}

-----------------------------------------------------------------------------
(* Percentiles of a function's values.  Python's round takes a half to the *)
(* even neighbour.                                                         *)
RoundHalfEven(n, d) ==
  LET q == n \div d  r == n % d
  IN  IF 2 * r < d \/ (2 * r = d /\ q % 2 = 0) THEN q ELSE q + 1

AtMost(f, v)  == Cardinality({x \in DOMAIN f : f[x] <= v})
AtLeast(f, v) == Cardinality({x \in DOMAIN f : f[x] >= v})

(* The values in order, from index 0.                                      *)
Ordered(f) ==
  LET n == Cardinality(DOMAIN f)
  IN  [i \in 0 .. n - 1 |->
         CHOOSE v \in Range(f) : AtMost(f, v) > i /\ AtLeast(f, v) >= n - i]

(* The index of a percentile, its share in tenths.                         *)
Rank10(tenths, n) ==
  Max({0, Min({n - 1, RoundHalfEven(tenths * n + 5, 10) - 1})})

Percentiles(f) ==
  LET n       == Cardinality(DOMAIN f)
      ordered == Ordered(f)
  IN  IF n = 0 THEN NoValues
      ELSE [count |-> n,
            min   |-> ordered[0],
            p50   |-> ordered[Rank10(5, n)],
            p90   |-> ordered[Rank10(9, n)],
            max   |-> ordered[n - 1]]

-----------------------------------------------------------------------------
(* What a row says of directives.                                          *)
InventoryOf(s) == IF MissingHead(s) THEN NoInventory ELSE Inventory[s]

ListedIds(inventory) == UNION Range(inventory)

DirectiveKinds == {"action-executed", "verify-result", "quiz-answered",
                   "form-submitted", "hint-opened"}

(* Slip: a check is not what its inventory's directive ran.                *)
RunActionsOnly(s) == {Event(k).id : k \in Stored(s, {"action-executed"})}

Run(s) == {Event(k).id : k \in Stored(s, DirectiveKinds)}

(* In ten thousandths.                                                     *)
Share(listed, run) ==
  RoundHalfEven(10000 * Cardinality(listed \cap run), Cardinality(listed))

(* The fullest inventory of a journey, of those the first.                 *)
ChainInventory(chain) ==
  LET Size(s) == Cardinality(ListedIds(InventoryOf(s)))
      having  == Picked(chain, {i \in DOMAIN chain : InventoryOf(chain[i]) # NoInventory})
      fullest == Min({i \in DOMAIN having :
                        \A j \in DOMAIN having : Size(having[j]) <= Size(having[i])})
  IN  IF having = <<>> THEN NoInventory ELSE InventoryOf(having[fullest])

RunIn(chain)     == UNION {Run(s) : s \in Range(chain)}
PagesDone(chain) == Cardinality(LeftIn(chain))
PageCount(chain) == Max({Len(Listed(s)) : s \in Range(chain)})
GatesSkipped(chain) == StoredIn(chain, {"gate-skipped"})

(* The distributions beside the counts of what became of the journeys.     *)
Distributions(now, L) ==
  LET chains == Chains(L)
      Ids(i) == ListedIds(ChainInventory(chains[i]))
      with   == {i \in DOMAIN chains : ChainInventory(chains[i]) # NoInventory}
  IN  [skipping      |-> HowMany(chains, LAMBDA c : /\ Outcome(now, c) = "finished"
                                                    /\ GatesSkipped(c) # {}),
       pagesDone     |-> [i \in DOMAIN chains |-> PagesDone(chains[i])],
       withInventory |-> Cardinality(with),
       coverage      |-> [i \in {j \in with : Ids(j) # {}} |->
                            Share(Ids(i), RunIn(chains[i]))]]

-----------------------------------------------------------------------------
(* The pages that are listed and, after them, others that were met.        *)
WithOthers(order, others) ==
  order \o SetToSeq(others \ Range(order))

PageTimings(L) ==
  LET leaves == StoredIn(L, {"page-leave"})
      order  == WithOthers(PageOrder(L), {Event(k).page : k \in leaves})
      At(i)  == {k \in leaves : Event(k).page = order[i]}
  IN  [i \in DOMAIN order |->
         [page     |-> order[i],
          sessions |-> Cardinality(SessionsOf(At(i))),
          active   |-> [k \in At(i) |-> Event(k).active]]]

(* The runs of each action, and how many sessions had it to run.           *)
ActionUsages(L) ==
  LET rows_  == StoredIn(L, {"action-executed"})
      By(d)  == {k \in rows_ : Event(k).id = d}
      Has(d) == {s \in Range(L) : /\ InventoryOf(s) # NoInventory
                                  /\ d \in ListedIds(InventoryOf(s))}
  IN  [d \in {Event(k).id : k \in rows_} |->
         [runs     |-> Cardinality(By(d)),
          sessions |-> SessionsOf(By(d)),
          ok       |-> Cardinality({k \in By(d) : Event(k).ok}),
          listed   |-> Cardinality(Has(d))]]

(* Each check by kind and id; the attempt of a session is that of its      *)
(* first pass.                                                             *)
Sooner(k, l) == k[2] < l[2] \/ (k[2] = l[2] /\ k[3] < l[3])

CheckOutcomes(L) ==
  LET results == StoredIn(L, {"verify-result", "quiz-answered"})
      Of(c)   == {k \in results : <<Event(k).kind, Event(k).id>> = c}
      Passes(c, s) == {k \in Of(c) : k[1] = s /\ Event(k).ok}
      Passed(c)    == {s \in SessionsOf(Of(c)) : Passes(c, s) # {}}
      First(c, s)  == CHOOSE k \in Passes(c, s) :
                        \A l \in Passes(c, s) : ~Sooner(l, k)
  IN  [c \in {<<Event(k).kind, Event(k).id>> : k \in results} |->
         [runs     |-> Cardinality(Of(c)),
          sessions |-> SessionsOf(Of(c)),
          attempts |-> [s \in Passed(c) |-> Event(First(c, s)).attempt]]]

Hints(L) ==
  LET opened == StoredIn(L, {"hint-opened"})
  IN  [d \in {Event(k).id : k \in opened} |->
         SessionsOf({k \in opened : Event(k).id = d})]

(* What was listed against what was run, in the sessions that list any.    *)
Coverage(L) ==
  LET with    == {s \in Range(L) : InventoryOf(s) # NoInventory}
      order   == PageOrder(L)
      With(p) == {s \in with : p \in DOMAIN InventoryOf(s)}
      seen    == {e \in Pages \X Directives :
                    \E s \in With(e[1]) : e[2] \in InventoryOf(s)[e[1]]}
      Has(p, d) == {s \in With(p) : d \in InventoryOf(s)[p]}
      Ran(p, d) == {s \in Has(p, d) : d \in Run(s)}
  IN  [withInventory |-> Cardinality(with),
       directives    |-> Cardinality(seen),
       shares        |-> [s \in {t \in with : ListedIds(InventoryOf(t)) # {}} |->
                            Share(ListedIds(InventoryOf(s)), Run(s))],
       neverRun      |-> {e \in seen : Ran(e[1], e[2]) = {}},
       pages         |-> [i \in DOMAIN order |->
         [page    |-> order[i],
          listed  |-> Cardinality(With(order[i])),
          entries |-> [d \in {e[2] : e \in {f \in seen : f[1] = order[i]}} |->
                         [listed |-> Has(order[i], d), ran |-> Ran(order[i], d)]]]]]

(* The time on each of one session's pages, those it listed and entered.   *)
Active(s, p) ==
  SumFunction([k \in Stored(s, {"page-leave"}) |->
                 IF Event(k).page = p THEN Event(k).active ELSE 0])

PageVisits(s) == [p \in Range(Listed(s)) \cup Entered(s) |-> Active(s, p)]

-----------------------------------------------------------------------------
(* Slip: a learner's first journey stands for the best.                    *)
BestFirst(chains) == chains[1]

(* The journey with the most pages done, of those the first.               *)
Best(chains) ==
  chains[Min({i \in DOMAIN chains :
               \A j \in DOMAIN chains : PagesDone(chains[j]) <= PagesDone(chains[i])})]

Of(L, u) == Picked(L, {i \in DOMAIN L : User[L[i]] = u})

Learner(now, own) ==
  [sessions |-> Len(own),
   journeys |-> Len(Chains(own)),
   finished |-> \E c \in Range(Chains(own)) : Outcome(now, c) = "finished",
   done     |-> PagesDone(Best(Chains(own))),
   count    |-> PageCount(Best(Chains(own)))]

(* The answer; none when the maximum of no journeys raises, and the        *)
(* request with it.                                                        *)
Learners(now, L) ==
  LET users == {User[s] : s \in Range(L)} \ {Nobody}
  IN  IF \E u \in users : Chains(Of(L, u)) = <<>> THEN {}
      ELSE {[learners  |-> [u \in users |-> Learner(now, Of(L, u))],
             anonymous |-> Len(Of(L, Nobody))]}

-----------------------------------------------------------------------------
(* The sessions some report of events counts for each directive.           *)
Using(L) ==
  LET usages == ActionUsages(L)
      checks == CheckOutcomes(L)
      hints  == Hints(L)
      forms  == StoredIn(L, {"form-submitted"})
  IN  [d \in Directives |->
         (UNION {usages[u].sessions : u \in (DOMAIN usages) \cap {d}})
           \cup (UNION {checks[c].sessions : c \in {e \in DOMAIN checks : e[2] = d}})
           \cup (UNION {hints[h] : h \in (DOMAIN hints) \cap {d}})
           \cup SessionsOf({k \in forms : Event(k).id = d})]

CoverageAgrees(L) ==
  LET report == Coverage(L)
      using  == Using(L)
  IN  /\ report.directives = SumOver(report.pages, LAMBDA p : Cardinality(DOMAIN p.entries))
      /\ \A i \in DOMAIN report.pages : \A d \in DOMAIN report.pages[i].entries :
           LET entry == report.pages[i].entries[d]
           IN  entry.ran = entry.listed \cap using[d]
      /\ \A e \in report.neverRun : \A s \in using[e[2]] :
           InventoryOf(s) = NoInventory \/ e[1] \notin DOMAIN InventoryOf(s)
             \/ e[2] \notin InventoryOf(s)[e[1]]

(* A session's detail shows no page that it left without entering or       *)
(* listing it: such an event came without the one before it.               *)
TimingsAgree(L) ==
  LET report == PageTimings(L)
      Visited(p) == {s \in Range(L) : p \in DOMAIN PageVisits(s)}
  IN  \A i \in DOMAIN report :
        LET page == report[i].page
        IN  (\A s \in Range(L) : page \in Left(s) => s \in Visited(page)) =>
              SumOver(report[i].active, LAMBDA active : active)
                = SumFunction([s \in Visited(page) |-> PageVisits(s)[page]])

(* Of the values at least half are no more than p50, and half no less; at  *)
(* least nine tenths are no more than p90, and a tenth no less.            *)
SplitsAt(f, v, tenths, n) ==
  10 * AtMost(f, v) >= tenths * n /\ 10 * AtLeast(f, v) >= (10 - tenths) * n

Splits(f) ==
  LET r == Percentiles(f)
  IN  r # NoValues =>
        /\ SplitsAt(f, r.p50, 5, r.count) /\ SplitsAt(f, r.p90, 9, r.count)
        /\ r.min <= r.p50 /\ r.p50 <= r.p90 /\ r.p90 <= r.max

AllSplit(now, L) ==
  /\ LET report == Distributions(now, L)
     IN  Splits(report.pagesDone) /\ Splits(report.coverage)
  /\ Splits(Coverage(L).shares)
  /\ LET timings == PageTimings(L)
     IN  \A i \in DOMAIN timings : Splits(timings[i].active)
  /\ LET checks == CheckOutcomes(L)
     IN  \A c \in DOMAIN checks : Splits(checks[c].attempts)

(* The reports agree with each other: a directive counts as run in exactly *)
(* the sessions that listed it and that the actions, checks and hints      *)
(* count for it, the time on a page is what the sessions' own pages add up *)
(* to, and every percentile splits its values as it says                   *)
(* (queries.py:997-1449).                                                  *)
ReportsAgree ==
  \A q \in Questions :
    LET L == Included(q)
    IN  CoverageAgrees(L) /\ TimingsAgree(L) /\ AllSplit(q.now, L)

(* The learners of a workshop are answered for, unless every session of    *)
(* one resumed another of theirs; where no one carried on what another     *)
(* began, they had the journeys the workshop had, they finished where a    *)
(* journey did, and none got further than what is called their best        *)
(* (queries.py:2371-2423).                                                 *)
LearnersAgree ==
  \A q \in Questions :
    LET L       == Loaded(q)
        ids     == Range(L)
        answers == Learners(q.now, L)
        chains  == Range(Chains(L))
        Lost(u) == \A s \in {t \in ids : User[t] = u} :
                     \E t \in ids : User[t] = u /\ Resumes(s, t)
        Crossed == \E s, t \in ids : Resumes(s, t) /\ User[s] # User[t]
    IN  /\ answers = {} <=> \E u \in {User[s] : s \in ids} \ {Nobody} : Lost(u)
        /\ \A report \in answers :
             /\ SumOver(report.learners, LAMBDA l : l.sessions) + report.anonymous
                  = Cardinality(ids)
             /\ ~Crossed =>
                  /\ SumOver(report.learners, LAMBDA l : l.journeys)
                       = Cardinality({c \in chains : User[c[1]] # Nobody})
                  /\ {u \in DOMAIN report.learners : report.learners[u].finished}
                       = {User[c[1]] : c \in {k \in chains : Outcome(q.now, k) = "finished"}}
                           \ {Nobody}
                  /\ \A c \in chains : User[c[1]] # Nobody =>
                       PagesDone(c) <= report.learners[User[c[1]]].done

=============================================================================
