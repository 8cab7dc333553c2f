------------------------------- MODULE Reports --------------------------------
(***************************************************************************)
(* The two funnels of queries.py over the sessions an answer uses: how far *)
(* journeys get in the pages of a workshop, and how far instances get in   *)
(* the workshops of a collection.                                          *)
(*                                                                         *)
(* A session names its pages in its first event and enters pages in later  *)
(* ones; what its row knows of that is what its events brought.  The n-th  *)
(* of its Length parts is a run of consecutive events that arrive          *)
(* together.                                                               *)
(***************************************************************************)
EXTENDS Journeys

CONSTANTS
  Pages,     \* page ids
  PageList,  \* the pages each session names in its first event
  Sent,      \* the events in each part of a session, those that are told apart
  Instance,  \* the JupyterLab instance each session ran in
  NameRank   \* the text order of workshop names

Workshops == {Workshop[s] : s \in Sessions}

ASSUME ReportsAssumption ==
  /\ PageList \in [Sessions -> Seq(Pages)]
  /\ \A s \in Sessions :
       /\ IsInjective(PageList[s])
       /\ DOMAIN Sent[s] = 1 .. Length[s]
       /\ \A n \in 1 .. Length[s] :
            /\ Sent[s][n] \in Seq(Range(Sent[s][n]))
            /\ \A i \in DOMAIN Sent[s][n] :
                 Sent[s][n][i].kind \in {"page-enter", "page-leave"} =>
                   Sent[s][n][i].page \in Pages
  /\ NameRank \in [Workshops -> Nat] /\ IsInjective(NameRank)

(* The elements of a sequence, each where it comes first.                  *)
Uniq(seq) ==
  Picked(seq, {i \in DOMAIN seq : \A j \in 1 .. i - 1 : seq[j] # seq[i]})

-----------------------------------------------------------------------------
(* The events of a session that have arrived, of the kinds given.          *)
Stored(s, kinds) ==
  UNION {{<<s, n, i>> : i \in {j \in DOMAIN Sent[s][n] : Sent[s][n][j].kind \in kinds}} :
           n \in rows[s].seqs}
Event(key) == Sent[key[1]][key[2]][key[3]]

Listed(s)  == IF MissingHead(s) THEN <<>> ELSE PageList[s]
Entered(s) == {Event(k).page : k \in Stored(s, {"page-enter"})}
Left(s)    == {Event(k).page : k \in Stored(s, {"page-leave"})}

(* The list most sessions ran with, of those the longest, of those the one *)
(* met first, and after it whatever other pages the sessions listed.       *)
PageOrder(L) ==
  LET all       == [i \in DOMAIN L |-> Listed(L[i])]
      lists     == Picked(all, {i \in DOMAIN all : all[i] # <<>>})
      Ran(i)    == HowMany(lists, LAMBDA pages : pages = lists[i])
      Beats(i, j) == \/ Ran(i) > Ran(j)
                     \/ Ran(i) = Ran(j) /\ Len(lists[i]) > Len(lists[j])
      common    == Min({i \in DOMAIN lists : \A j \in DOMAIN lists : ~Beats(j, i)})
  IN  IF lists = <<>> THEN <<>> ELSE Uniq(lists[common] \o FlattenSeq(lists))

EnteredIn(chain) == UNION {Entered(s) : s \in Range(chain)}
LeftIn(chain)    == UNION {Left(s) : s \in Range(chain)}

(* Slip: where a journey got to is where its last session got to.          *)
FurthestOfLast(order, chain) ==
  Max({0} \cup {i \in DOMAIN order : order[i] \in Entered(Last(chain))})

(* The furthest listed page of a journey; 0 without one.                   *)
Furthest(order, chain) ==
  Max({0} \cup {i \in DOMAIN order : order[i] \in EnteredIn(chain)})

Funnel(now, L) ==
  LET chains == Chains(L)
      order  == PageOrder(L)
      Stops(chain, i) ==
        Outcome(now, chain) # "finished" /\ Furthest(order, chain) = i
  IN  [journeys  |-> Len(chains),
       finished  |-> HowMany(chains, LAMBDA c : Outcome(now, c) = "finished"),
       steps     |-> [i \in DOMAIN order |->
         [page    |-> order[i],
          entered |-> HowMany(chains, LAMBDA c : order[i] \in EnteredIn(c)),
          left    |-> HowMany(chains, LAMBDA c : order[i] \in LeftIn(c)),
          stopped |-> HowMany(chains, LAMBDA c : Stops(c, i))]],
       unlisted  |-> (UNION {EnteredIn(c) : c \in Range(chains)}) \ Range(order)]

-----------------------------------------------------------------------------
InInstance(L, i) == Picked(L, {n \in DOMAIN L : Instance[L[n]] = i})

(* Slip: a workshop opened again moves to the end.                         *)
TakenLast(L, i) ==
  LET own == Reverse(InInstance(L, i))
  IN  Reverse(Uniq([n \in DOMAIN own |-> Workshop[own[n]]]))

(* The workshops an instance opened, in the order it first opened them.    *)
Taken(L, i) ==
  LET own == InInstance(L, i) IN Uniq([n \in DOMAIN own |-> Workshop[own[n]]])

Instances(L) == {Instance[s] : s \in Range(L)}

Position(seq, name) == CHOOSE n \in DOMAIN seq : seq[n] = name

(* The mean position of a workshop in what the instances that opened it    *)
(* opened, as a sum and a number.                                          *)
Mean(L, w) ==
  LET takers == {i \in Instances(L) : w \in Range(Taken(L, i))}
  IN  <<SumFunction([i \in takers |-> Position(Taken(L, i), w)]),
        Cardinality(takers)>>

Compare(mean, other) == mean[1] * other[2] - other[1] * mean[2]

(* A collection's workshops by their means, and by name where they tie.    *)
CollectionWorkshops(L) ==
  LET names == {Workshop[s] : s \in Range(L)}
      Earlier(v, w) ==
        LET difference == Compare(Mean(L, v), Mean(L, w))
        IN  difference < 0 \/ (difference = 0 /\ NameRank[v] < NameRank[w])
  IN  Listing(Ranked([w \in names |-> {v \in names : Earlier(v, w)}]))

(* Slip: the journeys of all instances are looked at.                      *)
DoneByAnyone(now, L, i) ==
  {Workshop[c[1]] : c \in {k \in Range(Chains(L)) : Outcome(now, k) = "finished"}}

(* The workshops an instance finished, by the journeys within it.          *)
Done(now, L, i) ==
  {Workshop[c[1]] : c \in {k \in Range(Chains(InInstance(L, i))) :
                             Outcome(now, k) = "finished"}}

(* One instance's part in it.                                              *)
InOrder(order, taken) ==
  \A m, n \in DOMAIN taken :
    m < n => Position(order, taken[m]) < Position(order, taken[n])

StoppedAt(order, taken, done) ==
  IF Cardinality(done) = Len(order) THEN 0
  ELSE Max({Position(order, w) : w \in Range(taken)})

Progress(now, L, order) ==
  LET Stop(i)     == StoppedAt(order, Taken(L, i), Done(now, L, i))
      Of(Test(_)) == Cardinality({i \in Instances(L) : Test(i)})
  IN  [instances    |-> Cardinality(Instances(L)),
       inOrder      |-> Of(LAMBDA i : InOrder(order, Taken(L, i))),
       completedAll |-> Of(LAMBDA i : Stop(i) = 0),
       steps        |-> [n \in DOMAIN order |->
         [name      |-> order[n],
          instances |-> Of(LAMBDA i : order[n] \in Range(Taken(L, i))),
          finished  |-> Of(LAMBDA i : order[n] \in Done(now, L, i)),
          stopped   |-> Of(LAMBDA i : Stop(i) = n)]]]

CollectionProgress(now, L) == Progress(now, L, CollectionWorkshops(L))

-----------------------------------------------------------------------------
SumOver(steps, Field(_)) == SumFunction([i \in DOMAIN steps |-> Field(steps[i])])

(* The journeys that did not finish and entered no page of the list.       *)
Listless(now, chains, unlisted) ==
  HowMany(chains, LAMBDA c : /\ Outcome(now, c) # "finished"
                             /\ EnteredIn(c) \subseteq unlisted)

AllStopped(report, listless) ==
  /\ report.journeys = report.finished + listless
                         + SumOver(report.steps, LAMBDA s : s.stopped)
  /\ \A i \in DOMAIN report.steps :
       report.steps[i].stopped <= report.steps[i].entered

(* Every journey finished, stopped on one page of the list, or entered     *)
(* none; and no more journeys stop at a page than entered it               *)
(* (queries.py:869-942).                                                   *)
FunnelAddsUp ==
  \A q \in Questions \ {r \in Questions : r.workshop = AnyWorkshop} :
    LET L      == Included(q)
        report == Funnel(q.now, L)
    IN  /\ IsInjective(PageOrder(L))
        /\ AllStopped(report, Listless(q.now, Chains(L), report.unlisted))

AllAccountedFor(report) ==
  /\ report.instances = report.completedAll
                          + SumOver(report.steps, LAMBDA s : s.stopped)
  /\ \A n \in DOMAIN report.steps :
       LET step == report.steps[n]
       IN  /\ step.stopped + report.completedAll <= step.instances
           /\ report.completedAll <= step.finished
           /\ step.finished <= step.instances

(* Every instance completed the collection or stopped in one of the        *)
(* workshops it reached, and one that completed it is among those that     *)
(* finished each workshop (queries.py:2268-2340).                          *)
CollectionAddsUp ==
  \A q \in Questions : AllAccountedFor(CollectionProgress(q.now, Included(q)))

Opened(L, i, w) == {n \in DOMAIN L : Instance[L[n]] = i /\ Workshop[L[n]] = w}

OpenedFirst(L, i, v, w) ==
  /\ Opened(L, i, v) # {}
  /\ Opened(L, i, w) # {} => Min(Opened(L, i, v)) < Min(Opened(L, i, w))

IsCommonOrder(L, i) ==
  LET names == {Workshop[s] : s \in Range(L)}
  IN  \A j \in Instances(L) : \A v, w \in names :
        /\ Opened(L, i, v) # {}
        /\ OpenedFirst(L, i, v, w) /\ Opened(L, j, w) # {} => OpenedFirst(L, j, v, w)

Follows(report, L, i) ==
  /\ \A m, n \in DOMAIN report.steps :
       m < n => OpenedFirst(L, i, report.steps[m].name, report.steps[n].name)
  /\ report.inOrder = report.instances

(* When one instance opened every workshop, and each other one opened the  *)
(* first so many of them in the same order, that order is the one reported *)
(* and all took them in order, however often one was opened again          *)
(* (queries.py:2160-2209).                                                 *)
CommonOrderFound ==
  \A q \in Questions :
    \A i \in Instances(Included(q)) :
      IsCommonOrder(Included(q), i) =>
        Follows(CollectionProgress(q.now, Included(q)), Included(q), i)

=============================================================================
