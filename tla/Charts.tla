-------------------------------- MODULE Charts --------------------------------
(***************************************************************************)
(* What the overview and the workshop page put together for a view         *)
(* (views.py, api/dashboard.py): the period and the buckets it asks for,   *)
(* the trends of the sessions in it, the totals over its chart, the chart  *)
(* itself, the workshops listed below and their sparklines, each of them   *)
(* the answer of one statement and what is made of it.  A chart is its     *)
(* bars' values; where they are drawn is left out.                         *)
(***************************************************************************)
EXTENDS Statistics

CONSTANTS
  NoTime,         \* no bound of a period
  Presets,        \* how many days each preset goes back; 0 is all time
  DefaultPreset,
  DayLimit,       \* the longest period in days that is drawn by day
  PaletteSize,
  SparkDays,
  Views           \* the views asked for

ASSUME ChartsAssumption ==
  /\ \A name \in DOMAIN Presets : Presets[name] \in Nat
  /\ DefaultPreset \in DOMAIN Presets
  /\ PaletteSize \in Nat \ {0} /\ SparkDays \in Nat \ {0}
  /\ \A s \in Sessions : Value[s] \in Nat
  /\ \A v \in Views : /\ v.now \in Nat /\ v.forced \in {"", "day", "week"}
                      /\ {v.since, v.until} \subseteq Nat \cup {NoTime}
                      /\ v.incomplete \in BOOLEAN

(* Later than every session.                                               *)
Never == 1 + Max({Begin[s] + Length[s] : s \in Sessions})

-----------------------------------------------------------------------------
(* A bound of its own makes a custom range; a preset goes back whole days, *)
(* today the last of them.                                                 *)
PeriodOf(v) ==
  LET days == Presets[IF v.preset \in DOMAIN Presets THEN v.preset ELSE DefaultPreset]
  IN  IF {v.since, v.until} # {NoTime}
      THEN [since |-> v.since, until |-> v.until, days |-> 0]
      ELSE [since |-> IF days = 0 THEN NoTime
                      ELSE BucketStart(v.now - (days - 1) * Day, Day),
            until |-> NoTime, days |-> days]

EndOf(v, period) == IF period.until = NoTime THEN v.now ELSE period.until

Span(v, period) ==
  IF period.days > 0 \/ period.since = NoTime THEN period.days
  ELSE (EndOf(v, period) - period.since) \div Day

BucketFor(v, period) ==
  CASE v.forced = "day"  -> Day
    [] v.forced = "week" -> Week
    [] OTHER -> IF Span(v, period) \in 1 .. DayLimit THEN Day ELSE Week

(* What the report of a view asks of the sessions of a workshop.           *)
QuestionOf(v, workshop) ==
  LET period == PeriodOf(v)
  IN  [workshop   |-> workshop,
       since      |-> IF period.since = NoTime THEN 0 ELSE period.since,
       until      |-> IF period.until = NoTime THEN Never ELSE period.until,
       now        |-> v.now,
       incomplete |-> v.incomplete]

(* Slip: the axis ends before the bucket of now.                           *)
SlotsShort(v, buckets, length) ==
  LET period == PeriodOf(v)
      first  == IF period.since # NoTime THEN {BucketStart(period.since, length)}
                ELSE DOMAIN buckets
      last   == BucketStart(EndOf(v, period), length)
  IN  IF first = {} THEN {} ELSE {m \in Min(first) .. last - 1 : m % length = 0}

(* The bucket starts along the axis.  All time begins with the first       *)
(* journey; the axis ends with the bucket of until, or of now.             *)
Slots(v, buckets, length) ==
  LET period == PeriodOf(v)
      first  == IF period.since # NoTime THEN {BucketStart(period.since, length)}
                ELSE DOMAIN buckets
      last   == BucketStart(EndOf(v, period), length)
  IN  IF first = {} THEN {} ELSE {m \in Min(first) .. last : m % length = 0}

-----------------------------------------------------------------------------
At(buckets, m, field) == IF m \in DOMAIN buckets THEN buckets[m][field] ELSE 0

Series == {"finished", "abandoned", "lost", "inProgress"}

(* A bar for each slot, stacked by outcome.                                *)
OutcomeChart(v, buckets, length) ==
  [m \in Slots(v, buckets, length) |-> [o \in Series |-> At(buckets, m, o)]]

(* The buckets of each value of the dimension.                             *)
TrendGroups(now, L, length) ==
  LET chains == Chains(L)
  IN  [x \in {Value[c[1]] : c \in Range(chains)} |->
         Bucketed(now, Gathered(chains, LAMBDA s : Value[s] = x), length)]

(* A bar for each slot and value: what is drawn is kept under the colour   *)
(* of the value, which the values share when there are more than colours,  *)
(* and the last one to write a colour's bar is drawn for all.              *)
GroupChart(v, buckets, groups, length) ==
  LET values    == Ascending(DOMAIN groups)
      Colour(i) == (i - 1) % PaletteSize
      Writers(m, i) == {j \in DOMAIN values : /\ Colour(j) = Colour(i)
                                              /\ m \in DOMAIN groups[values[j]]}
      Drawn(m, i) == IF Writers(m, i) = {} THEN 0
                     ELSE groups[values[Max(Writers(m, i))]][m].journeys
  IN  [m \in Slots(v, buckets, length) |-> [i \in DOMAIN values |-> Drawn(m, i)]]

Sparkline(now, buckets) ==
  LET first == BucketStart(now - (SparkDays - 1) * Day, Day)
  IN  [n \in 0 .. SparkDays - 1 |-> At(buckets, first + n * Day, "journeys")]

(* The numbers on the card above a chart.                                  *)
TotalsOf(buckets) ==
  [field \in Counts |-> SumOver(buckets, LAMBDA outcomes : outcomes[field])]

-----------------------------------------------------------------------------
(* The statements a page is put together from.  Each reads the store by    *)
(* itself, so a batch may be committed between two of them.                *)

(* queries.trends, and what is made of its answer: the card, the chart     *)
(* and, in its place when a grouping is asked for, the chart by value.     *)
TrendsReport(v) ==
  LET L       == Included(QuestionOf(v, AnyWorkshop))
      length  == BucketFor(v, PeriodOf(v))
      buckets == Bucketed(v.now, L, length)
      groups  == TrendGroups(v.now, L, length)
  IN  [totals  |-> TotalsOf(buckets),
       chart   |-> OutcomeChart(v, buckets, length),
       groups  |-> groups,
       byValue |-> GroupChart(v, buckets, groups, length)]

(* queries.list_workshops: the sessions are loaded once and included by    *)
(* their workshops.                                                        *)
ListWorkshops(q) ==
  [w \in {Workshop[s] : s \in Range(Loaded(q))} |->
     Outcomes(q.now, Included([q EXCEPT !.workshop = w]))]

(* The view's filters, but as far back as sparklines go, whatever the      *)
(* period.                                                                 *)
RecentQuestion(v, workshop) ==
  [workshop |-> workshop, now |-> v.now, until |-> Never,
   since    |-> BucketStart(v.now - (SparkDays - 1) * Day, Day),
   incomplete |-> v.incomplete]

(* The trends of a workshop once more, for its sparkline.                  *)
SparklineReport(v, workshop) ==
  LET recent == Included(RecentQuestion(v, workshop))
  IN  Sparkline(v.now, Bucketed(v.now, recent, Day))

-----------------------------------------------------------------------------
Drawn(bar) == SumOver(bar, LAMBDA value : value)

(* Journeys begun by now, to the end of its bucket of the length.          *)
BegunBy(L, moment, length) ==
  HowMany(Chains(L),
          LAMBDA c : StartedAt(c[1]) < BucketStart(moment, length) + length)

EnoughColours(groups) == Cardinality(DOMAIN groups) <= PaletteSize

SameWorkshops(L) == \A s, t \in Range(L) : Resumes(s, t) => Workshop[s] = Workshop[t]

(* What one answer of trends shows of the sessions it was made of.         *)
TrendsAdd(v, L, length, report) ==
  /\ \A n \in Counts : report.totals[n] = Outcomes(v.now, L)[n]
  /\ SumOver(report.chart, Drawn) = BegunBy(L, EndOf(v, PeriodOf(v)), length)
  /\ DOMAIN report.byValue = DOMAIN report.chart
  /\ EnoughColours(report.groups) =>
       \A m \in DOMAIN report.byValue :
         Drawn(report.byValue[m]) = Drawn(report.chart[m])

(* The workshops listed have the journeys of the sessions they were listed *)
(* from between them.                                                      *)
ListingAdds(now, L, listing) ==
  SameWorkshops(L) =>
    SumOver(listing, LAMBDA o : o.journeys) = Outcomes(now, L)["journeys"]

SparklineAdds(v, L, sparkline) == Drawn(sparkline) = BegunBy(L, v.now, Day)

(* Each answer a page is put together from is right of the store that its  *)
(* statement read.  The trends, and the card above the chart, count each   *)
(* journey once; the chart shows those begun by now, in the bars of their  *)
(* outcomes as in those of their values as long as there are colours for   *)
(* them; the workshops listed have the journeys between them, unless one   *)
(* was resumed in another workshop; and each sparkline shows the journeys  *)
(* of its workshop begun by now.  What began by a clock ahead of the       *)
(* service's is on the card and not on the chart.  Nothing here is said of *)
(* two answers: a batch may be committed between the statements for the    *)
(* card, the list and the sparklines of one page, and then the list need   *)
(* not have as many journeys as the card                                   *)
(* (views.py:245-476, queries.py:768-805 and 1505-1594,                    *)
(* api/dashboard.py:212-231).                                              *)
TrendsAddUp ==
  \A v \in Views :
    LET q == QuestionOf(v, AnyWorkshop)
        L == Included(q)
    IN  /\ TrendsAdd(v, L, BucketFor(v, PeriodOf(v)), TrendsReport(v))
        /\ ListingAdds(v.now, L, ListWorkshops(q))
        /\ \A w \in Workshops :
             SparklineAdds(v, Included(RecentQuestion(v, w)), SparklineReport(v, w))

=============================================================================
