----------------------------- MODULE MC_Reports ------------------------------
(* Three sessions of one workshop, which may have resumed each other in    *)
(* any way, forks and circles included, and one of another, asked about    *)
(* while some are live and after, whole and cut by a time filter.          *)
EXTENDS Charts

CONSTANTS a, b, c, d, p1, p2, p3, p4, d1, d2, d3

MCHistories == {h \in [Sessions -> Sessions \cup {NoSession}] :
                  /\ h[d] = NoSession /\ \A s \in Sessions : h[s] # d
                  /\ h[a] # c /\ h[b] # b /\ h[c] # c
                  /\ h[a] = a => h[b] = NoSession /\ h[c] # b}

MCLength   == a :> 2 @@ b :> 3 @@ c :> 1 @@ d :> 1
MCBegin    == a :> 1 @@ b :> 3 @@ c :> 6 @@ d :> 2
MCRank     == a :> 1 @@ b :> 3 @@ c :> 2 @@ d :> 4
MCWorkshop == a :> "w1" @@ b :> "w1" @@ c :> "w1" @@ d :> "w2"
MCValue    == a :> 1 @@ b :> 2 @@ c :> 1 @@ d :> 1

MCPageList == a :> <<p1, p2>> @@ b :> <<p2, p1>> @@ c :> <<p2, p1, p3>> @@ d :> <<>>

Start        == [kind |-> "workshop-start"]
Enter(p)     == [kind |-> "page-enter", page |-> p]
Leave(p, t)  == [kind |-> "page-leave", page |-> p, active |-> t]
Act(id, ok)  == [kind |-> "action-executed", id |-> id, ok |-> ok]
Check(id, ok, n) == [kind |-> "verify-result", id |-> id, ok |-> ok, attempt |-> n]

MCSent ==
  a :> << <<Start, Enter(p1), Leave(p1, 1)>>,
          <<Enter(p4), Leave(p4, 2), Act(d1, TRUE), [kind |-> "workshop-abandon"]>> >>
  @@ b :> << <<Start, Check(d2, FALSE, 1), [kind |-> "gate-skipped"]>>,
             <<Enter(p1), Leave(p1, 3), Check(d2, TRUE, 2)>>,
             <<Leave(p2, 1), Check(d2, TRUE, 3), [kind |-> "workshop-finish"]>> >>
  @@ c :> << <<Start, Act(d1, FALSE), [kind |-> "hint-opened", id |-> d3],
               Leave(p1, 4), Check(d2, TRUE, 1)>> >>
  @@ d :> << <<Start, [kind |-> "form-submitted", id |-> d3],
               [kind |-> "workshop-finish"]>> >>

MCInventory == a :> (p1 :> {d1, d2} @@ p2 :> {}) @@ b :> (p2 :> {d3} @@ p1 :> {d2})
               @@ c :> (p2 :> {d1} @@ p1 :> {d3} @@ p3 :> {d2}) @@ d :> NoInventory
MCUser      == a :> "u" @@ b :> "u" @@ c :> "v" @@ d :> Nobody

MCInstance == a :> 1 @@ b :> 1 @@ c :> 2 @@ d :> 1
MCNameRank == "w1" :> 2 @@ "w2" :> 1

Ask(w, since, until, now, all) ==
  [workshop |-> w, since |-> since, until |-> until, now |-> now,
   incomplete |-> all]

MCQuestions ==
  {Ask(AnyWorkshop, 0, 99, 9, TRUE), Ask("w1", 0, 99, 99, FALSE),
   Ask("w1", 0, 6, 9, FALSE)}

View(preset, since, until, forced, now, all) ==
  [preset |-> preset, since |-> since, until |-> until, forced |-> forced,
   now |-> now, incomplete |-> all]

MCPresets == "30" :> 8 @@ "all" :> 0

MCViews ==
  {View("all", NoTime, NoTime, "", 6, FALSE),
   View("x", NoTime, NoTime, "day", 4, TRUE), View("", 3, 7, "", 99, FALSE)}

=============================================================================
