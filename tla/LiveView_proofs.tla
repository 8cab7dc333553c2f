---------------------------- MODULE LiveView_proofs ----------------------------
(***************************************************************************)
(* The live page, for every number of sessions, threads, loads, batches    *)
(* and outages: its state keeps to its types, and it never shows what the  *)
(* store does not hold.                                                    *)
(*                                                                         *)
(* What the page shows came off its stream, or out of a load; what is on   *)
(* the stream was scheduled for it; what was scheduled was left by a       *)
(* thread that had committed it.  So the invariant says of each of these   *)
(* places what the property says of the page: what is in it is behind the  *)
(* store and not ahead of it.  It is kept because a row only moves on: its *)
(* version grows, a resumed row stays resumed and an ended one is ended,   *)
(* past or resumed for good.                                               *)
(***************************************************************************)
EXTENDS LiveView, SequenceTheorems, TLAPS

-----------------------------------------------------------------------------
(* Types.                                                                  *)

Items == Delta \cup {Closing}

LEMMA ShownTyped ==
  ASSUME NEW row \in Row
  PROVE  Shown(row) \in Row
BY LiveViewAssumption DEF Shown, Unshown, Row, Statuses

LEMMA UnshownTyped == Unshown \in Row
BY LiveViewAssumption DEF Unshown, Row, Statuses

LEMMA NoLoadTyped ==
  /\ NoLoad \in [at : {"none", "asked", "answered"}, rows : [Sessions -> Row]]
  /\ NoLoad.at = "none" /\ \A s \in Sessions : NoLoad.rows[s] = Unshown
BY UnshownTyped DEF NoLoad

LEMMA PublishedTyped ==
  ASSUME TypeOK, NEW w \in Workers, pending[w] # NoDelta
  PROVE  Published(w) \in Delta
BY DEF TypeOK, Published, Delta, Statuses

LEMMA ScheduledTyped ==
  ASSUME TypeOK, NEW item \in Items
  PROVE  Scheduled(item) \in Seq(Items)
BY AppendProperties DEF TypeOK, Scheduled, Items

LEMMA FewTyped == <<>> \in Seq(Items) /\ <<Closing>> \in Seq(Items)
<1>1. Closing \in Items
  BY DEF Items
<1> QED
  BY <1>1

LEMMA HeadTyped ==
  ASSUME TypeOK, wire # <<>>
  PROVE  Head(wire) \in Items /\ Tail(wire) \in Seq(Items)
BY HeadTailProperties DEF TypeOK, Items

LEMMA CommitTyped ==
  ASSUME TypeOK, NEW w \in Workers, NEW s \in Sessions, Commit(w, s)
  PROVE  /\ db' \in [Sessions -> Row]
         /\ pending' \in [Workers -> Delta \cup {NoDelta}]
<1>1. PICK status \in StatusAfter(db[s]) :
        LET row == [n |-> db[s].n + 1, status |-> status]
        IN  /\ db' = [db EXCEPT ![s] = row]
            /\ pending' = [pending EXCEPT ![w] = [sid |-> s, n |-> row.n,
                                                   status |-> status]]
  BY DEF Commit
<1>2. db \in [Sessions -> Row] /\ db[s] \in Row /\ db[s].n < MaxVersion
  BY DEF TypeOK, Commit
<1>3. status \in Statuses
  BY <1>2 DEF StatusAfter, Statuses, Row
<1>4. db[s].n + 1 \in 1 .. MaxVersion /\ db[s].n + 1 \in 0 .. MaxVersion
  BY <1>2, LiveViewAssumption DEF Row
<1>5. /\ [n |-> db[s].n + 1, status |-> status] \in Row
      /\ [sid |-> s, n |-> db[s].n + 1, status |-> status] \in Delta
  BY <1>3, <1>4 DEF Row, Delta
<1> QED
  BY <1>1, <1>2, <1>5 DEF TypeOK

LEMMA InitTyped == Init => TypeOK
<1> SUFFICES ASSUME Init
             PROVE  TypeOK
  OBVIOUS
<1>1. <<>> \in Seq(Delta \cup {Closing})
  OBVIOUS
<1>2. \A i \in Loads : load[i] \in [at : {"none", "asked", "answered"},
                                    rows : [Sessions -> Row]]
  BY NoLoadTyped DEF Init
<1> QED
  BY <1>1, <1>2, UnshownTyped, LiveViewAssumption DEF Init, TypeOK

(* A load that changes, changes to one that is typed.                      *)
LEMMA LoadTyped ==
  ASSUME TypeOK, NEW i \in Loads
  PROVE  /\ [load EXCEPT ![i].at = "asked"]
              \in [Loads -> [at : {"none", "asked", "answered"},
                             rows : [Sessions -> Row]]]
         /\ [load EXCEPT ![i] = NoLoad]
              \in [Loads -> [at : {"none", "asked", "answered"},
                             rows : [Sessions -> Row]]]
BY NoLoadTyped DEF TypeOK

LEMMA TypeStep == TypeOK /\ [Next]_vars => TypeOK'
<1> SUFFICES ASSUME TypeOK, [Next]_vars
             PROVE  TypeOK'
  OBVIOUS
<1>1. ASSUME NEW w \in Workers, Announce(w)
      PROVE  TypeOK'
  <2>1. wire' \in Seq(Items)
    BY <1>1, PublishedTyped, ScheduledTyped DEF Announce, Items
  <2>2. pending' \in [Workers -> Delta \cup {NoDelta}]
    BY <1>1 DEF Announce, TypeOK
  <2> QED
    BY <1>1, <2>1, <2>2 DEF Announce, TypeOK, Items
<1>2. ASSUME NEW w \in Workers, NEW s \in Sessions, Commit(w, s)
      PROVE  TypeOK'
  BY <1>2, CommitTyped DEF Commit, TypeOK
<1>3. ASSUME NEW s \in Sessions, LinkResume(s) \/ Age(s)
      PROVE  TypeOK'
  <2>1. PICK status \in Statuses : db' = [db EXCEPT ![s].status = status]
    BY <1>3 DEF LinkResume, Age, Statuses
  <2>2. db' \in [Sessions -> Row]
    BY <2>1 DEF TypeOK, Row
  <2> QED
    BY <1>3, <2>2 DEF LinkResume, Age, TypeOK
<1>4. ASSUME NEW s \in Sessions, Expire(s)
      PROVE  TypeOK'
  BY <1>4, UnshownTyped DEF Expire, serverVars, TypeOK
<1>5. CASE Stop
  <2>1. wire' \in Seq(Items)
    BY <1>5, ScheduledTyped DEF Stop, Items
  <2>2. outages' \in 0 .. MaxOutages
    BY <1>5, LiveViewAssumption DEF Stop, TypeOK
  <2> QED
    BY <1>5, <2>1, <2>2 DEF Stop, TypeOK, Items
<1>6. CASE Exit
  <2>1. outages' \in 0 .. MaxOutages
    BY <1>6, LiveViewAssumption DEF Exit, TypeOK
  <2>2. load' \in [Loads -> [at : {"none", "asked", "answered"},
                             rows : [Sessions -> Row]]]
    BY <1>6, NoLoadTyped DEF Exit, TypeOK
  <2>3. conn' \in {"first", "never", "waiting", "listening", "failed"}
    BY <1>6 DEF Exit, TypeOK
  <2> QED
    BY <1>6, <2>1, <2>2, <2>3 DEF Exit, StreamOver, TypeOK
<1>7. CASE Restart
  BY <1>7 DEF Restart, TypeOK
<1>8. ASSUME NEW i \in Loads, Ask(i)
      PROVE  TypeOK'
  BY <1>8, LoadTyped DEF Ask, serverVars, TypeOK
<1>9. ASSUME NEW i \in Loads, Query(i)
      PROVE  TypeOK'
  <2>1. [s \in Sessions |-> Shown(db[s])] \in [Sessions -> Row]
    BY ShownTyped DEF TypeOK
  <2>2. load' \in [Loads -> [at : {"none", "asked", "answered"},
                             rows : [Sessions -> Row]]]
    BY <1>9, <2>1 DEF Query, TypeOK
  <2> QED
    BY <1>9, <2>2 DEF Query, serverVars, TypeOK
<1>10. ASSUME NEW i \in Loads, Land(i)
       PROVE  TypeOK'
  BY <1>10, LoadTyped DEF Land, serverVars, TypeOK
<1>11. ASSUME NEW i \in Loads, LoseLoad(i)
       PROVE  TypeOK'
  <2>1. outages' \in 0 .. MaxOutages
    BY <1>11, LiveViewAssumption DEF LoseLoad, TypeOK
  <2> QED
    BY <1>11, <2>1, LoadTyped DEF LoseLoad, serverVars, TypeOK
<1>12. ASSUME NEW i \in Loads, Opened(i)
       PROVE  TypeOK'
  BY <1>12, LoadTyped DEF Opened, serverVars, TypeOK
<1>13. CASE Connect
  <2>1. wire' \in Seq(Delta \cup {Closing})
    BY <1>13, FewTyped DEF Connect, Items
  <2> QED
    BY <1>13, <2>1 DEF Connect, serverVars, TypeOK
<1>14. CASE Refused
  BY <1>14 DEF Refused, serverVars, TypeOK
<1>15. CASE AcceptDelta
  <2>1. Head(wire) \in Delta /\ Tail(wire) \in Seq(Delta \cup {Closing})
    BY <1>15, HeadTyped DEF AcceptDelta, Items
  <2>2. [n |-> Head(wire).n, status |-> Head(wire).status] \in Row
    BY <2>1, LiveViewAssumption DEF Delta, Row
  <2>3. view' \in [Sessions -> Row]
    BY <1>15, <2>2 DEF AcceptDelta, TypeOK
  <2> QED
    BY <1>15, <2>1, <2>3 DEF AcceptDelta, serverVars, TypeOK
<1>16. CASE Marker \/ Break
  <2>1. outages' \in 0 .. MaxOutages
    BY <1>16, LiveViewAssumption DEF Marker, Break, TypeOK
  <2> QED
    BY <1>16, <2>1, FewTyped DEF Marker, Break, StreamOver, serverVars, TypeOK, Items
<1>17. CASE UNCHANGED vars
  BY <1>17 DEF vars, serverVars, TypeOK
<1> QED
  BY <1>1, <1>2, <1>3, <1>4, <1>5, <1>6, <1>7, <1>8, <1>9, <1>10, <1>11, <1>12,
     <1>13, <1>14, <1>15, <1>16, <1>17 DEF Next

(* The page, its stream, the loads in flight and the threads between a     *)
(* commit and its publication are well typed (live.js, live.py).           *)
THEOREM TypeCorrect == Spec => []TypeOK
BY InitTyped, TypeStep, PTL DEF Spec

-----------------------------------------------------------------------------
(* The page is behind the store, and not ahead of it.                      *)

(* One row of a session says nothing the other does not: it counts no      *)
(* more batches, and what it says is over is over in the other.            *)
Behind(row, next) ==
  /\ row.n <= next.n
  /\ row.status = "ended" => next.status \in {"ended", "past", "resumed"}
  /\ row.status = "past" => next.status \in {"past", "resumed"}
  /\ row.status = "resumed" => next.status = "resumed"

ViewBehind    == \A s \in Sessions : Behind(view[s], db[s])
PendingBehind == \A w \in Workers :
                   pending[w] # NoDelta => Behind(pending[w], db[pending[w].sid])
WireBehind    == \A i \in DOMAIN wire :
                   wire[i] # Closing => Behind(wire[i], db[wire[i].sid])
LoadsBehind   == \A i \in Loads, s \in Sessions : Behind(load[i].rows[s], db[s])

BehindInv == ViewBehind /\ PendingBehind /\ WireBehind /\ LoadsBehind

LEMMA BehindItself ==
  ASSUME NEW row \in Row
  PROVE  Behind(row, row)
BY LiveViewAssumption DEF Behind, Row

LEMMA UnshownBehind ==
  ASSUME NEW row \in Row
  PROVE  Behind(Unshown, row)
BY LiveViewAssumption DEF Behind, Unshown, Row

LEMMA ShownBehind ==
  ASSUME NEW row \in Row
  PROVE  Behind(Shown(row), row)
BY BehindItself, UnshownBehind DEF Shown

LEMMA BehindStays ==
  ASSUME NEW row, row.n \in Int, NEW next \in Row, NEW later \in Row,
         Behind(row, next), Behind(next, later)
  PROVE  Behind(row, later)
BY LiveViewAssumption DEF Behind, Row

(* What nobody touched stays behind a row that moves on.                   *)
MovesOn == \A s \in Sessions : Behind(db[s], db'[s])

LEMMA SameMovesOn == TypeOK /\ UNCHANGED db => MovesOn
BY BehindItself DEF MovesOn, TypeOK

LEMMA KeptBehind ==
  ASSUME TypeOK, TypeOK', BehindInv, MovesOn
  PROVE  /\ UNCHANGED view => ViewBehind'
         /\ \A w \in Workers :
              pending[w] # NoDelta => Behind(pending[w], db'[pending[w].sid])
         /\ \A i \in DOMAIN wire :
              wire[i] # Closing => Behind(wire[i], db'[wire[i].sid])
         /\ \A i \in Loads, s \in Sessions : Behind(load[i].rows[s], db'[s])
<1> USE BehindStays
<1>1. db \in [Sessions -> Row] /\ db' \in [Sessions -> Row]
  BY DEF TypeOK
<1>2. UNCHANGED view => ViewBehind'
  <2>1. \A s \in Sessions : view[s].n \in Int
    BY LiveViewAssumption DEF TypeOK, Row
  <2> QED
    BY <1>1, <2>1 DEF BehindInv, ViewBehind, MovesOn
<1>3. ASSUME NEW w \in Workers, pending[w] # NoDelta
      PROVE  Behind(pending[w], db'[pending[w].sid])
  <2>1. pending[w].n \in Int /\ pending[w].sid \in Sessions
    BY <1>3, LiveViewAssumption DEF TypeOK, Delta
  <2> QED
    BY <1>1, <1>3, <2>1 DEF BehindInv, PendingBehind, MovesOn
<1>4. ASSUME NEW i \in DOMAIN wire, wire[i] # Closing
      PROVE  Behind(wire[i], db'[wire[i].sid])
  <2>1. wire[i] \in Delta
    BY <1>4, ElementOfSeq DEF TypeOK
  <2>2. wire[i].n \in Int /\ wire[i].sid \in Sessions
    BY <2>1, LiveViewAssumption DEF Delta
  <2> QED
    BY <1>1, <1>4, <2>2 DEF BehindInv, WireBehind, MovesOn
<1>5. ASSUME NEW i \in Loads, NEW s \in Sessions
      PROVE  Behind(load[i].rows[s], db'[s])
  <2>1. load[i].rows[s].n \in Int
    BY LiveViewAssumption DEF TypeOK, Row
  <2> QED
    BY <1>1, <2>1 DEF BehindInv, LoadsBehind, MovesOn
<1> QED
  BY <1>2, <1>3, <1>4, <1>5

LEMMA CommitBehind ==
  ASSUME TypeOK, TypeOK', NEW w \in Workers, NEW s \in Sessions, Commit(w, s)
  PROVE  /\ MovesOn
         /\ pending'[w].sid = s /\ Behind(pending'[w], db'[s])
         /\ \A q \in Workers \ {w} : pending'[q] = pending[q]
<1>1. PICK status \in StatusAfter(db[s]) :
        LET row == [n |-> db[s].n + 1, status |-> status]
        IN  /\ db' = [db EXCEPT ![s] = row]
            /\ pending' = [pending EXCEPT ![w] = [sid |-> s, n |-> row.n,
                                                   status |-> status]]
  BY DEF Commit
<1>2. db \in [Sessions -> Row] /\ db[s] \in Row
  BY DEF TypeOK
<1>3. /\ db'[s].n = db[s].n + 1 /\ db'[s].status = status
      /\ \A r \in Sessions \ {s} : db'[r] = db[r]
  BY <1>1, <1>2
<1>4. /\ pending'[w].sid = s /\ pending'[w].n = db'[s].n
      /\ pending'[w].status = db'[s].status
      /\ \A q \in Workers \ {w} : pending'[q] = pending[q]
  BY <1>1, <1>3 DEF TypeOK
<1>5. Behind(db[s], db'[s])
  BY <1>2, <1>3, LiveViewAssumption DEF StatusAfter, Behind, Row
<1>6. db'[s] \in Row
  BY DEF TypeOK
<1>7. Behind(pending'[w], db'[s])
  BY <1>4, <1>6, LiveViewAssumption DEF Behind, Row
<1> QED
  BY <1>2, <1>3, <1>4, <1>5, <1>7, BehindItself DEF MovesOn

LEMMA AgeBehind ==
  ASSUME TypeOK, NEW s \in Sessions, LinkResume(s) \/ Age(s)
  PROVE  MovesOn
<1>1. db \in [Sessions -> Row]
  BY DEF TypeOK
<1>2. /\ db'[s].n = db[s].n
      /\ \/ db'[s].status = "resumed"
         \/ db[s].status = "live" /\ db'[s].status = "lost"
         \/ db[s].status = "ended" /\ db'[s].status = "past"
      /\ \A r \in Sessions \ {s} : db'[r] = db[r]
  BY <1>1 DEF LinkResume, Age, Row
<1>3. Behind(db[s], db'[s])
  BY <1>1, <1>2, LiveViewAssumption DEF Behind, Row
<1> QED
  BY <1>1, <1>2, <1>3, BehindItself DEF MovesOn

LEMMA PublishedBehind ==
  ASSUME TypeOK, BehindInv, NEW w \in Workers, pending[w] # NoDelta
  PROVE  Behind(Published(w), db[Published(w).sid])
<1>1. pending[w] \in Delta /\ Behind(pending[w], db[pending[w].sid])
  BY DEF TypeOK, BehindInv, PendingBehind
<1>2. Published(w).sid = pending[w].sid /\ Published(w).n = pending[w].n
  BY <1>1 DEF Published, Delta
<1>3. \/ Published(w) = pending[w]
      \/ /\ Published(w).status = db[pending[w].sid].status
         /\ db[pending[w].sid].status \in {"lost", "past"}
  BY <1>1 DEF Published, Delta
<1> QED
  BY <1>1, <1>2, <1>3 DEF Behind

(* What is scheduled is behind the store when the item is.                 *)
LEMMA ScheduledBehind ==
  ASSUME TypeOK, BehindInv, UNCHANGED db, NEW item \in Items,
         item # Closing => Behind(item, db[item.sid]), wire' = Scheduled(item)
  PROVE  WireBehind'
<1>1. wire \in Seq(Items)
  BY DEF TypeOK, Items
<1>2. CASE wire' = wire
  BY <1>2 DEF BehindInv, WireBehind
<1>3. CASE wire' = Append(wire, item)
  <2>1. \A i \in DOMAIN wire' : \/ i \in DOMAIN wire /\ wire'[i] = wire[i]
                                \/ wire'[i] = item
    BY <1>1, <1>3, AppendProperties
  <2> QED
    BY <2>1 DEF BehindInv, WireBehind
<1> QED
  BY <1>2, <1>3 DEF Scheduled

LEMMA HeadBehind ==
  ASSUME TypeOK, BehindInv, UNCHANGED db, wire # <<>>
  PROVE  /\ Head(wire) # Closing => Behind(Head(wire), db[Head(wire).sid])
         /\ wire' = Tail(wire) => WireBehind'
<1>1. wire \in Seq(Items)
  BY DEF TypeOK, Items
<1>2. Head(wire) = wire[1] /\ 1 \in DOMAIN wire
  BY <1>1
<1>3. \A i \in DOMAIN Tail(wire) : i + 1 \in DOMAIN wire /\ Tail(wire)[i] = wire[i + 1]
  BY <1>1
<1> QED
  BY <1>2, <1>3 DEF BehindInv, WireBehind

(* A load changes to one of no rows, or of the rows there are to show.     *)
LEMMA LoadsChange ==
  ASSUME TypeOK, BehindInv, UNCHANGED db,
         \A i \in Loads, s \in Sessions :
           load'[i].rows[s] \in {load[i].rows[s], Unshown, Shown(db[s])}
  PROVE  LoadsBehind'
<1>1. \A s \in Sessions : Behind(Unshown, db[s]) /\ Behind(Shown(db[s]), db[s])
  BY UnshownBehind, ShownBehind DEF TypeOK
<1> QED
  BY <1>1 DEF BehindInv, LoadsBehind

LEMMA LoadReset ==
  ASSUME TypeOK, NEW i \in Loads,
         \/ load' = [load EXCEPT ![i] = NoLoad]
         \/ load' = [load EXCEPT ![i].at = "asked"]
  PROVE  \A j \in Loads, s \in Sessions : load'[j].rows[s] \in {load[j].rows[s], Unshown}
<1> DEFINE L == [at : {"none", "asked", "answered"}, rows : [Sessions -> Row]]
<1>1. load \in [Loads -> L] /\ load[i] \in L
  BY DEF TypeOK
<1>2. CASE load' = [load EXCEPT ![i] = NoLoad]
  BY <1>1, <1>2, NoLoadTyped
<1>3. CASE load' = [load EXCEPT ![i].at = "asked"]
  <2> DEFINE asked == [load[i] EXCEPT !.at = "asked"]
  <2>1. asked.rows = load[i].rows
    BY <1>1
  <2>2. load' = [load EXCEPT ![i] = asked]
    BY <1>3
  <2> HIDE DEF L, asked
  <2>3. \A j \in Loads : load'[j].rows = load[j].rows
    BY <1>1, <2>1, <2>2
  <2> QED
    BY <2>3
<1> QED
  BY <1>2, <1>3

LEMMA InitBehind == Init => BehindInv
<1> SUFFICES ASSUME Init
             PROVE  BehindInv
  OBVIOUS
<1>1. \A i \in Loads, s \in Sessions : load[i].rows[s] = Unshown
  BY NoLoadTyped DEF Init
<1> QED
  BY <1>1, UnshownTyped, UnshownBehind
     DEF Init, BehindInv, ViewBehind, PendingBehind, WireBehind, LoadsBehind

LEMMA BehindStep == BehindInv /\ TypeOK /\ TypeOK' /\ [Next]_vars => BehindInv'
<1> SUFFICES ASSUME BehindInv, TypeOK, TypeOK', [Next]_vars
             PROVE  BehindInv'
  OBVIOUS
<1> USE KeptBehind DEF BehindInv, PendingBehind, WireBehind, LoadsBehind
<1>1. ASSUME NEW w \in Workers, Announce(w)
      PROVE  BehindInv'
  <2>1. Published(w) \in Items /\ Behind(Published(w), db[Published(w).sid])
    BY <1>1, PublishedTyped, PublishedBehind DEF Announce, Items
  <2>2. WireBehind'
    BY <1>1, <2>1, ScheduledBehind DEF Announce
  <2>3. PendingBehind'
    BY <1>1 DEF Announce, TypeOK
  <2> QED
    BY <1>1, <2>2, <2>3, SameMovesOn DEF Announce
<1>2. ASSUME NEW w \in Workers, NEW s \in Sessions, Commit(w, s)
      PROVE  BehindInv'
  <2>1. MovesOn /\ UNCHANGED <<wire, view, load>>
    BY <1>2, CommitBehind DEF Commit
  <2>2. PendingBehind'
    BY <1>2, <2>1, CommitBehind
  <2> QED
    BY <2>1, <2>2
<1>3. ASSUME NEW s \in Sessions, LinkResume(s) \/ Age(s)
      PROVE  BehindInv'
  BY <1>3, AgeBehind DEF LinkResume, Age
<1>4. ASSUME NEW s \in Sessions, Expire(s)
      PROVE  BehindInv'
  <2>1. UNCHANGED <<db, pending, wire, load>>
    BY <1>4 DEF Expire, serverVars
  <2>2. \A r \in Sessions : view'[r] \in {view[r], Unshown}
    BY <1>4 DEF Expire, TypeOK
  <2>3. ViewBehind'
    BY <2>1, <2>2, UnshownBehind DEF ViewBehind, TypeOK
  <2> QED
    BY <2>1, <2>3, SameMovesOn
<1>5. CASE Stop
  <2>1. WireBehind'
    BY <1>5, ScheduledBehind DEF Stop, Items
  <2> QED
    BY <1>5, <2>1, SameMovesOn DEF Stop
<1>6. CASE Exit
  <2>1. UNCHANGED <<db, view>> /\ wire' = <<>>
        /\ \A w \in Workers : pending'[w] = NoDelta
    BY <1>6 DEF Exit, StreamOver
  <2>2. \A i \in Loads : load'[i] \in {load[i], NoLoad}
    BY <1>6 DEF Exit
  <2>3. LoadsBehind'
    BY <2>1, <2>2, NoLoadTyped, LoadsChange
  <2> QED
    BY <2>1, <2>3, SameMovesOn
<1>7. ASSUME NEW i \in Loads, Query(i)
      PROVE  BehindInv'
  <2>1. UNCHANGED <<db, pending, wire, view>>
    BY <1>7 DEF Query, serverVars
  <2>2. \A s \in Sessions : load'[i].rows[s] = Shown(db[s])
    BY <1>7 DEF Query, TypeOK
  <2>3. \A j \in Loads \ {i} : load'[j] = load[j]
    BY <1>7 DEF Query, TypeOK
  <2>4. LoadsBehind'
    BY <2>1, <2>2, <2>3, LoadsChange
  <2> QED
    BY <2>1, <2>4, SameMovesOn
<1>8. ASSUME NEW i \in Loads, Ask(i) \/ LoseLoad(i) \/ Opened(i)
      PROVE  BehindInv'
  <2>1. UNCHANGED <<db, pending, wire, view>>
    BY <1>8 DEF Ask, LoseLoad, Opened, serverVars
  <2>2. LoadsBehind'
    BY <1>8, <2>1, LoadReset, LoadsChange DEF Ask, LoseLoad, Opened
  <2> QED
    BY <2>1, <2>2, SameMovesOn
<1>9. ASSUME NEW i \in Loads, Land(i)
      PROVE  BehindInv'
  <2>1. UNCHANGED <<db, pending, wire>>
    BY <1>9 DEF Land, serverVars
  <2>2. ViewBehind'
    BY <1>9, <2>1 DEF Land, ViewBehind
  <2>3. LoadsBehind'
    BY <1>9, <2>1, LoadReset, LoadsChange DEF Land
  <2> QED
    BY <2>1, <2>2, <2>3, SameMovesOn
<1>10. CASE Connect
  <2>1. UNCHANGED <<db, pending, view, load>>
        /\ wire' \in {<<>>, <<Closing>>}
    BY <1>10 DEF Connect, serverVars
  <2>2. WireBehind'
    BY <2>1
  <2> QED
    BY <2>1, <2>2, SameMovesOn
<1>11. CASE AcceptDelta
  <2>1. UNCHANGED <<db, pending, load>> /\ WireBehind'
    BY <1>11, HeadBehind DEF AcceptDelta, serverVars
  <2>2. /\ Head(wire) \in Delta
        /\ Behind(Head(wire), db[Head(wire).sid])
    BY <1>11, <2>1, HeadTyped, HeadBehind DEF AcceptDelta, Items
  <2>3. \A s \in Sessions :
          \/ view'[s] = view[s]
          \/ /\ s = Head(wire).sid
             /\ view'[s].n = Head(wire).n /\ view'[s].status = Head(wire).status
    BY <1>11 DEF AcceptDelta, TypeOK
  <2>4. ViewBehind'
    BY <2>1, <2>2, <2>3 DEF ViewBehind, Behind
  <2> QED
    BY <2>1, <2>4, SameMovesOn
<1>12. CASE Restart \/ Refused
  BY <1>12, SameMovesOn DEF Restart, Refused, serverVars
<1>13. CASE Marker \/ Break
  <2>1. UNCHANGED <<db, pending, view, load>> /\ wire' = <<>>
    BY <1>13 DEF Marker, Break, StreamOver, serverVars
  <2> QED
    BY <2>1, SameMovesOn
<1>14. CASE UNCHANGED vars
  BY <1>14, SameMovesOn DEF vars, serverVars
<1> QED
  BY <1>1, <1>2, <1>3, <1>4, <1>5, <1>6, <1>7, <1>8, <1>9, <1>10, <1>11, <1>12,
     <1>13, <1>14 DEF Next

(* The page never shows a batch that was not committed, nor an end or a    *)
(* resume that has not happened, however deltas and snapshots cross and    *)
(* whenever the service goes down.                                         *)
THEOREM ViewIsBehind == Spec => []ViewIsCommitted
<1>1. Init => TypeOK /\ BehindInv
  BY InitTyped, InitBehind
<1>2. TypeOK /\ BehindInv /\ [Next]_vars => (TypeOK /\ BehindInv)'
  BY TypeStep, BehindStep
<1>3. BehindInv => ViewIsCommitted
  BY DEF BehindInv, ViewBehind, Behind, ViewIsCommitted
<1> QED
  BY <1>1, <1>2, <1>3, PTL DEF Spec
=============================================================================
