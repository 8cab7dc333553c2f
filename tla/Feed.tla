--------------------------------- MODULE Feed ---------------------------------
(***************************************************************************)
(* What the broadcaster promises a listener: a feed.  Items are scheduled  *)
(* for it, and while its response is open it takes them one by one in      *)
(* order.  A feed may be dropped when it has fallen behind, or closed; the *)
(* marker it is given says which, and it is the last thing it takes.       *)
(***************************************************************************)
EXTENDS Integers, Sequences

CONSTANTS
  Streams,   \* the feeds
  Items,     \* what may be scheduled, the marker Closing among it
  Closing,   \* the marker of a feed that is closed
  Dropped    \* the marker of a feed that is dropped

VARIABLES phase, handed, taken

feedVars == <<phase, handed, taken>>

FeedInit ==
  /\ phase = [s \in Streams |-> "none"]
  /\ handed = [s \in Streams |-> <<>>]
  /\ taken = [s \in Streams |-> <<>>]

Behind(s) == Len(taken[s]) < Len(handed[s])

(* Someone listens; closed when the service is already going down.         *)
Open(s) ==
  /\ phase[s] = "none"
  /\ phase' = [phase EXCEPT ![s] = "new"]
  /\ handed' \in {handed, [handed EXCEPT ![s] = Append(@, Closing)]}
  /\ UNCHANGED taken

Begin(s) ==
  /\ phase[s] = "new"
  /\ phase' = [phase EXCEPT ![s] = "open"]
  /\ UNCHANGED <<handed, taken>>

Schedule(s, item) ==
  /\ handed' = [handed EXCEPT ![s] = Append(@, item)]
  /\ UNCHANGED <<phase, taken>>

(* The next item scheduled, and no other.                                  *)
Deliver(s) ==
  /\ phase[s] = "open" /\ Behind(s)
  /\ LET item == handed[s][Len(taken[s]) + 1]
     IN  /\ taken' = [taken EXCEPT ![s] = Append(@, item)]
         /\ phase' = [phase EXCEPT ![s] = IF item = Closing THEN "ending"
                                                            ELSE @]
  /\ UNCHANGED handed

(* A feed that is behind is told that it will not catch up.                *)
Drop(s) ==
  /\ phase[s] = "open" /\ Behind(s)
  /\ taken' = [taken EXCEPT ![s] = Append(@, Dropped)]
  /\ phase' = [phase EXCEPT ![s] = "ending"]
  /\ UNCHANGED handed

Hangup(s) ==
  /\ phase[s] \in {"new", "open"}
  /\ phase' = [phase EXCEPT ![s] = IF @ = "new" THEN "ended" ELSE "ending"]
  /\ UNCHANGED <<handed, taken>>

Finish(s) ==
  /\ phase[s] = "ending"
  /\ phase' = [phase EXCEPT ![s] = "ended"]
  /\ UNCHANGED <<handed, taken>>

FeedNext ==
  \E s \in Streams :
    \/ Open(s) \/ Begin(s) \/ Deliver(s) \/ Drop(s) \/ Hangup(s) \/ Finish(s)
    \/ \E item \in Items : Schedule(s, item)

FeedSpec == FeedInit /\ [][FeedNext]_feedVars

(* A feed that is behind gets its next item, or is told it was dropped.    *)
FeedFairness ==
  \A s \in Streams : /\ WF_feedVars(Begin(s))
                     /\ WF_feedVars(Deliver(s) \/ Drop(s))
                     /\ WF_feedVars(Finish(s))

FairFeedSpec == FeedSpec /\ FeedFairness

=============================================================================
