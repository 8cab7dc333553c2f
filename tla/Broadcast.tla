------------------------------ MODULE Broadcast ------------------------------
(***************************************************************************)
(* The in-process broadcaster and the event streams (live.py, and the      *)
(* route that opens a stream, api/live.py).                                *)
(*                                                                         *)
(* Ingest threads publish deltas and the shutdown closes every stream;     *)
(* each copies the listeners under the broadcaster's lock and then, with   *)
(* the lock gone, schedules one callback per listener on the event loop.   *)
(* The loop runs a listener's callbacks in the order they were scheduled,  *)
(* each offering its item to the listener's bounded queue, and the         *)
(* listener's stream takes items off.  A delta is its number; which ones a *)
(* narrowed stream passes on is its predicate's business and left out.     *)
(***************************************************************************)
EXTENDS Integers, Sequences, SequencesExt

CONSTANTS
  Streams,      \* streams that may ever be opened
  Publishers,   \* threads that publish
  Closer,       \* whoever calls close()
  QueueSize,    \* QUEUE_SIZE
  MaxDeltas,    \* bound: deltas published in one behaviour
  Dropped,      \* the marker CLOSED: this subscriber was dropped
  Closing       \* the marker CLOSING: the service is going down

Deltas  == 1 .. MaxDeltas
Items   == Deltas \cup {Closing}
Callers == Publishers \cup {Closer}

ASSUME BroadcastAssumption ==
  /\ QueueSize \in Nat \ {0}
  /\ MaxDeltas \in Nat
  /\ Closer \notin Publishers
  /\ Closing \notin Deltas
  /\ Dropped \notin Items

VARIABLES
  closed,      \* the broadcaster has been closed
  registered,  \* its subscribers
  call,        \* what each caller is handing out, and to whom still
  ready,       \* callbacks scheduled on the loop for a subscription
  queue,       \* a subscription's queue
  dropped,     \* a subscription's dropped flag
  phase,       \* where the response of a stream is
  handed,      \* history: the items scheduled for a subscription
  taken,       \* history: the items its stream took off the queue
  published    \* deltas published so far

vars == <<closed, registered, call, ready, queue, dropped, phase, handed,
          taken, published>>

Idle == [item |-> Closing, left |-> {}]

-----------------------------------------------------------------------------
Init ==
  /\ closed = FALSE
  /\ registered = {}
  /\ call = [c \in Callers |-> Idle]
  /\ ready = [s \in Streams |-> <<>>]
  /\ queue = [s \in Streams |-> <<>>]
  /\ dropped = [s \in Streams |-> FALSE]
  /\ phase = [s \in Streams |-> "none"]
  /\ handed = [s \in Streams |-> <<>>]
  /\ taken = [s \in Streams |-> <<>>]
  /\ published = 0

(* Slips: a full queue loses the item and nothing else; a full queue keeps *)
(* what it holds and gets the marker behind it; a full queue is emptied    *)
(* and no marker left in it.                                               *)
OfferLossy(s, item) ==
  /\ queue' = IF dropped[s] \/ Len(queue[s]) >= QueueSize THEN queue
              ELSE [queue EXCEPT ![s] = Append(@, item)]
  /\ UNCHANGED dropped

OfferUnbounded(s, item) ==
  /\ queue' = IF dropped[s] THEN queue
              ELSE [queue EXCEPT ![s] =
                      Append(@, IF Len(@) < QueueSize THEN item ELSE Dropped)]
  /\ dropped' = [dropped EXCEPT ![s] = @ \/ Len(queue[s]) >= QueueSize]

OfferSilent(s, item) ==
  IF dropped[s] THEN UNCHANGED <<queue, dropped>>
  ELSE IF Len(queue[s]) < QueueSize
  THEN /\ queue' = [queue EXCEPT ![s] = Append(@, item)]
       /\ UNCHANGED dropped
  ELSE /\ queue' = [queue EXCEPT ![s] = <<>>]
       /\ dropped' = [dropped EXCEPT ![s] = TRUE]

(* Subscription.offer: put the item, or, when the queue is full, empty it, *)
(* leave the marker alone in it and take nothing more.                     *)
Offer(s, item) ==
  IF dropped[s] THEN UNCHANGED <<queue, dropped>>
  ELSE IF Len(queue[s]) < QueueSize
  THEN /\ queue' = [queue EXCEPT ![s] = Append(@, item)]
       /\ UNCHANGED dropped
  ELSE /\ queue' = [queue EXCEPT ![s] = <<Dropped>>]
       /\ dropped' = [dropped EXCEPT ![s] = TRUE]

(* Slip: a listener that comes after close() is not told.                  *)
SubscribeUnaware(s) ==
  /\ phase[s] = "none"
  /\ phase' = [phase EXCEPT ![s] = "new"]
  /\ registered' = registered \cup {s}
  /\ UNCHANGED <<closed, call, ready, queue, dropped, handed, taken,
                 published>>

(* The route subscribes before its response starts.  A broadcaster already *)
(* closed ends the stream at once.                                         *)
Subscribe(s) ==
  /\ phase[s] = "none"
  /\ phase' = [phase EXCEPT ![s] = "new"]
  /\ registered' = registered \cup {s}
  /\ IF closed
     THEN /\ Offer(s, Closing)
          /\ handed' = [handed EXCEPT ![s] = Append(@, Closing)]
     ELSE UNCHANGED <<queue, dropped, handed>>
  /\ UNCHANGED <<closed, call, ready, taken, published>>

(* publish(delta) up to the end of its critical section.                   *)
Publish(p) ==
  /\ call[p].left = {} /\ published < MaxDeltas
  /\ published' = published + 1
  /\ call' = [call EXCEPT ![p] = [item |-> published + 1,
                                  left |-> registered]]
  /\ UNCHANGED <<closed, registered, ready, queue, dropped, phase, handed,
                 taken>>

(* close() likewise; it is called once, first thing in the shutdown.       *)
Close ==
  /\ ~ closed
  /\ closed' = TRUE
  /\ call' = [call EXCEPT ![Closer] = [item |-> Closing, left |-> registered]]
  /\ UNCHANGED <<registered, ready, queue, dropped, phase, handed, taken,
                 published>>

(* Slip: a listener that was dropped is handed its marker again.           *)
HandOverMarker(c, s) ==
  /\ s \in call[c].left
  /\ call' = [call EXCEPT ![c].left = @ \ {s}]
  /\ LET item == IF dropped[s] THEN Dropped ELSE call[c].item
     IN  /\ ready' = [ready EXCEPT ![s] = Append(@, item)]
         /\ handed' = [handed EXCEPT ![s] = Append(@, item)]
  /\ UNCHANGED <<closed, registered, queue, dropped, phase, taken, published>>

(* One turn of the loop over the copied listeners: call_soon_threadsafe,   *)
(* or nothing for a listener a publisher sees was dropped.                 *)
HandOver(c, s) ==
  /\ s \in call[c].left
  /\ call' = [call EXCEPT ![c].left = @ \ {s}]
  /\ IF c # Closer /\ dropped[s]
     THEN UNCHANGED <<ready, handed>>
     ELSE /\ ready' = [ready EXCEPT ![s] = Append(@, call[c].item)]
          /\ handed' = [handed EXCEPT ![s] = Append(@, call[c].item)]
  /\ UNCHANGED <<closed, registered, queue, dropped, phase, taken, published>>

(* The event loop runs the next callback of a subscription.                *)
RunCallback(s) ==
  /\ ready[s] # <<>>
  /\ ready' = [ready EXCEPT ![s] = Tail(@)]
  /\ Offer(s, Head(ready[s]))
  /\ UNCHANGED <<closed, registered, call, phase, handed, taken, published>>

(* The response starts and with it the stream's generator.                 *)
StartResponse(s) ==
  /\ phase[s] = "new"
  /\ phase' = [phase EXCEPT ![s] = "open"]
  /\ UNCHANGED <<closed, registered, call, ready, queue, dropped, handed,
                 taken, published>>

(* Slip: only the marker of a shutdown ends the stream.                    *)
TakeOn(s) ==
  /\ phase[s] = "open" /\ queue[s] # <<>>
  /\ taken' = [taken EXCEPT ![s] = Append(@, Head(queue[s]))]
  /\ queue' = [queue EXCEPT ![s] = Tail(@)]
  /\ phase' = [phase EXCEPT ![s] = IF Head(queue[s]) = Closing THEN "ending"
                                                              ELSE @]
  /\ UNCHANGED <<closed, registered, call, ready, dropped, handed, published>>

(* The stream takes an item and sends its frame; after a marker's frame it *)
(* returns.  A keepalive, when nothing comes for a while, changes nothing. *)
Take(s) ==
  /\ phase[s] = "open" /\ queue[s] # <<>>
  /\ taken' = [taken EXCEPT ![s] = Append(@, Head(queue[s]))]
  /\ queue' = [queue EXCEPT ![s] = Tail(@)]
  /\ phase' = [phase EXCEPT ![s] =
                 IF Head(queue[s]) \in {Dropped, Closing} THEN "ending" ELSE @]
  /\ UNCHANGED <<closed, registered, call, ready, dropped, handed, published>>

(* The client goes away, or the shutdown's grace runs out.  A generator    *)
(* that has started ends in its finally clause; one that has not is thrown *)
(* away, and nothing of it runs.                                           *)
Disconnect(s) ==
  /\ phase[s] \in {"new", "open"}
  /\ phase' = [phase EXCEPT ![s] = IF @ = "new" THEN "ended" ELSE "ending"]
  /\ UNCHANGED <<closed, registered, call, ready, queue, dropped, handed,
                 taken, published>>

(* The finally clause: unsubscribe.                                        *)
Leave(s) ==
  /\ phase[s] = "ending"
  /\ phase' = [phase EXCEPT ![s] = "ended"]
  /\ registered' = registered \ {s}
  /\ UNCHANGED <<closed, call, ready, queue, dropped, handed, taken,
                 published>>

Next ==
  \/ Close
  \/ \E p \in Publishers : Publish(p)
  \/ \E c \in Callers, s \in Streams : HandOver(c, s)
  \/ \E s \in Streams : \/ Subscribe(s) \/ RunCallback(s)
                        \/ StartResponse(s) \/ Take(s)
                        \/ Disconnect(s) \/ Leave(s)

Spec == Init /\ [][Next]_vars

(* A thread in the middle of a loop goes on, the event loop runs what is   *)
(* ready, and a stream that can send does.  No one has to subscribe,       *)
(* publish, close or go away.                                              *)
Fairness ==
  /\ \A c \in Callers, s \in Streams : WF_vars(HandOver(c, s))
  /\ \A s \in Streams : /\ WF_vars(RunCallback(s))
                        /\ WF_vars(StartResponse(s))
                        /\ WF_vars(Take(s))
                        /\ WF_vars(Leave(s))

FairSpec == Spec /\ Fairness

-----------------------------------------------------------------------------
TypeOK ==
  /\ closed \in BOOLEAN
  /\ registered \subseteq Streams
  /\ call \in [Callers -> [item : Items, left : SUBSET Streams]]
  /\ ready \in [Streams -> Seq(Items)]
  /\ queue \in [Streams -> Seq(Items \cup {Dropped})]
  /\ dropped \in [Streams -> BOOLEAN]
  /\ phase \in [Streams -> {"none", "new", "open", "ending", "ended"}]
  /\ handed \in [Streams -> Seq(Items)]
  /\ taken \in [Streams -> Seq(Items \cup {Dropped})]
  /\ published \in 0 .. MaxDeltas

(* A subscriber that cannot keep up holds no more than its queue, and once *)
(* dropped no more than the marker (live.py:4).                            *)
MemoryBounded ==
  \A s \in Streams :
    /\ Len(queue[s]) <= QueueSize
    /\ dropped[s] => queue[s] \in {<<>>, <<Dropped>>}

(* A stream that was not dropped is sent everything scheduled for it, each *)
(* item once and in the order it was scheduled; what it has not taken yet  *)
(* is still on its way.                                                    *)
NothingLost ==
  \A s \in Streams : ~ dropped[s] => handed[s] = taken[s] \o queue[s] \o ready[s]

(* A dropped stream is sent a first part of what was scheduled and then is *)
(* told so: no stream has a hole in the middle it does not know of.        *)
LossIsTold ==
  \A s \in Streams :
    dropped[s] =>
      \/ queue[s] = <<Dropped>> /\ IsPrefix(taken[s], handed[s])
      \/ /\ queue[s] = <<>> /\ taken[s] # <<>>
         /\ Last(taken[s]) = Dropped
         /\ IsPrefix(Front(taken[s]), handed[s])

(* Closing ends every stream: those open when it happens and those opened  *)
(* after, without the client or the grace period having to.                *)
ShutdownDrains ==
  \A s \in Streams :
    closed /\ phase[s] \in {"new", "open"} ~> phase[s] = "ended"

(* The broadcaster, its queues and callbacks forgotten, is the feed it     *)
(* promises: in order, without a hole, told of a drop, and always on.      *)
F == INSTANCE Feed WITH phase <- phase, handed <- handed, taken <- taken

ImplementsFeed == F!FairFeedSpec

=============================================================================
