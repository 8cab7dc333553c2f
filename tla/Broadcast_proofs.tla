--------------------------- MODULE Broadcast_proofs ---------------------------
(***************************************************************************)
(* Proofs about Broadcast, for any streams, publishers and queue size: its *)
(* types, its bound on memory, that nothing is lost short of a drop, and   *)
(* that it implements Feed's safety.                                       *)
(***************************************************************************)
EXTENDS Broadcast, SequenceTheorems, TLAPS

-----------------------------------------------------------------------------
(* Three sequences in a line, and an item that moves from one of them to   *)
(* the end of the one before.                                              *)

Line(t, q, r) == t \o q \o r

LEMMA FirstAcross ==
  ASSUME NEW S, NEW t \in Seq(S), NEW q \in Seq(S), q # <<>>
  PROVE  Append(t, Head(q)) \o Tail(q) = t \o q
<1>1. /\ Head(q) \in S /\ Tail(q) \in Seq(S)
      /\ Len(Tail(q)) = Len(q) - 1
      /\ \A i \in 1 .. Len(Tail(q)) : Tail(q)[i] = q[i + 1]
  BY HeadTailProperties
<1>2. /\ Append(t, Head(q)) \in Seq(S)
      /\ Len(Append(t, Head(q))) = Len(t) + 1
      /\ \A i \in 1 .. Len(t) : Append(t, Head(q))[i] = t[i]
      /\ Append(t, Head(q))[Len(t) + 1] = Head(q)
  BY <1>1, AppendProperties
<1>3. Len(t) \in Nat /\ Len(q) \in Nat \ {0}
  BY LenProperties, EmptySeq
<1>4. Head(q) = q[1]
  OBVIOUS
<1>5. /\ Append(t, Head(q)) \o Tail(q) \in Seq(S)
      /\ Len(Append(t, Head(q)) \o Tail(q)) = Len(t) + Len(q)
      /\ \A i \in 1 .. Len(t) + Len(q) :
           (Append(t, Head(q)) \o Tail(q))[i] =
             IF i <= Len(t) + 1 THEN Append(t, Head(q))[i]
                                ELSE Tail(q)[i - (Len(t) + 1)]
  BY <1>1, <1>2, <1>3, ConcatProperties
<1>6. /\ t \o q \in Seq(S)
      /\ Len(t \o q) = Len(t) + Len(q)
      /\ \A i \in 1 .. Len(t) + Len(q) :
           (t \o q)[i] = IF i <= Len(t) THEN t[i] ELSE q[i - Len(t)]
  BY ConcatProperties
<1>7. ASSUME NEW i \in 1 .. Len(t) + Len(q)
      PROVE  (Append(t, Head(q)) \o Tail(q))[i] = (t \o q)[i]
  <2>1. CASE i <= Len(t)
    BY <2>1, <1>5, <1>6, <1>2, <1>3
  <2>2. CASE i = Len(t) + 1
    BY <2>2, <1>5, <1>6, <1>2, <1>3, <1>4
  <2>3. CASE i > Len(t) + 1
    <3>1. i - (Len(t) + 1) \in 1 .. Len(Tail(q))
      BY <2>3, <1>1, <1>3
    <3>2. Tail(q)[i - (Len(t) + 1)] = q[i - Len(t)]
      BY <3>1, <1>1, <1>3
    <3> QED
      BY <2>3, <3>2, <1>5, <1>6, <1>3
  <2> QED
    BY <2>1, <2>2, <2>3, <1>3
<1> QED
  BY <1>5, <1>6, <1>7, SeqEqual

LEMMA AppendAcross ==
  ASSUME NEW S, NEW t \in Seq(S), NEW q \in Seq(S), NEW e \in S
  PROVE  Append(t \o q, e) = t \o Append(q, e)
<1>1. t \o q \in Seq(S) /\ <<e>> \in Seq(S)
  BY ConcatProperties
<1>2. Append(t \o q, e) = (t \o q) \o <<e>>
  BY <1>1, AppendIsConcat
<1>3. Append(q, e) = q \o <<e>>
  BY AppendIsConcat
<1> QED
  BY <1>1, <1>2, <1>3, ConcatAssociative

LEMMA SecondAcross ==
  ASSUME NEW S, NEW t \in Seq(S), NEW q \in Seq(S), NEW r \in Seq(S), r # <<>>
  PROVE  Line(t, Append(q, Head(r)), Tail(r)) = Line(t, q, r)
<1>1. Head(r) \in S /\ Tail(r) \in Seq(S)
  BY HeadTailProperties
<1>2. t \o q \in Seq(S)
  BY ConcatProperties
<1>3. t \o Append(q, Head(r)) = Append(t \o q, Head(r))
  BY <1>1, AppendAcross
<1>4. (t \o Append(q, Head(r))) \o Tail(r) = (t \o q) \o r
  BY <1>2, <1>3, FirstAcross
<1> QED
  BY <1>4 DEF Line

LEMMA ThirdAcross ==
  ASSUME NEW S, NEW t \in Seq(S), NEW q \in Seq(S), q # <<>>, NEW r
  PROVE  Line(Append(t, Head(q)), Tail(q), r) = Line(t, q, r)
BY FirstAcross DEF Line

LEMMA LineAppend ==
  ASSUME NEW S, NEW t \in Seq(S), NEW q \in Seq(S), NEW r \in Seq(S), NEW e \in S
  PROVE  Append(Line(t, q, r), e) = Line(t, q, Append(r, e))
<1>1. t \o q \in Seq(S)
  BY ConcatProperties
<1>2. PICK u \in Seq(S) : u = t \o q
  BY <1>1
<1>3. Append(u \o r, e) = u \o Append(r, e)
  <2>1. u \o r \in Seq(S) /\ <<e>> \in Seq(S)
    BY ConcatProperties
  <2>2. Append(u \o r, e) = (u \o r) \o <<e>>
    BY <2>1, AppendIsConcat
  <2>3. Append(r, e) = r \o <<e>>
    BY AppendIsConcat
  <2> QED
    BY <2>1, <2>2, <2>3, ConcatAssociative
<1> QED
  BY <1>2, <1>3 DEF Line

(* Prefixes, and the two ends of an extended sequence.                     *)

LEMMA PrefixOfConcat ==
  ASSUME NEW S, NEW t \in Seq(S), NEW q \in Seq(S)
  PROVE  IsPrefix(t, t \o q)
<1>1. Len(t) \in Nat /\ Len(q) \in Nat
  BY LenProperties
<1>2. Len(t \o q) = Len(t) + Len(q)
  BY ConcatProperties
<1>3. SubSeq(t, 1, Len(t)) = SubSeq(t \o q, 1, Len(t))
  <2>1. CASE t = <<>>
    <3>1. Len(t) = 0
      BY <2>1, EmptySeq
    <3>2. SubSeq(t, 1, 0) = <<>> /\ SubSeq(t \o q, 1, 0) = <<>>
      BY SubSeqEmpty
    <3> QED
      BY <3>1, <3>2
  <2>2. CASE t # <<>>
    <3>1. 1 \in 1 .. Len(t) /\ Len(t) \in 1 .. Len(t)
      BY <2>2, EmptySeq
    <3> QED
      BY <3>1, SubSeqOfConcat1
  <2> QED
    BY <2>1, <2>2
<1> QED
  BY <1>1, <1>2, <1>3 DEF IsPrefix

LEMMA PrefixOfAppend ==
  ASSUME NEW S, NEW t \in Seq(S), NEW h \in Seq(S), NEW e \in S,
         IsPrefix(t, h)
  PROVE  IsPrefix(t, Append(h, e))
<1>1. /\ Len(t) \in Nat /\ Len(h) \in Nat /\ Len(t) <= Len(h)
      /\ SubSeq(t, 1, Len(t)) = SubSeq(h, 1, Len(t))
  BY LenProperties DEF IsPrefix
<1>2. Append(h, e) = h \o <<e>> /\ <<e>> \in Seq(S)
  BY AppendIsConcat
<1>3. Len(Append(h, e)) = Len(h) + 1
  BY AppendProperties
<1>4. SubSeq(h \o <<e>>, 1, Len(t)) = SubSeq(h, 1, Len(t))
  <2>1. CASE Len(t) = 0
    <3>1. SubSeq(h, 1, 0) = <<>> /\ SubSeq(h \o <<e>>, 1, 0) = <<>>
      BY SubSeqEmpty
    <3> QED
      BY <2>1, <3>1
  <2>2. CASE Len(t) # 0
    <3>1. 1 \in 1 .. Len(h) /\ Len(t) \in 1 .. Len(h)
      BY <2>2, <1>1
    <3> QED
      BY <3>1, <1>2, SubSeqOfConcat1
  <2> QED
    BY <2>1, <2>2
<1> QED
  BY <1>1, <1>2, <1>3, <1>4 DEF IsPrefix

LEMMA EndsOfAppend ==
  ASSUME NEW S, NEW t \in Seq(S), NEW e \in S
  PROVE  /\ Append(t, e) # <<>>
         /\ Last(Append(t, e)) = e
         /\ Front(Append(t, e)) = t
<1>1. Len(t) \in Nat
  BY LenProperties
<1>2. /\ Append(t, e) \in Seq(S) /\ Append(t, e) # <<>>
      /\ Len(Append(t, e)) = Len(t) + 1
      /\ \A i \in 1 .. Len(t) : Append(t, e)[i] = t[i]
      /\ Append(t, e)[Len(t) + 1] = e
  BY AppendProperties
<1>3. Front(Append(t, e)) = t
  <2> DEFINE f == SubSeq(Append(t, e), 1, Len(t))
  <2>1. \A i \in 1 .. Len(t) : Append(t, e)[i] \in S
    BY <1>2, ElementOfSeq
  <2>2. /\ f \in Seq(S)
        /\ Len(f) = IF 1 <= Len(t) THEN Len(t) - 1 + 1 ELSE 0
        /\ \A i \in 1 .. Len(t) - 1 + 1 : f[i] = Append(t, e)[1 + i - 1]
    BY <1>1, <2>1, SubSeqProperties
  <2>3. Len(f) = Len(t)
    BY <1>1, <2>2
  <2>4. \A i \in 1 .. Len(f) : f[i] = t[i]
    BY <1>1, <1>2, <2>2, <2>3
  <2>5. f = t
    BY <2>2, <2>3, <2>4, SeqEqual
  <2> QED
    BY <1>1, <1>2, <2>5 DEF Front
<1> QED
  BY <1>1, <1>2, <1>3 DEF Last

(* The item after a first part is the first of what follows it.            *)
LEMMA NextItem ==
  ASSUME NEW S, NEW t \in Seq(S), NEW q \in Seq(S), NEW r \in Seq(S), q # <<>>
  PROVE  /\ Len(t) < Len(Line(t, q, r))
         /\ Line(t, q, r)[Len(t) + 1] = Head(q)
         /\ IsPrefix(t, Line(t, q, r))
<1>1. Len(t) \in Nat /\ Len(q) \in Nat \ {0} /\ Len(r) \in Nat
  BY LenProperties, EmptySeq
<1>2. /\ t \o q \in Seq(S)
      /\ Len(t \o q) = Len(t) + Len(q)
      /\ (t \o q)[Len(t) + 1] = q[1]
  BY <1>1, ConcatProperties
<1>3. /\ Len(t \o q \o r) = Len(t) + Len(q) + Len(r)
      /\ (t \o q \o r)[Len(t) + 1] = (t \o q)[Len(t) + 1]
  BY <1>1, <1>2, ConcatProperties
<1>4. IsPrefix(t, t \o (q \o r)) /\ t \o (q \o r) = t \o q \o r
  <2>1. q \o r \in Seq(S)
    BY ConcatProperties
  <2>2. \A u \in Seq(S) : IsPrefix(t, t \o u)
    BY PrefixOfConcat
  <2>3. t \o (q \o r) = t \o q \o r
    BY ConcatAssociative
  <2> QED
    BY <2>1, <2>2, <2>3
<1> QED
  BY <1>1, <1>2, <1>3, <1>4 DEF Line

-----------------------------------------------------------------------------
(* Types.                                                                  *)

(* Whatever is offered, the queue stays one of items and markers.          *)
LEMMA OfferTypes ==
  ASSUME queue \in [Streams -> Seq(Items \cup {Dropped})],
         dropped \in [Streams -> BOOLEAN],
         NEW s \in Streams, NEW item \in Items, Offer(s, item)
  PROVE  /\ queue' \in [Streams -> Seq(Items \cup {Dropped})]
         /\ dropped' \in [Streams -> BOOLEAN]
<1> DEFINE T == Items \cup {Dropped}
<1>1. queue[s] \in Seq(T) /\ item \in T
  OBVIOUS
<1>2. Append(queue[s], item) \in Seq(T) /\ <<Dropped>> \in Seq(T)
  BY <1>1, AppendProperties
<1> QED
  BY <1>2 DEF Offer

LEMMA TypeStep == TypeOK /\ [Next]_vars => TypeOK'
<1> SUFFICES ASSUME TypeOK, [Next]_vars
             PROVE  TypeOK'
  OBVIOUS
<1> USE DEF TypeOK
<1>a. Closing \in Items /\ Deltas \subseteq Items /\ published \in Nat
      /\ MaxDeltas \in Nat
  BY BroadcastAssumption DEF Items, Deltas
<1>b. \A s \in Streams, item \in Items : Append(handed[s], item) \in Seq(Items)
  BY AppendProperties
<1>1. CASE Close
  BY <1>1, <1>a DEF Close
<1>2. ASSUME NEW p \in Publishers, Publish(p)
      PROVE  TypeOK'
  <2>1. published + 1 \in Deltas /\ published' \in 0 .. MaxDeltas
    BY <1>2, <1>a DEF Publish, Deltas
  <2>2. call' \in [Callers -> [item : Items, left : SUBSET Streams]]
    BY <1>2, <2>1, <1>a DEF Publish
  <2> QED
    BY <1>2, <2>1, <2>2 DEF Publish
<1>3. ASSUME NEW c \in Callers, NEW s \in Streams, HandOver(c, s)
      PROVE  TypeOK'
  <2>1. call[c].item \in Items
    OBVIOUS
  <2>2. /\ Append(ready[s], call[c].item) \in Seq(Items)
        /\ Append(handed[s], call[c].item) \in Seq(Items)
    BY <2>1, AppendProperties
  <2>3. call' \in [Callers -> [item : Items, left : SUBSET Streams]]
    <3> DEFINE C == [item : Items, left : SUBSET Streams]
    <3>1. call \in [Callers -> C] /\ call[c] \in C
      OBVIOUS
    <3>2. [call[c] EXCEPT !.left = @ \ {s}] \in C
      BY <3>1
    <3>3. call' = [call EXCEPT ![c] = [call[c] EXCEPT !.left = @ \ {s}]]
      BY <1>3 DEF HandOver
    <3> QED
      BY <3>1, <3>2, <3>3
  <2>4. ready' \in [Streams -> Seq(Items)] /\ handed' \in [Streams -> Seq(Items)]
    BY <1>3, <2>2 DEF HandOver
  <2> QED
    BY <1>3, <2>3, <2>4 DEF HandOver
<1>4. ASSUME NEW s \in Streams, Subscribe(s)
      PROVE  TypeOK'
  <2>1. /\ queue' \in [Streams -> Seq(Items \cup {Dropped})]
        /\ dropped' \in [Streams -> BOOLEAN]
        /\ handed' \in [Streams -> Seq(Items)]
    BY <1>4, <1>a, <1>b, OfferTypes DEF Subscribe
  <2> QED
    BY <1>4, <2>1 DEF Subscribe
<1>5. ASSUME NEW s \in Streams, RunCallback(s)
      PROVE  TypeOK'
  <2>1. Head(ready[s]) \in Items /\ Tail(ready[s]) \in Seq(Items)
    BY <1>5, HeadTailProperties DEF RunCallback
  <2>2. /\ queue' \in [Streams -> Seq(Items \cup {Dropped})]
        /\ dropped' \in [Streams -> BOOLEAN]
    BY <1>5, <2>1, OfferTypes DEF RunCallback
  <2> QED
    BY <1>5, <2>1, <2>2 DEF RunCallback
<1>6. ASSUME NEW s \in Streams, StartResponse(s)
      PROVE  TypeOK'
  BY <1>6 DEF StartResponse
<1>7. ASSUME NEW s \in Streams, Take(s)
      PROVE  TypeOK'
  <2> DEFINE T == Items \cup {Dropped}
  <2>1. queue[s] \in Seq(T) /\ taken[s] \in Seq(T) /\ queue[s] # <<>>
    BY <1>7 DEF Take
  <2>2. Head(queue[s]) \in T /\ Tail(queue[s]) \in Seq(T)
    BY <2>1, HeadTailProperties
  <2>3. Append(taken[s], Head(queue[s])) \in Seq(T)
    BY <2>1, <2>2, AppendProperties
  <2> QED
    BY <1>7, <2>2, <2>3 DEF Take
<1>8. ASSUME NEW s \in Streams, Disconnect(s)
      PROVE  TypeOK'
  BY <1>8 DEF Disconnect
<1>9. ASSUME NEW s \in Streams, Leave(s)
      PROVE  TypeOK'
  BY <1>9 DEF Leave
<1>10. CASE UNCHANGED vars
  BY <1>10 DEF vars
<1> QED
  BY <1>1, <1>2, <1>3, <1>4, <1>5, <1>6, <1>7, <1>8, <1>9, <1>10 DEF Next

LEMMA TypeInit == Init => TypeOK
<1> SUFFICES ASSUME Init
             PROVE  TypeOK
  OBVIOUS
<1>1. Idle \in [item : Items, left : SUBSET Streams]
  BY DEF Idle, Items
<1>2. /\ <<>> \in Seq(Items)
      /\ <<>> \in Seq(Items \cup {Dropped})
  BY EmptySeq
<1>3. 0 \in 0 .. MaxDeltas
  BY BroadcastAssumption
<1> QED
  BY <1>1, <1>2, <1>3 DEF Init, TypeOK

(* The broadcaster's state keeps its types in every behaviour.             *)
THEOREM TypeCorrect == Spec => []TypeOK
BY TypeInit, TypeStep, PTL DEF Spec

-----------------------------------------------------------------------------
(* The inductive invariant.  One stream at a time: before it is opened     *)
(* nothing knows of it; short of a drop, what was scheduled is what was    *)
(* taken, queued and ready, end to end; and a drop happens with items      *)
(* outstanding and leaves the marker as the last thing the stream takes.   *)

Untouched(s) ==
  phase[s] = "none" =>
    /\ s \notin registered
    /\ \A c \in Callers : s \notin call[c].left
    /\ ready[s] = <<>> /\ queue[s] = <<>> /\ handed[s] = <<>> /\ taken[s] = <<>>
    /\ ~ dropped[s]

Kept(s) ==
  ~ dropped[s] =>
    /\ queue[s] \in Seq(Items)
    /\ handed[s] = Line(taken[s], queue[s], ready[s])

Told(s) ==
  dropped[s] =>
    \/ /\ queue[s] = <<Dropped>>
       /\ IsPrefix(taken[s], handed[s]) /\ Len(taken[s]) < Len(handed[s])
    \/ /\ queue[s] = <<>> /\ taken[s] # <<>>
       /\ Last(taken[s]) = Dropped /\ IsPrefix(Front(taken[s]), handed[s])

StreamInv(s) == /\ Len(queue[s]) <= QueueSize
                /\ Untouched(s) /\ Kept(s) /\ Told(s)

IInv == TypeOK /\ \A s \in Streams : StreamInv(s)

(* What offering an item does to a stream, with `before` the callbacks     *)
(* that have yet to run, the one for this item first.                      *)
LEMMA OfferKeeps ==
  ASSUME TypeOK, NEW s \in Streams, NEW before \in Seq(Items), before # <<>>,
         NEW scheduled \in Seq(Items),
         Offer(s, Head(before)),
         Len(queue[s]) <= QueueSize, Told(s),
         ~ dropped[s] => /\ queue[s] \in Seq(Items)
                         /\ scheduled = Line(taken[s], queue[s], before)
  PROVE  /\ Len(queue'[s]) <= QueueSize
         /\ ~ dropped'[s] => /\ queue'[s] \in Seq(Items)
                             /\ scheduled = Line(taken[s], queue'[s], Tail(before))
         /\ dropped'[s] => \/ dropped[s] /\ queue'[s] = queue[s]
                           \/ /\ queue'[s] = <<Dropped>>
                              /\ IsPrefix(taken[s], scheduled)
                              /\ Len(taken[s]) < Len(scheduled)
<1> DEFINE T == Items \cup {Dropped}
<1>1. /\ queue[s] \in Seq(T) /\ taken[s] \in Seq(T)
      /\ Head(before) \in Items /\ Tail(before) \in Seq(Items)
      /\ queue \in [Streams -> Seq(T)] /\ dropped \in [Streams -> BOOLEAN]
  BY HeadTailProperties DEF TypeOK
<1>2. QueueSize \in Nat \ {0} /\ Len(<<Dropped>>) = 1 /\ Len(queue[s]) \in Nat
  BY <1>1, LenProperties, BroadcastAssumption
<1>3. CASE dropped[s]
  BY <1>1, <1>2, <1>3 DEF Offer
<1>4. CASE ~ dropped[s] /\ Len(queue[s]) < QueueSize
  <2>1. queue'[s] = Append(queue[s], Head(before)) /\ ~ dropped'[s]
    BY <1>1, <1>4 DEF Offer
  <2>2. /\ queue[s] \in Seq(Items)
        /\ scheduled = Line(taken[s], queue[s], before)
    BY <1>4
  <2>3. /\ queue'[s] \in Seq(Items)
        /\ Len(queue'[s]) = Len(queue[s]) + 1
    BY <1>1, <2>1, <2>2, AppendProperties
  <2>4. before \in Seq(T)
    BY SeqMonotonic
  <2>5. Line(taken[s], Append(queue[s], Head(before)), Tail(before))
          = Line(taken[s], queue[s], before)
    BY <1>1, <2>4, SecondAcross
  <2>6. scheduled = Line(taken[s], queue'[s], Tail(before))
    BY <2>1, <2>2, <2>5
  <2>7. Len(queue'[s]) <= QueueSize
    BY <1>2, <1>4, <2>3
  <2> QED
    BY <2>1, <2>3, <2>6, <2>7
<1>5. CASE ~ dropped[s] /\ ~ (Len(queue[s]) < QueueSize)
  <2>1. queue'[s] = <<Dropped>> /\ dropped'[s]
    BY <1>1, <1>5 DEF Offer
  <2>2. queue[s] # <<>>
    BY <1>2, <1>5, EmptySeq
  <2>3. before \in Seq(T)
    BY SeqMonotonic
  <2>4. Len(taken[s]) < Len(scheduled) /\ IsPrefix(taken[s], scheduled)
    <3>1. /\ Len(taken[s]) < Len(Line(taken[s], queue[s], before))
          /\ IsPrefix(taken[s], Line(taken[s], queue[s], before))
      BY <1>1, <2>2, <2>3, NextItem
    <3> QED
      BY <1>5, <3>1
  <2> QED
    BY <1>2, <1>5, <2>1, <2>4
<1> QED
  BY <1>3, <1>4, <1>5

LEMMA StreamFrame ==
  ASSUME NEW u \in Streams, StreamInv(u), Untouched(u)',
         queue'[u] = queue[u], ready'[u] = ready[u], dropped'[u] = dropped[u],
         handed'[u] = handed[u], taken'[u] = taken[u]
  PROVE  StreamInv(u)'
BY DEF StreamInv, Kept, Told

(* A subscription to a closed broadcaster is offered its marker at once,   *)
(* and to an empty queue.                                                  *)
LEMMA SubscribeStep ==
  ASSUME TypeOK, NEW s \in Streams, StreamInv(s), Subscribe(s)
  PROVE  StreamInv(s)'
<1>1. /\ phase[s] = "none" /\ phase'[s] # "none"
      /\ ready' = ready /\ taken' = taken
  BY DEF Subscribe, TypeOK
<1>2. /\ ready[s] = <<>> /\ queue[s] = <<>>
      /\ handed[s] = <<>> /\ taken[s] = <<>> /\ ~ dropped[s]
  BY <1>1 DEF StreamInv, Untouched
<1>3. CASE ~ closed
  <2>1. /\ queue'[s] = queue[s] /\ dropped'[s] = dropped[s]
        /\ handed'[s] = handed[s]
    BY <1>3 DEF Subscribe
  <2> QED
    BY <1>1, <2>1, StreamFrame DEF Untouched
<1>4. CASE closed
  <2>1. /\ handed'[s] = Append(handed[s], Closing)
        /\ Offer(s, Closing)
    BY <1>4 DEF Subscribe, TypeOK
  <2>2. Len(queue[s]) < QueueSize
    BY <1>2, BroadcastAssumption
  <2>3. queue'[s] = Append(queue[s], Closing) /\ ~ dropped'[s]
    BY <1>2, <2>1, <2>2 DEF Offer, TypeOK
  <2>4. Closing \in Items /\ <<>> \in Seq(Items)
    BY EmptySeq DEF Items
  <2>5. Append(queue[s], Closing) = <<Closing>> /\ <<Closing>> \in Seq(Items)
        /\ Len(<<Closing>>) = 1
    BY <1>2, <2>4
  <2>6. Line(<<>>, <<Closing>>, <<>>) = <<Closing>>
    BY <2>5, ConcatEmptySeq DEF Line
  <2>7. Kept(s)'
    BY <1>1, <1>2, <2>1, <2>3, <2>5, <2>6 DEF Kept
  <2>8. Len(queue'[s]) <= QueueSize
    BY <2>3, <2>5, BroadcastAssumption
  <2> QED
    BY <1>1, <2>3, <2>7, <2>8 DEF StreamInv, Untouched, Told
<1> QED
  BY <1>3, <1>4

(* A callback moves the first ready item to the queue, or drops.           *)
LEMMA RunCallbackStep ==
  ASSUME TypeOK, NEW s \in Streams, StreamInv(s), RunCallback(s)
  PROVE  StreamInv(s)'
<1>1. /\ ready[s] \in Seq(Items) /\ ready[s] # <<>> /\ handed[s] \in Seq(Items)
      /\ ready'[s] = Tail(ready[s]) /\ Offer(s, Head(ready[s]))
      /\ handed' = handed /\ taken' = taken /\ phase' = phase
      /\ registered' = registered /\ call' = call
  BY DEF RunCallback, TypeOK
<1>2. /\ Len(queue[s]) <= QueueSize /\ Told(s)
      /\ ~ dropped[s] => /\ queue[s] \in Seq(Items)
                         /\ handed[s] = Line(taken[s], queue[s], ready[s])
  BY DEF StreamInv, Kept
<1>3. /\ Len(queue'[s]) <= QueueSize
      /\ ~ dropped'[s] => /\ queue'[s] \in Seq(Items)
                          /\ handed[s] = Line(taken[s], queue'[s], Tail(ready[s]))
      /\ dropped'[s] => \/ dropped[s] /\ queue'[s] = queue[s]
                        \/ /\ queue'[s] = <<Dropped>>
                           /\ IsPrefix(taken[s], handed[s])
                           /\ Len(taken[s]) < Len(handed[s])
  BY <1>1, <1>2, OfferKeeps
<1>4. Untouched(s)'
  BY <1>1 DEF StreamInv, Untouched
<1>5. Kept(s)' /\ Told(s)'
  BY <1>1, <1>2, <1>3 DEF Kept, Told
<1> QED
  BY <1>3, <1>4, <1>5 DEF StreamInv

(* A stream takes the first item queued, or its marker.                    *)
LEMMA TakeStep ==
  ASSUME TypeOK, NEW s \in Streams, StreamInv(s), Take(s)
  PROVE  StreamInv(s)'
<1> DEFINE T == Items \cup {Dropped}
<1>1. /\ queue[s] \in Seq(T) /\ taken[s] \in Seq(T) /\ queue[s] # <<>>
      /\ queue'[s] = Tail(queue[s])
      /\ taken'[s] = Append(taken[s], Head(queue[s]))
      /\ ready' = ready /\ handed' = handed /\ dropped' = dropped
      /\ phase[s] = "open" /\ phase'[s] # "none"
  BY DEF Take, TypeOK
<1>2. /\ Head(queue[s]) \in T /\ Len(Tail(queue[s])) = Len(queue[s]) - 1
      /\ Len(queue[s]) \in Nat
  BY <1>1, HeadTailProperties, LenProperties
<1>3. Len(queue'[s]) <= QueueSize
  BY <1>1, <1>2, BroadcastAssumption DEF StreamInv
<1>4. Kept(s)'
  <2> SUFFICES ASSUME ~ dropped[s]
               PROVE  /\ queue'[s] \in Seq(Items)
                      /\ handed[s] = Line(taken'[s], queue'[s], ready[s])
    BY <1>1 DEF Kept
  <2>1. queue[s] \in Seq(Items) /\ handed[s] = Line(taken[s], queue[s], ready[s])
    BY DEF StreamInv, Kept
  <2>2. Tail(queue[s]) \in Seq(Items)
    BY <1>1, <2>1, HeadTailProperties
  <2>3. Line(Append(taken[s], Head(queue[s])), Tail(queue[s]), ready[s])
          = Line(taken[s], queue[s], ready[s])
    BY <1>1, ThirdAcross
  <2> QED
    BY <1>1, <2>1, <2>2, <2>3
<1>5. Told(s)'
  <2> SUFFICES ASSUME dropped[s]
               PROVE  /\ queue'[s] = <<>> /\ taken'[s] # <<>>
                      /\ Last(taken'[s]) = Dropped
                      /\ IsPrefix(Front(taken'[s]), handed[s])
    BY <1>1 DEF Told
  <2>1. queue[s] = <<Dropped>> /\ IsPrefix(taken[s], handed[s])
    BY <1>1 DEF StreamInv, Told
  <2>2. Head(queue[s]) = Dropped /\ Tail(queue[s]) = <<>>
    BY <2>1
  <2>3. /\ Append(taken[s], Dropped) # <<>>
        /\ Last(Append(taken[s], Dropped)) = Dropped
        /\ Front(Append(taken[s], Dropped)) = taken[s]
    BY <1>1, EndsOfAppend
  <2> QED
    BY <1>1, <2>1, <2>2, <2>3
<1> QED
  BY <1>1, <1>3, <1>4, <1>5 DEF StreamInv, Untouched

(* An item more is scheduled.                                              *)
LEMMA HandOverStep ==
  ASSUME TypeOK, NEW c \in Callers, NEW s \in Streams, StreamInv(s),
         HandOver(c, s)
  PROVE  StreamInv(s)'
<1> DEFINE T == Items \cup {Dropped}
<1>1. /\ phase' = phase /\ registered' = registered /\ queue' = queue
      /\ dropped' = dropped /\ taken' = taken
      /\ phase[s] # "none"
  BY DEF HandOver, StreamInv, Untouched
<1>2. Untouched(s)'
  BY <1>1 DEF Untouched
<1>3. CASE UNCHANGED <<ready, handed>>
  BY <1>1, <1>2, <1>3, StreamFrame
<1>4. CASE /\ ready'[s] = Append(ready[s], call[c].item)
           /\ handed'[s] = Append(handed[s], call[c].item)
  <2>1. /\ call[c].item \in Items /\ handed[s] \in Seq(Items)
        /\ ready[s] \in Seq(T) /\ taken[s] \in Seq(T) /\ queue[s] \in Seq(T)
        /\ call[c].item \in T
    <3>1. ready[s] \in Seq(Items)
      BY DEF TypeOK
    <3> QED
      BY <3>1, SeqMonotonic DEF TypeOK
  <2>2. Kept(s)'
    <3>1. Append(Line(taken[s], queue[s], ready[s]), call[c].item)
            = Line(taken[s], queue[s], Append(ready[s], call[c].item))
      <4>1. \A t, q, r \in Seq(T), e \in T :
              Append(Line(t, q, r), e) = Line(t, q, Append(r, e))
        BY LineAppend
      <4> QED
        BY <2>1, <4>1
    <3> QED
      BY <1>1, <1>4, <3>1 DEF Kept, StreamInv
  <2>3. /\ Len(Append(handed[s], call[c].item)) = Len(handed[s]) + 1
        /\ Len(handed[s]) \in Nat /\ Len(taken[s]) \in Nat
        /\ handed[s] \in Seq(T)
    BY <2>1, AppendProperties, LenProperties, SeqMonotonic
  <2>4. ASSUME NEW t \in Seq(T), IsPrefix(t, handed[s])
        PROVE  IsPrefix(t, Append(handed[s], call[c].item))
    BY <2>1, <2>3, <2>4, PrefixOfAppend
  <2>5. Told(s)'
    <3>1. CASE dropped[s] /\ queue[s] = <<Dropped>>
      BY <1>1, <1>4, <2>1, <2>3, <2>4, <3>1 DEF Told, StreamInv
    <3>2. CASE dropped[s] /\ queue[s] = <<>>
      <4>1. /\ taken[s] # <<>> /\ Last(taken[s]) = Dropped
            /\ IsPrefix(Front(taken[s]), handed[s])
        BY <3>2 DEF Told, StreamInv
      <4>2. Front(taken[s]) \in Seq(T)
        <5>1. PICK t \in Seq(T), e \in T : taken[s] = Append(t, e)
          BY <2>1, <4>1, SequenceEmptyOrAppend
        <5> QED
          BY <5>1, EndsOfAppend
      <4> QED
        BY <1>1, <1>4, <3>2, <4>1, <4>2, <2>4 DEF Told
    <3> QED
      BY <1>1, <3>1, <3>2 DEF Told, StreamInv
  <2> QED
    BY <1>1, <1>2, <2>2, <2>5 DEF StreamInv
<1> QED
  BY <1>3, <1>4 DEF HandOver, TypeOK

LEMMA InvInit == Init => IInv
<1> SUFFICES ASSUME Init
             PROVE  IInv
  OBVIOUS
<1>1. TypeOK
  BY TypeInit
<1>2. ASSUME NEW s \in Streams
      PROVE  StreamInv(s)
  <2>1. Untouched(s) /\ Told(s)
    BY DEF Init, Idle, Untouched, Told
  <2>2. Line(<<>>, <<>>, <<>>) = <<>> /\ <<>> \in Seq(Items) /\ Len(<<>>) = 0
    BY EmptySeq, ConcatEmptySeq DEF Line
  <2>3. Kept(s)
    BY <2>2 DEF Init, Kept
  <2>4. Len(queue[s]) <= QueueSize
    BY <2>2, BroadcastAssumption DEF Init
  <2> QED
    BY <2>1, <2>3, <2>4 DEF StreamInv
<1> QED
  BY <1>1, <1>2 DEF IInv

LEMMA InvStep == IInv /\ [Next]_vars => IInv'
<1> SUFFICES ASSUME IInv, [Next]_vars, NEW u \in Streams
             PROVE  StreamInv(u)'
  BY TypeStep DEF IInv
<1>0. TypeOK /\ \A s \in Streams : StreamInv(s)
  BY DEF IInv
<1>a. Untouched(u)
  BY <1>0 DEF StreamInv
<1>1. CASE Close
  <2>1. Untouched(u)'
    BY <1>0, <1>1, <1>a DEF Close, Untouched, TypeOK, Callers
  <2> QED
    BY <1>0, <1>1, <2>1, StreamFrame DEF Close
<1>2. ASSUME NEW p \in Publishers, Publish(p)
      PROVE  StreamInv(u)'
  <2>1. Untouched(u)'
    BY <1>0, <1>2, <1>a DEF Publish, Untouched, TypeOK, Callers
  <2> QED
    BY <1>0, <1>2, <2>1, StreamFrame DEF Publish
<1>3. ASSUME NEW c \in Callers, NEW s \in Streams, HandOver(c, s)
      PROVE  StreamInv(u)'
  <2>1. CASE u = s
    BY <1>0, <1>3, <2>1, HandOverStep
  <2>2. CASE u # s
    <3>1. /\ ready'[u] = ready[u] /\ handed'[u] = handed[u]
          /\ \A d \in Callers : call'[d].left \subseteq call[d].left
          /\ phase' = phase /\ registered' = registered
      BY <1>0, <1>3, <2>2 DEF HandOver, TypeOK
    <3>2. Untouched(u)'
      BY <1>a, <1>3, <3>1 DEF Untouched, HandOver
    <3> QED
      BY <1>0, <1>3, <3>1, <3>2, StreamFrame DEF HandOver
  <2> QED
    BY <2>1, <2>2
<1>4. ASSUME NEW s \in Streams, Subscribe(s)
      PROVE  StreamInv(u)'
  <2>1. CASE u = s
    BY <1>0, <1>4, <2>1, SubscribeStep
  <2>2. CASE u # s
    <3>1. /\ queue'[u] = queue[u] /\ dropped'[u] = dropped[u]
          /\ handed'[u] = handed[u] /\ phase'[u] = phase[u]
      BY <1>0, <1>4, <2>2 DEF Subscribe, Offer, TypeOK
    <3>2. Untouched(u)'
      BY <1>a, <1>4, <2>2, <3>1 DEF Untouched, Subscribe
    <3> QED
      BY <1>0, <1>4, <3>1, <3>2, StreamFrame DEF Subscribe
  <2> QED
    BY <2>1, <2>2
<1>5. ASSUME NEW s \in Streams, RunCallback(s)
      PROVE  StreamInv(u)'
  <2>1. CASE u = s
    BY <1>0, <1>5, <2>1, RunCallbackStep
  <2>2. CASE u # s
    <3>1. /\ queue'[u] = queue[u] /\ dropped'[u] = dropped[u]
          /\ ready'[u] = ready[u]
      BY <1>0, <1>5, <2>2 DEF RunCallback, Offer, TypeOK
    <3>2. Untouched(u)'
      BY <1>a, <1>5, <3>1 DEF Untouched, RunCallback
    <3> QED
      BY <1>0, <1>5, <3>1, <3>2, StreamFrame DEF RunCallback
  <2> QED
    BY <2>1, <2>2
<1>6. ASSUME NEW s \in Streams, StartResponse(s)
      PROVE  StreamInv(u)'
  <2>1. Untouched(u)'
    BY <1>0, <1>a, <1>6 DEF Untouched, StartResponse, TypeOK
  <2> QED
    BY <1>0, <1>6, <2>1, StreamFrame DEF StartResponse
<1>7. ASSUME NEW s \in Streams, Take(s)
      PROVE  StreamInv(u)'
  <2>1. CASE u = s
    BY <1>0, <1>7, <2>1, TakeStep
  <2>2. CASE u # s
    <3>1. /\ queue'[u] = queue[u] /\ taken'[u] = taken[u] /\ phase'[u] = phase[u]
      BY <1>0, <1>7, <2>2 DEF Take, TypeOK
    <3>2. Untouched(u)'
      BY <1>a, <1>7, <3>1 DEF Untouched, Take
    <3> QED
      BY <1>0, <1>7, <3>1, <3>2, StreamFrame DEF Take
  <2> QED
    BY <2>1, <2>2
<1>8. ASSUME NEW s \in Streams, Disconnect(s)
      PROVE  StreamInv(u)'
  <2>1. Untouched(u)'
    BY <1>0, <1>a, <1>8 DEF Untouched, Disconnect, TypeOK
  <2> QED
    BY <1>0, <1>8, <2>1, StreamFrame DEF Disconnect
<1>9. ASSUME NEW s \in Streams, Leave(s)
      PROVE  StreamInv(u)'
  <2>1. Untouched(u)'
    BY <1>0, <1>a, <1>9 DEF Untouched, Leave, TypeOK
  <2> QED
    BY <1>0, <1>9, <2>1, StreamFrame DEF Leave
<1>10. CASE UNCHANGED vars
  <2>1. Untouched(u)'
    BY <1>a, <1>10 DEF Untouched, vars
  <2> QED
    BY <1>0, <1>10, <2>1, StreamFrame DEF vars
<1> QED
  BY <1>1, <1>2, <1>3, <1>4, <1>5, <1>6, <1>7, <1>8, <1>9, <1>10 DEF Next

LEMMA Invariant == Spec => []IInv
BY InvInit, InvStep, PTL DEF Spec

-----------------------------------------------------------------------------
(* A subscriber that cannot keep up holds no more than its queue, whatever *)
(* the size of the queue and however many publish at once.                 *)
THEOREM MemoryIsBounded == Spec => []MemoryBounded
<1>1. IInv => MemoryBounded
  BY DEF IInv, StreamInv, Told, MemoryBounded
<1> QED
  BY <1>1, Invariant, PTL

(* Short of a drop nothing scheduled for a stream is lost, repeated or     *)
(* taken out of order.                                                     *)
THEOREM NothingIsLost == Spec => []NothingLost
<1>1. IInv => NothingLost
  BY DEF IInv, StreamInv, Kept, NothingLost, Line
<1> QED
  BY <1>1, Invariant, PTL

(* A stream that was dropped has a first part of what was scheduled, and   *)
(* the marker after it.                                                    *)
THEOREM LossIsAlwaysTold == Spec => []LossIsTold
<1>1. IInv => LossIsTold
  BY DEF IInv, StreamInv, Told, LossIsTold
<1> QED
  BY <1>1, Invariant, PTL

-----------------------------------------------------------------------------
(* The broadcaster implements the feed: each of its steps is one of the    *)
(* feed's, or changes nothing the feed speaks of.                          *)

LEMMA TakeDelivers ==
  ASSUME IInv, NEW s \in Streams, Take(s)
  PROVE  F!Deliver(s) \/ F!Drop(s)
<1> DEFINE T == Items \cup {Dropped}
<1>1. TypeOK /\ Kept(s) /\ Told(s)
  BY DEF IInv, StreamInv
<1>2. /\ queue[s] \in Seq(T) /\ taken[s] \in Seq(T) /\ ready[s] \in Seq(T)
      /\ queue[s] # <<>>
      /\ taken' = [taken EXCEPT ![s] = Append(@, Head(queue[s]))]
      /\ handed' = handed /\ phase[s] = "open"
      /\ phase' = [phase EXCEPT ![s] =
                     IF Head(queue[s]) \in {Dropped, Closing} THEN "ending" ELSE @]
  <2>1. ready[s] \in Seq(Items)
    BY <1>1 DEF TypeOK
  <2> QED
    BY <1>1, <2>1, SeqMonotonic DEF Take, TypeOK
<1>3. CASE ~ dropped[s]
  <2>1. queue[s] \in Seq(Items) /\ handed[s] = Line(taken[s], queue[s], ready[s])
    BY <1>1, <1>3 DEF Kept
  <2>2. Head(queue[s]) \in Items /\ Head(queue[s]) # Dropped
    BY <1>2, <2>1, HeadTailProperties, BroadcastAssumption
  <2>3. /\ Len(taken[s]) < Len(Line(taken[s], queue[s], ready[s]))
        /\ Line(taken[s], queue[s], ready[s])[Len(taken[s]) + 1] = Head(queue[s])
    BY <1>2, NextItem
  <2>4. F!Behind(s) /\ handed[s][Len(taken[s]) + 1] = Head(queue[s])
    BY <2>1, <2>3 DEF F!Behind
  <2>5. phase' = [phase EXCEPT ![s] = IF Head(queue[s]) = Closing THEN "ending"
                                                                 ELSE @]
    BY <1>2, <2>2
  <2>6. F!Deliver(s)
    BY <1>2, <2>4, <2>5 DEF F!Deliver
  <2> QED
    BY <2>6
<1>4. CASE dropped[s]
  <2>1. queue[s] = <<Dropped>> /\ Len(taken[s]) < Len(handed[s])
    BY <1>1, <1>2, <1>4 DEF Told
  <2>2. Head(queue[s]) = Dropped
    BY <2>1
  <2>3. F!Drop(s)
    BY <1>2, <2>1, <2>2 DEF F!Drop, F!Behind
  <2> QED
    BY <2>3
<1> QED
  BY <1>3, <1>4

LEMMA FeedStep == IInv /\ [Next]_vars => [F!FeedNext]_(F!feedVars)
<1> SUFFICES ASSUME IInv, [Next]_vars
             PROVE  [F!FeedNext]_(F!feedVars)
  OBVIOUS
<1> USE DEF F!feedVars
<1>0. TypeOK
  BY DEF IInv
<1>1. CASE Close
  BY <1>1 DEF Close
<1>2. ASSUME NEW p \in Publishers, Publish(p)
      PROVE  UNCHANGED F!feedVars
  BY <1>2 DEF Publish
<1>3. ASSUME NEW c \in Callers, NEW s \in Streams, HandOver(c, s)
      PROVE  [F!FeedNext]_(F!feedVars)
  <2>1. call[c].item \in Items
    BY <1>0 DEF TypeOK
  <2>2. CASE handed' = handed
    BY <1>3, <2>2 DEF HandOver
  <2>3. CASE handed' = [handed EXCEPT ![s] = Append(@, call[c].item)]
    <3>1. F!Schedule(s, call[c].item)
      BY <1>3, <2>3 DEF HandOver, F!Schedule
    <3> QED
      BY <2>1, <3>1 DEF F!FeedNext
  <2> QED
    BY <1>3, <2>2, <2>3 DEF HandOver
<1>4. ASSUME NEW s \in Streams, Subscribe(s)
      PROVE  F!FeedNext
  <2>1. F!Open(s)
    BY <1>4 DEF Subscribe, F!Open
  <2> QED
    BY <2>1 DEF F!FeedNext
<1>5. ASSUME NEW s \in Streams, RunCallback(s)
      PROVE  UNCHANGED F!feedVars
  BY <1>5 DEF RunCallback
<1>6. ASSUME NEW s \in Streams, StartResponse(s)
      PROVE  F!FeedNext
  <2>1. F!Begin(s)
    BY <1>6 DEF StartResponse, F!Begin
  <2> QED
    BY <2>1 DEF F!FeedNext
<1>7. ASSUME NEW s \in Streams, Take(s)
      PROVE  F!FeedNext
  BY <1>7, TakeDelivers DEF F!FeedNext
<1>8. ASSUME NEW s \in Streams, Disconnect(s)
      PROVE  F!FeedNext
  <2>1. F!Hangup(s)
    BY <1>8 DEF Disconnect, F!Hangup
  <2> QED
    BY <2>1 DEF F!FeedNext
<1>9. ASSUME NEW s \in Streams, Leave(s)
      PROVE  F!FeedNext
  <2>1. F!Finish(s)
    BY <1>9 DEF Leave, F!Finish
  <2> QED
    BY <2>1 DEF F!FeedNext
<1>10. CASE UNCHANGED vars
  BY <1>10 DEF vars
<1> QED
  BY <1>1, <1>2, <1>3, <1>4, <1>5, <1>6, <1>7, <1>8, <1>9, <1>10 DEF Next

(* Whatever its queues, its callbacks and its two kinds of caller do, what *)
(* a listener of the broadcaster sees is a feed.                           *)
THEOREM ImplementsFeedSafety == Spec => F!FeedSpec
<1>1. Init => F!FeedInit
  BY DEF Init, F!FeedInit
<1> QED
  BY <1>1, FeedStep, Invariant, PTL DEF Spec, F!FeedSpec

=============================================================================
