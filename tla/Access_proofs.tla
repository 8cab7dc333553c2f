---------------------------- MODULE Access_proofs ----------------------------
(***************************************************************************)
(* Proofs about Access, for any tokens, edits and times: its types, that   *)
(* the deny list is current, the limiter's bound on a minute in which the  *)
(* service did not restart, and how long a browser is signed in, whatever  *)
(* its session was set to last.                                            *)
(***************************************************************************)
EXTENDS Access, SequenceTheorems, TLAPS

-----------------------------------------------------------------------------
(* What a decision leaves, whichever route it was for. *)

LEMMA AdmitOutcome ==
  ASSUME NEW t \in Tokens, NEW seen \in Seens, Admit(t, seen)
  PROVE  /\ busy' = Idle
         /\ answer' \in [is : Answers, always : BOOLEAN, ever : BOOLEAN]
         /\ answer'.always = seen.always /\ answer'.ever = seen.ever
         /\ answer'.is # "revoked"
<1>1. ASSUME NEW body
      PROVE  Received(body) \in Answers \ {"revoked"}
  BY DEF Received, Answers
<1>2. \E is \in Answers \ {"revoked"} : Answer(seen, is)
  <2>1. "too many" \in Answers \ {"revoked"}
    BY DEF Answers
  <2> QED
    BY <1>1, <2>1 DEF Admit
<1> QED
  BY <1>2 DEF Answer, Says, Seens

LEMMA PreflightOutcome ==
  ASSUME NEW t, NEW accepted \in BOOLEAN, NEW seen \in Seens,
         Preflight(t, accepted, seen)
  PROVE  /\ busy' = Idle
         /\ answer' \in [is : Answers, always : BOOLEAN, ever : BOOLEAN]
         /\ answer'.always => seen.always /\ accepted
         /\ answer'.is # "revoked"
BY DEF Preflight, Answer, Says, Seens, Answers

Limited == UNCHANGED limiter \/ \E t \in Tokens, seen \in Seens : Admit(t, seen)

(* A decision says "revoked" only of a token that was denied, and whatever  *)
(* else it says of none that was.                                           *)
Fair(denied, seen) ==
  \/ /\ busy' = [stage |-> "issue", who |-> busy'.who, seen |-> seen]
     /\ busy'.who \in Tokens
     /\ ~denied
     /\ UNCHANGED answer
  \/ /\ busy' = Idle
     /\ answer' \in [is : Answers, always : BOOLEAN, ever : BOOLEAN]
     /\ answer'.is = "revoked" => denied /\ answer'.ever = seen.ever
     /\ answer'.always /\ answer'.is # "revoked" => ~denied /\ seen.always

LEMMA DecideOutcome ==
  ASSUME NEW request \in Requests, NEW denied \in BOOLEAN, NEW seen \in Seens,
         Decide(request, denied, seen)
  PROVE  UNCHANGED browser /\ Limited /\ Fair(denied, seen)
<1>0. request.who \in Tokens
  BY DEF Requests
<1>1. UNCHANGED browser
  BY DEF Decide
<1>2. CASE request.route = "preflight" /\ Preflight(request.who, ~denied, seen)
           /\ UNCHANGED limiter
  BY <1>1, <1>2, PreflightOutcome DEF Limited, Fair
<1>3. CASE denied /\ Answer(seen, "revoked") /\ UNCHANGED limiter
  BY <1>1, <1>3 DEF Limited, Fair, Answer, Says, Seens, Answers
<1>4. CASE ~denied /\ Admit(request.who, seen)
  BY <1>0, <1>1, <1>4, AdmitOutcome DEF Limited, Fair
<1>5. CASE /\ ~denied
           /\ busy' = [stage |-> "issue", who |-> request.who, seen |-> seen]
           /\ UNCHANGED <<limiter, answer>>
  BY <1>0, <1>1, <1>5 DEF Limited, Fair
<1>6. CASE ~denied /\ Answer(seen, "in") /\ UNCHANGED limiter
  BY <1>1, <1>6 DEF Limited, Fair, Answer, Says, Seens, Answers
<1> QED
  BY <1>2, <1>3, <1>4, <1>5, <1>6 DEF Decide

-----------------------------------------------------------------------------
(* The kinds of step there are, as far as each variable tells them apart.   *)

(* A check begins: it is decided at once or has to read the file.           *)
Begins(t, seen) ==
  /\ busy = Idle
  /\ \/ /\ ~file.there
        /\ cache' = [stamp |-> Never, ids |-> {}]
        /\ Fair(FALSE, seen)
        /\ Limited
     \/ /\ file.there
        /\ file.stamp = cache.stamp
        /\ UNCHANGED cache
        /\ Fair(t \in cache.ids, seen)
        /\ Limited
     \/ /\ file.there
        /\ file.stamp # cache.stamp
        /\ UNCHANGED <<cache, limiter, answer>>
        /\ \E request \in Requests :
             /\ request.who = t
             /\ busy' = [stage |-> "read", request |-> request,
                         stamp |-> file.stamp, seen |-> seen]
  /\ UNCHANGED <<clock, disk, length, browser>>

LEMMA AskBegins ==
  ASSUME NEW request \in Requests, busy = Idle, Ask(request),
         UNCHANGED <<clock, disk, length>>
  PROVE  Begins(request.who, Once(request.who))
<1>1. Once(request.who) \in Seens /\ request.who \in Tokens
  BY DEF Once, Seens, Listed, Requests
<1>2. CASE /\ ~file.there
           /\ cache' = [stamp |-> Never, ids |-> {}]
           /\ Decide(request, FALSE, Once(request.who))
  BY <1>1, <1>2, DecideOutcome DEF Begins
<1>3. CASE /\ file.there
           /\ file.stamp = cache.stamp
           /\ UNCHANGED cache
           /\ Decide(request, request.who \in cache.ids, Once(request.who))
  <2>1. (request.who \in cache.ids) \in BOOLEAN
    OBVIOUS
  <2>2. /\ UNCHANGED browser
        /\ Limited
        /\ Fair(request.who \in cache.ids, Once(request.who))
    BY <1>1, <1>3, <2>1, DecideOutcome
  <2> QED
    BY <1>3, <2>2 DEF Begins
<1>4. CASE /\ file.there
           /\ file.stamp # cache.stamp
           /\ busy' = [stage |-> "read", request |-> request,
                       stamp |-> file.stamp, seen |-> Once(request.who)]
           /\ UNCHANGED <<cache, limiter, browser, answer>>
  BY <1>1, <1>4 DEF Begins
<1> QED
  BY <1>2, <1>3, <1>4 DEF Ask

(* A request that does not get as far as the deny list. *)
TurnedAway ==
  /\ busy = Idle
  /\ busy' = Idle
  /\ answer' \in [is : Answers, always : BOOLEAN, ever : BOOLEAN]
  /\ answer'.is # "revoked"
  /\ answer'.always => answer'.is = "refused"
  /\ UNCHANGED <<clock, disk, cache, limiter, length, browser>>

(* The file is read, under the stamp it had before. *)
Reads ==
  /\ busy.stage = "read"
  /\ \/ /\ file.there
        /\ cache' = [stamp |-> busy.stamp, ids |-> file.ids]
        /\ Fair(busy.request.who \in file.ids, busy.seen)
        /\ Limited
     \/ /\ ~file.there
        /\ busy' = Idle
        /\ answer' = Says(busy.seen, "error")
        /\ UNCHANGED <<cache, limiter>>
  /\ UNCHANGED <<clock, disk, length, browser>>

LEMMA RequestOutcome ==
  ASSUME NEW t \in Tokens, NEW route \in Routes, Request(t, route)
  PROVE  Begins(t, Once(t)) \/ TurnedAway
<1>1. [who |-> t, route |-> route] \in Requests
  BY DEF Requests
<1>2. Once(t) \in Seens
  BY DEF Once, Seens, Listed
<1>3. CASE Verifies(t, route)
  BY <1>1, <1>3, AskBegins DEF Request
<1>4. CASE ~Verifies(t, route) /\ route = "preflight"
  <2>1. Preflight(t, FALSE, Once(t))
    BY <1>4 DEF Request
  <2> QED
    BY <1>2, <1>4, <2>1, PreflightOutcome DEF Request, TurnedAway
<1>5. CASE ~Verifies(t, route) /\ route # "preflight"
  <2>1. Answer(Once(t), "refused")
    BY <1>5 DEF Request
  <2> QED
    BY <1>2, <1>5, <2>1
    DEF Request, TurnedAway, Answer, Says, Seens, Answers
<1> QED
  BY <1>3, <1>4, <1>5

LEMMA VisitOutcome ==
  ASSUME TypeOK, Visit
  PROVE  (\E t \in Tokens : Begins(t, Once(t))) \/ TurnedAway
<1>1. CASE CookieReads
  <2>1. [who |-> cookie.who, route |-> "page"] \in Requests
    BY <1>1 DEF CookieReads, TypeOK, Requests
  <2>2. Ask([who |-> cookie.who, route |-> "page"])
    BY <1>1 DEF Visit
  <2>3. Begins(cookie.who, Once(cookie.who)) /\ cookie.who \in Tokens
    BY <2>1, <2>2, AskBegins DEF Visit, Requests
  <2> QED
    BY <2>3
<1>2. CASE ~CookieReads
  <2>1. Answer([always |-> FALSE, ever |-> FALSE], "refused")
    BY <1>2 DEF Visit
  <2>2. answer' = [is |-> "refused", always |-> FALSE, ever |-> FALSE]
    BY <2>1 DEF Answer, Says
  <2>3. UNCHANGED <<clock, disk, cache, limiter, length, browser>> /\ busy = Idle
    BY <1>2 DEF Visit
  <2>4. /\ answer' \in [is : Answers, always : BOOLEAN, ever : BOOLEAN]
        /\ answer'.is = "refused"
    BY <2>2 DEF Answers
  <2>5. busy' = Idle
    BY <2>1 DEF Answer
  <2> QED
    BY <2>3, <2>4, <2>5 DEF TurnedAway
<1> QED
  BY <1>1, <1>2

LEMMA ReadOutcome ==
  ASSUME TypeOK, ReadFile
  PROVE  Reads
<1>1. busy.request \in Requests /\ busy.seen \in Seens
  BY DEF ReadFile, TypeOK, Idle
<1>2. CASE file.there
  <2>1. (busy.request.who \in file.ids) \in BOOLEAN
    OBVIOUS
  <2>2. Decide(busy.request, busy.request.who \in file.ids, busy.seen)
    BY <1>2 DEF ReadFile
  <2>3. /\ UNCHANGED browser
        /\ Limited
        /\ Fair(busy.request.who \in file.ids, busy.seen)
    BY <1>1, <2>1, <2>2, DecideOutcome
  <2> QED
    BY <1>2, <2>3 DEF ReadFile, Reads, Reread
<1>3. CASE ~file.there
  BY <1>3 DEF ReadFile, Reads, Answer
<1> QED
  BY <1>2, <1>3

-----------------------------------------------------------------------------
(* What the limiter's window and its history of passed batches have to do   *)
(* with each other: the window is the end of the history, at most as long   *)
(* as the allowance, and what is no longer in it was forgotten at a restart *)
(* or is a minute and more ago.                                             *)

Dropped(t) == Len(passed[t]) - Len(window[t])

LimiterInv ==
  \A t \in Tokens :
    /\ Len(window[t]) <= PerMinute
    /\ Len(window[t]) <= Len(passed[t])
    /\ \A i \in 1 .. Len(window[t]) : window[t][i] = passed[t][Dropped(t) + i]
    /\ \A i \in 1 .. Dropped(t) :
         \/ \E c \in cuts[t] : i <= c
         \/ clock - passed[t][i] >= Minute
    /\ \A i \in 1 .. Len(passed[t]) : passed[t][i] <= clock
    /\ \A c \in cuts[t] : c <= Len(passed[t])

LEMMA LeftAfterPopping ==
  ASSUME NEW w \in Seq(Nat), NEW k \in 0 .. Len(w)
  PROVE  LET left == SubSeq(w, k + 1, Len(w))
         IN  /\ left \in Seq(Nat)
             /\ Len(left) = Len(w) - k
             /\ \A i \in 1 .. Len(left) : left[i] = w[k + i]
<1>1. Len(w) \in Nat /\ k \in Nat /\ k <= Len(w)
  BY LenProperties
<1>2. k + 1 \in 1 .. Len(w) + 1 /\ Len(w) \in (k + 1) - 1 .. Len(w)
  BY <1>1
<1>3. /\ SubSeq(w, k + 1, Len(w)) \in Seq(Nat)
      /\ Len(SubSeq(w, k + 1, Len(w))) = Len(w) - (k + 1) + 1
      /\ \A i \in 1 .. Len(w) - (k + 1) + 1 :
           SubSeq(w, k + 1, Len(w))[i] = w[(k + 1) + i - 1]
  BY <1>2, SubSeqProperties
<1> QED
  BY <1>1, <1>3

(* The two things the limiter can do to a token's window. *)
Turns(t, k) ==
  LET left == SubSeq(window[t], k + 1, Len(window[t]))
  IN  /\ Len(left) >= PerMinute
      /\ window' = [window EXCEPT ![t] = left]
      /\ UNCHANGED <<passed, cuts>>

Passes(t, k) ==
  LET left == SubSeq(window[t], k + 1, Len(window[t]))
  IN  /\ Len(left) < PerMinute
      /\ window' = [window EXCEPT ![t] = Append(left, clock)]
      /\ passed' = [passed EXCEPT ![t] = Append(@, clock)]
      /\ UNCHANGED cuts

LEMMA AdmitTurnsOrPasses ==
  ASSUME TypeOK, NEW t \in Tokens, NEW seen, Admit(t, seen)
  PROVE  \E k \in 0 .. Len(window[t]) :
           Popped(window[t], k) /\ (Turns(t, k) \/ Passes(t, k))
<1>1. PICK k \in 0 .. Len(window[t]) :
         LET left == SubSeq(window[t], k + 1, Len(window[t]))
         IN  /\ Popped(window[t], k)
             /\ IF Len(left) >= PerMinute
                THEN /\ window' = [window EXCEPT ![t] = left]
                     /\ UNCHANGED passed
                     /\ Answer(seen, "too many")
                ELSE /\ Len(passed[t]) < MaxPassed
                     /\ window' = [window EXCEPT ![t] = Append(left, clock)]
                     /\ passed' = [passed EXCEPT ![t] = Append(@, clock)]
                     /\ \E body \in Bodies : Answer(seen, Received(body))
  BY DEF Admit
<1>6. UNCHANGED cuts
  BY DEF Admit
<1>2. Len(SubSeq(window[t], k + 1, Len(window[t]))) \in Nat
  <2>1. window[t] \in Seq(Nat)
    BY DEF TypeOK
  <2>2. SubSeq(window[t], k + 1, Len(window[t])) \in Seq(Nat)
    BY <2>1, LeftAfterPopping
  <2> QED
    BY <2>2, LenProperties
<1>3. PerMinute \in Nat
  BY AccessAssumption
<1>4. CASE Len(SubSeq(window[t], k + 1, Len(window[t]))) >= PerMinute
  BY <1>1, <1>4, <1>6 DEF Turns
<1>5. CASE Len(SubSeq(window[t], k + 1, Len(window[t]))) < PerMinute
  <2>1. ~(Len(SubSeq(window[t], k + 1, Len(window[t]))) >= PerMinute)
    BY <1>2, <1>3, <1>5
  <2> QED
    BY <1>1, <1>5, <1>6, <2>1 DEF Passes
<1> QED
  BY <1>2, <1>3, <1>4, <1>5

LEMMA LimiterTypes ==
  ASSUME TypeOK, Limited
  PROVE  /\ window' \in [Tokens -> Seq(Nat)]
         /\ passed' \in [Tokens -> Seq(Nat)]
         /\ cuts' \in [Tokens -> SUBSET Nat]
<1>1. CASE UNCHANGED limiter
  BY <1>1 DEF limiter, TypeOK
<1>2. ASSUME NEW t \in Tokens, NEW seen \in Seens, Admit(t, seen)
      PROVE  /\ window' \in [Tokens -> Seq(Nat)]
             /\ passed' \in [Tokens -> Seq(Nat)]
             /\ cuts' \in [Tokens -> SUBSET Nat]
  <2>1. PICK k \in 0 .. Len(window[t]) : Turns(t, k) \/ Passes(t, k)
    BY <1>2, AdmitTurnsOrPasses
  <2>2. /\ window[t] \in Seq(Nat) /\ passed[t] \in Seq(Nat)
        /\ clock \in Nat
        /\ window \in [Tokens -> Seq(Nat)] /\ passed \in [Tokens -> Seq(Nat)]
        /\ cuts \in [Tokens -> SUBSET Nat]
    BY DEF TypeOK
  <2>3. SubSeq(window[t], k + 1, Len(window[t])) \in Seq(Nat)
    BY <2>2, LeftAfterPopping
  <2>4. /\ Append(SubSeq(window[t], k + 1, Len(window[t])), clock) \in Seq(Nat)
        /\ Append(passed[t], clock) \in Seq(Nat)
    BY <2>2, <2>3, AppendProperties
  <2> QED
    BY <2>1, <2>2, <2>3, <2>4 DEF Turns, Passes
<1> QED
  BY <1>1, <1>2 DEF Limited

-----------------------------------------------------------------------------
(* A check, beginning or reading the file, keeps the types. *)

LEMMA BeginsType ==
  ASSUME TypeOK, NEW t \in Tokens, Begins(t, Once(t))
  PROVE  TypeOK'
<1>1. /\ Once(t) \in Seens
      /\ UNCHANGED <<clock, file, edits, edited, shared, length, cookie,
                    signedIn>>
  BY DEF Begins, Once, Seens, Listed, disk, browser
<1>2. CASE Limited /\ \E denied : Fair(denied, Once(t))
  <2>1. cache' \in [stamp : Int, ids : SUBSET Tokens]
    <3>1. cache' = cache \/ cache' = [stamp |-> Never, ids |-> {}]
      BY DEF Begins
    <3>2. [stamp |-> Never, ids |-> {}] \in [stamp : Int, ids : SUBSET Tokens]
      BY DEF Never
    <3> QED
      BY <3>1, <3>2 DEF TypeOK
  <2>2. /\ answer' \in [is : Answers, always : BOOLEAN, ever : BOOLEAN]
        /\ \/ busy' = Idle
           \/ busy' \in [stage : {"issue"}, who : Tokens, seen : Seens]
    BY <1>1, <1>2 DEF Fair, TypeOK
  <2> QED
    BY <1>1, <1>2, <2>1, <2>2, LimiterTypes DEF TypeOK
<1>3. CASE /\ UNCHANGED <<cache, limiter, answer>>
           /\ \E request \in Requests :
                /\ request.who = t
                /\ busy' = [stage |-> "read", request |-> request,
                            stamp |-> file.stamp, seen |-> Once(t)]
  <2>1. busy' \in [stage : {"read"}, request : Requests, stamp : Int,
                   seen : Seens]
    BY <1>1, <1>3 DEF TypeOK, Files
  <2> QED
    BY <1>1, <1>3, <2>1 DEF TypeOK, limiter
<1> QED
  BY <1>2, <1>3 DEF Begins

LEMMA TurnedAwayType ==
  ASSUME TypeOK, TurnedAway
  PROVE  TypeOK'
BY DEF TypeOK, TurnedAway, disk, limiter, browser

LEMMA ReadsType ==
  ASSUME TypeOK, Reads
  PROVE  TypeOK'
<1>1. /\ busy.seen \in Seens /\ busy.stamp \in Int
      /\ UNCHANGED <<clock, file, edits, edited, shared, length, cookie,
                    signedIn>>
  BY DEF Reads, TypeOK, Idle, disk, browser
<1>2. CASE /\ cache' = [stamp |-> busy.stamp, ids |-> file.ids]
           /\ Fair(busy.request.who \in file.ids, busy.seen)
           /\ Limited
  <2>1. cache' \in [stamp : Int, ids : SUBSET Tokens]
    BY <1>1, <1>2 DEF TypeOK, Files
  <2>2. /\ answer' \in [is : Answers, always : BOOLEAN, ever : BOOLEAN]
        /\ \/ busy' = Idle
           \/ busy' \in [stage : {"issue"}, who : Tokens, seen : Seens]
    BY <1>1, <1>2 DEF Fair, TypeOK
  <2> QED
    BY <1>1, <1>2, <2>1, <2>2, LimiterTypes DEF TypeOK
<1>3. CASE /\ busy' = Idle
           /\ answer' = Says(busy.seen, "error")
           /\ UNCHANGED <<cache, limiter>>
  <2>1. answer' \in [is : Answers, always : BOOLEAN, ever : BOOLEAN]
    BY <1>1, <1>3 DEF Says, Answers, Seens
  <2> QED
    BY <1>1, <1>3, <2>1 DEF TypeOK, limiter
<1> QED
  BY <1>2, <1>3 DEF Reads

LEMMA EditType ==
  ASSUME TypeOK, EditFile
  PROVE  TypeOK'
<1>1. PICK now \in Files : Edit(now) /\ (now.there => now.stamp = clock)
  <2>1. ASSUME NEW ids \in Lists
        PROVE  [there |-> TRUE, stamp |-> clock, ids |-> ids] \in Files
    BY AccessAssumption DEF Files, TypeOK
  <2>2. [there |-> FALSE, stamp |-> Never, ids |-> {}] \in Files
    BY DEF Files, Never
  <2> QED
    BY <2>1, <2>2 DEF EditFile
<1>2. /\ file' \in Files /\ edits' \in Nat /\ edited' \in Int
      /\ shared' \in BOOLEAN
  <2>1. now.there \in BOOLEAN
    BY DEF Files
  <2> QED
    BY <1>1, <2>1 DEF Edit, TypeOK
<1>3. CASE busy.stage = "read"
  <2>1. busy \in [stage : {"read"}, request : Requests, stamp : Int,
                  seen : Seens]
    BY <1>3 DEF TypeOK, Idle
  <2>2. Seen(busy.request.who, now) \in Seens
    BY <2>1 DEF Seen, Seens, Files
  <2>3. busy' \in [stage : {"read"}, request : Requests, stamp : Int,
                   seen : Seens]
    BY <1>1, <1>3, <2>1, <2>2 DEF Edit
  <2> QED
    BY <1>1, <1>2, <2>3 DEF Edit, TypeOK, limiter, browser
<1>4. CASE busy.stage # "read"
  BY <1>1, <1>2, <1>4 DEF Edit, TypeOK, limiter, browser
<1> QED
  BY <1>3, <1>4

LEMMA IssueType ==
  ASSUME TypeOK, IssueSession
  PROVE  TypeOK'
<1>1. busy \in [stage : {"issue"}, who : Tokens, seen : Seens]
  BY DEF IssueSession, TypeOK, Idle
<1>2. /\ Claims[busy.who].expires \in Int /\ length \in Int
      /\ MaxAge \in Int /\ clock \in Nat
  BY <1>1, AccessAssumption DEF TypeOK
<1>3. cookie' \in [who : Tokens, exp : Int, until : Int]
  <2>1. clock + Later(Lifetime(busy.who), 1) \in Int
    BY <1>2 DEF Later, Lifetime, Sooner
  <2> QED
    BY <1>1, <1>2, <2>1 DEF IssueSession
<1>4. signedIn' \in [who : Tokens, at : Nat]
  BY <1>1, <1>2 DEF IssueSession
<1>5. answer' \in [is : Answers, always : BOOLEAN, ever : BOOLEAN]
  BY <1>1 DEF IssueSession, Answer, Says, Seens, Answers
<1> QED
  BY <1>3, <1>4, <1>5
  DEF IssueSession, Answer, TypeOK, disk, limiter

LEMMA TypeStep ==
  ASSUME TypeOK, [Next]_vars
  PROVE  TypeOK'
<1>1. ASSUME NEW t \in Tokens, NEW route \in Routes, Request(t, route)
      PROVE  TypeOK'
  BY <1>1, RequestOutcome, BeginsType, TurnedAwayType
<1>2. CASE Visit
  BY <1>2, VisitOutcome, BeginsType, TurnedAwayType
<1>3. CASE ReadFile
  BY <1>3, ReadOutcome, ReadsType
<1>4. CASE IssueSession
  BY <1>4, IssueType
<1>5. CASE Logout
  BY <1>5 DEF Logout, TypeOK, disk, limiter
<1>6. CASE Tick
  BY <1>6 DEF Tick, TypeOK, disk, limiter, browser
<1>7. CASE EditFile
  BY <1>7, EditType
<1>8. CASE Restart
  <2>1. <<>> \in Seq(Nat)
    BY EmptySeq
  <2>2. cuts' \in [Tokens -> SUBSET Nat]
    <3>1. \A t \in Tokens : Len(passed[t]) \in Nat
      BY LenProperties DEF TypeOK
    <3> QED
      BY <1>8, <3>1 DEF Restart, TypeOK
  <2> QED
    <3>1. /\ window' \in [Tokens -> Seq(Nat)]
          /\ passed' = passed /\ length' = length
          /\ UNCHANGED <<clock, disk, browser, answer>>
      BY <1>8, <2>1 DEF Restart
    <3>2. /\ cache' \in [stamp : Int, ids : SUBSET Tokens]
          /\ busy' = Idle
      BY <1>8 DEF Restart, Never
    <3> QED
      BY <2>2, <3>1, <3>2 DEF TypeOK, disk, browser
<1>9. CASE UNCHANGED vars
  BY <1>9 DEF vars, TypeOK, disk, limiter, browser
<1> QED
  BY <1>1, <1>2, <1>3, <1>4, <1>5, <1>6, <1>7, <1>8, <1>9 DEF Next

(* Every variable keeps its type, whatever is asked, edited or restarted.   *)
THEOREM TypeCorrect == Spec => []TypeOK
<1>1. Init => TypeOK
  <2> SUFFICES ASSUME Init PROVE TypeOK
    OBVIOUS
  <2>1. file \in Files /\ edited \in Int /\ cache \in [stamp : Int, ids : SUBSET Tokens]
    BY DEF Init, Files, Never
  <2>2. answer \in [is : Answers, always : BOOLEAN, ever : BOOLEAN]
    BY DEF Init, Answers
  <2>3. window \in [Tokens -> Seq(Nat)] /\ passed \in [Tokens -> Seq(Nat)]
    BY EmptySeq DEF Init
  <2> QED
    BY <2>1, <2>2, <2>3 DEF Init, TypeOK
<1> QED
  BY <1>1, TypeStep, PTL DEF Spec

-----------------------------------------------------------------------------
(* The limiter. *)

LEMMA TimeOnLimiter ==
  ASSUME TypeOK, LimiterInv, WindowBound, UNCHANGED limiter,
         clock' \in Nat, clock <= clock'
  PROVE  LimiterInv' /\ WindowBound'
<1>1. UNCHANGED <<window, passed, cuts>>
  BY DEF limiter
<1>2. WindowBound'
  BY <1>1 DEF WindowBound, RestartedBetween
<1>3. ASSUME NEW t \in Tokens
      PROVE  /\ \A i \in 1 .. Dropped(t) :
                  \/ \E c \in cuts[t] : i <= c
                  \/ clock' - passed[t][i] >= Minute
             /\ \A i \in 1 .. Len(passed[t]) : passed[t][i] <= clock'
  <2>1. /\ passed[t] \in Seq(Nat) /\ Len(passed[t]) \in Nat
        /\ Len(window[t]) \in Nat /\ clock \in Nat
    BY LenProperties DEF TypeOK
  <2>2. Dropped(t) <= Len(passed[t]) /\ Dropped(t) \in Int
    <3>1. \A m, n \in Nat : m - n <= m /\ m - n \in Int
      OBVIOUS
    <3> QED
      BY <2>1, <3>1 DEF Dropped
  <2>3. \A i \in 1 .. Len(passed[t]) : passed[t][i] \in Nat
    BY <2>1, ElementOfSeq
  <2>4. Minute \in Nat
    BY AccessAssumption
  <2>5. ASSUME NEW i \in 1 .. Dropped(t), ~\E c \in cuts[t] : i <= c
        PROVE  clock' - passed[t][i] >= Minute
    <3>1. i \in 1 .. Len(passed[t])
      BY <2>1, <2>2
    <3>2. passed[t][i] \in Nat /\ clock - passed[t][i] >= Minute
      BY <2>3, <2>5, <3>1 DEF LimiterInv
    <3> QED
      BY <2>1, <2>4, <3>2
  <2>6. ASSUME NEW i \in 1 .. Len(passed[t])
        PROVE  passed[t][i] <= clock'
    BY <2>1, <2>3 DEF LimiterInv
  <2> QED
    BY <2>5, <2>6
<1> QED
  BY <1>1, <1>2, <1>3 DEF LimiterInv, Dropped

(* The part of the two invariants that is about one token. *)
Sound(w, p, cut, now) ==
  /\ Len(w) <= PerMinute
  /\ Len(w) <= Len(p)
  /\ \A i \in 1 .. Len(w) : w[i] = p[(Len(p) - Len(w)) + i]
  /\ \A i \in 1 .. Len(p) - Len(w) :
       (\E c \in cut : i <= c) \/ now - p[i] >= Minute
  /\ \A i \in 1 .. Len(p) : p[i] <= now
  /\ \A c \in cut : c <= Len(p)
  /\ \A i \in 1 .. Len(p) - PerMinute :
       \/ \E c \in cut : i <= c /\ c < i + PerMinute
       \/ p[i + PerMinute] - p[i] >= Minute

LEMMA PoppingIsSound ==
  ASSUME NEW w \in Seq(Nat), NEW p \in Seq(Nat), NEW cut \in SUBSET Nat,
         clock \in Nat, Sound(w, p, cut, clock), NEW k \in 0 .. Len(w), Popped(w, k)
  PROVE  Sound(SubSeq(w, k + 1, Len(w)), p, cut, clock)
<1>1. PICK left \in Seq(Nat) : left = SubSeq(w, k + 1, Len(w))
  BY LeftAfterPopping
<1>2. /\ Len(left) = Len(w) - k
      /\ \A i \in 1 .. Len(left) : left[i] = w[k + i]
  BY <1>1, LeftAfterPopping
<1>3. Len(w) \in Nat /\ Len(p) \in Nat /\ PerMinute \in Nat /\ Minute \in Nat
  BY LenProperties, AccessAssumption
<1>4. \A i \in 1 .. Len(left) : left[i] = p[(Len(p) - Len(left)) + i]
  <2> TAKE i \in 1 .. Len(left)
  <2>1. k + i \in 1 .. Len(w)
    BY <1>2, <1>3
  <2>2. left[i] = p[(Len(p) - Len(w)) + (k + i)]
    BY <1>2, <2>1 DEF Sound
  <2>3. (Len(p) - Len(w)) + (k + i) = (Len(p) - Len(left)) + i
    BY <1>2, <1>3
  <2> QED
    BY <2>2, <2>3
<1>5. \A i \in 1 .. Len(p) - Len(left) :
        (\E c \in cut : i <= c) \/ clock - p[i] >= Minute
  <2> TAKE i \in 1 .. Len(p) - Len(left)
  <2>1. CASE i <= Len(p) - Len(w)
    BY <1>2, <1>3, <2>1 DEF Sound
  <2>2. CASE i > Len(p) - Len(w)
    <3>0. i - (Len(p) - Len(w)) \in 1 .. k
      BY <1>2, <1>3, <2>2
    <3>1. PICK j \in 1 .. k : j = i - (Len(p) - Len(w))
      BY <3>0
    <3>2. clock - w[j] >= Minute
      BY <3>1 DEF Popped, Expired
    <3>3. j \in 1 .. Len(w) /\ (Len(p) - Len(w)) + j = i
      BY <1>3, <2>2, <3>1
    <3> QED
      BY <3>2, <3>3 DEF Sound
  <2> QED
    BY <1>2, <1>3, <2>1, <2>2
<1>6. Len(left) <= PerMinute /\ Len(left) <= Len(p)
  BY <1>2, <1>3 DEF Sound
<1> QED
  BY <1>1, <1>4, <1>5, <1>6 DEF Sound

LEMMA PassingIsSound ==
  ASSUME NEW w \in Seq(Nat), NEW p \in Seq(Nat), NEW cut \in SUBSET Nat,
         clock \in Nat, Sound(w, p, cut, clock), Len(w) < PerMinute
  PROVE  Sound(Append(w, clock), Append(p, clock), cut, clock)
<1>1. PICK v \in Seq(Nat), q \in Seq(Nat) :
         v = Append(w, clock) /\ q = Append(p, clock)
  BY AppendProperties
<1>2. /\ Len(v) = Len(w) + 1 /\ v[Len(w) + 1] = clock
      /\ \A i \in 1 .. Len(w) : v[i] = w[i]
      /\ Len(q) = Len(p) + 1 /\ q[Len(p) + 1] = clock
      /\ \A i \in 1 .. Len(p) : q[i] = p[i]
  BY <1>1, AppendProperties
<1>3. PICK m \in Nat, n \in Nat, a \in Nat \ {0}, l \in Nat \ {0} :
         m = Len(w) /\ n = Len(p) /\ a = PerMinute /\ l = Minute
  BY LenProperties, AccessAssumption
<1>4. \A i \in 1 .. n : p[i] \in Nat
  BY <1>3, ElementOfSeq
<1>5. /\ m < a /\ m <= n
      /\ \A i \in 1 .. m : w[i] = p[(n - m) + i]
      /\ \A i \in 1 .. n - m : (\E c \in cut : i <= c) \/ clock - p[i] >= l
      /\ \A i \in 1 .. n : p[i] <= clock
      /\ \A c \in cut : c <= n
      /\ \A i \in 1 .. n - a :
           (\E c \in cut : i <= c /\ c < i + a) \/ p[i + a] - p[i] >= l
  BY <1>3 DEF Sound
<1>6. /\ Len(v) = m + 1 /\ v[m + 1] = clock
      /\ \A i \in 1 .. m : v[i] = w[i]
      /\ Len(q) = n + 1 /\ q[n + 1] = clock
      /\ \A i \in 1 .. n : q[i] = p[i]
  BY <1>2, <1>3
<1>7. \A i \in 1 .. m + 1 : v[i] = q[(n + 1 - (m + 1)) + i]
  <2> TAKE i \in 1 .. m + 1
  <2>1. CASE i = m + 1
    BY <1>6, <2>1
  <2>2. CASE i \in 1 .. m
    <3>1. (n - m) + i \in 1 .. n /\ (n + 1 - (m + 1)) + i = (n - m) + i
      BY <1>5, <2>2
    <3>2. v[i] = p[(n - m) + i]
      BY <1>5, <1>6, <2>2
    <3> QED
      BY <1>6, <3>1, <3>2
  <2> QED
    BY <2>1, <2>2
<1>8. \A i \in 1 .. n + 1 - (m + 1) :
        (\E c \in cut : i <= c) \/ clock - q[i] >= l
  <2> TAKE i \in 1 .. n + 1 - (m + 1)
  <2>1. i \in 1 .. n - m /\ i \in 1 .. n
    BY <1>5
  <2> QED
    BY <1>5, <1>6, <2>1
<1>9. \A i \in 1 .. n + 1 : q[i] <= clock
  <2> TAKE i \in 1 .. n + 1
  <2>1. CASE i = n + 1
    BY <1>6, <2>1
  <2>2. CASE i \in 1 .. n
    BY <1>5, <1>6, <2>2
  <2> QED
    BY <2>1, <2>2
<1>10. \A i \in 1 .. n + 1 - a :
         (\E c \in cut : i <= c /\ c < i + a) \/ q[i + a] - q[i] >= l
  <2> TAKE i \in 1 .. n + 1 - a
  <2>1. CASE i + a = n + 1
    <3>1. i \in 1 .. n - m /\ i \in 1 .. n
      BY <1>5, <2>1
    <3>2. CASE clock - p[i] >= l
      BY <1>6, <2>1, <3>1, <3>2
    <3>3. ASSUME NEW c \in cut, i <= c
          PROVE  i <= c /\ c < i + a
      BY <1>5, <2>1, <3>3
    <3> QED
      BY <1>5, <3>1, <3>2, <3>3
  <2>2. CASE i + a # n + 1
    <3>1. i \in 1 .. n - a /\ i \in 1 .. n /\ i + a \in 1 .. n
      BY <2>2
    <3> QED
      BY <1>5, <1>6, <3>1
  <2> QED
    BY <2>1, <2>2
<1>11. Len(v) = m + 1 /\ Len(q) = n + 1 /\ PerMinute = a /\ Minute = l
  BY <1>3, <1>6
<1>12. Len(v) <= PerMinute /\ Len(v) <= Len(q)
  BY <1>5, <1>11
<1>13. \A i \in 1 .. Len(v) : v[i] = q[(Len(q) - Len(v)) + i]
  <2> TAKE i \in 1 .. Len(v)
  <2>1. (n + 1 - (m + 1)) + i = (Len(q) - Len(v)) + i /\ i \in 1 .. m + 1
    BY <1>11
  <2> QED
    BY <1>7, <2>1
<1>14. \A i \in 1 .. Len(q) - Len(v) :
         (\E c \in cut : i <= c) \/ clock - q[i] >= Minute
  BY <1>8, <1>11
<1>15. \A i \in 1 .. Len(q) : q[i] <= clock
  BY <1>9, <1>11
<1>16. \A i \in 1 .. Len(q) - PerMinute :
         \/ \E c \in cut : i <= c /\ c < i + PerMinute
         \/ q[i + PerMinute] - q[i] >= Minute
  BY <1>10, <1>11
<1>17. \A c \in cut : c <= Len(q)
  BY <1>5, <1>11
<1> QED
  BY <1>1, <1>12, <1>13, <1>14, <1>15, <1>16, <1>17 DEF Sound

LEMMA NothingIsSound ==
  ASSUME NEW now
  PROVE  Sound(<<>>, <<>>, {}, now)
<1>1. Len(<<>>) = 0 /\ PerMinute \in Nat
  BY AccessAssumption
<1>2. /\ 0 <= PerMinute /\ 1 .. 0 = {} /\ 1 .. 0 - PerMinute = {}
      /\ 1 .. 0 - 0 = {}
  BY <1>1
<1> QED
  BY <1>1, <1>2 DEF Sound

(* A restart forgets all that passed, and says so. *)
LEMMA RestartingIsSound ==
  ASSUME NEW w \in Seq(Nat), NEW p \in Seq(Nat), NEW cut \in SUBSET Nat,
         NEW now, Sound(w, p, cut, now)
  PROVE  Sound(<<>>, p, cut \cup ({Len(p)} \ {0}), now)
<1>1. PICK n \in Nat : n = Len(p)
  BY LenProperties
<1>2. Len(<<>>) = 0 /\ PerMinute \in Nat \ {0} /\ n - 0 = n /\ 1 .. 0 = {}
  BY <1>1, AccessAssumption
<1>3. \A i \in 1 .. n : n \in cut \cup ({n} \ {0}) /\ i <= n
  BY <1>1
<1>4. \A i \in 1 .. n :
        (\E c \in cut \cup ({n} \ {0}) : i <= c) \/ now - p[i] >= Minute
  BY <1>3
<1>5. \A c \in cut \cup ({n} \ {0}) : c <= n
  BY <1>1 DEF Sound
<1>6. \A i \in 1 .. n - PerMinute :
        \/ \E c \in cut \cup ({n} \ {0}) : i <= c /\ c < i + PerMinute
        \/ p[i + PerMinute] - p[i] >= Minute
  BY <1>1 DEF Sound
<1>7. \A i \in 1 .. n : p[i] <= now
  BY <1>1 DEF Sound
<1>8. 0 <= PerMinute /\ 0 <= n
  BY <1>1, <1>2
<1> QED
  BY <1>1, <1>2, <1>4, <1>5, <1>6, <1>7, <1>8 DEF Sound

LEMMA SoundTokens ==
  ASSUME TypeOK
  PROVE  LimiterInv /\ WindowBound
           <=> \A t \in Tokens : Sound(window[t], passed[t], cuts[t], clock)
BY DEF LimiterInv, WindowBound, RestartedBetween, Sound, Dropped

LEMMA LimitedIsSound ==
  ASSUME TypeOK, TypeOK', LimiterInv, WindowBound, Limited, UNCHANGED clock
  PROVE  LimiterInv' /\ WindowBound'
<1>0. clock \in Nat /\ clock' = clock
  BY DEF TypeOK
<1>1. CASE UNCHANGED limiter
  BY <1>0, <1>1, TimeOnLimiter
<1>2. ASSUME NEW t \in Tokens, NEW seen \in Seens, Admit(t, seen)
      PROVE  LimiterInv' /\ WindowBound'
  <2>1. PICK k \in 0 .. Len(window[t]) :
           Popped(window[t], k) /\ (Turns(t, k) \/ Passes(t, k))
    BY <1>2, AdmitTurnsOrPasses
  <2>2. /\ window[t] \in Seq(Nat) /\ passed[t] \in Seq(Nat)
        /\ window \in [Tokens -> Seq(Nat)] /\ passed \in [Tokens -> Seq(Nat)]
        /\ cuts[t] \in SUBSET Nat
    BY DEF TypeOK
  <2>3. \A u \in Tokens : Sound(window[u], passed[u], cuts[u], clock)
    BY SoundTokens
  <2>4. PICK left \in Seq(Nat) :
           left = SubSeq(window[t], k + 1, Len(window[t]))
    BY <2>2, LeftAfterPopping
  <2>5. Sound(left, passed[t], cuts[t], clock)
    BY <1>0, <2>1, <2>2, <2>3, <2>4, PoppingIsSound
  <2>6. Sound(window'[t], passed'[t], cuts[t], clock)
    <3>1. CASE Turns(t, k)
      BY <2>2, <2>4, <2>5, <3>1 DEF Turns
    <3>2. CASE Passes(t, k)
      <4>1. Sound(Append(left, clock), Append(passed[t], clock), cuts[t],
                  clock)
        BY <1>0, <2>2, <2>4, <2>5, <3>2, PassingIsSound DEF Passes
      <4> QED
        BY <2>2, <2>4, <3>2, <4>1 DEF Passes
    <3> QED
      BY <2>1, <3>1, <3>2
  <2>7. /\ \A u \in Tokens \ {t} :
             window'[u] = window[u] /\ passed'[u] = passed[u]
        /\ cuts' = cuts
    BY <2>1, <2>2 DEF Turns, Passes
  <2>8. \A u \in Tokens : Sound(window'[u], passed'[u], cuts'[u], clock')
    BY <1>0, <2>3, <2>6, <2>7
  <2> QED
    BY <2>8 DEF LimiterInv, WindowBound, RestartedBetween, Sound,
               Dropped
<1> QED
  BY <1>1, <1>2 DEF Limited

LEMMA LimiterStep ==
  ASSUME TypeOK, TypeOK', LimiterInv, WindowBound, [Next]_vars
  PROVE  LimiterInv' /\ WindowBound'
<1>0. clock \in Nat /\ clock' \in Nat
  BY DEF TypeOK
<1>1. ASSUME NEW t \in Tokens, Begins(t, Once(t))
      PROVE  LimiterInv' /\ WindowBound'
  <2>1. clock' = clock /\ (Limited \/ UNCHANGED limiter)
    BY <1>1 DEF Begins
  <2> QED
    BY <2>1, LimitedIsSound DEF Limited
<1>2. CASE TurnedAway
  BY <1>0, <1>2, TimeOnLimiter DEF TurnedAway
<1>3. CASE ReadFile
  <2>1. clock' = clock /\ (Limited \/ UNCHANGED limiter)
    BY <1>3, ReadOutcome DEF Reads
  <2> QED
    BY <2>1, LimitedIsSound DEF Limited
<1>4. CASE IssueSession \/ Logout \/ Tick \/ EditFile \/ UNCHANGED vars
  <2>1. UNCHANGED limiter /\ (clock' = clock \/ clock' = clock + 1)
    BY <1>4 DEF IssueSession, Logout, Tick, EditFile, Edit, vars
  <2>2. clock <= clock'
    BY <1>0, <2>1
  <2> QED
    BY <1>0, <2>1, <2>2, TimeOnLimiter
<1>5. CASE Restart
  <2>1. ASSUME NEW t \in Tokens
        PROVE  /\ window'[t] = <<>> /\ passed'[t] = passed[t] /\ clock' = clock
               /\ cuts'[t] = cuts[t] \cup ({Len(passed[t])} \ {0})
    BY <1>5 DEF Restart
  <2>2. ASSUME NEW t \in Tokens
        PROVE  Sound(window'[t], passed'[t], cuts'[t], clock')
    <3>1. /\ window[t] \in Seq(Nat) /\ passed[t] \in Seq(Nat)
          /\ cuts[t] \in SUBSET Nat
      BY DEF TypeOK
    <3>2. Sound(window[t], passed[t], cuts[t], clock)
      BY SoundTokens
    <3> QED
      BY <2>1, <3>1, <3>2, RestartingIsSound
  <2> QED
    BY <2>2 DEF LimiterInv, WindowBound, RestartedBetween, Sound, Dropped
<1> QED
  BY <1>1, <1>2, <1>3, <1>4, <1>5, RequestOutcome, VisitOutcome DEF Next

(* However batches come and whatever time passes between them, no minute    *)
(* in which the process did not restart holds more of a token's than the    *)
(* limiter allows.                                                          *)
THEOREM MinutesAreBounded == Spec => []WindowBound
<1>1. Init => LimiterInv /\ WindowBound
  <2> SUFFICES ASSUME Init PROVE LimiterInv /\ WindowBound
    OBVIOUS
  <2>1. \A t \in Tokens : window[t] = <<>> /\ passed[t] = <<>> /\ cuts[t] = {}
    BY DEF Init
  <2>2. \A t \in Tokens : Sound(window[t], passed[t], cuts[t], clock)
    BY <2>1, NothingIsSound
  <2> QED
    BY <2>2 DEF LimiterInv, WindowBound, RestartedBetween, Sound, Dropped
<1> QED
  BY <1>1, TypeCorrect, LimiterStep, PTL DEF Spec

-----------------------------------------------------------------------------
(* The deny list.  While no two versions of the file have had one stamp,    *)
(* ids read under the stamp of the file are the file's, and a check in      *)
(* progress knows what the file says now.                                   *)

DenyInv ==
  /\ Never <= edited /\ edited <= clock
  /\ file.there => file.stamp <= edited /\ file.stamp \in Nat
  /\ cache.stamp <= edited
  /\ ~shared /\ file.there /\ cache.stamp = file.stamp => cache.ids = file.ids
  /\ busy.stage = "read" =>
       /\ busy.stamp <= edited
       /\ busy.seen.always => Listed(busy.request.who)
       /\ Listed(busy.request.who) => busy.seen.ever
  /\ busy.stage = "issue" => (~shared => ~busy.seen.always)
  /\ DenyListCurrent

LEMMA FairIsCurrent ==
  ASSUME NEW denied \in BOOLEAN, NEW seen \in Seens, Fair(denied, seen),
         ~shared => (seen.always => denied) /\ (denied => seen.ever),
         DenyListCurrent, UNCHANGED shared
  PROVE  /\ DenyListCurrent'
         /\ busy'.stage # "read"
         /\ busy'.stage = "issue" => (~shared' => ~busy'.seen.always)
<1>1. CASE /\ busy' = [stage |-> "issue", who |-> busy'.who, seen |-> seen]
           /\ ~denied
           /\ UNCHANGED answer
  BY <1>1 DEF DenyListCurrent
<1>2. CASE /\ busy' = Idle
           /\ answer' \in [is : Answers, always : BOOLEAN, ever : BOOLEAN]
           /\ answer'.is = "revoked" => denied /\ answer'.ever = seen.ever
           /\ answer'.always /\ answer'.is # "revoked" => ~denied /\ seen.always
  BY <1>2 DEF DenyListCurrent, Idle
<1> QED
  BY <1>1, <1>2 DEF Fair

LEMMA BeginsIsCurrent ==
  ASSUME TypeOK, DenyInv, NEW t \in Tokens, Begins(t, Once(t))
  PROVE  DenyInv'
<1>0. /\ UNCHANGED <<clock, file, edited, shared>>
      /\ Once(t) \in Seens
      /\ Once(t).always = Listed(t) /\ Once(t).ever = Listed(t)
      /\ Listed(t) <=> file.there /\ t \in file.ids
  BY DEF Begins, disk, Once, Seens, Listed
<1>1. CASE /\ ~file.there
           /\ cache' = [stamp |-> Never, ids |-> {}]
           /\ Fair(FALSE, Once(t))
  <2>1. cache'.stamp <= edited'
    BY <1>0, <1>1 DEF DenyInv
  <2> QED
    BY <1>0, <1>1, <2>1, FairIsCurrent DEF DenyInv
<1>2. CASE /\ file.there
           /\ file.stamp = cache.stamp
           /\ UNCHANGED cache
           /\ Fair(t \in cache.ids, Once(t))
  <2>1. (t \in cache.ids) \in BOOLEAN
    OBVIOUS
  <2>2. ~shared => (Once(t).always => t \in cache.ids)
                   /\ (t \in cache.ids => Once(t).ever)
    BY <1>0, <1>2 DEF DenyInv
  <2>3. /\ DenyListCurrent'
        /\ busy'.stage # "read"
        /\ busy'.stage = "issue" => (~shared' => ~busy'.seen.always)
    BY <1>0, <1>2, <2>1, <2>2, FairIsCurrent DEF DenyInv
  <2> QED
    BY <1>0, <1>2, <2>3 DEF DenyInv
<1>3. CASE /\ file.there
           /\ UNCHANGED <<cache, limiter, answer>>
           /\ \E request \in Requests :
                /\ request.who = t
                /\ busy' = [stage |-> "read", request |-> request,
                            stamp |-> file.stamp, seen |-> Once(t)]
  <2>1. /\ busy'.stage = "read" /\ busy'.stamp = file.stamp
        /\ busy'.seen = Once(t) /\ busy'.request.who = t
    BY <1>3
  <2>2. UNCHANGED <<cache, answer>>
    BY <1>3
  <2>3. DenyListCurrent'
    BY <1>0, <2>2 DEF DenyInv, DenyListCurrent
  <2>4. Listed(t)' <=> Listed(t)
    BY <1>0 DEF Listed
  <2> QED
    BY <1>0, <1>3, <2>1, <2>2, <2>3, <2>4 DEF DenyInv
<1> QED
  BY <1>1, <1>2, <1>3 DEF Begins

LEMMA ReadsIsCurrent ==
  ASSUME TypeOK, DenyInv, Reads
  PROVE  DenyInv'
<1>0. /\ UNCHANGED <<clock, file, edited, shared>>
      /\ busy.seen \in Seens /\ busy.stage = "read" /\ busy.stamp <= edited
      /\ busy.seen.always => file.there /\ busy.request.who \in file.ids
      /\ file.there /\ busy.request.who \in file.ids => busy.seen.ever
  BY DEF Reads, disk, TypeOK, Idle, DenyInv, Listed
<1>1. CASE /\ file.there
           /\ cache' = [stamp |-> busy.stamp, ids |-> file.ids]
           /\ Fair(busy.request.who \in file.ids, busy.seen)
  <2>1. (busy.request.who \in file.ids) \in BOOLEAN
    OBVIOUS
  <2>2. /\ DenyListCurrent'
        /\ busy'.stage # "read"
        /\ busy'.stage = "issue" => (~shared' => ~busy'.seen.always)
    BY <1>0, <1>1, <2>1, FairIsCurrent DEF DenyInv
  <2> QED
    BY <1>0, <1>1, <2>2 DEF DenyInv
<1>2. CASE /\ ~file.there
           /\ busy' = Idle
           /\ answer' = Says(busy.seen, "error")
           /\ UNCHANGED <<cache, limiter>>
  <2>1. answer'.is = "error"
    BY <1>2 DEF Says
  <2> QED
    BY <1>0, <1>2, <2>1 DEF DenyInv, DenyListCurrent, Idle
<1> QED
  BY <1>1, <1>2 DEF Reads

LEMMA EditIsCurrent ==
  ASSUME TypeOK, DenyInv, EditFile
  PROVE  DenyInv'
<1>1. PICK now \in Files : Edit(now) /\ (now.there => now.stamp = clock)
  <2>1. ASSUME NEW ids \in Lists
        PROVE  [there |-> TRUE, stamp |-> clock, ids |-> ids] \in Files
    BY AccessAssumption DEF Files, TypeOK
  <2>2. [there |-> FALSE, stamp |-> Never, ids |-> {}] \in Files
    BY DEF Files, Never
  <2> QED
    BY <2>1, <2>2 DEF EditFile
<1>2. /\ UNCHANGED <<clock, cache, answer>> /\ file' = now
      /\ clock \in Nat /\ edited \in Int /\ cache.stamp \in Int
      /\ edited' = IF now.there THEN clock ELSE edited
      /\ shared' = (shared \/ (now.there /\ edited = clock))
      /\ shared \in BOOLEAN /\ now.there \in BOOLEAN
  BY <1>1 DEF Edit, TypeOK, Files
<1>3. DenyListCurrent'
  BY <1>2 DEF DenyInv, DenyListCurrent
<1>4. /\ Never <= edited' /\ edited' <= clock' /\ edited <= edited'
      /\ file'.there => file'.stamp <= edited' /\ file'.stamp \in Nat
  BY <1>1, <1>2 DEF DenyInv, Never
<1>5. ~shared' /\ file'.there => edited < file'.stamp /\ ~shared
  <2> SUFFICES ASSUME ~shared', file'.there
               PROVE  edited < file'.stamp /\ ~shared
    OBVIOUS
  <2>1. ~shared /\ edited # clock
    BY <1>2
  <2>2. file'.stamp = clock /\ edited <= clock
    BY <1>1, <1>2 DEF DenyInv
  <2> QED
    BY <1>2, <2>1, <2>2
<1>6. cache'.stamp <= edited'
  BY <1>2, <1>4 DEF DenyInv
<1>7. ~shared' /\ file'.there => cache'.stamp # file'.stamp
  BY <1>2, <1>4, <1>5 DEF DenyInv
<1>8. CASE busy.stage = "read"
  <2>1. busy \in [stage : {"read"}, request : Requests, stamp : Int,
                  seen : Seens]
    BY <1>8 DEF TypeOK, Idle
  <2>2. busy' = [busy EXCEPT !.seen = Seen(busy.request.who, now)]
    BY <1>1, <1>8 DEF Edit
  <2>3. /\ busy'.stage = "read" /\ busy'.stamp = busy.stamp
        /\ busy'.request = busy.request
        /\ busy'.seen = Seen(busy.request.who, now)
    BY <2>1, <2>2
  <2>4. busy'.stamp <= edited'
    BY <1>2, <1>4, <1>8, <2>1, <2>3 DEF DenyInv
  <2>5. Listed(busy.request.who)' <=> now.there /\ busy.request.who \in now.ids
    BY <1>2, <2>3 DEF Listed
  <2>6. /\ busy'.seen.always => Listed(busy.request.who)'
        /\ Listed(busy.request.who)' => busy'.seen.ever
    <3>1. /\ busy'.seen.always =
               (busy.seen.always /\ now.there /\ busy.request.who \in now.ids)
          /\ busy'.seen.ever =
               (busy.seen.ever \/ (now.there /\ busy.request.who \in now.ids))
      BY <2>3 DEF Seen
    <3> QED
      BY <2>3, <2>5, <3>1
  <2> QED
    BY <1>3, <1>4, <1>6, <1>7, <2>3, <2>4, <2>6 DEF DenyInv
<1>9. CASE busy.stage # "read"
  <2>1. UNCHANGED busy
    BY <1>1, <1>9 DEF Edit
  <2> QED
    BY <1>2, <1>3, <1>4, <1>6, <1>7, <1>9, <2>1 DEF DenyInv
<1> QED
  BY <1>8, <1>9

LEMMA DenyStep ==
  ASSUME TypeOK, DenyInv, [Next]_vars
  PROVE  DenyInv'
<1>1. ASSUME NEW t \in Tokens, Begins(t, Once(t))
      PROVE  DenyInv'
  BY <1>1, BeginsIsCurrent
<1>2. CASE TurnedAway
  BY <1>2 DEF TurnedAway, disk, DenyInv, DenyListCurrent, Idle
<1>3. CASE ReadFile
  BY <1>3, ReadOutcome, ReadsIsCurrent
<1>4. CASE IssueSession
  <2>1. /\ UNCHANGED <<clock, file, edited, shared, cache>> /\ busy' = Idle
        /\ answer' = Says(busy.seen, "in") /\ busy.stage = "issue"
    BY <1>4 DEF IssueSession, Answer, disk
  <2>2. ~shared => ~answer'.always /\ answer'.is = "in"
    BY <2>1 DEF Says, DenyInv
  <2> QED
    BY <2>1, <2>2 DEF DenyInv, DenyListCurrent, Idle
<1>5. CASE Logout
  BY <1>5 DEF Logout, disk, DenyInv, DenyListCurrent, Listed
<1>6. CASE Tick
  <2>1. /\ UNCHANGED <<file, edited, shared, cache, busy, answer>>
        /\ clock' = clock + 1 /\ clock \in Nat /\ edited \in Int
    BY <1>6 DEF Tick, disk, TypeOK
  <2>2. edited' <= clock'
    BY <2>1 DEF DenyInv
  <2> QED
    BY <2>1, <2>2 DEF DenyInv, DenyListCurrent, Listed
<1>7. CASE EditFile
  BY <1>7, EditIsCurrent
<1>8. CASE Restart
  BY <1>8 DEF Restart, disk, DenyInv, DenyListCurrent, Idle, Never, TypeOK, Files
<1>9. CASE UNCHANGED vars
  BY <1>9 DEF vars, disk, DenyInv, DenyListCurrent, Listed
<1> QED
  BY <1>1, <1>2, <1>3, <1>4, <1>5, <1>6, <1>7, <1>8, <1>9,
     RequestOutcome, VisitOutcome DEF Next

(* While no two versions of the file shared a stamp, whoever the file named *)
(* all through a check is kept out, and nobody is it never named.           *)
THEOREM DenyListIsCurrent == Spec => []DenyListCurrent
<1>1. Init => DenyInv
  BY DEF Init, DenyInv, DenyListCurrent, Idle, Never
<1>2. DenyInv => DenyListCurrent
  BY DEF DenyInv
<1> QED
  BY <1>1, <1>2, TypeCorrect, DenyStep, PTL DEF Spec

-----------------------------------------------------------------------------
(* The cookie. *)

CookieInv ==
  /\ cookie = NoCookie => signedIn = NobodyIn
  /\ signedIn # NobodyIn =>
       /\ signedIn.who \in Tokens /\ signedIn.at \in Nat
       /\ signedIn.at <= clock
       /\ cookie.until = signedIn.at + MaxAge
       /\ cookie.exp = signedIn.at
            + Later(Sooner(length,
                           Claims[signedIn.who].expires - signedIn.at), 1)

LEMMA CookieStep ==
  ASSUME TypeOK, CookieInv, [Next]_vars
  PROVE  CookieInv'
<1>0. clock \in Nat
  BY DEF TypeOK
<1>1. CASE UNCHANGED <<browser, length>> /\ (clock' = clock \/ clock' = clock + 1)
  BY <1>0, <1>1 DEF CookieInv, browser, Later, Sooner
<1>2. CASE IssueSession
  <2>1. busy \in [stage : {"issue"}, who : Tokens, seen : Seens]
    BY <1>2 DEF IssueSession, TypeOK, Idle
  <2>2. /\ cookie' = [who |-> busy.who,
                      exp |-> clock + Later(Lifetime(busy.who), 1),
                      until |-> clock + MaxAge]
        /\ signedIn' = [who |-> busy.who, at |-> clock]
        /\ clock' = clock /\ length' = length
    BY <1>2 DEF IssueSession
  <2>3. cookie' # NoCookie
    BY <2>2 DEF NoCookie
  <2> QED
    BY <1>0, <2>1, <2>2, <2>3 DEF CookieInv, Lifetime, Later, Sooner
<1>3. CASE Logout
  BY <1>3 DEF Logout, CookieInv
<1>4. ASSUME NEW t \in Tokens, Begins(t, Once(t))
      PROVE  CookieInv'
  BY <1>1, <1>4 DEF Begins
<1>5. CASE TurnedAway
  BY <1>1, <1>5 DEF TurnedAway
<1>6. CASE ReadFile
  BY <1>1, <1>6, ReadOutcome DEF Reads
<1>7. CASE Tick \/ EditFile \/ Restart \/ UNCHANGED vars
  BY <1>1, <1>7 DEF Tick, EditFile, Edit, Restart, vars
<1> QED
  BY <1>2, <1>3, <1>4, <1>5, <1>6, <1>7, RequestOutcome, VisitOutcome DEF Next

(* Whatever SESSION_HOURS is, a sign-in lasts for it, until the token       *)
(* expires or for the browser's twelve hours, whichever is first, through   *)
(* restarts and whatever else is asked.                                     *)
THEOREM SessionsLast == Spec => []SessionLasts
<1>1. Init => CookieInv
  BY DEF Init, CookieInv
<1>2. TypeOK /\ CookieInv => SessionLasts
  <2> DEFINE ends == Sooner(signedIn.at + Sooner(length, MaxAge),
                            Claims[signedIn.who].expires)
  <2> SUFFICES ASSUME TypeOK, CookieInv, signedIn # NobodyIn
               PROVE  CookieReads <=> clock < Later(ends, signedIn.at + 1)
    BY DEF SessionLasts
  <2>1. /\ cookie # NoCookie
        /\ signedIn.who \in Tokens
        /\ cookie.until = signedIn.at + MaxAge
        /\ cookie.exp = signedIn.at
            + Later(Sooner(length,
                           Claims[signedIn.who].expires - signedIn.at), 1)
    BY DEF CookieInv
  <2>2. PICK at \in Nat, e \in Nat, c \in Nat :
          at = signedIn.at /\ e = Claims[signedIn.who].expires /\ c = clock
    BY <2>1, AccessAssumption DEF TypeOK, CookieInv
  <2>3. length \in Nat /\ MaxAge \in Nat \ {0}
    BY AccessAssumption DEF TypeOK
  <2>4. CookieReads <=>
          c < at + MaxAge /\ c < at + Later(Sooner(length, e - at), 1)
    BY <2>1, <2>2 DEF CookieReads
  <2>5. (c < at + MaxAge /\ c < at + Later(Sooner(length, e - at), 1))
          <=> c < Later(Sooner(at + Sooner(length, MaxAge), e), at + 1)
    BY <2>2, <2>3 DEF Later, Sooner
  <2> QED
    BY <2>2, <2>4, <2>5
<1> QED
  BY <1>1, <1>2, TypeCorrect, CookieStep, PTL DEF Spec
=============================================================================
