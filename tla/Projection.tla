------------------------------ MODULE Projection ------------------------------
(***************************************************************************)
(* What one row of the sessions projection holds, as a function of the     *)
(* events stored for that session (projection.py: fold, completeness).     *)
(*                                                                         *)
(* An event is a record [sid, seq, kind, from]: the session it belongs to, *)
(* its sequence number there, its kind and, on a workshop-resume, the      *)
(* session it carries on from.  Two stored events are the same event       *)
(* exactly when they are equal, which is what the content hash decides.    *)
(* The columns kept are the ones that say how much of the session arrived, *)
(* whether it ended and what it resumed; who took it, its pages and its    *)
(* clock are functions of the same events and are left out here.           *)
(***************************************************************************)
EXTENDS Integers, FiniteSets, FiniteSetsExt

CONSTANTS
  Sessions,     \* session ids
  NoSession,    \* the empty session id
  Events        \* the events that exist, whether or not they ever arrive

Start   == "workshop-start"
Resume  == "workshop-resume"
Finish  == "workshop-finish"
Abandon == "workshop-abandon"
Other   == "other"            \* every kind the kept columns do not look at

Kinds         == {Start, Resume, Finish, Abandon, Other}
TerminalKinds == {Finish, Abandon}

EventRecord == [sid  : Sessions,
                seq  : Nat \ {0},
                kind : Kinds,
                from : Sessions \cup {NoSession}]

(* The schema wants seq >= 1; the extension numbers a session's events     *)
(* without repeating a number, and only a resume names another session.    *)
(* There is always a last event, seq being a bounded column.               *)
ASSUME EventsAssumption ==
  /\ NoSession \notin Sessions
  /\ Events \subseteq EventRecord
  /\ \A e, f \in Events : e.sid = f.sid /\ e.seq = f.seq => e = f
  /\ \A e \in Events : e.from # NoSession => e.kind = Resume
  /\ \A S \in SUBSET Events :
       S # {} => \E last \in S : \A e \in S : e.seq <= last.seq

-----------------------------------------------------------------------------
Seqs(S)      == {e.seq : e \in S}
OfKind(S, K) == {e \in S : e.kind \in K}

(* The terminal event's seq when one arrived, and never less than the      *)
(* highest seq seen.                                                       *)
Expected(S) == IF S = {} THEN 0
               ELSE Max(Seqs(S) \cup Seqs(OfKind(S, TerminalKinds)))

(* Slip: what is missing is looked for from the first seq that arrived.    *)
MissingAfterHead(S) == IF S = {} THEN {}
                       ELSE (Min(Seqs(S)) .. Expected(S)) \ Seqs(S)

(* The sequence numbers the gap ranges cover.                              *)
Missing(S) == (1 .. Expected(S)) \ Seqs(S)

Complete(S) == OfKind(S, TerminalKinds) # {} /\ Missing(S) = {}

(* Left as the last workshop-resume in seq order set it.                   *)
ResumedFrom(S) ==
  LET resumes == OfKind(S, {Resume})
  IN  IF resumes = {} THEN NoSession
      ELSE (CHOOSE e \in resumes : \A f \in resumes : f.seq <= e.seq).from

(* The columns project_session recomputes from the stored events S.        *)
Derived(S) ==
  [received    |-> Cardinality(Seqs(S)),
   expected    |-> Expected(S),
   missing     |-> Missing(S),
   complete    |-> Complete(S),
   finished    |-> OfKind(S, {Finish}) # {},
   abandoned   |-> OfKind(S, {Abandon}) # {},
   resumedFrom |-> ResumedFrom(S)]

=============================================================================
