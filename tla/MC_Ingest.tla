------------------------------ MODULE MC_Ingest ------------------------------
(***************************************************************************)
(* Two sessions for TLC: s1 runs to its finish over three events, and s2   *)
(* resumes it.  The batches split and mix their events every way that      *)
(* matters: in order, late, overlapping, both sessions in one batch, with  *)
(* a line to refuse, past max_batch, and one imported file of two tokens.  *)
(***************************************************************************)
EXTENDS Ingest, TLC

CONSTANTS s1, s2, t1, t2

Ev(s, n, k, f) == [sid |-> s, seq |-> n, kind |-> k, from |-> f]

a1 == Ev(s1, 1, Start, NoSession)
a2 == Ev(s1, 2, Other, NoSession)
a3 == Ev(s1, 3, Finish, NoSession)
b1 == Ev(s2, 1, Resume, s1)
b2 == Ev(s2, 2, Other, NoSession)

MCEvents == {a1, a2, a3, b1, b2}

L(e, t) == [ev |-> e, token |-> t]

MCBatches ==
  {<<L(a1, t1), L(a2, t1)>>,
   <<L(a3, t1)>>,
   <<L(a2, t2), L(Malformed, t2), L(a3, t2)>>,
   <<L(b1, t1), L(a1, t1), L(b2, t1), L(a2, t1)>>,
   <<L(b1, t1), L(a3, t2), L(b2, t2)>>,
   <<L(b1, NoToken)>>}

OneTokenBatches == {<<L(a1, t1), L(a2, t1)>>, <<L(b1, t1)>>}

Threads == Permutations(Workers)

InOrder   == (s1 :> 1) @@ (s2 :> 2)
Backwards == (s1 :> 2) @@ (s2 :> 1)
=============================================================================
