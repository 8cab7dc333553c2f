------------------------------ MODULE MC_LiveView ------------------------------
(***************************************************************************)
(* One session that two threads store batches of, and a page that may have *)
(* two loads in flight: deltas can cross each other and a snapshot, and a  *)
(* snapshot a newer one.                                                   *)
(***************************************************************************)
EXTENDS LiveView

CONSTANTS s1, w1, w2, l1, l2

OneSession == {s1}
OneWorker  == {w1}
TwoWorkers == {w1, w2}
OneLoad    == {l1}
TwoLoads   == {l1, l2}
=============================================================================
