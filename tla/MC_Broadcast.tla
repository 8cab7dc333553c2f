----------------------------- MODULE MC_Broadcast -----------------------------
(***************************************************************************)
(* Two streams with queues of one, a publishing thread and two deltas:     *)
(* enough for a queue to fill, for a stream to open between two deltas and *)
(* for close() to meet a publisher half way through its listeners.         *)
(***************************************************************************)
EXTENDS Broadcast

CONSTANTS x, y, p

MCStreams    == {x, y}
MCPublishers == {p}
=============================================================================
