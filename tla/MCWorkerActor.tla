--------------------------- MODULE MCWorkerActor ---------------------------
(* Two local generations and one remote activation of every profile kind. *)
EXTENDS WorkerActor
=============================================================================
