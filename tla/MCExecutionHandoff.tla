------------------------- MODULE MCExecutionHandoff -------------------------
(* The handoff checked on one and on two successive bindings. *)
EXTENDS ExecutionHandoff
=============================================================================
