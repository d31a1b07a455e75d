------------------------ MODULE MCServiceSupervisor ------------------------
(* Two services: one with a readiness file that is always restarted, one    *)
(* without that is restarted on failure.                                    *)
EXTENDS ServiceSupervisor

CONSTANTS chat, batch

Restarts == [s \in Service |-> IF s = chat THEN "always" ELSE "on-failure"]
Readiness == [s \in Service |-> s = chat]

============================================================================
