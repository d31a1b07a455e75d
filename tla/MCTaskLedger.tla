---------------------------- MODULE MCTaskLedger ----------------------------
(* Instances of TaskLedger for TLC. *)
EXTENDS TaskLedger

Plain(c, keys) ==
  [capability |-> c, keys |-> keys, external |-> FALSE, delegates |-> FALSE, preds |-> {}]
External(c, keys) == [Plain(c, keys) EXCEPT !.external = TRUE]
Delegating(q) == [q EXCEPT !.delegates = TRUE]

AllOffers == [e \in Executor |-> Capability]
TwoSlots == [e \in Executor |-> 2]

(* Local and external tasks, of which all but an external first task need   *)
(* the same resource key.                                                   *)
LeaseRequests ==
  <<{Plain("local", {"gpu"}), External("remote", {})},
    {Plain("local", {"gpu"}), External("remote", {"gpu"})}>>

(* Task 1 is a local or external parent that may delegate to 2 and 3, or    *)
(* with 2 a predecessor of the continuation 3.                              *)
FamilyRequests ==
  <<{Delegating(Plain("parent", {})), Delegating(External("parent", {})), Plain("work", {})},
    {Plain("work", {})},
    {[Plain("join", {}) EXCEPT !.preds = {1, 2}]}>>
FamilyChildren == {Plain("child", {}), External("child", {})}
=============================================================================
