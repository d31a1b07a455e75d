-------------------------- MODULE OwnershipTransfer --------------------------
(***************************************************************************)
(* What the handoff of a running worker from one Runtime to its successor  *)
(* promises, with the journals, the relay and the failures left out: one   *)
(* gate over the worker's claims, one owner of its control, one Runtime it *)
(* is bound to.  The gate closes only over an idle worker, the owner and   *)
(* the binding change only behind it, ownership moves once and forward,    *)
(* and the gate opens again only when the worker is bound to its owner.    *)
(* ExecutionHandoff implements this specification.                         *)
(***************************************************************************)
VARIABLES owner, bound, gate, work

vars == <<owner, bound, gate, work>>

Init == owner = "A" /\ bound = "A" /\ gate = "open" /\ work = "idle"

Claim == gate = "open" /\ work = "idle" /\ work' = "busy" /\ UNCHANGED <<owner, bound, gate>>

Settle == work = "busy" /\ work' = "idle" /\ UNCHANGED <<owner, bound, gate>>

Close ==
  /\ gate = "open" /\ work = "idle"
  /\ gate' = "closed"
  /\ UNCHANGED <<owner, bound, work>>

Move ==
  /\ gate = "closed" /\ owner = "A" /\ bound = "A"
  /\ owner' = "B"
  /\ UNCHANGED <<bound, gate, work>>

Rebind ==
  /\ gate = "closed" /\ owner = "B"
  /\ bound' = "B"
  /\ UNCHANGED <<owner, gate, work>>

Reopen ==
  /\ gate = "closed" /\ bound = owner
  /\ gate' = "open"
  /\ UNCHANGED <<owner, bound, work>>

Next == Claim \/ Settle \/ Close \/ Move \/ Rebind \/ Reopen

Spec == Init /\ [][Next]_vars
=============================================================================
