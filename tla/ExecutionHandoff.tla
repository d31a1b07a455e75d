--------------------------- MODULE ExecutionHandoff ---------------------------
(***************************************************************************)
(* The handoff of a running local worker from Runtime A to its successor   *)
(* B without stopping it: HandoffJournal, RelayHandoffEndpoint and the     *)
(* relay's control loop, the split commit of the relay's custody, the      *)
(* canonical claim fence and the daemon methods that hold and release it.  *)
(*                                                                         *)
(* Every command is journalled as pending by the Runtime, then by the      *)
(* relay, executed by the host, and finished in the reverse order.  A      *)
(* pending entry is never executed again.  The host, its journal and the   *)
(* processes that select a successor are external.                         *)
(***************************************************************************)
EXTENDS Naturals

CONSTANT MaxHandoffs    \* bound: handoffs (bindings) attempted

ASSUME HandoffsAssumption == MaxHandoffs \in Nat \ {0}

VARIABLES
  alive,      \* the Runtime processes that are running
  realm,      \* the Runtime that has the realm open
  work,       \* "busy" while the worker holds a claimed attempt
  fence,      \* local-execution-claim-fence.json
  ledger,     \* the actor the relay's custody designates
  rj, yj,     \* runtime-handoff-state.json, relay-handoff-state.json
  writer,     \* writer_incarnation of the runtime journal
  transfer,   \* its writer_transfer: "none", "prepared" or "committed"
  host,       \* the host's phase, binding and last durable outcome
  call,       \* per Runtime: the command its launcher has in progress
  busy,       \* the request the relay is serving
  chan,       \* the Runtimes whose control channel the relay holds
  listener,   \* the handoff whose successor listener is open, or 0
  adopted,    \* the handoff whose control B retains, or 0
  armed,      \* the failure monitor's binding and whether its deadline is set
  expired,    \* the handoffs whose deadline has passed
  stream,     \* the relay's host channel: "idle" or "failed"
  relay       \* "serving" or "failed"

jvars == <<rj, yj, writer, transfer>>
hvars == <<host, stream, armed>>
cvars == <<chan, listener, adopted>>
vars == <<alive, realm, work, fence, ledger, jvars, hvars, cvars, call, busy, expired, relay>>

Runtimes == {"A", "B"}
Handoffs == 1..MaxHandoffs

\* PHASES: the phase a command starts from and the one it reaches.
Before ==
  [prepare |-> "owned", export |-> "host_paused", adopt |-> "export_sealed",
   commit |-> "adopt_prepared", resume_prepare |-> "rebind_committed",
   resume_commit |-> "resume_armed", finalize |-> "resumed", abort |-> "host_paused"]

After ==
  [prepare |-> "host_paused", export |-> "export_sealed", adopt |-> "adopt_prepared",
   commit |-> "rebind_committed", resume_prepare |-> "resume_armed",
   resume_commit |-> "resumed", finalize |-> "finalized", abort |-> "owned"]

Commands == DOMAIN Before
SourceCommands == {"prepare", "export", "abort"}
SuccessorCommands == Commands \ SourceCommands

Outcomes == {"ok", "active_work", "unresolved"}
NoCall == [at |-> "idle", h |-> 0, c |-> "none", reply |-> "none"]
NoRequest == [at |-> "idle", r |-> "A", h |-> 0, c |-> "none", reply |-> "none"]
NoFence == [state |-> "none", h |-> 0, ack |-> <<0, "none">>]
NoJournal == [phase |-> "owned", h |-> 0, entry |-> [k \in Handoffs \X Commands |-> "none"]]

Init ==
  /\ alive = Runtimes /\ realm = "A" /\ work = "idle"
  /\ fence = NoFence /\ ledger = "A"
  /\ rj = NoJournal /\ yj = NoJournal
  /\ writer = "A" /\ transfer = "none"
  /\ host = [phase |-> "owned", h |-> 0, bound |-> "A", last |-> <<0, "none">>]
  /\ call = [r \in Runtimes |-> NoCall] /\ busy = NoRequest
  /\ chan = {"A"} /\ listener = 0 /\ adopted = 0
  /\ armed = [h |-> 0, on |-> FALSE] /\ expired = {}
  /\ stream = "idle" /\ relay = "serving"

-----------------------------------------------------------------------------
(* HandoffJournal. *)

Pending(j, h, c) == j.entry[<<h, c>>] = "pending"
Replied(j, h, c) == j.entry[<<h, c>>] \in Outcomes
Acked(j, h, c) == j.entry[<<h, c>>] = "ok"

\* The journal's current handoff ended without leaving phase "owned".
Terminal(j) ==
  /\ j.h \in Handoffs
  /\ \A c \in Commands : ~Pending(j, j.h, c)
  /\ Acked(j, j.h, "abort") \/ \E c \in Commands : j.entry[<<j.h, c>>] = "active_work"

\* begin(), for a command without an entry.
Admits(j, h, c) ==
  /\ j.entry[<<h, c>>] = "none"
  /\ j.h \in {0, h} \/ (j.phase = "owned" /\ Terminal(j))
  /\ h \notin expired
  /\ j.phase = Before[c]

Begun(j, h, c) ==
  [phase |-> j.phase, h |-> h, entry |-> [j.entry EXCEPT ![<<h, c>>] = "pending"]]

\* finish(): a success moves the phase, also when it repeats an older one.
Finishes(j, h, c, reply) ==
  /\ j.entry[<<h, c>>] \in {"pending", reply}
  /\ (c = "export" /\ reply = "ok") => Acked(j, h, "prepare")

Finished(j, h, c, reply) ==
  [phase |-> IF reply = "ok" THEN After[c] ELSE j.phase, h |-> j.h,
   entry |-> [j.entry EXCEPT ![<<h, c>>] = reply]]

-----------------------------------------------------------------------------
(* The Runtimes: the worker's claims, the realm, crashes. *)

Held(h) == fence.state = "held" /\ fence.h = h

\* claim_next for the worker's actor, refused while the fence is held; the
\* request of a host that has paused since may still arrive.
Claim ==
  /\ realm = host.bound /\ host.phase # "gone" /\ work = "idle"
  /\ fence.state # "held"
  /\ work' = "busy"
  /\ UNCHANGED <<alive, realm, fence, ledger, jvars, hvars, cvars, call, busy, expired, relay>>

Settle ==
  /\ work = "busy" /\ work' = "idle"
  /\ UNCHANGED <<alive, realm, fence, ledger, jvars, hvars, cvars, call, busy, expired, relay>>

\* A stops serving the sealed realm and keeps its process and descriptor.
Yield ==
  /\ realm = "A" /\ rj.phase = "export_sealed" /\ call["A"] = NoCall
  /\ realm' = "none"
  /\ UNCHANGED <<alive, work, fence, ledger, jvars, hvars, cvars, call, busy, expired, relay>>

OpenSuccessor ==
  /\ realm = "none" /\ "B" \in alive
  /\ realm' = "B"
  /\ UNCHANGED <<alive, work, fence, ledger, jvars, hvars, cvars, call, busy, expired, relay>>

Crash(r) ==
  /\ r \in alive
  /\ alive' = alive \ {r}
  /\ realm' = IF realm = r THEN "none" ELSE realm
  /\ call' = [call EXCEPT ![r] = NoCall]
  /\ adopted' = IF r = "B" THEN 0 ELSE adopted
  /\ UNCHANGED <<work, fence, ledger, jvars, hvars, chan, listener, busy, expired, relay>>

\* Time passes the deadline of a binding; a later binding has a later one.
Expire(h) ==
  /\ h \notin expired /\ \A k \in Handoffs : k < h => k \in expired
  /\ expired' = expired \cup {h}
  /\ UNCHANGED <<alive, realm, work, fence, ledger, jvars, hvars, cvars, call, busy, relay>>

-----------------------------------------------------------------------------
(* A Runtime's side of a command. *)

\* The source's launcher still retains the worker it activated.
Retained == "A" \in alive /\ ledger = "A"

\* The successor's launcher has adopted the control of this handoff.
Adopted(h) == "B" \in alive /\ ledger = "B" /\ adopted = h

Owns(r, h) == IF r = "A" THEN Retained ELSE Adopted(h)

\* What forward_local_execution_handoff asks before the host may open.
Finalizable(r, h) ==
  /\ r = "B" /\ fence.state # "none" /\ fence.h = h
  /\ Acked(rj, h, IF rj.phase = "finalized" THEN "finalize" ELSE "resume_commit")
  /\ host.bound = "B"

\* retained_handoff_command: an answered command is replayed from the journal,
\* a pending one refused, a new one journalled and sent to the relay.
Send(r, h, c) ==
  /\ call[r] = NoCall /\ realm = r /\ Owns(r, h) /\ writer = r
  /\ c = "finalize" => Finalizable(r, h)
  /\ \/ /\ Replied(rj, h, c)
        /\ call' = [call EXCEPT ![r] =
                      [at |-> "done", h |-> h, c |-> c, reply |-> rj.entry[<<h, c>>]]]
        /\ UNCHANGED rj
     \/ /\ Admits(rj, h, c)
        /\ rj' = Begun(rj, h, c)
        /\ call' = [call EXCEPT ![r] = [at |-> "sent", h |-> h, c |-> c, reply |-> "none"]]
  /\ UNCHANGED <<alive, realm, work, fence, ledger, yj, writer, transfer, hvars, cvars, busy, expired, relay>>

\* The relay's outcome is journalled, unless the Runtime lost its ownership.
Conclude(r) ==
  /\ call[r].at = "answered"
  /\ LET h == call[r].h
         c == call[r].c
         reply == call[r].reply
         ok == reply \in Outcomes /\ Owns(r, h) /\ writer = r /\ Finishes(rj, h, c, reply)
     IN /\ rj' = IF ok THEN Finished(rj, h, c, reply) ELSE rj
        /\ call' = [call EXCEPT ![r] = IF ok THEN [at |-> "done", h |-> h, c |-> c, reply |-> reply]
                                             ELSE NoCall]
  /\ UNCHANGED <<alive, realm, work, fence, ledger, yj, writer, transfer, hvars, cvars, busy, expired, relay>>

\* connect_fresh_successor: the relay listens for exactly this successor.
Connectable(h) == relay = "serving" /\ listener = h

\* adopt_local_execution_handoff: behind the held fence B connects afresh.
AdoptFresh(h) ==
  /\ call["B"] = NoCall /\ realm = "B" /\ Held(h)
  /\ Connectable(h)
  /\ chan' = chan \cup {"B"} /\ adopted' = h
  /\ call' = [call EXCEPT !["B"] = [at |-> "fresh", h |-> h, c |-> "adopt", reply |-> "none"]]
  /\ UNCHANGED <<alive, realm, work, fence, ledger, jvars, hvars, listener, busy, expired, relay>>

\* adopt_retained_handoff after the exchange; a pending entry of an earlier
\* attempt is taken over, any other is begun first.
AdoptBegin ==
  /\ call["B"].at = "fresh_answered" /\ call["B"].reply = "ok"
  /\ Owns("B", call["B"].h) /\ writer = "B" /\ Admits(rj, call["B"].h, "adopt")
  /\ rj' = Begun(rj, call["B"].h, "adopt")
  /\ UNCHANGED <<alive, realm, work, fence, ledger, yj, writer, transfer, hvars, cvars, call, busy, expired, relay>>

AdoptFinish ==
  /\ call["B"].at = "fresh_answered" /\ call["B"].reply = "ok"
  /\ Owns("B", call["B"].h) /\ writer = "B"
  /\ rj.entry[<<call["B"].h, "adopt">>] \in {"pending", "ok"}
  /\ rj' = Finished(rj, call["B"].h, "adopt", "ok")
  /\ call' = [call EXCEPT !["B"] = NoCall]
  /\ UNCHANGED <<alive, realm, work, fence, ledger, yj, writer, transfer, hvars, cvars, busy, expired, relay>>

\* A lost reply, a timeout or a refused adoption: the entry stays pending.
Drop(r) ==
  /\ call[r].at \in {"sent", "fresh", "fresh_answered"}
  /\ call' = [call EXCEPT ![r] = NoCall]
  /\ UNCHANGED <<alive, realm, work, fence, ledger, jvars, hvars, cvars, busy, expired, relay>>

-----------------------------------------------------------------------------
(* The canonical claim fence: what a concluded command does to it. *)

Done(r, c) == call[r].at = "done" /\ call[r].c = c /\ call[r].reply = "ok"

\* Mutant: the fence is published without the no-work check.
HoldableBusy(h) == fence.state # "held" /\ fence.h # h

\* hold_local_execution_claims and hold_local_claim_fence: a replay of a
\* released handoff does not hold again, a worker with work is not fenced.
Holdable(h) == fence.state # "held" /\ fence.h # h /\ work = "idle"

HoldFence(r) ==
  /\ Done(r, "prepare")
  /\ fence' = IF Holdable(call[r].h)
                 THEN [state |-> "held", h |-> call[r].h, ack |-> <<0, "none">>]
                 ELSE fence
  /\ call' = [call EXCEPT ![r] = NoCall]
  /\ UNCHANGED <<alive, realm, work, ledger, jvars, hvars, cvars, busy, expired, relay>>

\* verify_ack of a rollback: the relay's journal shows exactly this abort.
AbortProven(h) == yj.phase = "owned" /\ yj.h = h /\ Acked(yj, h, "abort")

\* _verify_local_finalization_outcome: host, relay and Runtime journals, the
\* custody ledger, the writer transfer and the registration agree.
FinalProven(h) ==
  /\ "B" \in alive /\ adopted = h /\ ledger = "B"
  /\ host.last = <<h, "finalize">> /\ host.bound = "B"
  /\ \A j \in {rj, yj} : j.phase = "finalized" /\ j.h = h /\ Acked(j, h, "finalize")
  /\ writer = "B" /\ transfer = "committed"
  /\ work = "idle"

ReleaseFence(r, c) ==
  /\ Done(r, c) /\ c \in {"abort", "finalize"}
  /\ LET h == call[r].h
         proven == IF c = "abort" THEN AbortProven(h) ELSE fence.h = h /\ FinalProven(h)
     IN fence' = IF fence.state = "held" /\ proven
                   THEN [state |-> "released", h |-> fence.h, ack |-> <<h, c>>]
                   ELSE fence
  /\ call' = [call EXCEPT ![r] = NoCall]
  /\ UNCHANGED <<alive, realm, work, ledger, jvars, hvars, cvars, busy, expired, relay>>

Return(r) ==
  /\ call[r].at = "done"
  /\ call[r].reply # "ok" \/ call[r].c \notin {"prepare", "abort", "finalize"}
  /\ call' = [call EXCEPT ![r] = NoCall]
  /\ UNCHANGED <<alive, realm, work, fence, ledger, jvars, hvars, cvars, busy, expired, relay>>

-----------------------------------------------------------------------------
(* The relay. *)

\* verify_binding for the retained source, verify_successor for a fresh peer.
Source == "A" \in alive
Fresh == ledger \in alive
Recognized(r) == IF r = "A" THEN Source ELSE Fresh

\* A reply reaches the Runtime unless it gave the command up meanwhile.
Answered(r, h, c, reply) ==
  IF call[r].at \in {"sent", "fresh"} /\ call[r].h = h /\ call[r].c = c
    THEN [call EXCEPT ![r] =
            [at |-> IF call[r].at = "sent" THEN "answered" ELSE "fresh_answered",
             h |-> h, c |-> c, reply |-> reply]]
    ELSE call

\* Mutant: the deadline is armed by the export, not by the pause.
MonitoredLate(h, reply, phase) ==
  IF reply # "ok" \/ phase = "host_paused" THEN armed
  ELSE IF phase = "owned" THEN [h |-> 0, on |-> FALSE]
  ELSE [h |-> h, on |-> phase # "finalized"]

\* _RelayFailureMonitor.accepted: the first accepted command arms the
\* deadline, a return to "owned" or a finalization disarms it.
Monitored(h, reply, phase) ==
  LET on == IF armed.h = 0 THEN [h |-> h, on |-> TRUE] ELSE armed
  IN IF reply # "ok" THEN armed
     ELSE IF on.h # h THEN on
     ELSE IF phase = "owned" THEN [h |-> 0, on |-> FALSE]
     ELSE IF phase = "finalized" THEN [on EXCEPT !.on = FALSE]
     ELSE on

\* on_export: the fresh successor's listener.
Listening(h, c, reply) == IF c = "export" /\ reply = "ok" /\ listener = 0 THEN h ELSE listener

\* Requests serve_control refuses without asking the endpoint: after the
\* launch's abort, and new ones over a failed stream or past their deadline.
Refused(h, c) ==
  \/ host.phase = "gone"
  \/ /\ ~(yj.phase = "owned" /\ Replied(yj, h, c))
     /\ stream = "failed" \/ (armed.h = 0 /\ yj.phase # "finalized" /\ h \in expired)

\* serve_control looks at the deadline before it takes a request.
Overdue == armed.on /\ armed.h \in expired

Receivable(r) ==
  /\ relay = "serving" /\ busy = NoRequest /\ ~Overdue
  /\ r \in chan /\ call[r].at \in {"sent", "fresh"}

\* The endpoint answers at once: a refusal, a command this peer may not give,
\* a pending entry, or the durable reply of an earlier delivery.
Reply(r) ==
  /\ Receivable(r)
  /\ LET h == call[r].h
         c == call[r].c
         permitted == Recognized(r) /\ ~(r = "A" /\ c \in SuccessorCommands)
         replay == permitted /\ Replied(yj, h, c)
         reply == IF Refused(h, c) THEN "refused"
                  ELSE IF replay THEN yj.entry[<<h, c>>] ELSE "unresolved"
     IN /\ \/ Refused(h, c) \/ ~permitted \/ replay \/ Pending(yj, h, c)
           \/ (r = "A" /\ ledger # "A") \/ (r = "B" /\ c \in SourceCommands)
        /\ call' = Answered(r, h, c, reply)
        /\ listener' = Listening(h, c, reply)
        /\ armed' = IF reply = "refused" \/ yj.phase = "owned" THEN armed
                      ELSE Monitored(h, reply, yj.phase)
  /\ UNCHANGED <<alive, realm, work, fence, ledger, jvars, host, stream, chan, adopted, busy, expired, relay>>

\* A command to execute; an adoption first moves the relay's custody.
Receive(r) ==
  /\ Receivable(r)
  /\ LET h == call[r].h
         c == call[r].c
     IN /\ ~Refused(h, c) /\ Recognized(r) /\ yj.entry[<<h, c>>] = "none"
        /\ IF r = "A" THEN c \in SourceCommands /\ ledger = "A" ELSE c \in SuccessorCommands
        /\ busy' = [at |-> IF c = "adopt" THEN "transfer" ELSE "admit",
                    r |-> r, h |-> h, c |-> c, reply |-> "none"]
  /\ UNCHANGED <<alive, realm, work, fence, ledger, jvars, hvars, cvars, call, expired, relay>>

\* prepare_writer_transfer: the durable intent, once the export is sealed.
PrepareWriter == writer = "A" /\ rj.phase = "export_sealed" /\ transfer' = "prepared"

\* Mutant: the journal's writer changes with the intent, before the ledger.
TransferPrepareEager ==
  /\ busy.at = "transfer" /\ Held(busy.h)
  /\ rj.h = busy.h /\ Acked(rj, busy.h, "export")
  /\ ledger = "A" /\ busy.h \notin expired /\ alive = Runtimes /\ writer = "A"
  /\ transfer' = "committed" /\ writer' = "B"
  /\ busy' = [busy EXCEPT !.at = "move"]
  /\ UNCHANGED <<alive, realm, work, fence, ledger, rj, yj, hvars, cvars, call, expired, relay>>

\* transfer_relay_to_successor up to the durable intent.
TransferPrepare ==
  /\ busy.at = "transfer" /\ Held(busy.h)
  /\ rj.h = busy.h /\ Acked(rj, busy.h, "export")
  /\ \/ /\ ledger = "A" /\ busy.h \notin expired
        /\ alive = Runtimes
        /\ PrepareWriter
        /\ busy' = [busy EXCEPT !.at = "move"]
     \/ /\ ledger = "B"
        /\ busy' = [busy EXCEPT !.at = "reconcile"]
        /\ UNCHANGED transfer
  /\ UNCHANGED <<alive, realm, work, fence, ledger, rj, yj, writer, hvars, cvars, call, expired, relay>>

\* RoleCustodyAuthority.transfer of the relay's role.
TransferMove ==
  /\ busy.at = "move" /\ alive = Runtimes
  /\ ledger' = "B"
  /\ busy' = [busy EXCEPT !.at = "reconcile"]
  /\ UNCHANGED <<alive, realm, work, fence, jvars, hvars, cvars, call, expired, relay>>

\* committed_relay_transfer: the ledger, not a supplied acknowledgement.
Committed == "B" \in alive /\ ledger = "B"

\* reconcile_writer_transfer: the journal follows the committed ledger.
TransferReconcile ==
  /\ busy.at = "reconcile" /\ Committed /\ transfer # "none"
  /\ writer' = "B" /\ transfer' = "committed"
  /\ busy' = [busy EXCEPT !.at = "admit"]
  /\ UNCHANGED <<alive, realm, work, fence, ledger, rj, yj, hvars, cvars, call, expired, relay>>

\* The relay journals the command, behind the held fence unless it pauses.
RelayBegin ==
  /\ busy.at = "admit"
  /\ busy.c # "prepare" => Held(busy.h)
  /\ Admits(yj, busy.h, busy.c)
  /\ yj' = Begun(yj, busy.h, busy.c)
  /\ busy' = [busy EXCEPT !.at = "begun"]
  /\ UNCHANGED <<alive, realm, work, fence, ledger, rj, writer, transfer, hvars, cvars, call, expired, relay>>

\* A check or a protected write before the host exchange failed.
RelayRefuse ==
  /\ busy.at \in {"transfer", "move", "reconcile", "admit"}
  /\ call' = Answered(busy.r, busy.h, busy.c, "unresolved")
  /\ busy' = NoRequest
  /\ UNCHANGED <<alive, realm, work, fence, ledger, jvars, hvars, cvars, expired, relay>>

HostReplies(reply) ==
  [at |-> "replied", r |-> busy.r, h |-> busy.h, c |-> busy.c, reply |-> reply]

\* The host executes the command: it pauses idle work only as far as it
\* knows, and a commit registers it with the successor.
HostDo ==
  /\ busy.at = "begun"
  /\ \/ /\ host.phase = Before[busy.c] /\ (busy.c = "prepare" \/ host.h = busy.h)
        /\ busy.c = "commit" => realm = "B"
        /\ host' = [phase |-> After[busy.c], h |-> busy.h,
                    bound |-> IF busy.c = "commit" THEN "B" ELSE host.bound,
                    last |-> <<busy.h, busy.c>>]
        /\ busy' = HostReplies("ok")
     \/ /\ busy' = HostReplies(IF busy.c = "prepare" /\ work = "busy"
                                  THEN "active_work" ELSE "unresolved")
        /\ UNCHANGED host
  /\ UNCHANGED <<alive, realm, work, fence, ledger, jvars, stream, armed, cvars, call, expired, relay>>

\* Mutant: a lost exchange is answered as if the host had acknowledged it.
HostLostAcked ==
  /\ busy.at \in {"begun", "replied"}
  /\ stream' = "failed"
  /\ call' = Answered(busy.r, busy.h, busy.c, "ok")
  /\ busy' = NoRequest
  /\ UNCHANGED <<alive, realm, work, fence, ledger, jvars, host, armed, cvars, expired, relay>>

\* _host_call fails or times out, before or after the host acted: the entry
\* stays pending and the stream is not used again.
HostLost ==
  /\ busy.at \in {"begun", "replied"}
  /\ stream' = "failed"
  /\ call' = Answered(busy.r, busy.h, busy.c, "refused")
  /\ busy' = NoRequest
  /\ UNCHANGED <<alive, realm, work, fence, ledger, jvars, host, armed, cvars, expired, relay>>

\* The identities and the fence are verified again before the reply counts.
RelayFinish ==
  /\ busy.at = "replied"
  /\ LET h == busy.h
         c == busy.c
         sound == Recognized(busy.r) /\ (c # "prepare" => Held(h))
         next == Finished(yj, h, c, busy.reply)
     IN IF sound
          THEN /\ yj' = next
               /\ listener' = Listening(h, c, busy.reply)
               /\ armed' = Monitored(h, busy.reply, next.phase)
               /\ call' = Answered(busy.r, h, c, busy.reply)
               /\ UNCHANGED stream
          ELSE /\ stream' = "failed"
               /\ call' = Answered(busy.r, h, c, "unresolved")
               /\ UNCHANGED <<yj, listener, armed>>
  /\ busy' = NoRequest
  /\ UNCHANGED <<alive, realm, work, fence, ledger, rj, writer, transfer, host, chan, adopted, expired, relay>>

\* The launch's abort command: only from the designated owner, and from the
\* source only until its export.
RelayAbort(r) ==
  /\ relay = "serving" /\ busy = NoRequest /\ ~Overdue
  /\ r \in chan \cap alive /\ ledger = r /\ call[r] = NoCall
  /\ r = "A" => yj.phase \in {"owned", "host_paused"}
  /\ stream = "idle" /\ host.phase # "gone"
  /\ host' = [host EXCEPT !.phase = "gone"]
  /\ armed' = [armed EXCEPT !.on = FALSE]
  /\ UNCHANGED <<alive, realm, work, fence, ledger, jvars, stream, cvars, call, busy, expired, relay>>

\* _fail_supervision: the channels close and the host is asked to clean up
\* when its stream can still be trusted; the relay exits.
FailSupervision(cleanup) ==
  /\ relay' = "failed" /\ chan' = {} /\ listener' = 0 /\ busy' = NoRequest
  /\ \/ UNCHANGED host
     \/ cleanup /\ stream = "idle" /\ host' = [host EXCEPT !.phase = "gone"]

RelayExpire ==
  /\ relay = "serving" /\ Overdue
  /\ busy.at \in {"idle", "begun", "replied"}
  /\ FailSupervision(busy.at = "idle")
  /\ UNCHANGED <<alive, realm, work, fence, ledger, jvars, stream, armed, adopted, call, expired>>

\* lose_control: the last channel of a relay without a listener ends it.
LoseControl(r) ==
  /\ relay = "serving" /\ busy = NoRequest /\ r \in chan \ alive
  /\ IF chan = {r} /\ listener = 0
       THEN FailSupervision(TRUE)
       ELSE chan' = chan \ {r} /\ UNCHANGED <<listener, busy, relay, host>>
  /\ UNCHANGED <<alive, realm, work, fence, ledger, jvars, stream, armed, adopted, call, expired>>

-----------------------------------------------------------------------------
RuntimeStep(r) ==
  \/ \E h \in Handoffs, c \in Commands : Send(r, h, c)
  \/ Conclude(r) \/ HoldFence(r) \/ ReleaseFence(r, "abort") \/ ReleaseFence(r, "finalize")
  \/ Return(r) \/ Drop(r) \/ Crash(r)

RelayServe ==
  \/ \E r \in Runtimes : Reply(r) \/ Receive(r)
  \/ TransferPrepare \/ TransferMove \/ TransferReconcile \/ RelayBegin \/ RelayRefuse
  \/ HostDo \/ HostLost \/ RelayFinish

Next ==
  \/ Claim \/ Settle \/ Yield \/ OpenSuccessor
  \/ \E r \in Runtimes : RuntimeStep(r) \/ RelayAbort(r) \/ LoseControl(r)
  \/ \E h \in Handoffs : AdoptFresh(h) \/ Expire(h)
  \/ AdoptBegin \/ AdoptFinish
  \/ RelayServe \/ RelayExpire

\* Time passes; the relay's loop runs and its waits are bounded.
Fairness ==
  /\ \A h \in Handoffs : WF_vars(Expire(h))
  /\ WF_vars(RelayServe) /\ WF_vars(RelayExpire)

Spec == Init /\ [][Next]_vars /\ Fairness

-----------------------------------------------------------------------------
(* Properties. *)

Entries == {"none", "pending"} \cup Outcomes
Phases == {"owned", "gone"} \cup {After[c] : c \in Commands}
Journals == [phase : Phases, h : 0..MaxHandoffs, entry : [Handoffs \X Commands -> Entries]]

\* Every variable holds a value of the shape the code gives it.
TypeOK ==
  /\ alive \subseteq Runtimes /\ realm \in Runtimes \cup {"none"} /\ work \in {"idle", "busy"}
  /\ fence.state \in {"none", "held", "released"} /\ fence.h \in 0..MaxHandoffs
  /\ ledger \in Runtimes /\ writer \in Runtimes /\ transfer \in {"none", "prepared", "committed"}
  /\ rj \in Journals /\ yj \in Journals
  /\ host.phase \in Phases /\ host.bound \in Runtimes /\ host.h \in 0..MaxHandoffs
  /\ chan \subseteq Runtimes /\ listener \in 0..MaxHandoffs /\ adopted \in 0..MaxHandoffs
  /\ expired \subseteq Handoffs /\ stream \in {"idle", "failed"} /\ relay \in {"serving", "failed"}

\* What the handoff promises, read off the durable state: the owner is the
\* actor the relay's custody designates, the gate is the claim fence.
Baton ==
  INSTANCE OwnershipTransfer WITH
    owner <- ledger, bound <- host.bound, work <- work,
    gate <- IF fence.state = "held" THEN "closed" ELSE "open"

\* The journalled handoff implements the transfer of ownership: however the
\* two Runtimes, the relay and the host interleave, crash or lose replies,
\* the fence closes only over an idle worker, custody and the binding of the
\* host move only behind it, and claims are admitted again only when the host
\* is bound to the Runtime that owns it (hold_local_claim_fence,
\* transfer_relay_to_successor, release_local_claim_fence).
TransferRefined == Baton!Spec

\* The split commit never runs ahead of the custody ledger: B writes the
\* Runtime journal only once the ledger designates it, and between the two
\* the durable intent says who takes over (reconcile_writer_transfer).
WriterFollows ==
  /\ writer = "B" => ledger = "B" /\ transfer = "committed"
  /\ ledger = "B" /\ writer = "A" => transfer = "prepared"

\* No journal acknowledges what the next one did not: a success in the
\* Runtime's journal is one in the relay's, and a relay without a pending
\* entry is in its host's phase, through lost replies, timeouts and
\* repeated deliveries (HandoffJournal.finish, RelayHandoffEndpoint._handoff).
JournalsAgree ==
  /\ \A h \in Handoffs, c \in Commands : Acked(rj, h, c) => Acked(yj, h, c)
  /\ (host.phase # "gone" /\ \A k \in DOMAIN yj.entry : yj.entry[k] # "pending")
       => yj.phase = host.phase

\* A paused host does not stay paused: the handoff finishes or is rolled back,
\* or the relay's deadline ends its supervision, or the exchange that failed
\* quarantined its stream (_RelayFailureMonitor, serve_control).
PauseEnds ==
  host.phase \notin {"owned", "finalized", "gone"}
    ~> (host.phase \in {"owned", "finalized", "gone"} \/ relay = "failed" \/ stream = "failed")

\* daemon.py: "Exact old pause receipt retrieval must not rehold or rotate a
\* finalized/rolled-back fence": the fence is not closed for a handoff whose
\* rollback the relay has acknowledged.
RolledBackStaysOpen ==
  [][fence.state # "held" /\ fence'.state = "held" => ~Acked(yj, fence'.h, "abort")]_vars
=============================================================================
