---------------------------- MODULE WorkerActor ----------------------------
(***************************************************************************)
(* Custody of the one Worker actor.  A Runtime has a single Worker bearer, *)
(* stored as token, metadata and commit files, and two ways to hand it     *)
(* out: a local worker process that the daemon launches and watches, and a *)
(* remote activation that a controller qualifies, records and enables for  *)
(* one task.  The daemon may stop, crash and restart, a start or a         *)
(* relinquish may fail half way, credential files may fail to be deleted   *)
(* and a controller may lose replies or have a request delivered late.     *)
(***************************************************************************)
EXTENDS Naturals, FiniteSets

CONSTANTS
  Locals,       \* generations of the local worker, numbered
  Acts,         \* remote activations of one task, numbered
  Kinds,        \* profile kinds explored: "plain", "relay", "host_only"
  None,
  MaxSessions,  \* bound on the starts of the daemon; the last session does not end
  MaxFaults     \* bound on failed deletions, stops, aborts and observations

ASSUME ActorAssumption ==
  /\ Locals \cup Acts \subseteq Nat /\ Locals \cap Acts = {} /\ None \notin Nat
  /\ MaxSessions \in Nat \ {0} /\ MaxFaults \in Nat

VARIABLES
  files,      \* the actor's credential files
  disabled,   \* the actor is in CredentialStore._disabled_actors
  rel,        \* local-worker-relinquish.json
  marker,     \* orderly-handoff-cleanup-uncertain.json exists
  history,    \* history[a]: the kinds of the activation events of a
  latest,     \* _latest_remote_activation of the task
  intents,    \* activations with a credential cleanup intent
  work,       \* work[g]: the attempt claimed by generation g
  kind,       \* the configured profile's kind
  up, stopping, session, \* the daemon runs, is stopping; its session
  launcher,   \* LocalWorkerLauncher
  held,       \* the control handle retained by the preparer
  op,         \* the operation that holds _worker_actor_lock
  watch,      \* the generation whose watcher saw a failed observation
  toAbort,    \* handles returned by begin_shutdown
  proc,       \* proc[g]: the local process of g
  ctl,        \* ctl[a]: how far the controller of a is; "retained" from the
              \* acceptance on, also while activation_state is "unknown"
  bound,      \* bound[g]: session of the process or named by the qualification
  sent,       \* activations whose record request was sent
  faults

disk == <<files, rel, marker>>
events == <<history, latest, intents>>
daemon == <<up, stopping, session>>
local == <<launcher, held, watch, toAbort, proc>>
remote == <<ctl, bound, sent>>
vars == <<disk, disabled, events, work, kind, daemon, local, op, remote, faults>>

Gens == Locals \cup Acts
NoFiles == [gen |-> None, whole |-> FALSE]
Whole(g) == [gen |-> g, whole |-> TRUE]
Torn(f) == [f EXCEPT !.whole = FALSE]
NoRel == [state |-> "none", gen |-> None, captured |-> {}]
NoOp == [kind |-> "none", step |-> "none", gen |-> None]
NoLauncher == [made |-> FALSE, shutdown |-> FALSE, active |-> None, preparing |-> None, uncertain |-> FALSE]

(* actor_metadata: nothing unless token, metadata and commit agree. *)
Metadata == IF files.whole THEN files.gen ELSE None
Exists == files.gen # None
HasWork(g) == work[g] \in {"running", "cancelling"}
Quiet == \A g \in Gens : ~HasWork(g)
Secure == kind # "plain"
Serving == up /\ ~stopping
Locked == op.kind # "none"
RelPending == rel.state \notin {"none", "complete"}
Revoked == {a \in Acts : "revoked" \in history[a]}
Unrevoked == {a \in Acts : "qualified" \in history[a]} \ Revoked

(* Mutant: only the credential files are consulted. *)
UnresolvedFiles == Exists /\ Metadata \notin Locals
Unresolved == Unrevoked # {} \/ Metadata \in Acts \/ (Exists /\ Metadata \notin Locals)
BearerWorks(g) == up /\ files = Whole(g) /\ ~disabled

TypeOK ==
  /\ files \in [gen : Gens \cup {None}, whole : BOOLEAN] /\ disabled \in BOOLEAN
  /\ rel \in [state : {"none", "fencing", "fenced", "stop_unknown", "stopped", "complete"},
              gen : Locals \cup {None}, captured : SUBSET Gens]
  /\ marker \in BOOLEAN /\ latest \in Acts \cup {None} /\ intents \subseteq Acts
  /\ history \in [Acts -> SUBSET {"qualified", "accepted", "revoked", "unqualified", "draining"}]
  /\ work \in [Gens -> {"none", "running", "cancelling", "stopped"}]
  /\ kind \in Kinds /\ up \in BOOLEAN /\ stopping \in BOOLEAN /\ session \in 0..MaxSessions
  /\ launcher \in [made : BOOLEAN, shutdown : BOOLEAN, active : Locals \cup {None},
                   preparing : Locals \cup {None}, uncertain : BOOLEAN]
  /\ held \in Locals \cup {None} /\ watch \in Locals \cup {None} /\ toAbort \subseteq Locals
  /\ proc \in [Locals -> {"unborn", "alive", "dead"}]
  /\ ctl \in [Acts -> {"none", "qualified", "provisioned", "failing", "retained", "aborted"}]
  /\ bound \in [Gens -> 0..MaxSessions] /\ sent \subseteq Acts /\ faults \in 0..MaxFaults

Init ==
  /\ files = NoFiles /\ disabled = FALSE /\ rel = NoRel /\ marker = FALSE
  /\ history = [a \in Acts |-> {}] /\ latest = None /\ intents = {}
  /\ work = [g \in Gens |-> "none"] /\ kind \in Kinds
  /\ up = FALSE /\ stopping = FALSE /\ session = 0
  /\ launcher = NoLauncher /\ held = None /\ op = NoOp /\ watch = None /\ toAbort = {}
  /\ proc = [g \in Locals |-> "unborn"]
  /\ ctl = [a \in Acts |-> "none"] /\ bound = [g \in Gens |-> 0] /\ sent = {} /\ faults = 0

Fault == faults < MaxFaults /\ faults' = faults + 1
NoFault == UNCHANGED faults

-----------------------------------------------------------------------------
(* CredentialStore.revoke: the bearer is disabled in memory first, then the *)
(* commit, metadata and token files go; a failed unlink leaves some of them. *)
Deleted == files' = NoFiles /\ NoFault
Undeleted == Exists /\ Fault /\ files' \in {files, Torn(files)}
RevokeActor == disabled' = TRUE /\ (Deleted \/ Undeleted)

(* _abort: the owned process ends, or the failed cleanup is latched; l is  *)
(* the launcher once the handle has been cleared.                          *)
Abort(g, l) ==
  \/ /\ proc' = [proc EXCEPT ![g] = "dead"] /\ held' = IF held = g THEN None ELSE held
     /\ launcher' = l /\ UNCHANGED marker
  \/ /\ UNCHANGED <<proc, held>>
     /\ launcher' = [l EXCEPT !.uncertain = TRUE] /\ marker' = TRUE

(* The launcher once generation g is neither active nor being prepared. *)
Cleared(g) ==
  [launcher EXCEPT !.active = IF @ = g THEN None ELSE @, !.preparing = IF @ = g THEN None ELSE @]

-----------------------------------------------------------------------------
(* The daemon. *)

(* LocalWorkerLauncher.__init__: an existing local bearer stays unusable    *)
(* until its process is revalidated, one without a local receipt is         *)
(* revoked, and a host-only one of a departed owner is latched uncertain.   *)
MakeLauncher(wasDisabled) ==
  LET departed == kind = "host_only" /\ Metadata \in Locals IN
  /\ launcher' = [NoLauncher EXCEPT !.made = TRUE, !.uncertain = (Secure /\ marker) \/ departed]
  /\ marker' = (marker \/ departed)
  /\ disabled' = (wasDisabled \/ Metadata # None)
  /\ files' = IF Metadata \in Acts THEN NoFiles ELSE files

(* _start with _provision_credentials: a new CredentialStore has nobody     *)
(* disabled; unresolved custody disables the actor and defers the launcher. *)
DaemonStart ==
  /\ ~up
  /\ up' = TRUE /\ session' = session + 1
  /\ \/ /\ Unresolved \/ RelPending
        /\ disabled' = TRUE /\ launcher' = NoLauncher /\ UNCHANGED <<files, marker>>
     \/ ~Unresolved /\ ~RelPending /\ MakeLauncher(FALSE)
  /\ UNCHANGED <<rel, events, work, kind, stopping, held, op, watch, toAbort, proc, remote, faults>>

(* stop, first half: begin_shutdown sets the shutdown flag and revokes the  *)
(* actor, whichever generation its files are; a preparation is cancelled.   *)
BeginStop ==
  /\ Serving /\ session < MaxSessions /\ stopping' = TRUE
  /\ \/ /\ ~launcher.made /\ UNCHANGED <<disabled, files, launcher, toAbort, faults>>
     \/ /\ launcher.made /\ RevokeActor
        /\ launcher' = [launcher EXCEPT !.shutdown = TRUE, !.active = None, !.preparing = None]
        /\ toAbort' = {launcher.active, launcher.preparing, held} \ {None}
  /\ UNCHANGED <<rel, marker, events, work, kind, up, session, held, op, watch, proc, remote>>

(* The process is gone, with its memory and the operation in progress. *)
Down ==
  /\ up' = FALSE /\ stopping' = FALSE
  /\ launcher' = NoLauncher /\ held' = None /\ op' = NoOp /\ watch' = None /\ toAbort' = {}

(* stop, second half: finish_shutdown aborts the handles it was given; some *)
(* may not end in time.  A surviving worker loses its control channel.      *)
FinishStop ==
  /\ up /\ stopping /\ Down
  /\ \E ended \in SUBSET toAbort :
       proc' = [g \in Locals |-> IF g \in ended THEN "dead" ELSE proc[g]]
  /\ UNCHANGED <<disk, disabled, events, work, kind, session, remote, faults>>

(* The daemon dies at any point; its workers may outlive it. *)
Crash ==
  /\ up /\ session < MaxSessions /\ Fault /\ Down
  /\ UNCHANGED <<disk, disabled, events, work, kind, session, proc, remote>>

-----------------------------------------------------------------------------
(* Launching a local worker: start_local_worker and LocalWorkerLauncher.start. *)

StartAt(step, g) == op = [kind |-> "start", step |-> step, gen |-> g]
Step(step, g) == op' = [kind |-> "start", step |-> step, gen |-> g]

(* start_local_worker creates the launcher again after a relinquish. *)
CreateLauncher ==
  /\ Serving /\ ~Locked /\ ~Unresolved /\ ~RelPending /\ ~launcher.made
  /\ MakeLauncher(disabled)
  /\ UNCHANGED <<rel, events, work, kind, daemon, held, op, watch, toAbort, proc, remote, faults>>

(* _try_reconnect: a plain profile's preparer may find the surviving        *)
(* process and revalidate it.                                               *)
Reconnect(g) ==
  /\ kind = "plain" /\ proc[g] = "alive" /\ held' = g
  /\ disabled' = TRUE /\ launcher' = [launcher EXCEPT !.active = g] /\ Step("installed", g)

(* The preparer's reconnect has nothing for it: a plain start goes on, one  *)
(* of a relay that lost its control channel ends.                           *)
NoReconnect(g) ==
  \/ kind = "plain" /\ held # g /\ Step("clear", None)
  \/ kind = "relay" /\ UNCHANGED op

(* The guards of a start.  A generation that is already active is returned  *)
(* unchanged; an inactive one is reconnected or revoked.  (A host-only one  *)
(* was latched uncertain when the launcher was made.)                       *)
StartLocal ==
  /\ Serving /\ ~Locked /\ ~Unresolved /\ ~RelPending
  /\ launcher.made /\ ~launcher.shutdown /\ ~launcher.uncertain
  /\ \/ /\ Metadata = None /\ Step("clear", None)
        /\ UNCHANGED <<disabled, files, launcher, held, marker, faults>>
     \/ /\ Metadata # None /\ launcher.active = None
        /\ \/ Reconnect(Metadata) /\ UNCHANGED <<files, marker, faults>>
           \/ NoReconnect(Metadata) /\ RevokeActor /\ UNCHANGED <<held, launcher, marker>>
  /\ UNCHANGED <<rel, events, work, kind, daemon, watch, toAbort, proc, remote>>

(* prepare: a process retained from before must end first. *)
Prepare(g) ==
  /\ StartAt("clear", None) /\ proc[g] = "unborn" /\ ~launcher.shutdown
  /\ \A h \in Locals : h < g => proc[h] # "unborn"
  /\ proc' = [h \in Locals |-> IF h = g THEN "alive" ELSE IF h = held THEN "dead" ELSE proc[h]]
  /\ held' = g /\ launcher' = [launcher EXCEPT !.preparing = g] /\ Step("prepared", g)
  /\ bound' = [bound EXCEPT ![g] = session]
  /\ UNCHANGED <<disk, disabled, events, work, kind, daemon, watch, toAbort, ctl, sent, faults>>

(* provision(enabled=False): commit last, so a failure leaves no generation. *)
Issue(g) ==
  /\ StartAt("prepared", g) /\ disabled' = TRUE
  /\ files' = Whole(g) /\ Step("issued", g)
  /\ UNCHANGED <<rel, marker, events, work, kind, daemon, local, remote, faults>>

(* The private grant; a secure profile records its acceptance durably only *)
(* while this generation is being prepared and its credential is unchanged. *)
Activate(g) ==
  /\ StartAt("issued", g) /\ proc[g] = "alive"
  /\ Secure => ~launcher.shutdown /\ launcher.preparing = g /\ Metadata = g
  /\ Step("activated", g)
  /\ UNCHANGED <<disk, disabled, events, work, kind, daemon, local, remote, faults>>

Install(g) ==
  /\ StartAt("activated", g) /\ ~launcher.shutdown
  /\ launcher' = [launcher EXCEPT !.active = g, !.preparing = None] /\ Step("installed", g)
  /\ UNCHANGED <<disk, disabled, events, work, kind, daemon, held, watch, toAbort, proc, remote, faults>>

(* Mutant: the bearer is released without looking at the launcher again. *)
EnableUnchecked(g) ==
  /\ StartAt("installed", g) /\ Metadata # None
  /\ disabled' = FALSE /\ op' = NoOp
  /\ UNCHANGED <<disk, events, work, kind, daemon, local, remote, faults>>

(* _enable_active_generation. *)
Enable(g) ==
  /\ StartAt("installed", g) /\ ~launcher.shutdown /\ launcher.active = g
  /\ Metadata # None /\ (Secure => Metadata = g)
  /\ disabled' = FALSE /\ op' = NoOp
  /\ UNCHANGED <<disk, events, work, kind, daemon, local, remote, faults>>

(* Any step of a start may fail: an issued credential is revoked, the       *)
(* handles are cleared and the process is aborted.                          *)
StartFails(g) ==
  /\ op.kind = "start" /\ op.gen = g /\ g # None /\ op' = NoOp
  /\ \/ op.step = "prepared" /\ UNCHANGED <<disabled, files, faults>>
     \/ op.step # "prepared" /\ RevokeActor
  /\ Abort(g, Cleared(g))
  /\ UNCHANGED <<rel, events, work, kind, daemon, watch, toAbort, remote>>

(* prepare itself fails. *)
PrepareFails ==
  /\ StartAt("clear", None) /\ op' = NoOp
  /\ UNCHANGED <<disk, disabled, events, work, kind, daemon, local, remote, faults>>

(* A worker process exits. *)
WorkerExits(g) ==
  /\ proc[g] = "alive" /\ proc' = [proc EXCEPT ![g] = "dead"]
  /\ UNCHANGED <<disk, disabled, events, work, kind, daemon, launcher, held, watch, toAbort, op, remote, faults>>

(* check_liveness: the watcher reads the active handle and observes it ... *)
WatchLost(g) ==
  /\ up /\ watch = None /\ launcher.active = g
  /\ \/ proc[g] = "dead" /\ NoFault
     \/ proc[g] # "dead" /\ Fault
  /\ watch' = g
  /\ UNCHANGED <<disk, disabled, events, work, kind, daemon, launcher, held, toAbort, proc, op, remote>>

(* ... and fences it later, unless another generation has taken its place. *)
WatchFence(g) ==
  /\ up /\ watch = g /\ watch' = None
  /\ \/ /\ g \notin {launcher.active, launcher.preparing}
        /\ UNCHANGED <<files, disabled, marker, launcher, held, proc, faults>>
     \/ /\ g \in {launcher.active, launcher.preparing}
        /\ RevokeActor /\ Abort(g, Cleared(g))
  /\ UNCHANGED <<rel, events, work, kind, daemon, toAbort, op, remote>>

-----------------------------------------------------------------------------
(* relinquish_local_worker. *)

Relinquishing(step, g) == op = [kind |-> "relinquish", step |-> step, gen |-> g]

(* _capture_owned_local_cancellations: host-only work may be outstanding if *)
(* it is all this generation's, in this session, with its cancellation      *)
(* requested; other profiles must have none.                                *)
Capturable(g) ==
  \/ kind # "host_only" /\ Quiet
  \/ /\ kind = "host_only"
     /\ \A h \in Gens : HasWork(h) => h = g /\ work[h] = "cancelling" /\ bound[g] = session
Outstanding == {h \in Gens : HasWork(h)}

(* _validate_owned_local_cancellations: nothing beyond the captured set,    *)
(* and that set entirely pending or entirely finalized.                     *)
Validated(captured) ==
  /\ Outstanding \subseteq captured
  /\ \/ \A h \in captured : work[h] = "cancelling"
     \/ \A h \in captured : work[h] = "stopped"
Checkpoint(g) ==
  IF RelPending THEN rel ELSE [state |-> "fencing", gen |-> g, captured |-> Outstanding]
Admitted(g) ==
  \/ RelPending /\ rel.gen = g /\ Metadata \in {None, g}
  \/ ~RelPending /\ Metadata = g /\ Capturable(g)

(* The checkpoint is written before anything else; the owner may die there. *)
RelinquishInterrupted(g) ==
  /\ Serving /\ ~Locked /\ Admitted(g) /\ session < MaxSessions /\ Fault
  /\ rel' = Checkpoint(g) /\ Down
  /\ UNCHANGED <<files, marker, disabled, events, work, kind, session, proc, remote>>

(* Under the store mutex: checkpoint, disable the bearer, mark it fenced. *)
RelinquishFence(g) ==
  /\ Serving /\ ~Locked /\ Admitted(g)
  /\ IF kind = "host_only" THEN Validated(Checkpoint(g).captured) ELSE Quiet
  /\ disabled' = TRUE
  /\ rel' = [Checkpoint(g) EXCEPT !.state = IF @ = "fencing" THEN "fenced" ELSE @]
  /\ IF \/ files.gen \notin {None, g}
        \/ kind = "host_only" /\ rel'.state # "stopped" /\ Metadata = None
     THEN UNCHANGED op
     ELSE op' = [kind |-> "relinquish", gen |-> g,
                 step |-> IF rel'.state = "stopped" THEN "stopped" ELSE "fenced"]
  /\ UNCHANGED <<files, marker, events, work, kind, daemon, local, remote, faults>>

(* relinquish_handle: the launcher gives up its handle for good. *)
LetGo == launcher' = IF launcher.made THEN [launcher EXCEPT !.shutdown = TRUE, !.active = None] ELSE launcher

(* Mutant: an unconfirmed stop counts as a stop. *)
RelinquishStopAssumed(g) ==
  /\ Relinquishing("fenced", g) /\ LetGo
  /\ \/ NoFault /\ proc' = [proc EXCEPT ![g] = "dead"]
     \/ Fault /\ UNCHANGED proc
  /\ held' = None /\ rel' = [rel EXCEPT !.state = "stopped"]
  /\ op' = [op EXCEPT !.step = "stopped"]
  /\ UNCHANGED <<files, marker, disabled, events, work, kind, daemon, watch, toAbort, remote>>

(* Outside the mutex: the launcher lets go of its handle and stop_owned     *)
(* ends the receipt's processes.  Without the retained handle only a plain  *)
(* profile can prove that they ended.                                       *)
RelinquishStop(g) ==
  /\ Relinquishing("fenced", g) /\ LetGo
  /\ \/ /\ kind = "plain" \/ held = g
        /\ NoFault /\ proc' = [proc EXCEPT ![g] = "dead"]
        /\ held' = IF held = g THEN None ELSE held
        /\ rel' = [rel EXCEPT !.state = "stopped"] /\ op' = [op EXCEPT !.step = "stopped"]
     \/ /\ IF kind = "plain" \/ held = g THEN Fault ELSE NoFault
        /\ rel' = [rel EXCEPT !.state = "stop_unknown"] /\ op' = NoOp
        /\ UNCHANGED <<proc, held>>
  /\ UNCHANGED <<files, marker, disabled, events, work, kind, daemon, watch, toAbort, remote>>

(* _finalize_owned_local_cancellations, in one transaction. *)
Finalized(captured) ==
  [h \in Gens |-> IF kind = "host_only" /\ h \in captured THEN "stopped" ELSE work[h]]

(* Under the mutex again: finalize the captured cancellations, require that *)
(* the actor has no work, delete the credential, complete the checkpoint.   *)
RelinquishFinish(g) ==
  /\ Relinquishing("stopped", g) /\ op' = NoOp
  /\ LET valid == /\ files.gen \in {None, g}
                  /\ kind = "host_only" => Validated(rel.captured)
         final == Finalized(rel.captured)
     IN \/ /\ valid /\ (\A h \in Gens : final[h] \notin {"running", "cancelling"})
           /\ work' = final /\ RevokeActor
           /\ \/ /\ files' = NoFiles /\ rel' = [rel EXCEPT !.state = "complete"] /\ launcher' = NoLauncher
              \/ files' # NoFiles /\ UNCHANGED <<rel, launcher>>
        \/ /\ ~valid \/ (\E h \in Gens : final[h] \in {"running", "cancelling"})
           /\ UNCHANGED <<files, disabled, work, rel, launcher, faults>>
  /\ UNCHANGED <<marker, events, kind, daemon, held, watch, toAbort, proc, remote>>

-----------------------------------------------------------------------------
(* A remote activation: the controller's requests and the owner's control.  *)

(* LocalWorkerLauncher.is_idle. *)
Idle == launcher.active = None /\ launcher.preparing = None /\ Metadata \notin Locals
Control == Serving /\ ~Locked /\ (launcher.made => Idle)

(* _remote_activation_matches, for a fresh claim or an enable. *)
Matches(a) == latest = a /\ "accepted" \in history[a] /\ bound[a] = session
Fresh(a) == Matches(a) /\ "draining" \notin history[a]

(* assert_remote_activation_admissible: the task is queued. *)
Queued == \A a \in Acts : ~HasWork(a)

(* activate: the qualification names the current session. *)
Qualify(a) ==
  /\ Serving /\ ctl[a] = "none" /\ latest = None
  /\ \A b \in Acts : b < a => ctl[b] # "none"
  /\ ctl' = [ctl EXCEPT ![a] = "qualified"] /\ bound' = [bound EXCEPT ![a] = session]
  /\ UNCHANGED <<disk, disabled, events, work, kind, daemon, local, op, sent, faults>>

(* The provision action, possibly repeated: an identical request never      *)
(* rotates the token, and another activation's files are replaced only once *)
(* it is revoked.                                                           *)
Provision(a) ==
  /\ Control /\ ~RelPending /\ ctl[a] \in {"qualified", "provisioned"}
  /\ latest = None /\ Queued /\ bound[a] = session /\ a \notin Revoked
  /\ Metadata = None => ~Exists
  /\ Metadata \in Acts \ {a} => Metadata \in Revoked
  /\ IF Metadata = a THEN UNCHANGED <<files, disabled>> ELSE files' = Whole(a) /\ disabled' = TRUE
  /\ \E reply \in {"provisioned", "failing"} : ctl' = [ctl EXCEPT ![a] = reply]
  /\ sent' = IF ctl'[a] = "provisioned" THEN sent \cup {a} ELSE sent
  /\ UNCHANGED <<rel, marker, events, work, kind, daemon, local, op, bound, faults>>

(* Mutant: the revocation history is not consulted. *)
RecordRevived(a) ==
  /\ Serving /\ a \in sent /\ bound[a] = session
  /\ "qualified" \notin history[a] /\ latest = None /\ Queued
  /\ history' = [history EXCEPT ![a] = @ \cup {"qualified", "accepted"}] /\ latest' = a
  /\ ctl' = [ctl EXCEPT ![a] = IF @ = "provisioned" THEN "retained" ELSE @]
  /\ UNCHANGED <<disk, disabled, intents, work, kind, daemon, local, op, bound, sent, faults>>

(* record_remote_activation, also when it is delivered late: a generation   *)
(* is recorded once and never after it was revoked.                         *)
Record(a) ==
  /\ Serving /\ a \in sent /\ bound[a] = session /\ a \notin Revoked
  /\ \/ /\ history[a] = {} /\ latest = None /\ Queued
        /\ history' = [history EXCEPT ![a] = {"qualified", "accepted"}] /\ latest' = a
     \/ {"qualified", "accepted"} \subseteq history[a] /\ UNCHANGED <<history, latest>>
  /\ ctl' = [ctl EXCEPT ![a] = IF @ = "provisioned" THEN "retained" ELSE @]
  /\ UNCHANGED <<disk, disabled, intents, work, kind, daemon, local, op, bound, sent, faults>>

(* The enable action, by activate, restore or reconcile. *)
EnableRemote(a) ==
  /\ Control /\ ~RelPending /\ ctl[a] = "retained" /\ Metadata = a /\ Fresh(a)
  /\ disabled' = FALSE
  /\ UNCHANGED <<disk, events, work, kind, daemon, local, op, remote, faults>>

(* A request fails for the controller before it knows of the acceptance, so *)
(* it cleans up; afterwards it would keep the custody and reconcile.        *)
ControllerFails(a) ==
  /\ ctl[a] \in {"qualified", "provisioned"} /\ ctl' = [ctl EXCEPT ![a] = "failing"]
  /\ UNCHANGED <<disk, disabled, events, work, kind, daemon, local, op, bound, sent, faults>>

(* _cleanup_exact_remote_credential: the intent precedes the deletion, and  *)
(* only files that are still this activation's are deleted.                 *)
Cleanable(a) == Exists => files.gen = a /\ (a \in intents \/ Metadata = a)
Cleanup(a) ==
  \/ ~Exists /\ UNCHANGED <<intents, files, disabled, faults>>
  \/ Exists /\ Cleanable(a) /\ intents' = intents \cup {a} /\ RevokeActor
  \/ Exists /\ ~Cleanable(a) /\ UNCHANGED <<intents, files, disabled, faults>>

(* The revoke-uncommitted action: refused once the activation may have      *)
(* admitted work; otherwise a tombstone precedes the deletion, and only a   *)
(* confirmed one lets the controller abort its parked host.                 *)
RevokeUncommitted(a) ==
  /\ Control /\ ctl[a] = "failing" /\ bound[a] = session
  /\ latest = None /\ "qualified" \notin history[a]
  /\ "revoked" \in history[a] => "unqualified" \in history[a]
  /\ Metadata \in {None, a}
  /\ history' = [history EXCEPT ![a] = @ \cup {"revoked", "unqualified"}] /\ UNCHANGED latest
  /\ Cleanup(a)
  /\ ctl' = [ctl EXCEPT ![a] = IF files' = NoFiles THEN "aborted" ELSE "retained"]
  /\ UNCHANGED <<rel, marker, work, kind, daemon, local, op, bound, sent>>
UncommittedRefused(a) ==
  /\ Serving /\ ctl[a] = "failing" /\ (latest # None \/ "qualified" \in history[a])
  /\ ctl' = [ctl EXCEPT ![a] = "retained"]
  /\ UNCHANGED <<disk, disabled, events, work, kind, daemon, local, op, bound, sent, faults>>

(* The revoke action: the exact generation is revoked or tombstoned first. *)
Revoke(a) ==
  /\ Control /\ a \in Acts
  /\ \/ Metadata = None /\ a \in Revoked /\ UNCHANGED <<history, latest>>
     \/ /\ Metadata = a /\ latest \in {None, a} /\ latest' = None
        /\ history' = [history EXCEPT ![a] =
             IF latest = a THEN @ \cup {"revoked"}
             ELSE IF a \in Revoked THEN @ ELSE @ \cup {"revoked", "unqualified"}]
  /\ Cleanup(a)
  /\ UNCHANGED <<rel, marker, work, kind, daemon, local, op, remote>>

(* revoke_remote_activation by itself leaves the credential files alone. *)
RevokeActivation(a) ==
  /\ Serving /\ latest = a
  /\ latest' = None /\ history' = [history EXCEPT ![a] = @ \cup {"revoked"}]
  /\ UNCHANGED <<disk, disabled, intents, work, kind, daemon, local, op, remote, faults>>

BeginDrain(a) ==
  /\ Control /\ Metadata = a /\ latest = a /\ bound[a] = session
  /\ history' = [history EXCEPT ![a] = @ \cup {"draining"}]
  /\ UNCHANGED <<disk, disabled, latest, intents, work, kind, daemon, local, op, remote, faults>>


(* finish_remote_drain: pending while work is unresolved, then revoked and, *)
(* unless another generation has replaced them, the files deleted.          *)
FinishDrain(a) ==
  /\ Control /\ "draining" \in history[a] /\ (latest = a \/ a \in Revoked)
  /\ ~HasWork(a)
  /\ latest' = IF latest = a THEN None ELSE latest
  /\ history' = [history EXCEPT ![a] = @ \cup {"revoked"}]
  /\ IF Metadata \in {None, a} THEN Cleanup(a) ELSE UNCHANGED <<files, disabled, intents, faults>>
  /\ UNCHANGED <<rel, marker, work, kind, daemon, local, op, remote>>

-----------------------------------------------------------------------------
(* Work done with the bearer (the task ledger in TaskLedger). *)

WorkStep(g, state) ==
  /\ work' = [work EXCEPT ![g] = state]
  /\ UNCHANGED <<disk, disabled, events, kind, daemon, local, op, remote, faults>>
Claim(g) ==
  /\ Serving /\ BearerWorks(g) /\ ~HasWork(g)
  /\ IF g \in Acts THEN Fresh(g) ELSE proc[g] = "alive"
  /\ WorkStep(g, "running")

(* Whether cancellation was requested matters for local work only. *)
CancelWork(g) == Serving /\ g \in Locals /\ work[g] = "running" /\ WorkStep(g, "cancelling")
Settle(g) ==
  /\ Serving /\ BearerWorks(g) /\ HasWork(g) /\ (g \in Acts => Matches(g))
  /\ WorkStep(g, "none")

(* The owner resolves an attempt whose worker is gone. *)
Recover(g) == Serving /\ HasWork(g) /\ ~BearerWorks(g) /\ WorkStep(g, "none")

-----------------------------------------------------------------------------
Next ==
  \/ DaemonStart \/ BeginStop \/ FinishStop \/ Crash
  \/ CreateLauncher \/ StartLocal \/ PrepareFails
  \/ \E g \in Locals :
       \/ Prepare(g) \/ Issue(g) \/ Activate(g) \/ Install(g) \/ Enable(g) \/ StartFails(g)
       \/ WorkerExits(g) \/ WatchLost(g) \/ WatchFence(g)
       \/ RelinquishInterrupted(g) \/ RelinquishFence(g) \/ RelinquishStop(g) \/ RelinquishFinish(g)
  \/ \E a \in Acts :
       \/ Qualify(a) \/ Provision(a) \/ Record(a) \/ EnableRemote(a) \/ ControllerFails(a)
       \/ RevokeUncommitted(a) \/ UncommittedRefused(a) \/ Revoke(a) \/ RevokeActivation(a)
       \/ BeginDrain(a) \/ FinishDrain(a)
  \/ \E g \in Gens : Claim(g) \/ CancelWork(g) \/ Settle(g) \/ Recover(g)
Spec == Init /\ [][Next]_vars

(* Operations in progress advance, the owner restarts a stopped daemon,     *)
(* repeats a relinquish and a drain until they end, and resolves attempts   *)
(* whose worker is gone.                                                    *)
Advance ==
  \/ PrepareFails \/ FinishStop
  \/ \E g \in Locals : StartFails(g) \/ RelinquishStop(g) \/ RelinquishFinish(g)
Fairness ==
  /\ WF_vars(DaemonStart) /\ WF_vars(Advance)
  /\ \A g \in Locals : SF_vars(RelinquishFence(g))
  /\ \A a \in Acts : SF_vars(FinishDrain(a))
  /\ \A g \in Gens : WF_vars(Recover(g)) /\ WF_vars(Settle(g))
FairSpec == Spec /\ Fairness

-----------------------------------------------------------------------------
(* The Worker bearer authenticates only for the generation in custody: the  *)
(* local one the launcher holds as active, or a remote one accepted in this *)
(* session.  Launch, fence, shutdown and restart all move the custody while *)
(* the files and the in-memory disablement change separately.               *)
BearerHeld ==
  \A g \in Gens : BearerWorks(g) =>
    \/ g \in Locals /\ launcher.active = g /\ ~launcher.shutdown
    \/ g \in Acts /\ "accepted" \in history[g] /\ bound[g] = session

(* An unrevoked remote activation is the only custodian: it is the task's   *)
(* latest one, and no local credential, process in custody or launch exists *)
(* beside it, whatever order requests, failures and restarts came in.       *)
OneCustodian ==
  \A a \in Unrevoked :
    latest = a /\ files.gen \notin Locals /\ launcher.active = None /\ op.kind # "start"

(* A completed relinquish means what it says for that generation: the       *)
(* process is gone, no attempt of it is outstanding, no file of it is left. *)
RelinquishedGone ==
  rel.state = "complete" =>
    proc[rel.gen] = "dead" /\ ~HasWork(rel.gen) /\ files.gen # rel.gen

(* A controller that aborted its parked host was told the truth: that       *)
(* activation is never recorded afterwards, by a late request either.       *)
AbortedNeverAccepted == \A a \in Acts : ctl[a] = "aborted" => "qualified" \notin history[a]


=============================================================================
