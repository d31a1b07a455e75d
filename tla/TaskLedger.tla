----------------------------- MODULE TaskLedger -----------------------------
(***************************************************************************)
(* The durable task ledger of the runtime: the tasks, runs, attempts,      *)
(* reservations, execution_bindings and recovery_checkpoints tables and    *)
(* every command that moves a task through them (runtime_protocol/store.py *)
(* and the canonical wrappers in runtime_protocol/service.py).             *)
(*                                                                         *)
(* Every command runs under the store mutex and in one SQLite transaction, *)
(* so a command is one atomic step.  The exception is resume_attempt: it   *)
(* holds the mutex but commits four times, so the process can die between  *)
(* its commits; it is four steps here, interrupted only by a restart.      *)
(*                                                                         *)
(* create_task gives every run exactly one task, so the run's status is a  *)
(* column of the task's row.  The n-th claim of a task has lease_fence n   *)
(* and fresh ids for its lease token and its attempt, so n names all       *)
(* three; 0 stands for NULL.                                               *)
(***************************************************************************)
EXTENDS Naturals, FiniteSets

CONSTANTS
  Task,         \* task rows, numbered in rowid (admission) order
  Executor,     \* registered executors
  NoExecutor,   \* NULL in an executor_id column
  Key,          \* resource keys
  Capability,   \* what a claim names: a capability and, if targeted, a target
  Offer,        \* Offer[e]: what executor e names in its claims
  Slots,        \* Slots[e]: executors.max_concurrency
  Requests,     \* Requests[t]: the requests a client may submit as task t
  ChildRequests,\* the requests parents submit for their children
  MaxChildren,  \* child_delegation.limits.max_children
  MaxActive,    \* child_delegation.limits.max_active_children
  Reboots,      \* the tasks whose workers use the checkpoint protocol
  MaxFence,     \* bound on the claims of one task
  MaxEpoch      \* bound on runtime sessions

Fence == 1..MaxFence
Epoch == 0..MaxEpoch

(* A request: the capability (with its required resource keys), whether it *)
(* has an execution_request and so an execution binding, whether its spec  *)
(* carries a child_delegation policy, and its runtime_dependencies.        *)
RequestShape ==
  [capability : Capability, keys : SUBSET Key, external : BOOLEAN,
   delegates : BOOLEAN, preds : SUBSET Task]

NoRequest ==
  [capability |-> "none", keys |-> {}, external |-> FALSE, delegates |-> FALSE, preds |-> {}]

ASSUME TaskAssumption == Task \subseteq Nat \ {0}
ASSUME ExecutorAssumption == NoExecutor \notin Executor
ASSUME OfferAssumption == Offer \in [Executor -> SUBSET Capability]
ASSUME SlotsAssumption == Slots \in [Executor -> Nat]
ASSUME RequestsAssumption ==
  Requests \in [Task -> SUBSET RequestShape] /\ ChildRequests \subseteq RequestShape
ASSUME BoundAssumption ==
  /\ Reboots \subseteq Task
  /\ MaxChildren \in Nat /\ MaxActive \in Nat
  /\ MaxFence \in Nat \ {0} /\ MaxEpoch \in Nat \ {0}

VARIABLES
  row,      \* row[t]: task t joined with its run, binding and reservations
  att,      \* att[t][n]: the identity and checkpoint of attempt n of task t
  epoch,    \* runtime_lifecycle.runtime_epoch
  resume    \* the resume_attempt call that holds the mutex, if any

vars == <<row, att, epoch, resume>>

Terminal == {"completed", "failed", "cancelled"}
Status == Terminal \cup {"absent", "queued", "running", "cancel_requested"}

RunStatus == Terminal \cup {"absent", "queued", "running"}
Waiting == {"none", "dependency", "unknown"}
Deadline == {"none", "live", "overdue"}
Binding == {"none", "prepared", "claimed", "released", "stale"}
Number == {0} \cup Fence
Holder == Executor \cup {NoExecutor}

(* waiting_reason distinguishes provider_state_unknown ("unknown") and the  *)
(* dependency reasons; NULL and every other reason are "none".              *)
Row ==
  [status   : Status,
   run      : RunStatus,
   waiting  : Waiting,
   executor : Holder,
   lease    : Number,                         \* lease_token
   fence    : Number,                         \* lease_fence
   deadline : Deadline,                       \* lease_expires_at
   attempt  : Number,                         \* attempt_id
   epoch    : Epoch,
   open     : SUBSET Fence,                   \* attempts with settled=0
   closed   : Number,                         \* delegation_closed_attempt_id
   binding  : Binding,
   bound    : Number,                         \* execution_bindings.attempt_id
   held     : BOOLEAN,                        \* reservations with released_at NULL
   holder   : Holder,                         \* reservations.executor_id
   token    : Number,                         \* reservations.lease_token
   req      : RequestShape \cup {NoRequest},
   parent   : {0} \cup Task,                  \* delegated_parent
   pattempt : Number,
   admitted : BOOLEAN]                        \* continuation_admissions

CkptState == {"none", "durable", "requested", "executed", "failed", "recovered", "resumed"}
Attempt == [executor : Holder, epoch : Epoch, ckpt : CkptState]

NoResume == [task |-> 0, from |-> 0, step |-> "idle"]
ResumeStep == {"idle", "claim", "bind", "mark"}

TypeOK ==
  /\ row \in [Task -> Row]
  /\ att \in [Task -> [Fence -> Attempt]]
  /\ epoch \in Epoch
  /\ resume \in [task : {0} \cup Task, from : Number, step : ResumeStep]

(* A task row before create_task inserts it. *)
Absent ==
  [status |-> "absent", run |-> "absent", waiting |-> "none", executor |-> NoExecutor,
   lease |-> 0, fence |-> 0, deadline |-> "none", attempt |-> 0, epoch |-> 0,
   open |-> {}, closed |-> 0, binding |-> "none", bound |-> 0,
   held |-> FALSE, holder |-> NoExecutor, token |-> 0,
   req |-> NoRequest, parent |-> 0, pattempt |-> 0, admitted |-> FALSE]

Init ==
  /\ row = [t \in Task |-> Absent]
  /\ att = [t \in Task |->
              [n \in Fence |-> [executor |-> NoExecutor, epoch |-> 0, ckpt |-> "none"]]]
  /\ epoch = 1
  /\ resume = NoResume

-----------------------------------------------------------------------------
(* One row under the statements the commands share.                         *)

(* The unresolved_external test: the binding is claimed or stale, and only  *)
(* bind_execution_attempt leaves it so, with a verified actual placement.   *)
Unresolved(r) == r.binding \in {"claimed", "stale"}

(* _release_reservations: all of the task's when the token is NULL, else    *)
(* the ones of that lease.  All keys of a task are reserved and released    *)
(* together.                                                                *)
ReleaseReservations(r, token) == r.held /\ ~(token = 0 \/ r.token = token)

(* Mutant: a released binding is left as it is. *)
ResetBindingOfClaims(b) == IF b \in {"claimed", "stale"} THEN "prepared" ELSE b

ReleasedBinding(b, s) == IF b = "claimed" THEN s ELSE b
ResetBinding(b) == IF b \in {"claimed", "released", "stale"} THEN "prepared" ELSE b
ResetBound(r) == IF r.binding \in {"claimed", "released", "stale"} THEN 0 ELSE r.bound

ResetAttempt(r) == [r EXCEPT !.binding = ResetBinding(@), !.bound = ResetBound(r)]

(* UPDATE runs SET status='queued' ... AND status='running' *)
Requeued(run) == IF run = "running" THEN "queued" ELSE run

(* contain_delegated_children first closes the delegation of the parent's   *)
(* current attempt.                                                         *)
ClosedBy(r) == IF r.req.delegates THEN r.attempt ELSE r.closed

(* cancel_task's tail for work the runtime owns: the attempt is reconciled, *)
(* the lease, the run and the reservations end.                             *)
Cancelled(r) ==
  [r EXCEPT !.status = "cancelled", !.run = "cancelled", !.waiting = "none",
            !.executor = NoExecutor, !.lease = 0, !.deadline = "none", !.attempt = 0,
            !.open = @ \ {r.attempt}, !.closed = ClosedBy(r),
            !.binding = ReleasedBinding(@, "released"),
            !.held = ReleaseReservations(r, r.lease)]

(* ... and for work an external provider may still be doing: cancellation   *)
(* is only requested, and the lease, attempt and reservations are kept.     *)
CancelRequested(r) ==
  [r EXCEPT !.status = "cancel_requested", !.waiting = "unknown", !.closed = ClosedBy(r),
            !.binding = ReleasedBinding(@, "stale")]

Cancel(r) == IF Unresolved(r) THEN CancelRequested(r) ELSE Cancelled(r)

(* Mutant: an overdue external row is skipped. *)
ExpiredSkipping(r) ==
  IF Unresolved(r) THEN r
  ELSE [ResetAttempt(r) EXCEPT
          !.status = "queued", !.run = Requeued(@), !.waiting = "none",
          !.executor = NoExecutor, !.lease = 0, !.deadline = "none",
          !.open = @ \ {r.attempt}, !.held = ReleaseReservations(r, r.lease)]

(* The tail of _reap_expired_leases for one overdue row. *)
Expired(r) ==
  IF Unresolved(r)
  THEN [r EXCEPT !.waiting = "unknown", !.closed = ClosedBy(r)]
  ELSE [ResetAttempt(r) EXCEPT
          !.status = "queued", !.run = Requeued(@), !.waiting = "none",
          !.executor = NoExecutor, !.lease = 0, !.deadline = "none",
          !.open = @ \ {r.attempt}, !.closed = ClosedBy(r),
          !.held = ReleaseReservations(r, r.lease)]

(* Mutant: a restart requeues external work without marking it. *)
RecoveredUnmarked(r) ==
  [r EXCEPT !.status = "queued", !.run = "queued", !.deadline = "none", !.waiting = "none",
            !.executor = NoExecutor, !.lease = 0, !.held = FALSE, !.binding = ResetBinding(@)]

(* begin_runtime_session for one interrupted row. *)
Recovered(r) ==
  IF Unresolved(r)
  THEN [r EXCEPT !.status = IF @ = "cancel_requested" THEN @ ELSE "queued",
                 !.deadline = "none", !.waiting = "unknown", !.closed = ClosedBy(r),
                 !.run = Requeued(@),
                 !.binding = ReleasedBinding(@, "stale")]
  ELSE LET s == [ResetAttempt(r) EXCEPT
                   !.run = Requeued(@), !.open = @ \ {r.attempt}, !.closed = ClosedBy(r),
                   !.held = ReleaseReservations(r, r.lease)]
       IN  IF r.status # "running" THEN s
           ELSE [s EXCEPT !.status = "queued", !.executor = NoExecutor, !.lease = 0,
                          !.deadline = "none", !.attempt = 0, !.waiting = "none"]

(* retry_task and retry_run: the same identity, queued afresh. *)
Retried(r) ==
  [ResetAttempt(r) EXCEPT !.status = "queued", !.run = "queued", !.waiting = "none",
            !.executor = NoExecutor, !.lease = 0, !.deadline = "none", !.attempt = 0,
            !.held = ReleaseReservations(r, r.lease)]

(* The end of _settle_attempt and of fail_task: the lease, executor and     *)
(* attempt columns keep naming the finished attempt.                        *)
Finished(r, n, outcome) ==
  [r EXCEPT !.status = outcome, !.run = outcome, !.deadline = "none", !.waiting = "none",
            !.open = @ \ {n}, !.held = ReleaseReservations(r, n),
            !.binding = ReleasedBinding(@, "released")]

(* The UPDATE and the reservation upsert of _claim_task. *)
Leased(r, e) ==
  [r EXCEPT !.status = "running", !.run = "running", !.waiting = "none", !.executor = e,
            !.lease = r.fence + 1, !.fence = @ + 1, !.deadline = "live", !.epoch = epoch]

Reserved(r, e) ==
  IF r.req.keys = {} THEN r
  ELSE [r EXCEPT !.held = TRUE, !.holder = e, !.token = r.lease]

Claimed(r, e) == Reserved(Leased(r, e), e)

(* The attempt row and bind_execution_attempt, which only takes a prepared  *)
(* binding.                                                                 *)
Bound(r) ==
  [r EXCEPT !.attempt = r.fence, !.open = @ \cup {r.fence},
            !.binding = IF @ = "none" THEN @ ELSE "claimed",
            !.bound = IF r.binding = "none" THEN @ ELSE r.fence]

(* _set_waiting_reason touches queued rows only. *)
Waits(r, reason) == IF r.status = "queued" THEN [r EXCEPT !.waiting = reason] ELSE r

-----------------------------------------------------------------------------
(* Whole-table helpers: rs is the table inside a transaction.               *)

(* A parent whose attempt n may still delegate, and whose children may      *)
(* settle: its task runs exactly that attempt under a live lease of this    *)
(* session and its delegation is not closed.                                *)
ParentHolds(rs, p, n) ==
  /\ rs[p].status = "running"
  /\ rs[p].attempt = n /\ rs[p].lease = n /\ rs[p].fence = n
  /\ rs[p].epoch = epoch
  /\ rs[p].closed # n
  /\ rs[p].deadline = "live"
LiveParent(rs, p, n) ==
  ParentHolds(rs, p, n) /\ n \in rs[p].open /\ att[p][n].epoch = epoch

ChildOfAttempt(rs, c, p, n) == rs[c].parent = p /\ (n = 0 \/ rs[c].pattempt = n)

(* delegated_child_accounting *)
Lifetime(p, n) == Cardinality({c \in Task : ChildOfAttempt(row, c, p, n)})
Active(p, n) ==
  Cardinality({c \in Task : /\ ChildOfAttempt(row, c, p, n)
                            /\ row[c].status \notin Terminal \/ row[c].waiting = "unknown"})

(* The rows contain_delegated_children cancels. *)
Containable(r) == r.status \notin Terminal \cup {"absent", "cancel_requested"}

(* Mutant: running children are let be. *)
ContainQueued(rs, p, n) ==
  [c \in Task |-> IF ChildOfAttempt(rs, c, p, n) /\ rs[c].status = "queued"
                  THEN Cancel(rs[c]) ELSE rs[c]]
Contain(rs, p, n) ==
  [c \in Task |-> IF ChildOfAttempt(rs, c, p, n) /\ Containable(rs[c])
                  THEN Cancel(rs[c]) ELSE rs[c]]

(* _admit_continuation: admitted once, when every predecessor completed. *)
Dependent(r) == r.req.preds # {} /\ ~r.admitted
AdmitContinuation(rs, r) ==
  IF \A p \in r.req.preds : rs[p].status = "completed"
  THEN [r EXCEPT !.admitted = TRUE, !.waiting = "none"]
  ELSE [r EXCEPT !.waiting = "dependency"]

(* _refresh_continuations_for_predecessor: every command that makes a task  *)
(* terminal, or takes it out of a terminal status, refreshes the queued     *)
(* continuations of that task before it commits.                            *)
Refreshed(rs, c) ==
  /\ rs[c].status = "queued"
  /\ Dependent(rs[c])
  /\ \E p \in rs[c].req.preds :
       /\ rs[p].status # row[p].status
       /\ {rs[p].status, row[p].status} \cap Terminal # {}

(* Mutant: no refresh. *)
NoRefresh(rs) == rs
RefreshContinuations(rs) ==
  [c \in Task |-> IF Refreshed(rs, c) THEN AdmitContinuation(rs, rs[c]) ELSE rs[c]]

(* _contain_orphaned_delegations, then _reap_expired_leases.  An overdue    *)
(* parent is not live, so its children are among the orphans.               *)
Orphan(c) ==
  /\ row[c].parent # 0
  /\ row[c].status \notin Terminal
  /\ ~LiveParent(row, row[c].parent, row[c].pattempt)
Overdue(r) == r.status \in {"running", "cancel_requested"} /\ r.deadline = "overdue"
Abandons(p) == \E c \in Task : Orphan(c) /\ row[c].parent = p /\ row[c].pattempt = row[p].attempt
Contained(t) ==
  LET r == IF Abandons(t) THEN [row[t] EXCEPT !.closed = ClosedBy(row[t])] ELSE row[t]
  IN  IF Orphan(t) /\ Containable(r) THEN Cancel(r) ELSE r
Reaped ==
  RefreshContinuations(
    [t \in Task |-> IF Overdue(Contained(t)) THEN Expired(Contained(t)) ELSE Contained(t)])

(* begin_runtime_session: an interrupted parent contains the children of    *)
(* its attempt, then every interrupted row is recovered.                    *)
Interrupted(r) == r.status \in {"running", "cancel_requested"}
Restarted ==
  LET contained(t) ==
        LET p == row[t].parent
        IN  IF /\ p # 0 /\ Interrupted(row[p])
               /\ ChildOfAttempt(row, t, p, row[p].attempt)
               /\ Containable(row[t])
            THEN Cancel(row[t]) ELSE row[t]
  IN  RefreshContinuations(
        [t \in Task |-> IF Interrupted(row[t]) /\ Interrupted(contained(t))
                        THEN Recovered(contained(t)) ELSE contained(t)])

(* Mutant: only running tasks occupy their keys. *)
OccupiedByRunning(rs, e, keys) ==
  \E t \in Task : rs[t].status = "running" /\ rs[t].holder = e /\ rs[t].req.keys \cap keys # {}

(* The refusals of _claim_task the ledger itself decides. *)
Saturated(rs, e) == Cardinality({t \in Task : rs[t].executor = e /\ rs[t].status = "running"}) >= Slots[e]
Occupied(rs, e, keys) ==
  \E t \in Task : rs[t].held /\ rs[t].holder = e /\ rs[t].req.keys \cap keys # {}

Commit(rs) == row' = rs

-----------------------------------------------------------------------------
(* Commands.  Each but the resume steps waits for the store mutex.          *)

Free == resume = NoResume

(* create_task *)
NewRow(q) ==
  [Absent EXCEPT !.status = "queued", !.run = "queued", !.req = q,
                 !.binding = IF q.external THEN "prepared" ELSE "none"]

NextRowid(t) ==
  /\ row[t].status = "absent"
  /\ \A u \in Task : u < t => row[u].status # "absent"

CreateTask(t, q) ==
  /\ Free /\ NextRowid(t)
  /\ \A p \in q.preds : row[p].status # "absent"
  /\ LET r == NewRow(q)
     IN  Commit([row EXCEPT ![t] = IF Dependent(r) THEN AdmitContinuation(row, r) ELSE r])
  /\ UNCHANGED <<att, epoch, resume>>

(* admit_delegated_child: a fresh child of the parent's live attempt, bound *)
(* to the parent's effective target.  A child neither delegates nor depends.*)
AdmitDelegatedChild(t, q, p, n) ==
  /\ Free /\ NextRowid(t)
  /\ row[p].parent = 0 /\ row[p].req.delegates
  /\ LiveParent(row, p, n)
  /\ ~q.delegates /\ q.preds = {}
  /\ row[p].req.external => q.external
  /\ Lifetime(p, n) < MaxChildren /\ Active(p, n) < MaxActive
  /\ Commit([row EXCEPT ![t] = [NewRow(q) EXCEPT !.parent = p, !.pattempt = n]])
  /\ UNCHANGED <<att, epoch, resume>>

(* A lease deadline passes. *)
LeaseExpires(t) ==
  /\ row[t].deadline = "live"
  /\ Commit([row EXCEPT ![t].deadline = "overdue"])
  /\ UNCHANGED <<att, epoch, resume>>

(* reap_overdue_leases, called by the task, run, event and status reads *)
ReapOverdueLeases ==
  /\ Free /\ \E t \in Task : Overdue(row[t])
  /\ Commit(Reaped)
  /\ UNCHANGED <<att, epoch, resume>>

(* claim_next: reap, take the first queued row the claim matches, and grant *)
(* it or leave it waiting with a reason.                                    *)
Matches(rs, e, t) == rs[t].status = "queued" /\ rs[t].req.capability \in Offer[e]
Selected(rs, e, t) == Matches(rs, e, t) /\ \A u \in Task : u < t => ~Matches(rs, e, u)

ClaimEmpty(e) ==
  /\ Free /\ \A t \in Task : ~Matches(Reaped, e, t)
  /\ Commit(Reaped)
  /\ UNCHANGED <<att, epoch, resume>>

(* An unresolved external attempt at the head is reported, not claimed. *)
ClaimUnresolved(e, t) ==
  /\ Free /\ Selected(Reaped, e, t)
  /\ Reaped[t].waiting = "unknown"
  /\ Commit(Reaped)
  /\ UNCHANGED <<att, epoch, resume>>

(* A continuation whose predecessors have not all completed, or a task the  *)
(* executor may not take now: not ready, not live, a capability, storage,   *)
(* placement or facts mismatch (the input `fit`), saturated or occupied.    *)
ClaimRow(rs, t) == IF Dependent(rs[t]) THEN AdmitContinuation(rs, rs[t]) ELSE rs[t]

ClaimRefused(e, t, fit) ==
  /\ Free /\ Selected(Reaped, e, t)
  /\ Reaped[t].waiting # "unknown"
  /\ LET r == ClaimRow(Reaped, t)
     IN  \/ /\ ~fit /\ r.req.external
            /\ Commit([Reaped EXCEPT ![t] = Waits(@, "none")])
         \/ Dependent(r) /\ Commit([Reaped EXCEPT ![t] = r])
         \/ /\ ~Dependent(r)
            /\ ~fit \/ Saturated(Reaped, e) \/ Occupied(Reaped, e, r.req.keys)
            /\ Commit([Reaped EXCEPT ![t] = Waits(r, "none")])
  /\ UNCHANGED <<att, epoch, resume>>

ClaimGranted(e, t) ==
  /\ Free /\ Selected(Reaped, e, t)
  /\ Reaped[t].waiting # "unknown"
  /\ LET r == ClaimRow(Reaped, t)
     IN  /\ ~Dependent(r)
         /\ ~Saturated(Reaped, e) /\ ~Occupied(Reaped, e, r.req.keys)
         /\ r.fence < MaxFence
         /\ r.binding \in {"none", "prepared"}
         /\ Commit([Reaped EXCEPT ![t] = Bound(Claimed(r, e))])
         /\ att' = [att EXCEPT ![t][r.fence + 1] = [@ EXCEPT !.executor = e, !.epoch = epoch]]
  /\ UNCHANGED <<epoch, resume>>

(* _validate_attempt_lease: the attempt row alone.  Its deadline is the     *)
(* task's while the task holds its lease.                                   *)
LeaseValid(t, n) ==
  /\ n \in row[t].open
  /\ att[t][n].epoch = epoch
  /\ row[t].lease = n => row[t].deadline = "live"

(* Mutant: any attempt of a running task will do. *)
HoldsSome(t, n) == row[t].status = "running" /\ row[t].deadline = "live"

Holds(t, n) == row[t].status = "running" /\ row[t].lease = n /\ row[t].fence = n /\ row[t].deadline = "live"

(* Mutant: finished children are enough. *)
ChildrenFinished(t, n) ==
  \A c \in Task : ChildOfAttempt(row, c, t, n) => row[c].status \in Terminal

(* assert_delegated_children_completed *)
ChildrenCompleted(t, n) ==
  \A c \in Task : ChildOfAttempt(row, c, t, n) =>
    row[c].status = "completed" /\ row[c].attempt \notin row[c].open

(* settle_attempt with _settle_attempt *)
SettleAttempt(t, n) ==
  /\ Free /\ LeaseValid(t, n)
  /\ row[t].epoch = epoch
  /\ Holds(t, n) /\ row[t].attempt = n
  /\ row[t].closed # n
  /\ row[t].parent # 0 => LiveParent(row, row[t].parent, row[t].pattempt)
  /\ ChildrenCompleted(t, n)
  /\ Commit(RefreshContinuations([row EXCEPT ![t] = Finished(row[t], n, "completed")]))
  /\ UNCHANGED <<att, epoch, resume>>

(* fail_attempt with fail_task *)
FailAttempt(t, n) ==
  /\ Free /\ LeaseValid(t, n) /\ Holds(t, n)
  /\ Commit(RefreshContinuations(
       [Contain(row, t, n) EXCEPT ![t] =
          [Finished(row[t], n, "failed") EXCEPT !.closed = ClosedBy(row[t])]]))
  /\ UNCHANGED <<att, epoch, resume>>

(* cancel_task *)
CancelTask(t) ==
  /\ Free /\ row[t].status \in {"queued", "running", "failed"}
  /\ Commit(RefreshContinuations([Contain(row, t, 0) EXCEPT ![t] = Cancel(row[t])]))
  /\ UNCHANGED <<att, epoch, resume>>

(* cancel_run: as cancel_task, also for a task whose cancellation was       *)
(* already requested, and the run is cancelled in any case.                 *)
CancelRun(t) ==
  /\ Free /\ row[t].run \in {"queued", "running"}
  /\ row[t].status \notin Terminal \cup {"absent"}
  /\ Commit(RefreshContinuations(
       [Contain(row, t, 0) EXCEPT ![t] = [Cancel(row[t]) EXCEPT !.run = "cancelled"]]))
  /\ UNCHANGED <<att, epoch, resume>>

(* assert_delegated_retry_capacity *)
RetryCapacity(t) ==
  row[t].parent # 0 =>
    /\ ParentHolds(row, row[t].parent, row[t].pattempt)
    /\ Active(row[t].parent, row[t].pattempt) < MaxActive

RetryTask(t) ==
  /\ Free /\ row[t].status \in Terminal /\ row[t].waiting # "unknown"
  /\ RetryCapacity(t)
  /\ Commit(RefreshContinuations([row EXCEPT ![t] = Retried(row[t])]))
  /\ UNCHANGED <<att, epoch, resume>>

RetryRun(t) ==
  /\ Free /\ row[t].run = "failed" /\ row[t].status = "failed"
  /\ RetryCapacity(t)
  /\ Commit(RefreshContinuations([row EXCEPT ![t] = Retried(row[t])]))
  /\ UNCHANGED <<att, epoch, resume>>

-----------------------------------------------------------------------------
(* Checkpoints, reboot and resume.                                          *)

Ckpt(t, n, s) == att' = [att EXCEPT ![t][n].ckpt = s]

(* prepare_reboot and checkpoint_attempt: the attempt row's lease must be   *)
(* valid; the task's own status is not consulted.                           *)
CheckpointAttempt(t, n) ==
  /\ Free /\ t \in Reboots /\ LeaseValid(t, n) /\ att[t][n].ckpt = "none"
  /\ Ckpt(t, n, "durable")
  /\ UNCHANGED <<row, epoch, resume>>

(* request_reboot consumes the authorization, then calls the executor       *)
(* outside the mutex; the outcome is recorded only if nothing intervened.   *)
RequestReboot(t, n) ==
  /\ Free /\ LeaseValid(t, n) /\ att[t][n].ckpt = "durable"
  /\ Ckpt(t, n, "requested")
  /\ UNCHANGED <<row, epoch, resume>>

RebootOutcome(t, n) ==
  /\ Free /\ att[t][n].ckpt = "requested"
  /\ \E s \in {"executed", "failed"} : Ckpt(t, n, s)
  /\ UNCHANGED <<row, epoch, resume>>

(* resume_attempt, first commit: the binding of a targeted task is reset.   *)
Resumable == {"recovered", "requested", "executed"}
ResumeReset(t, n) ==
  /\ Free /\ att[t][n].ckpt \in Resumable /\ row[t].fence < MaxFence
  /\ Commit([row EXCEPT ![t] = ResetAttempt(row[t])])
  /\ resume' = [task |-> t, from |-> n, step |-> "claim"]
  /\ UNCHANGED <<att, epoch>>

(* Second commit: _claim_task with allow_provider_recovery. *)
RecoveryClaim(r) == r.status = "queued" \/ (r.status = "cancel_requested" /\ r.waiting = "unknown")

ResumeClaim(t, n) ==
  /\ resume = [task |-> t, from |-> n, step |-> "claim"]
  /\ LET e == att[t][n].executor
         r == Reaped[t]
     IN  /\ RecoveryClaim(r)
         /\ ~Saturated(Reaped, e) /\ ~Occupied(Reaped, e, r.req.keys)
         /\ Commit([Reaped EXCEPT ![t] = Claimed(r, e)])
  /\ resume' = [resume EXCEPT !.step = "bind"]
  /\ UNCHANGED <<att, epoch>>

(* ... which raises, rolling back, when the task is not claimable, and      *)
(* otherwise commits a waiting reason before resume_attempt raises.  A      *)
(* resumed task was claimed before, so no continuation is refused here.     *)
ResumeRefused(t, n, fit) ==
  /\ resume = [task |-> t, from |-> n, step |-> "claim"]
  /\ LET e == att[t][n].executor
         r == Reaped[t]
     IN  \/ ~RecoveryClaim(r) /\ UNCHANGED row
         \/ /\ RecoveryClaim(r)
            /\ ~fit \/ Saturated(Reaped, e) \/ Occupied(Reaped, e, r.req.keys)
            /\ Commit([Reaped EXCEPT ![t] = Waits(r, "none")])
  /\ resume' = NoResume
  /\ UNCHANGED <<att, epoch>>

(* Third commit: the new attempt row, attempt_id and the binding. *)
ResumeBind(t, n) ==
  /\ resume = [task |-> t, from |-> n, step |-> "bind"]
  /\ Commit([row EXCEPT ![t] = Bound(@)])
  /\ att' = [att EXCEPT ![t][row[t].fence] = [@ EXCEPT !.executor = att[t][n].executor, !.epoch = epoch]]
  /\ resume' = [resume EXCEPT !.step = "mark"]
  /\ UNCHANGED epoch

(* Fourth commit: the checkpoint is spent. *)
ResumeMark(t, n) ==
  /\ resume = [task |-> t, from |-> n, step |-> "mark"]
  /\ Ckpt(t, n, "resumed")
  /\ resume' = NoResume
  /\ UNCHANGED <<row, epoch>>

(* recover_task_placement: a finished targeted task with nothing of it      *)
(* active is pointed at a replacement; children still queued are cancelled, *)
(* without refreshing continuations.                                        *)
PlacementQuiescent(r) == r.open = {} /\ ~r.held /\ r.binding # "claimed" /\ r.waiting # "unknown"
RecoverPlacement(t) ==
  /\ Free /\ row[t].req.external /\ row[t].status \in {"failed", "cancelled"}
  /\ PlacementQuiescent(row[t])
  /\ \A c \in Task : row[c].parent = t =>
       PlacementQuiescent(row[c]) /\ row[c].status \notin {"running", "cancel_requested"}
  /\ Commit([c \in Task |->
       CASE c = t -> [row[t] EXCEPT !.binding = "prepared", !.bound = 0]
         [] row[c].parent = t /\ row[c].status = "queued" ->
              [row[c] EXCEPT !.status = "cancelled", !.run = "cancelled", !.waiting = "none",
                             !.executor = NoExecutor, !.lease = 0, !.deadline = "none",
                             !.binding = IF @ = "prepared" THEN "stale" ELSE @]
         [] OTHER -> row[c]])
  /\ UNCHANGED <<att, epoch, resume>>

(* The process dies, or is replaced, and begin_runtime_session opens the    *)
(* next session over the same database.                                     *)
BeginRuntimeSession ==
  /\ epoch < MaxEpoch
  /\ epoch' = epoch + 1
  /\ Commit(Restarted)
  /\ att' = [t \in Task |-> [n \in Fence |->
       IF att[t][n].epoch = epoch /\ att[t][n].ckpt \in {"durable", "requested"}
       THEN [att[t][n] EXCEPT !.ckpt = "recovered"] ELSE att[t][n]]]
  /\ resume' = NoResume

-----------------------------------------------------------------------------
ResumeStepOf(t, n) ==
  \/ ResumeClaim(t, n) \/ ResumeBind(t, n) \/ ResumeMark(t, n)
  \/ \E fit \in BOOLEAN : ResumeRefused(t, n, fit)

Worker(t, n) ==
  \/ SettleAttempt(t, n) \/ FailAttempt(t, n)
  \/ CheckpointAttempt(t, n) \/ RequestReboot(t, n) \/ RebootOutcome(t, n)
  \/ ResumeReset(t, n) \/ ResumeStepOf(t, n)

Claim(e) ==
  \/ ClaimEmpty(e)
  \/ \E t \in Task : ClaimUnresolved(e, t) \/ ClaimGranted(e, t)
  \/ \E t \in Task, fit \in BOOLEAN : ClaimRefused(e, t, fit)

Client(t) ==
  \/ \E q \in Requests[t] : CreateTask(t, q)
  \/ \E q \in ChildRequests, p \in Task, n \in Fence : AdmitDelegatedChild(t, q, p, n)
  \/ CancelTask(t) \/ CancelRun(t) \/ RetryTask(t) \/ RetryRun(t) \/ RecoverPlacement(t)

Next ==
  \/ \E t \in Task : Client(t) \/ LeaseExpires(t)
  \/ \E t \in Task, n \in Fence : Worker(t, n)
  \/ \E e \in Executor : Claim(e)
  \/ ReapOverdueLeases
  \/ BeginRuntimeSession

Spec == Init /\ [][Next]_vars

(* Clients keep polling, and every task, run, event and status read reaps.  *)
(* The fairness is strong: a resume_attempt repeated for ever takes the     *)
(* mutex again and again, and a reader waiting for it still gets its turn.  *)
(* A resume that holds the mutex runs to its end unless the process dies.   *)
(* Nothing is assumed of workers.                                           *)
Fairness ==
  /\ SF_vars(ReapOverdueLeases)
  /\ WF_vars(\E t \in Task, n \in Fence : ResumeStepOf(t, n))
FairSpec == Spec /\ Fairness

-----------------------------------------------------------------------------
(* Properties.                                                              *)

(* No two tasks hold the same resource key of the same executor, whatever   *)
(* mix of claims, resumes, reaps and restarts granted the reservations      *)
(* (_claim_task's occupied check).                                          *)
ReservationExclusive ==
  \A t, u \in Task :
    t # u /\ row[t].held /\ row[u].held /\ row[t].holder = row[u].holder
      => row[t].req.keys \cap row[u].req.keys = {}

(* A queued task that a worker may take has a binding a claim can take:     *)
(* otherwise bind_execution_attempt would raise and roll every claim back.  *)
QueuedClaimable ==
  \A t \in Task : row[t].status = "queued" /\ row[t].waiting # "unknown" =>
    row[t].binding \in {"none", "prepared"}

(* No attempt of the task has a checkpoint, so none can be resumed. *)
NoCheckpoint(t) == \A n \in Fence : att[t][n].ckpt = "none"

(* While no checkpoint authorizes a resume, an external attempt that is not *)
(* settled keeps its task from being claimed again: the task runs it, or is *)
(* marked provider_state_unknown (begin_runtime_session, reap and cancel).  *)
ExternalFenced ==
  \A t \in Task :
    row[t].req.external /\ row[t].open # {} /\ NoCheckpoint(t)
      => row[t].status = "running" \/ row[t].waiting = "unknown"

(* A queued or running child has a parent that still runs the attempt that  *)
(* admitted it: failing, cancelling, losing or restarting a parent contains *)
(* every child of that attempt in the same transaction.  The exception is a *)
(* child with a checkpoint: resume_attempt does not look at its parent.     *)
(* The children of an attempt never exceed the policy's active limit,       *)
(* retried ones included.                                                   *)
ChildrenContained ==
  /\ \A c \in Task :
       row[c].parent # 0 /\ row[c].status \in {"queued", "running"} /\ NoCheckpoint(c) =>
         /\ row[row[c].parent].status = "running"
         /\ row[row[c].parent].attempt = row[c].pattempt
  /\ \A p \in Task, n \in Fence : Active(p, n) <= MaxActive

(* A parent that succeeded had every child of its attempt succeed, and no   *)
(* later command (a retry or a cancellation of the child) undoes that.      *)
ParentSucceedsLast ==
  \A p, c \in Task :
    row[p].status = "completed" /\ row[c].parent = p /\ row[c].pattempt = row[p].attempt
      => row[c].status = "completed"

(* Admission follows the predecessors: a continuation runs only once it was *)
(* admitted, and one reported as waiting for its dependencies has a         *)
(* predecessor that has not completed, so no completion, retry or           *)
(* cancellation loses an admission (waiting_reason and its refresh in       *)
(* _refresh_continuations_for_predecessor).                                 *)
AdmissionHonest ==
  \A t \in Task :
    /\ row[t].req.preds # {} /\ row[t].fence > 0 => row[t].admitted
    /\ row[t].status = "queued" /\ row[t].waiting = "dependency" =>
         ~row[t].admitted /\ \E p \in row[t].req.preds : row[p].status # "completed"

(* Fences only grow, by one, and each growth is a claim that makes the task *)
(* run under the new fence.                                                 *)
FenceStep ==
  [][\A t \in Task : row'[t].fence # row[t].fence =>
       /\ row'[t].fence = row[t].fence + 1
       /\ row'[t].status = "running" /\ row'[t].lease = row'[t].fence]_vars

(* A settled attempt is never reopened, and a task completes or fails only  *)
(* in the step that settles its newest attempt, one of this session: a late *)
(* call of a superseded attempt decides nothing (_validate_attempt_lease    *)
(* with the fence test of _settle_attempt and fail_task).                   *)
SettleStep ==
  [][\A t \in Task :
       /\ row'[t].open \subseteq row[t].open \cup {row'[t].fence}
       /\ row[t].status # row'[t].status /\ row'[t].status \in {"completed", "failed"} =>
            /\ row[t].fence \in row[t].open \ row'[t].open
            /\ att[t][row[t].fence].epoch = epoch]_vars

(* A dead worker's task is not observed as running for ever: once its lease *)
(* is overdue, the task leaves that attempt or is marked as one whose       *)
(* provider state is unknown, as reap_overdue_leases says.                  *)
OverdueObserved ==
  \A t \in Task, n \in Fence :
    (row[t].status = "running" /\ row[t].fence = n /\ Overdue(row[t]))
      ~> (row[t].status # "running" \/ row[t].fence # n \/ row[t].waiting = "unknown")

=============================================================================
