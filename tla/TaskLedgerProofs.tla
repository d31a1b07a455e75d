-------------------------- MODULE TaskLedgerProofs --------------------------
(***************************************************************************)
(* Proofs about the task ledger, for any set of tasks, executors, keys and *)
(* requests and any bounds.  Every step is a claim, an insertion, or one   *)
(* that keeps every row's fence, request and holder and takes no           *)
(* reservation; the invariants follow from these three kinds of step.      *)
(*                                                                         *)
(* The second half prepares TaskLedgerFamilyProofs: which combinations of  *)
(* columns a row can have, which changes of a row and of the whole table   *)
(* are calm (they start nothing and lose no admission), and the invariant  *)
(* Base that ties children to their parents.                               *)
(***************************************************************************)
EXTENDS TaskLedger, TLAPS

(* What every command but a claim does to an existing row. *)
Keeps(r, s) ==
  /\ s.fence = r.fence /\ s.req = r.req /\ s.holder = r.holder
  /\ s.held => r.held
  /\ s.status = "absent" => r.status = "absent"

-----------------------------------------------------------------------------
(* Rows.                                                                    *)

(* Keeping is reflexive and transitive. *)
LEMMA KeepsOrder ==
  /\ \A r : Keeps(r, r)
  /\ \A r, s, u : Keeps(r, s) /\ Keeps(s, u) => Keeps(r, u)
BY DEF Keeps

(* Updating one column of a row with a value of its type gives a row. *)
LEMMA RowUpdate ==
  ASSUME NEW r \in Row
  PROVE  /\ \A v \in Status : [r EXCEPT !.status = v] \in Row
         /\ \A v \in RunStatus : [r EXCEPT !.run = v] \in Row
         /\ \A v \in Waiting : [r EXCEPT !.waiting = v] \in Row
         /\ \A v \in Holder : [r EXCEPT !.executor = v] \in Row
         /\ \A v \in Holder : [r EXCEPT !.holder = v] \in Row
         /\ \A v \in Number : [r EXCEPT !.lease = v] \in Row
         /\ \A v \in Number : [r EXCEPT !.fence = v] \in Row
         /\ \A v \in Number : [r EXCEPT !.attempt = v] \in Row
         /\ \A v \in Number : [r EXCEPT !.closed = v] \in Row
         /\ \A v \in Number : [r EXCEPT !.bound = v] \in Row
         /\ \A v \in Number : [r EXCEPT !.token = v] \in Row
         /\ \A v \in Number : [r EXCEPT !.pattempt = v] \in Row
         /\ \A v \in Deadline : [r EXCEPT !.deadline = v] \in Row
         /\ \A v \in Epoch : [r EXCEPT !.epoch = v] \in Row
         /\ \A v \in SUBSET Fence : [r EXCEPT !.open = v] \in Row
         /\ \A v \in Binding : [r EXCEPT !.binding = v] \in Row
         /\ \A v \in BOOLEAN : [r EXCEPT !.held = v] \in Row
         /\ \A v \in BOOLEAN : [r EXCEPT !.admitted = v] \in Row
         /\ \A v \in {0} \cup Task : [r EXCEPT !.parent = v] \in Row
         /\ \A v \in RequestShape : [r EXCEPT !.req = v] \in Row
BY DEF Row

(* The values the commands write have the types of their columns. *)
LEMMA ColumnValues ==
  ASSUME NEW r \in Row
  PROVE  /\ "queued" \in Status /\ "running" \in Status /\ "cancelled" \in Status
         /\ "completed" \in Status /\ "failed" \in Status /\ "cancel_requested" \in Status
         /\ r.status \in Status
         /\ "queued" \in RunStatus /\ "running" \in RunStatus /\ "cancelled" \in RunStatus
         /\ "completed" \in RunStatus /\ "failed" \in RunStatus /\ Requeued(r.run) \in RunStatus
         /\ "none" \in Waiting /\ "dependency" \in Waiting /\ "unknown" \in Waiting
         /\ "none" \in Deadline /\ "live" \in Deadline /\ "overdue" \in Deadline
         /\ "claimed" \in Binding /\ "prepared" \in Binding /\ "stale" \in Binding /\ "none" \in Binding
         /\ r.binding \in Binding /\ ResetBinding(r.binding) \in Binding
         /\ ReleasedBinding(r.binding, "released") \in Binding
         /\ ReleasedBinding(r.binding, "stale") \in Binding
         /\ 0 \in Number /\ ClosedBy(r) \in Number /\ ResetBound(r) \in Number
         /\ NoExecutor \in Holder
         /\ r.open \ {r.attempt} \in SUBSET Fence
         /\ ReleaseReservations(r, r.lease) \in BOOLEAN
<1>1. ClosedBy(r) \in Number /\ ResetBound(r) \in Number
  BY DEF Row, ClosedBy, ResetBound, Number
<1>2. r.binding \in Binding /\ ResetBinding(r.binding) \in Binding
  BY DEF Row, ResetBinding, Binding
<1>3. /\ ReleasedBinding(r.binding, "released") \in Binding
      /\ ReleasedBinding(r.binding, "stale") \in Binding
  BY DEF Row, ReleasedBinding, Binding
<1>4. ReleaseReservations(r, r.lease) \in BOOLEAN
  BY DEF ReleaseReservations
<1>5. r.open \ {r.attempt} \in SUBSET Fence /\ r.status \in Status
  BY DEF Row
<1>6. Requeued(r.run) \in RunStatus
  BY DEF Row, Requeued, RunStatus
<1> QED BY <1>1, <1>2, <1>3, <1>4, <1>5, <1>6
  DEF Status, RunStatus, Terminal, Waiting, Deadline, Binding, Number, Holder

(* Each row transformer of a command other than a claim keeps the row. *)
LEMMA CancelledKeeps ==
  ASSUME NEW r \in Row
  PROVE  Cancelled(r) \in Row /\ Keeps(r, Cancelled(r))
<1>1. Cancelled(r) \in Row
  BY RowUpdate, ColumnValues, ZenonT(60) DEF Cancelled
<1>2. Keeps(r, Cancelled(r))
  BY DEF Row, Cancelled, Keeps, ReleaseReservations
<1> QED BY <1>1, <1>2

(* A cancellation that is only requested (cancel_task, external work). *)
LEMMA CancelRequestedKeeps ==
  ASSUME NEW r \in Row
  PROVE  CancelRequested(r) \in Row /\ Keeps(r, CancelRequested(r))
<1>1. CancelRequested(r) \in Row
  BY RowUpdate, ColumnValues, ZenonT(30) DEF CancelRequested
<1>2. Keeps(r, CancelRequested(r))
  BY DEF Row, CancelRequested, Keeps
<1> QED BY <1>1, <1>2

(* Either form of cancellation. *)
LEMMA CancelKeeps ==
  ASSUME NEW r \in Row
  PROVE  Cancel(r) \in Row /\ Keeps(r, Cancel(r))
BY CancelledKeeps, CancelRequestedKeeps DEF Cancel

(* reset_execution_attempt. *)
LEMMA ResetAttemptKeeps ==
  ASSUME NEW r \in Row
  PROVE  LET s == ResetAttempt(r)
         IN  s \in Row /\ Keeps(r, s) /\ s.open = r.open /\ s.held = r.held
<1>1. ResetAttempt(r) \in Row
  BY RowUpdate, ColumnValues, ZenonT(30) DEF ResetAttempt
<1>2. LET s == ResetAttempt(r)
      IN  Keeps(r, s) /\ s.open = r.open /\ s.held = r.held
  BY DEF Row, ResetAttempt, Keeps
<1> QED BY <1>1, <1>2

(* What an ended lease leaves of a row. *)
LEMMA EndedLeaseValues ==
  ASSUME NEW r \in Row
  PROVE  LET s == ResetAttempt(r)
         IN  /\ s.open \ {r.attempt} \in SUBSET Fence /\ Requeued(s.run) \in RunStatus
             /\ ClosedBy(r) \in Number /\ ReleaseReservations(r, r.lease) \in BOOLEAN
BY ResetAttemptKeeps, ColumnValues

(* An overdue row under _reap_expired_leases. *)
LEMMA ExpiredKeeps ==
  ASSUME NEW r \in Row
  PROVE  Expired(r) \in Row /\ Keeps(r, Expired(r))
<1>1. CASE Unresolved(r)
  <2>1. Expired(r) \in Row
    BY <1>1, RowUpdate, ColumnValues, ZenonT(30) DEF Expired
  <2>2. Keeps(r, Expired(r))
    BY <1>1 DEF Row, Expired, Keeps
  <2> QED BY <2>1, <2>2
<1>2. CASE ~Unresolved(r)
  <2> DEFINE s == ResetAttempt(r)
             b == ReleaseReservations(r, r.lease)
             c == ClosedBy(r)
             x == [s EXCEPT !.status = "queued", !.run = Requeued(@), !.waiting = "none",
                            !.executor = NoExecutor, !.lease = 0, !.deadline = "none",
                            !.open = @ \ {r.attempt}, !.closed = c, !.held = b]
  <2>1. /\ s \in Row /\ Keeps(r, s) /\ s.held = r.held
        /\ s.open \ {r.attempt} \in SUBSET Fence /\ Requeued(s.run) \in RunStatus
        /\ c \in Number /\ b \in BOOLEAN /\ (b => r.held)
    BY ResetAttemptKeeps, EndedLeaseValues DEF ReleaseReservations
  <2>2. Expired(r) = x
    BY <1>2 DEF Expired
  <2> HIDE DEF s, b, c
  <2>3. x \in Row
    BY <2>1, RowUpdate, ColumnValues, ZenonT(60)
  <2>4. Keeps(s, x)
    BY <2>1 DEF Row, Keeps
  <2> HIDE DEF x
  <2> QED BY <2>1, <2>2, <2>3, <2>4, KeepsOrder
<1> QED BY <1>1, <1>2

(* An interrupted row under begin_runtime_session. *)
LEMMA RecoveredKeeps ==
  ASSUME NEW r \in Row
  PROVE  Recovered(r) \in Row /\ Keeps(r, Recovered(r))
<1>1. CASE Unresolved(r)
  <2> DEFINE st == IF r.status = "cancel_requested" THEN r.status ELSE "queued"
             x == [r EXCEPT !.status = st, !.deadline = "none", !.waiting = "unknown",
                            !.closed = ClosedBy(r), !.run = Requeued(@),
                            !.binding = ReleasedBinding(@, "stale")]
  <2>1. st \in Status /\ st # "absent"
    BY ColumnValues
  <2>2. Recovered(r) = x
    BY <1>1 DEF Recovered
  <2> HIDE DEF st
  <2>3. x \in Row
    BY <2>1, RowUpdate, ColumnValues, ZenonT(60)
  <2>4. Keeps(r, x)
    BY <2>1 DEF Row, Keeps
  <2> HIDE DEF x
  <2> QED BY <2>2, <2>3, <2>4
<1>2. CASE ~Unresolved(r)
  <2> DEFINE s == ResetAttempt(r)
             b == ReleaseReservations(r, r.lease)
             c == ClosedBy(r)
             u == [s EXCEPT !.run = Requeued(@), !.open = @ \ {r.attempt}, !.closed = c, !.held = b]
             v == [u EXCEPT !.status = "queued", !.executor = NoExecutor, !.lease = 0,
                            !.deadline = "none", !.attempt = 0, !.waiting = "none"]
  <2>1. /\ s \in Row /\ Keeps(r, s) /\ s.held = r.held
        /\ s.open \ {r.attempt} \in SUBSET Fence /\ Requeued(s.run) \in RunStatus
        /\ c \in Number /\ b \in BOOLEAN /\ (b => r.held)
    BY ResetAttemptKeeps, EndedLeaseValues DEF ReleaseReservations
  <2>2. Recovered(r) = u \/ Recovered(r) = v
    BY <1>2 DEF Recovered
  <2> HIDE DEF s, b, c
  <2>3. u \in Row
    BY <2>1, RowUpdate, ZenonT(30)
  <2>4. Keeps(s, u)
    BY <2>1 DEF Row, Keeps
  <2> HIDE DEF u
  <2>5. v \in Row
    BY <2>3, RowUpdate, ColumnValues, ZenonT(60)
  <2>6. Keeps(u, v)
    BY <2>3 DEF Row, Keeps
  <2> HIDE DEF v
  <2> QED BY <2>1, <2>2, <2>3, <2>4, <2>5, <2>6, KeepsOrder
<1> QED BY <1>1, <1>2

(* A row under retry_task or retry_run. *)
LEMMA RetriedKeeps ==
  ASSUME NEW r \in Row
  PROVE  Retried(r) \in Row /\ Keeps(r, Retried(r))
<1> DEFINE s == ResetAttempt(r)
           b == ReleaseReservations(r, r.lease)
           x == [s EXCEPT !.status = "queued", !.run = "queued", !.waiting = "none",
                          !.executor = NoExecutor, !.lease = 0, !.deadline = "none",
                          !.attempt = 0, !.held = b]
<1>1. s \in Row /\ Keeps(r, s) /\ s.held = r.held /\ b \in BOOLEAN /\ (b => r.held)
  BY ResetAttemptKeeps, EndedLeaseValues DEF ReleaseReservations
<1>2. Retried(r) = x
  BY DEF Retried
<1> HIDE DEF s, b
<1>3. x \in Row
  BY <1>1, RowUpdate, ColumnValues, ZenonT(30)
<1>4. Keeps(s, x)
  BY <1>1 DEF Row, Keeps
<1> HIDE DEF x
<1> QED BY <1>1, <1>2, <1>3, <1>4, KeepsOrder

(* A row under _settle_attempt or fail_task. *)
LEMMA FinishedKeeps ==
  ASSUME NEW r \in Row, NEW n \in Fence, NEW outcome \in {"completed", "failed"}
  PROVE  Finished(r, n, outcome) \in Row /\ Keeps(r, Finished(r, n, outcome))
<1>1. r.open \ {n} \in SUBSET Fence /\ ReleaseReservations(r, n) \in BOOLEAN
  BY DEF Row, ReleaseReservations
<1>2. outcome \in Status /\ outcome \in RunStatus
  BY DEF Status, RunStatus, Terminal
<1>3. Finished(r, n, outcome) \in Row
  BY <1>1, <1>2, RowUpdate, ColumnValues, ZenonT(60) DEF Finished
<1>4. Keeps(r, Finished(r, n, outcome))
  BY DEF Row, Finished, Keeps, ReleaseReservations
<1> QED BY <1>3, <1>4

(* Binding the attempt a claim created. *)
LEMMA BoundKeeps ==
  ASSUME NEW r \in Row, r.fence \in Fence
  PROVE  /\ Bound(r) \in Row /\ Keeps(r, Bound(r))
         /\ Bound(r).lease = r.lease /\ Bound(r).status = r.status
<1>1. r.open \cup {r.fence} \in SUBSET Fence /\ r.fence \in Number
  BY DEF Row
<1>2. /\ (IF r.binding = "none" THEN r.binding ELSE "claimed") \in Binding
      /\ (IF r.binding = "none" THEN r.bound ELSE r.fence) \in Number
  BY ColumnValues DEF Row
<1>3. Bound(r) \in Row
  BY <1>1, <1>2, RowUpdate, ZenonT(30) DEF Bound
<1>4. Keeps(r, Bound(r)) /\ Bound(r).lease = r.lease /\ Bound(r).status = r.status
  BY DEF Row, Bound, Keeps
<1> QED BY <1>3, <1>4

(* Recording a waiting reason. *)
LEMMA WaitsKeeps ==
  ASSUME NEW r \in Row
  PROVE  Waits(r, "none") \in Row /\ Keeps(r, Waits(r, "none"))
<1>1. Waits(r, "none") \in Row
  BY RowUpdate, ColumnValues DEF Waits
<1>2. Keeps(r, Waits(r, "none"))
  BY DEF Row, Waits, Keeps
<1> QED BY <1>1, <1>2

(* Admitting a continuation, or recording why it waits. *)
LEMMA AdmitContinuationKeeps ==
  ASSUME NEW r \in Row, NEW rs
  PROVE  AdmitContinuation(rs, r) \in Row /\ Keeps(r, AdmitContinuation(rs, r))
<1>1. AdmitContinuation(rs, r) \in Row
  BY RowUpdate, ColumnValues, ZenonT(30) DEF AdmitContinuation
<1>2. Keeps(r, AdmitContinuation(rs, r))
  BY DEF Row, AdmitContinuation, Keeps
<1> QED BY <1>1, <1>2

(* A claim takes the next fence for the executor, and the reservation of    *)
(* the keys the task names, if any.                                         *)
LEMMA ClaimedRow ==
  ASSUME NEW r \in Row, NEW e \in Holder, r.fence < MaxFence, epoch \in Epoch
  PROVE  LET s == Claimed(r, e)
         IN  /\ s \in Row /\ s.fence = r.fence + 1 /\ s.fence \in Fence
             /\ s.lease = s.fence /\ s.status = "running" /\ s.req = r.req
             /\ s.req.keys # {} => s.holder = e
<1> DEFINE l == Leased(r, e)
<1>1. r.fence + 1 \in Fence /\ r.fence + 1 \in Number
  BY BoundAssumption DEF Row, Number, Fence
<1>2. TRUE \in BOOLEAN
  OBVIOUS
<1>3. l \in Row
  BY <1>1, <1>2, RowUpdate, ColumnValues, ZenonT(60) DEF Leased
<1>4. /\ l.fence = r.fence + 1 /\ l.lease = l.fence /\ l.status = "running" /\ l.req = r.req
  BY DEF Leased, Row
<1> HIDE DEF l
<1>5. l.lease \in Number
  BY <1>3 DEF Row
<1>6. Reserved(l, e) \in Row
  BY <1>2, <1>3, <1>5, RowUpdate, ZenonT(30) DEF Reserved
<1>7. /\ Reserved(l, e).fence = l.fence /\ Reserved(l, e).lease = l.lease
      /\ Reserved(l, e).status = l.status /\ Reserved(l, e).req = l.req
      /\ l.req.keys # {} => Reserved(l, e).holder = e
  BY <1>3 DEF Reserved, Row
<1> QED BY <1>1, <1>4, <1>6, <1>7 DEF Claimed, l

-----------------------------------------------------------------------------
(* Tables.                                                                  *)

TableKeeps(rs, ss) ==
  /\ ss \in [Task -> Row]
  /\ \A t \in Task : Keeps(rs[t], ss[t])

(* Keeping a table is transitive. *)
LEMMA TableTrans ==
  ASSUME NEW rs, NEW ss, NEW us, TableKeeps(rs, ss), TableKeeps(ss, us)
  PROVE  TableKeeps(rs, us)
BY KeepsOrder DEF TableKeeps

(* Replacing one row by one that keeps it keeps the table. *)
LEMMA TableUpdate ==
  ASSUME NEW rs \in [Task -> Row], NEW t \in Task, NEW s \in Row, Keeps(rs[t], s)
  PROVE  TableKeeps(rs, [rs EXCEPT ![t] = s])
BY KeepsOrder DEF TableKeeps

(* contain_delegated_children keeps the table. *)
LEMMA ContainKeeps ==
  ASSUME NEW rs \in [Task -> Row], NEW p, NEW n
  PROVE  TableKeeps(rs, Contain(rs, p, n))
BY CancelKeeps, KeepsOrder DEF TableKeeps, Contain

(* Refreshing continuations keeps the table. *)
LEMMA RefreshKeeps ==
  ASSUME NEW rs \in [Task -> Row]
  PROVE  TableKeeps(rs, RefreshContinuations(rs))
BY AdmitContinuationKeeps, KeepsOrder DEF TableKeeps, RefreshContinuations

(* Reaping keeps the table. *)
LEMMA ReapedKeeps ==
  ASSUME row \in [Task -> Row]
  PROVE  TableKeeps(row, Reaped)
<1>1. ASSUME NEW t \in Task
      PROVE  Contained(t) \in Row /\ Keeps(row[t], Contained(t))
  <2> DEFINE r == IF Abandons(t) THEN [row[t] EXCEPT !.closed = ClosedBy(row[t])] ELSE row[t]
  <2>1. row[t] \in Row
    OBVIOUS
  <2>2. [row[t] EXCEPT !.closed = ClosedBy(row[t])] \in Row
    BY <2>1, RowUpdate, ColumnValues
  <2>3. Keeps(row[t], [row[t] EXCEPT !.closed = ClosedBy(row[t])])
    BY <2>1 DEF Keeps, Row
  <2>4. r \in Row /\ Keeps(row[t], r)
    BY <2>1, <2>2, <2>3, KeepsOrder
  <2>5. Contained(t) = IF Orphan(t) /\ Containable(r) THEN Cancel(r) ELSE r
    BY DEF Contained
  <2> HIDE DEF r
  <2> QED BY <2>4, <2>5, CancelKeeps, KeepsOrder
<1> DEFINE rs == [t \in Task |-> IF Overdue(Contained(t)) THEN Expired(Contained(t)) ELSE Contained(t)]
<1>2. TableKeeps(row, rs)
  BY <1>1, ExpiredKeeps, KeepsOrder DEF TableKeeps
<1>3. Reaped = RefreshContinuations(rs)
  BY DEF Reaped
<1> HIDE DEF rs
<1> QED BY <1>2, <1>3, RefreshKeeps, TableTrans DEF TableKeeps

(* A restart keeps the table. *)
LEMMA RestartedKeeps ==
  ASSUME row \in [Task -> Row]
  PROVE  TableKeeps(row, Restarted)
<1> DEFINE contained(t) ==
             LET p == row[t].parent
             IN  IF /\ p # 0 /\ Interrupted(row[p])
                    /\ ChildOfAttempt(row, t, p, row[p].attempt)
                    /\ Containable(row[t])
                 THEN Cancel(row[t]) ELSE row[t]
           rs == [t \in Task |-> IF Interrupted(row[t]) /\ Interrupted(contained(t))
                                 THEN Recovered(contained(t)) ELSE contained(t)]
<1>1. \A t \in Task : contained(t) \in Row /\ Keeps(row[t], contained(t))
  BY CancelKeeps, KeepsOrder
<1>2. Restarted = RefreshContinuations(rs)
  BY DEF Restarted
<1> HIDE DEF contained
<1>3. TableKeeps(row, rs)
  BY <1>1, RecoveredKeeps, KeepsOrder DEF TableKeeps
<1> HIDE DEF rs
<1> QED BY <1>2, <1>3, RefreshKeeps, TableTrans DEF TableKeeps

-----------------------------------------------------------------------------
(* The three kinds of step.                                                 *)

InsertStep(t) ==
  /\ row[t].status = "absent"
  /\ row' \in [Task -> Row]
  /\ \A u \in Task \ {t} : row'[u] = row[u]
  /\ ~row'[t].held /\ row'[t].fence = 0 /\ row'[t].status # "absent"

ClaimStep(t) ==
  /\ row' \in [Task -> Row]
  /\ \A u \in Task \ {t} : Keeps(row[u], row'[u])
  /\ row'[t].fence = row[t].fence + 1 /\ row'[t].fence \in Fence
  /\ row'[t].status = "running" /\ row'[t].lease = row'[t].fence
  /\ \A u \in Task \ {t} :
       row'[u].held /\ row'[u].holder = row'[t].holder
         => row'[u].req.keys \cap row'[t].req.keys = {}

(* A claim by claim_next or by resume_attempt: the occupied check covers    *)
(* the keys of every other reservation of the executor.                     *)
LEMMA ClaimIsClaimStep ==
  ASSUME row \in [Task -> Row], epoch \in Epoch,
         NEW t \in Task, NEW e \in Holder, NEW r \in Row,
         Keeps(Reaped[t], r), r.fence < MaxFence, ~Occupied(Reaped, e, r.req.keys),
         NEW s, s = Claimed(r, e) \/ s = Bound(Claimed(r, e)),
         row' = [Reaped EXCEPT ![t] = s]
  PROVE  ClaimStep(t)
<1>1. Reaped \in [Task -> Row] /\ \A u \in Task : Keeps(row[u], Reaped[u])
  BY ReapedKeeps DEF TableKeeps
<1>2. /\ s \in Row /\ s.fence = r.fence + 1 /\ s.fence \in Fence
      /\ s.lease = s.fence /\ s.status = "running" /\ s.req = r.req
      /\ s.req.keys # {} => s.holder = e
  BY ClaimedRow, BoundKeeps DEF Keeps
<1>3. row' \in [Task -> Row] /\ row'[t] = s /\ \A u \in Task \ {t} : row'[u] = Reaped[u]
  BY <1>1, <1>2
<1>4. s.fence = row[t].fence + 1
  BY <1>1, <1>2 DEF Keeps
<1>5. ASSUME NEW u \in Task \ {t}, row'[u].held, row'[u].holder = row'[t].holder
      PROVE  row'[u].req.keys \cap row'[t].req.keys = {}
  <2>1. CASE s.req.keys = {}
    BY <2>1, <1>3
  <2>2. CASE s.req.keys # {}
    BY <2>2, <1>2, <1>3, <1>5 DEF Occupied
  <2> QED BY <2>1, <2>2
<1> QED BY <1>1, <1>2, <1>3, <1>4, <1>5 DEF ClaimStep

(* The row a claim looks at, its continuation admitted if it can be. *)
LEMMA ClaimRowKeeps ==
  ASSUME NEW rs \in [Task -> Row], NEW t \in Task
  PROVE  ClaimRow(rs, t) \in Row /\ Keeps(rs[t], ClaimRow(rs, t))
BY AdmitContinuationKeeps, KeepsOrder DEF ClaimRow

(* A row a create_task or admit_delegated_child inserts. *)
LEMMA NewRowType ==
  ASSUME NEW q \in RequestShape
  PROVE  /\ NewRow(q) \in Row /\ ~NewRow(q).held
         /\ NewRow(q).fence = 0 /\ NewRow(q).status = "queued"
<1>1. Absent \in Row
  BY BoundAssumption DEF Absent, Row, Status, Terminal, RunStatus, Waiting, Holder, Number, Deadline, Epoch, Binding
<1>2. (IF q.external THEN "prepared" ELSE "none") \in Binding
  BY DEF Binding
<1>3. NewRow(q) \in Row
  BY <1>1, <1>2, RowUpdate, ColumnValues, ZenonT(30) DEF NewRow
<1>4. ~NewRow(q).held /\ NewRow(q).fence = 0 /\ NewRow(q).status = "queued"
  BY DEF NewRow, Absent
<1> QED BY <1>3, <1>4

-----------------------------------------------------------------------------
(* Each action is a step of one of the three kinds.                         *)

ResumeFence ==
  /\ resume.step = "claim" => resume.task \in Task /\ row[resume.task].fence < MaxFence
  /\ resume.step = "bind" => resume.task \in Task /\ row[resume.task].fence \in Fence

(* create_task inserts one row. *)
LEMMA CreateTaskStep ==
  ASSUME TypeOK, NEW t \in Task, NEW q \in Requests[t], CreateTask(t, q)
  PROVE  InsertStep(t)
<1> DEFINE r == NewRow(q)
           s == IF Dependent(r) THEN AdmitContinuation(row, r) ELSE r
<1>1. r \in Row /\ ~r.held /\ r.fence = 0 /\ r.status = "queued"
  BY NewRowType, RequestsAssumption
<1>2. row' = [row EXCEPT ![t] = s] /\ row[t].status = "absent"
  BY DEF CreateTask, Commit, NextRowid
<1> HIDE DEF r
<1>3. s \in Row /\ Keeps(r, s)
  BY <1>1, AdmitContinuationKeeps, KeepsOrder
<1>4. s.status # "absent" /\ ~s.held /\ s.fence = 0
  BY <1>1, <1>3 DEF Keeps
<1> HIDE DEF s
<1> QED BY <1>2, <1>3, <1>4 DEF InsertStep, TypeOK

(* admit_delegated_child inserts one row. *)
LEMMA AdmitDelegatedChildStep ==
  ASSUME TypeOK, NEW t \in Task, NEW q \in ChildRequests, NEW p \in Task, NEW n \in Fence,
         AdmitDelegatedChild(t, q, p, n)
  PROVE  InsertStep(t)
<1> DEFINE r == NewRow(q)
           s == [r EXCEPT !.parent = p, !.pattempt = n]
<1>1. r \in Row /\ ~r.held /\ r.fence = 0 /\ r.status = "queued"
  BY NewRowType, RequestsAssumption
<1>2. row' = [row EXCEPT ![t] = s] /\ row[t].status = "absent"
  BY DEF AdmitDelegatedChild, Commit, NextRowid
<1> HIDE DEF r
<1>3. s \in Row
  BY <1>1, RowUpdate, ZenonT(30) DEF Number
<1>4. s.status # "absent" /\ ~s.held /\ s.fence = 0
  BY <1>1 DEF Row
<1> HIDE DEF s
<1> QED BY <1>2, <1>3, <1>4 DEF InsertStep, TypeOK

(* claim_next claims one row. *)
LEMMA ClaimGrantedStep ==
  ASSUME TypeOK, NEW e \in Executor, NEW t \in Task, ClaimGranted(e, t)
  PROVE  ClaimStep(t)
<1>1. Reaped \in [Task -> Row]
  BY ReapedKeeps DEF TableKeeps, TypeOK
<1> DEFINE r == ClaimRow(Reaped, t)
<1>2. r \in Row /\ Keeps(Reaped[t], r)
  BY <1>1, ClaimRowKeeps
<1>3. /\ ~Occupied(Reaped, e, r.req.keys) /\ r.fence < MaxFence
      /\ row' = [Reaped EXCEPT ![t] = Bound(Claimed(r, e))]
  BY DEF ClaimGranted, Commit
<1> HIDE DEF r
<1> QED BY <1>2, <1>3, ClaimIsClaimStep, ZenonT(30) DEF TypeOK, Holder

(* resume_attempt's second commit claims one row. *)
LEMMA ResumeClaimStep ==
  ASSUME TypeOK, ResumeFence, NEW t \in Task, NEW n \in Fence, ResumeClaim(t, n)
  PROVE  ClaimStep(t)
<1> DEFINE e == att[t][n].executor
<1>1. Reaped \in [Task -> Row] /\ Keeps(row[t], Reaped[t])
  BY ReapedKeeps DEF TableKeeps, TypeOK
<1>2. e \in Holder
  BY DEF TypeOK, Attempt
<1>3. row[t].fence < MaxFence
  BY DEF ResumeClaim, ResumeFence
<1>4. Reaped[t].fence < MaxFence
  BY <1>1, <1>3 DEF Keeps
<1>5. /\ ~Occupied(Reaped, e, Reaped[t].req.keys)
      /\ row' = [Reaped EXCEPT ![t] = Claimed(Reaped[t], e)]
  BY DEF ResumeClaim, Commit
<1> HIDE DEF e
<1> QED BY <1>1, <1>2, <1>4, <1>5, ClaimIsClaimStep, KeepsOrder, ZenonT(30) DEF TypeOK

(* A passing deadline keeps the table. *)
LEMMA LeaseExpiresStep ==
  ASSUME TypeOK, NEW t \in Task, LeaseExpires(t)
  PROVE  TableKeeps(row, row')
<1>1. row[t] \in Row /\ row' = [row EXCEPT ![t] = [row[t] EXCEPT !.deadline = "overdue"]]
  BY DEF TypeOK, LeaseExpires, Commit
<1>2. [row[t] EXCEPT !.deadline = "overdue"] \in Row
  BY <1>1, RowUpdate, ColumnValues
<1>3. Keeps(row[t], [row[t] EXCEPT !.deadline = "overdue"])
  BY <1>1 DEF Keeps, Row
<1> QED BY <1>1, <1>2, <1>3, TableUpdate, ZenonT(30) DEF TypeOK

(* A read, or a claim that finds nothing to grant, keeps the table. *)
LEMMA ReapStep ==
  ASSUME TypeOK, ReapOverdueLeases \/ (\E e \in Executor : ClaimEmpty(e))
                   \/ (\E e \in Executor, t \in Task : ClaimUnresolved(e, t))
  PROVE  TableKeeps(row, row')
BY ReapedKeeps DEF TypeOK, ReapOverdueLeases, ClaimEmpty, ClaimUnresolved, Commit

(* A refused claim keeps the table. *)
LEMMA ClaimRefusedStep ==
  ASSUME TypeOK, NEW e \in Executor, NEW t \in Task, NEW fit \in BOOLEAN, ClaimRefused(e, t, fit)
  PROVE  TableKeeps(row, row')
<1>1. Reaped \in [Task -> Row] /\ TableKeeps(row, Reaped)
  BY ReapedKeeps DEF TableKeeps, TypeOK
<1> DEFINE r == ClaimRow(Reaped, t)
<1>2. r \in Row /\ Keeps(Reaped[t], r)
  BY <1>1, ClaimRowKeeps
<1>3. \E s \in {r, Waits(r, "none"), Waits(Reaped[t], "none")} : row' = [Reaped EXCEPT ![t] = s]
  BY DEF ClaimRefused, Commit
<1> HIDE DEF r
<1>4. \A s \in {r, Waits(r, "none"), Waits(Reaped[t], "none")} : s \in Row /\ Keeps(Reaped[t], s)
  BY <1>1, <1>2, WaitsKeeps, KeepsOrder
<1> QED BY <1>1, <1>3, <1>4, TableUpdate, TableTrans, ZenonT(30)

(* Updating a row that a kept table holds, then refreshing continuations. *)
LEMMA UpdateRefreshKeeps ==
  ASSUME TypeOK, NEW rs, TableKeeps(row, rs), NEW t \in Task, NEW s \in Row, Keeps(row[t], s)
  PROVE  TableKeeps(row, RefreshContinuations([rs EXCEPT ![t] = s]))
<1> DEFINE us == [rs EXCEPT ![t] = s]
<1>1. TableKeeps(row, us)
  BY DEF TableKeeps
<1> HIDE DEF us
<1> QED BY <1>1, RefreshKeeps, TableTrans, ZenonT(30) DEF TableKeeps, us

(* settle_attempt keeps the table. *)
LEMMA SettleAttemptStep ==
  ASSUME TypeOK, NEW t \in Task, NEW n \in Fence, SettleAttempt(t, n)
  PROVE  TableKeeps(row, row')
<1>1. row' = RefreshContinuations([row EXCEPT ![t] = Finished(row[t], n, "completed")])
  BY DEF SettleAttempt, Commit
<1>2. row[t] \in Row /\ TableKeeps(row, row)
  BY KeepsOrder DEF TypeOK, TableKeeps
<1> QED BY <1>1, <1>2, FinishedKeeps, UpdateRefreshKeeps

(* fail_attempt keeps the table. *)
LEMMA FailAttemptStep ==
  ASSUME TypeOK, NEW t \in Task, NEW n \in Fence, FailAttempt(t, n)
  PROVE  TableKeeps(row, row')
<1> DEFINE f == Finished(row[t], n, "failed")
           s == [f EXCEPT !.closed = ClosedBy(row[t])]
<1>1. row' = RefreshContinuations([Contain(row, t, n) EXCEPT ![t] = s])
  BY DEF FailAttempt, Commit
<1>2. row[t] \in Row /\ TableKeeps(row, Contain(row, t, n))
  BY ContainKeeps DEF TypeOK
<1>3. f \in Row /\ Keeps(row[t], f)
  BY <1>2, FinishedKeeps
<1>4. ClosedBy(row[t]) \in Number
  BY <1>2, ColumnValues
<1> HIDE DEF f
<1>5. s \in Row
  BY <1>3, <1>4, RowUpdate
<1>6. Keeps(f, s)
  BY <1>3 DEF Keeps, Row
<1> HIDE DEF s
<1> QED BY <1>1, <1>2, <1>3, <1>5, <1>6, KeepsOrder, UpdateRefreshKeeps

(* cancel_task keeps the table. *)
LEMMA CancelTaskStep ==
  ASSUME TypeOK, NEW t \in Task, CancelTask(t)
  PROVE  TableKeeps(row, row')
<1>1. row' = RefreshContinuations([Contain(row, t, 0) EXCEPT ![t] = Cancel(row[t])])
  BY DEF CancelTask, Commit
<1>2. row[t] \in Row /\ TableKeeps(row, Contain(row, t, 0))
  BY ContainKeeps DEF TypeOK
<1> QED BY <1>1, <1>2, CancelKeeps, UpdateRefreshKeeps

(* cancel_run keeps the table. *)
LEMMA CancelRunStep ==
  ASSUME TypeOK, NEW t \in Task, CancelRun(t)
  PROVE  TableKeeps(row, row')
<1> DEFINE c == Cancel(row[t])
           s == [c EXCEPT !.run = "cancelled"]
<1>1. row' = RefreshContinuations([Contain(row, t, 0) EXCEPT ![t] = s])
  BY DEF CancelRun, Commit
<1>2. row[t] \in Row /\ TableKeeps(row, Contain(row, t, 0))
  BY ContainKeeps DEF TypeOK
<1>3. c \in Row /\ Keeps(row[t], c)
  BY <1>2, CancelKeeps
<1> HIDE DEF c
<1>4. s \in Row
  BY <1>3, RowUpdate, ColumnValues
<1>5. Keeps(c, s)
  BY <1>3 DEF Keeps, Row
<1> HIDE DEF s
<1> QED BY <1>1, <1>2, <1>3, <1>4, <1>5, KeepsOrder, UpdateRefreshKeeps

(* Both retries keep the table. *)
LEMMA RetryStep ==
  ASSUME TypeOK, NEW t \in Task, RetryTask(t) \/ RetryRun(t)
  PROVE  TableKeeps(row, row')
<1>1. row' = RefreshContinuations([row EXCEPT ![t] = Retried(row[t])])
  BY DEF RetryTask, RetryRun, Commit
<1>2. row[t] \in Row /\ TableKeeps(row, row)
  BY KeepsOrder DEF TypeOK, TableKeeps
<1> QED BY <1>1, <1>2, RetriedKeeps, UpdateRefreshKeeps

(* resume_attempt's first commit keeps the table. *)
LEMMA ResumeResetStep ==
  ASSUME TypeOK, NEW t \in Task, NEW n \in Fence, ResumeReset(t, n)
  PROVE  TableKeeps(row, row')
<1> DEFINE s == ResetAttempt(row[t])
<1>1. row[t] \in Row /\ row' = [row EXCEPT ![t] = s]
  BY DEF TypeOK, ResumeReset, Commit
<1>2. s \in Row
  BY <1>1, RowUpdate, ColumnValues, ZenonT(30) DEF ResetAttempt
<1>3. Keeps(row[t], s)
  BY <1>1 DEF Keeps, Row, ResetAttempt
<1> QED BY <1>1, <1>2, <1>3, TableUpdate, ZenonT(30) DEF TypeOK

(* A refused resume keeps the table. *)
LEMMA ResumeRefusedStep ==
  ASSUME TypeOK, NEW t \in Task, NEW n \in Fence, NEW fit \in BOOLEAN, ResumeRefused(t, n, fit)
  PROVE  TableKeeps(row, row')
<1>1. Reaped \in [Task -> Row] /\ TableKeeps(row, Reaped)
  BY ReapedKeeps DEF TableKeeps, TypeOK
<1>2. row' = row \/ row' = [Reaped EXCEPT ![t] = Waits(Reaped[t], "none")]
  BY DEF ResumeRefused, Commit
<1>3. Waits(Reaped[t], "none") \in Row /\ Keeps(Reaped[t], Waits(Reaped[t], "none"))
  BY <1>1, WaitsKeeps
<1>4. TableKeeps(row, row)
  BY KeepsOrder DEF TypeOK, TableKeeps
<1> QED BY <1>1, <1>2, <1>3, <1>4, TableUpdate, TableTrans

(* resume_attempt's third commit keeps the table. *)
LEMMA ResumeBindStep ==
  ASSUME TypeOK, ResumeFence, NEW t \in Task, NEW n \in Fence, ResumeBind(t, n)
  PROVE  TableKeeps(row, row')
<1>1. row[t] \in Row /\ row' = [row EXCEPT ![t] = Bound(row[t])] /\ row[t].fence \in Fence
  BY DEF TypeOK, ResumeBind, Commit, ResumeFence
<1> QED BY <1>1, BoundKeeps, TableUpdate, ZenonT(30) DEF TypeOK

(* recover_task_placement keeps the table. *)
LEMMA RecoverPlacementStep ==
  ASSUME TypeOK, NEW t \in Task, RecoverPlacement(t)
  PROVE  TableKeeps(row, row')
<1> DEFINE p(c) == [row[c] EXCEPT !.binding = "prepared", !.bound = 0]
           b(c) == IF row[c].binding = "prepared" THEN "stale" ELSE row[c].binding
           q(c) == [row[c] EXCEPT !.status = "cancelled", !.run = "cancelled", !.waiting = "none",
                                  !.executor = NoExecutor, !.lease = 0, !.deadline = "none",
                                  !.binding = b(c)]
<1>1. row' = [c \in Task |-> CASE c = t -> p(t)
                              [] row[c].parent = t /\ row[c].status = "queued" -> q(c)
                              [] OTHER -> row[c]]
  BY ZenonT(30) DEF RecoverPlacement, Commit
<1>2. ASSUME NEW c \in Task
      PROVE  p(c) \in Row /\ q(c) \in Row /\ Keeps(row[c], p(c)) /\ Keeps(row[c], q(c))
  <2>1. row[c] \in Row
    BY DEF TypeOK
  <2>2. b(c) \in Binding
    BY <2>1, ColumnValues
  <2>3. p(c) \in Row
    BY <2>1, RowUpdate, ColumnValues, ZenonT(30)
  <2>4. Keeps(row[c], p(c)) /\ Keeps(row[c], q(c))
    BY <2>1 DEF Keeps, Row
  <2> HIDE DEF b
  <2>5. q(c) \in Row
    BY <2>1, <2>2, RowUpdate, ColumnValues, ZenonT(60)
  <2> QED BY <2>3, <2>4, <2>5
<1> HIDE DEF p, q
<1> QED BY <1>1, <1>2, KeepsOrder DEF TableKeeps, TypeOK

(* begin_runtime_session keeps the table. *)
LEMMA BeginRuntimeSessionStep ==
  ASSUME TypeOK, BeginRuntimeSession
  PROVE  TableKeeps(row, row')
BY RestartedKeeps DEF TypeOK, BeginRuntimeSession, Commit

(* A step that leaves the rows alone keeps the table. *)
LEMMA UnchangedStep ==
  ASSUME TypeOK, row' = row
  PROVE  TableKeeps(row, row')
BY KeepsOrder DEF TypeOK, TableKeeps

-----------------------------------------------------------------------------
(* The inductive invariant.                                                 *)

FreshRows == \A t \in Task : row[t].status = "absent" => row[t].fence = 0

LedgerInv == TypeOK /\ ResumeFence /\ FreshRows /\ ReservationExclusive

(* Every step keeps the table, inserts one row, or claims one row. *)
LEMMA StepKinds ==
  ASSUME TypeOK, ResumeFence, [Next]_vars
  PROVE  TableKeeps(row, row') \/ (\E t \in Task : InsertStep(t) \/ ClaimStep(t))
<1>1. CASE \E t \in Task : Client(t) \/ LeaseExpires(t)
  BY <1>1, CreateTaskStep, AdmitDelegatedChildStep, CancelTaskStep, CancelRunStep, RetryStep,
     RecoverPlacementStep, LeaseExpiresStep DEF Client
<1>2. ASSUME NEW t \in Task, NEW n \in Fence, Worker(t, n)
      PROVE  TableKeeps(row, row') \/ ClaimStep(t)
  <2>1. CASE CheckpointAttempt(t, n) \/ RequestReboot(t, n) \/ RebootOutcome(t, n) \/ ResumeMark(t, n)
    BY <2>1, UnchangedStep DEF CheckpointAttempt, RequestReboot, RebootOutcome, ResumeMark
  <2>2. CASE SettleAttempt(t, n) \/ FailAttempt(t, n) \/ ResumeReset(t, n) \/ ResumeBind(t, n)
             \/ \E fit \in BOOLEAN : ResumeRefused(t, n, fit)
    BY <2>2, SettleAttemptStep, FailAttemptStep, ResumeResetStep, ResumeBindStep, ResumeRefusedStep
  <2>3. CASE ResumeClaim(t, n)
    BY <2>3, ResumeClaimStep
  <2> QED BY <1>2, <2>1, <2>2, <2>3 DEF Worker, ResumeStepOf
<1>3. CASE \E e \in Executor : Claim(e)
  BY <1>3, ReapStep, ClaimRefusedStep, ClaimGrantedStep DEF Claim
<1>4. CASE ReapOverdueLeases
  BY <1>4, ReapStep
<1>5. CASE BeginRuntimeSession
  BY <1>5, BeginRuntimeSessionStep
<1>6. CASE UNCHANGED vars
  BY <1>6, UnchangedStep DEF vars
<1> QED BY <1>1, <1>2, <1>3, <1>4, <1>5, <1>6 DEF Next

(* Every step leaves a table of rows. *)
LEMMA RowsTyped ==
  ASSUME TypeOK, ResumeFence, [Next]_vars
  PROVE  row' \in [Task -> Row]
BY StepKinds DEF TableKeeps, InsertStep, ClaimStep

(* Attempts, the epoch and the resume in progress keep their types. *)
LEMMA AttemptsTyped ==
  ASSUME TypeOK, ResumeFence, [Next]_vars
  PROVE  att' \in [Task -> [Fence -> Attempt]] /\ epoch' \in Epoch
<1>1. \A t \in Task, n \in Fence : att[t] \in [Fence -> Attempt] /\ att[t][n] \in Attempt
  BY DEF TypeOK
<1>2. ASSUME NEW t \in Task, NEW n \in Fence, NEW a \in Attempt,
             att' = [att EXCEPT ![t] = [att[t] EXCEPT ![n] = a]]
      PROVE  att' \in [Task -> [Fence -> Attempt]]
  <2>1. [att[t] EXCEPT ![n] = a] \in [Fence -> Attempt]
    BY <1>1
  <2> QED BY <1>2, <2>1 DEF TypeOK
<1>ckpt. ASSUME NEW t \in Task, NEW n \in Fence, NEW c \in CkptState, Ckpt(t, n, c)
      PROVE  att' \in [Task -> [Fence -> Attempt]]
  <2> DEFINE a == [att[t][n] EXCEPT !.ckpt = c]
  <2>1. att' = [att EXCEPT ![t] = [att[t] EXCEPT ![n] = a]]
    BY <1>ckpt DEF Ckpt
  <2>2. a \in Attempt
    BY <1>1 DEF Attempt
  <2> HIDE DEF a
  <2> QED BY <2>1, <2>2, <1>2, ZenonT(30)
<1>owner. ASSUME NEW t \in Task, NEW n \in Fence, NEW e \in Holder,
             att' = [att EXCEPT ![t] = [att[t] EXCEPT ![n] =
                       [att[t][n] EXCEPT !.executor = e, !.epoch = epoch]]]
      PROVE  att' \in [Task -> [Fence -> Attempt]]
  <2> DEFINE a == [att[t][n] EXCEPT !.executor = e, !.epoch = epoch]
  <2>1. a \in Attempt
    BY <1>1, ZenonT(60) DEF Attempt, TypeOK
  <2> HIDE DEF a
  <2> QED BY <1>owner, <2>1, <1>2, ZenonT(30) DEF a
<1>3. CASE \E t \in Task : Client(t) \/ LeaseExpires(t)
  BY <1>3, ZenonT(30) DEF Client, LeaseExpires, CreateTask, AdmitDelegatedChild, CancelTask, CancelRun,
              RetryTask, RetryRun, RecoverPlacement, TypeOK
<1>4. ASSUME NEW t \in Task, NEW n \in Fence, Worker(t, n)
      PROVE  att' \in [Task -> [Fence -> Attempt]] /\ epoch' \in Epoch
  <2>1. CASE CheckpointAttempt(t, n) \/ RequestReboot(t, n) \/ RebootOutcome(t, n) \/ ResumeMark(t, n)
    BY <2>1, <1>ckpt DEF CheckpointAttempt, RequestReboot, RebootOutcome, ResumeMark, CkptState, TypeOK
  <2>2. CASE SettleAttempt(t, n) \/ FailAttempt(t, n) \/ ResumeReset(t, n) \/ ResumeClaim(t, n)
             \/ \E fit \in BOOLEAN : ResumeRefused(t, n, fit)
    BY <2>2 DEF SettleAttempt, FailAttempt, ResumeReset, ResumeClaim, ResumeRefused, TypeOK
  <2>3. CASE ResumeBind(t, n)
    <3>1. att[t][n].executor \in Holder /\ row[t].fence \in Fence
      BY <2>3 DEF ResumeBind, ResumeFence, TypeOK, Attempt
    <3>2. /\ att' = [att EXCEPT ![t] = [att[t] EXCEPT ![row[t].fence] =
                       [att[t][row[t].fence] EXCEPT !.executor = att[t][n].executor, !.epoch = epoch]]]
          /\ epoch' = epoch
      BY <2>3 DEF ResumeBind
    <3> QED BY <3>1, <3>2, <1>owner, ZenonT(30) DEF TypeOK
  <2> QED BY <1>4, <2>1, <2>2, <2>3 DEF Worker, ResumeStepOf
<1>5. ASSUME NEW e \in Executor, Claim(e)
      PROVE  att' \in [Task -> [Fence -> Attempt]] /\ epoch' \in Epoch
  <2>1. CASE ClaimEmpty(e) \/ (\E t \in Task : ClaimUnresolved(e, t))
             \/ (\E t \in Task, fit \in BOOLEAN : ClaimRefused(e, t, fit))
    BY <2>1, ZenonT(30) DEF ClaimEmpty, ClaimUnresolved, ClaimRefused, TypeOK
  <2>2. ASSUME NEW t \in Task, ClaimGranted(e, t)
        PROVE  att' \in [Task -> [Fence -> Attempt]] /\ epoch' \in Epoch
    <3> DEFINE f == ClaimRow(Reaped, t).fence + 1
    <3>1. ClaimRow(Reaped, t) \in Row
      BY ReapedKeeps, ClaimRowKeeps DEF TableKeeps, TypeOK
    <3>2. f \in Fence
      BY <2>2, <3>1, BoundAssumption DEF ClaimGranted, Row, Number, Fence
    <3>3. /\ att' = [att EXCEPT ![t] = [att[t] EXCEPT ![f] =
                       [att[t][f] EXCEPT !.executor = e, !.epoch = epoch]]]
          /\ epoch' = epoch
      BY <2>2 DEF ClaimGranted
    <3>4. e \in Holder
      BY DEF Holder
    <3> HIDE DEF f
    <3> QED BY <3>2, <3>3, <3>4, <1>owner, ZenonT(30) DEF TypeOK
  <2> QED BY <1>5, <2>1, <2>2 DEF Claim
<1>6. CASE ReapOverdueLeases \/ UNCHANGED vars
  BY <1>6 DEF ReapOverdueLeases, vars, TypeOK
<1>7. CASE BeginRuntimeSession
  <2>1. epoch' \in Epoch
    BY <1>7, BoundAssumption DEF BeginRuntimeSession, TypeOK, Epoch
  <2>2. "recovered" \in CkptState
    BY DEF CkptState
  <2>3. \A t \in Task, n \in Fence : [att[t][n] EXCEPT !.ckpt = "recovered"] \in Attempt
    BY <2>2, <1>1 DEF Attempt
  <2> QED BY <1>1, <1>7, <2>1, <2>3 DEF BeginRuntimeSession
<1> QED BY <1>3, <1>4, <1>5, <1>6, <1>7 DEF Next

(* The resume in progress: none after any other command; and the fence it   *)
(* claims with fits, since nothing but a lease deadline moves meanwhile.    *)
LEMMA ResumeTyped ==
  ASSUME TypeOK, ResumeFence, [Next]_vars
  PROVE  /\ resume' \in [task : {0} \cup Task, from : Number, step : ResumeStep]
         /\ ResumeFence'
<1> DEFINE Good == /\ resume' \in [task : {0} \cup Task, from : Number, step : ResumeStep]
                   /\ ResumeFence'
<1>1. ASSUME resume' = NoResume
      PROVE  Good
  BY <1>1 DEF NoResume, ResumeFence, Number, ResumeStep
<1>2. ASSUME UNCHANGED resume, TableKeeps(row, row')
      PROVE  Good
  BY <1>2 DEF TypeOK, ResumeFence, TableKeeps, Keeps
<1>3. ASSUME NEW t \in Task, Client(t)
      PROVE  Good
  BY <1>1, <1>3, ZenonT(30) DEF Client, CreateTask, AdmitDelegatedChild, CancelTask, CancelRun,
                    RetryTask, RetryRun, RecoverPlacement, Free
<1>4. ASSUME NEW t \in Task, LeaseExpires(t)
      PROVE  Good
  BY <1>2, <1>4, LeaseExpiresStep DEF LeaseExpires
<1>5. ASSUME NEW t \in Task, NEW n \in Fence, Worker(t, n)
      PROVE  Good
  <2>1. CASE SettleAttempt(t, n) \/ FailAttempt(t, n)
             \/ CheckpointAttempt(t, n) \/ RequestReboot(t, n) \/ RebootOutcome(t, n)
    BY <2>1, <1>1 DEF SettleAttempt, FailAttempt, CheckpointAttempt, RequestReboot, RebootOutcome, Free
  <2>2. CASE ResumeMark(t, n) \/ \E fit \in BOOLEAN : ResumeRefused(t, n, fit)
    BY <2>2, <1>1 DEF ResumeMark, ResumeRefused
  <2>3. CASE ResumeReset(t, n)
    <3>1. resume' = [task |-> t, from |-> n, step |-> "claim"] /\ row[t].fence < MaxFence
      BY <2>3 DEF ResumeReset
    <3>2. row'[t].fence = row[t].fence
      BY <2>3, ResumeResetStep DEF TableKeeps, Keeps
    <3> QED BY <3>1, <3>2 DEF ResumeFence, Number, ResumeStep
  <2>4. CASE ResumeClaim(t, n)
    <3>1. resume' = [task |-> t, from |-> n, step |-> "bind"]
      BY <2>4 DEF ResumeClaim
    <3>2. row'[t].fence \in Fence
      BY <2>4, ResumeClaimStep DEF ClaimStep
    <3> QED BY <3>1, <3>2 DEF ResumeFence, Number, ResumeStep
  <2>5. CASE ResumeBind(t, n)
    <3>1. resume' = [task |-> t, from |-> n, step |-> "mark"]
      BY <2>5 DEF ResumeBind
    <3> QED BY <3>1 DEF ResumeFence, Number, ResumeStep
  <2> QED BY <1>5, <2>1, <2>2, <2>3, <2>4, <2>5 DEF Worker, ResumeStepOf
<1>6. ASSUME NEW e \in Executor, Claim(e)
      PROVE  Good
  BY <1>1, <1>6, ZenonT(30) DEF Claim, ClaimEmpty, ClaimUnresolved, ClaimRefused, ClaimGranted, Free
<1>7. CASE ReapOverdueLeases \/ BeginRuntimeSession
  BY <1>1, <1>7 DEF ReapOverdueLeases, BeginRuntimeSession, Free
<1>8. CASE UNCHANGED vars
  BY <1>2, <1>8, UnchangedStep DEF vars
<1> QED BY <1>3, <1>4, <1>5, <1>6, <1>7, <1>8 DEF Next

(* The reservations stay exclusive: a kept table takes none, an inserted    *)
(* row has none, and a claim's keys are free.                               *)
LEMMA ExclusiveKept ==
  ASSUME TypeOK, ResumeFence, ReservationExclusive, [Next]_vars
  PROVE  ReservationExclusive'
<1> SUFFICES ASSUME NEW t \in Task, NEW u \in Task, t # u,
                    row'[t].held, row'[u].held, row'[t].holder = row'[u].holder
             PROVE  row'[t].req.keys \cap row'[u].req.keys = {}
  BY DEF ReservationExclusive
<1>1. ASSUME Keeps(row[t], row'[t]), Keeps(row[u], row'[u])
      PROVE  row'[t].req.keys \cap row'[u].req.keys = {}
  BY <1>1, ZenonT(30) DEF Keeps, ReservationExclusive
<1>2. CASE TableKeeps(row, row')
  BY <1>1, <1>2 DEF TableKeeps
<1>3. ASSUME NEW x \in Task, InsertStep(x)
      PROVE  row'[t].req.keys \cap row'[u].req.keys = {}
  <2>1. t # x /\ u # x
    BY <1>3 DEF InsertStep
  <2>2. row'[t] = row[t] /\ row'[u] = row[u]
    BY <1>3, <2>1 DEF InsertStep
  <2> QED BY <1>1, <2>2, KeepsOrder
<1>4. ASSUME NEW x \in Task, ClaimStep(x)
      PROVE  row'[t].req.keys \cap row'[u].req.keys = {}
  <2>1. CASE x = t \/ x = u
    BY <1>4, <2>1 DEF ClaimStep
  <2>2. CASE x # t /\ x # u
    BY <1>1, <1>4, <2>2 DEF ClaimStep
  <2> QED BY <2>1, <2>2
<1> QED BY <1>2, <1>3, <1>4, StepKinds

(* Rows not yet inserted have no fence. *)
LEMMA FreshKept ==
  ASSUME TypeOK, ResumeFence, FreshRows, [Next]_vars
  PROVE  FreshRows'
<1> SUFFICES ASSUME NEW t \in Task, row'[t].status = "absent"
             PROVE  row'[t].fence = 0
  BY DEF FreshRows
<1>1. ASSUME Keeps(row[t], row'[t])
      PROVE  row'[t].fence = 0
  BY <1>1 DEF Keeps, FreshRows
<1>2. CASE TableKeeps(row, row')
  BY <1>1, <1>2 DEF TableKeeps
<1>3. ASSUME NEW x \in Task, InsertStep(x)
      PROVE  row'[t].fence = 0
  BY <1>1, <1>3, KeepsOrder DEF InsertStep
<1>4. ASSUME NEW x \in Task, ClaimStep(x)
      PROVE  row'[t].fence = 0
  BY <1>1, <1>4 DEF ClaimStep
<1> QED BY <1>2, <1>3, <1>4, StepKinds

(* The invariant holds in the initial, empty ledger. *)
LEMMA InitLedgerInv == Init => LedgerInv
<1> SUFFICES ASSUME Init PROVE LedgerInv
  OBVIOUS
<1>1. Absent \in Row /\ Absent.held = FALSE /\ Absent.fence = 0
  BY BoundAssumption DEF Absent, Row, Status, Terminal, RunStatus, Waiting, Holder, Number, Deadline, Epoch, Binding
<1>2. [executor |-> NoExecutor, epoch |-> 0, ckpt |-> "none"] \in Attempt
  BY BoundAssumption DEF Attempt, Holder, Epoch, CkptState
<1>3. TypeOK
  BY <1>1, <1>2, BoundAssumption DEF Init, TypeOK, NoResume, Number, ResumeStep, Epoch
<1>4. ResumeFence
  BY DEF Init, NoResume, ResumeFence
<1>5. FreshRows /\ ReservationExclusive
  BY <1>1 DEF Init, FreshRows, ReservationExclusive
<1> QED BY <1>3, <1>4, <1>5 DEF LedgerInv

(* Every step preserves the invariant. *)
LEMMA NextLedgerInv == LedgerInv /\ [Next]_vars => LedgerInv'
<1> SUFFICES ASSUME LedgerInv, [Next]_vars PROVE LedgerInv'
  OBVIOUS
<1>1. TypeOK /\ ResumeFence /\ FreshRows /\ ReservationExclusive
  BY DEF LedgerInv
<1>2. TypeOK'
  BY <1>1, RowsTyped, AttemptsTyped, ResumeTyped DEF TypeOK
<1> QED BY <1>1, <1>2, ResumeTyped, FreshKept, ExclusiveKept DEF LedgerInv

(* The inductive invariant holds in every reachable state. *)
THEOREM LedgerInvariant == Spec => []LedgerInv
BY InitLedgerInv, NextLedgerInv, PTL DEF Spec

(* Every column keeps its type whatever commands, deadlines and restarts    *)
(* interleave.                                                              *)
THEOREM TypeCorrect == Spec => []TypeOK
<1>1. LedgerInv => TypeOK
  BY DEF LedgerInv
<1> QED BY <1>1, LedgerInvariant, PTL

(* No resource key of an executor is ever reserved for two tasks: claims    *)
(* and resumes check every live reservation, and nothing else takes one.    *)
THEOREM ReservationsExclusive == Spec => []ReservationExclusive
<1>1. LedgerInv => ReservationExclusive
  BY DEF LedgerInv
<1> QED BY <1>1, LedgerInvariant, PTL

(* A task's lease fence grows only by claims, one at a time: no requeue,    *)
(* retry, cancellation, recovery or restart hands out an old fence again.   *)
THEOREM FencesGrow == Spec => FenceStep
<1>1. LedgerInv /\ [Next]_vars =>
        [\A t \in Task : row'[t].fence # row[t].fence =>
           /\ row'[t].fence = row[t].fence + 1
           /\ row'[t].status = "running" /\ row'[t].lease = row'[t].fence]_vars
  <2> SUFFICES ASSUME LedgerInv, [Next]_vars, NEW t \in Task, row'[t].fence # row[t].fence
               PROVE  /\ row'[t].fence = row[t].fence + 1
                      /\ row'[t].status = "running" /\ row'[t].lease = row'[t].fence
    OBVIOUS
  <2>1. CASE TableKeeps(row, row')
    BY <2>1 DEF TableKeeps, Keeps
  <2>2. ASSUME NEW x \in Task, InsertStep(x)
        PROVE  FALSE
    BY <2>2 DEF InsertStep, LedgerInv, FreshRows
  <2>3. ASSUME NEW x \in Task, ClaimStep(x)
        PROVE  /\ row'[t].fence = row[t].fence + 1
               /\ row'[t].status = "running" /\ row'[t].lease = row'[t].fence
    BY <2>3 DEF ClaimStep, Keeps
  <2> QED BY <2>1, <2>2, <2>3, StepKinds DEF LedgerInv
<1> QED BY <1>1, LedgerInvariant, PTL DEF Spec, FenceStep

-----------------------------------------------------------------------------
(* Bindings, families and continuations: what the commands do to the rows.  *)

(* The bindings that a claim can take. *)
Takable == {"none", "prepared"}

(* What holds of every row between commands. *)
RowOK(r) ==
  /\ r.status = "absent" => r.parent = 0 /\ r.fence = 0
  /\ r.status = "queued" /\ r.waiting # "unknown" => r.binding \in Takable
  /\ r.fence = 0 =>
       /\ r.open = {} /\ r.waiting # "unknown"
       /\ r.status \notin {"running", "cancel_requested"}
       /\ r.binding \in Takable \/ (r.binding = "stale" /\ r.status = "cancelled")
  /\ r.status \in Terminal => r.waiting = "none"
  /\ r.status = "running" => r.binding \in Takable \cup {"claimed"}
  /\ r.status \in {"completed", "failed"} => ~Unresolved(r)
  /\ r.req.preds # {} /\ r.fence # 0 => r.admitted
  /\ r.status # "absent" /\ r.req.external => r.binding # "none"

(* What holds of a row none of whose attempts has a checkpoint. *)
Fenced(r) ==
  /\ r.req.external /\ r.open # {} =>
       /\ r.open = {r.attempt} /\ Unresolved(r)
       /\ r.status = "running" \/ r.waiting = "unknown"
  /\ r.status = "cancel_requested" => Unresolved(r)

(* What every command but insertion, settlement and retry does to a row. *)
Moves(r, s) ==
  /\ RowOK(s)
  /\ s.parent = r.parent /\ s.pattempt = r.pattempt
  /\ s.status = "absent" <=> r.status = "absent"
  /\ s.open \subseteq r.open \cup {s.fence}
  /\ s.status \in {"completed", "failed"} => r.status = s.status
  /\ r.status = "completed" => s.status = "completed" /\ s.attempt = r.attempt
  /\ s.status \notin Terminal => r.status \notin Terminal

(* ... and what it does when it neither claims nor resumes the task. *)
Calm(r, s) ==
  /\ Moves(r, s)
  /\ s.open \subseteq r.open
  /\ Fenced(r) => Fenced(s)
  /\ s.status = "running" => r.status = "running" /\ s.attempt = r.attempt

(* A row is reported as waiting for its dependencies only if it was. *)
Undep(r, s) ==
  s.status = "queued" /\ s.waiting = "dependency" =>
    /\ r.status = "queued" /\ r.waiting = "dependency"
    /\ s.admitted = r.admitted /\ s.req = r.req

(* The columns these facts are about. *)
Same(r, s) ==
  /\ s.status = r.status /\ s.waiting = r.waiting /\ s.attempt = r.attempt
  /\ s.open = r.open /\ s.binding = r.binding /\ s.fence = r.fence
  /\ s.req = r.req /\ s.parent = r.parent /\ s.pattempt = r.pattempt
  /\ s.admitted = r.admitted

-----------------------------------------------------------------------------
(* Rows.                                                                    *)

(* A step that leaves these columns alone is calm. *)
LEMMA SameCalm ==
  ASSUME NEW r, NEW s, RowOK(r), Same(r, s)
  PROVE  Calm(r, s) /\ Undep(r, s)
BY Zenon DEF Same, Calm, Moves, Undep, RowOK, Fenced, Unresolved

(* Calm steps compose, and a calm step may come before any other. *)
LEMMA CalmOrder ==
  /\ \A r : RowOK(r) => Calm(r, r)
  /\ \A r, s, u : Calm(r, s) /\ Calm(s, u) => Calm(r, u)
  /\ \A r, s, u : Calm(r, s) /\ Moves(s, u) => Moves(r, u)
  /\ \A r, s : Calm(r, s) => RowOK(s)
BY SameCalm DEF Calm, Moves, Same

(* The columns of a cancelled row. *)
LEMMA CancelledFields ==
  ASSUME NEW r \in Row
  PROVE  LET s == Cancelled(r)
         IN  /\ s.status = "cancelled" /\ s.waiting = "none" /\ s.attempt = 0
             /\ s.open = r.open \ {r.attempt}
             /\ s.binding = ReleasedBinding(r.binding, "released") /\ s.fence = r.fence
             /\ s.req = r.req /\ s.parent = r.parent /\ s.pattempt = r.pattempt
             /\ s.admitted = r.admitted
BY DEF Row, Cancelled

(* ... of one whose cancellation is requested. *)
LEMMA CancelRequestedFields ==
  ASSUME NEW r \in Row
  PROVE  LET s == CancelRequested(r)
         IN  /\ s.status = "cancel_requested" /\ s.waiting = "unknown" /\ s.attempt = r.attempt
             /\ s.open = r.open
             /\ s.binding = ReleasedBinding(r.binding, "stale") /\ s.fence = r.fence
             /\ s.req = r.req /\ s.parent = r.parent /\ s.pattempt = r.pattempt
             /\ s.admitted = r.admitted
BY SMTT(20) DEF Row, CancelRequested

(* ... of an overdue one. *)
LEMMA ExpiredFields ==
  ASSUME NEW r \in Row
  PROVE  LET s == Expired(r)
         IN  /\ s.attempt = r.attempt /\ s.fence = r.fence
             /\ s.req = r.req /\ s.parent = r.parent /\ s.pattempt = r.pattempt
             /\ s.admitted = r.admitted
             /\ Unresolved(r) => /\ s.status = r.status /\ s.waiting = "unknown"
                                 /\ s.open = r.open /\ s.binding = r.binding
             /\ ~Unresolved(r) => /\ s.status = "queued" /\ s.waiting = "none"
                                  /\ s.open = r.open \ {r.attempt}
                                  /\ s.binding = ResetBinding(r.binding)
<1>1. CASE Unresolved(r)
  BY <1>1 DEF Row, Expired
<1>2. CASE ~Unresolved(r)
  BY <1>2, SMTT(20) DEF Row, Expired, ResetAttempt
<1> QED BY <1>1, <1>2

(* ... of one begin_runtime_session recovers. *)
LEMMA RecoveredFields ==
  ASSUME NEW r \in Row
  PROVE  LET s == Recovered(r)
         IN  /\ s.fence = r.fence
             /\ s.req = r.req /\ s.parent = r.parent /\ s.pattempt = r.pattempt
             /\ s.admitted = r.admitted
             /\ Unresolved(r) =>
                  /\ s.status = IF r.status = "cancel_requested" THEN r.status ELSE "queued"
                  /\ s.waiting = "unknown" /\ s.attempt = r.attempt
                  /\ s.open = r.open /\ s.binding = ReleasedBinding(r.binding, "stale")
             /\ ~Unresolved(r) =>
                  /\ s.open = r.open \ {r.attempt} /\ s.binding = ResetBinding(r.binding)
                  /\ IF r.status = "running"
                     THEN s.status = "queued" /\ s.waiting = "none"
                     ELSE /\ s.status = r.status /\ s.waiting = r.waiting
                          /\ s.attempt = r.attempt
<1>1. CASE Unresolved(r)
  BY <1>1 DEF Row, Recovered
<1>2. CASE ~Unresolved(r) /\ r.status = "running"
  BY <1>2 DEF Row, Recovered, ResetAttempt
<1>3. CASE ~Unresolved(r) /\ r.status # "running"
  BY <1>3 DEF Row, Recovered, ResetAttempt
<1> QED BY <1>1, <1>2, <1>3

(* A reset binding can be taken by a claim. *)
LEMMA ResetTakable ==
  ASSUME NEW r \in Row
  PROVE  /\ ResetBinding(r.binding) \in Takable
         /\ r.binding # "none" => ResetBinding(r.binding) # "none"
BY Zenon DEF Row, Binding, ResetBinding, Takable

(* A cancellation, of work the runtime owns or of external work. *)
LEMMA CancelCalm ==
  ASSUME NEW r \in Row, RowOK(r),
         r.status \in {"queued", "running", "failed", "cancel_requested"}
  PROVE  /\ Calm(r, Cancel(r)) /\ Undep(r, Cancel(r))
         /\ Cancel(r).status \in {"cancelled", "cancel_requested"}
         /\ Cancel(r).status = "cancel_requested" => Unresolved(Cancel(r))
<1>1. CASE Unresolved(r)
  <2>1. Cancel(r) = CancelRequested(r)
    BY <1>1 DEF Cancel
  <2>2. r.fence # 0 /\ r.status # "failed"
    BY <1>1, Zenon DEF RowOK, Unresolved, Takable
  <2>3. ReleasedBinding(r.binding, "stale") = "stale"
    BY <1>1, Zenon DEF Unresolved, ReleasedBinding
  <2> DEFINE s == CancelRequested(r)
  <2>4. RowOK(s) /\ Fenced(r) => Fenced(s)
    BY <1>1, <2>2, <2>3, CancelRequestedFields, Zenon DEF RowOK, Fenced, Unresolved, Takable, Terminal
  <2>5. Unresolved(s) /\ RowOK(s)
    BY <1>1, <2>2, <2>3, CancelRequestedFields, Zenon DEF RowOK, Unresolved, Takable, Terminal
  <2> QED BY <2>1, <2>2, <2>4, <2>5, CancelRequestedFields, Zenon DEF Calm, Moves, Undep, Terminal
<1>2. CASE ~Unresolved(r)
  <2>1. Cancel(r) = Cancelled(r)
    BY <1>2 DEF Cancel
  <2> DEFINE s == Cancelled(r)
  <2>2. RowOK(s)
    BY <1>2, CancelledFields, Zenon DEF RowOK, Unresolved, ReleasedBinding, Takable, Terminal
  <2>3. Fenced(r) => Fenced(s)
    BY <1>2, CancelledFields, Zenon DEF Fenced
  <2> QED BY <2>1, <2>2, <2>3, CancelledFields, Zenon DEF Calm, Moves, Undep, Terminal
<1> QED BY <1>1, <1>2

(* An overdue row under _reap_expired_leases. *)
LEMMA ExpiredCalm ==
  ASSUME NEW r \in Row, RowOK(r), r.status \in {"running", "cancel_requested"}
  PROVE  Calm(r, Expired(r)) /\ Undep(r, Expired(r))
<1> DEFINE s == Expired(r)
<1>1. r.fence # 0
  BY DEF RowOK
<1>2. RowOK(s)
  <2>1. CASE Unresolved(r)
    BY <1>1, <2>1, ExpiredFields, Zenon DEF RowOK, Unresolved, Takable, Terminal
  <2>2. CASE ~Unresolved(r)
    BY <1>1, <2>2, ResetTakable, ExpiredFields, Zenon DEF RowOK, Unresolved, Takable, Terminal
  <2> QED BY <2>1, <2>2
<1>3. Fenced(r) => Fenced(s)
  BY ExpiredFields, Zenon DEF Fenced, Unresolved
<1> QED BY <1>2, <1>3, ExpiredFields, Zenon DEF Calm, Moves, Undep, Terminal

(* An interrupted row under begin_runtime_session. *)
LEMMA RecoveredCalm ==
  ASSUME NEW r \in Row, RowOK(r), Interrupted(r)
  PROVE  Calm(r, Recovered(r)) /\ Undep(r, Recovered(r))
<1> DEFINE s == Recovered(r)
<1>1. r.fence # 0 /\ r.status \in {"running", "cancel_requested"}
  BY DEF RowOK, Interrupted
<1>2. RowOK(s)
  BY <1>1, RecoveredFields, Zenon DEF RowOK, Unresolved, ResetBinding, ReleasedBinding, Takable, Terminal
<1>3. Fenced(r) => Fenced(s)
  BY <1>1, RecoveredFields, Zenon DEF Fenced, Unresolved, ReleasedBinding
<1> QED BY <1>1, <1>2, <1>3, RecoveredFields, Zenon DEF Calm, Moves, Undep, Terminal

(* A continuation that _admit_continuation looks at: it was never claimed. *)
LEMMA AdmitContinuationCalm ==
  ASSUME NEW r \in Row, RowOK(r), NEW rs, r.status = "queued", Dependent(r)
  PROVE  /\ Calm(r, AdmitContinuation(rs, r))
         /\ AdmitContinuation(rs, r).status = "queued"
         /\ AdmitContinuation(rs, r).req = r.req
         /\ AdmitContinuation(rs, r).binding = r.binding
         /\ AdmitContinuation(rs, r).waiting # "unknown"
         /\ AdmitContinuation(rs, r).waiting = "dependency" =>
              /\ ~AdmitContinuation(rs, r).admitted
              /\ \E p \in r.req.preds : rs[p].status # "completed"
<1> DEFINE s == AdmitContinuation(rs, r)
<1>1. r.fence = 0 /\ ~r.admitted /\ r.open = {} /\ r.waiting # "unknown" /\ r.binding \in Takable
  BY DEF RowOK, Dependent
<1>2. /\ s.status = r.status /\ s.attempt = r.attempt /\ s.open = r.open
      /\ s.binding = r.binding /\ s.fence = r.fence /\ s.req = r.req
      /\ s.parent = r.parent /\ s.pattempt = r.pattempt
      /\ s.waiting \in {"none", "dependency"}
      /\ s.waiting = "dependency" =>
           s.admitted = r.admitted /\ \E p \in r.req.preds : rs[p].status # "completed"
  BY Zenon DEF Row, AdmitContinuation
<1>3. RowOK(s)
  BY <1>1, <1>2, Zenon DEF RowOK, Unresolved, Takable, Terminal
<1>4. Fenced(s)
  BY <1>1, <1>2, Zenon DEF Fenced
<1>5. Calm(r, s)
  <2> HIDE DEF s
  <2> QED BY <1>1, <1>2, <1>3, <1>4, Zenon DEF Calm, Moves, Terminal
<1> QED BY <1>1, <1>2, <1>5, Zenon

(* A refused claim clears the waiting reason of a row with a binding that   *)
(* a claim can take.                                                        *)
LEMMA WaitsCalm ==
  ASSUME NEW r \in Row, RowOK(r), r.status = "queued" => r.binding \in Takable
  PROVE  /\ Calm(r, Waits(r, "none")) /\ Undep(r, Waits(r, "none"))
         /\ Waits(r, "none").binding = r.binding
<1>1. CASE r.status # "queued"
  BY <1>1, SameCalm DEF Waits, Same
<1>2. CASE r.status = "queued"
  <2> DEFINE s == Waits(r, "none")
  <2>1. /\ s.status = r.status /\ s.attempt = r.attempt /\ s.open = r.open /\ s.waiting = "none"
        /\ s.binding = r.binding /\ s.fence = r.fence /\ s.req = r.req
        /\ s.parent = r.parent /\ s.pattempt = r.pattempt /\ s.admitted = r.admitted
    BY <1>2, Zenon DEF Row, Waits
  <2> HIDE DEF s
  <2>2. RowOK(s)
    BY <1>2, <2>1, Zenon DEF RowOK, Unresolved, Takable, Terminal
  <2>3. Fenced(r) => Fenced(s)
    BY <1>2, <2>1, Zenon DEF Fenced, Unresolved, Takable
  <2> QED BY <1>2, <2>1, <2>2, <2>3, Zenon DEF Calm, Moves, Undep, Terminal, s
<1> QED BY <1>1, <1>2

-----------------------------------------------------------------------------
(* Tables.                                                                  *)

TableOK(rs) == rs \in [Task -> Row] /\ \A t \in Task : RowOK(rs[t])
TableCalm(rs, ss) == ss \in [Task -> Row] /\ \A t \in Task : Calm(rs[t], ss[t])

(* Calm changes of a table compose and leave a good table. *)
LEMMA TableCalmOrder ==
  /\ \A rs : TableOK(rs) => TableCalm(rs, rs)
  /\ \A rs, ss, us : TableCalm(rs, ss) /\ TableCalm(ss, us) => TableCalm(rs, us)
  /\ \A rs, ss : TableCalm(rs, ss) => TableOK(ss)
<1>1. \A rs : TableOK(rs) => TableCalm(rs, rs)
  BY CalmOrder, Zenon DEF TableOK, TableCalm
<1>2. \A rs, ss, us : TableCalm(rs, ss) /\ TableCalm(ss, us) => TableCalm(rs, us)
  <2> SUFFICES ASSUME NEW rs, NEW ss, NEW us, TableCalm(rs, ss), TableCalm(ss, us),
                      NEW t \in Task
               PROVE  Calm(rs[t], us[t])
    BY Zenon DEF TableCalm
  <2>1. Calm(rs[t], ss[t]) /\ Calm(ss[t], us[t])
    BY Zenon DEF TableCalm
  <2> QED BY <2>1, CalmOrder, Zenon
<1>3. \A rs, ss : TableCalm(rs, ss) => TableOK(ss)
  BY CalmOrder, Zenon DEF TableOK, TableCalm
<1> QED BY <1>1, <1>2, <1>3, Zenon

(* Changing one row of a table. *)
LEMMA TableCalmUpdate ==
  ASSUME NEW rs, TableOK(rs), NEW t \in Task, NEW s \in Row, Calm(rs[t], s)
  PROVE  TableCalm(rs, [rs EXCEPT ![t] = s])
<1>1. [rs EXCEPT ![t] = s] \in [Task -> Row]
  BY Zenon DEF TableOK
<1>2. ASSUME NEW u \in Task
      PROVE  Calm(rs[u], [rs EXCEPT ![t] = s][u])
  <2>1. CASE u = t
    BY <2>1, Zenon DEF TableOK
  <2>2. CASE u # t
    <3>1. [rs EXCEPT ![t] = s][u] = rs[u] /\ RowOK(rs[u])
      BY <2>2, Zenon DEF TableOK
    <3> QED BY <3>1, CalmOrder, Zenon
  <2> QED BY <2>1, <2>2, Zenon
<1> QED BY <1>1, <1>2, Zenon DEF TableCalm

(* contain_delegated_children: a child that is still queued or running      *)
(* afterwards was not the parent's, and was left alone.                     *)
LEMMA ContainCalm ==
  ASSUME NEW rs, TableOK(rs), NEW p, NEW n
  PROVE  /\ TableCalm(rs, Contain(rs, p, n))
         /\ \A c \in Task : Undep(rs[c], Contain(rs, p, n)[c])
         /\ \A c \in Task : Contain(rs, p, n)[c].status \in {"queued", "running"} =>
              Contain(rs, p, n)[c] = rs[c] /\ ~ChildOfAttempt(rs, c, p, n)
         /\ \A c \in Task : ~ChildOfAttempt(rs, c, p, n) => Contain(rs, p, n)[c] = rs[c]
<1>1. Contain(rs, p, n) \in [Task -> Row]
  BY ContainKeeps, Zenon DEF TableKeeps, TableOK
<1>2. ASSUME NEW c \in Task
      PROVE  LET s == Contain(rs, p, n)[c]
             IN  /\ Calm(rs[c], s) /\ Undep(rs[c], s)
                 /\ s.status \in {"queued", "running"} => s = rs[c] /\ ~ChildOfAttempt(rs, c, p, n)
                 /\ ~ChildOfAttempt(rs, c, p, n) => s = rs[c]
  <2>1. rs[c] \in Row /\ RowOK(rs[c])
    BY Zenon DEF TableOK
  <2>2. Contain(rs, p, n)[c] = IF ChildOfAttempt(rs, c, p, n) /\ Containable(rs[c])
                               THEN Cancel(rs[c]) ELSE rs[c]
    BY Zenon DEF Contain
  <2>3. CASE ChildOfAttempt(rs, c, p, n) /\ Containable(rs[c])
    <3>1. rs[c].status \in {"queued", "running", "failed", "cancel_requested"}
      BY <2>1, <2>3, Zenon DEF Containable, Row, Status, Terminal
    <3>2. /\ Calm(rs[c], Cancel(rs[c])) /\ Undep(rs[c], Cancel(rs[c]))
          /\ Cancel(rs[c]).status \in {"cancelled", "cancel_requested"}
      BY <2>1, <3>1, CancelCalm, Zenon
    <3> QED BY <2>2, <2>3, <3>2, Zenon
  <2>4. CASE ~(ChildOfAttempt(rs, c, p, n) /\ Containable(rs[c]))
    <3>1. Contain(rs, p, n)[c] = rs[c]
      BY <2>2, <2>4, Zenon
    <3>3. Calm(rs[c], rs[c]) /\ Undep(rs[c], rs[c])
      BY <2>1, SameCalm, Zenon DEF Same
    <3>2. rs[c].status \in {"queued", "running"} => Containable(rs[c])
      BY Zenon DEF Containable, Terminal
    <3> QED BY <2>4, <3>1, <3>2, <3>3, Zenon
  <2> QED BY <2>3, <2>4, Zenon
<1> QED BY <1>1, <1>2, Zenon DEF TableCalm

(* Refreshing continuations touches queued rows only, and no column of      *)
(* them but the admission and the waiting reason.                           *)
LEMMA RefreshCalm ==
  ASSUME NEW rs, TableOK(rs)
  PROVE  LET ss == RefreshContinuations(rs)
         IN  /\ TableCalm(rs, ss)
             /\ \A t \in Task : /\ ss[t].status = rs[t].status /\ ss[t].req = rs[t].req
                                /\ ss[t].binding = rs[t].binding
                                /\ rs[t].status # "queued" => ss[t] = rs[t]
<1> DEFINE ss == RefreshContinuations(rs)
<1>1. ss \in [Task -> Row]
  BY RefreshKeeps, Zenon DEF TableKeeps, TableOK
<1>2. ASSUME NEW t \in Task
      PROVE  /\ Calm(rs[t], ss[t])
             /\ ss[t].status = rs[t].status /\ ss[t].req = rs[t].req
             /\ ss[t].binding = rs[t].binding
             /\ rs[t].status # "queued" => ss[t] = rs[t]
  <2>1. rs[t] \in Row /\ RowOK(rs[t])
    BY Zenon DEF TableOK
  <2>2. ss[t] = IF Refreshed(rs, t) THEN AdmitContinuation(rs, rs[t]) ELSE rs[t]
    BY Zenon DEF RefreshContinuations
  <2> HIDE DEF ss
  <2>3. CASE Refreshed(rs, t)
    <3>1. rs[t].status = "queued" /\ Dependent(rs[t])
      BY <2>3, Zenon DEF Refreshed
    <3>2. ss[t] = AdmitContinuation(rs, rs[t])
      BY <2>2, <2>3, Zenon
    <3>3. /\ Calm(rs[t], AdmitContinuation(rs, rs[t]))
          /\ AdmitContinuation(rs, rs[t]).status = rs[t].status
          /\ AdmitContinuation(rs, rs[t]).req = rs[t].req
          /\ AdmitContinuation(rs, rs[t]).binding = rs[t].binding
      BY <2>1, <3>1, AdmitContinuationCalm, Zenon
    <3> QED BY <3>1, <3>2, <3>3, Zenon
  <2>4. CASE ~Refreshed(rs, t)
    BY <2>1, <2>2, <2>4, CalmOrder, Zenon
  <2> QED BY <2>3, <2>4, Zenon
<1> QED BY <1>1, <1>2, Zenon DEF TableCalm

(* A continuation reported as waiting has a predecessor that did not        *)
(* complete.                                                                *)
Patient(rs) ==
  \A t \in Task : rs[t].status = "queued" /\ rs[t].waiting = "dependency" =>
    ~rs[t].admitted /\ \E p \in rs[t].req.preds : rs[p].status # "completed"

(* The predecessors of a request are tasks. *)
LEMMA PredsAreTasks ==
  ASSUME NEW r \in Row
  PROVE  r.req.preds \subseteq Task
<1>1. r.req \in RequestShape \cup {NoRequest}
  BY DEF Row
<1>2. CASE r.req \in RequestShape
  BY <1>2 DEF RequestShape
<1>3. CASE r.req = NoRequest
  BY <1>3 DEF NoRequest
<1> QED BY <1>1, <1>2, <1>3

(* The refresh at the end of a command: a continuation it did not look at   *)
(* has no predecessor that completed in this command.                       *)
LEMMA RefreshPatient ==
  ASSUME NEW rs, TableOK(rs), Patient(row), \A t \in Task : Undep(row[t], rs[t])
  PROVE  Patient(RefreshContinuations(rs))
<1> DEFINE ss == RefreshContinuations(rs)
<1>1. \A t \in Task : ss[t].status = rs[t].status /\ ss[t].req = rs[t].req
  BY RefreshCalm, Zenon
<1> SUFFICES ASSUME NEW t \in Task, ss[t].status = "queued", ss[t].waiting = "dependency"
             PROVE  ~ss[t].admitted /\ \E p \in ss[t].req.preds : ss[p].status # "completed"
  BY Zenon DEF Patient
<1>2. rs[t] \in Row /\ RowOK(rs[t]) /\ rs[t].status = "queued" /\ rs[t].req.preds \subseteq Task
  BY <1>1, PredsAreTasks, Zenon DEF TableOK
<1>3. ss[t] = IF Refreshed(rs, t) THEN AdmitContinuation(rs, rs[t]) ELSE rs[t]
  BY Zenon DEF RefreshContinuations
<1> HIDE DEF ss
<1>4. CASE Refreshed(rs, t)
  <2>1. Dependent(rs[t])
    BY <1>4, Zenon DEF Refreshed
  <2>2. ~ss[t].admitted /\ \E p \in rs[t].req.preds : rs[p].status # "completed"
    <3>1. ss[t] = AdmitContinuation(rs, rs[t])
      BY <1>3, <1>4, Zenon
    <3> QED BY <1>2, <2>1, <3>1, AdmitContinuationCalm, SMTT(20)
  <2> QED BY <1>1, <1>2, <2>2, Zenon
<1>5. CASE ~Refreshed(rs, t)
  <2>1. ss[t] = rs[t] /\ rs[t].waiting = "dependency"
    BY <1>3, <1>5, Zenon
  <2>2. /\ row[t].status = "queued" /\ row[t].waiting = "dependency"
        /\ rs[t].admitted = row[t].admitted /\ rs[t].req = row[t].req
    BY <1>2, <2>1, Zenon DEF Undep
  <2>3. ~rs[t].admitted /\ \E p \in rs[t].req.preds : row[p].status # "completed"
    BY <2>2, Zenon DEF Patient
  <2>4. PICK p \in rs[t].req.preds : row[p].status # "completed"
    BY <2>3, Zenon
  <2>5. rs[p].status # "completed"
    <3> SUFFICES ASSUME rs[p].status = "completed" PROVE FALSE
      OBVIOUS
    <3>1. {rs[p].status, row[p].status} \cap Terminal # {} /\ rs[p].status # row[p].status
      BY <2>4, Zenon DEF Terminal
    <3>2. Dependent(rs[t])
      BY <2>3, Zenon DEF Dependent
    <3> QED BY <1>2, <1>5, <2>4, <3>1, <3>2, Zenon DEF Refreshed
  <2> QED BY <1>1, <1>2, <2>1, <2>3, <2>4, <2>5, Zenon
<1> QED BY <1>4, <1>5, Zenon

(* Cancelling and expiring leave a binding that a claim can take. *)
LEMMA TakableKept ==
  ASSUME NEW r \in Row, r.binding \in Takable
  PROVE  Cancel(r).binding \in Takable /\ Expired(r).binding \in Takable
<1>1. ~Unresolved(r)
  BY Zenon DEF Unresolved, Takable
<1>2. Cancel(r).binding = r.binding
  BY <1>1, CancelledFields, Zenon DEF Cancel, ReleasedBinding, Takable
<1>3. Expired(r).binding = r.binding
  BY <1>1, ExpiredFields, Zenon DEF ResetBinding, Takable
<1> QED BY <1>2, <1>3

-----------------------------------------------------------------------------
(* Reaping.                                                                 *)

(* The rows of _contain_orphaned_delegations: an orphan is no longer queued *)
(* or running, and any other row at most has its delegation closed.         *)
LEMMA ContainedCalm ==
  ASSUME TableOK(row), NEW t \in Task
  PROVE  LET s == Contained(t)
         IN  /\ s \in Row /\ Calm(row[t], s) /\ Undep(row[t], s)
             /\ row[t].binding \in Takable => s.binding \in Takable
             /\ Orphan(t) /\ Fenced(row[t]) =>
                  s.status = "cancelled" \/ (s.status = "cancel_requested" /\ Unresolved(s))
             /\ ~Orphan(t) => Same(row[t], s) /\ s.deadline = row[t].deadline
<1> DEFINE r == IF Abandons(t) THEN [row[t] EXCEPT !.closed = ClosedBy(row[t])] ELSE row[t]
<1>1. row[t] \in Row /\ RowOK(row[t])
  BY Zenon DEF TableOK
<1>2. [row[t] EXCEPT !.closed = ClosedBy(row[t])] \in Row
  BY <1>1, RowUpdate, ColumnValues, Zenon
<1>3. Same(row[t], [row[t] EXCEPT !.closed = ClosedBy(row[t])])
      /\ [row[t] EXCEPT !.closed = ClosedBy(row[t])].deadline = row[t].deadline
  BY <1>1, Zenon DEF Row, Same
<1>4. r \in Row /\ Same(row[t], r) /\ r.deadline = row[t].deadline
  BY <1>1, <1>2, <1>3, Zenon DEF Same
<1>5. Contained(t) = IF Orphan(t) /\ Containable(r) THEN Cancel(r) ELSE r
  BY Zenon DEF Contained
<1> HIDE DEF r
<1>6. Calm(row[t], r) /\ Undep(row[t], r) /\ RowOK(r)
  BY <1>1, <1>4, SameCalm, CalmOrder, Zenon
<1>7. CASE Orphan(t) /\ Containable(r)
  <2>1. r.status \in {"queued", "running", "failed", "cancel_requested"}
    BY <1>4, <1>7, Zenon DEF Containable, Row, Status, Terminal
  <2>2. /\ Calm(r, Cancel(r)) /\ Undep(r, Cancel(r)) /\ Cancel(r) \in Row
        /\ Cancel(r).status \in {"cancelled", "cancel_requested"}
        /\ Cancel(r).status = "cancel_requested" => Unresolved(Cancel(r))
    BY <1>4, <1>6, <2>1, CancelCalm, CancelKeeps, Zenon
  <2>3. Calm(row[t], Cancel(r))
    BY <1>6, <2>2, CalmOrder, Zenon
  <2>4. Undep(row[t], Cancel(r))
    BY <2>2, Zenon DEF Undep
  <2>5. row[t].binding \in Takable => Cancel(r).binding \in Takable
    BY <1>4, TakableKept, Zenon DEF Same
  <2> QED BY <1>5, <1>7, <2>2, <2>3, <2>4, <2>5, Zenon
<1>8. CASE ~(Orphan(t) /\ Containable(r))
  <2>1. Contained(t) = r
    BY <1>5, <1>8, Zenon
  <2>2. ASSUME Orphan(t), Fenced(row[t])
        PROVE  r.status = "cancel_requested" /\ Unresolved(r)
    <3>1. row[t].status \notin Terminal /\ row[t].parent # 0
      BY <2>2, Zenon DEF Orphan
    <3>2. row[t].status # "absent"
      BY <1>1, <3>1, Zenon DEF RowOK
    <3>3. row[t].status = "cancel_requested"
      BY <1>4, <1>8, <2>2, <3>1, <3>2, Zenon DEF Containable, Same
    <3> QED BY <1>4, <2>2, <3>3, Zenon DEF Fenced, Unresolved, Same
  <2>3. row[t].binding \in Takable => r.binding \in Takable
    BY <1>4, Zenon DEF Same
  <2> QED BY <1>4, <1>6, <2>1, <2>2, <2>3, Zenon
<1> QED BY <1>7, <1>8, Zenon

ReapedRow(t) == IF Overdue(Contained(t)) THEN Expired(Contained(t)) ELSE Contained(t)
ReapedRows == [t \in Task |-> ReapedRow(t)]

(* The rows after _reap_expired_leases, before the refresh. *)
LEMMA ReapedRowCalm ==
  ASSUME TableOK(row), NEW t \in Task
  PROVE  LET s == ReapedRow(t)
         IN  /\ s \in Row /\ Calm(row[t], s) /\ Undep(row[t], s)
             /\ row[t].binding \in Takable => s.binding \in Takable
             /\ Orphan(t) /\ Fenced(row[t]) => s.status \notin {"queued", "running"}
             /\ ~Orphan(t) /\ row[t].deadline = "live" => Same(row[t], s)
<1> DEFINE r == Contained(t)
<1>1. /\ r \in Row /\ Calm(row[t], r) /\ Undep(row[t], r) /\ RowOK(r)
      /\ row[t].binding \in Takable => r.binding \in Takable
      /\ Orphan(t) /\ Fenced(row[t]) =>
           r.status = "cancelled" \/ (r.status = "cancel_requested" /\ Unresolved(r))
      /\ ~Orphan(t) => Same(row[t], r) /\ r.deadline = row[t].deadline
  BY ContainedCalm, CalmOrder, Zenon
<1>2. ReapedRow(t) = IF Overdue(r) THEN Expired(r) ELSE r
  BY Zenon DEF ReapedRow
<1> HIDE DEF r
<1>3. CASE Overdue(r)
  <2>1. r.status \in {"running", "cancel_requested"} /\ r.deadline = "overdue"
    BY <1>3, Zenon DEF Overdue
  <2>2. Calm(r, Expired(r)) /\ Undep(r, Expired(r)) /\ Expired(r) \in Row
    BY <1>1, <2>1, ExpiredCalm, ExpiredKeeps, Zenon
  <2>3. Calm(row[t], Expired(r))
    BY <1>1, <2>2, CalmOrder, Zenon
  <2>4. Undep(row[t], Expired(r))
    BY <2>1, <2>2, Zenon DEF Undep
  <2>5. row[t].binding \in Takable => Expired(r).binding \in Takable
    BY <1>1, TakableKept, Zenon
  <2>6. Orphan(t) /\ Fenced(row[t]) => Expired(r).status \notin {"queued", "running"}
    BY <1>1, <2>1, ExpiredFields, Zenon
  <2>7. ~(~Orphan(t) /\ row[t].deadline = "live")
    BY <1>1, <2>1, Zenon
  <2>8. ReapedRow(t) = Expired(r)
    BY <1>2, <1>3, Zenon
  <2> QED BY <2>2, <2>3, <2>4, <2>5, <2>6, <2>7, <2>8, Zenon
<1>4. CASE ~Overdue(r)
  <2>1. ReapedRow(t) = r
    BY <1>2, <1>4, Zenon
  <2>2. Orphan(t) /\ Fenced(row[t]) => r.status \notin {"queued", "running"}
    BY <1>1, Zenon
  <2> QED BY <1>1, <2>1, <2>2, Zenon
<1> QED BY <1>3, <1>4, Zenon

(* The table after reaping. *)
LEMMA ReapedCalm ==
  ASSUME TableOK(row)
  PROVE  /\ TableCalm(row, Reaped)
         /\ Patient(row) => Patient(Reaped)
         /\ \A t \in Task : row[t].binding \in Takable => Reaped[t].binding \in Takable
         /\ \A t \in Task : Orphan(t) /\ Fenced(row[t]) => Reaped[t].status \notin {"queued", "running"}
         /\ \A t \in Task : ~Orphan(t) /\ row[t].status = "running" /\ row[t].deadline = "live" =>
              Reaped[t].status = "running" /\ Reaped[t].attempt = row[t].attempt
<1>1. Reaped = RefreshContinuations(ReapedRows)
  BY Zenon DEF Reaped, ReapedRows, ReapedRow
<1>2. TableCalm(row, ReapedRows) /\ \A t \in Task : Undep(row[t], ReapedRows[t])
  <2>1. ASSUME NEW t \in Task
        PROVE  ReapedRows[t] \in Row /\ Calm(row[t], ReapedRows[t]) /\ Undep(row[t], ReapedRows[t])
    <3>1. ReapedRows[t] = ReapedRow(t)
      BY Zenon DEF ReapedRows
    <3> QED BY <3>1, ReapedRowCalm, Zenon
  <2>2. ReapedRows \in [Task -> Row]
    <3>1. \A t \in Task : ReapedRow(t) \in Row
      BY ReapedRowCalm, Zenon
    <3> QED BY <3>1, Zenon DEF ReapedRows
  <2> QED BY <2>1, <2>2, Zenon DEF TableCalm
<1>3. TableOK(ReapedRows)
  BY <1>2, TableCalmOrder, Zenon
<1>4. TableCalm(row, Reaped)
  BY <1>1, <1>2, <1>3, RefreshCalm, TableCalmOrder, Zenon
<1>5. Patient(row) => Patient(Reaped)
  BY <1>1, <1>2, <1>3, RefreshPatient, Zenon
<1>6. ASSUME NEW t \in Task
      PROVE  /\ row[t].binding \in Takable => Reaped[t].binding \in Takable
             /\ Orphan(t) /\ Fenced(row[t]) => Reaped[t].status \notin {"queued", "running"}
             /\ ~Orphan(t) /\ row[t].status = "running" /\ row[t].deadline = "live" =>
                  Reaped[t].status = "running" /\ Reaped[t].attempt = row[t].attempt
  <2>1. ReapedRows[t] = ReapedRow(t)
    BY Zenon DEF ReapedRows
  <2>2. /\ Reaped[t].status = ReapedRow(t).status /\ Reaped[t].binding = ReapedRow(t).binding
        /\ ReapedRow(t).status # "queued" => Reaped[t] = ReapedRow(t)
    <3>1. LET ss == RefreshContinuations(ReapedRows)
          IN  /\ ss[t].status = ReapedRows[t].status /\ ss[t].binding = ReapedRows[t].binding
              /\ ReapedRows[t].status # "queued" => ss[t] = ReapedRows[t]
      BY <1>3, RefreshCalm, Zenon
    <3> QED BY <1>1, <2>1, <3>1, Zenon
  <2>3. ~Orphan(t) /\ row[t].deadline = "live" =>
          ReapedRow(t).status = row[t].status /\ ReapedRow(t).attempt = row[t].attempt
    BY ReapedRowCalm, Zenon DEF Same
  <2>4. ReapedRow(t).status = "running" => Reaped[t] = ReapedRow(t)
    BY <2>2, Zenon
  <2> QED BY <2>2, <2>3, <2>4, ReapedRowCalm, Zenon
<1> QED BY <1>4, <1>5, <1>6, Zenon

-----------------------------------------------------------------------------
(* Restarting.                                                              *)

RestartContained(t) ==
  LET p == row[t].parent
  IN  IF /\ p # 0 /\ Interrupted(row[p])
         /\ ChildOfAttempt(row, t, p, row[p].attempt)
         /\ Containable(row[t])
      THEN Cancel(row[t]) ELSE row[t]
RestartedRow(t) ==
  IF Interrupted(row[t]) /\ Interrupted(RestartContained(t))
  THEN Recovered(RestartContained(t)) ELSE RestartContained(t)
RestartedRows == [t \in Task |-> RestartedRow(t)]

(* The rows after begin_runtime_session, before the refresh: a child whose  *)
(* parent was running its attempt is no longer queued or running, and a row *)
(* that is queued or running was so before, or can be resumed.              *)
LEMMA RestartedRowCalm ==
  ASSUME TableOK(row), NEW t \in Task
  PROVE  LET s == RestartedRow(t)
             p == row[t].parent
         IN  /\ s \in Row /\ Calm(row[t], s) /\ Undep(row[t], s)
             /\ s.status # "running"
             /\ Fenced(row[t]) /\ s.status = "queued" => row[t].status \in {"queued", "running"}
             /\ Fenced(row[t]) /\ p # 0 /\ row[p].status = "running" /\ row[p].attempt = row[t].pattempt
                  => s.status # "queued"
<1> DEFINE r == RestartContained(t)
           p == row[t].parent
           cut == /\ p # 0 /\ Interrupted(row[p])
                  /\ ChildOfAttempt(row, t, p, row[p].attempt) /\ Containable(row[t])
<1>1. row[t] \in Row /\ RowOK(row[t])
  BY Zenon DEF TableOK
<1>2. r = IF cut THEN Cancel(row[t]) ELSE row[t]
  BY Zenon DEF RestartContained
<1>3. RestartedRow(t) = IF Interrupted(row[t]) /\ Interrupted(r) THEN Recovered(r) ELSE r
  BY Zenon DEF RestartedRow
<1>4. /\ p # 0 /\ row[p].status = "running" /\ row[p].attempt = row[t].pattempt
           /\ row[t].status \in {"queued", "running"} => cut
  BY Zenon DEF Interrupted, ChildOfAttempt, Containable, Terminal
<1> HIDE DEF r, cut, p
<1>5. CASE cut
  <2>1. row[t].status \in {"queued", "running", "failed", "cancel_requested"}
    BY <1>1, <1>5, Zenon DEF cut, Containable, Row, Status, Terminal
  <2>2. r = Cancel(row[t])
    BY <1>2, <1>5, Zenon
  <2>3. /\ Calm(row[t], r) /\ Undep(row[t], r) /\ r \in Row
        /\ r.status \in {"cancelled", "cancel_requested"}
        /\ r.status = "cancel_requested" => Unresolved(r)
    BY <1>1, <2>1, <2>2, CancelCalm, CancelKeeps, Zenon
  <2>4. CASE Interrupted(row[t]) /\ Interrupted(r)
    <3>0. RestartedRow(t) = Recovered(r)
      BY <1>3, <2>4, Zenon
    <3>1. RestartedRow(t) = Recovered(r) /\ RowOK(r)
      BY <2>3, <3>0, CalmOrder, Zenon
    <3>2. Calm(r, Recovered(r)) /\ Undep(r, Recovered(r)) /\ Recovered(r) \in Row
      BY <2>3, <2>4, <3>1, RecoveredCalm, RecoveredKeeps, Zenon
    <3>3. r.status = "cancel_requested" /\ Unresolved(r)
      BY <2>3, <2>4, Zenon DEF Interrupted
    <3>4. Recovered(r).status = "cancel_requested"
      BY <2>3, <3>3, RecoveredFields, Zenon
    <3>5. Calm(row[t], Recovered(r))
      BY <2>3, <3>2, CalmOrder, Zenon
    <3>6. Undep(row[t], Recovered(r))
      BY <3>4, Zenon DEF Undep
    <3> QED BY <3>1, <3>2, <3>4, <3>5, <3>6, Zenon
  <2>5. CASE ~(Interrupted(row[t]) /\ Interrupted(r))
    <3>1. RestartedRow(t) = r
      BY <1>3, <2>5, Zenon
    <3>2. r.status \notin {"queued", "running"}
      BY <2>3, Zenon
    <3> QED BY <2>3, <3>1, <3>2, Zenon
  <2> QED BY <2>4, <2>5, Zenon
<1>6. CASE ~cut
  <2>1. r = row[t]
    BY <1>2, <1>6, Zenon
  <2>2. CASE Interrupted(row[t])
    <3>1. RestartedRow(t) = Recovered(row[t])
      BY <1>3, <2>1, <2>2, Zenon
    <3>2. /\ Calm(row[t], Recovered(row[t])) /\ Undep(row[t], Recovered(row[t]))
          /\ Recovered(row[t]) \in Row
      BY <1>1, <2>2, RecoveredCalm, RecoveredKeeps, Zenon
    <3>3. row[t].status \in {"running", "cancel_requested"}
      BY <2>2, Zenon DEF Interrupted
    <3>4. /\ Recovered(row[t]).status # "running"
          /\ Fenced(row[t]) /\ Recovered(row[t]).status = "queued" => row[t].status = "running"
      <4>1. CASE Unresolved(row[t])
        BY <1>1, <3>3, <4>1, RecoveredFields, Zenon
      <4>2. CASE ~Unresolved(row[t]) /\ row[t].status = "running"
        BY <1>1, <4>2, RecoveredFields, Zenon
      <4>3. CASE ~Unresolved(row[t]) /\ row[t].status = "cancel_requested"
        BY <1>1, <4>3, RecoveredFields, Zenon DEF Fenced
      <4> QED BY <3>3, <4>1, <4>2, <4>3, Zenon
    <3> QED BY <1>4, <1>6, <3>1, <3>2, <3>4, SMTT(20) DEF p
  <2>3. CASE ~Interrupted(row[t])
    <3>1. RestartedRow(t) = row[t]
      BY <1>3, <2>1, <2>3, Zenon
    <3>2. Calm(row[t], row[t]) /\ Undep(row[t], row[t])
      BY <1>1, SameCalm, Zenon DEF Same
    <3>3. row[t].status # "running"
      BY <2>3, Zenon DEF Interrupted
    <3> QED BY <1>1, <1>4, <1>6, <3>1, <3>2, <3>3, Zenon DEF p
  <2> QED BY <2>2, <2>3, Zenon
<1> QED BY <1>5, <1>6, Zenon

(* The table after a restart. *)
LEMMA RestartedCalm ==
  ASSUME TableOK(row)
  PROVE  /\ TableCalm(row, Restarted)
         /\ Patient(row) => Patient(Restarted)
         /\ \A t \in Task :
              /\ Restarted[t].status # "running"
              /\ Fenced(row[t]) /\ Restarted[t].status = "queued" => row[t].status \in {"queued", "running"}
              /\ LET p == row[t].parent
                 IN  Fenced(row[t]) /\ p # 0 /\ row[p].status = "running" /\ row[p].attempt = row[t].pattempt
                       => Restarted[t].status # "queued"
<1>1. Restarted = RefreshContinuations(RestartedRows)
  BY Zenon DEF Restarted, RestartedRows, RestartedRow, RestartContained
<1>2. TableCalm(row, RestartedRows) /\ \A t \in Task : Undep(row[t], RestartedRows[t])
  <2>1. ASSUME NEW t \in Task
        PROVE  RestartedRows[t] \in Row /\ Calm(row[t], RestartedRows[t]) /\ Undep(row[t], RestartedRows[t])
    <3>1. RestartedRows[t] = RestartedRow(t)
      BY Zenon DEF RestartedRows
    <3> QED BY <3>1, RestartedRowCalm, Zenon
  <2>2. RestartedRows \in [Task -> Row]
    <3>1. \A t \in Task : RestartedRow(t) \in Row
      BY RestartedRowCalm, Zenon
    <3> QED BY <3>1, Zenon DEF RestartedRows
  <2> QED BY <2>1, <2>2, Zenon DEF TableCalm
<1>3. TableOK(RestartedRows)
  BY <1>2, TableCalmOrder, Zenon
<1>4. TableCalm(row, Restarted)
  BY <1>1, <1>2, <1>3, RefreshCalm, TableCalmOrder, Zenon
<1>5. Patient(row) => Patient(Restarted)
  BY <1>1, <1>2, <1>3, RefreshPatient, Zenon
<1>6. ASSUME NEW t \in Task
      PROVE  Restarted[t].status = RestartedRow(t).status
  <2>1. RestartedRows[t] = RestartedRow(t)
    BY Zenon DEF RestartedRows
  <2>2. RefreshContinuations(RestartedRows)[t].status = RestartedRows[t].status
    BY <1>3, RefreshCalm, Zenon
  <2> QED BY <1>1, <2>1, <2>2, Zenon
<1> QED BY <1>4, <1>5, <1>6, RestartedRowCalm, Zenon

-----------------------------------------------------------------------------
(* The row a command is about.                                              *)

(* A settled or failed row. *)
LEMMA FinishedRow ==
  ASSUME NEW r \in Row, RowOK(r), r.status = "running",
         NEW n, NEW outcome \in {"completed", "failed"}
  PROVE  LET s == Finished(r, n, outcome)
         IN  /\ RowOK(s) /\ s.status = outcome /\ s.open = r.open \ {n}
             /\ s.attempt = r.attempt /\ s.fence = r.fence
             /\ s.req = r.req /\ s.parent = r.parent /\ s.pattempt = r.pattempt
             /\ Fenced(r) /\ n \in r.open => Fenced(s)
<1> DEFINE s == Finished(r, n, outcome)
<1>1. /\ s.status = outcome /\ s.waiting = "none" /\ s.open = r.open \ {n}
      /\ s.attempt = r.attempt /\ s.fence = r.fence /\ s.req = r.req
      /\ s.parent = r.parent /\ s.pattempt = r.pattempt /\ s.admitted = r.admitted
      /\ s.binding = ReleasedBinding(r.binding, "released")
  BY Zenon DEF Row, Finished
<1> HIDE DEF s
<1>2. s.binding \in Takable \cup {"released"} /\ (r.binding # "none" => s.binding # "none")
  BY <1>1, Zenon DEF RowOK, Takable, ReleasedBinding
<1>3. RowOK(s)
  BY <1>1, <1>2, Zenon DEF RowOK, Unresolved, Takable, Terminal
<1>4. Fenced(r) /\ n \in r.open => Fenced(s)
  BY <1>1, Zenon DEF Fenced
<1> QED BY <1>1, <1>3, <1>4, Zenon DEF s

(* A retried row. *)
LEMMA RetriedRow ==
  ASSUME NEW r \in Row, RowOK(r), r.status \in Terminal
  PROVE  LET s == Retried(r)
         IN  /\ RowOK(s) /\ s.status = "queued" /\ s.waiting = "none" /\ s.open = r.open
             /\ s.fence = r.fence
             /\ s.req = r.req /\ s.parent = r.parent /\ s.pattempt = r.pattempt
             /\ Fenced(r) => Fenced(s)
<1> DEFINE s == Retried(r)
<1>1. /\ s.status = "queued" /\ s.waiting = "none" /\ s.open = r.open
      /\ s.fence = r.fence /\ s.req = r.req
      /\ s.parent = r.parent /\ s.pattempt = r.pattempt /\ s.admitted = r.admitted
      /\ s.binding = ResetBinding(r.binding)
  BY Zenon DEF Row, Retried, ResetAttempt
<1> HIDE DEF s
<1>2. RowOK(s)
  BY <1>1, ResetTakable, Zenon DEF RowOK, Unresolved, Takable, Terminal
<1>3. Fenced(r) => Fenced(s)
  BY <1>1, Zenon DEF Fenced, RowOK, Terminal
<1> QED BY <1>1, <1>2, <1>3, Zenon DEF s

(* A new row. *)
LEMMA NewRowOK ==
  ASSUME NEW q \in RequestShape
  PROVE  LET s == NewRow(q)
         IN  /\ RowOK(s) /\ Fenced(s) /\ s.status = "queued" /\ s.waiting = "none"
             /\ s.open = {} /\ s.fence = 0 /\ s.req = q /\ s.parent = 0 /\ ~s.admitted
             /\ s.binding = IF q.external THEN "prepared" ELSE "none"
<1> DEFINE s == NewRow(q)
<1>1. /\ s.status = "queued" /\ s.waiting = "none" /\ s.open = {} /\ s.fence = 0
      /\ s.req = q /\ s.parent = 0 /\ ~s.admitted
      /\ s.binding = IF q.external THEN "prepared" ELSE "none"
  BY Zenon DEF NewRow, Absent
<1> HIDE DEF s
<1>2. RowOK(s)
  BY <1>1, Zenon DEF RowOK, Unresolved, Takable, Terminal
<1>3. Fenced(s)
  BY <1>1, Zenon DEF Fenced
<1> QED BY <1>1, <1>2, <1>3, Zenon DEF s

(* The columns of a claimed row. *)
LEMMA ClaimedFields ==
  ASSUME NEW r \in Row, NEW e
  PROVE  LET s == Claimed(r, e)
         IN  /\ s.status = "running" /\ s.waiting = "none" /\ s.attempt = r.attempt
             /\ s.open = r.open /\ s.binding = r.binding /\ s.fence = r.fence + 1
             /\ s.req = r.req /\ s.parent = r.parent /\ s.pattempt = r.pattempt
             /\ s.admitted = r.admitted
<1> DEFINE l == Leased(r, e)
<1>1. /\ l.status = "running" /\ l.waiting = "none" /\ l.attempt = r.attempt
      /\ l.open = r.open /\ l.binding = r.binding /\ l.fence = r.fence + 1
      /\ l.req = r.req /\ l.parent = r.parent /\ l.pattempt = r.pattempt
      /\ l.admitted = r.admitted
  BY Zenon DEF Row, Leased
<1>2. Same(l, Reserved(l, e))
  BY Zenon DEF Row, Leased, Reserved, Same
<1> HIDE DEF l
<1> QED BY <1>1, <1>2, Zenon DEF Claimed, Same, l

(* The columns of a bound row. *)
LEMMA BoundFields ==
  ASSUME NEW r \in Row
  PROVE  LET s == Bound(r)
         IN  /\ s.status = r.status /\ s.waiting = r.waiting /\ s.attempt = r.fence
             /\ s.open = r.open \cup {r.fence} /\ s.fence = r.fence
             /\ s.binding = IF r.binding = "none" THEN "none" ELSE "claimed"
             /\ s.req = r.req /\ s.parent = r.parent /\ s.pattempt = r.pattempt
             /\ s.admitted = r.admitted
BY Zenon DEF Row, Bound

(* A granted claim: only a task without an open external attempt is         *)
(* claimed, so the new attempt is the only one.                             *)
LEMMA GrantedRow ==
  ASSUME NEW r \in Row, RowOK(r), NEW e \in Holder, epoch \in Epoch, r.fence < MaxFence,
         r.status = "queued", r.waiting # "unknown", ~Dependent(r)
  PROVE  LET s == Bound(Claimed(r, e))
         IN  /\ Moves(r, s) /\ (Fenced(r) => Fenced(s))
             /\ s.status = "running" /\ s.attempt = s.fence /\ s.fence = r.fence + 1
<1> DEFINE c == Claimed(r, e)
           s == Bound(c)
<1>1. c \in Row
  BY ClaimedRow, Zenon
<1>2. /\ c.status = "running" /\ c.waiting = "none"
      /\ c.open = r.open /\ c.binding = r.binding /\ c.fence = r.fence + 1
      /\ c.req = r.req /\ c.parent = r.parent /\ c.pattempt = r.pattempt
      /\ c.admitted = r.admitted
  BY ClaimedFields, Zenon
<1> HIDE DEF c
<1>3. /\ s.status = c.status /\ s.waiting = c.waiting /\ s.attempt = c.fence
      /\ s.open = c.open \cup {c.fence} /\ s.fence = c.fence
      /\ s.binding = IF c.binding = "none" THEN "none" ELSE "claimed"
      /\ s.req = c.req /\ s.parent = c.parent /\ s.pattempt = c.pattempt
      /\ s.admitted = c.admitted
  BY <1>1, BoundFields, Zenon
<1> HIDE DEF s
<1>4. s.fence # 0
  <2>1. s.fence = r.fence + 1
    BY <1>2, <1>3, Zenon
  <2>2. r.fence \in Nat
    BY BoundAssumption, SMTT(20) DEF Row, Number, Fence
  <2> QED BY <2>1, <2>2, SMTT(20)
<1>5. RowOK(s)
  BY <1>2, <1>3, <1>4, Zenon DEF RowOK, Dependent, Unresolved, Takable, Terminal
<1>6. Fenced(r) => Fenced(s)
  BY <1>2, <1>3, Zenon DEF Fenced, RowOK, Unresolved, Takable
<1>7. Moves(r, s)
  BY <1>2, <1>3, <1>5, Zenon DEF Moves, Terminal
<1> QED BY <1>2, <1>3, <1>6, <1>7, Zenon DEF s, c

(* The first commit of resume_attempt: a binding that a claim can take. *)
LEMMA ResetRow ==
  ASSUME NEW r \in Row, RowOK(r)
  PROVE  LET s == ResetAttempt(r)
         IN  /\ Moves(r, s) /\ s.binding \in Takable
             /\ s.status = r.status /\ s.attempt = r.attempt /\ s.fence = r.fence
             /\ s.waiting = r.waiting /\ s.admitted = r.admitted /\ s.req = r.req
<1> DEFINE s == ResetAttempt(r)
<1>1. /\ s.status = r.status /\ s.waiting = r.waiting /\ s.attempt = r.attempt
      /\ s.open = r.open /\ s.fence = r.fence /\ s.req = r.req
      /\ s.parent = r.parent /\ s.pattempt = r.pattempt /\ s.admitted = r.admitted
      /\ s.binding = ResetBinding(r.binding)
  BY Zenon DEF Row, ResetAttempt
<1> HIDE DEF s
<1>2. s.binding \in Takable /\ (r.binding # "none" => s.binding # "none")
  BY <1>1, ResetTakable, Zenon
<1>3. RowOK(s)
  BY <1>1, <1>2, Zenon DEF RowOK, Unresolved, Takable, Terminal
<1>4. Moves(r, s)
  BY <1>1, <1>3, Zenon DEF Moves, Terminal
<1> QED BY <1>1, <1>2, <1>4, Zenon DEF s

(* The second commit: the task runs again, with its old attempt still named. *)
LEMMA ReclaimedRow ==
  ASSUME NEW r \in Row, RowOK(r), NEW e,
         r.status \in {"queued", "cancel_requested"}, r.binding \in Takable, r.fence # 0
  PROVE  LET s == Claimed(r, e)
         IN  Moves(r, s) /\ s.status = "running" /\ s.binding \in Takable /\ s.fence # 0
<1> DEFINE s == Claimed(r, e)
<1>1. /\ s.status = "running" /\ s.waiting = "none" /\ s.attempt = r.attempt
      /\ s.open = r.open /\ s.binding = r.binding /\ s.fence = r.fence + 1
      /\ s.req = r.req /\ s.parent = r.parent /\ s.pattempt = r.pattempt
      /\ s.admitted = r.admitted
  BY ClaimedFields, Zenon
<1> HIDE DEF s
<1>2. s.fence # 0
  <2>1. s.fence = r.fence + 1
    BY <1>1, Zenon
  <2>2. r.fence \in Nat
    BY BoundAssumption, SMTT(20) DEF Row, Number, Fence
  <2> QED BY <2>1, <2>2, SMTT(20)
<1>3. RowOK(s)
  BY <1>1, <1>2, Zenon DEF RowOK, Unresolved, Takable, Terminal
<1>4. Moves(r, s)
  BY <1>1, <1>3, Zenon DEF Moves, Terminal
<1> QED BY <1>1, <1>2, <1>4, Zenon DEF s

(* The third commit: the attempt is the one of the new fence. *)
LEMMA BoundRow ==
  ASSUME NEW r \in Row, RowOK(r), r.status = "running", r.binding \in Takable
  PROVE  LET s == Bound(r)
         IN  Moves(r, s) /\ s.status = "running" /\ s.attempt = s.fence
<1> DEFINE s == Bound(r)
<1>1. /\ s.status = r.status /\ s.waiting = r.waiting /\ s.attempt = r.fence
      /\ s.open = r.open \cup {r.fence} /\ s.fence = r.fence
      /\ s.binding = IF r.binding = "none" THEN "none" ELSE "claimed"
      /\ s.req = r.req /\ s.parent = r.parent /\ s.pattempt = r.pattempt
      /\ s.admitted = r.admitted
  BY BoundFields, Zenon
<1> HIDE DEF s
<1>3. RowOK(s)
  BY <1>1, Zenon DEF RowOK, Unresolved, Takable, Terminal
<1>4. Moves(r, s)
  BY <1>1, <1>3, Zenon DEF Moves, Terminal
<1> QED BY <1>1, <1>4, Zenon DEF s

-----------------------------------------------------------------------------
(* The invariant.                                                           *)

(* A child that is queued or running. *)
Kid(rs, c) == rs[c].parent # 0 /\ rs[c].status \in {"queued", "running"}

(* ... has a parent that runs the attempt that admitted it. *)
Guard(rs) ==
  \A c \in Task : NoCheckpoint(c) /\ Kid(rs, c) =>
    /\ rs[rs[c].parent].status = "running"
    /\ rs[rs[c].parent].attempt = rs[c].pattempt

Checked(rs) == \A t \in Task : NoCheckpoint(t) => Fenced(rs[t])

Lineage ==
  \A c \in Task : row[c].parent # 0 =>
    row[row[c].parent].parent = 0 /\ row[row[c].parent].status # "absent"

(* A running task names the attempt of its fence, but between the second    *)
(* and the third commit of a resume.                                        *)
AttemptIsFence ==
  \A t \in Task : row[t].status = "running" /\ ~(resume.step = "bind" /\ resume.task = t) =>
    row[t].attempt = row[t].fence

CheckpointFence ==
  \A t \in Task : ~NoCheckpoint(t) => row[t].fence # 0

Resuming ==
  /\ resume.step # "idle" => resume.task \in Task /\ ~NoCheckpoint(resume.task)
  /\ resume.step = "claim" => row[resume.task].binding \in Takable
  /\ resume.step = "bind" =>
       /\ row[resume.task].status = "running" /\ row[resume.task].binding \in Takable
       /\ \A c \in Task : NoCheckpoint(c) /\ row[c].parent = resume.task => ~Kid(row, c)

Base ==
  /\ TypeOK /\ ResumeFence /\ TableOK(row) /\ Checked(row) /\ Lineage /\ Guard(row)
  /\ Patient(row) /\ AttemptIsFence /\ CheckpointFence /\ Resuming

(* What a step leaves of the rows. *)
After(rs) == TableOK(rs) /\ Checked(rs) /\ Guard(rs) /\ Patient(rs)

(* A parent is a task of its own and has no parent. *)
LEMMA ParentOf ==
  ASSUME Base, NEW c \in Task, row[c].parent # 0
  PROVE  /\ row[c].parent \in Task /\ row[row[c].parent].parent = 0 /\ row[c].parent # c
         /\ row[row[c].parent].status # "absent"
<1>1. row[c] \in Row
  BY Zenon DEF Base, TableOK
<1>2. row[c].parent \in {0} \cup Task
  BY <1>1, Zenon DEF Row
<1> QED BY <1>2, Zenon DEF Base, Lineage

(* A calm change of the table keeps the fenced rows fenced. *)
LEMMA CalmChecked ==
  ASSUME NEW rs, NEW ss, Checked(rs), TableCalm(rs, ss)
  PROVE  TableOK(ss) /\ Checked(ss)
<1>1. TableOK(ss)
  BY TableCalmOrder, Zenon
<1>2. ASSUME NEW t \in Task, NoCheckpoint(t)
      PROVE  Fenced(ss[t])
  <2>1. Fenced(rs[t]) /\ Calm(rs[t], ss[t])
    BY <1>2, Zenon DEF Checked, TableCalm
  <2> QED BY <2>1, Zenon DEF Calm
<1> QED BY <1>1, <1>2, Zenon DEF Checked

(* Reaping leaves no queued or running child without its parent. *)
LEMMA ReapedAfter ==
  ASSUME Base
  PROVE  TableCalm(row, Reaped) /\ After(Reaped)
<1>1. TableOK(row) /\ Checked(row) /\ Guard(row) /\ Patient(row)
  BY Zenon DEF Base
<1>2. TableCalm(row, Reaped) /\ Patient(Reaped)
  BY <1>1, ReapedCalm, Zenon
<1>3. TableOK(Reaped) /\ Checked(Reaped)
  BY <1>1, <1>2, CalmChecked, Zenon
<1>4. ASSUME NEW c \in Task, NoCheckpoint(c), Kid(Reaped, c)
      PROVE  /\ Reaped[Reaped[c].parent].status = "running"
             /\ Reaped[Reaped[c].parent].attempt = Reaped[c].pattempt
  <2> DEFINE p == row[c].parent
  <2>1. Calm(row[c], Reaped[c]) /\ Fenced(row[c])
    BY <1>1, <1>2, <1>4, Zenon DEF TableCalm, Checked
  <2>2. Reaped[c].parent = p /\ Reaped[c].pattempt = row[c].pattempt /\ p # 0
        /\ Reaped[c].status \in {"queued", "running"}
    BY <1>4, <2>1, Zenon DEF Calm, Moves, Kid
  <2>3. ~Orphan(c)
    BY <1>1, <2>1, <2>2, ReapedCalm, Zenon
  <2>4. row[c].status \notin Terminal
    <3>1. Reaped[c].status \notin Terminal
      BY <2>2, Zenon DEF Terminal
    <3> QED BY <2>1, <3>1, Zenon DEF Calm, Moves
  <2>5. LiveParent(row, p, row[c].pattempt)
    BY <2>2, <2>3, <2>4, Zenon DEF Orphan
  <2>6. row[p].status = "running" /\ row[p].deadline = "live" /\ row[p].attempt = row[c].pattempt
    BY <2>5, Zenon DEF LiveParent, ParentHolds
  <2>7. p \in Task /\ row[p].parent = 0
    BY <2>2, ParentOf, Zenon
  <2>8. ~Orphan(p)
    BY <2>7, Zenon DEF Orphan
  <2>9. Reaped[p].status = "running" /\ Reaped[p].attempt = row[p].attempt
    BY <1>1, <2>6, <2>7, <2>8, ReapedCalm, Zenon
  <2> QED BY <2>2, <2>6, <2>9, Zenon
<1> QED BY <1>2, <1>3, <1>4, Zenon DEF After, Guard

(* Changing a queued row calmly, without making it run or wait for its      *)
(* dependencies for no reason.                                              *)
LEMMA QueuedUpdateAfter ==
  ASSUME NEW rs, After(rs), NEW t \in Task, NEW s \in Row, Calm(rs[t], s),
         rs[t].status = "queued", s.status = "queued",
         s.waiting = "dependency" =>
           ~s.admitted /\ \E p \in s.req.preds : rs[p].status # "completed"
  PROVE  After([rs EXCEPT ![t] = s])
<1> DEFINE ss == [rs EXCEPT ![t] = s]
<1>1. TableOK(rs) /\ Checked(rs) /\ Guard(rs) /\ Patient(rs) /\ rs \in [Task -> Row]
  BY Zenon DEF After, TableOK
<1>2. ss[t] = s /\ \A u \in Task : u # t => ss[u] = rs[u]
  BY <1>1, Zenon
<1>3. TableCalm(rs, ss)
  BY <1>1, TableCalmUpdate, Zenon
<1>4. \A u : rs[u].status # "completed" => ss[u].status # "completed"
  <2> SUFFICES ASSUME NEW u, rs[u].status # "completed" PROVE ss[u].status # "completed"
    OBVIOUS
  <2>1. CASE u = t
    BY <1>2, <2>1, Zenon
  <2>2. CASE u # t
    BY <1>1, <2>2, SMTT(20)
  <2> QED BY <2>1, <2>2
<1> HIDE DEF ss
<1>5. Patient(ss)
  <2> SUFFICES ASSUME NEW u \in Task, ss[u].status = "queued", ss[u].waiting = "dependency"
               PROVE  ~ss[u].admitted /\ \E p \in ss[u].req.preds : ss[p].status # "completed"
    BY Zenon DEF Patient
  <2>1. CASE u = t
    BY <1>2, <1>4, <2>1, Zenon
  <2>2. CASE u # t
    BY <1>1, <1>2, <1>4, <2>2, Zenon DEF Patient
  <2> QED BY <2>1, <2>2, Zenon
<1>6. Guard(ss)
  <2> SUFFICES ASSUME NEW c \in Task, NoCheckpoint(c), Kid(ss, c)
               PROVE  /\ ss[ss[c].parent].status = "running"
                      /\ ss[ss[c].parent].attempt = ss[c].pattempt
    BY Zenon DEF Guard
  <2>1. ss[c].parent = rs[c].parent /\ ss[c].pattempt = rs[c].pattempt
    BY <1>3, Zenon DEF TableCalm, Calm, Moves
  <2>2. Kid(rs, c)
    <3>1. CASE c = t
      BY <1>2, <2>1, <3>1, Zenon DEF Kid
    <3>2. CASE c # t
      BY <1>2, <3>2, Zenon DEF Kid
    <3> QED BY <3>1, <3>2, Zenon
  <2>3. rs[rs[c].parent].status = "running" /\ rs[rs[c].parent].attempt = rs[c].pattempt
    BY <1>1, <2>2, Zenon DEF Guard
  <2>4. rs[c].parent # t
    BY <2>3, Zenon
  <2>5. rs[c].parent \in Task
    <3>1. rs[c] \in Row
      BY <1>1, Zenon
    <3> QED BY <2>2, <3>1, Zenon DEF Row, Kid
  <2>6. ss[rs[c].parent] = rs[rs[c].parent]
    BY <1>2, <2>4, <2>5, Zenon
  <2> QED BY <2>1, <2>3, <2>6, Zenon
<1> QED BY <1>1, <1>3, <1>5, <1>6, CalmChecked, Zenon DEF After, ss

(* A step that changes neither the standing of a row nor its lineage. *)
LEMMA SameUpdateAfter ==
  ASSUME NEW rs, After(rs), NEW t \in Task, NEW s \in Row, RowOK(s), NoCheckpoint(t) => Fenced(s),
         s.status = rs[t].status, s.attempt = rs[t].attempt, s.waiting = rs[t].waiting,
         s.admitted = rs[t].admitted, s.req = rs[t].req,
         s.parent = rs[t].parent, s.pattempt = rs[t].pattempt
  PROVE  After([rs EXCEPT ![t] = s])
<1> DEFINE ss == [rs EXCEPT ![t] = s]
<1>1. TableOK(rs) /\ Checked(rs) /\ Guard(rs) /\ Patient(rs) /\ rs \in [Task -> Row]
  BY Zenon DEF After, TableOK
<1>2. ss \in [Task -> Row] /\ ss[t] = s /\ \A u \in Task : u # t => ss[u] = rs[u]
  BY <1>1, Zenon
<1>3. \A u : /\ ss[u].status = rs[u].status /\ ss[u].attempt = rs[u].attempt
             /\ ss[u].waiting = rs[u].waiting /\ ss[u].admitted = rs[u].admitted
             /\ ss[u].req = rs[u].req
             /\ ss[u].parent = rs[u].parent /\ ss[u].pattempt = rs[u].pattempt
  <2> TAKE u
  <2>1. CASE u = t
    BY <1>2, <2>1, Zenon
  <2>2. CASE u # t
    <3>1. ss[u] = rs[u]
      BY <1>1, <2>2, SMTT(20)
    <3> QED BY <3>1, Zenon
  <2> QED BY <2>1, <2>2, Zenon
<1> HIDE DEF ss
<1>4. TableOK(ss) /\ Checked(ss)
  BY <1>1, <1>2, Zenon DEF TableOK, Checked
<1>5. Patient(ss)
  BY <1>1, <1>3, ZenonT(60) DEF Patient
<1>6. Guard(ss)
  BY <1>1, <1>3, ZenonT(60) DEF Guard, Kid
<1> QED BY <1>4, <1>5, <1>6, Zenon DEF After, ss

(* A row without queued or running children starts to run, or runs on.      *)
LEMMA RunUpdateAfter ==
  ASSUME NEW rs, After(rs), NEW t \in Task, NEW s \in Row, RowOK(s), s.status = "running",
         s.parent = rs[t].parent, s.pattempt = rs[t].pattempt,
         NoCheckpoint(t) => Fenced(s) /\ rs[t].status \in {"queued", "running"},
         \A c \in Task : NoCheckpoint(c) /\ rs[c].parent = t => ~Kid(rs, c)
  PROVE  /\ After([rs EXCEPT ![t] = s])
         /\ \A c \in Task : NoCheckpoint(c) /\ [rs EXCEPT ![t] = s][c].parent = t
              => ~Kid([rs EXCEPT ![t] = s], c)
<1> DEFINE ss == [rs EXCEPT ![t] = s]
<1>1. TableOK(rs) /\ Checked(rs) /\ Guard(rs) /\ Patient(rs) /\ rs \in [Task -> Row]
  BY Zenon DEF After, TableOK
<1>2. ss \in [Task -> Row] /\ ss[t] = s /\ \A u \in Task : u # t => ss[u] = rs[u]
  BY <1>1, Zenon
<1>3. \A u : /\ ss[u].parent = rs[u].parent /\ ss[u].pattempt = rs[u].pattempt
             /\ rs[u].status # "completed" => ss[u].status # "completed"
  <2> TAKE u
  <2>1. CASE u = t
    BY <1>2, <2>1, Zenon
  <2>2. CASE u # t
    <3>1. ss[u] = rs[u]
      BY <1>1, <2>2, SMTT(20)
    <3> QED BY <3>1, Zenon
  <2> QED BY <2>1, <2>2, Zenon
<1> HIDE DEF ss
<1>4. TableOK(ss) /\ Checked(ss)
  BY <1>1, <1>2, Zenon DEF TableOK, Checked
<1>5. Patient(ss)
  <2> SUFFICES ASSUME NEW u \in Task, ss[u].status = "queued", ss[u].waiting = "dependency"
               PROVE  ~ss[u].admitted /\ \E p \in ss[u].req.preds : ss[p].status # "completed"
    BY Zenon DEF Patient
  <2>1. u # t
    BY <1>2, Zenon
  <2> QED BY <1>1, <1>2, <1>3, <2>1, Zenon DEF Patient
<1>6. ASSUME NEW c \in Task, NoCheckpoint(c), Kid(ss, c)
      PROVE  Kid(rs, c) /\ rs[c].parent # t /\ rs[c].parent \in Task
  <2>1. Kid(rs, c)
    <3>1. CASE c = t
      BY <1>3, <1>6, <3>1, Zenon DEF Kid
    <3>2. CASE c # t
      BY <1>2, <1>6, <3>2, Zenon DEF Kid
    <3> QED BY <3>1, <3>2, Zenon
  <2>2. rs[c].parent # t
    BY <1>6, <2>1, Zenon
  <2>3. rs[c] \in Row
    BY <1>1, Zenon
  <2>4. rs[c].parent \in Task
    BY <2>1, <2>3, Zenon DEF Row, Kid
  <2> QED BY <2>1, <2>2, <2>4, Zenon
<1>7. Guard(ss)
  <2> SUFFICES ASSUME NEW c \in Task, NoCheckpoint(c), Kid(ss, c)
               PROVE  /\ ss[ss[c].parent].status = "running"
                      /\ ss[ss[c].parent].attempt = ss[c].pattempt
    BY Zenon DEF Guard
  <2>1. Kid(rs, c) /\ rs[c].parent # t /\ rs[c].parent \in Task
    BY <1>6, Zenon
  <2>2. rs[rs[c].parent].status = "running" /\ rs[rs[c].parent].attempt = rs[c].pattempt
    BY <1>1, <2>1, Zenon DEF Guard
  <2>3. ss[rs[c].parent] = rs[rs[c].parent]
    BY <1>2, <2>1, Zenon
  <2> QED BY <1>3, <2>2, <2>3, Zenon
<1>8. \A c \in Task : NoCheckpoint(c) /\ ss[c].parent = t => ~Kid(ss, c)
  BY <1>3, <1>6, Zenon
<1> QED BY <1>4, <1>5, <1>7, <1>8, Zenon DEF After, ss

(* A command with a trailing refresh: b is the table once the children are  *)
(* contained, and s the row the command is about.                           *)
Update(b, t, s) ==
  /\ TableCalm(row, b) /\ \A c \in Task : Undep(row[c], b[c])
  /\ s \in Row /\ RowOK(s) /\ (NoCheckpoint(t) => Fenced(s)) /\ Undep(row[t], s)
  /\ s.parent = row[t].parent /\ s.pattempt = row[t].pattempt
  /\ \A c \in Task : b[c].status \in {"queued", "running"} => b[c] = row[c]
  /\ \A c \in Task : row[c].parent # t => b[c] = row[c]
  /\ \A c \in Task : NoCheckpoint(c) /\ row[c].parent = t => ~Kid(b, c)
  /\ NoCheckpoint(t) /\ s.parent # 0 /\ s.status \in {"queued", "running"} =>
       row[s.parent].status = "running" /\ row[s.parent].attempt = s.pattempt

(* What such a command leaves behind. *)
Updated(t, s, ss) ==
  /\ After(ss)
  /\ \A u \in Task : u # t => Calm(row[u], ss[u])
  /\ Calm(s, ss[t]) /\ ss[t].status = s.status
  /\ s.status # "queued" => ss[t] = s

(* Such a command leaves the rows as they should be. *)
LEMMA RefreshUpdateAfter ==
  ASSUME Base, NEW b, NEW t \in Task, NEW s, Update(b, t, s)
  PROVE  Updated(t, s, RefreshContinuations([b EXCEPT ![t] = s]))
<1> DEFINE rs == [b EXCEPT ![t] = s]
           ss == RefreshContinuations(rs)
<1>0. /\ TableCalm(row, b) /\ \A c \in Task : Undep(row[c], b[c])
      /\ s \in Row /\ RowOK(s) /\ (NoCheckpoint(t) => Fenced(s)) /\ Undep(row[t], s)
      /\ s.parent = row[t].parent /\ s.pattempt = row[t].pattempt
      /\ \A c \in Task : b[c].status \in {"queued", "running"} => b[c] = row[c]
      /\ \A c \in Task : row[c].parent # t => b[c] = row[c]
      /\ \A c \in Task : NoCheckpoint(c) /\ row[c].parent = t => ~Kid(b, c)
      /\ NoCheckpoint(t) /\ s.parent # 0 /\ s.status \in {"queued", "running"} =>
           row[s.parent].status = "running" /\ row[s.parent].attempt = s.pattempt
  BY Zenon DEF Update
<1> USE <1>0
<1>1. /\ TableOK(row) /\ Checked(row) /\ Guard(row) /\ Patient(row) /\ row \in [Task -> Row]
      /\ b \in [Task -> Row]
  BY Zenon DEF Base, TableOK, TableCalm
<1>2. rs \in [Task -> Row] /\ rs[t] = s /\ \A u \in Task : u # t => rs[u] = b[u]
  BY <1>1, Zenon
<1> HIDE DEF rs
<1>3. TableOK(b) /\ Checked(b)
  BY <1>1, CalmChecked, Zenon
<1>4. TableOK(rs) /\ Checked(rs)
  BY <1>2, <1>3, Zenon DEF TableOK, Checked
<1>5. \A c \in Task : Undep(row[c], rs[c])
  BY <1>2, Zenon
<1>6. Patient(ss)
  BY <1>1, <1>4, <1>5, RefreshPatient, Zenon
<1>7. TableCalm(rs, ss)
  BY <1>4, RefreshCalm, Zenon
<1>8. TableOK(ss) /\ Checked(ss)
  BY <1>4, <1>7, CalmChecked, Zenon
<1>9. \A u \in Task : ss[u].status = rs[u].status /\ (rs[u].status # "queued" => ss[u] = rs[u])
  BY <1>4, RefreshCalm, Zenon
<1> HIDE DEF ss
<1>10. ASSUME NEW u \in Task, u # t
       PROVE  Calm(row[u], ss[u])
  <2>1. Calm(row[u], b[u]) /\ Calm(rs[u], ss[u]) /\ rs[u] = b[u]
    BY <1>2, <1>7, <1>10, Zenon DEF TableCalm
  <2> QED BY <2>1, CalmOrder, Zenon
<1>11. Guard(ss)
  <2> SUFFICES ASSUME NEW c \in Task, NoCheckpoint(c), Kid(ss, c)
               PROVE  /\ ss[ss[c].parent].status = "running"
                      /\ ss[ss[c].parent].attempt = ss[c].pattempt
    BY Zenon DEF Guard
  <2> DEFINE p == row[c].parent
  <2>1. ss[c].parent = p /\ ss[c].pattempt = row[c].pattempt /\ rs[c].status = ss[c].status
    <3>1. Calm(rs[c], ss[c]) /\ ss[c].status = rs[c].status
      BY <1>7, <1>9, Zenon DEF TableCalm
    <3>2. rs[c].parent = p /\ rs[c].pattempt = row[c].pattempt
      <4>1. CASE c = t
        BY <1>2, <4>1, Zenon
      <4>2. CASE c # t
        <5>1. rs[c] = b[c] /\ Calm(row[c], b[c])
          BY <1>2, <4>2, Zenon DEF TableCalm
        <5> QED BY <5>1, Zenon DEF Calm, Moves
      <4> QED BY <4>1, <4>2, Zenon
    <3> QED BY <3>1, <3>2, Zenon DEF Calm, Moves
  <2>2. p # 0 /\ rs[c].status \in {"queued", "running"}
    BY <2>1, Zenon DEF Kid
  <2>3. p \in Task /\ row[p].parent = 0 /\ p # c
    BY <2>2, ParentOf, Zenon
  <2>4. p # t /\ row[p].status = "running" /\ row[p].attempt = row[c].pattempt
    <3>1. CASE c = t
      BY <1>2, <2>1, <2>2, <2>3, <3>1, Zenon
    <3>2. CASE c # t
      <4>1. rs[c] = b[c] /\ b[c] = row[c]
        BY <1>2, <2>2, <3>2, Zenon
      <4>2. Kid(row, c) /\ Kid(b, c)
        BY <2>2, <4>1, Zenon DEF Kid
      <4>3. p # t
        BY <4>2, Zenon
      <4>4. row[p].status = "running" /\ row[p].attempt = row[c].pattempt
        BY <1>1, <4>2, Zenon DEF Guard
      <4> QED BY <4>3, <4>4, Zenon
    <3> QED BY <3>1, <3>2, Zenon
  <2>5. b[p] = row[p]
    <3>1. row[p].parent # t
      BY <2>3, TaskAssumption, Zenon
    <3> QED BY <2>3, <3>1, Zenon
  <2>6. rs[p] = row[p]
    BY <1>2, <2>3, <2>4, <2>5, Zenon
  <2>7. ss[p] = row[p]
    <3>1. rs[p].status # "queued"
      BY <2>4, <2>6, Zenon
    <3> QED BY <1>9, <2>3, <2>6, <3>1, Zenon
  <2> QED BY <2>1, <2>4, <2>7, Zenon
<1>12. Calm(s, ss[t]) /\ ss[t].status = s.status /\ (s.status # "queued" => ss[t] = s)
  BY <1>2, <1>7, <1>9, Zenon DEF TableCalm
<1>13. Updated(t, s, ss)
  BY <1>6, <1>8, <1>10, <1>11, <1>12, Zenon DEF After, Updated
<1> QED BY <1>13, Zenon DEF ss, rs

(* An inserted row. *)
LEMMA InsertAfter ==
  ASSUME Base, NEW t \in Task, row[t].status = "absent",
         NEW s \in Row, RowOK(s), Fenced(s), s.status = "queued",
         s.waiting = "dependency" =>
           ~s.admitted /\ \E p \in s.req.preds : row[p].status # "completed",
         s.parent # 0 => /\ s.parent \in Task /\ row[s.parent].status = "running"
                         /\ row[s.parent].attempt = s.pattempt
  PROVE  After([row EXCEPT ![t] = s])
<1> DEFINE ss == [row EXCEPT ![t] = s]
<1>1. TableOK(row) /\ Checked(row) /\ Guard(row) /\ Patient(row) /\ row \in [Task -> Row]
  BY Zenon DEF Base, TableOK
<1>2. ss \in [Task -> Row] /\ ss[t] = s /\ \A u \in Task : u # t => ss[u] = row[u]
  BY <1>1, Zenon
<1>3. \A u : row[u].status # "completed" => ss[u].status # "completed"
  <2> TAKE u
  <2>1. CASE u = t
    BY <1>2, <2>1, Zenon
  <2>2. CASE u # t
    <3>1. ss[u] = row[u]
      BY <1>1, <2>2, SMTT(20)
    <3> QED BY <3>1, Zenon
  <2> QED BY <2>1, <2>2, Zenon
<1> HIDE DEF ss
<1>4. TableOK(ss) /\ Checked(ss)
  BY <1>1, <1>2, Zenon DEF TableOK, Checked
<1>5. Patient(ss)
  <2> SUFFICES ASSUME NEW u \in Task, ss[u].status = "queued", ss[u].waiting = "dependency"
               PROVE  ~ss[u].admitted /\ \E p \in ss[u].req.preds : ss[p].status # "completed"
    BY Zenon DEF Patient
  <2>1. CASE u = t
    BY <1>2, <1>3, <2>1, Zenon
  <2>2. CASE u # t
    BY <1>1, <1>2, <1>3, <2>2, Zenon DEF Patient
  <2> QED BY <2>1, <2>2, Zenon
<1>6. Guard(ss)
  <2> SUFFICES ASSUME NEW c \in Task, NoCheckpoint(c), Kid(ss, c)
               PROVE  /\ ss[ss[c].parent].status = "running"
                      /\ ss[ss[c].parent].attempt = ss[c].pattempt
    BY Zenon DEF Guard
  <2>1. /\ ss[c].parent \in Task /\ row[ss[c].parent].status = "running"
        /\ row[ss[c].parent].attempt = ss[c].pattempt
    <3>1. CASE c = t
      BY <1>2, <3>1, Zenon DEF Kid
    <3>2. CASE c # t
      <4>1. ss[c] = row[c] /\ Kid(row, c)
        BY <1>2, <3>2, Zenon DEF Kid
      <4>2. row[c].parent \in Task
        BY <4>1, ParentOf, Zenon DEF Kid
      <4> QED BY <1>1, <4>1, <4>2, Zenon DEF Guard
    <3> QED BY <3>1, <3>2, Zenon
  <2>2. ss[c].parent # t
    BY <2>1, Zenon
  <2> QED BY <1>2, <2>1, <2>2, Zenon
<1> QED BY <1>4, <1>5, <1>6, Zenon DEF After, ss

(* A command without a refresh completes no predecessor. *)
LEMMA CalmPatient ==
  ASSUME NEW rs, NEW ss, rs \in [Task -> Row], TableCalm(rs, ss),
         \A c \in Task : Undep(rs[c], ss[c]), Patient(rs)
  PROVE  Patient(ss)
<1> SUFFICES ASSUME NEW t \in Task, ss[t].status = "queued", ss[t].waiting = "dependency"
             PROVE  ~ss[t].admitted /\ \E p \in ss[t].req.preds : ss[p].status # "completed"
  BY Zenon DEF Patient
<1>1. /\ rs[t].status = "queued" /\ rs[t].waiting = "dependency"
      /\ ss[t].admitted = rs[t].admitted /\ ss[t].req = rs[t].req
  BY Zenon DEF Undep
<1>2. ~rs[t].admitted /\ \E p \in rs[t].req.preds : rs[p].status # "completed"
  BY <1>1, Zenon DEF Patient
<1>3. PICK p \in rs[t].req.preds : rs[p].status # "completed"
  BY <1>2, Zenon
<1>4. p \in Task
  BY PredsAreTasks, Zenon
<1>5. ss[p].status # "completed"
  <2>1. Calm(rs[p], ss[p])
    BY <1>4, Zenon DEF TableCalm
  <2>2. ss[p].status \in {"completed", "failed"} => rs[p].status = ss[p].status
    BY <2>1, Zenon DEF Calm, Moves
  <2> QED BY <1>3, <2>2, Zenon
<1> QED BY <1>1, <1>2, <1>3, <1>5, Zenon
=============================================================================
