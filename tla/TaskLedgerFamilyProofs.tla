----------------------- MODULE TaskLedgerFamilyProofs -----------------------
(***************************************************************************)
(* Proofs about bindings, families and continuations of the task ledger.   *)
(* TaskLedgerProofs says what each statement does to a row and to the      *)
(* table; here each command is followed to the end of its transaction, the *)
(* invariant Base is shown inductive, and the properties are drawn from it.*)
(***************************************************************************)
EXTENDS TaskLedgerProofs

-----------------------------------------------------------------------------
(* The actions.                                                             *)

(* reap_overdue_leases, and the claims that only reap. *)
LEMMA ReapRows ==
  ASSUME Base, row' = Reaped
  PROVE  TableCalm(row, row') /\ After(row')
BY ReapedAfter, Zenon

(* The waiting reason of a refused claim. *)
LEMMA WaitsFields ==
  ASSUME NEW r \in Row
  PROVE  /\ Waits(r, "none").status = r.status
         /\ r.status = "queued" => Waits(r, "none").waiting = "none"
         /\ r.status # "queued" => Waits(r, "none") = r
BY Zenon DEF Row, Waits

(* The row a claim looks at. *)
LEMMA ClaimRowCalm ==
  ASSUME NEW rs, TableOK(rs), NEW t \in Task, rs[t].status = "queued", rs[t].waiting # "unknown"
  PROVE  LET r == ClaimRow(rs, t)
         IN  /\ r \in Row /\ RowOK(r) /\ Calm(rs[t], r)
             /\ r.status = "queued" /\ r.waiting # "unknown" /\ r.binding \in Takable
             /\ Dependent(r) /\ r.waiting = "dependency" =>
                    ~r.admitted /\ \E p \in r.req.preds : rs[p].status # "completed"
             /\ Dependent(r) => Dependent(rs[t])
<1> DEFINE r == ClaimRow(rs, t)
<1>1. rs[t] \in Row /\ RowOK(rs[t]) /\ rs[t].binding \in Takable
  BY Zenon DEF TableOK, RowOK
<1>2. r \in Row
  BY ClaimRowKeeps, Zenon DEF TableOK
<1>3. CASE Dependent(rs[t])
  <2>1. r = AdmitContinuation(rs, rs[t])
    BY <1>3, Zenon DEF ClaimRow
  <2> HIDE DEF r
  <2>2. /\ Calm(rs[t], r) /\ r.status = "queued" /\ r.req = rs[t].req
        /\ r.binding = rs[t].binding /\ r.waiting # "unknown"
        /\ r.waiting = "dependency" =>
             ~r.admitted /\ \E p \in rs[t].req.preds : rs[p].status # "completed"
    BY <1>1, <1>3, <2>1, AdmitContinuationCalm, Zenon
  <2>3. RowOK(r)
    BY <2>2, CalmOrder, Zenon
  <2> QED BY <1>1, <1>2, <1>3, <2>2, <2>3, Zenon DEF r
<1>4. CASE ~Dependent(rs[t])
  <2>1. r = rs[t]
    BY <1>4, Zenon DEF ClaimRow
  <2>2. Calm(rs[t], rs[t])
    BY <1>1, CalmOrder, Zenon
  <2> QED BY <1>1, <1>4, <2>1, <2>2, Zenon
<1> QED BY <1>3, <1>4, Zenon

(* A refused claim. *)
LEMMA ClaimRefusedRows ==
  ASSUME Base, NEW e \in Executor, NEW t \in Task, NEW fit \in BOOLEAN, ClaimRefused(e, t, fit)
  PROVE  TableCalm(row, row') /\ After(row')
<1> DEFINE r == ClaimRow(Reaped, t)
<1>1. TableCalm(row, Reaped) /\ After(Reaped) /\ TableOK(Reaped)
  BY ReapedAfter, Zenon DEF After
<1>2. Reaped[t].status = "queued" /\ Reaped[t].waiting # "unknown"
  BY Zenon DEF ClaimRefused, Selected, Matches
<1>3. /\ r \in Row /\ RowOK(r) /\ Calm(Reaped[t], r)
      /\ r.status = "queued" /\ r.waiting # "unknown" /\ r.binding \in Takable
      /\ Dependent(r) /\ r.waiting = "dependency" =>
                    ~r.admitted /\ \E p \in r.req.preds : Reaped[p].status # "completed"
  BY <1>1, <1>2, ClaimRowCalm, Zenon
<1>4. Reaped[t] \in Row /\ RowOK(Reaped[t]) /\ Reaped[t].binding \in Takable
  BY <1>1, <1>2, Zenon DEF TableOK, RowOK
<1>5. \/ row' = [Reaped EXCEPT ![t] = Waits(Reaped[t], "none")]
      \/ Dependent(r) /\ row' = [Reaped EXCEPT ![t] = r]
      \/ row' = [Reaped EXCEPT ![t] = Waits(r, "none")]
  BY Zenon DEF ClaimRefused, Commit
<1> HIDE DEF r
<1>6. ASSUME NEW s \in Row, Calm(Reaped[t], s), s.status = "queued",
             s.waiting = "dependency" =>
               ~s.admitted /\ \E p \in s.req.preds : Reaped[p].status # "completed",
             row' = [Reaped EXCEPT ![t] = s]
      PROVE  TableCalm(row, row') /\ After(row')
  <2>1. TableCalm(Reaped, row')
    BY <1>1, <1>6, TableCalmUpdate, Zenon
  <2>2. TableCalm(row, row')
    BY <1>1, <2>1, TableCalmOrder, Zenon
  <2>3. After(row')
    BY <1>1, <1>2, <1>6, QueuedUpdateAfter, Zenon
  <2> QED BY <2>2, <2>3
<1>7. CASE row' = [Reaped EXCEPT ![t] = Waits(Reaped[t], "none")]
  <2>1. Waits(Reaped[t], "none") \in Row /\ Calm(Reaped[t], Waits(Reaped[t], "none"))
    BY <1>4, WaitsCalm, WaitsKeeps, ColumnValues, Zenon
  <2>2. /\ Waits(Reaped[t], "none").status = "queued"
        /\ Waits(Reaped[t], "none").waiting # "dependency"
    BY <1>2, <1>4, WaitsFields, Zenon
  <2> QED BY <1>6, <1>7, <2>1, <2>2, Zenon
<1>8. CASE Dependent(r) /\ row' = [Reaped EXCEPT ![t] = r]
  BY <1>3, <1>6, <1>8, Zenon
<1>9. CASE row' = [Reaped EXCEPT ![t] = Waits(r, "none")]
  <2>1. Waits(r, "none") \in Row /\ Calm(r, Waits(r, "none"))
    BY <1>3, WaitsCalm, WaitsKeeps, ColumnValues, Zenon
  <2>2. Waits(r, "none").status = "queued" /\ Waits(r, "none").waiting # "dependency"
    BY <1>3, WaitsFields, Zenon
  <2>3. Calm(Reaped[t], Waits(r, "none"))
    BY <1>3, <2>1, CalmOrder, Zenon
  <2> QED BY <1>6, <1>9, <2>1, <2>2, <2>3, Zenon
<1> QED BY <1>5, <1>7, <1>8, <1>9, Zenon

(* The steps, by what they do to the row they are about; every other row    *)
(* changes calmly or not at all.                                            *)
OthersCalm(t) == \A u \in Task : u # t => Calm(row[u], row'[u])

MoveStep(t) == OthersCalm(t) /\ Moves(row[t], row'[t])

FinishStep(t) ==
  /\ OthersCalm(t)
  /\ row'[t].parent = row[t].parent /\ row'[t].pattempt = row[t].pattempt
  /\ row'[t].attempt = row[t].attempt /\ row[t].attempt = row[t].fence
  /\ row[t].status = "running" /\ row'[t].status \in {"completed", "failed"}
  /\ row[t].fence \in row[t].open /\ row'[t].open = row[t].open \ {row[t].fence}
  /\ att[t][row[t].fence].epoch = epoch
  /\ row'[t].status = "completed" => ChildrenCompleted(t, row[t].attempt)

AgainStep(t) ==
  /\ OthersCalm(t)
  /\ row'[t].parent = row[t].parent /\ row'[t].pattempt = row[t].pattempt
  /\ row[t].status \in Terminal /\ row'[t].status = "queued"
  /\ row'[t].open \subseteq row[t].open
  /\ RetryCapacity(t)

NewStep(t) ==
  /\ \A u \in Task : u # t => row'[u] = row[u]
  /\ row[t].status = "absent" /\ row'[t].status = "queued" /\ row'[t].open = {}
  /\ row'[t].parent # 0 =>
       \E p \in Task, n \in Fence :
         /\ row'[t].parent = p /\ row'[t].pattempt = n
         /\ row[p].parent = 0 /\ row[p].status = "running" /\ Active(p, n) < MaxActive

(* A granted claim. *)
LEMMA ClaimGrantedRows ==
  ASSUME Base, NEW e \in Executor, NEW t \in Task, ClaimGranted(e, t)
  PROVE  MoveStep(t) /\ After(row') /\ row'[t].attempt = row'[t].fence
<1> DEFINE r == ClaimRow(Reaped, t)
           s == Bound(Claimed(r, e))
<1>1. TableCalm(row, Reaped) /\ After(Reaped) /\ TableOK(Reaped) /\ epoch \in Epoch
  BY ReapedAfter, Zenon DEF After, Base, TypeOK
<1>2. Reaped[t].status = "queued" /\ Reaped[t].waiting # "unknown"
  BY Zenon DEF ClaimGranted, Selected, Matches
<1>3. /\ r \in Row /\ RowOK(r) /\ Calm(Reaped[t], r)
      /\ r.status = "queued" /\ r.waiting # "unknown"
  BY <1>1, <1>2, ClaimRowCalm, Zenon
<1>4. ~Dependent(r) /\ r.fence < MaxFence /\ row' = [Reaped EXCEPT ![t] = s]
  BY Zenon DEF ClaimGranted, Commit
<1>5. e \in Holder
  BY Zenon DEF Holder
<1>6. /\ Moves(r, s) /\ (Fenced(r) => Fenced(s))
      /\ s.status = "running" /\ s.attempt = s.fence
  BY <1>1, <1>3, <1>4, <1>5, GrantedRow, Zenon
<1>7. s \in Row
  <2>1. row' \in [Task -> Row]
    BY ClaimGrantedStep, Zenon DEF ClaimStep, Base
  <2>2. row'[t] = s
    BY <1>1, <1>4, Zenon DEF TableOK
  <2> QED BY <2>1, <2>2, Zenon
<1> HIDE DEF r, s
<1>8. Moves(Reaped[t], s) /\ (Fenced(Reaped[t]) => Fenced(s))
  BY <1>3, <1>6, CalmOrder, Zenon DEF Calm
<1>9. \A c \in Task : NoCheckpoint(c) /\ Reaped[c].parent = t => ~Kid(Reaped, c)
  <2> SUFFICES ASSUME NEW c \in Task, NoCheckpoint(c), Reaped[c].parent = t, Kid(Reaped, c)
               PROVE  FALSE
    BY Zenon
  <2>1. Reaped[t].status = "running"
    BY <1>1, Zenon DEF After, Guard
  <2> QED BY <1>2, <2>1, Zenon
<1>10. After(row')
  <2>1. NoCheckpoint(t) => Fenced(s) /\ Reaped[t].status \in {"queued", "running"}
    BY <1>1, <1>2, <1>8, Zenon DEF After, Checked
  <2>2. RowOK(s) /\ s.parent = Reaped[t].parent /\ s.pattempt = Reaped[t].pattempt
    BY <1>8, Zenon DEF Moves
  <2> QED BY <1>1, <1>4, <1>6, <1>7, <1>9, <2>1, <2>2, RunUpdateAfter, Zenon
<1>11. row'[t] = s /\ \A u \in Task : u # t => row'[u] = Reaped[u]
  BY <1>1, <1>4, Zenon DEF TableOK
<1>12. OthersCalm(t)
  BY <1>1, <1>11, Zenon DEF OthersCalm, TableCalm
<1>13. Moves(row[t], s)
  <2>1. Calm(row[t], Reaped[t])
    BY <1>1, Zenon DEF TableCalm
  <2> QED BY <1>8, <2>1, CalmOrder, Zenon
<1> QED BY <1>6, <1>10, <1>11, <1>12, <1>13, Zenon DEF MoveStep

(* settle_attempt: every child of the attempt completed. *)
LEMMA SettleAttemptRows ==
  ASSUME Base, NEW t \in Task, NEW n \in Fence, SettleAttempt(t, n)
  PROVE  FinishStep(t) /\ After(row')
<1> DEFINE s == Finished(row[t], n, "completed")
<1>1. /\ n \in row[t].open /\ att[t][n].epoch = epoch
      /\ row[t].status = "running" /\ row[t].fence = n /\ row[t].attempt = n
      /\ ChildrenCompleted(t, n)
      /\ row' = RefreshContinuations([row EXCEPT ![t] = s])
  BY Zenon DEF SettleAttempt, LeaseValid, Holds, Commit
<1>2. TableOK(row) /\ row[t] \in Row /\ RowOK(row[t]) /\ TableCalm(row, row)
  BY TableCalmOrder, Zenon DEF Base, TableOK
<1>3. /\ RowOK(s) /\ s.status = "completed" /\ s.open = row[t].open \ {n}
      /\ s.attempt = row[t].attempt
      /\ s.parent = row[t].parent /\ s.pattempt = row[t].pattempt
      /\ Fenced(row[t]) /\ n \in row[t].open => Fenced(s)
  BY <1>1, <1>2, FinishedRow, ZenonT(60)
<1>4. s \in Row
  <2>1. n \in Number
    BY Zenon DEF Number
  <2> QED BY <1>2, <2>1, FinishedKeeps, Zenon
<1> HIDE DEF s
<1>5. \A c \in Task : NoCheckpoint(c) /\ row[c].parent = t => ~Kid(row, c)
  <2> SUFFICES ASSUME NEW c \in Task, NoCheckpoint(c), row[c].parent = t, Kid(row, c)
               PROVE  FALSE
    BY Zenon
  <2>1. row[c].pattempt = n
    BY <1>1, Zenon DEF Base, Guard
  <2>2. row[c].status = "completed"
    BY <1>1, <2>1, Zenon DEF ChildrenCompleted, ChildOfAttempt
  <2> QED BY <2>2, Zenon DEF Kid
<1>6. \A c \in Task : Undep(row[c], row[c])
  BY Zenon DEF Undep
<1>7. Undep(row[t], s) /\ s.status \notin {"queued", "running"}
  BY <1>3, Zenon DEF Undep
<1>8. NoCheckpoint(t) => Fenced(s)
  BY <1>1, <1>3, Zenon DEF Base, Checked
<1>9. /\ After(row') /\ \A u \in Task : u # t => Calm(row[u], row'[u])
      /\ s.status # "queued" => row'[t] = s
  <2>1. /\ \A c \in Task : row[c].status \in {"queued", "running"} => row[c] = row[c]
        /\ \A c \in Task : row[c].parent # t => row[c] = row[c]
    BY Zenon
  <2>2. NoCheckpoint(t) /\ s.parent # 0 /\ s.status \in {"queued", "running"} =>
          row[s.parent].status = "running" /\ row[s.parent].attempt = s.pattempt
    BY <1>7, Zenon
  <2>3. Updated(t, s, RefreshContinuations([row EXCEPT ![t] = s]))
    <3>1. Update(row, t, s)
      BY <1>2, <1>3, <1>4, <1>5, <1>6, <1>7, <1>8, <2>1, <2>2, Zenon DEF Update
    <3> QED BY <3>1, RefreshUpdateAfter, Zenon
  <2> QED BY <1>1, <2>3, Zenon DEF Updated
<1>10. row'[t] = s
  BY <1>7, <1>9, Zenon
<1>11. s.status \in {"completed", "failed"}
  BY <1>3, Zenon
<1> QED BY <1>1, <1>3, <1>9, <1>10, <1>11, Zenon DEF FinishStep, OthersCalm

(* fail_attempt: the children of the attempt are contained. *)
LEMMA FailAttemptRows ==
  ASSUME Base, NEW t \in Task, NEW n \in Fence, FailAttempt(t, n)
  PROVE  FinishStep(t) /\ After(row')
<1> DEFINE f == Finished(row[t], n, "failed")
           s == [f EXCEPT !.closed = ClosedBy(row[t])]
           b == Contain(row, t, n)
<1>1. /\ n \in row[t].open /\ att[t][n].epoch = epoch
      /\ row[t].status = "running" /\ row[t].fence = n
      /\ row' = RefreshContinuations([b EXCEPT ![t] = s])
  BY Zenon DEF FailAttempt, LeaseValid, Holds, Commit
<1>2. TableOK(row) /\ row[t] \in Row /\ RowOK(row[t])
  BY Zenon DEF Base, TableOK
<1>3. row[t].attempt = n
  <2>1. resume.step # "bind"
    BY Zenon DEF FailAttempt, Free, NoResume
  <2> QED BY <1>1, <2>1, Zenon DEF Base, AttemptIsFence
<1>4. /\ RowOK(f) /\ f.status = "failed" /\ f.open = row[t].open \ {n}
      /\ f.attempt = row[t].attempt
      /\ f.parent = row[t].parent /\ f.pattempt = row[t].pattempt
      /\ Fenced(row[t]) /\ n \in row[t].open => Fenced(f)
  BY <1>1, <1>2, FinishedRow, SMTT(20)
<1>5. f \in Row
  <2>1. n \in Number
    BY Zenon DEF Number
  <2> QED BY <1>2, <2>1, FinishedKeeps, Zenon
<1> HIDE DEF f
<1>6. s \in Row /\ Same(f, s)
  <2>1. ClosedBy(row[t]) \in Number
    BY <1>2, ColumnValues, Zenon
  <2>2. s \in Row
    BY <1>5, <2>1, RowUpdate, Zenon
  <2>3. Same(f, s)
    BY <1>5, Zenon DEF Row, Same
  <2> QED BY <2>2, <2>3
<1> HIDE DEF s
<1>7. /\ RowOK(s) /\ s.status = "failed" /\ s.open = row[t].open \ {n}
      /\ s.attempt = row[t].attempt
      /\ s.parent = row[t].parent /\ s.pattempt = row[t].pattempt
      /\ Fenced(row[t]) /\ n \in row[t].open => Fenced(s)
  <2>1. Calm(f, s)
    BY <1>4, <1>6, SameCalm, Zenon
  <2> QED BY <1>4, <1>6, <2>1, CalmOrder, Zenon DEF Same, Calm
<1>8. /\ TableCalm(row, b) /\ \A c \in Task : Undep(row[c], b[c])
      /\ \A c \in Task : b[c].status \in {"queued", "running"} =>
           b[c] = row[c] /\ ~ChildOfAttempt(row, c, t, n)
      /\ \A c \in Task : ~ChildOfAttempt(row, c, t, n) => b[c] = row[c]
  BY <1>2, ContainCalm, Zenon
<1> HIDE DEF b
<1>9. \A c \in Task : row[c].parent # t => b[c] = row[c]
  BY <1>8, Zenon DEF ChildOfAttempt
<1>10. \A c \in Task : NoCheckpoint(c) /\ row[c].parent = t => ~Kid(b, c)
  <2> SUFFICES ASSUME NEW c \in Task, NoCheckpoint(c), row[c].parent = t, Kid(b, c)
               PROVE  FALSE
    BY Zenon
  <2>1. b[c] = row[c] /\ ~ChildOfAttempt(row, c, t, n)
    BY <1>8, Zenon DEF Kid
  <2>2. Kid(row, c)
    BY <2>1, Zenon DEF Kid
  <2>3. row[c].pattempt = n
    BY <1>3, <2>2, Zenon DEF Base, Guard
  <2> QED BY <2>1, <2>3, Zenon DEF ChildOfAttempt
<1>11. Undep(row[t], s) /\ s.status \notin {"queued", "running"}
  BY <1>7, Zenon DEF Undep
<1>12. NoCheckpoint(t) => Fenced(s)
  BY <1>1, <1>7, Zenon DEF Base, Checked
<1>13. /\ After(row') /\ \A u \in Task : u # t => Calm(row[u], row'[u])
       /\ s.status # "queued" => row'[t] = s
  <2>1. \A c \in Task : b[c].status \in {"queued", "running"} => b[c] = row[c]
    BY <1>8, Zenon
  <2>2. NoCheckpoint(t) /\ s.parent # 0 /\ s.status \in {"queued", "running"} =>
          row[s.parent].status = "running" /\ row[s.parent].attempt = s.pattempt
    BY <1>11, Zenon
  <2>3. Updated(t, s, RefreshContinuations([b EXCEPT ![t] = s]))
    <3>1. Update(b, t, s)
      BY <1>6, <1>7, <1>8, <1>9, <1>10, <1>11, <1>12, <2>1, <2>2, Zenon DEF Update
    <3> QED BY <3>1, RefreshUpdateAfter, Zenon
  <2> QED BY <1>1, <2>3, Zenon DEF Updated
<1>14. row'[t] = s
  BY <1>11, <1>13, Zenon
<1>15. s.status \in {"completed", "failed"} /\ s.status # "completed"
  BY <1>7, Zenon
<1> QED BY <1>1, <1>3, <1>7, <1>13, <1>14, <1>15, Zenon DEF FinishStep, OthersCalm

(* cancel_task and cancel_run: every child is contained. *)
LEMMA CancelRows ==
  ASSUME Base, NEW t \in Task,
         row[t].status \in {"queued", "running", "failed", "cancel_requested"},
         NEW s \in Row, Same(Cancel(row[t]), s),
         row' = RefreshContinuations([Contain(row, t, 0) EXCEPT ![t] = s])
  PROVE  TableCalm(row, row') /\ After(row')
<1> DEFINE b == Contain(row, t, 0)
<1>1. TableOK(row) /\ row[t] \in Row /\ RowOK(row[t])
  BY Zenon DEF Base, TableOK
<1>2. /\ Calm(row[t], Cancel(row[t])) /\ RowOK(Cancel(row[t]))
      /\ Cancel(row[t]).status \in {"cancelled", "cancel_requested"}
  <2>1. /\ Calm(row[t], Cancel(row[t]))
        /\ Cancel(row[t]).status \in {"cancelled", "cancel_requested"}
    BY <1>1, CancelCalm, Zenon
  <2> QED BY <2>1, CalmOrder, Zenon
<1>3. Calm(Cancel(row[t]), s) /\ s.status = Cancel(row[t]).status
  <2>1. s.status = Cancel(row[t]).status
    BY Zenon DEF Same
  <2> QED BY <1>2, <2>1, SameCalm, Zenon
<1>4. Calm(row[t], s) /\ RowOK(s) /\ s.status \in {"cancelled", "cancel_requested"}
  BY <1>2, <1>3, CalmOrder, Zenon
<1>5. s.status \notin {"queued", "running"} /\ s.status # "queued" /\ Undep(row[t], s)
  BY <1>4, Zenon DEF Undep
<1>6. s.parent = row[t].parent /\ s.pattempt = row[t].pattempt
  BY <1>4, Zenon DEF Calm, Moves
<1>7. NoCheckpoint(t) => Fenced(s)
  BY <1>4, Zenon DEF Base, Checked, Calm
<1>8. /\ TableCalm(row, b) /\ \A c \in Task : Undep(row[c], b[c])
      /\ \A c \in Task : b[c].status \in {"queued", "running"} =>
           b[c] = row[c] /\ ~ChildOfAttempt(row, c, t, 0)
      /\ \A c \in Task : ~ChildOfAttempt(row, c, t, 0) => b[c] = row[c]
  BY <1>1, ContainCalm, SMTT(20)
<1> HIDE DEF b
<1>9. /\ \A c \in Task : b[c].status \in {"queued", "running"} => b[c] = row[c]
      /\ \A c \in Task : row[c].parent # t => b[c] = row[c]
      /\ \A c \in Task : NoCheckpoint(c) /\ row[c].parent = t => ~Kid(b, c)
  <2>1. \A c \in Task : ChildOfAttempt(row, c, t, 0) <=> row[c].parent = t
    BY Zenon DEF ChildOfAttempt
  <2> QED BY <1>8, <2>1, Zenon DEF Kid
<1>10. NoCheckpoint(t) /\ s.parent # 0 /\ s.status \in {"queued", "running"} =>
         row[s.parent].status = "running" /\ row[s.parent].attempt = s.pattempt
  BY <1>5, Zenon
<1>11. Update(b, t, s)
  BY <1>4, <1>5, <1>6, <1>7, <1>8, <1>9, <1>10, Zenon DEF Update
<1>12. Updated(t, s, row')
  <2>1. Updated(t, s, RefreshContinuations([b EXCEPT ![t] = s]))
    BY <1>11, RefreshUpdateAfter, Zenon
  <2> QED BY <2>1, Zenon DEF b
<1>13. After(row') /\ row'[t] = s /\ \A u \in Task : u # t => Calm(row[u], row'[u])
  BY <1>5, <1>12, Zenon DEF Updated
<1> QED BY <1>4, <1>13, Zenon DEF TableCalm, After, TableOK

(* cancel_task. *)
LEMMA CancelTaskRows ==
  ASSUME Base, NEW t \in Task, CancelTask(t)
  PROVE  TableCalm(row, row') /\ After(row')
<1>1. row[t].status \in {"queued", "running", "failed", "cancel_requested"}
  BY Zenon DEF CancelTask
<1>2. Cancel(row[t]) \in Row /\ Same(Cancel(row[t]), Cancel(row[t]))
  BY CancelKeeps, Zenon DEF Base, TableOK, Same
<1>3. row' = RefreshContinuations([Contain(row, t, 0) EXCEPT ![t] = Cancel(row[t])])
  BY Zenon DEF CancelTask, Commit
<1> QED BY <1>1, <1>2, <1>3, CancelRows, Zenon

(* cancel_run. *)
LEMMA CancelRunRows ==
  ASSUME Base, NEW t \in Task, CancelRun(t)
  PROVE  TableCalm(row, row') /\ After(row')
<1> DEFINE s == [Cancel(row[t]) EXCEPT !.run = "cancelled"]
<1>1. row[t] \in Row /\ Cancel(row[t]) \in Row
  BY CancelKeeps, Zenon DEF Base, TableOK
<1>2. row[t].status \in {"queued", "running", "failed", "cancel_requested"}
  BY <1>1, Zenon DEF CancelRun, Row, Status, Terminal
<1>3. s \in Row /\ Same(Cancel(row[t]), s)
  <2>1. s \in Row
    BY <1>1, RowUpdate, ColumnValues, Zenon
  <2>2. Same(Cancel(row[t]), s)
    BY <1>1, Zenon DEF Row, Same
  <2> QED BY <2>1, <2>2
<1>4. row' = RefreshContinuations([Contain(row, t, 0) EXCEPT ![t] = s])
  BY Zenon DEF CancelRun, Commit
<1> HIDE DEF s
<1> QED BY <1>2, <1>3, <1>4, CancelRows, Zenon

(* retry_task and retry_run. *)
LEMMA RetryRows ==
  ASSUME Base, NEW t \in Task, RetryTask(t) \/ RetryRun(t)
  PROVE  AgainStep(t) /\ After(row')
<1> DEFINE s == Retried(row[t])
<1>1. TableOK(row) /\ row[t] \in Row /\ RowOK(row[t]) /\ TableCalm(row, row)
  BY TableCalmOrder, Zenon DEF Base, TableOK
<1>2. row[t].status \in Terminal
  BY Zenon DEF RetryTask, RetryRun, Terminal
<1>3. /\ RetryCapacity(t)
      /\ row' = RefreshContinuations([row EXCEPT ![t] = s])
  BY Zenon DEF RetryTask, RetryRun, Commit
<1>4. /\ s \in Row /\ RowOK(s) /\ s.status = "queued" /\ s.waiting = "none" /\ s.open = row[t].open
      /\ s.parent = row[t].parent /\ s.pattempt = row[t].pattempt
      /\ Fenced(row[t]) => Fenced(s)
  BY <1>1, <1>2, RetriedRow, RetriedKeeps, Zenon
<1> HIDE DEF s
<1>5. NoCheckpoint(t) => Fenced(s)
  BY <1>4, Zenon DEF Base, Checked
<1>6. Undep(row[t], s)
  BY <1>4, Zenon DEF Undep
<1>7. \A c \in Task : Undep(row[c], row[c])
  BY Zenon DEF Undep
<1>8. \A c \in Task : NoCheckpoint(c) /\ row[c].parent = t => ~Kid(row, c)
  <2> SUFFICES ASSUME NEW c \in Task, NoCheckpoint(c), row[c].parent = t, Kid(row, c)
               PROVE  FALSE
    BY Zenon
  <2>1. row[t].status = "running"
    BY Zenon DEF Base, Guard
  <2> QED BY <1>2, <2>1, Zenon DEF Terminal
<1>9. s.parent # 0 => row[s.parent].status = "running" /\ row[s.parent].attempt = s.pattempt
  BY <1>3, <1>4, Zenon DEF RetryCapacity, ParentHolds
<1>10. Update(row, t, s)
  BY <1>1, <1>4, <1>5, <1>6, <1>7, <1>8, <1>9, Zenon DEF Update
<1>11. Updated(t, s, row')
  BY <1>3, <1>10, RefreshUpdateAfter, Zenon
<1>12. After(row') /\ OthersCalm(t)
  BY <1>11, Zenon DEF Updated, OthersCalm
<1>13. /\ row'[t].status = "queued" /\ row'[t].open \subseteq row[t].open
       /\ row'[t].parent = row[t].parent /\ row'[t].pattempt = row[t].pattempt
  BY <1>4, <1>11, Zenon DEF Updated, Calm, Moves
<1> QED BY <1>2, <1>3, <1>12, <1>13, Zenon DEF AgainStep

(* create_task. *)
LEMMA CreateTaskRows ==
  ASSUME Base, NEW t \in Task, NEW q \in Requests[t], CreateTask(t, q)
  PROVE  NewStep(t) /\ After(row')
<1> DEFINE r == NewRow(q)
           s == IF Dependent(r) THEN AdmitContinuation(row, r) ELSE r
<1>1. q \in RequestShape
  BY RequestsAssumption, Zenon
<1>2. /\ r \in Row /\ RowOK(r) /\ Fenced(r) /\ r.status = "queued" /\ r.waiting = "none"
      /\ r.open = {} /\ r.parent = 0
  BY <1>1, NewRowOK, NewRowType, Zenon
<1>3. row[t].status = "absent" /\ row' = [row EXCEPT ![t] = s]
  BY Zenon DEF CreateTask, NextRowid, Commit
<1> HIDE DEF r
<1>4. /\ s \in Row /\ RowOK(s) /\ Fenced(s) /\ s.status = "queued" /\ s.open = {} /\ s.parent = 0
      /\ s.waiting = "dependency" =>
           ~s.admitted /\ \E p \in s.req.preds : row[p].status # "completed"
  <2>1. CASE Dependent(r)
    <3>1. /\ s = AdmitContinuation(row, r) /\ s \in Row
          /\ Calm(r, s) /\ s.status = "queued" /\ s.req = r.req
          /\ s.waiting = "dependency" =>
               ~s.admitted /\ \E p \in r.req.preds : row[p].status # "completed"
      BY <1>2, <2>1, AdmitContinuationCalm, AdmitContinuationKeeps, Zenon
    <3> HIDE DEF s
    <3> QED BY <1>2, <3>1, Zenon DEF Calm, Moves
  <2>2. CASE ~Dependent(r)
    <3>1. s = r
      BY <2>2, Zenon
    <3>2. s.waiting # "dependency"
      BY <1>2, <3>1, Zenon
    <3> HIDE DEF s
    <3> QED BY <1>2, <3>1, <3>2, Zenon
  <2> QED BY <2>1, <2>2, Zenon
<1> HIDE DEF s
<1>5. After(row')
  BY <1>3, <1>4, InsertAfter, Zenon
<1>6. row'[t] = s /\ \A u \in Task : u # t => row'[u] = row[u]
  BY <1>3, Zenon DEF Base, TableOK
<1> QED BY <1>3, <1>4, <1>5, <1>6, Zenon DEF NewStep

(* admit_delegated_child. *)
LEMMA AdmitDelegatedChildRows ==
  ASSUME Base, NEW t \in Task, NEW q \in ChildRequests, NEW p \in Task, NEW n \in Fence,
         AdmitDelegatedChild(t, q, p, n)
  PROVE  NewStep(t) /\ After(row')
<1> DEFINE r == NewRow(q)
           s == [r EXCEPT !.parent = p, !.pattempt = n]
<1>1. q \in RequestShape
  BY RequestsAssumption, Zenon
<1>2. /\ r \in Row /\ RowOK(r) /\ Fenced(r) /\ r.status = "queued" /\ r.waiting = "none"
      /\ r.open = {} /\ r.fence = 0
  BY <1>1, NewRowOK, NewRowType, Zenon
<1>3. /\ row[t].status = "absent" /\ row' = [row EXCEPT ![t] = s]
      /\ row[p].parent = 0 /\ row[p].status = "running" /\ row[p].attempt = n
      /\ Active(p, n) < MaxActive
  BY Zenon DEF AdmitDelegatedChild, NextRowid, Commit, LiveParent, ParentHolds
<1> HIDE DEF r
<1>4. /\ s.status = r.status /\ s.waiting = r.waiting /\ s.attempt = r.attempt
      /\ s.open = r.open /\ s.binding = r.binding /\ s.fence = r.fence
      /\ s.req = r.req /\ s.admitted = r.admitted
      /\ s.parent = p /\ s.pattempt = n
  BY <1>2, Zenon DEF Row
<1>5. s \in Row
  <2>1. row' \in [Task -> Row]
    BY AdmitDelegatedChildStep, Zenon DEF InsertStep, Base
  <2>2. row'[t] = s
    BY <1>3, Zenon DEF Base, TableOK
  <2> QED BY <2>1, <2>2, Zenon
<1> HIDE DEF s
<1>6. s.status # "absent" /\ s.waiting # "dependency"
  BY <1>2, <1>4, Zenon
<1>7. RowOK(s) /\ Fenced(s)
  BY <1>2, <1>4, <1>6, Zenon DEF RowOK, Fenced, Unresolved
<1>8. After(row')
  <2>1. s.status = "queued" /\ s.parent \in Task
    BY <1>2, <1>4, Zenon
  <2> QED BY <1>3, <1>4, <1>5, <1>6, <1>7, <2>1, InsertAfter, Zenon
<1>9. row'[t] = s /\ \A u \in Task : u # t => row'[u] = row[u]
  BY <1>3, Zenon DEF Base, TableOK
<1> QED BY <1>2, <1>3, <1>4, <1>8, <1>9, Zenon DEF NewStep

(* A lease deadline passes. *)
LEMMA LeaseExpiresRows ==
  ASSUME Base, NEW t \in Task, LeaseExpires(t)
  PROVE  /\ TableCalm(row, row') /\ After(row')
         /\ \A u \in Task : Same(row[u], row'[u])
<1> DEFINE s == [row[t] EXCEPT !.deadline = "overdue"]
<1>1. TableOK(row) /\ row[t] \in Row /\ RowOK(row[t]) /\ After(row)
  BY Zenon DEF Base, TableOK, After
<1>2. s \in Row /\ Same(row[t], s)
  <2>1. s \in Row
    BY <1>1, RowUpdate, ColumnValues, Zenon
  <2>2. Same(row[t], s)
    BY <1>1, Zenon DEF Row, Same
  <2> QED BY <2>1, <2>2
<1>3. row' = [row EXCEPT ![t] = s]
  BY Zenon DEF LeaseExpires, Commit
<1> HIDE DEF s
<1>4. Calm(row[t], s) /\ RowOK(s) /\ (Fenced(row[t]) => Fenced(s))
  BY <1>1, <1>2, SameCalm, CalmOrder, Zenon DEF Calm
<1>5. TableCalm(row, row')
  BY <1>1, <1>2, <1>3, <1>4, TableCalmUpdate, Zenon
<1>6. After(row')
  <2>1. NoCheckpoint(t) => Fenced(s)
    BY <1>4, Zenon DEF Base, Checked
  <2>2. /\ s.status = row[t].status /\ s.attempt = row[t].attempt /\ s.waiting = row[t].waiting
        /\ s.admitted = row[t].admitted /\ s.req = row[t].req
        /\ s.parent = row[t].parent /\ s.pattempt = row[t].pattempt
    BY <1>2, Zenon DEF Same
  <2> QED BY <1>1, <1>2, <1>3, <1>4, <2>1, <2>2, SameUpdateAfter, Zenon
<1>7. row'[t] = s /\ \A u \in Task : u # t => row'[u] = row[u]
  BY <1>1, <1>3, Zenon DEF TableOK
<1>8. \A u \in Task : Same(row[u], row'[u])
  BY <1>2, <1>7, Zenon DEF Same
<1> QED BY <1>5, <1>6, <1>8

(* The rows of recover_task_placement: the task, and a child still queued. *)
Placed(r) == [r EXCEPT !.binding = "prepared", !.bound = 0]
Displaced(r) ==
  [r EXCEPT !.status = "cancelled", !.run = "cancelled", !.waiting = "none",
            !.executor = NoExecutor, !.lease = 0, !.deadline = "none",
            !.binding = IF @ = "prepared" THEN "stale" ELSE @]

(* The task is finished and has no open attempt. *)
LEMMA PlacedRow ==
  ASSUME NEW r \in Row, RowOK(r), r.status \in {"failed", "cancelled"}, r.open = {}
  PROVE  LET s == Placed(r)
         IN  Calm(r, s) /\ Undep(r, s) /\ s.status = r.status
<1> DEFINE s == Placed(r)
<1>1. /\ s.status = r.status /\ s.waiting = r.waiting /\ s.attempt = r.attempt
      /\ s.open = r.open /\ s.binding = "prepared" /\ s.fence = r.fence
      /\ s.req = r.req /\ s.parent = r.parent /\ s.pattempt = r.pattempt
      /\ s.admitted = r.admitted
  BY Zenon DEF Row, Placed
<1> HIDE DEF s
<1>2. "prepared" \in Takable /\ "prepared" # "none" /\ "prepared" \notin {"claimed", "stale"}
  BY Zenon DEF Takable
<1>3. r.status # "queued" /\ r.status # "cancel_requested" /\ r.status # "running"
  BY Zenon
<1>4. RowOK(s)
  BY <1>1, <1>2, <1>3, Zenon DEF RowOK, Unresolved, Takable
<1>5. Fenced(s)
  BY <1>1, <1>3, Zenon DEF Fenced
<1>6. Moves(r, s)
  BY <1>1, <1>4, Zenon DEF Moves
<1>7. Calm(r, s) /\ Undep(r, s)
  BY <1>1, <1>3, <1>5, <1>6, Zenon DEF Calm, Undep
<1> QED BY <1>1, <1>7, Zenon DEF s

(* The child is queued, with nothing of it active. *)
LEMMA DisplacedRow ==
  ASSUME NEW r \in Row, RowOK(r), r.status = "queued", PlacementQuiescent(r)
  PROVE  LET s == Displaced(r)
         IN  Calm(r, s) /\ Undep(r, s) /\ s.status = "cancelled"
<1> DEFINE s == Displaced(r)
<1>1. /\ s.status = "cancelled" /\ s.waiting = "none" /\ s.attempt = r.attempt
      /\ s.open = r.open /\ s.fence = r.fence
      /\ s.binding = IF r.binding = "prepared" THEN "stale" ELSE r.binding
      /\ s.req = r.req /\ s.parent = r.parent /\ s.pattempt = r.pattempt
      /\ s.admitted = r.admitted
  BY Zenon DEF Row, Displaced
<1>2. r.open = {} /\ r.waiting # "unknown" /\ r.binding \in Takable
  BY Zenon DEF PlacementQuiescent, RowOK
<1> HIDE DEF s
<1>3. RowOK(s)
  BY <1>1, <1>2, Zenon DEF RowOK, Unresolved, Takable, Terminal
<1>4. Fenced(s)
  BY <1>1, <1>2, Zenon DEF Fenced
<1>5. Moves(r, s)
  BY <1>1, <1>3, Zenon DEF Moves, Terminal
<1>6. Calm(r, s) /\ Undep(r, s)
  BY <1>1, <1>4, <1>5, Zenon DEF Calm, Undep
<1> QED BY <1>1, <1>6, Zenon DEF s

(* recover_task_placement: no child of the task is running. *)
LEMMA RecoverPlacementRows ==
  ASSUME Base, NEW t \in Task, RecoverPlacement(t)
  PROVE  TableCalm(row, row') /\ After(row')
<1>1. TableOK(row) /\ Checked(row) /\ Guard(row) /\ Patient(row) /\ row \in [Task -> Row]
  BY Zenon DEF Base, TableOK
<1>2. /\ row[t].status \in {"failed", "cancelled"} /\ row[t].open = {}
      /\ \A c \in Task : row[c].parent = t => PlacementQuiescent(row[c])
  BY Zenon DEF RecoverPlacement, PlacementQuiescent
<1>0. row' = [c \in Task |->
               CASE c = t -> Placed(row[t])
                 [] row[c].parent = t /\ row[c].status = "queued" -> Displaced(row[c])
                 [] OTHER -> row[c]]
  BY Zenon DEF RecoverPlacement, Commit, Placed, Displaced
<1>3. row' \in [Task -> Row]
  BY RecoverPlacementStep, Zenon DEF TableKeeps, Base
<1>4. ASSUME NEW c \in Task
      PROVE  /\ Calm(row[c], row'[c]) /\ Undep(row[c], row'[c])
             /\ row'[c].status \in {"queued", "running"} => row'[c] = row[c]
             /\ row[c].parent # t /\ c # t => row'[c] = row[c]
  <2>1. row[c] \in Row /\ RowOK(row[c])
    BY <1>1, Zenon DEF TableOK
  <2>2. CASE c = t
    <3>1. row'[c] = Placed(row[c])
      <4>1. row[c].status # "queued"
        BY <1>2, <2>2, Zenon
      <4> QED BY <1>0, <2>2, <4>1, Zenon
    <3>2. Calm(row[c], row'[c]) /\ Undep(row[c], row'[c]) /\ row'[c].status = row[c].status
      BY <1>2, <2>1, <2>2, <3>1, PlacedRow, Zenon
    <3>3. row'[c].status \notin {"queued", "running"}
      BY <1>2, <2>2, <3>2, Zenon
    <3> QED BY <2>2, <3>2, <3>3, Zenon
  <2>3. CASE c # t /\ row[c].parent = t /\ row[c].status = "queued"
    <3>1. row'[c] = Displaced(row[c])
      BY <1>0, <2>3, Zenon
    <3>2. Calm(row[c], row'[c]) /\ Undep(row[c], row'[c]) /\ row'[c].status = "cancelled"
      BY <1>2, <2>1, <2>3, <3>1, DisplacedRow, Zenon
    <3>3. row'[c].status \notin {"queued", "running"}
      BY <3>2, Zenon
    <3> QED BY <2>3, <3>2, <3>3, Zenon
  <2>4. CASE c # t /\ ~(row[c].parent = t /\ row[c].status = "queued")
    <3>1. row'[c] = row[c]
      BY <1>0, <2>4, Zenon
    <3>2. Same(row[c], row[c])
      BY Zenon DEF Same
    <3> QED BY <2>1, <3>1, <3>2, SameCalm, Zenon
  <2> QED BY <2>2, <2>3, <2>4, Zenon
<1>5. TableCalm(row, row') /\ \A c \in Task : Undep(row[c], row'[c])
  BY <1>3, <1>4, Zenon DEF TableCalm
<1>6. TableOK(row') /\ Checked(row') /\ Patient(row')
  BY <1>1, <1>5, CalmChecked, CalmPatient, Zenon
<1>7. Guard(row')
  <2> SUFFICES ASSUME NEW c \in Task, NoCheckpoint(c), Kid(row', c)
               PROVE  /\ row'[row'[c].parent].status = "running"
                      /\ row'[row'[c].parent].attempt = row'[c].pattempt
    BY Zenon DEF Guard
  <2>1. row'[c] = row[c] /\ Kid(row, c)
    BY <1>4, Zenon DEF Kid
  <2> DEFINE p == row[c].parent
  <2>2. p \in Task /\ row[p].parent = 0
    BY <2>1, ParentOf, Zenon DEF Kid
  <2>3. row[p].status = "running" /\ row[p].attempt = row[c].pattempt
    BY <1>1, <2>1, Zenon DEF Guard
  <2>4. p # t
    BY <1>2, <2>3, Zenon
  <2>5. row[p].parent # t
    BY <2>2, TaskAssumption, Zenon
  <2>6. row'[p] = row[p]
    BY <1>4, <2>2, <2>4, <2>5, Zenon
  <2> QED BY <2>1, <2>3, <2>6, Zenon
<1> QED BY <1>5, <1>6, <1>7, Zenon DEF After

(* resume_attempt, first commit: the task has a checkpoint. *)
LEMMA ResumeResetRows ==
  ASSUME Base, NEW t \in Task, NEW n \in Fence, ResumeReset(t, n)
  PROVE  /\ MoveStep(t) /\ After(row')
         /\ ~NoCheckpoint(t) /\ row'[t].binding \in Takable
         /\ \A u \in Task : row'[u].status = row[u].status /\ row'[u].attempt = row[u].attempt
<1> DEFINE s == ResetAttempt(row[t])
<1>1. TableOK(row) /\ row[t] \in Row /\ RowOK(row[t]) /\ After(row)
  BY Zenon DEF Base, TableOK, After
<1>2. row' = [row EXCEPT ![t] = s] /\ att[t][n].ckpt \in Resumable
  BY Zenon DEF ResumeReset, Commit
<1>3. ~NoCheckpoint(t)
  <2>1. att[t][n].ckpt # "none"
    BY <1>2, Zenon DEF Resumable
  <2> QED BY <2>1, Zenon DEF NoCheckpoint
<1>4. /\ s \in Row /\ Moves(row[t], s) /\ s.binding \in Takable
      /\ s.status = row[t].status /\ s.attempt = row[t].attempt
      /\ s.waiting = row[t].waiting /\ s.admitted = row[t].admitted /\ s.req = row[t].req
  BY <1>1, ResetRow, ResetAttemptKeeps, Zenon
<1> HIDE DEF s
<1>5. RowOK(s) /\ s.parent = row[t].parent /\ s.pattempt = row[t].pattempt
  BY <1>4, Zenon DEF Moves
<1>6. After(row')
  BY <1>1, <1>2, <1>3, <1>4, <1>5, SameUpdateAfter, Zenon
<1>7. row'[t] = s /\ \A u \in Task : u # t => row'[u] = row[u]
  BY <1>1, <1>2, Zenon DEF TableOK
<1>8. OthersCalm(t)
  BY <1>1, <1>7, CalmOrder, Zenon DEF OthersCalm, TableOK
<1> QED BY <1>3, <1>4, <1>6, <1>7, <1>8, Zenon DEF MoveStep

(* Second commit: the reaped row is claimable, so no child of it is queued  *)
(* or running.                                                              *)
LEMMA ResumeClaimRows ==
  ASSUME Base, NEW t \in Task, NEW n \in Fence, ResumeClaim(t, n)
  PROVE  /\ MoveStep(t) /\ After(row')
         /\ ~NoCheckpoint(t) /\ row'[t].status = "running" /\ row'[t].binding \in Takable
         /\ \A c \in Task : NoCheckpoint(c) /\ row'[c].parent = t => ~Kid(row', c)
<1> DEFINE e == att[t][n].executor
           r == Reaped[t]
           s == Claimed(r, e)
<1>1. TableCalm(row, Reaped) /\ After(Reaped) /\ TableOK(Reaped)
  BY ReapedAfter, Zenon DEF After
<1>2. resume.task = t /\ resume.step = "claim"
  BY Zenon DEF ResumeClaim
<1>3. RecoveryClaim(r) /\ row' = [Reaped EXCEPT ![t] = s]
  BY Zenon DEF ResumeClaim, Commit
<1>4. resume.step # "idle" /\ r.status \in {"queued", "cancel_requested"}
  BY <1>2, <1>3, Zenon DEF RecoveryClaim
<1>5. ~NoCheckpoint(t) /\ row[t].binding \in Takable /\ row[t].fence # 0
  BY <1>2, <1>4, Zenon DEF Base, Resuming, CheckpointFence
<1>6. r.binding \in Takable
  BY <1>5, ReapedCalm, Zenon DEF Base
<1>7. r.fence # 0
  <2>1. Keeps(row[t], Reaped[t])
    BY ReapedKeeps, Zenon DEF TableKeeps, Base, TypeOK
  <2> QED BY <1>5, <2>1, Zenon DEF Keeps
<1>8. r \in Row /\ RowOK(r)
  BY <1>1, Zenon DEF TableOK
<1>9. Moves(r, s) /\ s.status = "running" /\ s.binding \in Takable
  BY <1>4, <1>6, <1>7, <1>8, ReclaimedRow, SMTT(20)
<1>10. s \in Row
  <2>1. row' \in [Task -> Row]
    BY ResumeClaimStep, Zenon DEF ClaimStep, Base
  <2>2. row'[t] = s
    BY <1>1, <1>3, Zenon DEF TableOK
  <2> QED BY <2>1, <2>2, Zenon
<1> HIDE DEF s
<1>11. \A c \in Task : NoCheckpoint(c) /\ Reaped[c].parent = t => ~Kid(Reaped, c)
  <2> SUFFICES ASSUME NEW c \in Task, NoCheckpoint(c), Reaped[c].parent = t, Kid(Reaped, c)
               PROVE  FALSE
    BY Zenon
  <2>1. Reaped[t].status = "running"
    BY <1>1, Zenon DEF After, Guard
  <2> QED BY <1>4, <2>1, Zenon
<1>12. /\ After(row')
       /\ \A c \in Task : NoCheckpoint(c) /\ row'[c].parent = t => ~Kid(row', c)
  <2>1. RowOK(s) /\ s.parent = Reaped[t].parent /\ s.pattempt = Reaped[t].pattempt
    BY <1>9, Zenon DEF Moves
  <2>2. /\ After([Reaped EXCEPT ![t] = s])
        /\ \A c \in Task : NoCheckpoint(c) /\ [Reaped EXCEPT ![t] = s][c].parent = t
             => ~Kid([Reaped EXCEPT ![t] = s], c)
    BY <1>1, <1>5, <1>9, <1>10, <1>11, <2>1, RunUpdateAfter, Zenon
  <2> QED BY <1>3, <2>2, Zenon
<1>13. row'[t] = s /\ \A u \in Task : u # t => row'[u] = Reaped[u]
  BY <1>1, <1>3, Zenon DEF TableOK
<1>14. OthersCalm(t)
  BY <1>1, <1>13, Zenon DEF OthersCalm, TableCalm
<1>15. Moves(row[t], s)
  <2>1. Calm(row[t], Reaped[t])
    BY <1>1, Zenon DEF TableCalm
  <2> QED BY <1>9, <2>1, CalmOrder, Zenon
<1> QED BY <1>5, <1>9, <1>12, <1>13, <1>14, <1>15, Zenon DEF MoveStep

(* A refused resume. *)
LEMMA ResumeRefusedRows ==
  ASSUME Base, NEW t \in Task, NEW n \in Fence, NEW fit \in BOOLEAN, ResumeRefused(t, n, fit)
  PROVE  TableCalm(row, row') /\ After(row')
<1> DEFINE r == Reaped[t]
           s == Waits(r, "none")
<1>1. TableCalm(row, Reaped) /\ After(Reaped) /\ TableOK(Reaped)
  BY ReapedAfter, Zenon DEF After
<1>2. resume.task = t /\ resume.step = "claim"
  BY Zenon DEF ResumeRefused
<1>3. row' = row \/ row' = [Reaped EXCEPT ![t] = s]
  BY Zenon DEF ResumeRefused, Commit
<1>4. CASE row' = row
  BY <1>4, TableCalmOrder, Zenon DEF Base, After
<1>5. CASE row' = [Reaped EXCEPT ![t] = s]
  <2>1. r \in Row /\ RowOK(r) /\ r.binding \in Takable
    <3>1. row[t].binding \in Takable
      BY <1>2, Zenon DEF Base, Resuming
    <3> QED BY <1>1, <3>1, ReapedCalm, Zenon DEF Base, TableOK
  <2>2. s \in Row /\ Calm(r, s)
    BY <2>1, WaitsCalm, WaitsKeeps, Zenon
  <2>3. s.status = r.status /\ (r.status = "queued" => s.waiting = "none") /\ (r.status # "queued" => s = r)
    BY <2>1, WaitsFields, Zenon
  <2> HIDE DEF s
  <2>4. TableCalm(row, row')
    BY <1>1, <1>5, <2>2, TableCalmUpdate, TableCalmOrder, Zenon
  <2>5. CASE r.status = "queued"
    <3>1. s.waiting # "dependency" /\ s.status = "queued"
      BY <2>3, <2>5, Zenon
    <3> QED BY <1>1, <1>5, <2>2, <2>4, <2>5, <3>1, QueuedUpdateAfter, Zenon
  <2>6. CASE r.status # "queued"
    <3>1. row' = Reaped
      BY <1>1, <1>5, <2>3, <2>6, Zenon DEF TableOK
    <3> QED BY <1>1, <3>1, Zenon
  <2> QED BY <2>5, <2>6, Zenon
<1> QED BY <1>3, <1>4, <1>5, Zenon

(* Third commit. *)
LEMMA ResumeBindRows ==
  ASSUME Base, NEW t \in Task, NEW n \in Fence, ResumeBind(t, n)
  PROVE  MoveStep(t) /\ After(row') /\ ~NoCheckpoint(t) /\ row'[t].attempt = row'[t].fence
<1> DEFINE s == Bound(row[t])
<1>1. TableOK(row) /\ row[t] \in Row /\ RowOK(row[t]) /\ After(row)
  BY Zenon DEF Base, TableOK, After
<1>2. resume.task = t /\ resume.step = "bind" /\ resume.step # "idle"
  BY Zenon DEF ResumeBind
<1>3. row' = [row EXCEPT ![t] = s]
  BY Zenon DEF ResumeBind, Commit
<1>4. /\ ~NoCheckpoint(t) /\ row[t].status = "running" /\ row[t].binding \in Takable
      /\ row[t].fence \in Fence
      /\ \A c \in Task : NoCheckpoint(c) /\ row[c].parent = t => ~Kid(row, c)
  BY <1>2, Zenon DEF Base, Resuming, ResumeFence
<1>5. s \in Row /\ Moves(row[t], s) /\ s.status = "running" /\ s.attempt = s.fence
  BY <1>1, <1>4, BoundRow, BoundKeeps, Zenon
<1> HIDE DEF s
<1>6. RowOK(s) /\ s.parent = row[t].parent /\ s.pattempt = row[t].pattempt
  BY <1>5, Zenon DEF Moves
<1>7. After(row')
  BY <1>1, <1>3, <1>4, <1>5, <1>6, RunUpdateAfter, Zenon
<1>8. row'[t] = s /\ \A u \in Task : u # t => row'[u] = row[u]
  BY <1>1, <1>3, Zenon DEF TableOK
<1>9. OthersCalm(t)
  BY <1>1, <1>8, CalmOrder, Zenon DEF OthersCalm, TableOK
<1> QED BY <1>4, <1>5, <1>7, <1>8, <1>9, Zenon DEF MoveStep

(* begin_runtime_session: no task runs, and every child of a running one is *)
(* contained.                                                               *)
LEMMA BeginRuntimeSessionRows ==
  ASSUME Base, BeginRuntimeSession
  PROVE  /\ TableCalm(row, row') /\ After(row')
         /\ \A t \in Task : row'[t].status # "running"
<1>1. row' = Restarted /\ TableOK(row) /\ Checked(row) /\ Guard(row) /\ Patient(row)
  BY Zenon DEF Base, BeginRuntimeSession, Commit
<1>2. TableCalm(row, row') /\ Patient(row') /\ \A t \in Task : row'[t].status # "running"
  BY <1>1, RestartedCalm, Zenon
<1>3. TableOK(row') /\ Checked(row')
  BY <1>1, <1>2, CalmChecked, Zenon
<1>4. Guard(row')
  <2> SUFFICES ASSUME NEW c \in Task, NoCheckpoint(c), Kid(row', c)
               PROVE  FALSE
    BY Zenon DEF Guard
  <2>1. row'[c].status # "running"
    BY <1>2, Zenon
  <2>2. row'[c].parent # 0 /\ row'[c].status = "queued"
    BY <2>1, Zenon DEF Kid
  <2>3. row'[c].parent = row[c].parent
    BY <1>2, Zenon DEF TableCalm, Calm, Moves
  <2>4. Fenced(row[c])
    BY <1>1, Zenon DEF Checked
  <2>5. row[c].status \in {"queued", "running"}
    BY <1>1, <2>2, <2>4, RestartedCalm, Zenon
  <2>6. Kid(row, c)
    BY <2>2, <2>3, <2>5, Zenon DEF Kid
  <2>7. row[row[c].parent].status = "running" /\ row[row[c].parent].attempt = row[c].pattempt
    BY <1>1, <2>6, Zenon DEF Guard
  <2>8. Restarted[c].status # "queued"
    BY <1>1, <2>2, <2>3, <2>4, <2>7, RestartedCalm, Zenon
  <2> QED BY <1>1, <2>2, <2>8, Zenon
<1> QED BY <1>2, <1>3, <1>4, Zenon DEF After

-----------------------------------------------------------------------------
(* Every step.                                                              *)

StepOf(t) == MoveStep(t) \/ FinishStep(t) \/ AgainStep(t) \/ NewStep(t)

ResumingNext ==
  /\ resume'.step # "idle" => resume'.task \in Task /\ ~NoCheckpoint(resume'.task)
  /\ resume'.step = "claim" => row'[resume'.task].binding \in Takable
  /\ resume'.step = "bind" =>
       /\ row'[resume'.task].status = "running" /\ row'[resume'.task].binding \in Takable
       /\ \A c \in Task : NoCheckpoint(c) /\ row'[c].parent = resume'.task => ~Kid(row', c)

Good ==
  /\ After(row') /\ (TableCalm(row, row') \/ \E t \in Task : StepOf(t))
  /\ AttemptIsFence' /\ ResumingNext

(* A running row keeps its attempt and its fence, but the one the step is   *)
(* about.                                                                   *)
LEMMA CalmAttempt ==
  ASSUME Base, TableCalm(row, row'), TableKeeps(row, row'), resume' = resume \/ resume.step # "bind"
  PROVE  AttemptIsFence'
<1> SUFFICES ASSUME NEW t \in Task, row'[t].status = "running",
                    ~(resume'.step = "bind" /\ resume'.task = t)
             PROVE  row'[t].attempt = row'[t].fence
  BY Zenon DEF AttemptIsFence
<1>1. row[t].status = "running" /\ row'[t].attempt = row[t].attempt
  BY Zenon DEF TableCalm, Calm
<1>2. row'[t].fence = row[t].fence
  BY Zenon DEF TableKeeps, Keeps
<1>3. ~(resume.step = "bind" /\ resume.task = t)
  BY Zenon
<1>4. row[t].attempt = row[t].fence
  BY <1>1, <1>3, Zenon DEF Base, AttemptIsFence
<1> QED BY <1>1, <1>2, <1>4, Zenon

(* The same for a step about one task. *)
LEMMA StepAttempt ==
  ASSUME Base, NEW t \in Task, OthersCalm(t), \A u \in Task \ {t} : Keeps(row[u], row'[u]),
         resume.step = "bind" => resume.task = t,
         row'[t].status = "running" =>
           row'[t].attempt = row'[t].fence \/ (resume'.step = "bind" /\ resume'.task = t)
  PROVE  AttemptIsFence'
<1> SUFFICES ASSUME NEW u \in Task, row'[u].status = "running",
                    ~(resume'.step = "bind" /\ resume'.task = u)
             PROVE  row'[u].attempt = row'[u].fence
  BY Zenon DEF AttemptIsFence
<1>1. CASE u = t
  BY <1>1, Zenon
<1>2. CASE u # t
  <2>1. row[u].status = "running" /\ row'[u].attempt = row[u].attempt
    BY <1>2, Zenon DEF OthersCalm, Calm
  <2>2. row'[u].fence = row[u].fence
    BY <1>2, Zenon DEF Keeps
  <2>3. row[u].attempt = row[u].fence
    BY <1>2, <2>1, Zenon DEF Base, AttemptIsFence
  <2> QED BY <2>1, <2>2, <2>3, Zenon
<1> QED BY <1>1, <1>2, Zenon

(* No resume is in progress after a step that leaves none. *)
LEMMA IdleNext ==
  ASSUME resume' = NoResume
  PROVE  ResumingNext
<1>1. resume'.step # "claim" /\ resume'.step # "bind" /\ ~(resume'.step # "idle")
  BY Zenon DEF NoResume
<1> QED BY <1>1, Zenon DEF ResumingNext

(* While the mutex is free, no resume is in progress. *)
LEMMA FreeIdle ==
  ASSUME Free
  PROVE  resume.step # "bind" /\ resume = NoResume
BY Zenon DEF Free, NoResume

(* A calm step that leaves no resume in progress. *)
LEMMA CalmGood ==
  ASSUME Base, TableCalm(row, row'), TableKeeps(row, row'), After(row'),
         resume.step # "bind", resume' = NoResume
  PROVE  Good
<1>1. AttemptIsFence'
  BY CalmAttempt, Zenon
<1>2. ResumingNext
  BY IdleNext, Zenon
<1> QED BY <1>1, <1>2, Zenon DEF Good

(* A step about one task under the free mutex. *)
LEMMA FreeGood ==
  ASSUME Base, NEW t \in Task, StepOf(t), OthersCalm(t),
         \A u \in Task \ {t} : Keeps(row[u], row'[u]), After(row'),
         row'[t].status = "running" => row'[t].attempt = row'[t].fence,
         Free, resume' = resume
  PROVE  Good
<1>1. resume.step # "bind" /\ resume = NoResume
  BY FreeIdle, Zenon
<1>2. AttemptIsFence'
  BY <1>1, StepAttempt, Zenon
<1>3. ResumingNext
  BY <1>1, IdleNext, Zenon
<1> QED BY <1>2, <1>3, Zenon DEF Good

(* A step that leaves the standing of every row, and the resume, alone. *)
LEMMA SameGood ==
  ASSUME Base, TableCalm(row, row'), TableKeeps(row, row'), After(row'),
         \A u \in Task : Same(row[u], row'[u]), resume' = resume
  PROVE  Good
<1>1. AttemptIsFence'
  BY CalmAttempt, Zenon
<1>2. Resuming
  BY Zenon DEF Base
<1>3. \A u \in Task : /\ row'[u].status = row[u].status /\ row'[u].binding = row[u].binding
                      /\ row'[u].parent = row[u].parent
  BY Zenon DEF Same
<1>4. resume.step = "claim" \/ resume.step = "bind" => resume.step # "idle"
  BY Zenon
<1>5. ResumingNext
  <2>1. resume'.step = "claim" => row'[resume'.task].binding \in Takable
    BY <1>2, <1>3, <1>4, Zenon DEF Resuming
  <2>2. resume'.step = "bind" =>
          row'[resume'.task].status = "running" /\ row'[resume'.task].binding \in Takable
    BY <1>2, <1>3, <1>4, Zenon DEF Resuming
  <2>3. \A c \in Task : Kid(row', c) => Kid(row, c)
    BY <1>3, Zenon DEF Kid
  <2>4. resume'.step = "bind" =>
          \A c \in Task : NoCheckpoint(c) /\ row'[c].parent = resume'.task => ~Kid(row', c)
    BY <1>2, <1>3, <2>3, Zenon DEF Resuming
  <2>5. resume'.step # "idle" => resume'.task \in Task /\ ~NoCheckpoint(resume'.task)
    BY <1>2, Zenon DEF Resuming
  <2> QED BY <2>1, <2>2, <2>4, <2>5, Zenon DEF ResumingNext
<1> QED BY <1>1, <1>5, Zenon DEF Good

(* create_task and admit_delegated_child. *)
LEMMA InsertGood ==
  ASSUME Base, NEW t \in Task, InsertStep(t), NewStep(t), After(row'), Free, resume' = resume
  PROVE  Good
<1>1. OthersCalm(t)
  BY CalmOrder, Zenon DEF NewStep, OthersCalm, Base, TableOK
<1>2. \A u \in Task \ {t} : Keeps(row[u], row'[u])
  BY KeepsOrder, Zenon DEF NewStep
<1>3. row'[t].status # "running"
  BY Zenon DEF NewStep
<1> QED BY <1>1, <1>2, <1>3, FreeGood, Zenon DEF StepOf

(* The commands of clients. *)
LEMMA ClientGood ==
  ASSUME Base, NEW t \in Task, Client(t)
  PROVE  Good
<1>1. ASSUME NEW q \in Requests[t], CreateTask(t, q)
      PROVE  Good
  <2>1. NewStep(t) /\ After(row')
    BY <1>1, CreateTaskRows, Zenon
  <2>2. InsertStep(t)
    BY <1>1, CreateTaskStep, Zenon DEF Base
  <2>3. Free /\ resume' = resume
    BY <1>1, Zenon DEF CreateTask
  <2> QED BY <2>1, <2>2, <2>3, InsertGood, Zenon
<1>2. ASSUME NEW q \in ChildRequests, NEW p \in Task, NEW n \in Fence,
             AdmitDelegatedChild(t, q, p, n)
      PROVE  Good
  <2>1. NewStep(t) /\ After(row')
    BY <1>2, AdmitDelegatedChildRows, Zenon
  <2>2. InsertStep(t)
    BY <1>2, AdmitDelegatedChildStep, Zenon DEF Base
  <2>3. Free /\ resume' = resume
    BY <1>2, Zenon DEF AdmitDelegatedChild
  <2> QED BY <2>1, <2>2, <2>3, InsertGood, Zenon
<1>3. CASE CancelTask(t)
  <2>1. Free /\ resume' = resume
    BY <1>3, Zenon DEF CancelTask
  <2>2. TableKeeps(row, row')
    BY <1>3, CancelTaskStep, Zenon DEF Base
  <2> QED BY <1>3, <2>1, <2>2, CancelTaskRows, FreeIdle, CalmGood, Zenon
<1>4. CASE CancelRun(t)
  <2>1. Free /\ resume' = resume
    BY <1>4, Zenon DEF CancelRun
  <2>2. TableKeeps(row, row')
    BY <1>4, CancelRunStep, Zenon DEF Base
  <2> QED BY <1>4, <2>1, <2>2, CancelRunRows, FreeIdle, CalmGood, Zenon
<1>5. CASE RetryTask(t) \/ RetryRun(t)
  <2>1. Free /\ resume' = resume
    BY <1>5, Zenon DEF RetryTask, RetryRun
  <2>2. \A u \in Task \ {t} : Keeps(row[u], row'[u])
    BY <1>5, RetryStep, Zenon DEF Base, TableKeeps
  <2>3. AgainStep(t) /\ After(row')
    BY <1>5, RetryRows, Zenon
  <2>4. OthersCalm(t) /\ row'[t].status # "running"
    BY <2>3, ZenonT(60) DEF AgainStep
  <2> QED BY <2>1, <2>2, <2>3, <2>4, FreeGood, Zenon DEF StepOf
<1>6. CASE RecoverPlacement(t)
  <2>1. Free /\ resume' = resume
    BY <1>6, Zenon DEF RecoverPlacement
  <2>2. TableKeeps(row, row')
    BY <1>6, RecoverPlacementStep, Zenon DEF Base
  <2> QED BY <1>6, <2>1, <2>2, RecoverPlacementRows, FreeIdle, CalmGood, Zenon
<1> QED BY <1>1, <1>2, <1>3, <1>4, <1>5, <1>6, Zenon DEF Client

(* The claims. *)
LEMMA ClaimGood ==
  ASSUME Base, NEW e \in Executor, Claim(e)
  PROVE  Good
<1>1. ASSUME ClaimEmpty(e) \/ \E t \in Task : ClaimUnresolved(e, t)
      PROVE  Good
  <2>1. Free /\ resume' = resume /\ row' = Reaped
    BY <1>1, Zenon DEF ClaimEmpty, ClaimUnresolved, Commit
  <2>2. TableKeeps(row, row')
    BY <2>1, ReapedKeeps, Zenon DEF Base, TypeOK
  <2> QED BY <2>1, <2>2, ReapRows, FreeIdle, CalmGood, Zenon
<1>2. ASSUME NEW t \in Task, ClaimGranted(e, t)
      PROVE  Good
  <2>1. Free /\ resume' = resume
    BY <1>2, Zenon DEF ClaimGranted
  <2>2. \A u \in Task \ {t} : Keeps(row[u], row'[u])
    BY <1>2, ClaimGrantedStep, Zenon DEF Base, ClaimStep
  <2>3. MoveStep(t) /\ After(row') /\ row'[t].attempt = row'[t].fence
    BY <1>2, ClaimGrantedRows, Zenon
  <2>4. StepOf(t) /\ OthersCalm(t)
    BY <2>3, Zenon DEF StepOf, MoveStep
  <2> QED BY <2>1, <2>2, <2>3, <2>4, FreeGood, Zenon
<1>3. ASSUME NEW t \in Task, NEW fit \in BOOLEAN, ClaimRefused(e, t, fit)
      PROVE  Good
  <2>1. Free /\ resume' = resume
    BY <1>3, Zenon DEF ClaimRefused
  <2>2. TableKeeps(row, row')
    BY <1>3, ClaimRefusedStep, Zenon DEF Base
  <2>3. TableCalm(row, row') /\ After(row')
    BY <1>3, ClaimRefusedRows, Zenon
  <2> QED BY <2>1, <2>2, <2>3, FreeIdle, CalmGood, Zenon
<1> QED BY <1>1, <1>2, <1>3, Zenon DEF Claim

(* The resume steps. *)
LEMMA ResumeGood ==
  ASSUME Base, NEW t \in Task, NEW n \in Fence, ResumeReset(t, n) \/ ResumeStepOf(t, n)
  PROVE  Good
<1>1. CASE ResumeReset(t, n)
  <2>1. /\ MoveStep(t) /\ After(row') /\ ~NoCheckpoint(t) /\ row'[t].binding \in Takable
        /\ \A u \in Task : row'[u].status = row[u].status /\ row'[u].attempt = row[u].attempt
    BY <1>1, ResumeResetRows, Zenon
  <2>2. \A u \in Task : Keeps(row[u], row'[u])
    BY <1>1, ResumeResetStep, Zenon DEF Base, TableKeeps
  <2>3. Free /\ resume'.task = t /\ resume'.step = "claim" /\ resume'.step # "bind"
    BY <1>1, Zenon DEF ResumeReset
  <2>4. resume.step # "bind"
    BY <2>3, FreeIdle, Zenon
  <2>5. row'[t].status = "running" => row'[t].attempt = row'[t].fence
    BY <2>1, <2>2, <2>4, Zenon DEF Keeps, Base, AttemptIsFence
  <2>6. AttemptIsFence'
    BY <2>1, <2>2, <2>4, <2>5, StepAttempt, Zenon DEF MoveStep
  <2>7. ResumingNext
    BY <2>1, <2>3, Zenon DEF ResumingNext
  <2> QED BY <2>1, <2>6, <2>7, Zenon DEF Good, StepOf
<1>2. CASE ResumeClaim(t, n)
  <2>1. /\ MoveStep(t) /\ After(row')
        /\ ~NoCheckpoint(t) /\ row'[t].status = "running" /\ row'[t].binding \in Takable
        /\ \A c \in Task : NoCheckpoint(c) /\ row'[c].parent = t => ~Kid(row', c)
    BY <1>2, ResumeClaimRows, Zenon
  <2>2. \A u \in Task \ {t} : Keeps(row[u], row'[u])
    BY <1>2, ResumeClaimStep, Zenon DEF Base, ClaimStep
  <2>3. /\ resume'.task = t /\ resume'.step = "bind" /\ resume'.step # "claim"
        /\ resume.step # "bind"
    BY <1>2, Zenon DEF ResumeClaim
  <2>4. AttemptIsFence'
    BY <2>1, <2>2, <2>3, StepAttempt, Zenon DEF MoveStep
  <2>5. ResumingNext
    BY <2>1, <2>3, Zenon DEF ResumingNext
  <2> QED BY <2>1, <2>4, <2>5, Zenon DEF Good, StepOf
<1>3. CASE ResumeBind(t, n)
  <2>1. MoveStep(t) /\ After(row') /\ ~NoCheckpoint(t) /\ row'[t].attempt = row'[t].fence
    BY <1>3, ResumeBindRows, Zenon
  <2>2. \A u \in Task \ {t} : Keeps(row[u], row'[u])
    BY <1>3, ResumeBindStep, Zenon DEF Base, TableKeeps
  <2>3. /\ resume'.task = t /\ resume'.step # "bind" /\ resume'.step # "claim"
        /\ resume.task = t
    BY <1>3, Zenon DEF ResumeBind
  <2>4. AttemptIsFence'
    BY <2>1, <2>2, <2>3, StepAttempt, Zenon DEF MoveStep
  <2>5. ResumingNext
    BY <2>1, <2>3, Zenon DEF ResumingNext
  <2> QED BY <2>1, <2>4, <2>5, Zenon DEF Good, StepOf
<1>4. CASE ResumeMark(t, n)
  <2>1. row' = row /\ resume' = NoResume /\ resume.step # "bind"
    BY <1>4, Zenon DEF ResumeMark
  <2>2. TableCalm(row, row') /\ After(row') /\ TableKeeps(row, row')
    BY <2>1, TableCalmOrder, UnchangedStep, Zenon DEF Base, After
  <2> QED BY <2>1, <2>2, CalmGood, Zenon
<1>5. ASSUME NEW fit \in BOOLEAN, ResumeRefused(t, n, fit)
      PROVE  Good
  <2>1. resume' = NoResume /\ resume.step # "bind"
    BY <1>5, Zenon DEF ResumeRefused
  <2>2. TableKeeps(row, row')
    BY <1>5, ResumeRefusedStep, Zenon DEF Base
  <2>3. TableCalm(row, row') /\ After(row')
    BY <1>5, ResumeRefusedRows, Zenon
  <2> QED BY <2>1, <2>2, <2>3, CalmGood, Zenon
<1> QED BY <1>1, <1>2, <1>3, <1>4, <1>5, Zenon DEF ResumeStepOf

(* The attempts of workers. *)
LEMMA WorkerGood ==
  ASSUME Base, NEW t \in Task, NEW n \in Fence, Worker(t, n)
  PROVE  Good
<1>1. CASE SettleAttempt(t, n) \/ FailAttempt(t, n)
  <2>1. Free /\ resume' = resume
    BY <1>1, Zenon DEF SettleAttempt, FailAttempt
  <2>2. \A u \in Task \ {t} : Keeps(row[u], row'[u])
    BY <1>1, SettleAttemptStep, FailAttemptStep, Zenon DEF Base, TableKeeps
  <2>3. FinishStep(t) /\ After(row')
    BY <1>1, SettleAttemptRows, FailAttemptRows, Zenon
  <2>4. OthersCalm(t) /\ row'[t].status \in {"completed", "failed"}
    BY <2>3, Zenon DEF FinishStep
  <2>5. row'[t].status # "running"
    BY <2>4, Zenon
  <2> QED BY <2>1, <2>2, <2>3, <2>4, <2>5, FreeGood, Zenon DEF StepOf
<1>2. CASE CheckpointAttempt(t, n) \/ RequestReboot(t, n) \/ RebootOutcome(t, n)
  <2>1. Free /\ resume' = resume /\ row' = row
    BY <1>2, Zenon DEF CheckpointAttempt, RequestReboot, RebootOutcome
  <2>2. TableCalm(row, row') /\ After(row') /\ TableKeeps(row, row')
    BY <2>1, TableCalmOrder, UnchangedStep, Zenon DEF Base, After
  <2> QED BY <2>1, <2>2, FreeIdle, CalmGood, Zenon
<1>3. CASE ResumeReset(t, n) \/ ResumeStepOf(t, n)
  BY <1>3, ResumeGood, Zenon
<1> QED BY <1>1, <1>2, <1>3, Zenon DEF Worker

(* Every step. *)
LEMMA StepGood ==
  ASSUME Base, [Next]_vars
  PROVE  Good
<1>1. ASSUME NEW t \in Task, LeaseExpires(t)
      PROVE  Good
  <2>1. resume' = resume
    BY <1>1, Zenon DEF LeaseExpires
  <2>2. TableKeeps(row, row')
    BY <1>1, LeaseExpiresStep, Zenon DEF Base
  <2>3. TableCalm(row, row') /\ After(row') /\ \A u \in Task : Same(row[u], row'[u])
    BY <1>1, LeaseExpiresRows, Zenon
  <2> QED BY <2>1, <2>2, <2>3, SameGood, Zenon
<1>2. CASE ReapOverdueLeases
  <2>1. Free /\ resume' = resume /\ row' = Reaped
    BY <1>2, Zenon DEF ReapOverdueLeases, Commit
  <2>2. TableKeeps(row, row')
    BY <2>1, ReapedKeeps, Zenon DEF Base, TypeOK
  <2> QED BY <2>1, <2>2, ReapRows, FreeIdle, CalmGood, Zenon
<1>3. CASE BeginRuntimeSession
  <2>1. TableCalm(row, row') /\ After(row') /\ \A t \in Task : row'[t].status # "running"
    BY <1>3, BeginRuntimeSessionRows, Zenon
  <2>2. AttemptIsFence'
    BY <2>1, Zenon DEF AttemptIsFence
  <2>3. ResumingNext
    BY <1>3, IdleNext, Zenon DEF BeginRuntimeSession
  <2> QED BY <2>1, <2>2, <2>3, Zenon DEF Good
<1>4. CASE UNCHANGED vars
  <2>1. row' = row /\ resume' = resume
    BY <1>4, Zenon DEF vars
  <2>2. TableCalm(row, row') /\ After(row') /\ TableKeeps(row, row')
    BY <2>1, TableCalmOrder, UnchangedStep, Zenon DEF Base, After
  <2>3. \A u \in Task : Same(row[u], row'[u])
    BY <2>1, Zenon DEF Same
  <2> QED BY <2>1, <2>2, <2>3, SameGood, Zenon
<1> QED BY <1>1, <1>2, <1>3, <1>4, ClientGood, WorkerGood, ClaimGood, Zenon DEF Next

-----------------------------------------------------------------------------
(* Checkpoints.                                                             *)

(* A checkpoint is never taken back, and the task of a new one was claimed. *)
CkptStep ==
  \A u \in Task :
    /\ NoCheckpoint(u)' => NoCheckpoint(u)
    /\ ~NoCheckpoint(u)' => ~NoCheckpoint(u) \/ row[u].fence # 0

(* Steps that leave the checkpoint of every attempt alone. *)
LEMMA CkptsKept ==
  ASSUME \A u \in Task, m \in Fence : att'[u][m].ckpt = att[u][m].ckpt
  PROVE  CkptStep
BY Zenon DEF CkptStep, NoCheckpoint

(* Steps that move one checkpoint on. *)
LEMMA CkptMoves ==
  ASSUME Base, NEW t \in Task, NEW n \in Fence, NEW s, s # "none", Ckpt(t, n, s), row[t].fence # 0
  PROVE  CkptStep
<1>1. att \in [Task -> [Fence -> Attempt]]
  BY Zenon DEF Base, TypeOK
<1>2. \A u \in Task, m \in Fence :
        att'[u][m].ckpt = IF u = t /\ m = n THEN s ELSE att[u][m].ckpt
  BY <1>1, SMTT(20) DEF Ckpt, Attempt
<1>3. ASSUME NEW u \in Task
      PROVE  /\ NoCheckpoint(u)' => NoCheckpoint(u)
             /\ ~NoCheckpoint(u)' => ~NoCheckpoint(u) \/ row[u].fence # 0
  <2>1. CASE u = t
    <3>1. att'[u][n].ckpt # "none"
      BY <1>2, <2>1, Zenon
    <3> QED BY <2>1, <3>1, Zenon DEF NoCheckpoint
  <2>2. CASE u # t
    <3>1. \A m \in Fence : att'[u][m].ckpt = att[u][m].ckpt
      BY <1>2, <2>2, Zenon
    <3> QED BY <3>1, Zenon DEF NoCheckpoint
  <2> QED BY <2>1, <2>2, Zenon
<1> QED BY <1>3, Zenon DEF CkptStep

(* A new attempt has no checkpoint yet. *)
LEMMA CkptsOwned ==
  ASSUME Base, NEW t \in Task, NEW f \in Fence, NEW e,
         att' = [att EXCEPT ![t][f] = [@ EXCEPT !.executor = e, !.epoch = epoch]]
  PROVE  CkptStep
<1>1. att \in [Task -> [Fence -> Attempt]]
  BY Zenon DEF Base, TypeOK
<1>2. \A u \in Task, m \in Fence : att'[u][m].ckpt = att[u][m].ckpt
  BY <1>1, SMTT(20) DEF Attempt
<1> QED BY <1>2, CkptsKept, Zenon

(* A task with an open attempt or a checkpoint was claimed. *)
LEMMA ClaimedBefore ==
  ASSUME Base, NEW t \in Task, NEW n \in Fence, n \in row[t].open \/ att[t][n].ckpt # "none"
  PROVE  row[t].fence # 0
<1>1. CASE n \in row[t].open
  BY <1>1, Zenon DEF Base, TableOK, RowOK
<1>2. CASE att[t][n].ckpt # "none"
  BY <1>2, Zenon DEF Base, CheckpointFence, NoCheckpoint
<1> QED BY <1>1, <1>2, Zenon

(* Every step. *)
LEMMA StepCkpts ==
  ASSUME Base, [Next]_vars
  PROVE  CkptStep
<1>1. ASSUME att' = att
      PROVE  CkptStep
  BY <1>1, CkptsKept, Zenon
<1>2. CASE \E t \in Task : Client(t) \/ LeaseExpires(t)
  <2>1. att' = att
    BY <1>2, ZenonT(30) DEF Client, LeaseExpires, CreateTask, AdmitDelegatedChild, CancelTask,
            CancelRun, RetryTask, RetryRun, RecoverPlacement
  <2> QED BY <1>1, <2>1, Zenon
<1>3. ASSUME NEW t \in Task, NEW n \in Fence, Worker(t, n)
      PROVE  CkptStep
  <2>1. CASE SettleAttempt(t, n) \/ FailAttempt(t, n) \/ ResumeReset(t, n) \/ ResumeClaim(t, n)
             \/ \E fit \in BOOLEAN : ResumeRefused(t, n, fit)
    <3>1. att' = att
      BY <2>1, Zenon DEF SettleAttempt, FailAttempt, ResumeReset, ResumeClaim, ResumeRefused
    <3> QED BY <1>1, <3>1, Zenon
  <2>2. CASE CheckpointAttempt(t, n) \/ RequestReboot(t, n)
    <3>1. n \in row[t].open
      BY <2>2, Zenon DEF CheckpointAttempt, RequestReboot, LeaseValid
    <3>2. \E s \in {"durable", "requested"} : Ckpt(t, n, s)
      BY <2>2, Zenon DEF CheckpointAttempt, RequestReboot
    <3>3. \A s \in {"durable", "requested"} : s # "none"
      BY Zenon
    <3> QED BY <3>1, <3>2, <3>3, ClaimedBefore, CkptMoves, Zenon
  <2>3. CASE RebootOutcome(t, n)
    <3>1. att[t][n].ckpt # "none"
      BY <2>3, Zenon DEF RebootOutcome
    <3>2. \E s \in {"executed", "failed"} : Ckpt(t, n, s)
      BY <2>3, Zenon DEF RebootOutcome
    <3>3. \A s \in {"executed", "failed"} : s # "none"
      BY Zenon
    <3> QED BY <3>1, <3>2, <3>3, ClaimedBefore, CkptMoves, Zenon
  <2>4. CASE ResumeMark(t, n)
    <3>1. resume.task = t /\ resume.step # "idle" /\ Ckpt(t, n, "resumed")
      BY <2>4, Zenon DEF ResumeMark
    <3>2. row[t].fence # 0
      BY <3>1, Zenon DEF Base, Resuming, CheckpointFence
    <3>3. "resumed" # "none"
      BY Zenon
    <3> QED BY <3>1, <3>2, <3>3, CkptMoves, Zenon
  <2>5. CASE ResumeBind(t, n)
    <3>1. resume.task = t /\ resume.step = "bind"
      BY <2>5, Zenon DEF ResumeBind
    <3>2. row[t].fence \in Fence
      BY <3>1, Zenon DEF Base, ResumeFence
    <3>3. att' = [att EXCEPT ![t][row[t].fence] =
                    [@ EXCEPT !.executor = att[t][n].executor, !.epoch = epoch]]
      BY <2>5, Zenon DEF ResumeBind
    <3> QED BY <3>2, <3>3, CkptsOwned, Zenon
  <2> QED BY <1>3, <2>1, <2>2, <2>3, <2>4, <2>5, Zenon DEF Worker, ResumeStepOf
<1>4. ASSUME NEW e \in Executor, Claim(e)
      PROVE  CkptStep
  <2>1. CASE ClaimEmpty(e) \/ (\E t \in Task : ClaimUnresolved(e, t))
             \/ (\E t \in Task, fit \in BOOLEAN : ClaimRefused(e, t, fit))
    <3>1. att' = att
      BY <2>1, Zenon DEF ClaimEmpty, ClaimUnresolved, ClaimRefused
    <3> QED BY <1>1, <3>1, Zenon
  <2>2. ASSUME NEW t \in Task, ClaimGranted(e, t)
        PROVE  CkptStep
    <3> DEFINE r == ClaimRow(Reaped, t)
    <3>1. r \in Row
      BY ReapedKeeps, ClaimRowKeeps, Zenon DEF TableKeeps, Base, TypeOK
    <3>2. /\ r.fence < MaxFence
          /\ att' = [att EXCEPT ![t][r.fence + 1] = [@ EXCEPT !.executor = e, !.epoch = epoch]]
      BY <2>2, Zenon DEF ClaimGranted
    <3> HIDE DEF r
    <3>3. r.fence + 1 \in Fence
      BY <3>1, <3>2, BoundAssumption, SMTT(20) DEF Row, Number, Fence
    <3> QED BY <3>2, <3>3, CkptsOwned, Zenon
  <2> QED BY <1>4, <2>1, <2>2, Zenon DEF Claim
<1>5. CASE ReapOverdueLeases \/ UNCHANGED vars
  <2>1. att' = att
    BY <1>5, Zenon DEF ReapOverdueLeases, vars
  <2> QED BY <1>1, <2>1, Zenon
<1>6. CASE BeginRuntimeSession
  <2>1. \A u \in Task, m \in Fence :
          att'[u][m].ckpt = IF att[u][m].epoch = epoch /\ att[u][m].ckpt \in {"durable", "requested"}
                            THEN "recovered" ELSE att[u][m].ckpt
    BY <1>6, SMTT(20) DEF BeginRuntimeSession, Base, TypeOK, Attempt
  <2>2. \A u \in Task, m \in Fence : att'[u][m].ckpt = "none" <=> att[u][m].ckpt = "none"
    BY <2>1, Zenon
  <2> QED BY <2>2, Zenon DEF CkptStep, NoCheckpoint
<1> QED BY <1>2, <1>3, <1>4, <1>5, <1>6, Zenon DEF Next

-----------------------------------------------------------------------------
(* The inductive invariant.                                                 *)

(* What every step does to a row's lineage. *)
LEMMA StepLineage ==
  ASSUME Base, Good
  PROVE  Lineage'
<1>1. ASSUME NEW u \in Task, row[u].status # "absent"
      PROVE  row'[u].parent = row[u].parent /\ row'[u].status # "absent"
  <2>1. CASE TableCalm(row, row')
    BY <1>1, <2>1, Zenon DEF TableCalm, Calm, Moves
  <2>2. ASSUME NEW t \in Task, StepOf(t)
        PROVE  row'[u].parent = row[u].parent /\ row'[u].status # "absent"
    <3>1. CASE NewStep(t)
      <4>1. u # t
        BY <1>1, <3>1, Zenon DEF NewStep
      <4> QED BY <1>1, <3>1, <4>1, Zenon DEF NewStep
    <3>2. CASE ~NewStep(t) /\ u # t
      <4>1. OthersCalm(t)
        BY <2>2, <3>2, Zenon DEF StepOf, MoveStep, FinishStep, AgainStep
      <4> QED BY <1>1, <3>2, <4>1, Zenon DEF OthersCalm, Calm, Moves
    <3>3. CASE MoveStep(t) /\ u = t
      BY <1>1, <3>3, Zenon DEF MoveStep, Moves
    <3>4. CASE (FinishStep(t) \/ AgainStep(t)) /\ u = t
      BY <3>4, Zenon DEF FinishStep, AgainStep
    <3> QED BY <2>2, <3>1, <3>2, <3>3, <3>4, Zenon DEF StepOf
  <2> QED BY <2>1, <2>2, Zenon DEF Good
<1>2. ASSUME NEW c \in Task, row'[c].parent # 0
      PROVE  row'[row'[c].parent].parent = 0 /\ row'[row'[c].parent].status # "absent"
  <2>1. CASE row[c].status # "absent"
    <3>1. row'[c].parent = row[c].parent
      BY <1>1, <2>1, Zenon
    <3>2. /\ row[c].parent \in Task /\ row[row[c].parent].parent = 0
          /\ row[row[c].parent].status # "absent"
      BY <1>2, <3>1, ParentOf, Zenon
    <3> QED BY <1>1, <3>1, <3>2, Zenon
  <2>2. CASE row[c].status = "absent"
    <3>1. row[c].parent = 0
      BY <2>2, Zenon DEF Base, TableOK, RowOK
    <3>2. ASSUME Moves(row[c], row'[c])
          PROVE  FALSE
      BY <1>2, <3>1, <3>2, Zenon DEF Moves
    <3>3. PICK t \in Task : StepOf(t)
      BY <3>2, Zenon DEF Good, TableCalm, Calm
    <3>4. ASSUME OthersCalm(t), c # t
          PROVE  FALSE
      BY <3>2, <3>4, Zenon DEF OthersCalm, Calm
    <3>5. ~MoveStep(t)
      BY <3>2, <3>4, Zenon DEF MoveStep
    <3>6. ~FinishStep(t) /\ ~AgainStep(t)
      BY <1>2, <3>1, <3>4, Zenon DEF FinishStep, AgainStep
    <3>7. NewStep(t)
      BY <3>3, <3>5, <3>6, Zenon DEF StepOf
    <3>8. c = t
      BY <1>2, <3>1, <3>7, Zenon DEF NewStep
    <3>9. PICK p \in Task : /\ row'[c].parent = p /\ row[p].parent = 0
                            /\ row[p].status = "running"
      BY <1>2, <3>7, <3>8, Zenon DEF NewStep
    <3>10. row[p].status # "absent"
      BY <3>9, Zenon
    <3> QED BY <1>1, <3>9, <3>10, Zenon
  <2> QED BY <2>1, <2>2, Zenon
<1> QED BY <1>2, Zenon DEF Lineage

(* Every step leaves a checkpoint only on a claimed task. *)
LEMMA StepCheckpointFence ==
  ASSUME Base, [Next]_vars
  PROVE  CheckpointFence'
<1> SUFFICES ASSUME NEW t \in Task, ~NoCheckpoint(t)'
             PROVE  row'[t].fence # 0
  BY Zenon DEF CheckpointFence
<1>1. row[t].fence # 0
  BY StepCkpts, Zenon DEF CkptStep, Base, CheckpointFence
<1>2. row[t].status # "absent"
  BY <1>1, Zenon DEF Base, TableOK, RowOK
<1>3. TableKeeps(row, row') \/ (\E u \in Task : InsertStep(u) \/ ClaimStep(u))
  BY StepKinds, Zenon DEF Base
<1>4. CASE TableKeeps(row, row')
  BY <1>1, <1>4, Zenon DEF TableKeeps, Keeps
<1>5. ASSUME NEW u \in Task, InsertStep(u)
      PROVE  row'[t].fence # 0
  BY <1>1, <1>2, <1>5, Zenon DEF InsertStep
<1>6. ASSUME NEW u \in Task, ClaimStep(u)
      PROVE  row'[t].fence # 0
  <2>1. CASE t = u
    <3>1. row'[t].fence \in Fence
      BY <1>6, <2>1, Zenon DEF ClaimStep
    <3> QED BY <3>1, SMTT(20) DEF Fence
  <2>2. CASE t # u
    BY <1>1, <1>6, <2>2, Zenon DEF ClaimStep, Keeps
  <2> QED BY <2>1, <2>2, Zenon
<1> QED BY <1>3, <1>4, <1>5, <1>6, Zenon

(* The empty ledger. *)
LEMMA InitBase == Init => Base
<1> SUFFICES ASSUME Init PROVE Base
  OBVIOUS
<1>1. TypeOK /\ ResumeFence
  BY InitLedgerInv, Zenon DEF LedgerInv
<1>2. row \in [Task -> Row] /\ \A t \in Task : row[t] = Absent
  BY <1>1, Zenon DEF Init, TypeOK
<1>3. /\ Absent.status = "absent" /\ Absent.parent = 0 /\ Absent.fence = 0 /\ Absent.open = {}
      /\ Absent.waiting = "none" /\ Absent.binding = "none"
  BY Zenon DEF Absent
<1>4. RowOK(Absent) /\ Fenced(Absent)
  BY <1>3, Zenon DEF RowOK, Fenced, Unresolved, Takable, Terminal
<1>5. Absent.status # "queued" /\ Absent.status # "running" /\ Absent.status \notin {"queued", "running"}
  BY <1>3, Zenon
<1>6. TableOK(row) /\ Checked(row)
  BY <1>2, <1>4, Zenon DEF TableOK, Checked
<1>7. Lineage /\ Guard(row) /\ Patient(row) /\ AttemptIsFence
  BY <1>2, <1>3, <1>5, Zenon DEF Lineage, Guard, Patient, AttemptIsFence, Kid
<1>8. \A t \in Task : NoCheckpoint(t)
  BY Zenon DEF Init, NoCheckpoint
<1>9. CheckpointFence
  BY <1>8, Zenon DEF CheckpointFence
<1>10. Resuming
  <2>1. resume.step # "claim" /\ resume.step # "bind" /\ ~(resume.step # "idle")
    BY Zenon DEF Init, NoResume
  <2> QED BY <2>1, Zenon DEF Resuming
<1> QED BY <1>1, <1>6, <1>7, <1>9, <1>10, Zenon DEF Base

(* Every step preserves the invariant. *)
LEMMA NextBase == Base /\ [Next]_vars => Base'
<1> SUFFICES ASSUME Base, [Next]_vars PROVE Base'
  OBVIOUS
<1>1. Good /\ CkptStep
  BY StepGood, StepCkpts, Zenon
<1>2. TypeOK' /\ ResumeFence'
  <2>1. TypeOK /\ ResumeFence
    BY Zenon DEF Base
  <2> QED BY <2>1, RowsTyped, AttemptsTyped, ResumeTyped, Zenon DEF TypeOK
<1>3. \A t \in Task : NoCheckpoint(t)' => NoCheckpoint(t)
  BY <1>1, Zenon DEF CkptStep
<1>4. TableOK(row)' /\ Patient(row)' /\ Checked(row') /\ Guard(row')
  BY <1>1, Zenon DEF Good, After, TableOK, Patient
<1>5. Checked(row)'
  BY <1>3, <1>4, Zenon DEF Checked
<1>6. Guard(row)'
  BY <1>3, <1>4, Zenon DEF Guard, Kid
<1>7. Resuming'
  <2>1. resume' \in [task : {0} \cup Task, from : Number, step : ResumeStep]
    BY <1>2, Zenon DEF TypeOK
  <2>2. ASSUME resume'.step # "idle"
        PROVE  resume'.task \in Task /\ ~NoCheckpoint(resume.task)'
    <3>1. resume'.task \in Task /\ ~NoCheckpoint(resume'.task)
      BY <1>1, <2>2, Zenon DEF Good, ResumingNext
    <3> QED BY <1>3, <3>1, Zenon DEF NoCheckpoint
  <2>3. resume'.step = "claim" => row'[resume'.task].binding \in Takable
    BY <1>1, Zenon DEF Good, ResumingNext
  <2>4. ASSUME resume'.step = "bind"
        PROVE  /\ row'[resume'.task].status = "running" /\ row'[resume'.task].binding \in Takable
               /\ \A c \in Task : NoCheckpoint(c)' /\ row'[c].parent = resume'.task => ~Kid(row, c)'
    BY <1>1, <1>3, <2>4, Zenon DEF Good, ResumingNext, Kid
  <2> QED BY <2>2, <2>3, <2>4, Zenon DEF Resuming
<1>8. Lineage' /\ AttemptIsFence' /\ CheckpointFence'
  BY <1>1, StepLineage, StepCheckpointFence, Zenon DEF Good
<1> QED BY <1>2, <1>4, <1>5, <1>6, <1>7, <1>8, Zenon DEF Base

(* The inductive invariant holds in every reachable state. *)
THEOREM BaseInvariant == Spec => []Base
BY InitBase, NextBase, PTL DEF Spec

-----------------------------------------------------------------------------
(* Success.                                                                 *)

(* The children of a completed attempt stay completed: a child is admitted  *)
(* to, or retried under, a running parent only.                             *)
LEMMA NextSucceeds ==
  ASSUME Base, Good, ParentSucceedsLast
  PROVE  ParentSucceedsLast'
<1> SUFFICES ASSUME NEW p \in Task, NEW c \in Task, row'[p].status = "completed",
                    row'[c].parent = p, row'[c].pattempt = row'[p].attempt
             PROVE  row'[c].status = "completed"
  BY Zenon DEF ParentSucceedsLast
<1>1. ASSUME row[c].parent = p, row[c].pattempt = row[p].attempt, row[p].status = "completed"
      PROVE  row[c].status = "completed"
  BY <1>1, Zenon DEF ParentSucceedsLast
<1>2. p # 0
  BY TaskAssumption, Zenon
<1>3. row[c].parent = p => p # c
  BY <1>2, ParentOf, Zenon
<1>4. ASSUME NEW u \in Task, Moves(row[u], row'[u])
      PROVE  /\ row'[u].parent = row[u].parent /\ row'[u].pattempt = row[u].pattempt
             /\ row'[u].status = "completed" =>
                  row[u].status = "completed" /\ row'[u].attempt = row[u].attempt
             /\ row[u].status = "completed" => row'[u].status = "completed"
  BY <1>4, Zenon DEF Moves
<1>5. ASSUME Moves(row[p], row'[p]), Moves(row[c], row'[c])
      PROVE  row'[c].status = "completed"
  BY <1>1, <1>4, <1>5, Zenon
<1>6. CASE TableCalm(row, row')
  BY <1>5, <1>6, Zenon DEF TableCalm, Calm
<1>7. ASSUME NEW t \in Task, MoveStep(t)
      PROVE  row'[c].status = "completed"
  BY <1>5, <1>7, Zenon DEF MoveStep, OthersCalm, Calm
<1>8. ASSUME NEW t \in Task, FinishStep(t)
      PROVE  row'[c].status = "completed"
  <2>1. row[c].parent = p /\ row[c].pattempt = row'[c].pattempt
    BY <1>4, <1>8, Zenon DEF FinishStep, OthersCalm, Calm
  <2>2. CASE p = t
    <3>1. c # t /\ row[c].pattempt = row[t].attempt /\ ChildrenCompleted(t, row[t].attempt)
      BY <1>3, <1>8, <2>1, <2>2, Zenon DEF FinishStep
    <3>2. row[c].status = "completed"
      BY <2>1, <2>2, <3>1, Zenon DEF ChildrenCompleted, ChildOfAttempt
    <3> QED BY <1>4, <1>8, <3>1, <3>2, Zenon DEF FinishStep, OthersCalm, Calm
  <2>3. CASE p # t
    <3>1. row[c].status = "completed"
      BY <1>1, <1>4, <1>8, <2>1, <2>3, Zenon DEF FinishStep, OthersCalm, Calm
    <3>2. c # t
      BY <1>8, <3>1, Zenon DEF FinishStep
    <3> QED BY <1>4, <1>8, <3>1, <3>2, Zenon DEF FinishStep, OthersCalm, Calm
  <2> QED BY <2>2, <2>3, Zenon
<1>9. ASSUME NEW t \in Task, AgainStep(t)
      PROVE  row'[c].status = "completed"
  <2>1. row[c].parent = p /\ row[c].pattempt = row'[c].pattempt
    BY <1>4, <1>9, Zenon DEF AgainStep, OthersCalm, Calm
  <2>2. p # t
    BY <1>9, Zenon DEF AgainStep
  <2>3. row[p].status = "completed" /\ row'[p].attempt = row[p].attempt
    BY <1>4, <1>9, <2>2, Zenon DEF AgainStep, OthersCalm, Calm
  <2>4. row[c].status = "completed"
    BY <1>1, <2>1, <2>3, Zenon
  <2>5. c # t
    <3>1. SUFFICES ASSUME c = t PROVE FALSE
      BY Zenon
    <3>2. row[p].status = "running"
      BY <1>2, <1>9, <2>1, <3>1, Zenon DEF AgainStep, RetryCapacity, ParentHolds
    <3> QED BY <2>3, <3>2, Zenon
  <2> QED BY <1>4, <1>9, <2>4, <2>5, Zenon DEF AgainStep, OthersCalm, Calm
<1>10. ASSUME NEW t \in Task, NewStep(t)
       PROVE  row'[c].status = "completed"
  <2>1. p # t
    BY <1>10, Zenon DEF NewStep
  <2>2. row'[p] = row[p]
    BY <1>10, <2>1, Zenon DEF NewStep
  <2>3. c # t
    <3>1. SUFFICES ASSUME c = t PROVE FALSE
      BY Zenon
    <3>2. row[p].status = "running"
      BY <1>2, <1>10, <3>1, Zenon DEF NewStep
    <3> QED BY <2>2, <3>2, Zenon
  <2> QED BY <1>1, <1>10, <2>2, <2>3, Zenon DEF NewStep
<1> QED BY <1>6, <1>7, <1>8, <1>9, <1>10, Zenon DEF Good, StepOf

(* ... with the invariant it rests on. *)
SuccessInv == Base /\ ParentSucceedsLast

(* It holds in every reachable state. *)
THEOREM SuccessInvariant == Spec => []SuccessInv
<1>1. Init => SuccessInv
  <2>1. Init => ParentSucceedsLast
    <3> SUFFICES ASSUME Init, NEW p \in Task
                 PROVE  row[p].status # "completed"
      BY Zenon DEF ParentSucceedsLast
    <3> QED BY Zenon DEF Init, Absent
  <2> QED BY <2>1, InitBase, Zenon DEF SuccessInv
<1>2. SuccessInv /\ [Next]_vars => SuccessInv'
  BY StepGood, NextBase, NextSucceeds, Zenon DEF SuccessInv
<1> QED BY <1>1, <1>2, PTL DEF Spec

-----------------------------------------------------------------------------
(* The properties.                                                          *)

(* A queued task that a worker may take has a binding a claim can take,     *)
(* whatever requeued it: a reap, a restart, a retry or a reset.             *)
THEOREM QueuedAreClaimable == Spec => []QueuedClaimable
<1>1. Base => QueuedClaimable
  BY Zenon DEF Base, TableOK, RowOK, Takable, QueuedClaimable
<1> QED BY <1>1, BaseInvariant, PTL

(* An external attempt that is not settled keeps its task from being        *)
(* claimed again, but through a checkpoint.                                 *)
THEOREM ExternalStaysFenced == Spec => []ExternalFenced
<1>1. Base => ExternalFenced
  BY Zenon DEF Base, Checked, Fenced, ExternalFenced
<1> QED BY <1>1, BaseInvariant, PTL

(* A continuation runs only once it was admitted, and one reported as       *)
(* waiting has a predecessor that did not complete.                         *)
THEOREM AdmissionsHonest == Spec => []AdmissionHonest
<1>1. Base => AdmissionHonest
  <2> SUFFICES ASSUME Base, NEW t \in Task
               PROVE  /\ row[t].req.preds # {} /\ row[t].fence > 0 => row[t].admitted
                      /\ row[t].status = "queued" /\ row[t].waiting = "dependency" =>
                           ~row[t].admitted /\ \E p \in row[t].req.preds : row[p].status # "completed"
    BY Zenon DEF AdmissionHonest
  <2>1. row[t].fence > 0 => row[t].fence # 0
    BY SMTT(20)
  <2> QED BY <2>1, Zenon DEF Base, TableOK, RowOK, Patient
<1> QED BY <1>1, BaseInvariant, PTL

(* A completed parent has only completed children of its attempt, for ever. *)
THEOREM ParentsSucceedLast == Spec => []ParentSucceedsLast
<1>1. SuccessInv => ParentSucceedsLast
  BY Zenon DEF SuccessInv
<1> QED BY <1>1, SuccessInvariant, PTL

(* A settled attempt is never reopened, and a task completes or fails only  *)
(* in the step that settles its newest attempt, one of this session.        *)
THEOREM OnlyNewestSettles == Spec => SettleStep
<1> DEFINE Step ==
      \A t \in Task :
        /\ row'[t].open \subseteq row[t].open \cup {row'[t].fence}
        /\ row[t].status # row'[t].status /\ row'[t].status \in {"completed", "failed"} =>
             /\ row[t].fence \in row[t].open \ row'[t].open
             /\ att[t][row[t].fence].epoch = epoch
<1>1. Base /\ [Next]_vars => [Step]_vars
  <2> SUFFICES ASSUME Base, [Next]_vars, NEW u \in Task
               PROVE  /\ row'[u].open \subseteq row[u].open \cup {row'[u].fence}
                      /\ row[u].status # row'[u].status /\ row'[u].status \in {"completed", "failed"} =>
                           /\ row[u].fence \in row[u].open \ row'[u].open
                           /\ att[u][row[u].fence].epoch = epoch
    BY Zenon
  <2>1. Good
    BY StepGood, Zenon
  <2>2. CASE Moves(row[u], row'[u])
    BY <2>2, Zenon DEF Moves
  <2>3. CASE TableCalm(row, row')
    BY <2>2, <2>3, Zenon DEF TableCalm, Calm
  <2>4. ASSUME NEW t \in Task, OthersCalm(t), u # t
        PROVE  Moves(row[u], row'[u])
    BY <2>4, Zenon DEF OthersCalm, Calm
  <2>5. ASSUME NEW t \in Task, MoveStep(t)
        PROVE  Moves(row[u], row'[u])
    BY <2>4, <2>5, Zenon DEF MoveStep
  <2>6. ASSUME FinishStep(u)
        PROVE  /\ row'[u].open \subseteq row[u].open
               /\ row[u].fence \in row[u].open \ row'[u].open
               /\ att[u][row[u].fence].epoch = epoch
    BY <2>6, Zenon DEF FinishStep
  <2>7. ASSUME AgainStep(u)
        PROVE  row'[u].open \subseteq row[u].open /\ row'[u].status \notin {"completed", "failed"}
    BY <2>7, Zenon DEF AgainStep
  <2>8. ASSUME NewStep(u)
        PROVE  row'[u].open \subseteq row[u].open /\ row'[u].status \notin {"completed", "failed"}
    BY <2>8, Zenon DEF NewStep
  <2>9. ASSUME NEW t \in Task, NewStep(t), u # t
        PROVE  row'[u] = row[u]
    BY <2>9, Zenon DEF NewStep
  <2>10. ASSUME NEW t \in Task, StepOf(t)
         PROVE  \/ Moves(row[u], row'[u]) \/ row'[u] = row[u]
                \/ FinishStep(u) \/ AgainStep(u) \/ NewStep(u)
    <3>1. CASE u = t
      BY <2>5, <2>10, <3>1, Zenon DEF StepOf
    <3>2. CASE u # t
      BY <2>4, <2>9, <2>10, <3>2, Zenon DEF StepOf, MoveStep, FinishStep, AgainStep
    <3> QED BY <3>1, <3>2, Zenon
  <2>11. CASE row'[u] = row[u]
    BY <2>11, Zenon
  <2> QED BY <2>1, <2>2, <2>3, <2>6, <2>7, <2>8, <2>10, <2>11, Zenon DEF Good
<1> QED BY <1>1, BaseInvariant, PTL DEF Spec, SettleStep

-----------------------------------------------------------------------------
(* The children of an attempt that count against its active limit.          *)

INSTANCE FiniteSetTheorems

ActiveSet(p, n) ==
  {c \in Task : /\ ChildOfAttempt(row, c, p, n)
                /\ row[c].status \notin Terminal \/ row[c].waiting = "unknown"}
Bounded ==
  \A p \in Task, n \in Fence :
    IsFiniteSet(ActiveSet(p, n)) /\ Cardinality(ActiveSet(p, n)) <= MaxActive

(* A child becomes active only where there is room for it. *)
LEMMA ActiveGrows ==
  ASSUME Base, Good, NEW p \in Task, NEW n \in Fence
  PROVE  \/ ActiveSet(p, n)' \subseteq ActiveSet(p, n)
         \/ \E t \in Task : /\ ActiveSet(p, n)' \subseteq ActiveSet(p, n) \cup {t}
                            /\ Active(p, n) < MaxActive
<1>1. n # 0 /\ p # 0
  BY TaskAssumption, SMTT(20) DEF Fence
<1>2. \A c \in Task : RowOK(row'[c])
  BY Zenon DEF Good, After, TableOK
<1>3. \A c \in Task : c \in ActiveSet(p, n)' =>
        row'[c].parent = p /\ row'[c].pattempt = n /\ row'[c].status \notin Terminal
  <2> SUFFICES ASSUME NEW c \in Task, c \in ActiveSet(p, n)'
               PROVE  row'[c].parent = p /\ row'[c].pattempt = n /\ row'[c].status \notin Terminal
    BY Zenon
  <2>1. /\ row'[c].parent = p /\ row'[c].pattempt = n
        /\ row'[c].status \notin Terminal \/ row'[c].waiting = "unknown"
    BY <1>1, Zenon DEF ActiveSet, ChildOfAttempt
  <2>2. row'[c].waiting = "unknown" => row'[c].waiting # "none"
    BY Zenon
  <2> QED BY <1>2, <2>1, <2>2, Zenon DEF RowOK
<1>4. \A c \in Task : row[c].parent = p /\ row[c].pattempt = n /\ row[c].status \notin Terminal =>
        c \in ActiveSet(p, n)
  BY Zenon DEF ActiveSet, ChildOfAttempt
<1>5. \A c \in ActiveSet(p, n)' : c \in Task
  BY Zenon DEF ActiveSet
<1>6. ASSUME NEW c \in Task, c \in ActiveSet(p, n)', Moves(row[c], row'[c])
      PROVE  c \in ActiveSet(p, n)
  BY <1>3, <1>4, <1>6, Zenon DEF Moves
<1>7. CASE TableCalm(row, row')
  BY <1>5, <1>6, <1>7, Zenon DEF TableCalm, Calm
<1>8. ASSUME NEW t \in Task, StepOf(t)
      PROVE  \/ ActiveSet(p, n)' \subseteq ActiveSet(p, n)
             \/ /\ ActiveSet(p, n)' \subseteq ActiveSet(p, n) \cup {t}
                /\ Active(p, n) < MaxActive
  <2>1. ASSUME NEW c \in Task, c # t, c \in ActiveSet(p, n)'
        PROVE  c \in ActiveSet(p, n)
    <3>1. CASE NewStep(t)
      <4>1. row'[c] = row[c]
        BY <2>1, <3>1, Zenon DEF NewStep
      <4> QED BY <1>3, <1>4, <2>1, <4>1, Zenon
    <3>2. CASE OthersCalm(t)
      BY <1>6, <2>1, <3>2, Zenon DEF OthersCalm, Calm
    <3> QED BY <1>8, <3>1, <3>2, Zenon DEF StepOf, MoveStep, FinishStep, AgainStep
  <2>2. ActiveSet(p, n)' \subseteq ActiveSet(p, n) \cup {t}
    BY <1>5, <2>1, Zenon
  <2>3. CASE t \notin ActiveSet(p, n)'
    BY <1>5, <2>1, <2>3, Zenon
  <2>4. CASE t \in ActiveSet(p, n)'
    <3>1. row'[t].parent = p /\ row'[t].pattempt = n /\ row'[t].status \notin Terminal
      BY <1>3, <2>4, Zenon
    <3>2. CASE MoveStep(t)
      BY <1>5, <1>6, <2>1, <2>4, <3>2, ZenonT(30) DEF MoveStep
    <3>3. ~FinishStep(t)
      BY <3>1, Zenon DEF FinishStep, Terminal
    <3>4. CASE AgainStep(t)
      BY <1>1, <2>2, <3>1, <3>4, Zenon DEF AgainStep, RetryCapacity
    <3>5. CASE NewStep(t)
      BY <1>1, <2>2, <3>1, <3>5, Zenon DEF NewStep
    <3> QED BY <1>8, <3>2, <3>3, <3>4, <3>5, Zenon DEF StepOf
  <2> QED BY <2>3, <2>4, Zenon
<1> QED BY <1>7, <1>8, Zenon DEF Good

(* The limit holds of the empty ledger and is kept by every step. *)
LEMMA InitBounded == Init => Bounded
<1> SUFFICES ASSUME Init, NEW p \in Task, NEW n \in Fence
             PROVE  IsFiniteSet(ActiveSet(p, n)) /\ Cardinality(ActiveSet(p, n)) <= MaxActive
  BY Zenon DEF Bounded
<1>1. \A c \in Task : row[c].parent = 0
  BY Zenon DEF Init, Absent
<1>2. p # 0
  BY TaskAssumption, Zenon
<1>3. ActiveSet(p, n) = {}
  BY <1>1, <1>2, Zenon DEF ActiveSet, ChildOfAttempt
<1>4. IsFiniteSet({}) /\ Cardinality({}) = 0
  BY FS_EmptySet, Zenon
<1> QED BY <1>3, <1>4, BoundAssumption, SMTT(20)

(* A step adds at most one active child, and only below the limit. *)
LEMMA NextBounded ==
  ASSUME Base, Good, Bounded
  PROVE  Bounded'
<1> SUFFICES ASSUME NEW p \in Task, NEW n \in Fence
             PROVE  IsFiniteSet(ActiveSet(p, n)') /\ Cardinality(ActiveSet(p, n)') <= MaxActive
  BY Zenon DEF Bounded
<1> DEFINE A == ActiveSet(p, n)
           B == ActiveSet(p, n)'
<1>1. IsFiniteSet(A) /\ Cardinality(A) <= MaxActive /\ Cardinality(A) \in Nat
  BY FS_CardinalityType, Zenon DEF Bounded
<1>2. Active(p, n) = Cardinality(A)
  BY Zenon DEF Active, ActiveSet
<1>3. B \subseteq A \/ \E t \in Task : B \subseteq A \cup {t} /\ Cardinality(A) < MaxActive
  BY <1>2, ActiveGrows, Zenon
<1> HIDE DEF A, B
<1>4. ASSUME NEW S, IsFiniteSet(S), B \subseteq S, Cardinality(S) <= MaxActive
      PROVE  IsFiniteSet(B) /\ Cardinality(B) <= MaxActive
  <2>1. IsFiniteSet(B) /\ Cardinality(B) <= Cardinality(S)
    BY <1>4, FS_Subset, Zenon
  <2>2. Cardinality(B) \in Nat /\ Cardinality(S) \in Nat
    BY <1>4, <2>1, FS_CardinalityType, Zenon
  <2> QED BY <1>4, <2>1, <2>2, BoundAssumption, SMTT(20)
<1>5. CASE B \subseteq A
  BY <1>1, <1>4, <1>5, Zenon DEF B
<1>6. ASSUME NEW t \in Task, B \subseteq A \cup {t}, Cardinality(A) < MaxActive
      PROVE  IsFiniteSet(B) /\ Cardinality(B) <= MaxActive
  <2>1. /\ IsFiniteSet(A \cup {t})
        /\ Cardinality(A \cup {t}) = Cardinality(A) \/ Cardinality(A \cup {t}) = Cardinality(A) + 1
    BY <1>1, FS_AddElement, Zenon
  <2>2. Cardinality(A \cup {t}) <= MaxActive
    BY <1>1, <1>6, <2>1, BoundAssumption, SMTT(20)
  <2> QED BY <1>4, <1>6, <2>1, <2>2, Zenon
<1> QED BY <1>3, <1>5, <1>6, Zenon DEF B

(* The limit, with the invariant it rests on. *)
FamilyInv == Base /\ Bounded

(* It holds in every reachable state. *)
THEOREM FamilyInvariant == Spec => []FamilyInv
<1>1. Init => FamilyInv
  BY InitBase, InitBounded, Zenon DEF FamilyInv
<1>2. FamilyInv /\ [Next]_vars => FamilyInv'
  BY StepGood, NextBase, NextBounded, Zenon DEF FamilyInv
<1> QED BY <1>1, <1>2, PTL DEF Spec

(* A child is queued or running only while its parent runs the attempt that *)
(* admitted it, unless the child has a checkpoint, and the active children  *)
(* of an attempt stay within the policy's limit.                            *)
THEOREM FamiliesContained == Spec => []ChildrenContained
<1>1. FamilyInv => ChildrenContained
  <2> SUFFICES ASSUME FamilyInv PROVE ChildrenContained
    OBVIOUS
  <2>1. \A p \in Task, n \in Fence : Active(p, n) <= MaxActive
    BY Zenon DEF FamilyInv, Bounded, Active, ActiveSet
  <2> QED BY <2>1, Zenon DEF FamilyInv, Base, Guard, Kid, ChildrenContained
<1> QED BY <1>1, FamilyInvariant, PTL
=============================================================================
