------------------------------ MODULE Launcher ------------------------------
(***************************************************************************)
(* The operator's side of a realm: astrid_runtime/bootstrap.py (up, down,  *)
(* restart), operator_upgrade.py, relocation.py and runtime_boundary.py.   *)
(* Each command is a process of its own.  Commands are serialised by a     *)
(* file lock in the support tree, find the Runtime through the discovery   *)
(* record and the instance marker in that tree, and stop or start it.      *)
(*                                                                         *)
(* relocate renames the support tree from the path "old" to the path "new",*)
(* and back when it fails.  A command that opens the lock at the path the  *)
(* tree has left makes a new, empty tree there: a stub.                    *)
(***************************************************************************)
EXTENDS RealmUpgrade

CONSTANTS
  Launchers,    \* the commands an operator issues
  MaxRuntimes,  \* bound: Runtime processes ever started
  MaxCuts       \* bound: processes that end without running their cleanup

(* No command is mistaken for "none". *)
ASSUME LauncherAssumption == 0 \notin Launchers

ASSUME BoundsAssumption ==
  /\ MaxRuntimes \in Nat \ {0}
  /\ MaxCuts \in Nat

VARIABLES
  tree,      \* the path of the support tree
  stubs,     \* the paths at which there is an empty tree
  mutex,     \* who holds bootstrap.lock of the tree and of each stub
  catalog,   \* the path of the realm root the catalog names
  disc,      \* discovery.json: a Runtime instance, 0 when absent
  mark,      \* instance.lock: a Runtime instance, 0 when absent
  proc,      \* the Runtime processes
  home,      \* the path of the realm root each was started on
  work,      \* does the realm hold running or unreconciled work?
  fence,     \* the command that holds SQLite's write lock, 0 when none
  journal,   \* upgrade-journal.json: the command and its state
  run,       \* the commands
  cuts,      \* how many processes were cut short
  orphan     \* history: a command left a Runtime it had started

support == <<tree, stubs, catalog, disc, mark>>
vars == <<db, wal, version, archive, kept, job, lock, committed, tree, stubs, mutex,
          catalog, disc, mark, proc, home, work, fence, journal, run, cuts, orphan>>

Runtimes == 1..MaxRuntimes
Ops == {"up", "down", "restart", "upgrade", "relocate"}
Live == {"starting", "serving", "draining"}
NoRun == [op |-> "none", pc |-> "idle", path |-> "old", ino |-> "none",
          seen |-> 0, cand |-> 0, then |-> "end", flags |-> {}]

At(l, p) == run[l].pc = p
Goto(l, p) == run' = [run EXCEPT ![l].pc = p]
Alive(n) == n # 0 /\ proc[n] \in Live

(* Which tree a path leads to. *)
Found(p) ==
  IF p = tree THEN "tree"
  ELSE IF p \in stubs THEN "stub" ELSE "absent"

(* The catalog is there and the root it names exists. *)
Selected(p) == Found(p) = "tree" /\ catalog = tree

(* validate_owner, _lock_matches and endpoint_metadata: discovery and      *)
(* marker name one live process that answers for the selected realm root.  *)
Owner(p) == Selected(p) /\ disc # 0 /\ mark = disc
            /\ proc[disc] = "serving" /\ home[disc] = catalog

Init ==
  /\ version \in Versions
  /\ db = [of |-> "source", rows |-> {"base"}]
  /\ wal = Nothing
  /\ archive = NoArchive /\ kept = {} /\ job = NoJob
  /\ lock = 1
  /\ committed = {"base"}
  /\ tree = "old" /\ stubs = {} /\ catalog = "old"
  /\ mutex = [i \in {"tree", "old", "new"} |-> 0]
  /\ disc = 1 /\ mark = 1
  /\ proc = [n \in Runtimes |-> IF n = 1 THEN "serving" ELSE "unborn"]
  /\ home = [n \in Runtimes |-> "old"]
  /\ work = FALSE /\ fence = 0
  /\ journal = [by |-> 0, state |-> "none"]
  /\ run = [l \in Launchers |-> NoRun]
  /\ cuts = 0 /\ orphan = FALSE

(***************************************************************************)
(* The Runtime, as far as a launcher sees it.                              *)
(***************************************************************************)

(* Admission takes owner.lock without waiting and refuses an older schema;  *)
(* then the marker and the discovery record are written.                   *)
Admit(n) ==
  /\ proc[n] = "starting"
  /\ \/ /\ Unowned /\ version = "current" /\ home[n] = tree
        /\ lock' = n /\ mark' = n /\ disc' = n
        /\ proc' = [proc EXCEPT ![n] = "serving"]
     \/ /\ proc' = [proc EXCEPT ![n] = "dead"]
        /\ UNCHANGED <<lock, mark, disc>>
  /\ UNCHANGED <<maintenance, committed, tree, stubs, mutex, catalog, home, work, fence, journal, run, cuts, orphan>>

(* A claim, or its settlement, or recovery: a write transaction. *)
Serve(n) ==
  /\ proc[n] = "serving" /\ fence = 0
  /\ work' = ~work
  /\ wal' = [of |-> db.of, rows |-> {"tail"}]
  /\ committed' = committed \cup {"tail"}
  /\ UNCHANGED <<db, version, archive, kept, job, lock, support, mutex, proc, home, fence, journal, run, cuts, orphan>>

(* RuntimeDaemon.stop clears its own discovery record; closing the store   *)
(* merges the log.                                                         *)
Exit(n) ==
  /\ proc[n] = "draining"
  /\ proc' = [proc EXCEPT ![n] = "dead"]
  /\ lock' = 0
  /\ disc' = IF disc = n /\ home[n] = tree THEN 0 ELSE disc
  /\ Merge
  /\ UNCHANGED <<version, archive, kept, job, committed, tree, stubs, mutex, catalog, mark, home, work, fence, journal, run, cuts, orphan>>

(* The process dies: its files stay, its lock does not. *)
Killed(n) ==
  /\ proc' = [proc EXCEPT ![n] = "dead"]
  /\ lock' = IF lock = n THEN 0 ELSE lock

Die(n) ==
  /\ Alive(n)
  /\ cuts < MaxCuts /\ cuts' = cuts + 1
  /\ Killed(n)
  /\ UNCHANGED <<maintenance, committed, support, mutex, home, work, fence, journal, run, orphan>>

(***************************************************************************)
(* A command's start, the launcher mutex, and its end.                     *)
(***************************************************************************)

(* _validate_move: a stub at the destination has entries of the tree's names. *)
ValidMove == "new" \notin stubs

(* The checks each command makes before it takes the mutex.                *)
Begin(l, op, p) ==
  /\ At(l, "idle")
  /\ p = "new" => tree = "new"
  /\ op = "up" => Found(p) = "tree"
  /\ op = "relocate" => p = "old" /\ Found(p) = "tree" /\ disc # 0 /\ ValidMove
  /\ op = "upgrade" =>
       /\ Found(p) = "tree"
       /\ journal.state \in {"none", "complete", "failed", "recovery_required"}
       /\ ~work
  /\ run' = [run EXCEPT ![l] = [NoRun EXCEPT !.op = op, !.path = p,
                                  !.pc = IF op = "upgrade" THEN "u_plan" ELSE "open"]]
  /\ UNCHANGED <<maintenance, lock, committed, support, mutex, proc, home, work, fence, journal, cuts, orphan>>

(* _bootstrap_mutex: the directory is made when it is missing ... *)
OpenMutex(l) ==
  /\ At(l, "open")
  /\ stubs' = IF Found(run[l].path) = "absent" THEN stubs \cup {run[l].path} ELSE stubs
  /\ run' = [run EXCEPT ![l] = [@ EXCEPT !.pc = "lock",
                                  !.ino = IF Found(run[l].path) = "tree" THEN "tree" ELSE run[l].path]]
  /\ UNCHANGED <<maintenance, lock, committed, tree, catalog, disc, mark, mutex, proc, home, work, fence, journal, cuts, orphan>>

First(l) ==
  IF run[l].op = "up" \/ run[l].then = "recovered" THEN "b_read"
  ELSE IF run[l].op = "upgrade" THEN "u_owner" ELSE "s_check"

(* ... and the lock of the file that was opened is waited for. *)
TakeMutex(l) ==
  /\ At(l, "lock")
  /\ mutex[run[l].ino] = 0
  /\ mutex' = [mutex EXCEPT ![run[l].ino] = l]
  /\ Goto(l, First(l))
  /\ UNCHANGED <<maintenance, lock, committed, support, proc, home, work, fence, journal, cuts, orphan>>

Released(l) == [i \in DOMAIN mutex |-> IF mutex[i] = l THEN 0 ELSE mutex[i]]

Leave(l) ==
  /\ At(l, "leave")
  /\ mutex' = Released(l)
  /\ run' = [run EXCEPT ![l] = [NoRun EXCEPT !.pc = "done"]]
  /\ UNCHANGED <<maintenance, lock, committed, support, proc, home, work, fence, journal, cuts, orphan>>

(***************************************************************************)
(* Stopping the owner: _interrupt_owner_locked of down and restart, the    *)
(* same in upgrade, and without the work fence in relocate.                *)
(***************************************************************************)

Fenced(l) == run[l].op # "relocate"
Undoing(l) == run[l].op = "relocate" /\ "moved" \in run[l].flags

(* Where a command goes on once the owner is stopped, or cannot be. *)
AfterStop(l) ==
  IF Undoing(l) THEN "r_rename"
  ELSE [down |-> "leave", restart |-> "b_read", upgrade |-> "u_stopped", relocate |-> "r_move"][run[l].op]

StopFailed(l) == IF run[l].op = "upgrade" THEN "u_abort" ELSE "leave"

(* The owner the records name is the one that will be signalled; relocate  *)
(* checks its destination once more.                                       *)
StopCheck(l) ==
  /\ At(l, "s_check")
  /\ run' = [run EXCEPT ![l] =
       IF Owner(@.path) /\ (run[l].op = "relocate" /\ ~Undoing(l) => ValidMove)
       THEN [@ EXCEPT !.seen = disc, !.pc = IF Fenced(l) THEN "s_idle" ELSE "s_signal"]
       ELSE [@ EXCEPT !.pc = StopFailed(l)]]
  /\ UNCHANGED <<maintenance, lock, committed, support, mutex, proc, home, work, fence, journal, cuts, orphan>>

(* assert_interruption_safe: refuse without a side effect. *)
StopIdle(l) ==
  /\ At(l, "s_idle")
  /\ Goto(l, IF work THEN StopFailed(l) ELSE "s_fence")
  /\ UNCHANGED <<maintenance, lock, committed, support, mutex, proc, home, work, fence, journal, cuts, orphan>>

(* Mutant: the report made before the transaction is trusted. *)
StopFenceTrusting(l) ==
  /\ At(l, "s_fence")
  /\ fence = 0
  /\ fence' = l
  /\ Goto(l, "s_signal")
  /\ UNCHANGED <<maintenance, lock, committed, support, mutex, proc, home, work, journal, cuts, orphan>>

(* interruption_fence: BEGIN IMMEDIATE, and the report again. *)
StopFence(l) ==
  /\ At(l, "s_fence")
  /\ fence = 0
  /\ fence' = IF work THEN 0 ELSE l
  /\ Goto(l, IF work THEN StopFailed(l) ELSE "s_signal")
  /\ UNCHANGED <<maintenance, lock, committed, support, mutex, proc, home, work, journal, cuts, orphan>>

Unfenced(l) == IF fence = l THEN 0 ELSE fence

(* restart(start_after_stop=False): every identity is read again, then TERM. *)
Signal(l) ==
  /\ At(l, "s_signal")
  /\ LET ok == Owner(run[l].path) /\ disc = run[l].seen IN
     /\ proc' = IF ok THEN [proc EXCEPT ![disc] = "draining"] ELSE proc
     /\ Goto(l, IF ok THEN "s_wait" ELSE StopFailed(l))
     /\ fence' = IF ok THEN fence ELSE Unfenced(l)
  /\ UNCHANGED <<maintenance, lock, committed, support, mutex, home, work, journal, cuts, orphan>>

(* After the grace the same incarnation is killed, unless discovery or     *)
(* marker name another one.                                                *)
Escalate(l) ==
  /\ At(l, "s_wait")
  /\ proc[run[l].seen] = "draining"
  /\ disc \in {0, run[l].seen} /\ mark \in {0, run[l].seen}
  /\ Killed(run[l].seen)
  /\ UNCHANGED <<maintenance, committed, support, mutex, home, work, fence, journal, run, cuts, orphan>>

(* Mutant: the end of the wait passes for the end of the process. *)
StopUncertainAssumed(l) ==
  /\ At(l, "s_wait")
  /\ Alive(run[l].seen)
  /\ fence' = Unfenced(l)
  /\ run' = [run EXCEPT ![l].pc = "s_clear"]
  /\ UNCHANGED <<maintenance, lock, committed, support, mutex, proc, home, work, journal, cuts, orphan>>

(* "cleanup remains uncertain after bounded wait" *)
StopUncertain(l) ==
  /\ At(l, "s_wait")
  /\ Alive(run[l].seen)
  /\ fence' = Unfenced(l)
  /\ Goto(l, StopFailed(l))
  /\ UNCHANGED <<maintenance, lock, committed, support, mutex, proc, home, work, journal, cuts, orphan>>

StopSeen(l) ==
  /\ At(l, "s_wait")
  /\ ~Alive(run[l].seen)
  /\ fence' = Unfenced(l)
  /\ Goto(l, "s_clear")
  /\ UNCHANGED <<maintenance, lock, committed, support, mutex, proc, home, work, journal, cuts, orphan>>

(* down and restart remove the records only if they still name the stopped *)
(* owner; upgrade and relocate remove them; an undone relocation does not. *)
StopClear(l) ==
  /\ At(l, "s_clear")
  /\ LET same == disc \in {0, run[l].seen} /\ mark \in {0, run[l].seen}
         clear == ~Undoing(l) /\ (same \/ run[l].op \in {"upgrade", "relocate"})
     IN /\ disc' = IF clear THEN 0 ELSE disc
        /\ mark' = IF clear THEN 0 ELSE mark
        /\ run' = [run EXCEPT ![l] = [@ EXCEPT
             !.pc = IF clear \/ Undoing(l) THEN AfterStop(l) ELSE StopFailed(l),
             !.seen = 0, !.flags = run[l].flags \cup {"stopped"}]]
  /\ UNCHANGED <<maintenance, lock, committed, tree, stubs, catalog, mutex, proc, home, work, fence, journal, cuts, orphan>>

(***************************************************************************)
(* _bootstrap_locked: reconnect to the owner or start one.                 *)
(***************************************************************************)

BootDone(l) ==
  [end |-> "leave", verify |-> "u_verify", relocated |-> "leave",
   rolledback |-> "leave", recovered |-> "u_failed"][run[l].then]

BootFailed(l) ==
  [end |-> "leave", verify |-> "u_abort", relocated |-> "r_undo",
   rolledback |-> "leave", recovered |-> "u_failed"][run[l].then]

Started(l) == run' = [run EXCEPT ![l] = [@ EXCEPT !.pc = BootDone(l), !.cand = 0,
                                           !.flags = run[l].flags \cup {"restarted"}]]

(* A live owner is reconnected to or refused; a dead one's advertisement   *)
(* is about to be removed; without one the marker decides.                 *)
BootRead(l) ==
  /\ At(l, "b_read")
  /\ LET p == run[l].path IN
     \/ Found(p) # "tree" /\ Goto(l, BootFailed(l))
     \/ /\ Found(p) = "tree" /\ Alive(disc)
        /\ IF Owner(p) THEN Started(l) ELSE Goto(l, BootFailed(l))
     \/ /\ Found(p) = "tree" /\ ~Alive(disc)
        /\ Goto(l, IF disc = 0 THEN "b_marker" ELSE "b_clear")
  /\ UNCHANGED <<maintenance, lock, committed, support, mutex, proc, home, work, fence, journal, cuts, orphan>>

BootClear(l) ==
  /\ At(l, "b_clear")
  /\ disc' = 0
  /\ Goto(l, "b_marker")
  /\ UNCHANGED <<maintenance, lock, committed, tree, stubs, catalog, mark, mutex, proc, home, work, fence, journal, cuts, orphan>>

(* "Never start a second owner while the durable instance lock still       *)
(* points at a live process."  Otherwise boundary.start spawns one.        *)
BootSpawn(l) ==
  /\ At(l, "b_marker")
  /\ LET p == run[l].path IN
     \/ /\ Alive(mark) \/ ~Selected(p)
        /\ Goto(l, BootFailed(l))
        /\ UNCHANGED <<proc, home>>
     \/ \E n \in Runtimes :
          /\ ~Alive(mark) /\ Selected(p)
          /\ proc[n] = "unborn" /\ \A m \in 1..(n - 1) : proc[m] # "unborn"
          /\ proc' = [proc EXCEPT ![n] = "starting"]
          /\ home' = [home EXCEPT ![n] = p]
          /\ run' = [run EXCEPT ![l] = [@ EXCEPT !.pc = "b_wait", !.cand = n]]
  /\ UNCHANGED <<maintenance, lock, committed, support, mutex, work, fence, journal, cuts, orphan>>

(* _wait_endpoint: only the candidate's own advertisement counts. *)
BootReady(l) ==
  /\ At(l, "b_wait")
  /\ disc = run[l].cand /\ proc[disc] = "serving"
  /\ Goto(l, "b_commit")
  /\ UNCHANGED <<maintenance, lock, committed, support, mutex, proc, home, work, fence, journal, cuts, orphan>>

(* The marker, the credential, the catalog and the discovery record are    *)
(* written once more, and the custody of the new owner is released.        *)
BootCommit(l) ==
  /\ At(l, "b_commit")
  /\ proc[run[l].cand] = "serving"
  /\ mark' = run[l].cand /\ disc' = run[l].cand
  /\ Started(l)
  /\ UNCHANGED <<maintenance, lock, committed, tree, stubs, catalog, mutex, proc, home, work, fence, journal, cuts, orphan>>

(* The candidate ended, did not answer in time, or a write after it failed: *)
(* _rollback_failed_bootstrap stops it ...                                  *)
BootUndo(l) ==
  /\ run[l].pc \in {"b_wait", "b_commit"}
  /\ IF Alive(run[l].cand) THEN Killed(run[l].cand) ELSE UNCHANGED <<proc, lock>>
  /\ Goto(l, "b_undo")
  /\ UNCHANGED <<maintenance, committed, support, mutex, home, work, fence, journal, cuts, orphan>>

(* ... and, while it cannot be shown to have ended, keeps every file. *)
BootUncertain(l) ==
  /\ run[l].pc \in {"b_wait", "b_commit"}
  /\ Alive(run[l].cand)
  /\ orphan' = TRUE
  /\ Goto(l, BootFailed(l))
  /\ UNCHANGED <<maintenance, lock, committed, support, mutex, proc, home, work, fence, journal, cuts>>

(* Only what names the candidate is removed. *)
BootRemove(l) ==
  /\ At(l, "b_undo")
  /\ disc' = IF disc = run[l].cand THEN 0 ELSE disc
  /\ mark' = IF mark = run[l].cand THEN 0 ELSE mark
  /\ run' = [run EXCEPT ![l] = [@ EXCEPT !.pc = BootFailed(l), !.cand = 0]]
  /\ UNCHANGED <<maintenance, lock, committed, tree, stubs, catalog, mutex, proc, home, work, fence, journal, cuts, orphan>>

(***************************************************************************)
(* upgrade_workspace.                                                      *)
(***************************************************************************)

(* A journal whose support tree is gone is not written. *)
Journal(l, st) ==
  journal' = IF Found(run[l].path) = "tree" THEN [by |-> l, state |-> st] ELSE journal

UpgradePlan(l) ==
  /\ At(l, "u_plan")
  /\ Journal(l, "planned")
  /\ Goto(l, "open")
  /\ UNCHANGED <<maintenance, lock, committed, support, mutex, proc, home, work, fence, cuts, orphan>>

(* _owner_record: no owner, the owner of the records, or a refusal. *)
UpgradeOwner(l) ==
  /\ At(l, "u_owner")
  /\ LET p == run[l].path IN
     \/ disc = 0 /\ ~Alive(mark) /\ Selected(p) /\ Goto(l, "u_stopped") /\ UNCHANGED journal
     \/ Owner(p) /\ Journal(l, "stopping") /\ Goto(l, "s_check")
     \/ /\ ~Owner(p) /\ ~(disc = 0 /\ ~Alive(mark) /\ Selected(p))
        /\ Goto(l, "u_abort") /\ UNCHANGED journal
  /\ UNCHANGED <<maintenance, lock, committed, support, mutex, proc, home, work, fence, cuts, orphan>>

(* The maintenance begins, unless the schema is current already. *)
UpgradeStart(l) ==
  /\ At(l, "u_stopped")
  /\ Journal(l, "stopped")
  /\ \/ /\ version = "current"
        /\ Goto(l, "u_activated") /\ UNCHANGED job
     \/ /\ version # "current"
        /\ OwnerFence(IF version = "v23" THEN "upgrade" ELSE "migrate", l)
        /\ Goto(l, "u_migrate")
     \/ /\ version # "current" /\ ~Unowned
        /\ Goto(l, "u_abort") /\ UNCHANGED job
  /\ UNCHANGED <<db, wal, version, archive, kept, lock, committed, support, mutex, proc, home, work, fence, cuts, orphan>>

UpgradeMigrated(l) ==
  /\ At(l, "u_migrate")
  /\ job.by = l /\ job.pc \in {"ok", "failed"}
  /\ Goto(l, IF job.pc = "ok" THEN "u_activated" ELSE "u_abort")
  /\ job' = NoJob
  /\ UNCHANGED <<db, wal, version, archive, kept, lock, committed, support, mutex, proc, home, work, fence, journal, cuts, orphan>>

UpgradeActivated(l) ==
  /\ At(l, "u_activated")
  /\ Journal(l, "activated")
  /\ run' = [run EXCEPT ![l] = [@ EXCEPT !.pc = "b_read", !.then = "verify", !.flags = run[l].flags \cup {"activated"}]]
  /\ UNCHANGED <<maintenance, lock, committed, support, mutex, proc, home, work, fence, cuts, orphan>>

(* _verify_running; then the mutex is released and the journal completed. *)
UpgradeVerify(l) ==
  /\ At(l, "u_verify")
  /\ IF disc # 0 /\ proc[disc] = "serving"
     THEN Journal(l, "complete") /\ Goto(l, "leave")
     ELSE UNCHANGED journal /\ Goto(l, "u_abort")
  /\ UNCHANGED <<maintenance, lock, committed, support, mutex, proc, home, work, fence, cuts, orphan>>

(* An exception leaves the mutex; a stopped owner whose realm was not      *)
(* activated is started again under the mutex.                             *)
UpgradeAbort(l) ==
  /\ At(l, "u_abort")
  /\ mutex' = Released(l)
  /\ run' = [run EXCEPT ![l] =
       IF "stopped" \in @.flags /\ "activated" \notin @.flags
       THEN [@ EXCEPT !.pc = "open", !.then = "recovered"]
       ELSE [@ EXCEPT !.pc = "u_failed"]]
  /\ UNCHANGED <<maintenance, lock, committed, support, proc, home, work, fence, journal, cuts, orphan>>

UpgradeFailed(l) ==
  /\ At(l, "u_failed")
  /\ Journal(l, IF "restarted" \in run[l].flags \/ "stopped" \notin run[l].flags
                THEN "failed" ELSE "recovery_required")
  /\ Goto(l, "leave")
  /\ UNCHANGED <<maintenance, lock, committed, support, mutex, proc, home, work, fence, cuts, orphan>>

(***************************************************************************)
(* relocate.                                                               *)
(***************************************************************************)

(* A stub that appeared at the destination is put aside and the support    *)
(* tree is renamed; the renames, or the flush after them, may fail.        *)
MoveTree(l) ==
  /\ At(l, "r_move")
  /\ \/ /\ tree' = "new"
        /\ \E p \in {"r_catalog", "r_undo"} :
             run' = [run EXCEPT ![l] = [@ EXCEPT !.pc = p, !.path = "new", !.flags = run[l].flags \cup {"moved"}]]
     \/ Goto(l, "r_undo") /\ tree' = tree
  /\ UNCHANGED <<maintenance, lock, committed, stubs, catalog, disc, mark, mutex, proc, home, work, fence, journal, cuts, orphan>>

(* The catalog and the profiles name the new paths, a stub that was put    *)
(* aside cannot be merged into the tree, and the owner is started there;   *)
(* the handoff record is not read by anyone.                               *)
MoveCatalog(l) ==
  /\ At(l, "r_catalog")
  /\ \/ /\ catalog' = "new" /\ ValidMove
        /\ run' = [run EXCEPT ![l] = [@ EXCEPT !.pc = "b_read", !.then = "relocated"]]
     \/ catalog' \in {catalog, "new"} /\ Goto(l, "r_undo")
  /\ UNCHANGED <<maintenance, lock, committed, tree, stubs, disc, mark, mutex, proc, home, work, fence, journal, cuts, orphan>>

(* The tree goes back only if its old path is free, and once a candidate   *)
(* that advertised itself is stopped.                                      *)
UndoMove(l) ==
  /\ At(l, "r_undo")
  /\ run' = [run EXCEPT ![l].pc =
       IF "moved" \in run[l].flags /\ "old" \notin stubs
       THEN (IF disc # 0 THEN "s_check" ELSE "r_rename") ELSE "r_restore"]
  /\ UNCHANGED <<maintenance, lock, committed, support, mutex, proc, home, work, fence, journal, cuts, orphan>>

(* A directory is not renamed over one that is not empty. *)
UndoRename(l) ==
  /\ At(l, "r_rename")
  /\ tree' = IF "old" \in stubs THEN tree ELSE "old"
  /\ Goto(l, IF "old" \in stubs THEN "leave" ELSE "r_restore")
  /\ UNCHANGED <<maintenance, lock, committed, stubs, catalog, disc, mark, mutex, proc, home, work, fence, journal, cuts, orphan>>

(* The metadata is written back, into the stub if that is what is there,   *)
(* and the old owner started, unless a rename may not be durable.          *)
UndoRestore(l) ==
  /\ At(l, "r_restore")
  /\ catalog' = IF tree = "old" THEN "old" ELSE catalog
  /\ \E p \in {"b_read", "leave"} :
       run' = [run EXCEPT ![l] = [@ EXCEPT !.pc = p, !.path = "old", !.then = "rolledback", !.flags = {}]]
  /\ UNCHANGED <<maintenance, lock, committed, tree, stubs, disc, mark, mutex, proc, home, work, fence, journal, cuts, orphan>>

(***************************************************************************)
(* Maintenance an operator starts by hand, and processes cut short.        *)
(***************************************************************************)

(* python -m runtime_protocol upgrade, migrate and compact take owner.lock *)
(* and nothing of the launcher's.                                          *)
StartByHand(l, k) ==
  /\ At(l, "idle")
  /\ version = [upgrade |-> "v23", migrate |-> "older", compact |-> "current"][k]
  /\ OwnerFence(k, l)
  /\ run' = [run EXCEPT ![l].pc = "by_hand"]
  /\ UNCHANGED <<db, wal, version, archive, kept, lock, committed, support, mutex, proc, home, work, fence, journal, cuts, orphan>>

EndByHand(l) ==
  /\ At(l, "by_hand")
  /\ ~Maintaining
  /\ job' = NoJob
  /\ Goto(l, "leave")
  /\ UNCHANGED <<db, wal, version, archive, kept, lock, committed, support, mutex, proc, home, work, fence, journal, cuts, orphan>>

(* A command is cut short: its locks are free, its files stay. *)
Cut(l) ==
  /\ run[l].pc \notin {"idle", "done"}
  /\ cuts < MaxCuts /\ cuts' = cuts + 1
  /\ IF job.by = l THEN JobCut ELSE UNCHANGED <<archive, kept, job>>
  /\ run' = [run EXCEPT ![l] = [NoRun EXCEPT !.pc = "done"]]
  /\ mutex' = Released(l)
  /\ fence' = Unfenced(l)
  /\ orphan' = (orphan \/ Alive(run[l].cand))
  /\ UNCHANGED <<db, wal, version, lock, committed, support, proc, home, work, journal>>

MaintenanceStep ==
  /\ JobStep
  /\ UNCHANGED <<support, mutex, proc, home, work, fence, journal, run, cuts, orphan>>

CommandStep(l) ==
  \/ \E op \in Ops, p \in {"old", "new"} : Begin(l, op, p)
  \/ OpenMutex(l) \/ TakeMutex(l) \/ Leave(l)
  \/ (\E k \in Kinds : StartByHand(l, k)) \/ EndByHand(l)
  \/ Cut(l)

StopStep(l) ==
  \/ StopCheck(l) \/ StopIdle(l) \/ StopFence(l) \/ Signal(l) \/ Escalate(l)
  \/ StopUncertain(l) \/ StopSeen(l) \/ StopClear(l)

BootStep(l) ==
  \/ BootRead(l) \/ BootClear(l) \/ BootSpawn(l) \/ BootReady(l) \/ BootCommit(l)
  \/ BootUndo(l) \/ BootUncertain(l) \/ BootRemove(l)

UpgradeStep(l) ==
  \/ UpgradePlan(l) \/ UpgradeOwner(l) \/ UpgradeStart(l) \/ UpgradeMigrated(l)
  \/ UpgradeActivated(l) \/ UpgradeVerify(l) \/ UpgradeAbort(l) \/ UpgradeFailed(l)

RelocateStep(l) ==
  \/ MoveTree(l) \/ MoveCatalog(l) \/ UndoMove(l) \/ UndoRename(l) \/ UndoRestore(l)

Next ==
  \/ \E n \in Runtimes : Admit(n) \/ Serve(n) \/ Exit(n) \/ Die(n)
  \/ \E l \in Launchers :
       CommandStep(l) \/ StopStep(l) \/ BootStep(l) \/ UpgradeStep(l) \/ RelocateStep(l)
  \/ MaintenanceStep

Spec == Init /\ [][Next]_vars

(***************************************************************************)
(* Properties.                                                             *)
(***************************************************************************)

(* The variables hold values of their types, a fence belongs to a command  *)
(* that is stopping an owner, and owner.lock to a process that lives.      *)
TypeOK ==
  /\ version \in Versions
  /\ tree \in {"old", "new"} /\ catalog \in {"old", "new"}
  /\ {disc, mark} \subseteq Runtimes \cup {0}
  /\ fence # 0 => run[fence].pc \in {"s_signal", "s_wait"}
  /\ lock # 0 => proc[lock] \in {"serving", "draining"}

(* down, restart and upgrade never interrupt work: from the last report of *)
(* interruption_fence until the owner they signal has ended, the realm     *)
(* holds no running task, unsettled attempt, claimed binding or            *)
(* reservation.                                                            *)
OwnerStoppedIdle ==
  \A l \in Launchers :
    (fence = l /\ run[l].pc \in {"s_signal", "s_wait"}) => ~work

(* The support tree is renamed, forward or back, only while no Runtime     *)
(* lives in it, except one that a command had started and then could not   *)
(* account for.  Nothing is promised once a command has made a stub at the *)
(* destination: it holds a lock there that a relocation does not see.      *)
TreeStill ==
  [][tree' # tree /\ ~orphan /\ ValidMove => \A n \in Runtimes : ~Alive(n)]_vars
=============================================================================
