----------------------------- MODULE HostProofs -----------------------------
(***************************************************************************)
(* Proofs about the processes of one host: the commands that start, stop,  *)
(* upgrade and relocate the Runtime, the maintenance of its database, and  *)
(* the services a Runtime supervises, for any number of commands, Runtimes *)
(* and services.                                                           *)
(***************************************************************************)
EXTENDS Launcher, ServiceSupervisor, TLAPS

(* The services: ServiceSupervisor. *)

USE ServiceAssumption, LimitAssumption

(* A living tree has a handle, a handle is dropped before the thread goes   *)
(* on to another attempt, and a launch finds the readiness file removed.    *)
AttemptOwned(s) ==
  /\ trees[s] # "none" => s \in process
  /\ s \in process => pc[s] \in {"watch", "cleanup", "end"}
  /\ pc[s] = "launch" => ready[s] = "none"
  /\ pc[s] = "watch" => ready[s] # "stale"

(* Once stop() has joined the threads, none is left and none can start. *)
StopOwned ==
  /\ stopper # "idle" => stop
  /\ stopper \in {"retry", "done"} => \A s \in Service : Over(s)
  /\ stopper = "done" => process = {}

(* The inductive invariant behind StopComplete and LaunchesAlone. *)
SupervisorInv == ServicesTypeOK /\ StopOwned /\ \A s \in Service : AttemptOwned(s)

(* The supervisor before start() satisfies the invariant. *)
LEMMA SupervisorInit == ServicesInit => SupervisorInv
<1> SUFFICES ASSUME ServicesInit PROVE SupervisorInv
  OBVIOUS
<1>1. ServicesTypeOK
  <2>1. ready \in [Service -> {"none", "current", "stale"}]
    BY DEF ServicesInit
  <2>2. stop \in BOOLEAN
    BY ZenonT(30) DEF ServicesInit
  <2> QED
    BY <2>1, <2>2 DEF ServicesInit, ServicesTypeOK
<1>2. StopOwned
  BY DEF ServicesInit, StopOwned
<1>3. \A s \in Service : AttemptOwned(s)
  BY ZenonT(30) DEF ServicesInit, AttemptOwned
<1> QED
  BY <1>1, <1>2, <1>3 DEF SupervisorInv

(* Every step of a process, of a thread and of stop() preserves it. *)
LEMMA SupervisorStep == SupervisorInv /\ [ServicesNext]_servicesVars => SupervisorInv'
<1> SUFFICES ASSUME SupervisorInv, [ServicesNext]_servicesVars PROVE SupervisorInv'
  OBVIOUS
<1> USE DEF SupervisorInv, ServicesTypeOK, StopOwned, AttemptOwned, Over, thread, world, ThreadGoto, Report
<1>1. CASE BeginShutdown
  BY <1>1 DEF BeginShutdown
<1>2. CASE Stop
  BY <1>2 DEF Stop
<1>3. CASE Join
  BY <1>3 DEF Join
<1>4. CASE Stopped
  BY <1>4, Zenon DEF Stopped
<1>5. ASSUME NEW s \in Service,
             TreeExit(s) \/ WriteReady(s) \/ Start(s) \/ Thread(s) \/ Age(s) \/ RetryCleanup(s)
      PROVE  SupervisorInv'
  <2>1. CASE TreeExit(s)
    BY <2>1 DEF TreeExit
  <2>2. CASE WriteReady(s)
    BY <2>2 DEF WriteReady
  <2>3. CASE Start(s)
    BY <2>3 DEF Start
  <2>4. CASE Top(s)
    BY <2>4 DEF Top
  <2>5. CASE Prepare(s)
    BY <2>5 DEF Prepare, LaunchFailed
  <2>6. CASE Launch(s)
    <3>1. ServicesTypeOK'
      BY <2>6 DEF Launch, LaunchFailed
    <3>2. StopOwned'
      BY <2>6 DEF Launch, LaunchFailed
    <3>3. \A t \in Service : AttemptOwned(t)'
      BY <2>6 DEF Launch, LaunchFailed
    <3> QED
      BY <3>1, <3>2, <3>3
  <2>7. CASE Running(s)
    BY <2>7 DEF Running
  <2>8. CASE Unwatch(s)
    BY <2>8 DEF Unwatch
  <2>9. CASE Cleanup(s)
    <3>1. ServicesTypeOK'
      BY <2>9 DEF Cleanup, Fail, Ended, TreeStopped
    <3>2. StopOwned'
      BY <2>9 DEF Cleanup, Fail, Ended, TreeStopped
    <3>3. \A t \in Service : AttemptOwned(t)'
      BY <2>9 DEF Cleanup, Fail, Ended, TreeStopped
    <3> QED
      BY <3>1, <3>2, <3>3
  <2>10. CASE After(s)
    <3>1. NextFast(s) \in 0..FastLimit /\ WaitFor(s) \in 0..MaxDelay
      BY DEF NextFast, WaitFor, Least
    <3> QED
      BY <2>10, <3>1 DEF After, Ended
  <2>11. CASE Wait(s)
    BY <2>11 DEF Wait, Least
  <2>12. CASE NoLog(s)
    BY <2>12 DEF NoLog, Fail, Ended
  <2>13. CASE Age(s)
    BY <2>13 DEF Age
  <2>14. CASE RetryCleanup(s)
    <3>1. ServicesTypeOK'
      BY <2>14 DEF RetryCleanup, TreeStopped
    <3>2. StopOwned'
      BY <2>14 DEF RetryCleanup, TreeStopped
    <3>3. \A t \in Service : AttemptOwned(t)'
      BY <2>14 DEF RetryCleanup, TreeStopped
    <3> QED
      BY <3>1, <3>2, <3>3
  <2> QED
    BY <1>5, <2>1, <2>2, <2>3, <2>4, <2>5, <2>6, <2>7, <2>8, <2>9, <2>10, <2>11, <2>12, Zenon,
       <2>13, <2>14 DEF Thread
<1>6. CASE UNCHANGED servicesVars
  BY <1>6 DEF servicesVars
<1> QED
  BY <1>1, <1>2, <1>3, <1>4, <1>5, <1>6 DEF ServicesNext

(* SupervisorInv holds in every reachable state. *)
THEOREM SupervisorInvariant == ServicesSpec => []SupervisorInv
BY SupervisorInit, SupervisorStep, PTL DEF ServicesSpec

(* When stop() has returned, no thread and no tree of any service is left,  *)
(* and none appears later.                                                  *)
THEOREM StopIsComplete == ServicesSpec => []StopComplete
<1>1. SupervisorInv => StopComplete
  BY ZenonT(30) DEF SupervisorInv, StopOwned, AttemptOwned, StopComplete
<1> QED
  BY <1>1, SupervisorInvariant, PTL

(* A watched service is never taken for ready by an earlier tree's file.    *)
THEOREM ReadinessIsCurrent == ServicesSpec => []ReadyIsCurrent
<1>1. SupervisorInv => ReadyIsCurrent
  BY DEF SupervisorInv, AttemptOwned, ReadyIsCurrent
<1> QED
  BY <1>1, SupervisorInvariant, PTL

(* No tree is ever launched beside a tree of an earlier attempt.            *)
THEOREM LaunchesStayAlone == ServicesSpec => LaunchesAlone
<1> DEFINE Alone == \A s \in Service : pc[s] = "launch" /\ pc'[s] = "watch" => trees[s] = "none"
<1>1. SupervisorInv => Alone
  BY DEF SupervisorInv, AttemptOwned, ServicesTypeOK
<1>2. SupervisorInv /\ [ServicesNext]_servicesVars => [Alone]_servicesVars
  BY <1>1
<1> QED
  BY <1>2, SupervisorInvariant, PTL DEF ServicesSpec, LaunchesAlone

HIDE ServiceAssumption
HIDE LimitAssumption

-----------------------------------------------------------------------------
(* The commands and the maintenance: Launcher, RealmUpgrade. *)

(* Where a command can be. *)
StopPoints == {"s_check", "s_idle", "s_fence", "s_signal", "s_wait", "s_clear"}
BootPoints == {"b_read", "b_clear", "b_marker", "b_wait", "b_commit", "b_undo"}
UpgradePoints == {"u_owner", "u_stopped", "u_migrate", "u_activated", "u_verify", "u_abort"}
MovePoints == {"r_move", "r_catalog", "r_undo", "r_rename", "r_restore"}
Locked == StopPoints \cup BootPoints \cup UpgradePoints \cup MovePoints
(* All of them. *)
Points == Locked \cup {"idle", "open", "lock", "leave", "done", "u_plan", "u_failed", "by_hand"}

(* The record of a command. *)
Run == [op : Ops \cup {"none"}, pc : Points, path : {"old", "new"},
        ino : {"none", "tree", "old", "new"}, seen : Runtimes \cup {0}, cand : Runtimes \cup {0},
        then : {"end", "verify", "relocated", "rolledback", "recovered"},
        flags : SUBSET {"stopped", "restarted", "activated", "moved"}]

(* A command with this record may be at p. *)
Fits(r, p) ==
  /\ p \in {"open", "lock"} => r.op \in Ops
  /\ p \in StopPoints => r.op \in Ops \ {"up"}
  /\ p \in UpgradePoints \cup {"u_plan", "u_failed"} => r.op = "upgrade"
  /\ p \in MovePoints => r.op = "relocate"
  /\ p \in {"lock"} \cup Locked => r.ino # "none"
  /\ p \in {"s_idle", "s_fence", "s_signal", "s_wait"} => r.seen # 0
  /\ p \in {"b_wait", "b_commit"} => r.cand # 0

(* What a command is doing agrees with the command it is. *)
RunAgrees(r) ==
  /\ Fits(r, r.pc)
  /\ r.then \in {"verify", "recovered"} => r.op = "upgrade"
  /\ r.then = "relocated" => r.op = "relocate"

(* Every command has a record that agrees with itself. *)
RunTypes == run \in [Launchers -> Run] /\ \A l \in Launchers : RunAgrees(run[l])

(* Where the maintenance can be. *)
JobPoints == {"idle", "start", "archived", "built", "merged", "swapped", "rollback", "restored",
              "vacuumed", "ok", "failed"}

(* The types of the files, locks and processes. *)
WorldTypes ==
  /\ version \in Versions
  /\ tree \in {"old", "new"} /\ catalog \in {"old", "new"} /\ stubs \subseteq {"old", "new"}
  /\ disc \in Runtimes \cup {0} /\ mark \in Runtimes \cup {0}
  /\ proc \in [Runtimes -> Live \cup {"unborn", "dead"}]
  /\ mutex \in [{"tree", "old", "new"} -> Launchers \cup {0}]
  /\ fence \in Launchers \cup {0} /\ work \in BOOLEAN /\ orphan \in BOOLEAN
  /\ job \in [kind : Kinds \cup {"none"}, by : Launchers \cup {"nobody"}, pc : JobPoints]

(* owner.lock is held by the one Runtime that serves or drains, or by the  *)
(* maintenance.                                                            *)
OwnerLocked ==
  /\ lock \in Runtimes \cup {0}
  /\ \A n \in Runtimes : proc[n] \in {"serving", "draining"} <=> lock = n
  /\ Maintaining => lock = 0

(* A fence belongs to a command that is stopping an owner, and excludes    *)
(* work.                                                                   *)
FenceHeld ==
  /\ fence # 0 => ~work /\ run[fence].pc \in {"s_signal", "s_wait"}

(* The snapshot of an upgrade that is under way. *)
Archived == job.kind = "upgrade" /\ job.pc \in {"archived", "built", "merged", "swapped", "rollback", "restored"}
(* A snapshot from which every row that was ever committed can be read. *)
Complete(a) == {"base", "tail"} \subseteq Rows(a.db, a.wal)
(* Nothing that was committed is lost while the database is this file and  *)
(* this log.                                                               *)
Preserved(d, w) == committed \subseteq Rows(d, w) \/ \E a \in kept : Complete(a)
(* The file has its oldest rows, and the log beside it is its own. *)
Sound(d, w) == "base" \in d.rows /\ (w = Nothing \/ w.of = d.of)

(* Database files and logs. *)
File == [of : {"none", "source", "candidate", "compacted"}, rows : SUBSET {"base", "tail"}]
(* The archive of a database and its log. *)
Snapshot == [db : File, wal : File]

(* At each point of the maintenance the archive, the database and the log  *)
(* hold what the next operation, the rollback or a power cut needs: the    *)
(* archive is complete once it is made, the log is merged before the file  *)
(* it belongs to is replaced, and the database alone can be without rows   *)
(* only between the two halves of a rollback.                              *)
FilesInv ==
  /\ db \in File /\ wal \in File /\ archive \in Snapshot /\ kept \subseteq Snapshot
  /\ committed \subseteq {"base", "tail"}
  /\ Sound(db, wal)
  /\ Archived => Sound(archive.db, archive.wal) /\ Preserved(archive.db, archive.wal)
  /\ JobAt("upgrade", "built") => wal = archive.wal
  /\ JobAt("upgrade", "rollback") => wal \in {Nothing, archive.wal}
  /\ JobAt("upgrade", "merged") \/ JobAt("upgrade", "swapped") \/ JobAt("compact", "vacuumed") => wal = Nothing
  /\ IF JobAt("upgrade", "restored") THEN db = archive.db ELSE Preserved(db, wal)

(* A command that relies on there being no live Runtime in the tree:       *)
(* relocate from the end of the owner to the start of the next.            *)
Quiet(r) ==
  \/ r.pc \in {"r_move", "r_catalog", "r_undo", "r_rename"}
  \/ r.pc = "s_clear" /\ r.op = "relocate"
  \/ r.pc \in {"b_read", "b_clear", "b_marker", "b_undo"} /\ r.then = "relocated"
(* A command that has started a Runtime and not yet accounted for it. *)
Spawned(r) == r.pc \in {"b_wait", "b_commit"}
(* relocate waits for the owner it signalled. *)
Waits(r) == r.pc = "s_wait" /\ r.op = "relocate"

(* A command under the lock holds the lock of the file it opened. One that *)
(* opened it in a stub found the tree moved away, and claims nothing about *)
(* the tree.                                                               *)
MutexHeld(l) ==
  /\ run[l].pc \in Locked => mutex[run[l].ino] = l
  /\ run[l].pc \in {"lock"} \cup Locked /\ run[l].ino = "old" => run[l].path = "old" /\ "old" \in stubs /\ tree = "new"
  /\ run[l].pc \in {"lock"} \cup Locked => run[l].ino # "new"
  /\ Quiet(run[l]) \/ Spawned(run[l]) \/ Waits(run[l]) => run[l].ino = "tree"

(* What the commands rely on. *)
TreeQuiet(l) ==
  /\ Quiet(run[l]) => \A n \in Runtimes : ~Alive(n)
  /\ Waits(run[l]) => \A n \in Runtimes : Alive(n) => n = run[l].seen
  /\ Spawned(run[l]) /\ run[l].then = "relocated" => \A n \in Runtimes : Alive(n) => n = run[l].cand

(* As long as no command made a stub at the destination, whoever relies on *)
(* a quiet tree holds the lock in the tree, so that nobody else can start  *)
(* a Runtime; as long as none was orphaned, the tree is quiet.             *)
TreeInv ==
  ValidMove =>
    /\ \A l \in Launchers : MutexHeld(l)
    /\ ~orphan =>
         /\ \A l \in Launchers : TreeQuiet(l)
         /\ \A n \in Runtimes : proc[n] = "starting" =>
              \E l \in Launchers : Spawned(run[l]) /\ run[l].cand = n

(* Only this command moves, and it goes to p. *)
Others(l) == \A k \in Launchers \ {l} : run'[k] = run[k]
Jumps(l, p) ==
  /\ run' \in [Launchers -> Run] /\ Others(l)
  /\ run'[l].pc = p
  /\ run'[l].op = run[l].op /\ run'[l].path = run[l].path /\ run'[l].ino = run[l].ino
  /\ run'[l].seen = run[l].seen /\ run'[l].cand = run[l].cand
  /\ run'[l].then = run[l].then /\ run'[l].flags = run[l].flags

(* Goto changes where a command is and nothing else of it. *)
LEMMA GotoJumps ==
  ASSUME RunTypes, NEW l \in Launchers, NEW p \in Points, Goto(l, p)
  PROVE  Jumps(l, p)
BY DEF RunTypes, Goto, Jumps, Others, Run

(* A step that changes one record keeps the others well formed. *)
LEMMA OneRun ==
  ASSUME RunTypes, NEW l \in Launchers, run' \in [Launchers -> Run], Others(l), RunAgrees(run'[l])
  PROVE  RunTypes'
BY DEF RunTypes, Others

(* A step that replaces one record by a well-formed one. *)
LEMMA RunBecomes ==
  ASSUME RunTypes, NEW l \in Launchers, NEW r \in Run, run' = [run EXCEPT ![l] = r], RunAgrees(r)
  PROVE  RunTypes' /\ run' \in [Launchers -> Run] /\ Others(l) /\ run'[l] = r
<1>1. run' \in [Launchers -> Run] /\ Others(l) /\ run'[l] = r
  BY Zenon DEF RunTypes, Others
<1> QED
  BY <1>1, OneRun

(* A command may jump to any point that fits it. *)
LEMMA JumpTypes ==
  ASSUME RunTypes, NEW l \in Launchers, NEW p \in Points, Goto(l, p), Fits(run[l], p)
  PROVE  RunTypes' /\ Jumps(l, p)
<1>1. Jumps(l, p)
  BY GotoJumps
<1>2. RunAgrees(run[l])
  BY DEF RunTypes
<1>3. RunAgrees(run'[l])
  BY <1>1, <1>2, Zenon DEF RunAgrees, Fits, Jumps
<1> QED
  BY <1>1, <1>3, OneRun DEF Jumps

(* What RunTypes says of one command. *)
LEMMA RunKnown ==
  ASSUME RunTypes, NEW l \in Launchers
  PROVE  /\ run[l] \in Run /\ RunAgrees(run[l])
BY DEF RunTypes

(* Stopping an owner keeps the records well formed. *)
LEMMA StopRun ==
  ASSUME RunTypes, WorldTypes, NEW l \in Launchers, StopStep(l)
  PROVE  RunTypes'
<1> USE DEF At, StopPoints, BootPoints, UpgradePoints, MovePoints, Locked, Points
<1>0. run[l] \in Run /\ RunAgrees(run[l])
  BY RunKnown, Zenon
<1>a. run[l].pc \in StopPoints => StopFailed(l) \in Points /\ Fits(run[l], StopFailed(l))
  BY <1>0 DEF Run, RunAgrees, Fits, StopFailed
<1>1. CASE StopCheck(l)
  <2> DEFINE ok == Owner(run[l].path) /\ (run[l].op = "relocate" /\ ~Undoing(l) => ValidMove)
             q == IF Fenced(l) THEN "s_idle" ELSE "s_signal"
  <2>1. CASE ok
    <3>1. PICK r : r = [run[l] EXCEPT !.seen = disc, !.pc = q]
      OBVIOUS
    <3>2. run' = [run EXCEPT ![l] = r] /\ disc \in Runtimes /\ disc # 0 /\ run[l].pc = "s_check"
      BY <1>1, <2>1, <3>1, Zenon DEF StopCheck, Owner, WorldTypes
    <3>3. r \in Run /\ r.pc = q /\ r.seen = disc /\ r.op = run[l].op /\ r.ino = run[l].ino /\ r.then = run[l].then
      BY <1>0, <3>1, <3>2, Zenon DEF Run
    <3>4. run[l].op \in Ops \ {"up"} /\ run[l].ino # "none"
      BY <1>0, <3>2 DEF RunAgrees, Fits
    <3>5. Fits(r, r.pc)
      BY <3>2, <3>3, <3>4 DEF Fits
    <3>6. RunAgrees(r)
      BY <1>0, <3>3, <3>5, Zenon DEF RunAgrees
    <3> QED
      BY <3>2, <3>3, <3>6, RunBecomes, Zenon
  <2>2. CASE ~ok
    <3>1. Goto(l, StopFailed(l)) /\ run[l].pc = "s_check"
      BY <1>1, <2>2, Zenon DEF StopCheck, Goto
    <3> QED
      BY <3>1, <1>a, JumpTypes
  <2> QED
    BY <2>1, <2>2
<1>2. CASE StopIdle(l)
  <2>1. run[l].pc = "s_idle" /\ (Goto(l, StopFailed(l)) \/ Goto(l, "s_fence"))
    BY <1>2, Zenon DEF StopIdle
  <2> QED
    BY <2>1, <1>0, <1>a, JumpTypes, Zenon DEF RunAgrees, Fits
<1>3. CASE StopFence(l)
  <2>1. run[l].pc = "s_fence" /\ (Goto(l, StopFailed(l)) \/ Goto(l, "s_signal"))
    BY <1>3, Zenon DEF StopFence
  <2> QED
    BY <2>1, <1>0, <1>a, JumpTypes, Zenon DEF RunAgrees, Fits
<1>4. CASE Signal(l)
  <2>1. run[l].pc = "s_signal" /\ (Goto(l, StopFailed(l)) \/ Goto(l, "s_wait"))
    BY <1>4 DEF Signal
  <2> QED
    BY <2>1, <1>0, <1>a, JumpTypes, Zenon DEF RunAgrees, Fits
<1>5. CASE Escalate(l)
  BY <1>5 DEF Escalate, RunTypes
<1>6. CASE StopUncertain(l)
  <2>1. run[l].pc = "s_wait" /\ Goto(l, StopFailed(l))
    BY <1>6, Zenon DEF StopUncertain
  <2> QED
    BY <2>1, <1>a, JumpTypes, Zenon
<1>7. CASE StopSeen(l)
  <2>1. run[l].pc = "s_wait" /\ Goto(l, "s_clear")
    BY <1>7 DEF StopSeen
  <2> QED
    BY <2>1, <1>0, JumpTypes, Zenon DEF RunAgrees, Fits
<1>8. CASE StopClear(l)
  <2>1. PICK q \in {AfterStop(l), StopFailed(l)} :
          run' = [run EXCEPT ![l] = [run[l] EXCEPT !.pc = q, !.seen = 0, !.flags = run[l].flags \cup {"stopped"}]]
    BY <1>8, Zenon DEF StopClear
  <2>2. run[l].pc = "s_clear" /\ run[l].op \in {"down", "restart", "upgrade", "relocate"}
    BY <1>0, <1>8, Zenon DEF StopClear, RunAgrees, Fits, Ops
  <2>9. AfterStop(l) \in {"leave", "b_read", "u_stopped", "r_move", "r_rename"}
        /\ (AfterStop(l) = "u_stopped" => run[l].op = "upgrade")
        /\ (AfterStop(l) \in {"r_move", "r_rename"} => run[l].op = "relocate")
    <3> DEFINE f == [down |-> "leave", restart |-> "b_read", upgrade |-> "u_stopped", relocate |-> "r_move"]
    <3>1. f["down"] = "leave" /\ f["restart"] = "b_read" /\ f["upgrade"] = "u_stopped" /\ f["relocate"] = "r_move"
      OBVIOUS
    <3>2. AfterStop(l) = IF Undoing(l) THEN "r_rename" ELSE f[run[l].op]
      BY DEF AfterStop
    <3> HIDE DEF f
    <3> QED
      BY <2>2, <3>1, <3>2 DEF Undoing
  <2>3. run[l].ino # "none" /\ q \in {"leave", "b_read", "u_stopped", "r_move", "r_rename", "u_abort"}
        /\ (q \in {"u_stopped", "u_abort"} => run[l].op = "upgrade")
        /\ (q \in {"r_move", "r_rename"} => run[l].op = "relocate")
    BY <1>0, <2>1, <2>2, <2>9 DEF StopFailed, RunAgrees, Fits
  <2>4. PICK r : r = [run[l] EXCEPT !.pc = q, !.seen = 0, !.flags = run[l].flags \cup {"stopped"}]
    OBVIOUS
  <2>5. r \in Run /\ r.pc = q /\ r.op = run[l].op /\ r.ino = run[l].ino /\ r.then = run[l].then
    BY <1>0, <2>3, <2>4, ZenonT(30) DEF Run
  <2>6. Fits(r, r.pc)
    BY <2>2, <2>3, <2>5 DEF Fits
  <2>7. RunAgrees(r)
    BY <1>0, <2>5, <2>6, Zenon DEF RunAgrees
  <2> QED
    BY <2>1, <2>4, <2>5, <2>7, RunBecomes, Zenon
<1> QED
  BY <1>1, <1>2, <1>3, <1>4, <1>5, <1>6, <1>7, <1>8 DEF StopStep

(* Where a command goes on after it started a Runtime, or failed to. *)
LEMMA BootExits ==
  ASSUME NEW l, run[l] \in Run, RunAgrees(run[l]), run[l].pc \in BootPoints
  PROVE  /\ BootFailed(l) \in {"leave", "u_abort", "r_undo", "u_failed"} /\ Fits(run[l], BootFailed(l))
         /\ BootDone(l) \in {"leave", "u_verify", "u_failed"} /\ Fits(run[l], BootDone(l))
         /\ BootFailed(l) = "r_undo" => run[l].then = "relocated"
<1> USE DEF StopPoints, BootPoints, UpgradePoints, MovePoints, Locked
<1>1. run[l].then \in {"end", "verify", "relocated", "rolledback", "recovered"} /\ run[l].ino # "none"
  BY DEF Run, RunAgrees, Fits
<1>2. /\ BootFailed(l) \in {"leave", "u_abort", "r_undo", "u_failed"}
      /\ BootFailed(l) \in {"u_abort", "u_failed"} => run[l].then \in {"verify", "recovered"}
      /\ BootFailed(l) = "r_undo" => run[l].then = "relocated"
  BY <1>1 DEF BootFailed
<1>3. /\ BootDone(l) \in {"leave", "u_verify", "u_failed"}
      /\ BootDone(l) \in {"u_verify", "u_failed"} => run[l].then \in {"verify", "recovered"}
  BY <1>1 DEF BootDone
<1>4. (run[l].then \in {"verify", "recovered"} => run[l].op = "upgrade")
      /\ (run[l].then = "relocated" => run[l].op = "relocate")
  BY DEF RunAgrees
<1>5. Fits(run[l], BootFailed(l))
  BY <1>1, <1>2, <1>4, Zenon DEF Fits
<1>6. Fits(run[l], BootDone(l))
  BY <1>1, <1>3, <1>4 DEF Fits
<1> QED
  BY <1>2, <1>3, <1>5, <1>6

(* A command whose Runtime is up is well formed. *)
LEMMA StartedRun ==
  ASSUME RunTypes, NEW l \in Launchers, run[l].pc \in BootPoints, Started(l)
  PROVE  RunTypes'
<1>0. run[l] \in Run /\ RunAgrees(run[l])
  BY RunKnown, Zenon
<1>1. BootDone(l) \in {"leave", "u_verify", "u_failed"} /\ Fits(run[l], BootDone(l))
  BY <1>0, BootExits
<1>2. PICK r : r = [run[l] EXCEPT !.pc = BootDone(l), !.cand = 0, !.flags = run[l].flags \cup {"restarted"}]
  OBVIOUS
<1>3. run' = [run EXCEPT ![l] = r]
  BY <1>2 DEF Started
<1>7. BootDone(l) \in Points
  BY <1>1 DEF Points, Locked, UpgradePoints
<1>4. /\ r \in Run /\ r.pc = BootDone(l) /\ r.op = run[l].op /\ r.ino = run[l].ino
      /\ r.then = run[l].then /\ r.seen = run[l].seen
  BY <1>0, <1>2, <1>7, Zenon DEF Run
<1>5. Fits(r, r.pc)
  BY <1>1, <1>4 DEF Fits
<1>6. RunAgrees(r)
  BY <1>0, <1>4, <1>5, Zenon DEF RunAgrees
<1> QED
  BY <1>3, <1>4, <1>6, RunBecomes, Zenon

(* Starting a Runtime keeps the records well formed. *)
LEMMA BootRun ==
  ASSUME RunTypes, WorldTypes, NEW l \in Launchers, BootStep(l)
  PROVE  RunTypes'
<1> USE DEF At, StopPoints, BootPoints, UpgradePoints, MovePoints, Locked, Points
<1>0. run[l] \in Run /\ RunAgrees(run[l])
  BY RunKnown
<1>p. run[l].pc \in BootPoints
  BY Zenon DEF BootStep, BootRead, BootClear, BootSpawn, BootReady, BootCommit, BootUndo, BootUncertain, BootRemove
<1>a. BootFailed(l) \in {"leave", "u_abort", "r_undo", "u_failed"} /\ Fits(run[l], BootFailed(l))
  BY <1>0, <1>p, BootExits, Zenon
<1>b. run[l].ino # "none"
  BY <1>0, <1>p DEF RunAgrees, Fits
<1>c. \A q \in {"b_read", "b_clear", "b_marker", "b_undo"} : Goto(l, q) => RunTypes'
  <2>1. \A q \in {"b_read", "b_clear", "b_marker", "b_undo"} : q \in Points /\ Fits(run[l], q)
    BY <1>b DEF Fits
  <2> QED
    BY <2>1, JumpTypes
<1>d. Goto(l, BootFailed(l)) => RunTypes'
  BY <1>a, JumpTypes, Zenon
<1>1. CASE BootRead(l)
  <2>1. Goto(l, BootFailed(l)) \/ Started(l) \/ Goto(l, "b_marker") \/ Goto(l, "b_clear")
    BY <1>1 DEF BootRead
  <2> QED
    BY <2>1, <1>p, <1>c, <1>d, StartedRun, Zenon
<1>2. CASE BootClear(l)
  BY <1>2, <1>c, Zenon DEF BootClear
<1>3. CASE BootSpawn(l)
  <2>1. CASE Goto(l, BootFailed(l))
    BY <2>1, <1>d
  <2>2. CASE \E n \in Runtimes : run' = [run EXCEPT ![l] = [run[l] EXCEPT !.pc = "b_wait", !.cand = n]]
    <3>1. PICK n \in Runtimes : run' = [run EXCEPT ![l] = [run[l] EXCEPT !.pc = "b_wait", !.cand = n]]
      BY <2>2, Zenon
    <3>2. PICK r : r = [run[l] EXCEPT !.pc = "b_wait", !.cand = n]
      OBVIOUS
    <3>3. /\ r \in Run /\ r.pc = "b_wait" /\ r.op = run[l].op /\ r.ino = run[l].ino
          /\ r.then = run[l].then /\ r.cand = n
      BY <1>0, <3>2, Zenon DEF Run
    <3>4. n # 0
      BY BoundsAssumption DEF Runtimes
    <3>5. Fits(r, r.pc)
      BY <1>b, <3>3, <3>4 DEF Fits
    <3>6. RunAgrees(r)
      BY <1>0, <3>3, <3>5, Zenon DEF RunAgrees
    <3> QED
      BY <3>1, <3>2, <3>3, <3>6, RunBecomes, Zenon
  <2> QED
    BY <1>3, <2>1, <2>2, Zenon DEF BootSpawn
<1>4. CASE BootReady(l)
  <2>1. run[l].pc = "b_wait" /\ Goto(l, "b_commit")
    BY <1>4, Zenon DEF BootReady
  <2>2. Fits(run[l], "b_commit")
    BY <1>0, <2>1, Zenon DEF RunAgrees, Fits
  <2> QED
    BY <2>1, <2>2, JumpTypes, Zenon
<1>5. CASE BootCommit(l)
  BY <1>5, <1>p, StartedRun, Zenon DEF BootCommit
<1>6. CASE BootUndo(l)
  BY <1>6, <1>c, Zenon DEF BootUndo
<1>7. CASE BootUncertain(l)
  BY <1>7, <1>d DEF BootUncertain
<1>8. CASE BootRemove(l)
  <2>1. PICK r : r = [run[l] EXCEPT !.pc = BootFailed(l), !.cand = 0]
    OBVIOUS
  <2>2. run' = [run EXCEPT ![l] = r]
    BY <1>8, <2>1 DEF BootRemove
  <2>3. /\ r \in Run /\ r.pc = BootFailed(l) /\ r.op = run[l].op /\ r.ino = run[l].ino
        /\ r.then = run[l].then /\ r.seen = run[l].seen
    BY <1>0, <1>a, <2>1, ZenonT(30) DEF Run
  <2>5. Fits(r, r.pc)
    BY <1>a, <2>3 DEF Fits
  <2>6. RunAgrees(r)
    BY <1>0, <2>3, <2>5, Zenon DEF RunAgrees
  <2> QED
    BY <2>2, <2>3, <2>6, RunBecomes, Zenon
<1> QED
  BY <1>1, <1>2, <1>3, <1>4, <1>5, <1>6, <1>7, <1>8 DEF BootStep

(* upgrade_workspace keeps the records well formed. *)
LEMMA UpgradeRun ==
  ASSUME RunTypes, NEW l \in Launchers, UpgradeStep(l)
  PROVE  RunTypes'
<1> USE DEF At, StopPoints, BootPoints, UpgradePoints, MovePoints, Locked, Points
<1>0. run[l] \in Run /\ RunAgrees(run[l])
  BY RunKnown
<1>p. run[l].pc \in UpgradePoints \cup {"u_plan", "u_failed"}
  BY DEF UpgradeStep, UpgradePlan, UpgradeOwner, UpgradeStart, UpgradeMigrated, UpgradeActivated,
         UpgradeVerify, UpgradeAbort, UpgradeFailed
<1>a. run[l].op = "upgrade"
  BY <1>0, <1>p DEF RunAgrees, Fits
<1>b. \A q \in {"open", "u_failed", "leave"} : Goto(l, q) => RunTypes'
  <2>1. \A q \in {"open", "u_failed", "leave"} : q \in Points /\ Fits(run[l], q)
    BY <1>a, Zenon DEF Fits, Ops
  <2> QED
    BY <2>1, JumpTypes, Zenon
<1>c. \A q \in {"u_stopped", "u_migrate", "u_activated", "u_abort", "s_check", "b_read"} :
        run[l].pc \in UpgradePoints => q \in Points /\ Fits(run[l], q)
  <2>1. run[l].pc \in UpgradePoints => run[l].ino # "none"
    BY <1>0 DEF RunAgrees, Fits
  <2> QED
    BY <2>1, <1>a, Zenon DEF Fits, Ops
<1>d. \A q \in {"u_stopped", "u_migrate", "u_activated", "u_abort", "s_check"} :
        run[l].pc \in UpgradePoints /\ Goto(l, q) => RunTypes'
  BY <1>c, JumpTypes, Zenon
<1>1. CASE UpgradePlan(l)
  BY <1>1, <1>b DEF UpgradePlan
<1>2. CASE UpgradeOwner(l)
  BY <1>2, <1>d, Zenon DEF UpgradeOwner
<1>3. CASE UpgradeStart(l)
  BY <1>3, <1>d, Zenon DEF UpgradeStart
<1>4. CASE UpgradeMigrated(l)
  BY <1>4, <1>d DEF UpgradeMigrated
<1>5. CASE UpgradeActivated(l)
  <2>1. PICK r : r = [run[l] EXCEPT !.pc = "b_read", !.then = "verify", !.flags = run[l].flags \cup {"activated"}]
    OBVIOUS
  <2>2. run' = [run EXCEPT ![l] = r] /\ run[l].pc \in UpgradePoints
    BY <1>5, <2>1 DEF UpgradeActivated
  <2>3. r \in Run /\ r.pc = "b_read" /\ r.op = run[l].op /\ r.ino = run[l].ino /\ r.then = "verify"
    BY <1>0, <2>1, ZenonT(30) DEF Run
  <2>4. Fits(run[l], "b_read")
    BY <1>c, <2>2
  <2>5. Fits(r, r.pc)
    BY <2>3, <2>4 DEF Fits
  <2>6. RunAgrees(r)
    BY <1>a, <2>3, <2>5 DEF RunAgrees
  <2> QED
    BY <2>2, <2>3, <2>6, RunBecomes, Zenon
<1>6. CASE UpgradeVerify(l)
  BY <1>6, <1>b, <1>d DEF UpgradeVerify
<1>7. CASE UpgradeAbort(l)
  <2>1. CASE run' = [run EXCEPT ![l] = [run[l] EXCEPT !.pc = "open", !.then = "recovered"]]
    <3>1. PICK r : r = [run[l] EXCEPT !.pc = "open", !.then = "recovered"]
      OBVIOUS
    <3>2. r \in Run /\ r.pc = "open" /\ r.op = run[l].op /\ r.then = "recovered"
      BY <1>0, <3>1, ZenonT(30) DEF Run
    <3>3. RunAgrees(r)
      BY <1>a, <3>2 DEF RunAgrees, Fits, Ops
    <3> QED
      BY <2>1, <3>1, <3>2, <3>3, RunBecomes, Zenon
  <2>2. CASE Goto(l, "u_failed")
    BY <2>2, <1>b
  <2> QED
    BY <1>7, <2>1, <2>2, Zenon DEF UpgradeAbort, Goto
<1>8. CASE UpgradeFailed(l)
  BY <1>8, <1>b DEF UpgradeFailed
<1> QED
  BY <1>1, <1>2, <1>3, <1>4, <1>5, <1>6, <1>7, <1>8 DEF UpgradeStep

(* relocate keeps the records well formed. *)
LEMMA RelocateRun ==
  ASSUME RunTypes, NEW l \in Launchers, RelocateStep(l)
  PROVE  RunTypes'
<1> USE DEF At, StopPoints, BootPoints, UpgradePoints, MovePoints, Locked, Points
<1>0. run[l] \in Run /\ RunAgrees(run[l])
  BY RunKnown
<1>p. run[l].pc \in MovePoints
  BY Zenon DEF RelocateStep, MoveTree, MoveCatalog, UndoMove, UndoRename, UndoRestore
<1>a. run[l].op = "relocate" /\ run[l].ino # "none" /\ run[l].then \notin {"verify", "recovered"}
  BY <1>0, <1>p DEF RunAgrees, Fits
<1>b. \A q \in {"r_undo", "s_check", "r_rename", "r_restore", "leave"} : Goto(l, q) => RunTypes'
  <2>1. \A q \in {"r_undo", "s_check", "r_rename", "r_restore", "leave"} : q \in Points /\ Fits(run[l], q)
    BY <1>a DEF Fits, Ops
  <2> QED
    BY <2>1, JumpTypes, Zenon
<1>1. CASE MoveTree(l)
  <2>1. CASE Goto(l, "r_undo")
    BY <2>1, <1>b
  <2>2. ASSUME NEW q \in {"r_catalog", "r_undo"},
               run' = [run EXCEPT ![l] = [run[l] EXCEPT !.pc = q, !.path = "new", !.flags = run[l].flags \cup {"moved"}]]
        PROVE  RunTypes'
    <3>1. PICK r : r = [run[l] EXCEPT !.pc = q, !.path = "new", !.flags = run[l].flags \cup {"moved"}]
      OBVIOUS
    <3>2. r \in Run /\ r.pc = q /\ r.op = run[l].op /\ r.ino = run[l].ino /\ r.then = run[l].then
      BY <1>0, <3>1, ZenonT(30) DEF Run
    <3>3. Fits(r, r.pc)
      BY <1>a, <3>2 DEF Fits
    <3>4. RunAgrees(r)
      BY <1>0, <3>2, <3>3, Zenon DEF RunAgrees
    <3> QED
      BY <2>2, <3>1, <3>2, <3>4, RunBecomes, Zenon
  <2> QED
    BY <1>1, <2>1, <2>2 DEF MoveTree
<1>2. CASE MoveCatalog(l)
  <2>1. CASE Goto(l, "r_undo")
    BY <2>1, <1>b
  <2>2. CASE run' = [run EXCEPT ![l] = [run[l] EXCEPT !.pc = "b_read", !.then = "relocated"]]
    <3>1. PICK r : r = [run[l] EXCEPT !.pc = "b_read", !.then = "relocated"]
      OBVIOUS
    <3>2. r \in Run /\ r.pc = "b_read" /\ r.op = run[l].op /\ r.ino = run[l].ino /\ r.then = "relocated"
      BY <1>0, <3>1, ZenonT(30) DEF Run
    <3>3. RunAgrees(r)
      BY <1>a, <3>2 DEF RunAgrees, Fits
    <3> QED
      BY <2>2, <3>1, <3>2, <3>3, RunBecomes, Zenon
  <2> QED
    BY <1>2, <2>1, <2>2 DEF MoveCatalog
<1>3. CASE UndoMove(l)
  BY <1>3, <1>b, Zenon DEF UndoMove, Goto
<1>4. CASE UndoRename(l)
  BY <1>4, <1>b DEF UndoRename
<1>5. CASE UndoRestore(l)
  <2>1. PICK q \in {"b_read", "leave"} :
          run' = [run EXCEPT ![l] = [run[l] EXCEPT !.pc = q, !.path = "old", !.then = "rolledback", !.flags = {}]]
    BY <1>5, Zenon DEF UndoRestore
  <2>2. PICK r : r = [run[l] EXCEPT !.pc = q, !.path = "old", !.then = "rolledback", !.flags = {}]
    OBVIOUS
  <2>3. r \in Run /\ r.pc = q /\ r.op = run[l].op /\ r.ino = run[l].ino /\ r.then = "rolledback"
    BY <1>0, <2>2, ZenonT(30) DEF Run
  <2>4. RunAgrees(r)
    BY <1>a, <2>3 DEF RunAgrees, Fits
  <2> QED
    BY <2>1, <2>2, <2>3, <2>4, RunBecomes, Zenon
<1> QED
  BY <1>1, <1>2, <1>3, <1>4, <1>5 DEF RelocateStep

(* The start, the lock and the end of a command keep the records well      *)
(* formed.                                                                 *)
LEMMA CommandRun ==
  ASSUME RunTypes, WorldTypes, NEW l \in Launchers, CommandStep(l)
  PROVE  RunTypes'
<1> USE DEF At, StopPoints, BootPoints, UpgradePoints, MovePoints, Locked, Points
<1>0. run[l] \in Run /\ RunAgrees(run[l])
  BY RunKnown
<1>d. PICK r : r = [NoRun EXCEPT !.pc = "done"]
  BY Zenon
<1>e. run' = [run EXCEPT ![l] = r] => RunTypes'
  <2>1. r \in Run /\ r.pc = "done" /\ r.then = "end"
    BY <1>d DEF NoRun, Run
  <2>2. RunAgrees(r)
    BY <2>1 DEF RunAgrees, Fits
  <2> QED
    BY <2>1, <2>2, RunBecomes, Zenon
<1>1. ASSUME NEW op \in Ops, NEW p \in {"old", "new"}, Begin(l, op, p)
      PROVE  RunTypes'
  <2>1. PICK b : b = [NoRun EXCEPT !.op = op, !.path = p, !.pc = IF op = "upgrade" THEN "u_plan" ELSE "open"]
    OBVIOUS
  <2>2. b \in Run /\ b.op = op /\ b.then = "end" /\ b.pc = IF op = "upgrade" THEN "u_plan" ELSE "open"
    BY <2>1, Zenon DEF NoRun, Run
  <2>3. RunAgrees(b)
    BY <2>2 DEF RunAgrees, Fits
  <2>4. run' = [run EXCEPT ![l] = b]
    BY <1>1, <2>1 DEF Begin
  <2> QED
    BY <2>2, <2>3, <2>4, RunBecomes, Zenon
<1>2. CASE OpenMutex(l)
  <2>1. PICK i : i = IF Found(run[l].path) = "tree" THEN "tree" ELSE run[l].path
    OBVIOUS
  <2>2. PICK b : b = [run[l] EXCEPT !.pc = "lock", !.ino = i]
    OBVIOUS
  <2>3. run' = [run EXCEPT ![l] = b] /\ run[l].pc = "open"
    BY <1>2, <2>1, <2>2, Zenon DEF OpenMutex
  <2>4. i \in {"tree", "old", "new"}
    BY <1>0, <2>1 DEF Run
  <2>5. b \in Run /\ b.op = run[l].op /\ b.then = run[l].then /\ b.pc = "lock" /\ b.ino = i
    BY <1>0, <2>2, <2>4, ZenonT(30) DEF Run
  <2>6. run[l].op \in Ops
    BY <1>0, <2>3 DEF RunAgrees, Fits
  <2>7. Fits(b, b.pc)
    BY <2>4, <2>5, <2>6 DEF Fits
  <2>8. RunAgrees(b)
    BY <1>0, <2>5, <2>7, Zenon DEF RunAgrees
  <2> QED
    BY <2>3, <2>5, <2>8, RunBecomes, Zenon
<1>3. CASE TakeMutex(l)
  <2>1. run[l].pc = "lock" /\ Goto(l, First(l))
    BY <1>3, Zenon DEF TakeMutex
  <2>2. run[l].op \in Ops /\ run[l].ino # "none"
    BY <1>0, <2>1, Zenon DEF RunAgrees, Fits
  <2>3. First(l) \in Points /\ Fits(run[l], First(l))
    BY <2>2 DEF First, Fits
  <2> QED
    BY <2>1, <2>3, JumpTypes, Zenon
<1>4. CASE Leave(l)
  BY <1>4, <1>d, <1>e DEF Leave
<1>5. ASSUME NEW k \in Kinds, StartByHand(l, k)
      PROVE  RunTypes'
  <2>1. Goto(l, "by_hand")
    BY <1>5, Zenon DEF StartByHand, Goto
  <2>2. "by_hand" \in Points /\ Fits(run[l], "by_hand")
    BY DEF Fits
  <2> QED
    BY <2>1, <2>2, JumpTypes, Zenon
<1>6. CASE EndByHand(l)
  <2>1. Goto(l, "leave")
    BY <1>6 DEF EndByHand
  <2>2. "leave" \in Points /\ Fits(run[l], "leave")
    BY DEF Fits
  <2> QED
    BY <2>1, <2>2, JumpTypes, Zenon
<1>7. CASE Cut(l)
  BY <1>7, <1>d, <1>e DEF Cut
<1> QED
  BY <1>1, <1>2, <1>3, <1>4, <1>5, <1>6, <1>7 DEF CommandStep

(* Every step keeps the records well formed. *)
LEMMA RunStep ==
  ASSUME RunTypes, WorldTypes, [Next]_vars
  PROVE  RunTypes'
<1>1. ASSUME NEW n \in Runtimes, Admit(n) \/ Serve(n) \/ Exit(n) \/ Die(n)
      PROVE  RunTypes'
  BY <1>1 DEF Admit, Serve, Exit, Die, RunTypes
<1>2. CASE MaintenanceStep
  BY <1>2 DEF MaintenanceStep, RunTypes
<1>3. CASE UNCHANGED vars
  BY <1>3, Zenon DEF vars, RunTypes
<1> QED
  BY <1>1, <1>2, <1>3, CommandRun, StopRun, BootRun, UpgradeRun, RelocateRun, Zenon DEF Next

(* Stopping an owner keeps the types of what it writes. *)
LEMMA StopWorld ==
  ASSUME RunTypes, WorldTypes, NEW l \in Launchers, StopStep(l)
  PROVE  WorldTypes'
<1> USE DEF WorldTypes, maintenance, support
<1>1. CASE StopCheck(l)
  BY <1>1, Zenon DEF StopCheck
<1>2. CASE StopIdle(l)
  BY <1>2, Zenon DEF StopIdle
<1>3. CASE StopFence(l)
  BY <1>3, ZenonT(40) DEF StopFence
<1>4. CASE Signal(l)
  BY <1>4 DEF Signal, Owner, Unfenced, Live
<1>5. CASE Escalate(l)
  BY <1>5, Zenon DEF Escalate, Killed, Live
<1>6. CASE StopUncertain(l)
  BY <1>6, Zenon DEF StopUncertain, Unfenced
<1>7. CASE StopSeen(l)
  BY <1>7 DEF StopSeen, Unfenced
<1>8. CASE StopClear(l)
  BY <1>8, Zenon DEF StopClear
<1> QED
  BY <1>1, <1>2, <1>3, <1>4, <1>5, <1>6, <1>7, <1>8 DEF StopStep

(* Starting a Runtime keeps the types of what it writes. *)
LEMMA BootWorld ==
  ASSUME RunTypes, WorldTypes, NEW l \in Launchers, BootStep(l)
  PROVE  WorldTypes'
<1> USE DEF WorldTypes, maintenance, support
<1>1. CASE BootRead(l)
  BY <1>1, Zenon DEF BootRead
<1>2. CASE BootClear(l)
  BY <1>2 DEF BootClear
<1>3. CASE BootSpawn(l)
  BY <1>3, ZenonT(30) DEF BootSpawn, Live
<1>4. CASE BootReady(l)
  BY <1>4, Zenon DEF BootReady
<1>5. CASE BootCommit(l)
  BY <1>5 DEF BootCommit, RunTypes, Run
<1>6. CASE BootUndo(l)
  BY <1>6, Zenon DEF BootUndo, Killed, Live
<1>7. CASE BootUncertain(l)
  BY <1>7 DEF BootUncertain
<1>8. CASE BootRemove(l)
  BY <1>8, Zenon DEF BootRemove
<1> QED
  BY <1>1, <1>2, <1>3, <1>4, <1>5, <1>6, <1>7, <1>8 DEF BootStep

(* relocate keeps the types of what it writes. *)
LEMMA RelocateWorld ==
  ASSUME RunTypes, WorldTypes, NEW l \in Launchers, RelocateStep(l)
  PROVE  WorldTypes'
<1> USE DEF WorldTypes, maintenance, support
<1>1. CASE MoveTree(l)
  BY <1>1 DEF MoveTree
<1>2. CASE MoveCatalog(l)
  BY <1>2 DEF MoveCatalog
<1>3. CASE UndoMove(l)
  BY <1>3, Zenon DEF UndoMove
<1>4. CASE UndoRename(l)
  BY <1>4, Zenon DEF UndoRename
<1>5. CASE UndoRestore(l)
  BY <1>5, Zenon DEF UndoRestore
<1> QED
  BY <1>1, <1>2, <1>3, <1>4, <1>5, Zenon DEF RelocateStep

(* A maintenance that starts, and none. *)
LEMMA JobFits ==
  /\ \A k \in Kinds, m \in Launchers :
       [kind |-> k, by |-> m, pc |-> "start"]
         \in [kind : Kinds \cup {"none"}, by : Launchers \cup {"nobody"}, pc : JobPoints]
  /\ NoJob.kind = "none" /\ NoJob.pc = "idle"
BY DEF JobPoints, NoJob

(* upgrade_workspace keeps the types of what it writes. *)
LEMMA UpgradeWorld ==
  ASSUME RunTypes, WorldTypes, NEW l \in Launchers, UpgradeStep(l)
  PROVE  WorldTypes'
<1> USE DEF WorldTypes, maintenance, support
<1>1. CASE UpgradePlan(l)
  BY <1>1, Zenon DEF UpgradePlan
<1>2. CASE UpgradeOwner(l)
  BY <1>2, Zenon DEF UpgradeOwner
<1>3. CASE UpgradeStart(l)
  <2>1. job' = job \/ \E k \in {"upgrade", "migrate"} : job' = [kind |-> k, by |-> l, pc |-> "start"]
    BY <1>3, Zenon DEF UpgradeStart, OwnerFence
  <2>2. {"upgrade", "migrate"} \subseteq Kinds
    BY Zenon DEF Kinds
  <2>3. job' \in [kind : Kinds \cup {"none"}, by : Launchers \cup {"nobody"}, pc : JobPoints]
    <3>1. CASE job' = job
      BY <3>1, Zenon
    <3>2. ASSUME NEW k \in {"upgrade", "migrate"}, job' = [kind |-> k, by |-> l, pc |-> "start"]
          PROVE  job' \in [kind : Kinds \cup {"none"}, by : Launchers \cup {"nobody"}, pc : JobPoints]
      <4>1. k \in Kinds
        BY <2>2, <3>2, Zenon
      <4> QED
        BY <3>2, <4>1, JobFits, Zenon
    <3> QED
      BY <2>1, <3>1, <3>2, Zenon
  <2> QED
    BY <1>3, <2>3, Zenon DEF UpgradeStart
<1>4. CASE UpgradeMigrated(l)
  BY <1>4 DEF UpgradeMigrated, NoJob, JobPoints
<1>5. CASE UpgradeActivated(l)
  BY <1>5 DEF UpgradeActivated
<1>6. CASE UpgradeVerify(l)
  BY <1>6 DEF UpgradeVerify
<1>7. CASE UpgradeAbort(l)
  BY <1>7, Zenon DEF UpgradeAbort, Released
<1>8. CASE UpgradeFailed(l)
  BY <1>8, Zenon DEF UpgradeFailed
<1> QED
  BY <1>1, <1>2, <1>3, <1>4, <1>5, <1>6, <1>7, <1>8, Zenon DEF UpgradeStep

(* The start, the lock and the end of a command keep the types of what     *)
(* they write.                                                             *)
LEMMA CommandWorld ==
  ASSUME RunTypes, WorldTypes, NEW l \in Launchers, CommandStep(l)
  PROVE  WorldTypes'
<1> USE DEF WorldTypes, maintenance, support
<1>1. ASSUME NEW op \in Ops, NEW p \in {"old", "new"}, Begin(l, op, p)
      PROVE  WorldTypes'
  BY <1>1 DEF Begin
<1>2. CASE OpenMutex(l)
  BY <1>2, Zenon DEF OpenMutex, RunTypes, Run
<1>3. CASE TakeMutex(l)
  BY <1>3, Zenon DEF TakeMutex
<1>4. CASE Leave(l)
  BY <1>4 DEF Leave, Released
<1>5. ASSUME NEW k \in Kinds, StartByHand(l, k)
      PROVE  WorldTypes'
  BY <1>5, ZenonT(30) DEF StartByHand, OwnerFence, JobPoints
<1>6. CASE EndByHand(l)
  BY <1>6, Zenon DEF EndByHand, NoJob, JobPoints
<1>7. CASE Cut(l)
  BY <1>7 DEF Cut, JobCut, NoJob, JobPoints, Released, Unfenced
<1> QED
  BY <1>1, <1>2, <1>3, <1>4, <1>5, <1>6, <1>7, Zenon DEF CommandStep

(* A step of the maintenance is made while it runs, and leaves the lock    *)
(* alone.                                                                  *)
LEMMA JobMoves ==
  ASSUME WorldTypes, JobStep
  PROVE  /\ version' \in Versions /\ Maintaining /\ job.kind \in Kinds
         /\ job' \in [kind : Kinds \cup {"none"}, by : Launchers \cup {"nobody"}, pc : JobPoints]
         /\ UNCHANGED <<lock, committed>>
BY DEF JobStep, WorldTypes, Maintaining, JobAt, JobGoto, JobPoints, Kinds, Versions, ArchiveSource, BuildCandidate,
       CheckpointSourceWal, ActivateCandidate, ConfirmActivation, RollbackFails, RollbackDatabase,
       RollbackSidecars, Migrate, CompactInto, CompactSwap

(* Every step keeps the types of the files, locks and processes. *)
LEMMA WorldStep ==
  ASSUME RunTypes, WorldTypes, [Next]_vars
  PROVE  WorldTypes'
<1> USE DEF WorldTypes, maintenance, support
<1>1. ASSUME NEW n \in Runtimes, Admit(n) \/ Serve(n) \/ Exit(n) \/ Die(n)
      PROVE  WorldTypes'
  <2>1. CASE Admit(n)
    BY <2>1, Zenon DEF Admit, Live
  <2>2. CASE Serve(n)
    BY <2>2, Zenon DEF Serve
  <2>3. CASE Exit(n)
    BY <2>3 DEF Exit
  <2>4. CASE Die(n)
    BY <2>4, Zenon DEF Die, Killed
  <2> QED
    BY <1>1, <2>1, <2>2, <2>3, <2>4, Zenon
<1>2. CASE MaintenanceStep
  BY <1>2, JobMoves, Zenon DEF MaintenanceStep
<1>3. CASE UNCHANGED vars
  BY <1>3 DEF vars
<1> QED
  BY <1>1, <1>2, <1>3, CommandWorld, StopWorld, BootWorld, UpgradeWorld, RelocateWorld, Zenon DEF Next

(* A step of one command changes the record of no other. *)
LEMMA OthersStay ==
  ASSUME RunTypes, NEW l \in Launchers,
         CommandStep(l) \/ StopStep(l) \/ BootStep(l) \/ UpgradeStep(l) \/ RelocateStep(l)
  PROVE  Others(l)
<1> USE DEF RunTypes, Others, Goto
<1>1. CASE CommandStep(l)
  BY <1>1, Zenon DEF CommandStep, Begin, OpenMutex, TakeMutex, Leave, StartByHand, EndByHand, Cut
<1>2. CASE StopStep(l)
  BY <1>2, Zenon DEF StopStep, StopCheck, StopIdle, StopFence, Signal, Escalate, StopUncertain, StopSeen, StopClear
<1>3. CASE BootStep(l)
  BY <1>3, Zenon DEF BootStep, BootRead, BootClear, BootSpawn, BootReady, BootCommit, BootUndo, BootUncertain,
              BootRemove, Started
<1>4. CASE UpgradeStep(l)
  BY <1>4, Zenon DEF UpgradeStep, UpgradePlan, UpgradeOwner, UpgradeStart, UpgradeMigrated, UpgradeActivated,
              UpgradeVerify, UpgradeAbort, UpgradeFailed
<1>5. CASE RelocateStep(l)
  BY <1>5 DEF RelocateStep, MoveTree, MoveCatalog, UndoMove, UndoRename, UndoRestore
<1> QED
  BY <1>1, <1>2, <1>3, <1>4, <1>5, Zenon

(* owner.lock. *)
LEMMA OwnerStep ==
  ASSUME RunTypes, WorldTypes, OwnerLocked, [Next]_vars
  PROVE  OwnerLocked'
<1> USE DEF OwnerLocked, WorldTypes, maintenance, support
<1>z. 0 \notin Runtimes
  BY BoundsAssumption DEF Runtimes
<1>s. UNCHANGED <<proc, lock, job>> => OwnerLocked'
  BY Zenon DEF Maintaining
<1>1. ASSUME NEW n \in Runtimes, Admit(n) \/ Serve(n) \/ Exit(n) \/ Die(n)
      PROVE  OwnerLocked'
  <2>1. CASE Admit(n)
    BY <2>1, <1>z, Zenon DEF Admit, Unowned, Maintaining
  <2>2. CASE Serve(n)
    BY <2>2, <1>s DEF Serve
  <2>3. CASE Exit(n)
    BY <2>3, <1>z, Zenon DEF Exit, Maintaining
  <2>4. CASE Die(n)
    BY <2>4, <1>z, Zenon DEF Die, Killed, Maintaining
  <2> QED
    BY <1>1, <2>1, <2>2, <2>3, <2>4
<1>2. CASE MaintenanceStep
  BY <1>2, JobMoves, Zenon DEF MaintenanceStep, Maintaining
<1>3. CASE UNCHANGED vars
  BY <1>3, <1>s, Zenon DEF vars
<1>4. ASSUME NEW l \in Launchers, CommandStep(l)
      PROVE  OwnerLocked'
  <2>1. CASE \E op \in Ops, p \in {"old", "new"} : Begin(l, op, p)
    BY <2>1, <1>s DEF Begin
  <2>2. CASE OpenMutex(l) \/ TakeMutex(l) \/ Leave(l)
    BY <2>2, <1>s DEF OpenMutex, TakeMutex, Leave
  <2>3. CASE \E k \in Kinds : StartByHand(l, k)
    BY <2>3, Zenon DEF StartByHand, OwnerFence, Unowned
  <2>4. CASE EndByHand(l)
    BY <2>4 DEF EndByHand, NoJob, Maintaining
  <2>5. CASE Cut(l)
    <3>1. UNCHANGED <<proc, lock>>
      BY <2>5, Zenon DEF Cut
    <3>2. job' = job \/ job' = NoJob
      BY <2>5, Zenon DEF Cut, JobCut
    <3>3. NoJob.pc = "idle"
      BY Zenon DEF NoJob
    <3>4. Maintaining' => Maintaining
      BY <3>2, <3>3, Zenon DEF Maintaining
    <3> QED
      BY <3>1, <3>4, <1>s, Zenon
  <2> QED
    BY <1>4, <2>1, <2>2, <2>3, <2>4, <2>5, Zenon DEF CommandStep
<1>5. ASSUME NEW l \in Launchers, StopStep(l)
      PROVE  OwnerLocked'
  <2>1. CASE Signal(l)
    BY <2>1, <1>z, Zenon DEF Signal, Owner, Maintaining
  <2>2. CASE Escalate(l)
    BY <2>2, <1>z DEF Escalate, Killed, Maintaining, RunTypes, Run
  <2>3. CASE StopCheck(l) \/ StopIdle(l) \/ StopFence(l) \/ StopUncertain(l) \/ StopSeen(l) \/ StopClear(l)
    BY <2>3, <1>s, Zenon DEF StopCheck, StopIdle, StopFence, StopUncertain, StopSeen, StopClear
  <2> QED
    BY <1>5, <2>1, <2>2, <2>3, Zenon DEF StopStep
<1>6. ASSUME NEW l \in Launchers, BootStep(l)
      PROVE  OwnerLocked'
  <2>1. CASE BootSpawn(l)
    BY <2>1, <1>z, <1>s, Zenon DEF BootSpawn, Maintaining
  <2>2. CASE BootUndo(l)
    <3>1. run[l].cand \in Runtimes \cup {0} /\ Maintaining' = Maintaining
      BY <2>2, Zenon DEF BootUndo, Maintaining, RunTypes, Run
    <3>2. CASE Alive(run[l].cand)
      BY <2>2, <1>z, <3>1, <3>2 DEF BootUndo, Killed, Alive
    <3>3. CASE ~Alive(run[l].cand)
      BY <2>2, <1>s, <3>1, <3>3, Zenon DEF BootUndo
    <3> QED
      BY <3>2, <3>3, Zenon
  <2>3. CASE BootRead(l) \/ BootClear(l) \/ BootReady(l) \/ BootCommit(l) \/ BootUncertain(l) \/ BootRemove(l)
    BY <2>3, <1>s DEF BootRead, BootClear, BootReady, BootCommit, BootUncertain, BootRemove
  <2> QED
    BY <1>6, <2>1, <2>2, <2>3, Zenon DEF BootStep
<1>7. ASSUME NEW l \in Launchers, UpgradeStep(l)
      PROVE  OwnerLocked'
  <2>1. CASE UpgradeStart(l)
    BY <2>1, <1>s, Zenon DEF UpgradeStart, OwnerFence, Unowned, Maintaining
  <2>2. CASE UpgradeMigrated(l)
    BY <2>2, Zenon DEF UpgradeMigrated, NoJob, Maintaining
  <2>3. CASE UpgradePlan(l) \/ UpgradeOwner(l) \/ UpgradeActivated(l) \/ UpgradeVerify(l) \/ UpgradeAbort(l) \/ UpgradeFailed(l)
    BY <2>3, <1>s, Zenon DEF UpgradePlan, UpgradeOwner, UpgradeActivated, UpgradeVerify, UpgradeAbort, UpgradeFailed
  <2> QED
    BY <1>7, <2>1, <2>2, <2>3, Zenon DEF UpgradeStep
<1>8. ASSUME NEW l \in Launchers, RelocateStep(l)
      PROVE  OwnerLocked'
  BY <1>8, <1>s, Zenon DEF RelocateStep, MoveTree, MoveCatalog, UndoMove, UndoRename, UndoRestore
<1> QED
  BY <1>1, <1>2, <1>3, <1>4, <1>5, <1>6, <1>7, <1>8, Zenon DEF Next

(* The fence. *)
LEMMA FenceStill ==
  ASSUME FenceHeld, WorldTypes, NEW l \in Launchers, Others(l),
         run[l].pc \notin {"s_signal", "s_wait"}, UNCHANGED <<fence, work>>
  PROVE  FenceHeld'
BY DEF FenceHeld, WorldTypes, Others

(* Work that a fence excludes stays excluded until the fence is given      *)
(* back.                                                                   *)
LEMMA FenceStep ==
  ASSUME RunTypes, WorldTypes, FenceHeld, [Next]_vars
  PROVE  FenceHeld'
<1> USE DEF At, support
<1>1. ASSUME NEW n \in Runtimes, Admit(n) \/ Serve(n) \/ Exit(n) \/ Die(n)
      PROVE  FenceHeld'
  BY <1>1 DEF Admit, Serve, Exit, Die, FenceHeld
<1>2. CASE MaintenanceStep
  BY <1>2, Zenon DEF MaintenanceStep, FenceHeld
<1>3. CASE UNCHANGED vars
  BY <1>3, Zenon DEF vars, FenceHeld
<1>4. ASSUME NEW l \in Launchers, CommandStep(l)
      PROVE  FenceHeld'
  <2>0. Others(l)
    BY <1>4, OthersStay, Zenon
  <2>1. CASE Cut(l)
    BY <2>0, <2>1 DEF Cut, Unfenced, FenceHeld, WorldTypes, Others
  <2>2. CASE ~Cut(l)
    <3>1. run[l].pc \notin {"s_signal", "s_wait"} /\ UNCHANGED <<fence, work>>
      BY <1>4, <2>2, Zenon DEF CommandStep, Begin, OpenMutex, TakeMutex, Leave, StartByHand, EndByHand
    <3> QED
      BY <2>0, <3>1, FenceStill, Zenon
  <2> QED
    BY <2>1, <2>2
<1>5. ASSUME NEW l \in Launchers, StopStep(l)
      PROVE  FenceHeld'
  <2>0. Others(l) /\ run[l] \in Run /\ run' \in [Launchers -> Run]
    BY <1>5, OthersStay, StopRun, Zenon DEF RunTypes
  <2>1. CASE StopCheck(l) \/ StopIdle(l) \/ StopClear(l)
    <3>1. run[l].pc \notin {"s_signal", "s_wait"} /\ UNCHANGED <<fence, work>>
      BY <2>1 DEF StopCheck, StopIdle, StopClear
    <3> QED
      BY <2>0, <3>1, FenceStill
  <2>2. CASE StopFence(l)
    BY <2>0, <2>2 DEF StopFence, Goto, FenceHeld, RunTypes, Run
  <2>3. CASE Signal(l)
    BY <2>0, <2>3 DEF Signal, Goto, FenceHeld, RunTypes, Run, Unfenced, WorldTypes, Others
  <2>4. CASE Escalate(l)
    BY <2>4, Zenon DEF Escalate, FenceHeld
  <2>5. CASE StopUncertain(l) \/ StopSeen(l)
    BY <2>0, <2>5, Zenon DEF StopUncertain, StopSeen, FenceHeld, Unfenced, WorldTypes, Others
  <2> QED
    BY <1>5, <2>1, <2>2, <2>3, <2>4, <2>5 DEF StopStep
<1>6. ASSUME NEW l \in Launchers, BootStep(l) \/ UpgradeStep(l) \/ RelocateStep(l)
      PROVE  FenceHeld'
  <2>0. Others(l)
    BY <1>6, OthersStay, Zenon
  <2>1. run[l].pc \notin {"s_signal", "s_wait"} /\ UNCHANGED <<fence, work>>
    <3>1. CASE BootStep(l)
      BY <3>1, Zenon DEF BootStep, BootRead, BootClear, BootSpawn, BootReady, BootCommit, BootUndo, BootUncertain,
              BootRemove
    <3>2. CASE UpgradeStep(l)
      BY <3>2 DEF UpgradeStep, UpgradePlan, UpgradeOwner, UpgradeStart, UpgradeMigrated, UpgradeActivated,
              UpgradeVerify, UpgradeAbort, UpgradeFailed
    <3>3. CASE RelocateStep(l)
      BY <3>3 DEF RelocateStep, MoveTree, MoveCatalog, UndoMove, UndoRename, UndoRestore
    <3> QED
      BY <1>6, <3>1, <3>2, <3>3, Zenon
  <2> QED
    BY <2>0, <2>1, FenceStill
<1> QED
  BY <1>1, <1>2, <1>3, <1>4, <1>5, <1>6, ZenonT(40) DEF Next

(* The files. *)

(* What a reader finds holds at least the rows of the database file. *)
LEMMA SoundRows ==
  ASSUME NEW d \in File, NEW w \in File, Sound(d, w)
  PROVE  "base" \in Rows(d, w) /\ Rows(d, w) \subseteq {"base", "tail"}
BY DEF Sound, Rows, File

(* A checkpoint keeps what a reader finds, and the file readable. *)
LEMMA MergeKeeps ==
  ASSUME db \in File, wal \in File, Sound(db, wal), Merge
  PROVE  /\ db' \in File /\ wal' = Nothing /\ wal' \in File
         /\ Sound(db', wal') /\ Rows(db', wal') = Rows(db, wal)
<1>1. "base" \in Rows(db, wal) /\ Rows(db, wal) \subseteq {"base", "tail"}
  BY SoundRows
<1>2. PICK R : R = Rows(db, wal)
  OBVIOUS
<1>3. db' = [db EXCEPT !.rows = R] /\ wal' = Nothing
  BY <1>2 DEF Merge
<1>4. db' \in File /\ db'.rows = R /\ wal' \in File
  BY <1>1, <1>2, <1>3, Zenon DEF File, Nothing
<1> QED
  BY <1>1, <1>2, <1>3, <1>4 DEF Sound, Rows

(* A snapshot with every row a writer was told of has both rows, or no row   *)
(* is missing from the database.                                             *)
LEMMA SnapshotCovers ==
  ASSUME NEW a \in Snapshot, committed \subseteq {"base", "tail"}, Sound(a.db, a.wal), Sound(db, wal),
         db \in File, wal \in File, committed \subseteq Rows(a.db, a.wal)
  PROVE  Complete(a) \/ committed \subseteq Rows(db, wal)
<1>1. "base" \in Rows(db, wal) /\ "base" \in Rows(a.db, a.wal)
  BY SoundRows DEF Snapshot
<1> QED
  BY <1>1, Zenon DEF Complete

(* Every step of upgrade_realm, the migration and the compaction keeps the *)
(* files.                                                                  *)
LEMMA FilesJob ==
  ASSUME WorldTypes, FilesInv, JobStep
  PROVE  FilesInv'
<1> USE DEF JobAt, Archived
<1>0. /\ db \in File /\ wal \in File /\ archive \in Snapshot /\ kept \subseteq Snapshot
      /\ committed \subseteq {"base", "tail"} /\ Sound(db, wal)
  BY DEF FilesInv
<1>k. \A p \in JobPoints : JobGoto(p) => job'.pc = p /\ job'.kind = job.kind
  BY DEF WorldTypes, JobGoto
<1>n. Nothing \in File /\ NoArchive \in Snapshot
  BY Zenon DEF Nothing, NoArchive, File, Snapshot
<1>1. CASE ArchiveSource
  <2>1. /\ job.kind = "upgrade" /\ job.pc = "start" /\ archive' = [db |-> db, wal |-> wal]
        /\ job'.pc = "archived" /\ job'.kind = "upgrade" /\ UNCHANGED <<db, wal, kept, committed>>
    BY <1>1, <1>k DEF ArchiveSource, JobPoints
  <2>2. Preserved(db, wal) /\ archive' \in Snapshot /\ archive'.db = db /\ archive'.wal = wal
    BY <1>0, <2>1, Zenon DEF FilesInv, Snapshot
  <2> QED
    BY <1>0, <2>1, <2>2, Zenon DEF FilesInv, Preserved
<1>2. CASE BuildCandidate
  <2>1. /\ job.kind = "upgrade" /\ job.pc = "archived" /\ job'.kind = "upgrade"
        /\ \/ job'.pc = "built" /\ wal = archive.wal /\ archive' = archive
           \/ job'.pc = "failed" /\ archive' = NoArchive
        /\ UNCHANGED <<db, wal, kept, committed>>
    BY <1>2, <1>k DEF BuildCandidate, JobPoints, SnapshotUnchanged
  <2> QED
    BY <1>0, <1>n, <2>1, Zenon DEF FilesInv, Preserved
<1>3. CASE CheckpointSourceWal
  <2>1. /\ job.kind = "upgrade" /\ job.pc = "built" /\ job'.kind = "upgrade"
        /\ \/ Merge /\ job'.pc = "merged"
           \/ UNCHANGED <<db, wal>> /\ job'.pc = "rollback"
        /\ UNCHANGED <<archive, kept, committed>>
    BY <1>3, <1>k, Zenon DEF CheckpointSourceWal, JobPoints
  <2>2. CASE Merge /\ job'.pc = "merged"
    <3>1. db' \in File /\ wal' = Nothing /\ wal' \in File /\ Sound(db', wal') /\ Rows(db', wal') = Rows(db, wal)
      BY <1>0, <2>2, MergeKeeps, Zenon
    <3> QED
      BY <1>0, <2>1, <2>2, <3>1 DEF FilesInv, Preserved
  <2>3. CASE UNCHANGED <<db, wal>> /\ job'.pc = "rollback"
    BY <1>0, <2>1, <2>3 DEF FilesInv, Preserved
  <2> QED
    BY <2>1, <2>2, <2>3
<1>4. CASE ActivateCandidate
  <2>1. /\ job.kind = "upgrade" /\ job.pc = "merged" /\ job'.kind = "upgrade"
        /\ \/ db' = Candidate /\ job'.pc = "swapped"
           \/ db' = db /\ job'.pc = "rollback"
        /\ UNCHANGED <<wal, archive, kept, committed>> /\ wal = Nothing
    BY <1>4, <1>k, Zenon DEF ActivateCandidate, JobPoints, FilesInv
  <2>2. Sound(archive.db, archive.wal) /\ Preserved(archive.db, archive.wal) /\ Preserved(db, wal)
    BY <2>1, Zenon DEF FilesInv
  <2>3. CASE db' = Candidate /\ job'.pc = "swapped"
    <3>1. PICK R : R = Rows(archive.db, archive.wal)
      OBVIOUS
    <3>2. "base" \in R /\ R \subseteq {"base", "tail"}
      BY <1>0, <2>2, <3>1, SoundRows DEF Snapshot
    <3>3. db' \in File /\ db'.rows = R
      BY <2>3, <3>1, <3>2 DEF Candidate, File
    <3>4. Sound(db', wal') /\ Rows(db', wal') = Rows(archive.db, archive.wal)
      BY <2>1, <3>1, <3>2, <3>3, Zenon DEF Sound, Rows
    <3> QED
      BY <1>0, <2>1, <2>2, <2>3, <3>3, <3>4 DEF FilesInv, Preserved
  <2>4. CASE db' = db /\ job'.pc = "rollback"
    BY <1>0, <2>1, <2>2, <2>4, ZenonT(40) DEF FilesInv, Preserved
  <2> QED
    BY <2>1, <2>3, <2>4
<1>5. CASE ConfirmActivation
  <2>1. /\ job.kind = "upgrade" /\ job.pc = "swapped" /\ job'.kind = "upgrade"
        /\ \/ archive' = NoArchive /\ job'.pc = "ok"
           \/ archive' = archive /\ job'.pc = "rollback"
        /\ UNCHANGED <<db, wal, kept, committed>>
    BY <1>5, <1>k, Zenon DEF ConfirmActivation, JobPoints
  <2> QED
    BY <1>0, <1>n, <2>1 DEF FilesInv, Preserved
<1>6. CASE RollbackFails
  <2>1. /\ job.kind = "upgrade" /\ job.pc \in {"rollback", "restored"} /\ job'.kind = "upgrade" /\ job'.pc = "failed"
        /\ kept' = kept \cup {archive} /\ archive' = NoArchive
        /\ UNCHANGED <<db, wal, committed>>
    BY <1>6, <1>k, ZenonT(40) DEF RollbackFails, JobPoints
  <2>2. Sound(archive.db, archive.wal) /\ Preserved(archive.db, archive.wal)
    BY <2>1 DEF FilesInv
  <2>3. Preserved(db, wal)'
    BY <1>0, <2>1, <2>2, SnapshotCovers, Zenon DEF Preserved
  <2> QED
    BY <1>0, <1>n, <2>1, <2>3 DEF FilesInv
<1>7. CASE RollbackDatabase
  <2>1. /\ job.kind = "upgrade" /\ job.pc = "rollback" /\ job'.kind = "upgrade" /\ job'.pc = "restored"
        /\ db' = archive.db /\ UNCHANGED <<wal, archive, kept, committed>>
    BY <1>7, <1>k, Zenon DEF RollbackDatabase, JobPoints
  <2>2. Sound(archive.db, archive.wal) /\ Preserved(archive.db, archive.wal) /\ wal \in {Nothing, archive.wal}
    BY <2>1 DEF FilesInv
  <2>3. Sound(db', wal') /\ db' \in File
    BY <1>0, <2>1, <2>2, ZenonT(40) DEF Sound, Snapshot
  <2> QED
    BY <1>0, <2>1, <2>2, <2>3, Zenon DEF FilesInv, Preserved
<1>8. CASE RollbackSidecars
  <2>1. /\ job.kind = "upgrade" /\ job.pc = "restored" /\ job'.kind = "upgrade" /\ job'.pc = "failed"
        /\ wal' = archive.wal /\ archive' = NoArchive /\ UNCHANGED <<db, kept, committed>>
    BY <1>8, <1>k, Zenon DEF RollbackSidecars, JobPoints
  <2>2. Sound(archive.db, archive.wal) /\ Preserved(archive.db, archive.wal) /\ db = archive.db
    BY <2>1 DEF FilesInv
  <2>3. wal' \in File
    BY <1>0, <2>1, Zenon DEF Snapshot
  <2> QED
    BY <1>0, <1>n, <2>1, <2>2, <2>3 DEF FilesInv, Preserved
<1>9. CASE Migrate \/ CompactInto
  <2>1. /\ job.kind \in {"migrate", "compact"} /\ job.pc = "start" /\ job'.kind = job.kind
        /\ job'.pc \in {"ok", "failed", "vacuumed"} /\ Merge /\ UNCHANGED <<archive, kept, committed>>
    BY <1>9, <1>k DEF Migrate, CompactInto, JobPoints
  <2>2. db' \in File /\ wal' = Nothing /\ wal' \in File /\ Sound(db', wal') /\ Rows(db', wal') = Rows(db, wal)
    BY <1>0, <2>1, MergeKeeps
  <2> QED
    BY <1>0, <2>1, <2>2 DEF FilesInv, Preserved
<1>10. CASE CompactSwap
  <2>1. /\ job.kind = "compact" /\ job.pc = "vacuumed" /\ job'.kind = "compact" /\ job'.pc \in {"ok", "failed"}
        /\ db' = db \/ db' = [db EXCEPT !.of = "compacted"]
        /\ wal = Nothing /\ UNCHANGED <<wal, archive, kept, committed>>
    BY <1>10, <1>k DEF CompactSwap, JobPoints, FilesInv
  <2>2. db' \in File /\ db'.rows = db.rows
    BY <1>0, <2>1 DEF File
  <2>3. Sound(db', wal') /\ Rows(db', wal') = Rows(db, wal)
    BY <1>0, <2>1, <2>2, ZenonT(40) DEF Sound, Rows
  <2> QED
    BY <1>0, <2>1, <2>2, <2>3 DEF FilesInv, Preserved
<1> QED
  BY <1>1, <1>2, <1>3, <1>4, <1>5, <1>6, <1>7, <1>8, <1>9, <1>10, Zenon DEF JobStep

(* Steps that touch no file and leave the maintenance where it is, or at an  *)
(* end or a beginning.                                                       *)
LEMMA FilesStill ==
  ASSUME FilesInv, UNCHANGED <<db, wal, archive, kept, committed>>,
         job' = job \/ (job'.pc \in {"idle", "start"} /\ ~JobAt("upgrade", "restored"))
  PROVE  FilesInv'
BY DEF FilesInv, JobAt, Archived, Preserved

(* Taking owner.lock for the maintenance leaves the files alone. *)
LEMMA FilesFenced ==
  ASSUME FilesInv, NEW k, NEW m, OwnerFence(k, m), UNCHANGED <<db, wal, archive, kept, committed>>
  PROVE  FilesInv'
<1>1. job'.pc = "start" /\ job = NoJob
  BY DEF OwnerFence
<1>2. ~JobAt("upgrade", "restored")
  BY <1>1, JobFits, Zenon DEF JobAt
<1> QED
  BY <1>1, <1>2, FilesStill, Zenon

(* Every step keeps the files. *)
LEMMA FilesStep ==
  ASSUME RunTypes, WorldTypes, OwnerLocked, FilesInv, [Next]_vars
  PROVE  FilesInv'
<1> USE DEF maintenance
<1>1. ASSUME NEW n \in Runtimes, Admit(n) \/ Serve(n) \/ Exit(n) \/ Die(n)
      PROVE  FilesInv'
  <2>0. /\ db \in File /\ wal \in File /\ archive \in Snapshot /\ kept \subseteq Snapshot
        /\ committed \subseteq {"base", "tail"} /\ Sound(db, wal)
    BY DEF FilesInv
  <2>a. proc[n] \in {"serving", "draining"} => ~Archived /\ ~JobAt("compact", "vacuumed") /\ n # 0
    BY BoundsAssumption DEF OwnerLocked, Maintaining, Archived, JobAt, Runtimes
  <2>1. CASE Admit(n) \/ Die(n)
    BY <2>1, FilesStill, Zenon DEF Admit, Die
  <2>2. CASE Serve(n)
    <3>1. /\ wal' = [of |-> db.of, rows |-> {"tail"}] /\ committed' = committed \cup {"tail"}
          /\ UNCHANGED <<db, archive, kept, job>> /\ ~Archived /\ ~JobAt("compact", "vacuumed")
      BY <2>2, <2>a, Zenon DEF Serve
    <3>2. wal' \in File /\ Sound(db', wal') /\ wal' # Nothing /\ wal'.of = db'.of /\ wal'.rows = {"tail"}
      BY <2>0, <3>1 DEF File, Sound, Nothing
    <3>3. Rows(db', wal') = db.rows \cup {"tail"} /\ "base" \in db.rows
      BY <2>0, <3>1, <3>2, Zenon DEF Rows, Sound
    <3>4. Preserved(db, wal)'
      BY <2>0, <3>1, <3>3, Zenon DEF Preserved
    <3> QED
      BY <2>0, <3>1, <3>2, <3>4, Zenon DEF FilesInv, Archived, JobAt
  <2>3. CASE Exit(n)
    <3>1. Merge /\ UNCHANGED <<archive, kept, job, committed>> /\ ~Archived /\ ~JobAt("compact", "vacuumed")
      BY <2>3, <2>a DEF Exit
    <3>2. db' \in File /\ wal' \in File /\ Sound(db', wal') /\ Rows(db', wal') = Rows(db, wal)
      BY <2>0, <3>1, MergeKeeps
    <3> QED
      BY <2>0, <3>1, <3>2, Zenon DEF FilesInv, Archived, JobAt, Preserved
  <2> QED
    BY <1>1, <2>1, <2>2, <2>3, Zenon
<1>2. CASE MaintenanceStep
  BY <1>2, FilesJob, Zenon DEF MaintenanceStep
<1>3. CASE UNCHANGED vars
  BY <1>3, FilesStill DEF vars
<1>4. ASSUME NEW l \in Launchers, CommandStep(l)
      PROVE  FilesInv'
  <2>1. CASE (\E op \in Ops, p \in {"old", "new"} : Begin(l, op, p)) \/ OpenMutex(l) \/ TakeMutex(l) \/ Leave(l)
    BY <2>1, FilesStill, Zenon DEF Begin, OpenMutex, TakeMutex, Leave
  <2>2. CASE \E k \in Kinds : StartByHand(l, k)
    BY <2>2, FilesFenced, Zenon DEF StartByHand
  <2>3. CASE EndByHand(l)
    BY <2>3, FilesStill DEF EndByHand, NoJob, JobAt, Maintaining
  <2>4. CASE Cut(l)
    <3>1. CASE job.by # l
      BY <2>4, <3>1, FilesStill, Zenon DEF Cut
    <3>2. CASE job.by = l
      <4>0. /\ db \in File /\ wal \in File /\ archive \in Snapshot /\ kept \subseteq Snapshot
            /\ committed \subseteq {"base", "tail"} /\ Sound(db, wal)
        BY DEF FilesInv
      <4>1. /\ kept' = IF archive = NoArchive THEN kept ELSE kept \cup {archive}
            /\ archive' = NoArchive /\ job'.pc = "idle" /\ UNCHANGED <<db, wal, committed>>
        BY <2>4, <3>2, JobFits, Zenon DEF Cut, JobCut
      <4>2. archive' \in Snapshot /\ kept' \subseteq Snapshot /\ kept \subseteq kept'
        BY <4>0, <4>1 DEF NoArchive, Nothing, Snapshot, File
      <4>3. Preserved(db, wal)'
        <5>1. CASE JobAt("upgrade", "restored")
          <6>1. Sound(archive.db, archive.wal) /\ Preserved(archive.db, archive.wal)
            BY <5>1, Zenon DEF FilesInv, Archived, JobAt
          <6>2. archive # NoArchive
            <7>1. NoArchive.db.rows = {}
              BY Zenon DEF NoArchive, Nothing
            <7> QED
              BY <6>1, <7>1, Zenon DEF Sound
          <6> QED
            BY <4>0, <4>1, <6>1, <6>2, SnapshotCovers, Zenon DEF Preserved
        <5>2. CASE ~JobAt("upgrade", "restored")
          BY <4>1, <4>2, <5>2 DEF FilesInv, Preserved
        <5> QED
          BY <5>1, <5>2
      <4> QED
        BY <4>0, <4>1, <4>2, <4>3, Zenon DEF FilesInv, Archived, JobAt
    <3> QED
      BY <3>1, <3>2
  <2> QED
    BY <1>4, <2>1, <2>2, <2>3, <2>4, Zenon DEF CommandStep
<1>5. ASSUME NEW l \in Launchers, StopStep(l)
      PROVE  FilesInv'
  BY <1>5, FilesStill, Zenon DEF StopStep, StopCheck, StopIdle, StopFence, Signal, Escalate, StopUncertain, StopSeen, StopClear
<1>6. ASSUME NEW l \in Launchers, BootStep(l)
      PROVE  FilesInv'
  BY <1>6, FilesStill, Zenon DEF BootStep, BootRead, BootClear, BootSpawn, BootReady, BootCommit, BootUndo, BootUncertain,
              BootRemove
<1>7. ASSUME NEW l \in Launchers, UpgradeStep(l)
      PROVE  FilesInv'
  <2>1. CASE UpgradeStart(l)
    BY <2>1, FilesStill, FilesFenced, Zenon DEF UpgradeStart
  <2>2. CASE UpgradeMigrated(l)
    BY <2>2, FilesStill DEF UpgradeMigrated, NoJob, JobAt
  <2>3. CASE UpgradePlan(l) \/ UpgradeOwner(l) \/ UpgradeActivated(l) \/ UpgradeVerify(l) \/ UpgradeAbort(l) \/ UpgradeFailed(l)
    BY <2>3, FilesStill DEF UpgradePlan, UpgradeOwner, UpgradeActivated, UpgradeVerify, UpgradeAbort, UpgradeFailed
  <2> QED
    BY <1>7, <2>1, <2>2, <2>3, Zenon DEF UpgradeStep
<1>8. ASSUME NEW l \in Launchers, RelocateStep(l)
      PROVE  FilesInv'
  BY <1>8, FilesStill, Zenon DEF RelocateStep, MoveTree, MoveCatalog, UndoMove, UndoRename, UndoRestore
<1> QED
  BY <1>1, <1>2, <1>3, <1>4, <1>5, <1>6, <1>7, <1>8, Zenon DEF Next


(* No Runtime comes to life, and none that lives goes back to its start. *)
Shrinks ==
  \A n \in Runtimes :
    /\ Alive(n)' => Alive(n)
    /\ proc'[n] = "starting" => proc[n] = "starting"

(* A command whose record goes from r to q claims nothing it did not claim. *)
Calmer(r, q) ==
  /\ q.pc \in Locked => r.pc \in Locked
  /\ q.pc \in {"lock"} \cup Locked =>
       /\ r.pc \in {"lock"} \cup Locked
       /\ q.ino = r.ino /\ q.path \in {"old", r.path}
  /\ Quiet(q) => Quiet(r)
  /\ Waits(q) => Waits(r) /\ q.seen = r.seen
  /\ Spawned(q) => Spawned(r) /\ q.cand = r.cand /\ q.then = r.then

(* Two commands do not both hold the lock in the tree. *)
LEMMA OneHolder ==
  ASSUME TreeInv, ValidMove, NEW k \in Launchers, NEW l \in Launchers,
         run[k].pc \in Locked, run[k].ino = "tree", run[l].pc \in Locked, run[l].ino = "tree"
  PROVE  k = l
BY DEF TreeInv, MutexHeld

(* Only a command under the lock claims that the tree is quiet. *)
LEMMA ClaimsLocked ==
  ASSUME NEW r, Quiet(r) \/ Spawned(r) \/ Waits(r)
  PROVE  r.pc \in Locked
BY ZenonT(40) DEF Quiet, Spawned, Waits, Locked, StopPoints, BootPoints, MovePoints

(* A command under the lock whose path leads to the tree has the tree's lock. *)
LEMMA HasTree ==
  ASSUME RunTypes, TreeInv, ValidMove, NEW l \in Launchers, run[l].pc \in Locked, run[l].path = tree
  PROVE  run[l].ino = "tree" /\ mutex["tree"] = l
<1>1. run[l] \in Run /\ RunAgrees(run[l])
  BY RunKnown, Zenon
<1>2. run[l].ino \in {"tree", "old", "new"}
  BY <1>1, Zenon DEF Run, RunAgrees, Fits
<1> QED
  BY <1>2 DEF TreeInv, MutexHeld

(* No command but l makes a claim while l holds the lock in the tree. *)
LEMMA OthersSilent ==
  ASSUME TreeInv, ValidMove, NEW l \in Launchers, run[l].pc \in Locked, run[l].ino = "tree",
         NEW k \in Launchers \ {l}
  PROVE  ~Quiet(run[k]) /\ ~Spawned(run[k]) /\ ~Waits(run[k])
<1>1. SUFFICES ASSUME Quiet(run[k]) \/ Spawned(run[k]) \/ Waits(run[k])
               PROVE  FALSE
  BY Zenon
<1>2. run[k].ino = "tree"
  BY <1>1, Zenon DEF TreeInv, MutexHeld
<1>3. run[k].pc \in Locked
  BY <1>1, ClaimsLocked, Zenon
<1> QED
  BY <1>2, <1>3, OneHolder

(* A Runtime that is starting lives. *)
LEMMA StartingLives ==
  ASSUME NEW n \in Runtimes, proc[n] = "starting"
  PROVE  Alive(n)
<1>1. n # 0
  BY BoundsAssumption DEF Runtimes
<1> QED
  BY <1>1, Zenon DEF Alive, Live

(* A command under a lock knows which. *)
LEMMA LockedFile ==
  ASSUME RunTypes, NEW l \in Launchers, run[l].pc \in Locked
  PROVE  run[l].ino \in {"tree", "old", "new"}
BY DEF RunTypes, RunAgrees, Fits, Run

(* Steps that end Runtimes, or admit them, and touch no command. *)
LEMMA TreeRest ==
  ASSUME TreeInv, ValidMove, UNCHANGED <<run, tree, stubs, mutex, orphan>>, Shrinks
  PROVE  TreeInv'
<1>1. \A l \in Launchers : MutexHeld(l)'
  BY Zenon DEF TreeInv, MutexHeld
<1>2. ASSUME ~orphan'
      PROVE  /\ \A l \in Launchers : TreeQuiet(l)'
             /\ \A n \in Runtimes : proc'[n] = "starting" =>
                  \E l \in Launchers : Spawned(run'[l]) /\ run'[l].cand = n
  BY <1>2, Zenon DEF TreeInv, TreeQuiet, Shrinks
<1> QED
  BY <1>1, <1>2, Zenon DEF TreeInv

(* A step of a command that claims nothing new and starts no Runtime. *)
LEMMA TreeCalm ==
  ASSUME TreeInv, ValidMove, UNCHANGED <<tree, stubs, mutex, orphan>>, Shrinks,
         NEW l \in Launchers, Others(l), Calmer(run[l], run'[l]),
         Spawned(run[l]) => proc'[run[l].cand] # "starting" \/ (Spawned(run'[l]) /\ run'[l].cand = run[l].cand)
  PROVE  TreeInv'
<1>1. ASSUME NEW k \in Launchers
      PROVE  MutexHeld(k)'
  <2>1. CASE k = l
    <3>1. MutexHeld(l)
      BY Zenon DEF TreeInv
    <3>2. Quiet(run'[l]) \/ Spawned(run'[l]) \/ Waits(run'[l]) =>
            run'[l].pc \in Locked /\ (Quiet(run[l]) \/ Spawned(run[l]) \/ Waits(run[l]))
      BY ClaimsLocked, Zenon DEF Calmer
    <3> QED
      BY <2>1, <3>1, <3>2, Zenon DEF MutexHeld, Calmer
  <2>2. CASE k # l
    BY <2>2, Zenon DEF TreeInv, MutexHeld, Others
  <2> QED
    BY <2>1, <2>2, Zenon
<1>2. ASSUME ~orphan', NEW k \in Launchers
      PROVE  TreeQuiet(k)'
  <2>0. TreeQuiet(k) /\ TreeQuiet(l)
    BY <1>2, Zenon DEF TreeInv
  <2>1. CASE k = l
    BY <2>0, <2>1, Zenon DEF TreeQuiet, Calmer, Shrinks
  <2>2. CASE k # l
    BY <2>0, <2>2, ZenonT(30) DEF TreeQuiet, Others, Shrinks
  <2> QED
    BY <2>1, <2>2
<1>3. ASSUME ~orphan', NEW n \in Runtimes, proc'[n] = "starting"
      PROVE  \E k \in Launchers : Spawned(run'[k]) /\ run'[k].cand = n
  <2>1. PICK k \in Launchers : Spawned(run[k]) /\ run[k].cand = n
    BY <1>3, Zenon DEF TreeInv, Shrinks
  <2>2. CASE k = l
    BY <1>3, <2>1, <2>2, Zenon
  <2>3. CASE k # l
    BY <2>1, <2>3, Zenon DEF Others
  <2> QED
    BY <2>2, <2>3, Zenon
<1> QED
  BY <1>1, <1>2, <1>3, Zenon DEF TreeInv

(* The steps of l that change nothing but its record and what the tree's     *)
(* invariant does not speak of.                                              *)
LEMMA TreeMoves ==
  ASSUME TreeInv, ValidMove, UNCHANGED <<tree, stubs, mutex, orphan, proc>>,
         NEW l \in Launchers, Others(l), Calmer(run[l], run'[l]),
         Spawned(run[l]) => Spawned(run'[l]) /\ run'[l].cand = run[l].cand
  PROVE  TreeInv'
<1>1. Shrinks
  BY Zenon DEF Shrinks, Alive
<1> QED
  BY <1>1, TreeCalm, Zenon

(* A jump within the lock, or out of it, to a point where nothing is claimed. *)
LEMMA JumpCalmer ==
  ASSUME NEW l \in Launchers, NEW p \in Points, Jumps(l, p), p # "lock",
         p \in Locked => run[l].pc \in Locked,
         p \notin {"s_wait", "b_wait", "b_commit"},
         p \in {"r_move", "r_catalog", "r_undo", "r_rename", "s_clear", "b_read", "b_clear", "b_marker", "b_undo"}
           => Quiet(run[l]) \/ (p \in {"b_read", "b_clear", "b_marker", "b_undo"} /\ run[l].then # "relocated")
  PROVE  Calmer(run[l], run'[l])
BY Zenon DEF Calmer, Jumps, Quiet, Waits, Spawned

(* A step of the command that holds the lock in the tree: no other command   *)
(* makes a claim, so its own are all there is to show.                       *)
LEMMA TreeHolder ==
  ASSUME TreeInv, ValidMove, NEW l \in Launchers, Others(l), UNCHANGED <<stubs, mutex>>,
         tree' \in {tree, "new"} \/ "old" \notin stubs,
         run[l].pc \in Locked, run[l].ino = "tree", run'[l].ino = "tree",
         ~orphan' => ~orphan /\ TreeQuiet(l)',
         ~orphan' => \A n \in Runtimes : proc'[n] = "starting" => Spawned(run'[l]) /\ run'[l].cand = n
  PROVE  TreeInv'
<1>1. ASSUME NEW k \in Launchers
      PROVE  MutexHeld(k)'
  <2>1. MutexHeld(k)
    BY Zenon DEF TreeInv
  <2>2. CASE k = l
    BY <2>1, <2>2, Zenon DEF MutexHeld
  <2>3. CASE k # l
    BY <2>1, <2>3, Zenon DEF MutexHeld, Others
  <2> QED
    BY <2>2, <2>3, Zenon
<1>2. ASSUME ~orphan', NEW k \in Launchers
      PROVE  TreeQuiet(k)'
  <2>2. CASE k = l
    BY <1>2, <2>2, Zenon
  <2>3. CASE k # l
    BY <2>3, OthersSilent, Zenon DEF TreeQuiet, Others
  <2> QED
    BY <2>2, <2>3
<1> QED
  BY <1>1, <1>2, Zenon DEF TreeInv

(* What a command's record becomes. *)
LEMMA RunIs ==
  ASSUME RunTypes, NEW l \in Launchers, NEW r, run' = [run EXCEPT ![l] = r]
  PROVE  run'[l] = r
BY Zenon DEF RunTypes

(* Stopping an owner keeps the tree quiet where it was said to be. *)
LEMMA TreeStop ==
  ASSUME RunTypes, WorldTypes, OwnerLocked, TreeInv, ValidMove, NEW l \in Launchers, StopStep(l)
  PROVE  TreeInv'
<1> USE DEF At, support
<1>0. run[l] \in Run /\ RunAgrees(run[l])
  BY RunKnown
<1>o. Others(l)
  BY OthersStay
<1>t. run' \in [Launchers -> Run]
  BY StopRun, Zenon DEF RunTypes
<1>f. StopFailed(l) \in {"u_abort", "leave"}
  BY Zenon DEF StopFailed
<1>j. ASSUME NEW p \in {"u_abort", "leave", "s_fence", "s_signal"}, Goto(l, p),
             run[l].pc \in StopPoints, UNCHANGED <<tree, stubs, mutex, orphan, proc>>
      PROVE  TreeInv'
  <2>1. p \in Points /\ run[l].pc \in Locked /\ ~Spawned(run[l])
    BY <1>j DEF Points, Locked, StopPoints, UpgradePoints, Spawned
  <2>2. Jumps(l, p)
    BY <1>j, <2>1, GotoJumps, Zenon
  <2>3. Calmer(run[l], run'[l])
    BY <2>1, <2>2, JumpCalmer
  <2> QED
    BY <1>j, <1>o, <2>1, <2>3, TreeMoves, Zenon
<1>1. CASE StopCheck(l)
  <2>1. PICK q \in {"s_idle", "s_signal", "u_abort", "leave"}, d \in {disc, run[l].seen} :
          run' = [run EXCEPT ![l] = [run[l] EXCEPT !.seen = d, !.pc = q]]
    <3>1. CASE run' = [run EXCEPT ![l] = [run[l] EXCEPT !.seen = disc, !.pc = IF Fenced(l) THEN "s_idle" ELSE "s_signal"]]
      BY <3>1, Zenon
    <3>2. CASE run' = [run EXCEPT ![l] = [run[l] EXCEPT !.pc = StopFailed(l)]]
      <4>1. [run[l] EXCEPT !.pc = StopFailed(l)] = [run[l] EXCEPT !.seen = run[l].seen, !.pc = StopFailed(l)]
        BY <1>0, Zenon DEF Run
      <4> QED
        BY <1>f, <3>2, <4>1, Zenon
    <3> QED
      BY <1>1, <3>1, <3>2, Zenon DEF StopCheck
  <2>2. run'[l].pc = q /\ run'[l].ino = run[l].ino /\ run'[l].path = run[l].path /\ run[l].pc = "s_check"
    <3>1. PICK r : r = [run[l] EXCEPT !.seen = d, !.pc = q]
      OBVIOUS
    <3>2. r.pc = q /\ r.ino = run[l].ino /\ r.path = run[l].path
      BY <1>0, <3>1 DEF Run
    <3>3. run'[l] = r
      BY <2>1, <3>1, Zenon DEF RunTypes
    <3> QED
      BY <1>1, <3>2, <3>3, Zenon DEF StopCheck
  <2>3. Calmer(run[l], run'[l]) /\ ~Spawned(run[l])
    BY <2>2, Zenon DEF Calmer, Quiet, Waits, Spawned, Locked, StopPoints
  <2> QED
    BY <1>1, <1>o, <2>3, TreeMoves, Zenon DEF StopCheck
<1>2. CASE StopIdle(l)
  BY <1>2, <1>f, <1>j, Zenon DEF StopIdle, StopPoints
<1>3. CASE StopFence(l)
  BY <1>3, <1>f, <1>j DEF StopFence, StopPoints
<1>4. CASE Signal(l)
  <2>1. CASE Owner(run[l].path) /\ disc = run[l].seen
    <3>1. /\ Goto(l, "s_wait") /\ proc' = [proc EXCEPT ![disc] = "draining"] /\ run[l].pc = "s_signal"
          /\ UNCHANGED <<tree, stubs, mutex, orphan>>
      BY <1>4, <2>1, Zenon DEF Signal
    <3>2. disc \in Runtimes /\ disc # 0 /\ proc[disc] = "serving" /\ lock = disc /\ run[l].path = tree
      BY <2>1, Zenon DEF Owner, Selected, Found, WorldTypes, OwnerLocked
    <3>3. Jumps(l, "s_wait") /\ run[l].pc \in Locked
      BY <3>1, GotoJumps, Zenon DEF Points, Locked, StopPoints
    <3>4. run[l].ino = "tree" /\ mutex["tree"] = l
      BY <3>2, <3>3, HasTree, Zenon
    <3>5. Shrinks
      BY <3>1, <3>2, Zenon DEF Shrinks, Alive, WorldTypes, Live
    <3>6. ~Quiet(run[l]) /\ ~Spawned(run[l]) /\ ~Quiet(run'[l]) /\ ~Spawned(run'[l])
      BY <3>1, <3>3, Zenon DEF Quiet, Spawned, Jumps
    <3>7. ASSUME ~orphan, NEW n \in Runtimes, Alive(n)
          PROVE  n = disc
      <4>1. proc[n] # "starting"
        <5>1. \A k \in Launchers : ~Spawned(run[k])
          BY <3>3, <3>4, <3>6, OthersSilent, Zenon
        <5> QED
          BY <3>7, <5>1, Zenon DEF TreeInv
      <4> QED
        BY <3>2, <3>7, <4>1 DEF OwnerLocked, Alive, Live
    <3>8. run'[l].seen = disc /\ run'[l].ino = "tree"
      BY <2>1, <3>3, <3>4, ZenonT(30) DEF Jumps
    <3>9. ASSUME ~orphan'
          PROVE  TreeQuiet(l)'
      BY <3>1, <3>5, <3>6, <3>7, <3>8, <3>9, Zenon DEF TreeQuiet, Shrinks
    <3>10. ASSUME ~orphan', NEW n \in Runtimes, proc'[n] = "starting"
           PROVE  FALSE
      <4>1. proc[n] = "starting" /\ n # disc /\ Alive(n)
        BY <3>2, <3>5, <3>10, StartingLives DEF Shrinks
      <4> QED
        BY <3>1, <3>7, <3>10, <4>1, Zenon
    <3> QED
      BY <1>o, <3>1, <3>3, <3>4, <3>8, <3>9, <3>10, TreeHolder, Zenon
  <2>2. CASE ~(Owner(run[l].path) /\ disc = run[l].seen)
    BY <1>4, <2>2, <1>f, <1>j, Zenon DEF Signal, StopPoints
  <2> QED
    BY <2>1, <2>2, Zenon
<1>5. CASE Escalate(l)
  <2>1. Shrinks
    BY <1>0, <1>5, Zenon DEF Escalate, Killed, Shrinks, Alive, Live, WorldTypes, Run
  <2> QED
    BY <1>5, <2>1, TreeRest, Zenon DEF Escalate
<1>6. CASE StopUncertain(l)
  BY <1>6, <1>f, <1>j, Zenon DEF StopUncertain, StopPoints
<1>7. CASE StopSeen(l)
  <2>1. /\ Goto(l, "s_clear") /\ run[l].pc = "s_wait" /\ ~Alive(run[l].seen)
        /\ UNCHANGED <<tree, stubs, mutex, orphan, proc>>
    BY <1>7, Zenon DEF StopSeen
  <2>2. Jumps(l, "s_clear") /\ run[l].pc \in Locked
    BY <2>1, GotoJumps, Zenon DEF Points, Locked, StopPoints
  <2>3. Quiet(run'[l]) <=> Waits(run[l])
    BY <2>1, <2>2, Zenon DEF Quiet, Waits, Jumps
  <2>4. ~Spawned(run[l]) /\ ~Spawned(run'[l]) /\ ~Waits(run'[l])
    BY <2>1, <2>2, Zenon DEF Spawned, Waits, Jumps
  <2>5. CASE Waits(run[l])
    <3>1. run[l].ino = "tree" /\ run'[l].ino = "tree"
      BY <2>2, <2>5, Zenon DEF TreeInv, MutexHeld, Jumps
    <3>2. ASSUME ~orphan'
          PROVE  \A n \in Runtimes : ~Alive(n) /\ ~Alive(n)'
      <4>1. TreeQuiet(l)
        BY <2>1, <3>2, Zenon DEF TreeInv
      <4>2. \A n \in Runtimes : ~Alive(n)
        BY <2>1, <2>5, <4>1, Zenon DEF TreeQuiet
      <4> QED
        BY <2>1, <4>2, Zenon DEF Alive
    <3>3. ~orphan' => TreeQuiet(l)'
      BY <2>4, <3>2, Zenon DEF TreeQuiet
    <3>4. ~orphan' => \A n \in Runtimes : proc'[n] # "starting"
      BY <2>1, <3>2, StartingLives, Zenon
    <3> QED
      BY <1>o, <2>1, <2>2, <3>1, <3>3, <3>4, TreeHolder, Zenon
  <2>6. CASE ~Waits(run[l])
    <3>1. Calmer(run[l], run'[l])
      BY <2>2, <2>3, <2>4, <2>6, Zenon DEF Calmer, Jumps
    <3> QED
      BY <1>o, <2>1, <2>4, <3>1, TreeMoves, Zenon
  <2> QED
    BY <2>5, <2>6, Zenon
<1>8. CASE StopClear(l)
  <2>1. PICK q \in {AfterStop(l), StopFailed(l)} :
          run' = [run EXCEPT ![l] = [run[l] EXCEPT !.pc = q, !.seen = 0, !.flags = run[l].flags \cup {"stopped"}]]
    BY <1>8, Zenon DEF StopClear
  <2>2. /\ run'[l].pc = q /\ run'[l].ino = run[l].ino /\ run'[l].path = run[l].path
        /\ run'[l].op = run[l].op /\ run'[l].then = run[l].then /\ run[l].pc = "s_clear"
    <3>1. PICK r : r = [run[l] EXCEPT !.pc = q, !.seen = 0, !.flags = run[l].flags \cup {"stopped"}]
      OBVIOUS
    <3>2. r.pc = q /\ r.ino = run[l].ino /\ r.path = run[l].path /\ r.op = run[l].op /\ r.then = run[l].then
      BY <1>0, <3>1 DEF Run
    <3>3. run'[l] = r
      BY <2>1, <3>1, Zenon DEF RunTypes
    <3> QED
      BY <1>8, <3>2, <3>3, Zenon DEF StopClear
  <2>3. run[l].op \in {"down", "restart", "upgrade", "relocate"}
    BY <1>0, <2>2, Zenon DEF RunAgrees, Fits, Ops, StopPoints
  <2>4. /\ q \in {"leave", "b_read", "u_stopped", "r_move", "r_rename", "u_abort"}
        /\ q \in {"r_move", "r_rename"} => run[l].op = "relocate"
        /\ q = "b_read" => run[l].op = "restart"
    <3> DEFINE f == [down |-> "leave", restart |-> "b_read", upgrade |-> "u_stopped", relocate |-> "r_move"]
    <3>1. f["down"] = "leave" /\ f["restart"] = "b_read" /\ f["upgrade"] = "u_stopped" /\ f["relocate"] = "r_move"
      BY Zenon
    <3>2. AfterStop(l) = IF Undoing(l) THEN "r_rename" ELSE f[run[l].op]
      BY Zenon DEF AfterStop
    <3> HIDE DEF f
    <3> QED
      BY <1>f, <2>1, <2>3, <3>1, <3>2, Zenon DEF Undoing
  <2>5. run[l].then = "relocated" => run[l].op = "relocate"
    BY <1>0, Zenon DEF RunAgrees
  <2>6. Calmer(run[l], run'[l]) /\ ~Spawned(run[l])
    BY <2>2, <2>4, <2>5, Zenon DEF Calmer, Quiet, Waits, Spawned, Locked, StopPoints
  <2> QED
    BY <1>8, <1>o, <2>6, TreeMoves, Zenon DEF StopClear
<1> QED
  BY <1>1, <1>2, <1>3, <1>4, <1>5, <1>6, <1>7, <1>8 DEF StopStep

(* Starting a Runtime keeps the tree quiet where it was said to be. *)
LEMMA TreeBoot ==
  ASSUME RunTypes, WorldTypes, OwnerLocked, TreeInv, ValidMove, NEW l \in Launchers, BootStep(l)
  PROVE  TreeInv'
<1> USE DEF At, support
<1>0. run[l] \in Run /\ RunAgrees(run[l])
  BY RunKnown
<1>o. Others(l)
  BY OthersStay, Zenon
<1>p. run[l].pc \in BootPoints /\ run[l].pc \in Locked
  BY Zenon DEF BootStep, BootRead, BootClear, BootSpawn, BootReady, BootCommit, BootUndo, BootUncertain, BootRemove,
         BootPoints, Locked
<1>a. BootFailed(l) \in {"leave", "u_abort", "r_undo", "u_failed"} /\ BootDone(l) \in {"leave", "u_verify", "u_failed"}
  BY <1>0, <1>p, BootExits, Zenon
<1>b. BootFailed(l) = "r_undo" => run[l].then = "relocated"
  BY <1>0, <1>p, BootExits, Zenon
<1>j. ASSUME NEW p \in {"b_clear", "b_marker", BootFailed(l)}, Goto(l, p),
             run[l].pc \in {"b_read", "b_clear", "b_marker"}, UNCHANGED <<tree, stubs, mutex, orphan, proc>>
      PROVE  TreeInv'
  <2>1. p \in Points /\ ~Spawned(run[l])
    BY <1>j, <1>a, Zenon DEF Points, Locked, BootPoints, UpgradePoints, MovePoints, Spawned
  <2>2. Jumps(l, p)
    BY <1>j, <2>1, GotoJumps, Zenon
  <2>3. run[l].then = "relocated" => Quiet(run[l])
    BY <1>j, Zenon DEF Quiet
  <2>4. Calmer(run[l], run'[l])
    BY <1>a, <1>b, <1>p, <2>1, <2>2, <2>3, JumpCalmer, Zenon
  <2> QED
    BY <1>j, <1>o, <2>1, <2>4, TreeMoves, Zenon
<1>s. ASSUME Started(l), UNCHANGED <<tree, stubs, mutex, orphan, proc>>,
             Spawned(run[l]) => proc[run[l].cand] # "starting"
      PROVE  TreeInv'
  <2>1. PICK r : r = [run[l] EXCEPT !.pc = BootDone(l), !.cand = 0, !.flags = run[l].flags \cup {"restarted"}]
    OBVIOUS
  <2>2. r.pc = BootDone(l) /\ r.ino = run[l].ino /\ r.path = run[l].path
    BY <1>0, <2>1 DEF Run
  <2>3. run'[l] = r
    BY <1>s, <2>1, RunIs, Zenon DEF Started
  <2>4. Calmer(run[l], run'[l])
    BY <1>a, <1>p, <2>2, <2>3, Zenon DEF Calmer, Quiet, Waits, Spawned
  <2>5. Shrinks
    BY <1>s, Zenon DEF Shrinks, Alive
  <2> QED
    BY <1>o, <1>s, <2>4, <2>5, TreeCalm, Zenon
<1>1. CASE BootRead(l)
  <2>1. run[l].pc = "b_read" /\ UNCHANGED <<tree, stubs, mutex, orphan, proc>>
        /\ (Goto(l, BootFailed(l)) \/ Started(l) \/ Goto(l, "b_marker") \/ Goto(l, "b_clear"))
    BY <1>1, Zenon DEF BootRead
  <2> QED
    BY <2>1, <1>j, <1>s, Zenon DEF Spawned
<1>2. CASE BootClear(l)
  BY <1>2, <1>j, Zenon DEF BootClear
<1>3. CASE BootSpawn(l)
  <2>1. CASE Goto(l, BootFailed(l)) /\ proc' = proc
    BY <1>3, <2>1, <1>j, Zenon DEF BootSpawn
  <2>2. CASE \E n \in Runtimes :
               /\ Selected(run[l].path) /\ proc' = [proc EXCEPT ![n] = "starting"]
               /\ run' = [run EXCEPT ![l] = [run[l] EXCEPT !.pc = "b_wait", !.cand = n]]
    <3>1. PICK n \in Runtimes :
            /\ Selected(run[l].path) /\ proc' = [proc EXCEPT ![n] = "starting"]
            /\ run' = [run EXCEPT ![l] = [run[l] EXCEPT !.pc = "b_wait", !.cand = n]]
      BY <2>2, Zenon
    <3>2. run[l].pc = "b_marker" /\ UNCHANGED <<tree, stubs, mutex, orphan>>
      BY <1>3, Zenon DEF BootSpawn
    <3>3. PICK r : r = [run[l] EXCEPT !.pc = "b_wait", !.cand = n]
      OBVIOUS
    <3>4. r.pc = "b_wait" /\ r.cand = n /\ r.ino = run[l].ino /\ r.then = run[l].then
      BY <1>0, <3>3 DEF Run
    <3>5. run'[l] = r
      BY <3>1, <3>3, RunIs, Zenon
    <3>6. run[l].path = tree
      BY <3>1, Zenon DEF Selected, Found
    <3>7. run[l].ino = "tree" /\ run'[l].ino = "tree"
      BY <1>p, <3>4, <3>5, <3>6, HasTree, Zenon
    <3>8. ~orphan => \A m \in Runtimes : proc[m] # "starting"
      <4>1. \A k \in Launchers : ~Spawned(run[k])
        BY <1>p, <3>2, <3>7, OthersSilent DEF Spawned
      <4> QED
        BY <4>1, Zenon DEF TreeInv
    <3>9. ~orphan' => TreeQuiet(l)'
      <4>1. SUFFICES ASSUME ~orphan', run'[l].then = "relocated", NEW m \in Runtimes, Alive(m)'
                     PROVE  m = n
        BY <3>4, <3>5, Zenon DEF TreeQuiet, Quiet, Waits
      <4>2. Quiet(run[l])
        BY <3>2, <3>4, <3>5, <4>1, Zenon DEF Quiet
      <4>3. ~Alive(m)
        BY <3>2, <4>1, <4>2, Zenon DEF TreeInv, TreeQuiet
      <4> QED
        BY <3>1, <4>1, <4>3, Zenon DEF Alive, WorldTypes
    <3>10. ~orphan' => \A m \in Runtimes : proc'[m] = "starting" => Spawned(run'[l]) /\ run'[l].cand = m
      BY <3>1, <3>2, <3>4, <3>5, <3>8, Zenon DEF Spawned, WorldTypes
    <3> QED
      BY <1>o, <1>p, <3>2, <3>7, <3>9, <3>10, TreeHolder, Zenon
  <2> QED
    BY <1>3, <2>1, <2>2, Zenon DEF BootSpawn
<1>4. CASE BootReady(l)
  <2>1. run[l].pc = "b_wait" /\ Goto(l, "b_commit") /\ UNCHANGED <<tree, stubs, mutex, orphan, proc>>
    BY <1>4, Zenon DEF BootReady
  <2>2. Jumps(l, "b_commit")
    BY <2>1, GotoJumps, Zenon DEF Points, Locked, BootPoints
  <2>3. Calmer(run[l], run'[l]) /\ Spawned(run'[l]) /\ run'[l].cand = run[l].cand
    BY <1>p, <2>1, <2>2, Zenon DEF Calmer, Jumps, Quiet, Waits, Spawned
  <2> QED
    BY <1>o, <2>1, <2>3, TreeMoves, Zenon
<1>5. CASE BootCommit(l)
  BY <1>5, <1>s, Zenon DEF BootCommit
<1>6. CASE BootUndo(l)
  <2>c. PICK c : c = run[l].cand
    BY Zenon
  <2>1. /\ Spawned(run[l]) /\ Goto(l, "b_undo") /\ UNCHANGED <<tree, stubs, mutex, orphan>>
        /\ IF Alive(c) THEN proc' = [proc EXCEPT ![c] = "dead"] ELSE proc' = proc
    BY <1>6, <2>c, Zenon DEF BootUndo, Spawned, Killed
  <2>2. Jumps(l, "b_undo")
    BY <2>1, GotoJumps, Zenon DEF Points, Locked, BootPoints
  <2>3. run[l].ino = "tree" /\ run'[l].ino = "tree"
    BY <2>1, <2>2, Zenon DEF TreeInv, MutexHeld, Jumps
  <2>4. c \in Runtimes /\ c # 0
    BY <1>0, <2>1, <2>c, Zenon DEF Run, RunAgrees, Fits, Spawned
  <2>5. /\ proc'[c] \notin Live
        /\ \A n \in Runtimes : n # c => proc'[n] = proc[n]
    BY <2>1, <2>4, Zenon DEF Alive, Live, WorldTypes
  <2>6. ~orphan' => \A n \in Runtimes : proc'[n] # "starting"
    <3>1. SUFFICES ASSUME ~orphan', NEW n \in Runtimes, proc'[n] = "starting"
                   PROVE  FALSE
      BY Zenon
    <3>2. n # c /\ proc[n] = "starting"
      BY <2>5, <3>1 DEF Live
    <3>3. PICK k \in Launchers : Spawned(run[k]) /\ run[k].cand = n
      BY <2>1, <3>1, <3>2, Zenon DEF TreeInv
    <3>4. k = l
      BY <1>p, <2>3, <3>3, OthersSilent, Zenon
    <3> QED
      BY <2>c, <3>2, <3>3, <3>4, Zenon
  <2>7. ~orphan' => TreeQuiet(l)'
    <3>1. SUFFICES ASSUME ~orphan', run'[l].then = "relocated", NEW n \in Runtimes, Alive(n)'
                   PROVE  FALSE
      BY <2>2, Zenon DEF TreeQuiet, Quiet, Waits, Spawned, Jumps
    <3>2. proc'[n] \in Live /\ n # c
      BY <2>5, <3>1 DEF Alive
    <3>3. Alive(n)
      BY <2>5, <3>1, <3>2, Zenon DEF Alive
    <3>4. run[l].then = "relocated" /\ TreeQuiet(l)
      BY <2>1, <2>2, <3>1, Zenon DEF TreeInv, Jumps
    <3> QED
      BY <2>1, <2>c, <3>2, <3>3, <3>4, Zenon DEF TreeQuiet
  <2> QED
    BY <1>o, <1>p, <2>1, <2>3, <2>6, <2>7, TreeHolder, Zenon
<1>7. CASE BootUncertain(l)
  <2>1. Spawned(run[l]) /\ Goto(l, BootFailed(l)) /\ orphan' /\ UNCHANGED <<tree, stubs, mutex>>
    BY <1>7, Zenon DEF BootUncertain, Spawned
  <2>2. run'[l].ino = run[l].ino /\ run[l].ino = "tree"
    BY <1>0, <2>1 DEF Goto, RunTypes, Run, TreeInv, MutexHeld
  <2> QED
    BY <1>o, <1>p, <2>1, <2>2, TreeHolder, Zenon
<1>8. CASE BootRemove(l)
  <2>1. PICK r : r = [run[l] EXCEPT !.pc = BootFailed(l), !.cand = 0]
    OBVIOUS
  <2>2. r.pc = BootFailed(l) /\ r.ino = run[l].ino /\ r.path = run[l].path /\ r.then = run[l].then
    BY <1>0, <2>1 DEF Run
  <2>3. run'[l] = r /\ run[l].pc = "b_undo"
    BY <1>8, <2>1, RunIs, Zenon DEF BootRemove
  <2>4. Calmer(run[l], run'[l]) /\ ~Spawned(run[l])
    BY <1>a, <1>b, <1>p, <2>2, <2>3, Zenon DEF Calmer, Quiet, Waits, Spawned
  <2> QED
    BY <1>8, <1>o, <2>4, TreeMoves, Zenon DEF BootRemove
<1> QED
  BY <1>1, <1>2, <1>3, <1>4, <1>5, <1>6, <1>7, <1>8 DEF BootStep

(* A command that gives the locks back keeps no claim; the others keep theirs. *)
LEMMA TreeRelease ==
  ASSUME RunTypes, WorldTypes, TreeInv, ValidMove, NEW l \in Launchers, Others(l), mutex' = Released(l),
         UNCHANGED <<tree, stubs, proc>>, run'[l].pc \in {"done", "open", "u_failed"},
         ~orphan' => ~orphan /\ (Spawned(run[l]) => ~Alive(run[l].cand))
  PROVE  TreeInv'
<1>0. run'[l].pc \notin {"lock"} \cup Locked /\ ~Quiet(run'[l]) /\ ~Spawned(run'[l]) /\ ~Waits(run'[l])
  BY Zenon DEF Locked, StopPoints, BootPoints, UpgradePoints, MovePoints, Quiet, Spawned, Waits
<1>1. ASSUME NEW k \in Launchers
      PROVE  MutexHeld(k)'
  <2>1. MutexHeld(k)
    BY Zenon DEF TreeInv
  <2>2. CASE k = l
    BY <1>0, <2>2, Zenon DEF MutexHeld
  <2>3. CASE k # l
    <3>1. \A i \in {"tree", "old", "new"} : mutex[i] = k => mutex'[i] = k
      BY <2>3, Zenon DEF Released, WorldTypes
    <3>2. run[k].pc \in Locked => mutex[run[k].ino] = k /\ mutex'[run[k].ino] = k
      <4>1. run[k].pc \in Locked => run[k].ino \in {"tree", "old", "new"}
        BY Zenon DEF RunTypes, RunAgrees, Fits, Run
      <4> QED
        BY <2>1, <3>1, <4>1, Zenon DEF MutexHeld
    <3> QED
      BY <2>1, <2>3, <3>2, Zenon DEF MutexHeld, Others
  <2> QED
    BY <2>2, <2>3, Zenon
<1>2. ASSUME ~orphan', NEW k \in Launchers
      PROVE  TreeQuiet(k)'
  <2>1. TreeQuiet(k) /\ \A n \in Runtimes : Alive(n)' <=> Alive(n)
    BY <1>2, Zenon DEF TreeInv, Alive
  <2>2. CASE k = l
    BY <1>0, <2>2, Zenon DEF TreeQuiet
  <2>3. CASE k # l
    BY <2>1, <2>3, Zenon DEF TreeQuiet, Others
  <2> QED
    BY <2>2, <2>3
<1>3. ASSUME ~orphan', NEW n \in Runtimes, proc'[n] = "starting"
      PROVE  \E k \in Launchers : Spawned(run'[k]) /\ run'[k].cand = n
  <2>1. PICK k \in Launchers : Spawned(run[k]) /\ run[k].cand = n
    BY <1>3, Zenon DEF TreeInv
  <2>2. k # l
    BY <1>3, <2>1, StartingLives, Zenon
  <2> QED
    BY <2>1, <2>2, Zenon DEF Others
<1> QED
  BY <1>1, <1>2, <1>3, Zenon DEF TreeInv

(* upgrade_workspace keeps the tree quiet where it was said to be. *)
LEMMA TreeUpgrade ==
  ASSUME RunTypes, WorldTypes, TreeInv, ValidMove, NEW l \in Launchers, UpgradeStep(l)
  PROVE  TreeInv'
<1> USE DEF At, support
<1>0. run[l] \in Run /\ RunAgrees(run[l])
  BY RunKnown
<1>o. Others(l)
  BY OthersStay
<1>p. run[l].pc \in UpgradePoints \cup {"u_plan", "u_failed"} /\ ~Spawned(run[l])
  BY ZenonT(30) DEF UpgradeStep, UpgradePlan, UpgradeOwner, UpgradeStart, UpgradeMigrated, UpgradeActivated,
         UpgradeVerify, UpgradeAbort, UpgradeFailed, UpgradePoints, Spawned
<1>j. ASSUME NEW p \in {"u_stopped", "u_migrate", "u_activated", "u_abort", "s_check"}, Goto(l, p),
             run[l].pc \in UpgradePoints, UNCHANGED <<tree, stubs, mutex, orphan, proc>>
      PROVE  TreeInv'
  <2>1. p \in Points /\ run[l].pc \in Locked
    BY <1>j DEF Points, Locked, StopPoints, UpgradePoints
  <2>2. Jumps(l, p)
    BY <1>j, <2>1, GotoJumps, Zenon
  <2>3. Calmer(run[l], run'[l])
    BY <2>1, <2>2, JumpCalmer, Zenon
  <2> QED
    BY <1>j, <1>o, <1>p, <2>3, TreeMoves, ZenonT(40)
<1>k. ASSUME NEW p \in {"open", "leave"}, Goto(l, p), UNCHANGED <<tree, stubs, mutex, orphan, proc>>
      PROVE  TreeInv'
  <2>1. p \in Points /\ p \notin Locked
    BY <1>k DEF Points, Locked, StopPoints, BootPoints, UpgradePoints, MovePoints
  <2>2. Jumps(l, p)
    BY <1>k, <2>1, GotoJumps, Zenon
  <2>3. Calmer(run[l], run'[l])
    BY <2>1, <2>2, JumpCalmer, Zenon
  <2> QED
    BY <1>k, <1>o, <1>p, <2>3, TreeMoves, Zenon
<1>1. CASE UpgradePlan(l)
  BY <1>1, <1>k, Zenon DEF UpgradePlan
<1>2. CASE UpgradeOwner(l)
  BY <1>2, <1>j, Zenon DEF UpgradeOwner, UpgradePoints
<1>3. CASE UpgradeStart(l)
  BY <1>3, <1>j, Zenon DEF UpgradeStart, UpgradePoints
<1>4. CASE UpgradeMigrated(l)
  BY <1>4, <1>j, Zenon DEF UpgradeMigrated, UpgradePoints
<1>5. CASE UpgradeActivated(l)
  <2>1. PICK r : r = [run[l] EXCEPT !.pc = "b_read", !.then = "verify", !.flags = run[l].flags \cup {"activated"}]
    OBVIOUS
  <2>2. r.pc = "b_read" /\ r.ino = run[l].ino /\ r.path = run[l].path /\ r.then = "verify"
    BY <1>0, <2>1 DEF Run
  <2>3. run'[l] = r /\ run[l].pc = "u_activated"
    BY <1>5, <2>1, RunIs, Zenon DEF UpgradeActivated
  <2>4. Calmer(run[l], run'[l])
    BY <2>2, <2>3, Zenon DEF Calmer, Quiet, Waits, Spawned, Locked, UpgradePoints
  <2> QED
    BY <1>5, <1>o, <1>p, <2>4, TreeMoves, Zenon DEF UpgradeActivated
<1>6. CASE UpgradeVerify(l)
  BY <1>6, <1>j, <1>k, Zenon DEF UpgradeVerify, UpgradePoints
<1>7. CASE UpgradeAbort(l)
  <2>1. run'[l].pc \in {"open", "u_failed"}
    <3>1. CASE run' = [run EXCEPT ![l] = [run[l] EXCEPT !.pc = "open", !.then = "recovered"]]
      <4>1. PICK r : r = [run[l] EXCEPT !.pc = "open", !.then = "recovered"]
        OBVIOUS
      <4>2. r.pc = "open" /\ run'[l] = r
        BY <1>0, <3>1, <4>1, RunIs, Zenon DEF Run
      <4> QED
        BY <4>2
    <3>2. CASE Goto(l, "u_failed")
      BY <1>0, <3>2, GotoJumps, ZenonT(40) DEF Points, Jumps
    <3> QED
      BY <1>7, <3>1, <3>2, Zenon DEF UpgradeAbort, Goto
  <2> QED
    BY <1>7, <1>o, <1>p, <2>1, TreeRelease DEF UpgradeAbort
<1>8. CASE UpgradeFailed(l)
  BY <1>8, <1>k, Zenon DEF UpgradeFailed
<1> QED
  BY <1>1, <1>2, <1>3, <1>4, <1>5, <1>6, <1>7, <1>8, Zenon DEF UpgradeStep

(* relocate keeps the tree quiet where it was said to be. *)
LEMMA TreeMove ==
  ASSUME RunTypes, WorldTypes, TreeInv, ValidMove, NEW l \in Launchers, RelocateStep(l)
  PROVE  TreeInv'
<1> USE DEF At, support
<1>0. run[l] \in Run /\ RunAgrees(run[l])
  BY RunKnown
<1>o. Others(l)
  BY OthersStay
<1>p. run[l].pc \in MovePoints /\ run[l].pc \in Locked /\ ~Spawned(run[l])
  BY Zenon DEF RelocateStep, MoveTree, MoveCatalog, UndoMove, UndoRename, UndoRestore, MovePoints, Locked, Spawned
<1>q. Quiet(run[l]) => run[l].ino = "tree"
  BY Zenon DEF TreeInv, MutexHeld
<1>n. Quiet(run[l]) /\ ~orphan => \A n \in Runtimes : ~Alive(n) /\ proc[n] # "starting"
  BY StartingLives, Zenon DEF TreeInv, TreeQuiet
<1>j. ASSUME NEW p \in {"r_undo", "s_check", "r_rename", "r_restore", "leave"}, Goto(l, p), Quiet(run[l]),
             UNCHANGED <<tree, stubs, mutex, orphan, proc>>
      PROVE  TreeInv'
  <2>1. p \in Points
    BY <1>j DEF Points, Locked, StopPoints, MovePoints
  <2>2. Jumps(l, p)
    BY <1>j, <2>1, GotoJumps, Zenon
  <2>3. Calmer(run[l], run'[l])
    BY <1>j, <1>p, <2>1, <2>2, JumpCalmer, Zenon
  <2> QED
    BY <1>j, <1>o, <1>p, <2>3, TreeMoves, Zenon
<1>1. CASE MoveTree(l)
  <2>0. Quiet(run[l]) /\ UNCHANGED <<stubs, mutex, orphan, proc>>
    BY <1>1, Zenon DEF MoveTree, Quiet
  <2>1. CASE Goto(l, "r_undo") /\ tree' = tree
    BY <2>0, <2>1, <1>j
  <2>2. ASSUME tree' = "new", NEW q \in {"r_catalog", "r_undo"},
               run' = [run EXCEPT ![l] = [run[l] EXCEPT !.pc = q, !.path = "new", !.flags = run[l].flags \cup {"moved"}]]
        PROVE  TreeInv'
    <3>1. PICK r : r = [run[l] EXCEPT !.pc = q, !.path = "new", !.flags = run[l].flags \cup {"moved"}]
      OBVIOUS
    <3>2. r.pc = q /\ r.ino = run[l].ino
      BY <1>0, <3>1 DEF Run
    <3>3. run'[l] = r
      BY <2>2, <3>1, RunIs, Zenon
    <3>4. ~orphan' => TreeQuiet(l)'
      BY <1>n, <2>0, <3>2, <3>3 DEF TreeQuiet, Spawned, Waits, Alive
    <3> QED
      BY <1>n, <1>o, <1>p, <1>q, <2>0, <2>2, <3>2, <3>3, <3>4, TreeHolder
  <2> QED
    BY <1>1, <2>1, <2>2 DEF MoveTree
<1>2. CASE MoveCatalog(l)
  <2>0. Quiet(run[l]) /\ UNCHANGED <<tree, stubs, mutex, orphan, proc>>
    BY <1>2 DEF MoveCatalog, Quiet
  <2>1. CASE Goto(l, "r_undo")
    BY <2>0, <2>1, <1>j, ZenonT(40)
  <2>2. CASE run' = [run EXCEPT ![l] = [run[l] EXCEPT !.pc = "b_read", !.then = "relocated"]]
    <3>1. PICK r : r = [run[l] EXCEPT !.pc = "b_read", !.then = "relocated"]
      OBVIOUS
    <3>2. r.pc = "b_read" /\ r.ino = run[l].ino /\ r.path = run[l].path
      BY <1>0, <3>1 DEF Run
    <3>3. run'[l] = r
      BY <2>2, <3>1, RunIs, Zenon
    <3>4. Calmer(run[l], run'[l])
      BY <1>p, <2>0, <3>2, <3>3, Zenon DEF Calmer, Waits, Spawned
    <3> QED
      BY <1>o, <1>p, <2>0, <3>4, TreeMoves, Zenon
  <2> QED
    BY <1>2, <2>1, <2>2 DEF MoveCatalog
<1>3. CASE UndoMove(l)
  BY <1>3, <1>j, Zenon DEF UndoMove, Goto, Quiet
<1>4. CASE UndoRename(l)
  <2>0. Quiet(run[l]) /\ UNCHANGED <<stubs, mutex, orphan, proc>>
    BY <1>4, Zenon DEF UndoRename, Quiet
  <2>1. CASE "old" \in stubs
    BY <1>4, <2>0, <2>1, <1>j, Zenon DEF UndoRename
  <2>2. CASE "old" \notin stubs
    <3>1. Goto(l, "r_restore")
      BY <1>4, <2>2, Zenon DEF UndoRename
    <3>2. Jumps(l, "r_restore")
      BY <3>1, GotoJumps, Zenon DEF Points, Locked, MovePoints
    <3>3. run'[l].ino = "tree" /\ run[l].ino = "tree"
      BY <1>q, <2>0, <3>2, ZenonT(40) DEF Jumps
    <3>4. TreeQuiet(l)'
      BY <3>2 DEF TreeQuiet, Quiet, Waits, Spawned, Jumps
    <3> QED
      BY <1>n, <1>o, <1>p, <2>0, <2>2, <3>3, <3>4, TreeHolder, Zenon
  <2> QED
    BY <2>1, <2>2
<1>5. CASE UndoRestore(l)
  <2>1. PICK q \in {"b_read", "leave"} :
          run' = [run EXCEPT ![l] = [run[l] EXCEPT !.pc = q, !.path = "old", !.then = "rolledback", !.flags = {}]]
    BY <1>5, Zenon DEF UndoRestore
  <2>2. PICK r : r = [run[l] EXCEPT !.pc = q, !.path = "old", !.then = "rolledback", !.flags = {}]
    OBVIOUS
  <2>3. r.pc = q /\ r.ino = run[l].ino /\ r.path = "old" /\ r.then = "rolledback"
    BY <1>0, <2>2 DEF Run
  <2>4. run'[l] = r
    BY <2>1, <2>2, RunIs, Zenon
  <2>5. Calmer(run[l], run'[l])
    BY <1>p, <2>3, <2>4, Zenon DEF Calmer, Quiet, Waits, Spawned
  <2> QED
    BY <1>5, <1>o, <1>p, <2>5, TreeMoves, Zenon DEF UndoRestore
<1> QED
  BY <1>1, <1>2, <1>3, <1>4, <1>5 DEF RelocateStep

(* The start, the lock and the end of a command keep the tree quiet. *)
LEMMA TreeCommand ==
  ASSUME RunTypes, WorldTypes, TreeInv, ValidMove, ValidMove', NEW l \in Launchers, CommandStep(l)
  PROVE  TreeInv'
<1> USE DEF At, support
<1>0. run[l] \in Run /\ RunAgrees(run[l])
  BY RunKnown
<1>o. Others(l)
  BY OthersStay, Zenon
<1>j. ASSUME run'[l].pc \in {"open", "u_plan", "by_hand", "leave"}, ~Spawned(run[l]),
             UNCHANGED <<tree, stubs, mutex, orphan, proc>>
      PROVE  TreeInv'
  <2>1. Calmer(run[l], run'[l])
    BY <1>j, Zenon DEF Calmer, Quiet, Waits, Spawned, Locked, StopPoints, BootPoints, UpgradePoints, MovePoints
  <2> QED
    BY <1>j, <1>o, <2>1, TreeMoves, Zenon
<1>d. ASSUME run' = [run EXCEPT ![l] = [NoRun EXCEPT !.pc = "done"]]
      PROVE  run'[l].pc = "done"
  <2>1. PICK r : r = [NoRun EXCEPT !.pc = "done"]
    BY Zenon
  <2>2. r.pc = "done" /\ run'[l] = r
    BY <1>d, <2>1, RunIs, Zenon DEF NoRun
  <2> QED
    BY <2>2
<1>1. ASSUME NEW op \in Ops, NEW p \in {"old", "new"}, Begin(l, op, p)
      PROVE  TreeInv'
  <2>1. PICK b : b = [NoRun EXCEPT !.op = op, !.path = p, !.pc = IF op = "upgrade" THEN "u_plan" ELSE "open"]
    OBVIOUS
  <2>2. b.pc \in {"u_plan", "open"}
    BY <2>1 DEF NoRun
  <2>3. run'[l] = b /\ run[l].pc = "idle"
    BY <1>1, <2>1, RunIs, Zenon DEF Begin
  <2> QED
    BY <1>1, <1>j, <2>2, <2>3 DEF Begin, Spawned
<1>2. CASE OpenMutex(l)
  <2>1. PICK i : i = IF Found(run[l].path) = "tree" THEN "tree" ELSE run[l].path
    OBVIOUS
  <2>2. PICK b : b = [run[l] EXCEPT !.pc = "lock", !.ino = i]
    OBVIOUS
  <2>3. b.pc = "lock" /\ b.ino = i /\ b.path = run[l].path
    BY <1>0, <2>2 DEF Run
  <2>4. run'[l] = b /\ run[l].pc = "open"
    BY <1>2, <2>1, <2>2, RunIs, Zenon DEF OpenMutex
  <2>5. /\ UNCHANGED <<tree, mutex, orphan, proc>>
        /\ stubs' = IF Found(run[l].path) = "absent" THEN stubs \cup {run[l].path} ELSE stubs
    BY <1>2, Zenon DEF OpenMutex
  <2>6. i = "tree" \/ (i = "old" /\ run[l].path = "old" /\ "old" \in stubs' /\ tree = "new")
    BY <1>0, <2>1, <2>5, ZenonT(40) DEF Found, ValidMove, Run, WorldTypes
  <2>7. stubs \subseteq stubs'
    BY <2>5, Zenon
  <2>8. ~Quiet(run'[l]) /\ ~Spawned(run'[l]) /\ ~Waits(run'[l]) /\ run'[l].pc \notin Locked /\ ~Spawned(run[l])
    BY <2>3, <2>4 DEF Quiet, Spawned, Waits, Locked, StopPoints, BootPoints, UpgradePoints, MovePoints
  <2>9. ASSUME NEW k \in Launchers
        PROVE  MutexHeld(k)'
    <3>1. CASE k = l
      BY <2>3, <2>4, <2>5, <2>6, <2>8, <3>1, Zenon DEF MutexHeld
    <3>2. CASE k # l
      BY <1>o, <2>5, <2>7, <3>2, Zenon DEF TreeInv, MutexHeld, Others
    <3> QED
      BY <3>1, <3>2, Zenon
  <2>10. ASSUME ~orphan', NEW k \in Launchers
         PROVE  TreeQuiet(k)'
    <3>1. CASE k = l
      BY <2>8, <3>1, Zenon DEF TreeQuiet
    <3>2. CASE k # l
      <4>1. TreeQuiet(k) /\ run'[k] = run[k] /\ \A n \in Runtimes : Alive(n)' <=> Alive(n)
        BY <1>o, <2>5, <2>10, <3>2, Zenon DEF TreeInv, Others, Alive
      <4> QED
        BY <3>2, <4>1, Zenon DEF TreeQuiet
    <3> QED
      BY <3>1, <3>2
  <2>11. ASSUME ~orphan', NEW n \in Runtimes, proc'[n] = "starting"
         PROVE  \E k \in Launchers : Spawned(run'[k]) /\ run'[k].cand = n
    BY <1>o, <2>5, <2>8, <2>11, Zenon DEF TreeInv, Others
  <2> QED
    BY <2>9, <2>10, <2>11, Zenon DEF TreeInv
<1>3. CASE TakeMutex(l)
  <2>1. /\ run[l].pc = "lock" /\ Goto(l, First(l)) /\ mutex[run[l].ino] = 0
        /\ mutex' = [mutex EXCEPT ![run[l].ino] = l] /\ UNCHANGED <<tree, stubs, orphan, proc>>
    BY <1>3, Zenon DEF TakeMutex
  <2>2. First(l) \in {"b_read", "u_owner", "s_check"} /\ (First(l) = "b_read" => run[l].then # "relocated")
    BY <1>0, Zenon DEF First, RunAgrees
  <2>3. Jumps(l, First(l))
    BY <2>1, <2>2, GotoJumps, Zenon DEF Points, Locked, BootPoints, UpgradePoints, StopPoints
  <2>4. run[l].ino \in {"tree", "old", "new"}
    BY <1>0, <2>1, Zenon DEF Run, RunAgrees, Fits
  <2>5. ~Quiet(run'[l]) /\ ~Spawned(run'[l]) /\ ~Waits(run'[l]) /\ ~Spawned(run[l])
    BY <2>1, <2>2, <2>3, Zenon DEF Quiet, Spawned, Waits, Jumps
  <2>6. mutex'[run[l].ino] = l /\ \A i \in {"tree", "old", "new"} : i # run[l].ino => mutex'[i] = mutex[i]
    BY <2>1, <2>4 DEF WorldTypes
  <2>9. ASSUME NEW k \in Launchers
        PROVE  MutexHeld(k)'
    <3>0. MutexHeld(k)
      BY Zenon DEF TreeInv
    <3>1. CASE k = l
      BY <2>1, <2>3, <2>5, <2>6, <3>0, <3>1, Zenon DEF MutexHeld, Jumps
    <3>2. CASE k # l
      <4>1. k # 0
        BY LauncherAssumption, Zenon
      <4>3. run[k].pc \in Locked => run[k].ino \in {"tree", "old", "new"}
        BY LockedFile
      <4>2. run[k].pc \in Locked => mutex'[run[k].ino] = k
        BY <2>1, <2>6, <3>0, <4>1, <4>3, Zenon DEF MutexHeld
      <4> QED
        BY <1>o, <2>1, <3>0, <3>2, <4>2, Zenon DEF MutexHeld, Others
    <3> QED
      BY <3>1, <3>2
  <2>10. ASSUME ~orphan', NEW k \in Launchers
         PROVE  TreeQuiet(k)'
    <3>1. CASE k = l
      BY <2>5, <3>1, Zenon DEF TreeQuiet
    <3>2. CASE k # l
      <4>1. TreeQuiet(k) /\ run'[k] = run[k] /\ \A n \in Runtimes : Alive(n)' <=> Alive(n)
        BY <1>o, <2>1, <2>10, <3>2, ZenonT(30) DEF TreeInv, Others, Alive
      <4> QED
        BY <3>2, <4>1, Zenon DEF TreeQuiet
    <3> QED
      BY <3>1, <3>2
  <2>11. ASSUME ~orphan', NEW n \in Runtimes, proc'[n] = "starting"
         PROVE  \E k \in Launchers : Spawned(run'[k]) /\ run'[k].cand = n
    BY <1>o, <2>1, <2>5, <2>11, Zenon DEF TreeInv, Others
  <2> QED
    BY <2>9, <2>10, <2>11 DEF TreeInv
<1>4. CASE Leave(l)
  BY <1>4, <1>d, <1>o, TreeRelease DEF Leave, Spawned
<1>5. ASSUME NEW k \in Kinds, StartByHand(l, k)
      PROVE  TreeInv'
  <2>1. Goto(l, "by_hand") /\ run[l].pc = "idle"
    BY <1>5, ZenonT(40) DEF StartByHand, Goto
  <2>2. run'[l].pc = "by_hand"
    BY <2>1, GotoJumps DEF Jumps, Points
  <2> QED
    BY <1>5, <1>j, <2>1, <2>2 DEF StartByHand, Spawned
<1>6. CASE EndByHand(l)
  <2>1. Goto(l, "leave") /\ run[l].pc = "by_hand"
    BY <1>6, Zenon DEF EndByHand
  <2>2. run'[l].pc = "leave"
    BY <2>1, GotoJumps, Zenon DEF Jumps, Points
  <2> QED
    BY <1>6, <1>j, <2>1, <2>2, Zenon DEF EndByHand, Spawned
<1>7. CASE Cut(l)
  BY <1>7, <1>d, <1>o, TreeRelease, Zenon DEF Cut
<1> QED
  BY <1>1, <1>2, <1>3, <1>4, <1>5, <1>6, <1>7 DEF CommandStep

(* Only relocate renames the tree, and no stub goes away. *)
LEMMA FrameStep ==
  ASSUME [Next]_vars
  PROVE  stubs \subseteq stubs' /\ (tree' = tree \/ \E l \in Launchers : RelocateStep(l))
<1> USE DEF maintenance, support
<1>1. ASSUME NEW n \in Runtimes, Admit(n) \/ Serve(n) \/ Exit(n) \/ Die(n)
      PROVE  stubs \subseteq stubs' /\ tree' = tree
  BY <1>1 DEF Admit, Serve, Exit, Die
<1>2. ASSUME NEW l \in Launchers, CommandStep(l)
      PROVE  stubs \subseteq stubs' /\ tree' = tree
  BY <1>2, Zenon DEF CommandStep, Begin, OpenMutex, TakeMutex, Leave, StartByHand, EndByHand, Cut
<1>3. ASSUME NEW l \in Launchers, StopStep(l)
      PROVE  stubs \subseteq stubs' /\ tree' = tree
  BY <1>3, Zenon DEF StopStep, StopCheck, StopIdle, StopFence, Signal, Escalate, StopUncertain, StopSeen, StopClear
<1>4. ASSUME NEW l \in Launchers, BootStep(l)
      PROVE  stubs \subseteq stubs' /\ tree' = tree
  BY <1>4, Zenon DEF BootStep, BootRead, BootClear, BootSpawn, BootReady, BootCommit, BootUndo, BootUncertain, BootRemove
<1>5. ASSUME NEW l \in Launchers, UpgradeStep(l)
      PROVE  stubs \subseteq stubs' /\ tree' = tree
  BY <1>5 DEF UpgradeStep, UpgradePlan, UpgradeOwner, UpgradeStart, UpgradeMigrated, UpgradeActivated,
              UpgradeVerify, UpgradeAbort, UpgradeFailed
<1>6. ASSUME NEW l \in Launchers, RelocateStep(l)
      PROVE  stubs \subseteq stubs'
  BY <1>6, Zenon DEF RelocateStep, MoveTree, MoveCatalog, UndoMove, UndoRename, UndoRestore
<1>7. CASE MaintenanceStep \/ UNCHANGED vars
  BY <1>7 DEF MaintenanceStep, vars
<1> QED
  BY <1>1, <1>2, <1>3, <1>4, <1>5, <1>6, <1>7, ZenonT(40) DEF Next

(* Every step keeps the tree quiet where a command says that it is. *)
LEMMA TreeStep ==
  ASSUME RunTypes, WorldTypes, OwnerLocked, TreeInv, [Next]_vars
  PROVE  TreeInv'
<1> USE DEF maintenance, support
<1>0. CASE ~ValidMove'
  BY <1>0, Zenon DEF TreeInv
<1>v. stubs \subseteq stubs'
  BY FrameStep
<1>1. CASE ValidMove'
  <2>0. ValidMove
    BY <1>1, <1>v DEF ValidMove
  <2>1. ASSUME NEW n \in Runtimes, Admit(n) \/ Serve(n) \/ Exit(n) \/ Die(n)
        PROVE  TreeInv'
    <3>1. Shrinks
      <4>1. CASE Admit(n)
        BY <4>1, Zenon DEF Admit, Shrinks, Alive, Live, WorldTypes
      <4>2. CASE Serve(n)
        BY <4>2, Zenon DEF Serve, Shrinks, Alive
      <4>3. CASE Exit(n)
        BY <4>3, Zenon DEF Exit, Shrinks, Alive, Live, WorldTypes
      <4>4. CASE Die(n)
        BY <4>4, Zenon DEF Die, Killed, Shrinks, Alive, Live, WorldTypes
      <4> QED
        BY <2>1, <4>1, <4>2, <4>3, <4>4, Zenon
    <3>2. UNCHANGED <<run, tree, stubs, mutex, orphan>>
      BY <2>1, Zenon DEF Admit, Serve, Exit, Die
    <3> QED
      BY <2>0, <3>1, <3>2, TreeRest
  <2>2. CASE MaintenanceStep \/ UNCHANGED vars
    <3>1. UNCHANGED <<run, tree, stubs, mutex, orphan, proc>>
      BY <2>2 DEF MaintenanceStep, vars
    <3>2. Shrinks
      BY <3>1, Zenon DEF Shrinks, Alive
    <3> QED
      BY <2>0, <3>1, <3>2, TreeRest, Zenon
  <2> QED
    BY <1>1, <2>0, <2>1, <2>2, TreeCommand, TreeStop, TreeBoot, TreeUpgrade, TreeMove, Zenon DEF Next
<1> QED
  BY <1>0, <1>1, Zenon

(* Everything the commands of a realm rely on. *)
LauncherInv == RunTypes /\ WorldTypes /\ OwnerLocked /\ FenceHeld /\ FilesInv /\ TreeInv

(* One Runtime that serves and no command: the invariant holds. *)
LEMMA LauncherStarts ==
  ASSUME Init
  PROVE  LauncherInv
<1> USE DEF Init
<1>0. 1 \in Runtimes /\ 0 \notin Runtimes
  BY BoundsAssumption DEF Runtimes
<1>1. RunTypes
  <2>1. NoRun \in Run /\ RunAgrees(NoRun)
    BY Zenon DEF NoRun, Run, RunAgrees, Fits, Points, Locked, StopPoints, BootPoints, UpgradePoints, MovePoints
  <2> QED
    BY <2>1, Zenon DEF RunTypes
<1>2. WorldTypes
  BY <1>0, Zenon DEF WorldTypes, NoJob, JobPoints, Live
<1>3. OwnerLocked
  BY <1>0, Zenon DEF OwnerLocked, NoJob, Maintaining
<1>4. FenceHeld
  BY ZenonT(30) DEF FenceHeld
<1>5. FilesInv
  <2>1. db \in File /\ wal \in File /\ archive \in Snapshot /\ kept \subseteq Snapshot
    BY Zenon DEF File, Snapshot, NoArchive, Nothing
  <2>2. Sound(db, wal) /\ Rows(db, wal) = {"base"}
    BY Zenon DEF Sound, Rows
  <2> QED
    BY <2>1, <2>2, Zenon DEF FilesInv, Archived, JobAt, NoJob, Preserved
<1>6. TreeInv
  <2>1. \A l \in Launchers : run[l].pc = "idle"
    BY Zenon DEF NoRun
  <2>2. \A l \in Launchers : run[l].pc \notin {"lock"} \cup Locked /\ ~Quiet(run[l]) /\ ~Spawned(run[l]) /\ ~Waits(run[l])
    BY <2>1, Zenon DEF Quiet, Spawned, Waits, Locked, StopPoints, BootPoints, UpgradePoints, MovePoints
  <2>3. \A n \in Runtimes : proc[n] # "starting"
    OBVIOUS
  <2> QED
    BY <2>2, <2>3, Zenon DEF TreeInv, MutexHeld, TreeQuiet
<1> QED
  BY <1>1, <1>2, <1>3, <1>4, <1>5, <1>6, Zenon DEF LauncherInv

(* The invariant holds in every reachable state, for any number of         *)
(* commands, Runtimes and processes cut short.                             *)
THEOREM LauncherInvariant == Spec => []LauncherInv
<1>1. Init => LauncherInv
  BY LauncherStarts
<1>2. LauncherInv /\ [Next]_vars => LauncherInv'
  BY RunStep, WorldStep, OwnerStep, FenceStep, FilesStep, TreeStep, Zenon DEF LauncherInv
<1> QED
  BY <1>1, <1>2, PTL DEF Spec

(* The variables of the launcher hold values of their types, a fence       *)
(* belongs to a command that is stopping an owner, and owner.lock to a     *)
(* Runtime that lives.                                                     *)
THEOREM LauncherTypeOK == Spec => []TypeOK
<1>1. LauncherInv => TypeOK
  BY BoundsAssumption DEF LauncherInv, WorldTypes, OwnerLocked, FenceHeld, TypeOK
<1> QED
  BY <1>1, LauncherInvariant, PTL

(* upgrade_realm, the migration and the compaction lose no committed row:  *)
(* whatever file operation fails and wherever a power cut ends them, every *)
(* row a writer was told of can be read from the database or from the one  *)
(* snapshot that was kept.                                                 *)
THEOREM RowsStayRecoverable == Spec => []RowsRecoverable
<1>1. ASSUME FilesInv
      PROVE  RowsRecoverable
  <2>0. committed \subseteq {"base", "tail"}
    BY <1>1, Zenon DEF FilesInv
  <2>1. PICK d, w : Preserved(d, w) /\ (<<d, w>> = <<db, wal>> \/ <<d, w>> = <<archive.db, archive.wal>>)
    BY <1>1, Zenon DEF FilesInv, Archived, JobAt
  <2>2. CASE \E a \in kept : Complete(a)
    BY <2>0, <2>2, Zenon DEF RowsRecoverable, Complete
  <2>3. CASE committed \subseteq Rows(d, w)
    BY <2>1, <2>3 DEF RowsRecoverable
  <2> QED
    BY <2>1, <2>2, <2>3, Zenon DEF Preserved
<1>2. LauncherInv => RowsRecoverable
  BY <1>1, Zenon DEF LauncherInv
<1> QED
  BY <1>2, LauncherInvariant, PTL

(* down, restart and upgrade interrupt no work: while interruption_fence   *)
(* is held there is none, and the owner is signalled under it.             *)
THEOREM OwnersStopIdle == Spec => []OwnerStoppedIdle
<1>1. LauncherInv => OwnerStoppedIdle
  BY LauncherAssumption DEF LauncherInv, FenceHeld, OwnerStoppedIdle
<1> QED
  BY <1>1, LauncherInvariant, PTL

(* relocate renames the support tree, forward or back, only while no       *)
(* Runtime that is accounted for lives in it and no command has made a     *)
(* stub at the destination.                                                *)
THEOREM TreeStaysStill == Spec => TreeStill
<1>1. ASSUME LauncherInv, [Next]_vars, tree' # tree, ~orphan, ValidMove
      PROVE  \A n \in Runtimes : ~Alive(n)
  <2>1. ASSUME NEW l \in Launchers, RelocateStep(l)
        PROVE  Quiet(run[l])
    BY <1>1, <2>1 DEF RelocateStep, MoveTree, MoveCatalog, UndoMove, UndoRename, UndoRestore, Quiet, At, support
  <2>2. \E l \in Launchers : RelocateStep(l)
    BY <1>1, FrameStep
  <2> QED
    BY <1>1, <2>1, <2>2, Zenon DEF LauncherInv, TreeInv, TreeQuiet
<1>2. LauncherInv /\ [Next]_vars => [tree' # tree /\ ~orphan /\ ValidMove => \A n \in Runtimes : ~Alive(n)]_vars
  BY <1>1
<1> QED
  BY <1>2, LauncherInvariant, PTL DEF Spec, TreeStill
=============================================================================
