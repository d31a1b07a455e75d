--------------------------- MODULE RealmLifecycle ---------------------------
(***************************************************************************)
(* Who may open a realm, and how a realm is replaced.  A realm is a        *)
(* directory tree; daemons open the tree that carries the realm's name     *)
(* under an admission lock (on the directory itself) and a lifetime owner  *)
(* lock (on a file in the tree), raise the runtime epoch, persist it       *)
(* as a floor outside the tree and only then publish readiness.  A running *)
(* daemon may put a restored candidate in the place of its tree, a stopped *)
(* one may do the same from a backup; both are journaled renames with a    *)
(* rollback.  Daemons may crash at any point, which frees their locks and  *)
(* may leave the tree they had open damaged.                               *)
(***************************************************************************)
EXTENDS Naturals, FiniteSetsExt

CONSTANTS
  Daemons,     \* daemon processes that share the support root
  Trees,       \* directory trees, told apart by their inode
  First,       \* the tree that carries the realm's name initially
  None,
  MaxEpoch,    \* bound on the runtime epochs explored
  MaxCrashes   \* bound on the crashes explored

ASSUME RealmAssumption == First \in Trees /\ None \notin Trees \cup Daemons

VARIABLES
  place,      \* place[t]: the name t has below the realm's parent
  epoch,      \* epoch[t]: runtime_lifecycle.epoch in t's database
  marker,     \* marker[t]: what .admission-state.json says of t's files
  damaged,    \* trees a crash left inconsistent
  admission,  \* admission[t]: holder of the lock on the directory
  owner,      \* owner[t]: holder of the lock on owner.lock
  floor,      \* runtime-epoch-floor.json
  journal,    \* replacement-state.json
  ready,      \* the published discovery record
  backups,    \* the epoch captured by a verified backup, if there is one
  pc, svc, open, want, read, job,  \* each daemon's progress
  crashes,
  published   \* the highest epoch published so far

disk == <<place, epoch, marker, damaged>>
locks == <<admission, owner>>
support == <<floor, journal, ready, backups>>
local == <<pc, svc, open, want, read, job>>
history == <<crashes, published>>
vars == <<disk, locks, support, local, history>>

NoJob == [kind |-> "none"]
Job(kind, old, new, keep) ==
  [kind |-> kind, old |-> old, new |-> new, keep |-> keep, movedOld |-> FALSE, movedNew |-> FALSE]
NoJournal == [state |-> "none", old |-> None, keep |-> TRUE]

(* Mutant: the superseded tree is not recorded. *)
WriteUnnamed(state, old, keep) == journal' = [state |-> state, old |-> None, keep |-> keep]
Write(state, old, keep) == journal' = [state |-> state, old |-> old, keep |-> keep]

(* The states of a daemon: idle, the steps of _start, serving, the steps of *)
(* a replacement and of its rollback, and a process left without service.   *)
Starting == {"opening", "waiting", "admitted", "opened", "floored", "published"}
Replacing == {"verified", "stopped_owner", "moved_old", "quarantined", "moved_new", "committed"}
RollingBack == {"failed", "closed", "restored_new", "restored_old"}

(* The state has the declared types. *)
TypeOK ==
  /\ place \in [Trees -> {"root", "candidate", "superseded", "none"}]
  /\ epoch \in [Trees -> 0..MaxEpoch] /\ floor \in 0..MaxEpoch
  /\ marker \in [Trees -> {"clean", "dirty"}] /\ damaged \subseteq Trees
  /\ admission \in [Trees -> Daemons \cup {None}]
  /\ owner \in [Trees -> Daemons \cup {None}]
  /\ journal.old \in Trees \cup {None} /\ journal.keep \in BOOLEAN
  /\ backups \subseteq 0..MaxEpoch /\ published \in 0..MaxEpoch
  /\ pc \in [Daemons -> {"idle", "serving", "stopping", "stranded"} \cup Starting \cup Replacing \cup RollingBack]
  /\ svc \in [Daemons -> Trees \cup {None}] /\ open \in [Daemons -> SUBSET Trees]
  /\ want \in [Daemons -> Trees \cup {None}] /\ read \in [Daemons -> 0..MaxEpoch]

Init ==
  /\ place = [t \in Trees |-> IF t = First THEN "root" ELSE "none"]
  /\ epoch = [t \in Trees |-> 0] /\ marker = [t \in Trees |-> "dirty"] /\ damaged = {}
  /\ admission = [t \in Trees |-> None] /\ owner = [t \in Trees |-> None]
  /\ floor = 0 /\ journal = NoJournal /\ ready = None /\ backups = {}
  /\ pc = [p \in Daemons |-> "idle"] /\ svc = [p \in Daemons |-> None]
  /\ open = [p \in Daemons |-> {}] /\ want = [p \in Daemons |-> None]
  /\ read = [p \in Daemons |-> 0] /\ job = [p \in Daemons |-> NoJob]
  /\ crashes = 0 /\ published = 0

Goto(p, l) == pc' = [pc EXCEPT ![p] = l]
Unlock(lock, p) == [t \in Trees |-> IF lock[t] = p THEN None ELSE lock[t]]
Root == {t \in Trees : place[t] = "root"}

(* The bound on epochs: what is begun can be finished below it. *)
Busy == {p \in Daemons : pc[p] \notin {"idle", "serving"}}
Room == Max({epoch[t] : t \in Trees} \cup {floor}) + 2 * Cardinality(Busy) + 2 <= MaxEpoch

(* The end of a replacement gives up its fences, the end of a start what it *)
(* read, and the end of a process everything else.                         *)
Release(p) ==
  /\ admission' = Unlock(admission, p) /\ job' = [job EXCEPT ![p] = NoJob]
Forget(p) == want' = [want EXCEPT ![p] = None] /\ read' = [read EXCEPT ![p] = 0]
Exit(p) ==
  /\ owner' = Unlock(owner, p)
  /\ svc' = [svc EXCEPT ![p] = None] /\ open' = [open EXCEPT ![p] = {}]

-----------------------------------------------------------------------------
(* Opening a realm: RuntimeDaemon._start, RealmStore.__init__. *)

ReadFloor(p) ==
  /\ pc[p] = "idle" /\ Room
  /\ read' = [read EXCEPT ![p] = floor] /\ Goto(p, "opening")
  /\ UNCHANGED <<disk, locks, support, svc, open, want, job, history>>

(* A start that fails leaves a replacement to its rollback; the restart   *)
(* that follows a rollback only reports, and any other daemon exits.      *)
Abandon(p) ==
  LET after == IF job[p].kind \in {"activate", "offline"} THEN "failed"
               ELSE IF job[p].kind = "restart" /\ open[p] # {} THEN "stranded" ELSE "idle"
  IN
  /\ Goto(p, after)
  /\ IF after = "failed" THEN UNCHANGED <<admission, job>> ELSE Release(p)
  /\ IF after = "idle" THEN Exit(p) ELSE UNCHANGED <<owner, svc, open>>

OpenDirectory(p) ==
  /\ pc[p] = "opening"
  /\ \/ /\ \E t \in Root : want' = [want EXCEPT ![p] = t] /\ Goto(p, "waiting")
        /\ UNCHANGED <<locks, svc, open, read, job>>
     \/ Root = {} /\ Abandon(p) /\ Forget(p)
  /\ UNCHANGED <<disk, support, history>>

(* The lock is waited for, on the directory that was opened. *)
Admit(p) ==
  /\ pc[p] = "waiting" /\ admission[want[p]] = None
  /\ admission' = [admission EXCEPT ![want[p]] = p] /\ Goto(p, "admitted")
  /\ UNCHANGED <<disk, owner, support, svc, open, want, read, job, history>>

(* The light inspection trusts a marker that matches the files; any other *)
(* tree is verified in depth, which finds what a crash has damaged.       *)
Inspected(t) == marker[t] = "clean" \/ t \notin damaged

(* Mutant: the lock of the owner is not tested. *)
AdmissibleUnowned(p) == place[want[p]] = "root" /\ Inspected(want[p])

(* The locked directory must still be the one with the realm's name. *)
Admissible(p) == place[want[p]] = "root" /\ owner[want[p]] = None /\ Inspected(want[p])
NextEpoch(p) == Max({epoch[want[p]], read[p]}) + 1

(* Mutant: the marker of the last orderly close is left as it is. *)
OpenStoreMarked(p) ==
  LET t == want[p] IN
  /\ pc[p] = "admitted" /\ Admissible(p)
  /\ owner' = [owner EXCEPT ![t] = p]
  /\ admission' = IF job[p] = NoJob THEN [admission EXCEPT ![t] = None] ELSE admission
  /\ epoch' = [epoch EXCEPT ![t] = NextEpoch(p)]
  /\ svc' = [svc EXCEPT ![p] = t] /\ open' = [open EXCEPT ![p] = @ \cup {t}]
  /\ Goto(p, "opened") /\ Forget(p)
  /\ UNCHANGED <<place, marker, damaged, support, job, history>>

OpenStore(p) ==
  LET t == want[p] IN
  /\ pc[p] = "admitted" /\ Admissible(p)
  /\ owner' = [owner EXCEPT ![t] = p]
  /\ admission' = IF job[p] = NoJob THEN [admission EXCEPT ![t] = None] ELSE admission
  /\ marker' = [marker EXCEPT ![t] = "dirty"] /\ epoch' = [epoch EXCEPT ![t] = NextEpoch(p)]
  /\ svc' = [svc EXCEPT ![p] = t] /\ open' = [open EXCEPT ![p] = @ \cup {t}]
  /\ Goto(p, "opened") /\ Forget(p)
  /\ UNCHANGED <<place, damaged, support, job, history>>

OpenRefused(p) ==
  /\ pc[p] = "admitted" /\ ~Admissible(p)
  /\ Abandon(p) /\ Forget(p) /\ UNCHANGED <<disk, support, history>>

(* Credentials cannot be written, or a port is taken. *)
StartFails(p) ==
  /\ pc[p] = "opened"
  /\ Abandon(p) /\ Forget(p) /\ UNCHANGED <<disk, support, history>>

WriteFloor(p) ==
  /\ pc[p] = "opened"
  /\ floor' = epoch[svc[p]] /\ Goto(p, "floored")
  /\ UNCHANGED <<disk, locks, journal, ready, backups, svc, open, want, read, job, history>>

Publish(p) ==
  /\ pc[p] = "floored"
  /\ ready' = [daemon |-> p, tree |-> svc[p], epoch |-> epoch[svc[p]]]
  /\ published' = Max({published, epoch[svc[p]]}) /\ Goto(p, "published")
  /\ UNCHANGED <<disk, locks, floor, journal, backups, svc, open, want, read, job, crashes>>

Revoke(p) == ready' = IF ready # None /\ ready.daemon = p THEN None ELSE ready

(* RuntimeDaemon.stop and RealmStore.close, once the listener is down: the *)
(* clean marker is written when the database is closed and still owned.    *)
CloseStore(p) ==
  LET t == svc[p] IN
  IF t = None THEN UNCHANGED <<marker, owner, svc, open>> ELSE
  /\ marker' = [marker EXCEPT ![t] = "clean"] /\ owner' = [owner EXCEPT ![t] = None]
  /\ svc' = [svc EXCEPT ![p] = None] /\ open' = [open EXCEPT ![p] = @ \ {t}]

(* A completed replacement whose old tree could not be removed is cleaned *)
(* up by the next daemon that starts.                                     *)
CleanupCompleted ==
  IF /\ journal.state \in {"complete", "cleanup_pending"} /\ ~journal.keep
     /\ journal.old # None /\ place[journal.old] = "superseded"
  THEN \/ /\ place' = [place EXCEPT ![journal.old] = "none"] /\ Write("complete", None, FALSE)
       \/ UNCHANGED <<place, journal>>
  ELSE UNCHANGED <<place, journal>>

Serve(p) ==
  /\ pc[p] = "published" /\ job[p] = NoJob
  /\ CleanupCompleted /\ Goto(p, "serving")
  /\ UNCHANGED <<epoch, marker, damaged, locks, floor, ready, backups, svc, open, want, read, job, history>>

(* The services of the profile cannot be started; stop() may fail too, when *)
(* one of their process trees survives, and then leaves the store open.     *)
ServicesFail(p) ==
  /\ pc[p] = "published" /\ Revoke(p)
  /\ \/ /\ CloseStore(p)
        /\ IF job[p].kind \in {"activate", "offline"}
           THEN Goto(p, "failed") /\ UNCHANGED <<admission, job>>
           ELSE Goto(p, IF open[p] = {svc[p]} THEN "idle" ELSE "stranded") /\ Release(p)
     \/ Abandon(p) /\ marker' = marker
  /\ UNCHANGED <<place, epoch, damaged, floor, journal, backups, want, read, history>>

BeginStop(p) ==
  /\ pc[p] = "serving"
  /\ Revoke(p) /\ Goto(p, "stopping")
  /\ UNCHANGED <<disk, locks, floor, journal, backups, svc, open, want, read, job, history>>

EndStop(p) ==
  /\ pc[p] = "stopping"
  /\ marker' = [marker EXCEPT ![svc[p]] = "clean"] \/ marker' = marker
  /\ Exit(p) /\ Goto(p, "idle")
  /\ UNCHANGED <<place, epoch, damaged, admission, support, want, read, job, history>>

(* The process ends without closing anything. *)
Crash(p) ==
  /\ pc[p] # "idle" /\ crashes < MaxCrashes /\ crashes' = crashes + 1
  /\ \E d \in SUBSET open[p] : damaged' = damaged \cup d
  /\ Release(p) /\ Exit(p) /\ Forget(p) /\ Goto(p, "idle")
  /\ UNCHANGED <<place, epoch, marker, support, published>>

-----------------------------------------------------------------------------
(* Backups and candidates: backup.py. *)

CreateBackup(p) ==
  /\ pc[p] = "serving" /\ owner[svc[p]] = p /\ backups = {}
  /\ backups' = {epoch[svc[p]]}
  /\ UNCHANGED <<disk, locks, floor, journal, ready, local, history>>

Fresh(t) == place[t] = "none" /\ admission[t] = None /\ owner[t] = None /\ \A p \in Daemons : want[p] # t

Restored(t, e) ==
  /\ place' = [place EXCEPT ![t] = "candidate"] /\ epoch' = [epoch EXCEPT ![t] = e]
  /\ marker' = [marker EXCEPT ![t] = "dirty"] /\ damaged' = damaged \ {t}

RestoreBackup(t) ==
  /\ Fresh(t) /\ \E e \in backups : Restored(t, e)
  /\ UNCHANGED <<locks, support, local, history>>

(* RealmStore.initialize: a staged tree takes the realm's name when no tree has it. *)
Initialize(t) ==
  /\ Root = {} /\ Fresh(t)
  /\ place' = [place EXCEPT ![t] = "root"] /\ epoch' = [epoch EXCEPT ![t] = 0]
  /\ marker' = [marker EXCEPT ![t] = "dirty"] /\ damaged' = damaged \ {t}
  /\ UNCHANGED <<locks, support, local, history>>

-----------------------------------------------------------------------------
(* Replacement: RuntimeDaemon.activate_candidate and replace_from_backup. *)

Verified(t) == place[t] = "candidate" /\ t \notin damaged
Fenceable(old, new) == admission[old] = None /\ admission[new] = None /\ owner[new] = None

Fence(p, old, new) == admission' = [admission EXCEPT ![old] = p, ![new] = p]

Activate(p, new) ==
  LET old == svc[p] IN
  /\ pc[p] = "serving" /\ Room /\ Verified(new) /\ Fenceable(old, new)
  /\ Fence(p, old, new)
  /\ \E keep \in BOOLEAN :
       /\ Write("verified", old, keep)
       /\ job' = [job EXCEPT ![p] = Job("activate", old, new, keep)]
  /\ Goto(p, "verified")
  /\ UNCHANGED <<disk, owner, floor, ready, backups, svc, open, want, read, history>>

(* A fence that is taken, or a candidate that does not verify: nothing has *)
(* moved, but the rollback stops the daemon and starts it again.           *)
ActivateRefused(p, new) ==
  LET old == svc[p] IN
  /\ pc[p] = "serving" /\ Room /\ place[new] = "candidate" /\ ~(Verified(new) /\ Fenceable(old, new))
  /\ admission' = IF admission[old] # None THEN admission
                  ELSE [admission EXCEPT ![old] = p, ![new] = IF @ = None THEN p ELSE @]
  /\ job' = [job EXCEPT ![p] = Job("activate", old, new, FALSE)] /\ Goto(p, "failed")
  /\ UNCHANGED <<disk, owner, support, svc, open, want, read, history>>

StopOwner(p) ==
  /\ pc[p] = "verified" /\ job[p].kind = "activate"
  /\ Revoke(p)
  /\ \/ CloseStore(p) /\ Write("owner_stopped", job[p].old, job[p].keep) /\ Goto(p, "stopped_owner")
     \/ Goto(p, "failed") /\ UNCHANGED <<marker, owner, svc, open, journal>>
  /\ UNCHANGED <<place, epoch, damaged, admission, floor, backups, want, read, job, history>>

(* The offline replacement: an idle daemon restores the candidate itself   *)
(* and holds the owner lock of the tree it never opens.                    *)
ReplaceFromBackup(p, new) ==
  /\ pc[p] = "idle" /\ Room /\ Fresh(new)
  /\ \E old \in Root, e \in backups, keep \in BOOLEAN :
       /\ admission[old] = None /\ owner[old] = None
       /\ Restored(new, e) /\ Fence(p, old, new) /\ owner' = [owner EXCEPT ![old] = p]
       /\ Write("offline_verified", old, keep)
       /\ job' = [job EXCEPT ![p] = Job("offline", old, new, keep)]
  /\ Goto(p, "stopped_owner")
  /\ UNCHANGED <<floor, ready, backups, svc, open, want, read, history>>

(* The realm is owned or fenced: the candidate is given up in the rollback. *)
ReplaceRefused(p, new) ==
  /\ pc[p] = "idle" /\ Room /\ Fresh(new)
  /\ \E old \in Root, e \in backups :
       /\ admission[old] # None \/ owner[old] # None
       /\ Restored(new, e) /\ owner' = owner
       /\ IF admission[old] # None THEN admission' = admission ELSE Fence(p, old, new)
       /\ job' = [job EXCEPT ![p] = Job("offline", old, new, FALSE)]
  /\ Goto(p, "failed")
  /\ UNCHANGED <<support, svc, open, want, read, history>>

Rename(t, from, to) ==
  /\ place[t] = from /\ place' = [place EXCEPT ![t] = to]

MoveOld(p) ==
  /\ pc[p] = "stopped_owner" /\ Verified(job[p].new)
  /\ Rename(job[p].old, "root", "superseded")
  /\ job' = [job EXCEPT ![p] = [@ EXCEPT !.movedOld = TRUE]]
  /\ Goto(p, IF job[p].kind = "activate" THEN "moved_old" ELSE "quarantined")
  /\ UNCHANGED <<epoch, marker, damaged, locks, support, svc, open, want, read, history>>

JournalQuarantine(p) ==
  /\ pc[p] = "moved_old"
  /\ Write("old_quarantined", job[p].old, job[p].keep) /\ Goto(p, "quarantined")
  /\ UNCHANGED <<disk, locks, floor, ready, backups, svc, open, want, read, job, history>>

(* Mutant: the old tree is removed as soon as the candidate is in place. *)
MoveCandidateOver(p) ==
  /\ pc[p] = "quarantined" /\ Root = {}
  /\ place' = [place EXCEPT ![job[p].new] = "root", ![job[p].old] = "none"]
  /\ job' = [job EXCEPT ![p] = [@ EXCEPT !.movedNew = TRUE]] /\ Goto(p, "moved_new")
  /\ UNCHANGED <<epoch, marker, damaged, locks, support, svc, open, want, read, history>>

MoveCandidate(p) ==
  /\ pc[p] = "quarantined" /\ Root = {}
  /\ Rename(job[p].new, "candidate", "root")
  /\ job' = [job EXCEPT ![p] = [@ EXCEPT !.movedNew = TRUE]] /\ Goto(p, "moved_new")
  /\ UNCHANGED <<epoch, marker, damaged, locks, support, svc, open, want, read, history>>

(* The journal names the published candidate and _start begins below the *)
(* fence that is already held.                                           *)
StartCandidate(p) ==
  /\ pc[p] = "moved_new"
  /\ Write("candidate_published", job[p].old, job[p].keep)
  /\ owner' = IF job[p].kind = "offline" THEN Unlock(owner, p) ELSE owner
  /\ read' = [read EXCEPT ![p] = floor] /\ want' = [want EXCEPT ![p] = job[p].new]
  /\ Goto(p, "admitted")
  /\ UNCHANGED <<disk, admission, floor, ready, backups, svc, open, job, history>>

(* A rename, a validation or a journal write raises. *)
StepFails(p) ==
  /\ pc[p] \in {"stopped_owner", "moved_old", "quarantined", "moved_new"}
  /\ Goto(p, "failed")
  /\ UNCHANGED <<disk, locks, support, svc, open, want, read, job, history>>

Commit(p) ==
  /\ pc[p] = "published" /\ job[p].kind \in {"activate", "offline"}
  /\ \/ Write("complete", job[p].old, job[p].keep)
     \/ journal' = journal
  /\ Goto(p, "committed")
  /\ UNCHANGED <<disk, locks, floor, ready, backups, svc, open, want, read, job, history>>

Discard(p) ==
  /\ pc[p] = "committed" /\ ~job[p].keep
  /\ \/ /\ Rename(job[p].old, "superseded", "none")
        /\ (Write("complete", None, FALSE) \/ journal' = journal)
     \/ place' = place /\ (Write("cleanup_pending", job[p].old, FALSE) \/ journal' = journal)
  /\ Release(p) /\ Goto(p, "serving")
  /\ UNCHANGED <<epoch, marker, damaged, owner, floor, ready, backups, svc, open, want, read, history>>

Retain(p) ==
  /\ pc[p] = "committed" /\ job[p].keep
  /\ Release(p) /\ Goto(p, "serving")
  /\ UNCHANGED <<disk, owner, support, svc, open, want, read, history>>

-----------------------------------------------------------------------------
(* The rollback of a replacement. *)

RollbackStop(p) ==
  /\ pc[p] = "failed" /\ Goto(p, "closed")
  /\ Revoke(p)
  /\ CloseStore(p) \/ UNCHANGED <<marker, owner, svc, open>>
  /\ UNCHANGED <<place, epoch, damaged, admission, floor, journal, backups, want, read, job, history>>

RestoreCandidate(p) ==
  /\ pc[p] = "closed" /\ Goto(p, "restored_new")
  /\ IF job[p].movedNew /\ place[job[p].new] = "root"
     THEN place' = [place EXCEPT ![job[p].new] = "candidate"] ELSE place' = place
  /\ UNCHANGED <<epoch, marker, damaged, locks, support, svc, open, want, read, job, history>>

RestoreOld(p) ==
  /\ pc[p] = "restored_new" /\ Goto(p, "restored_old")
  /\ IF job[p].movedOld /\ Root = {} /\ place[job[p].old] = "superseded"
     THEN place' = [place EXCEPT ![job[p].old] = "root"] ELSE place' = place
  /\ UNCHANGED <<epoch, marker, damaged, locks, support, svc, open, want, read, job, history>>

(* Mutant: the restart takes the admission lock itself instead of borrowing *)
(* the one the rollback still holds.                                       *)
RolledBackUnlent(p) ==
  /\ pc[p] = "restored_old"
  /\ Write("rolled_back", None, FALSE)
  /\ job' = [job EXCEPT ![p] = [@ EXCEPT !.kind = "restart"]]
  /\ read' = [read EXCEPT ![p] = floor] /\ want' = [want EXCEPT ![p] = job[p].old]
  /\ Goto(p, "waiting")
  /\ UNCHANGED <<disk, locks, floor, ready, backups, svc, open, history>>

(* The rolled back daemon starts on its old tree, below the fence if it got *)
(* one; the offline replacement removes its candidate and gives up.         *)
RolledBack(p) ==
  /\ pc[p] = "restored_old"
  /\ Write("rolled_back", IF job[p].kind = "activate" /\ place[job[p].old] = "superseded" THEN job[p].old ELSE None, FALSE)
  /\ IF job[p].kind = "offline"
     THEN /\ place' = [place EXCEPT ![job[p].new] = IF @ = "candidate" THEN "none" ELSE @]
          /\ admission' = Unlock(admission, p)
          /\ owner' = [t \in Trees |-> IF owner[t] = p /\ t \notin open[p] THEN None ELSE owner[t]]
          /\ job' = [job EXCEPT ![p] = NoJob] /\ Goto(p, IF open[p] = {} THEN "idle" ELSE "stranded")
          /\ UNCHANGED <<want, read>>
     ELSE /\ UNCHANGED <<place, owner>>
          /\ IF admission[job[p].old] = p
             THEN /\ job' = [job EXCEPT ![p] = [@ EXCEPT !.kind = "restart"]]
                  /\ want' = [want EXCEPT ![p] = job[p].old] /\ Goto(p, "admitted")
                  /\ admission' = admission
             ELSE /\ Release(p) /\ want' = want /\ Goto(p, "opening")
          /\ read' = [read EXCEPT ![p] = floor]
  /\ UNCHANGED <<epoch, marker, damaged, floor, ready, backups, svc, open, history>>

RollbackFails(p) ==
  /\ pc[p] \in {"closed", "restored_new", "restored_old"}
  /\ Write("rollback_failed", job[p].old, FALSE) \/ journal' = journal
  /\ Release(p)
  /\ owner' = [t \in Trees |-> IF owner[t] = p /\ t \notin open[p] THEN None ELSE owner[t]]
  /\ Goto(p, IF open[p] = {} THEN "idle" ELSE "stranded")
  /\ UNCHANGED <<disk, floor, ready, backups, svc, open, want, read, history>>

Restarted(p) ==
  /\ pc[p] = "published" /\ job[p].kind = "restart"
  /\ Release(p) /\ Goto(p, "serving")
  /\ UNCHANGED <<disk, owner, support, svc, open, want, read, history>>

-----------------------------------------------------------------------------
Start(p) ==
  \/ ReadFloor(p) \/ OpenDirectory(p) \/ Admit(p) \/ OpenStore(p) \/ OpenRefused(p) \/ StartFails(p)
  \/ WriteFloor(p) \/ Publish(p) \/ Serve(p) \/ ServicesFail(p)
Replace(p) ==
  \/ StopOwner(p) \/ MoveOld(p) \/ JournalQuarantine(p) \/ MoveCandidate(p) \/ StartCandidate(p)
  \/ StepFails(p) \/ Commit(p) \/ Discard(p) \/ Retain(p)
RollBack(p) ==
  \/ RollbackStop(p) \/ RestoreCandidate(p) \/ RestoreOld(p) \/ RolledBack(p) \/ RollbackFails(p)
  \/ Restarted(p)

(* What a daemon does on its own once it was asked to. *)
Step(p) == Start(p) \/ Replace(p) \/ RollBack(p) \/ EndStop(p)

Next ==
  \/ \E p \in Daemons : Step(p) \/ BeginStop(p) \/ Crash(p) \/ CreateBackup(p)
  \/ \E t \in Trees : RestoreBackup(t) \/ Initialize(t)
  \/ \E p \in Daemons, t \in Trees : Activate(p, t) \/ ActivateRefused(p, t) \/ ReplaceFromBackup(p, t) \/ ReplaceRefused(p, t)

Spec == Init /\ [][Next]_vars

-----------------------------------------------------------------------------
(* A daemon has a tree open only while it holds the owner lock of that    *)
(* tree, so no two daemons ever have one realm database open, whatever    *)
(* moved, crashed or was rolled back in between.                          *)
SoleOwner == \A p \in Daemons : \A t \in open[p] : owner[t] = p

(* When no tree carries the realm's name, the replacement journal names   *)
(* the superseded tree that an operator can put back; only the record of  *)
(* another daemon's rollback, written without the fence of the realm it   *)
(* was refused, can have taken its place, and the tree is then still      *)
(* there under its superseded name.                                       *)
RootRecoverable ==
  Root = {} => \E t \in Trees :
    place[t] = "superseded" /\ (journal.old = t \/ journal.state \in {"rolled_back", "rollback_failed"})

(* The tree a replacement supersedes is removed only after the replacement *)
(* has been opened, admitted and published.                                *)
OldKeptUntilServed ==
  [][\A t \in Trees : place[t] = "superseded" /\ place'[t] = "none" =>
       \E p \in Daemons : svc[p] \in Root /\ pc[p] \in {"published", "committed"}]_vars

(* What a crash damaged is never opened again: the clean marker of an     *)
(* orderly close does not survive the next session.                       *)
DamageCaught == \A p \in Daemons : \A t \in open[p] : t \notin damaged

(* Every published epoch is above the epochs published before it. *)
EpochsAdvance ==
  [][ready' # None /\ ready' # ready => ready'.epoch > published]_vars

(* A replacement that was begun ends with a daemon that serves, or one    *)
(* that gave up.                                                          *)
ReplacementEnds ==
  \A p \in Daemons : job[p] # NoJob ~> job[p] = NoJob

Fair == \A p \in Daemons : WF_vars(Step(p))
FairSpec == Spec /\ Fair
=============================================================================
