------------------------ MODULE RealmLifecycleProofs ------------------------
(***************************************************************************)
(* What is proved of a realm for any number of daemons, trees, epochs and  *)
(* crashes, in three layers.                                               *)
(*                                                                         *)
(* RealmInv: a database has one owner, and damage is found before it is    *)
(* opened.  A step changes locks, stores and markers in one of few ways: a *)
(* store is opened, closed, or lost with its process, a lock is taken or   *)
(* given up without a store, a tree is written anew.  Each way keeps       *)
(* Guarded; what the steps rely on is what a daemon's position says of it  *)
(* (Placed).                                                               *)
(*                                                                         *)
(* FenceInv: a replacement holds the admission locks of both its trees, so *)
(* nobody else is admitted to them, and whoever serves is at the root.     *)
(*                                                                         *)
(* TraceInv: there is one root or none, and then the journal leads to the  *)
(* superseded tree.  In these two layers a daemon's step is first reduced  *)
(* to its effect on locks, names and journal, which is all that the other  *)
(* daemons notice of it.                                                   *)
(***************************************************************************)
EXTENDS RealmLifecycle, TLAPS

States == {"idle", "serving", "stopping", "stranded"} \cup Starting \cup Replacing \cup RollingBack

Jobs ==
  [kind : {"activate", "offline", "restart"}, old : Trees, new : Trees, keep : BOOLEAN,
   movedOld : BOOLEAN, movedNew : BOOLEAN]

Types ==
  /\ owner \in [Trees -> Daemons \cup {None}] /\ marker \in [Trees -> {"clean", "dirty"}]
  /\ pc \in [Daemons -> States] /\ job \in [Daemons -> Jobs \cup {NoJob}]
  /\ svc \in [Daemons -> Trees \cup {None}] /\ want \in [Daemons -> Trees \cup {None}]
  /\ open \in [Daemons -> SUBSET Trees]

(* A tree that is open is marked dirty, so a crash leaves no clean marker. *)
OpenDirty == \A p \in Daemons : \A t \in open[p] : marker[t] = "dirty"

(* The light inspection may trust a clean marker.                          *)
CleanSound == \A t \in Trees : marker[t] = "clean" => t \notin damaged

Guarded == SoleOwner /\ DamageCaught /\ OpenDirty /\ CleanSound

(* The daemons that hold no store: the idle ones and those that replace a  *)
(* tree offline, which hold its owner lock instead.                        *)
OffDuty(p) ==
  \/ pc[p] = "idle"
  \/ pc[p] \in {"stopped_owner", "moved_old", "quarantined", "moved_new"} /\ job[p].kind = "offline"

(* What a daemon's position says of its store, its job and its target.     *)
Placed(p) ==
  /\ svc[p] # None => svc[p] \in open[p]
  /\ OffDuty(p) => open[p] = {}
  /\ pc[p] \in Replacing \cup RollingBack => job[p] \in Jobs
  /\ pc[p] \in {"waiting", "admitted"} => want[p] \in Trees
  /\ pc[p] \in {"opened", "floored", "published", "committed", "serving"} => svc[p] \in Trees

RealmInv == Types /\ Guarded /\ \A p \in Daemons : Placed(p)

-----------------------------------------------------------------------------
(* The ways in which a step changes locks, stores and markers.             *)

(* A step that touches no lock, open file or marker keeps the guard. *)
LEMMA SameKeeps ==
  ASSUME Guarded, UNCHANGED <<owner, open, marker, damaged>>
  PROVE  Guarded'
  BY Zenon DEF Guarded, SoleOwner, DamageCaught, OpenDirty, CleanSound

(* A store is opened by the daemon that takes its free owner lock.         *)
LEMMA OpenKeeps ==
  ASSUME NEW p \in Daemons, NEW t \in Trees, Types, Guarded,
         owner[t] = None, Inspected(t),
         owner' = [owner EXCEPT ![t] = p], open' = [open EXCEPT ![p] = @ \cup {t}],
         marker' = [marker EXCEPT ![t] = "dirty"], damaged' = damaged
  PROVE  Guarded'
<1>1. \A q \in Daemons : t \notin open[q]
  BY RealmAssumption, Zenon DEF Guarded, SoleOwner
<1>2. t \notin damaged
  BY Zenon DEF Guarded, CleanSound, Inspected
<1>3. \A q \in Daemons : open'[q] = IF q = p THEN open[p] \cup {t} ELSE open[q]
  BY Zenon DEF Types
<1>4. SoleOwner'
  BY <1>1, <1>3 DEF Guarded, SoleOwner, Types
<1>5. DamageCaught'
  BY <1>2, <1>3 DEF Guarded, DamageCaught
<1>6. OpenDirty'
  BY <1>3 DEF Guarded, OpenDirty, Types
<1>7. CleanSound'
  BY <1>2, Zenon DEF Guarded, CleanSound, Types
<1> QED BY <1>4, <1>5, <1>6, <1>7, Zenon DEF Guarded

(* An orderly close marks the tree and gives up its lock.                  *)
LEMMA CloseKeeps ==
  ASSUME NEW p \in Daemons, Types, Guarded, Placed(p), CloseStore(p), damaged' = damaged
  PROVE  /\ Guarded'
         /\ svc' \in [Daemons -> Trees \cup {None}] /\ open' \in [Daemons -> SUBSET Trees]
         /\ owner' \in [Trees -> Daemons \cup {None}] /\ marker' \in [Trees -> {"clean", "dirty"}]
         /\ svc'[p] = None /\ open'[p] = open[p] \ {svc[p]}
         /\ \A q \in Daemons \ {p} : svc'[q] = svc[q] /\ open'[q] = open[q]
<1>1. CASE svc[p] = None
  <2>1. UNCHANGED <<owner, open, marker, damaged, svc>>
    BY <1>1, Zenon DEF CloseStore
  <2>2. Guarded'
    BY <2>1, SameKeeps, Zenon
  <2>3. open[p] = open[p] \ {svc[p]}
    BY <1>1, RealmAssumption, Zenon DEF Types
  <2> QED BY <1>1, <2>1, <2>2, <2>3, Zenon DEF Types
<1>2. CASE svc[p] # None
  <2> DEFINE t == svc[p]
  <2>1. t \in Trees /\ t \in open[p] /\ owner[t] = p /\ t \notin damaged
    BY <1>2, Zenon DEF Placed, Types, Guarded, SoleOwner, DamageCaught
  <2>2. /\ marker' = [marker EXCEPT ![t] = "clean"] /\ owner' = [owner EXCEPT ![t] = None]
        /\ svc' = [svc EXCEPT ![p] = None] /\ open' = [open EXCEPT ![p] = @ \ {t}]
    BY <1>2, Zenon DEF CloseStore
  <2>3. \A q \in Daemons : open'[q] = IF q = p THEN open[p] \ {t} ELSE open[q]
    BY <2>2, Zenon DEF Types
  <2>4. \A q \in Daemons : t \notin open'[q]
    BY <2>1, <2>3, Zenon DEF Guarded, SoleOwner
  <2>5. \A q \in Daemons : open'[q] \subseteq open[q]
    BY <2>3, Zenon
  <2>6. SoleOwner'
    BY <2>2, <2>4, <2>5 DEF Guarded, SoleOwner, Types
  <2>7. DamageCaught'
    BY <2>5, Zenon DEF Guarded, DamageCaught
  <2>8. OpenDirty'
    BY <2>2, <2>4, <2>5, Zenon DEF Guarded, OpenDirty, Types
  <2>9. CleanSound'
    BY <2>1, <2>2, Zenon DEF Guarded, CleanSound, Types
  <2>10. Guarded'
    BY <2>6, <2>7, <2>8, <2>9, Zenon DEF Guarded
  <2> QED BY <2>2, <2>3, <2>10, ZenonT(60) DEF Types
<1> QED BY <1>1, <1>2, Zenon

(* The process ends: its locks go with its stores.  It may have marked the *)
(* tree it served, or left damage in what it had open.                     *)
LEMMA ExitKeeps ==
  ASSUME NEW p \in Daemons, Types, Guarded, Placed(p), Exit(p),
         \/ /\ marker' = marker \/ marker' = [marker EXCEPT ![svc[p]] = "clean"]
            /\ damaged' = damaged
         \/ marker' = marker /\ \E d \in SUBSET open[p] : damaged' = damaged \cup d
  PROVE  /\ Guarded'
         /\ svc' \in [Daemons -> Trees \cup {None}] /\ open' \in [Daemons -> SUBSET Trees]
         /\ owner' \in [Trees -> Daemons \cup {None}] /\ marker' \in [Trees -> {"clean", "dirty"}]
         /\ svc'[p] = None /\ open'[p] = {}
         /\ \A q \in Daemons \ {p} : svc'[q] = svc[q] /\ open'[q] = open[q]
<1>1. /\ owner' = [t \in Trees |-> IF owner[t] = p THEN None ELSE owner[t]]
      /\ svc' = [svc EXCEPT ![p] = None] /\ open' = [open EXCEPT ![p] = {}]
  BY Zenon DEF Exit, Unlock
<1>2. \A q \in Daemons : open'[q] = IF q = p THEN {} ELSE open[q]
  BY <1>1, Zenon DEF Types
<1>3. \A q \in Daemons : \A t \in open'[q] : t \in Trees /\ t \in open[q] /\ owner[t] = q /\ q # p
  BY <1>2, Zenon DEF Types, Guarded, SoleOwner
<1>4. \A q \in Daemons : \A t \in open'[q] : t \notin open[p] /\ t # svc[p]
  <2>1. \A t \in open[p] : owner[t] = p
    BY Zenon DEF Guarded, SoleOwner
  <2>2. svc[p] \in open[p] \cup {None}
    BY Zenon DEF Placed
  <2> QED BY <1>3, <2>1, <2>2, RealmAssumption
<1>5. SoleOwner'
  BY <1>1, <1>3, Zenon DEF SoleOwner
<1>6. DamageCaught'
  BY <1>3, <1>4, Zenon DEF Guarded, DamageCaught
<1>7. OpenDirty'
  BY <1>3, <1>4 DEF Guarded, OpenDirty, Types
<1>8. CleanSound'
  <2>1. svc[p] # None => svc[p] \notin damaged
    BY Zenon DEF Placed, Guarded, DamageCaught
  <2>2. \A t \in open[p] : marker[t] = "dirty"
    BY Zenon DEF Guarded, OpenDirty
  <2> QED BY <2>1, <2>2, RealmAssumption, Zenon DEF Guarded, CleanSound, Types
<1>9. Guarded'
  BY <1>5, <1>6, <1>7, <1>8, Zenon DEF Guarded
<1>10. owner' \in [Trees -> Daemons \cup {None}] /\ marker' \in [Trees -> {"clean", "dirty"}]
  BY <1>1 DEF Types
<1> QED BY <1>1, <1>2, <1>9, <1>10, Zenon DEF Types

(* An offline replacement takes an owner lock that is free, and gives up   *)
(* what it holds without a store.                                          *)
LEMMA LockKeeps ==
  ASSUME NEW p \in Daemons, Types, Guarded, UNCHANGED <<open, marker, damaged>>,
         \A t \in Trees : owner'[t] # owner[t] =>
           owner[t] = None \/ (owner[t] = p /\ t \notin open[p])
  PROVE  Guarded'
<1>1. SoleOwner'
  BY RealmAssumption DEF Guarded, SoleOwner, Types
<1> QED BY <1>1, Zenon DEF Guarded, DamageCaught, OpenDirty, CleanSound

(* A tree that nobody owns is written anew; a free lock may be taken too.  *)
LEMMA RewriteKeeps ==
  ASSUME NEW t \in Trees, Types, Guarded, owner[t] = None, open' = open,
         \A u \in Trees : owner'[u] # owner[u] => owner[u] = None,
         marker' = [marker EXCEPT ![t] = "dirty"], damaged' = damaged \ {t}
  PROVE  Guarded' /\ marker' \in [Trees -> {"clean", "dirty"}]
<1>1. \A q \in Daemons : \A u \in open[q] : u \in Trees /\ u # t /\ owner[u] = q /\ q # None
  BY RealmAssumption DEF Guarded, SoleOwner, Types
<1>2. SoleOwner'
  BY <1>1, Zenon DEF SoleOwner
<1>3. OpenDirty'
  BY <1>1, Zenon DEF Guarded, OpenDirty, Types
<1>4. CleanSound'
  BY Zenon DEF Guarded, CleanSound, Types
<1>5. DamageCaught'
  BY Zenon DEF Guarded, DamageCaught
<1>6. marker' \in [Trees -> {"clean", "dirty"}]
  BY SMTT(30) DEF Types
<1> QED BY <1>2, <1>3, <1>4, <1>5, <1>6, Zenon DEF Guarded

-----------------------------------------------------------------------------
(* A step takes p to the position l with the job j and the target w.       *)
Moves(p, l, j, w) ==
  /\ pc' = [pc EXCEPT ![p] = l] /\ l \in States
  /\ job' = [job EXCEPT ![p] = j] /\ j \in Jobs \cup {NoJob}
  /\ want' = [want EXCEPT ![p] = w] /\ w \in Trees \cup {None}
  /\ svc' \in [Daemons -> Trees \cup {None}] /\ open' \in [Daemons -> SUBSET Trees]
  /\ \A q \in Daemons \ {p} : svc'[q] = svc[q] /\ open'[q] = open[q]

Fits(p, l, j, w) ==
  /\ svc'[p] # None => svc'[p] \in open'[p]
  /\ l = "idle" \/ (l \in {"stopped_owner", "moved_old", "quarantined", "moved_new"} /\ j.kind = "offline")
       => open'[p] = {}
  /\ l \in Replacing \cup RollingBack => j \in Jobs
  /\ l \in {"waiting", "admitted"} => w \in Trees
  /\ l \in {"opened", "floored", "published", "committed", "serving"} => svc'[p] \in Trees

(* A step that says nothing of the other daemons and leaves p where its    *)
(* position allows keeps the invariant.                                    *)
LEMMA MoveKeeps ==
  ASSUME NEW p \in Daemons, NEW l, NEW j, NEW w, RealmInv, Moves(p, l, j, w), Fits(p, l, j, w),
         Guarded', owner' \in [Trees -> Daemons \cup {None}], marker' \in [Trees -> {"clean", "dirty"}]
  PROVE  RealmInv'
<1>1. pc'[p] = l /\ job'[p] = j /\ want'[p] = w
  BY Zenon DEF RealmInv, Types, Moves
<1>2. \A q \in Daemons \ {p} :
        /\ pc'[q] = pc[q] /\ job'[q] = job[q] /\ want'[q] = want[q]
        /\ svc'[q] = svc[q] /\ open'[q] = open[q]
  BY Zenon DEF RealmInv, Types, Moves
<1>3. Placed(p)'
  BY <1>1, Zenon DEF Placed, OffDuty, Fits
<1>4. \A q \in Daemons \ {p} : Placed(q)'
  BY <1>2, Zenon DEF RealmInv, Placed, OffDuty
<1>5. Types'
  BY Zenon DEF RealmInv, Types, Moves
<1> QED BY <1>3, <1>4, <1>5, Zenon DEF RealmInv

(* The same for a step that touches no store.                              *)
LEMMA QuietKeeps ==
  ASSUME NEW p \in Daemons, NEW l \in States, NEW j \in Jobs \cup {NoJob}, NEW w \in Trees \cup {None},
         RealmInv, UNCHANGED <<owner, open, svc, marker, damaged>>,
         pc' = [pc EXCEPT ![p] = l], job' = [job EXCEPT ![p] = j], want' = [want EXCEPT ![p] = w],
         l = "idle" \/ (l \in {"stopped_owner", "moved_old", "quarantined", "moved_new"} /\ j.kind = "offline")
           => open[p] = {},
         l \in Replacing \cup RollingBack => j \in Jobs,
         l \in {"waiting", "admitted"} => w \in Trees,
         l \in {"opened", "floored", "published", "committed", "serving"} => svc[p] \in Trees
  PROVE  RealmInv'
<1>1. Guarded'
  BY SameKeeps, Zenon DEF RealmInv
<1>2. Moves(p, l, j, w)
  BY Zenon DEF Moves, RealmInv, Types
<1>3. Fits(p, l, j, w)
  BY Zenon DEF Fits, RealmInv, Placed
<1> QED BY <1>1, <1>2, <1>3, MoveKeeps, Zenon DEF RealmInv, Types

(* What the job and the target of a daemon can be. *)
LEMMA Kept ==
  ASSUME NEW p \in Daemons, Types
  PROVE  /\ job = [job EXCEPT ![p] = job[p]] /\ want = [want EXCEPT ![p] = want[p]]
         /\ job[p] \in Jobs \cup {NoJob} /\ want[p] \in Trees \cup {None}
         /\ NoJob.kind = "none" /\ \A j \in Jobs : j.kind \in {"activate", "offline", "restart"}
  BY Zenon DEF Types, NoJob, Jobs
-----------------------------------------------------------------------------
(* The steps that touch no store.                                          *)
LEMMA StartingKeeps ==
  ASSUME NEW p \in Daemons, RealmInv,
         \/ ReadFloor(p) \/ Admit(p) \/ WriteFloor(p) \/ Publish(p) \/ Serve(p)
         \/ BeginStop(p) \/ Commit(p) \/ JournalQuarantine(p) \/ StepFails(p)
         \/ RestoreCandidate(p) \/ RestoreOld(p)
  PROVE  RealmInv'
<1> DEFINE l == pc'[p]
<1>1. UNCHANGED <<owner, open, svc, marker, damaged, job, want>>
  BY Zenon DEF ReadFloor, Admit, WriteFloor, Publish, Serve, BeginStop, Commit, JournalQuarantine,
    StepFails, RestoreCandidate, RestoreOld, disk, locks, support, history
<1>2. pc \in [Daemons -> States]
  BY Zenon DEF RealmInv, Types
<1>3. /\ pc' = [pc EXCEPT ![p] = l] /\ l \in States
      /\ \/ pc[p] = "idle" /\ l = "opening"
         \/ pc[p] = "waiting" /\ l = "admitted"
         \/ pc[p] = "opened" /\ l = "floored"
         \/ pc[p] = "floored" /\ l = "published"
         \/ pc[p] = "published" /\ l = "serving"
         \/ pc[p] = "serving" /\ l = "stopping"
         \/ pc[p] = "published" /\ l = "committed" /\ job[p].kind \in {"activate", "offline"}
         \/ pc[p] = "moved_old" /\ l = "quarantined"
         \/ pc[p] \in {"stopped_owner", "moved_old", "quarantined", "moved_new"} /\ l = "failed"
         \/ pc[p] = "closed" /\ l = "restored_new"
         \/ pc[p] = "restored_new" /\ l = "restored_old"
  BY <1>2, Zenon DEF ReadFloor, Admit, WriteFloor, Publish, Serve, BeginStop, Commit, JournalQuarantine,
    StepFails, RestoreCandidate, RestoreOld, Goto, States, Starting, Replacing, RollingBack
<1>4. Placed(p)
  BY Zenon DEF RealmInv
<1>5. job[p] \in Jobs \cup {NoJob} /\ (job[p] # NoJob => job[p] \in Jobs) /\ NoJob.kind = "none"
  BY Kept, Zenon DEF RealmInv
<1>6. /\ l \in Replacing \cup RollingBack => job[p] \in Jobs
      /\ l \in {"waiting", "admitted"} => want[p] \in Trees
      /\ l \in {"opened", "floored", "published", "committed", "serving"} => svc[p] \in Trees
      /\ (l = "idle" \/ (l \in {"stopped_owner", "moved_old", "quarantined", "moved_new"} /\ job[p].kind = "offline"))
           => open[p] = {}
  BY <1>3, <1>4, <1>5, Zenon DEF Placed, OffDuty, Replacing, RollingBack
<1>7. job' = [job EXCEPT ![p] = job[p]] /\ want' = [want EXCEPT ![p] = want[p]] /\ want[p] \in Trees \cup {None}
  BY <1>1, Kept, Zenon DEF RealmInv
<1> HIDE DEF l
<1> QED BY <1>1, <1>3, <1>5, <1>6, <1>7, QuietKeeps, ZenonT(60)
(* Renaming the old tree away, or the candidate in, keeps the invariant. *)
LEMMA RenameKeeps ==
  ASSUME NEW p \in Daemons, RealmInv, MoveOld(p) \/ MoveCandidate(p)
  PROVE  RealmInv'
<1>1. UNCHANGED <<owner, open, svc, marker, damaged, want>>
  BY Zenon DEF MoveOld, MoveCandidate, locks
<1>2. pc[p] \in {"stopped_owner", "quarantined"} /\ Placed(p)
  BY Zenon DEF MoveOld, MoveCandidate, RealmInv
<1>3. job[p] \in Jobs
  BY <1>2, Zenon DEF Placed, Replacing
<1>4. PICK j \in Jobs : job' = [job EXCEPT ![p] = j] /\ j.kind = job[p].kind
  <2> DEFINE a == [job[p] EXCEPT !.movedOld = TRUE]
             b == [job[p] EXCEPT !.movedNew = TRUE]
  <2>1. a \in Jobs /\ a.kind = job[p].kind /\ b \in Jobs /\ b.kind = job[p].kind
    BY <1>3, ZenonT(60) DEF Jobs
  <2>2. job' = [job EXCEPT ![p] = a] \/ job' = [job EXCEPT ![p] = b]
    BY Zenon DEF MoveOld, MoveCandidate, RealmInv, Types
  <2> HIDE DEF a, b
  <2> QED BY <2>1, <2>2, Zenon
<1>5. PICK l \in {"moved_old", "quarantined", "moved_new"} : pc' = [pc EXCEPT ![p] = l]
  BY Zenon DEF MoveOld, MoveCandidate, Goto
<1>6. job[p].kind = "offline" => open[p] = {}
  BY <1>2, Zenon DEF Placed, OffDuty
<1>7. want' = [want EXCEPT ![p] = want[p]] /\ want[p] \in Trees \cup {None}
  BY <1>1, Kept, Zenon DEF RealmInv
<1>8. l \in States
  BY <1>5, Zenon DEF States, Replacing
<1> QED BY <1>1, <1>4, <1>5, <1>6, <1>7, <1>8, QuietKeeps, ZenonT(60)

(* A replacement that ends, and one that a serving daemon begins.          *)
LEMMA EndKeeps ==
  ASSUME NEW p \in Daemons, RealmInv, Discard(p) \/ Retain(p) \/ Restarted(p)
  PROVE  RealmInv'
<1>1. UNCHANGED <<owner, open, svc, marker, damaged, want>>
  BY Zenon DEF Discard, Retain, Restarted, disk
<1>2. pc[p] \in {"published", "committed"} /\ pc' = [pc EXCEPT ![p] = "serving"] /\ job' = [job EXCEPT ![p] = NoJob]
  BY ZenonT(60) DEF Discard, Retain, Restarted, Goto, Release
<1>3. svc[p] \in Trees
  BY <1>2, Zenon DEF RealmInv, Placed
<1>4. want' = [want EXCEPT ![p] = want[p]] /\ want[p] \in Trees \cup {None} /\ NoJob.kind = "none"
  BY <1>1, Kept, Zenon DEF RealmInv
<1>5. "serving" \in States /\ "serving" \notin Replacing \cup RollingBack
  BY Zenon DEF States, Replacing, RollingBack
<1> QED BY <1>1, <1>2, <1>3, <1>4, <1>5, QuietKeeps, ZenonT(60)

(* A job the daemon begins is a job. *)
LEMMA JobTyped ==
  ASSUME NEW kind \in {"activate", "offline", "restart"}, NEW old \in Trees, NEW new \in Trees,
         NEW keep \in BOOLEAN
  PROVE  Job(kind, old, new, keep) \in Jobs /\ Job(kind, old, new, keep).kind = kind
  BY Zenon DEF Job, Jobs

(* Beginning an activation, or refusing it, keeps the invariant. *)
LEMMA ActivateKeeps ==
  ASSUME NEW p \in Daemons, NEW new \in Trees, RealmInv, Activate(p, new) \/ ActivateRefused(p, new)
  PROVE  RealmInv'
<1>1. UNCHANGED <<owner, open, svc, marker, damaged, want>>
  BY Zenon DEF Activate, ActivateRefused, disk
<1>2. pc[p] = "serving"
  BY ZenonT(60) DEF Activate, ActivateRefused
<1>3. svc[p] \in Trees
  BY <1>2, Zenon DEF RealmInv, Placed
<1>4. PICK keep \in BOOLEAN : job' = [job EXCEPT ![p] = Job("activate", svc[p], new, keep)]
  BY ZenonT(60) DEF Activate, ActivateRefused
<1>5. PICK l \in {"verified", "failed"} : pc' = [pc EXCEPT ![p] = l]
  BY ZenonT(60) DEF Activate, ActivateRefused, Goto
<1>6. Job("activate", svc[p], new, keep) \in Jobs
  BY <1>3, JobTyped, Zenon
<1>7. want' = [want EXCEPT ![p] = want[p]] /\ want[p] \in Trees \cup {None}
  BY <1>1, Kept, Zenon DEF RealmInv
<1>8. l \in States
  BY <1>5, Zenon DEF States, Replacing, RollingBack
<1> QED BY <1>1, <1>4, <1>5, <1>6, <1>7, <1>8, QuietKeeps, ZenonT(60)
-----------------------------------------------------------------------------
(* The steps that open a store, and those that lose or close one.          *)
LEMMA OpenStoreKeeps ==
  ASSUME NEW p \in Daemons, RealmInv, OpenStore(p)
  PROVE  RealmInv'
<1> DEFINE t == want[p]
<1>1. pc[p] = "admitted" /\ owner[t] = None /\ Inspected(t)
  BY Zenon DEF OpenStore, Admissible
<1>2. t \in Trees
  BY <1>1, Zenon DEF RealmInv, Placed
<1>3. /\ owner' = [owner EXCEPT ![t] = p] /\ open' = [open EXCEPT ![p] = @ \cup {t}]
      /\ marker' = [marker EXCEPT ![t] = "dirty"] /\ damaged' = damaged
      /\ svc' = [svc EXCEPT ![p] = t] /\ pc' = [pc EXCEPT ![p] = "opened"]
      /\ want' = [want EXCEPT ![p] = None] /\ job' = job
  BY Zenon DEF OpenStore, Goto, Forget
<1>4. Guarded'
  BY <1>1, <1>2, <1>3, OpenKeeps, ZenonT(60) DEF RealmInv
<1>5. job' = [job EXCEPT ![p] = job[p]] /\ job[p] \in Jobs \cup {NoJob}
  BY <1>3, Kept, Zenon DEF RealmInv
<1>6. Moves(p, "opened", job[p], None)
  <2>1. "opened" \in States
    BY Zenon DEF States, Starting
  <2>2. svc' \in [Daemons -> Trees \cup {None}] /\ open' \in [Daemons -> SUBSET Trees]
    BY <1>2, <1>3, Zenon DEF RealmInv, Types
  <2>3. \A q \in Daemons \ {p} : svc'[q] = svc[q] /\ open'[q] = open[q]
    BY <1>3, Zenon DEF RealmInv, Types
  <2> QED BY <1>3, <1>5, <2>1, <2>2, <2>3, ZenonT(60) DEF Moves
<1>7. Fits(p, "opened", job[p], None)
  <2>1. svc'[p] = t /\ t \in open'[p]
    BY <1>3, Zenon DEF RealmInv, Types
  <2> QED BY <1>2, <2>1, Zenon DEF Fits, Replacing, RollingBack
<1>8. owner' \in [Trees -> Daemons \cup {None}] /\ marker' \in [Trees -> {"clean", "dirty"}]
  BY <1>2, <1>3, Zenon DEF RealmInv, Types
<1> QED BY <1>4, <1>6, <1>7, <1>8, MoveKeeps, Zenon

(* A process that ends, whatever it was doing.                             *)
LEMMA GoneKeeps ==
  ASSUME NEW p \in Daemons, NEW j \in Jobs \cup {NoJob}, NEW w \in Trees \cup {None},
         RealmInv, Exit(p), pc' = [pc EXCEPT ![p] = "idle"],
         job' = [job EXCEPT ![p] = j], want' = [want EXCEPT ![p] = w],
         \/ /\ marker' = marker \/ marker' = [marker EXCEPT ![svc[p]] = "clean"]
            /\ damaged' = damaged
         \/ marker' = marker /\ \E d \in SUBSET open[p] : damaged' = damaged \cup d
  PROVE  RealmInv'
<1>1. Types /\ Guarded /\ Placed(p)
  BY Zenon DEF RealmInv
<1>2. /\ Guarded'
      /\ svc' \in [Daemons -> Trees \cup {None}] /\ open' \in [Daemons -> SUBSET Trees]
      /\ owner' \in [Trees -> Daemons \cup {None}] /\ marker' \in [Trees -> {"clean", "dirty"}]
      /\ svc'[p] = None /\ open'[p] = {}
      /\ \A q \in Daemons \ {p} : svc'[q] = svc[q] /\ open'[q] = open[q]
  BY <1>1, ExitKeeps, Zenon
<1>3. Moves(p, "idle", j, w)
  BY <1>2, Zenon DEF Moves, States
<1>4. Fits(p, "idle", j, w)
  BY <1>2, Zenon DEF Fits, Replacing, RollingBack
<1> QED BY <1>2, <1>3, <1>4, MoveKeeps, Zenon

(* The end of a daemon, orderly or not, keeps the invariant. *)
LEMMA StopKeeps ==
  ASSUME NEW p \in Daemons, RealmInv, EndStop(p) \/ Crash(p)
  PROVE  RealmInv'
<1>1. CASE EndStop(p)
  <2>1. job' = [job EXCEPT ![p] = job[p]] /\ want' = [want EXCEPT ![p] = want[p]]
        /\ job[p] \in Jobs \cup {NoJob} /\ want[p] \in Trees \cup {None}
    BY <1>1, Kept, Zenon DEF EndStop, RealmInv
  <2> QED BY <1>1, <2>1, GoneKeeps, ZenonT(60) DEF EndStop, Goto
<1>2. CASE Crash(p)
  BY <1>2, GoneKeeps, ZenonT(60) DEF Crash, Goto, Release, Forget
<1> QED BY <1>1, <1>2, Zenon

(* A start that fails, with or without a replacement behind it.            *)
LEMMA AbandonKeeps ==
  ASSUME NEW p \in Daemons, NEW w \in Trees \cup {None}, RealmInv, Abandon(p),
         want' = [want EXCEPT ![p] = w], UNCHANGED <<marker, damaged>>
  PROVE  RealmInv'
<1>1. job[p] \in Jobs \cup {NoJob} /\ NoJob.kind = "none" /\ job = [job EXCEPT ![p] = job[p]]
  BY Kept, Zenon DEF RealmInv
<1>2. CASE job[p].kind \in {"activate", "offline"}
  <2>1. pc' = [pc EXCEPT ![p] = "failed"] /\ UNCHANGED <<job, owner, svc, open>>
    BY <1>2, Zenon DEF Abandon, Goto
  <2>2. job[p] \in Jobs
    BY <1>1, <1>2, Zenon
  <2>3. "failed" \in States
    BY Zenon DEF States, RollingBack
  <2> QED BY <1>1, <2>1, <2>2, <2>3, QuietKeeps, ZenonT(60)
<1>3. CASE job[p].kind = "restart" /\ open[p] # {}
  <2>1. pc' = [pc EXCEPT ![p] = "stranded"] /\ job' = [job EXCEPT ![p] = NoJob] /\ UNCHANGED <<owner, svc, open>>
    BY <1>3, Zenon DEF Abandon, Goto, Release
  <2>2. "stranded" \in States /\ "stranded" \notin Replacing \cup RollingBack
    BY Zenon DEF States, Replacing, RollingBack
  <2> QED BY <1>1, <2>1, <2>2, QuietKeeps, ZenonT(60)
<1>4. CASE job[p].kind \notin {"activate", "offline"} /\ ~(job[p].kind = "restart" /\ open[p] # {})
  <2>1. pc' = [pc EXCEPT ![p] = "idle"] /\ job' = [job EXCEPT ![p] = NoJob] /\ Exit(p)
    BY <1>4, ZenonT(60) DEF Abandon, Goto, Release
  <2> QED BY <2>1, GoneKeeps, ZenonT(60)
<1> QED BY <1>2, <1>3, <1>4, Zenon
(* Opening the realm directory keeps the invariant. *)
LEMMA OpenDirectoryKeeps ==
  ASSUME NEW p \in Daemons, RealmInv, OpenDirectory(p)
  PROVE  RealmInv'
<1>1. pc[p] = "opening" /\ UNCHANGED <<marker, damaged>>
  BY Zenon DEF OpenDirectory, disk
<1>2. CASE \E t \in Root : want' = [want EXCEPT ![p] = t] /\ Goto(p, "waiting") /\ UNCHANGED <<locks, svc, open, read, job>>
  <2>1. PICK t \in Trees : want' = [want EXCEPT ![p] = t] /\ pc' = [pc EXCEPT ![p] = "waiting"] /\ UNCHANGED <<owner, svc, open, job>>
    BY <1>2, Zenon DEF Root, Goto, locks
  <2>2. job' = [job EXCEPT ![p] = job[p]] /\ job[p] \in Jobs \cup {NoJob}
    BY <2>1, Kept, Zenon DEF RealmInv
  <2>3. "waiting" \in States /\ "waiting" \notin Replacing \cup RollingBack
    BY Zenon DEF States, Starting, Replacing, RollingBack
  <2> QED BY <1>1, <2>1, <2>2, <2>3, QuietKeeps, ZenonT(60)
<1>3. CASE Abandon(p) /\ Forget(p)
  <2>1. want' = [want EXCEPT ![p] = None]
    BY <1>3, Zenon DEF Forget
  <2> QED BY <1>1, <1>3, <2>1, AbandonKeeps, ZenonT(60)
<1> QED BY <1>2, <1>3, Zenon DEF OpenDirectory

(* A start that fails keeps the invariant. *)
LEMMA StartFailsKeeps ==
  ASSUME NEW p \in Daemons, RealmInv, OpenRefused(p) \/ StartFails(p)
  PROVE  RealmInv'
<1>1. Abandon(p) /\ want' = [want EXCEPT ![p] = None] /\ UNCHANGED <<marker, damaged>>
  BY Zenon DEF OpenRefused, StartFails, Forget, disk
<1> QED BY <1>1, AbandonKeeps, ZenonT(60)

(* What a close leaves of a daemon.                                        *)
LEMMA ClosedKeeps ==
  ASSUME NEW p \in Daemons, NEW l \in States, NEW j \in Jobs \cup {NoJob}, RealmInv, CloseStore(p),
         pc' = [pc EXCEPT ![p] = l], job' = [job EXCEPT ![p] = j], UNCHANGED <<want, damaged>>,
         l \notin {"waiting", "admitted", "opened", "floored", "published", "committed", "serving"},
         l \in Replacing \cup RollingBack => j \in Jobs,
         l = "idle" => open[p] \subseteq {svc[p]},
         l \in {"stopped_owner", "moved_old", "quarantined", "moved_new"} => j.kind # "offline"
  PROVE  RealmInv'
<1>1. Types /\ Guarded /\ Placed(p)
  BY Zenon DEF RealmInv
<1>2. /\ Guarded'
      /\ svc' \in [Daemons -> Trees \cup {None}] /\ open' \in [Daemons -> SUBSET Trees]
      /\ owner' \in [Trees -> Daemons \cup {None}] /\ marker' \in [Trees -> {"clean", "dirty"}]
      /\ svc'[p] = None /\ open'[p] = open[p] \ {svc[p]}
      /\ \A q \in Daemons \ {p} : svc'[q] = svc[q] /\ open'[q] = open[q]
  BY <1>1, CloseKeeps, Zenon
<1>3. want' = [want EXCEPT ![p] = want[p]] /\ want[p] \in Trees \cup {None}
  BY <1>1, Kept, Zenon
<1>4. Moves(p, l, j, want[p])
  BY <1>2, <1>3, ZenonT(60) DEF Moves
<1>5. Fits(p, l, j, want[p])
  BY <1>2, Zenon DEF Fits
<1> QED BY <1>2, <1>4, <1>5, MoveKeeps, Zenon

(* Services that do not start keep the invariant. *)
LEMMA ServicesFailKeeps ==
  ASSUME NEW p \in Daemons, RealmInv, ServicesFail(p)
  PROVE  RealmInv'
<1>1. damaged' = damaged /\ want' = want
  BY Zenon DEF ServicesFail
<1>2. CASE Abandon(p) /\ marker' = marker
  <2>1. want' = [want EXCEPT ![p] = want[p]] /\ want[p] \in Trees \cup {None}
    BY <1>1, Kept, Zenon DEF RealmInv
  <2> QED BY <1>1, <1>2, <2>1, AbandonKeeps, ZenonT(60)
<1>3. CASE CloseStore(p) /\ job[p].kind \in {"activate", "offline"} /\ Goto(p, "failed") /\ UNCHANGED <<admission, job>>
  <2>1. job' = [job EXCEPT ![p] = job[p]] /\ job[p] \in Jobs
    BY <1>3, Kept, Zenon DEF RealmInv
  <2>2. pc' = [pc EXCEPT ![p] = "failed"] /\ "failed" \in States
    BY <1>3, Zenon DEF Goto, States, RollingBack
  <2> QED BY <1>1, <1>3, <2>1, <2>2, ClosedKeeps, ZenonT(60)
<1>4. CASE CloseStore(p) /\ Goto(p, IF open[p] = {svc[p]} THEN "idle" ELSE "stranded") /\ Release(p)
  <2> DEFINE l == IF open[p] = {svc[p]} THEN "idle" ELSE "stranded"
  <2>1. pc' = [pc EXCEPT ![p] = l] /\ job' = [job EXCEPT ![p] = NoJob]
    BY <1>4, Zenon DEF Goto, Release
  <2>2. /\ l \in {"idle", "stranded"} /\ l \in States /\ l \notin Replacing \cup RollingBack
        /\ l = "idle" => open[p] \subseteq {svc[p]}
    BY Zenon DEF States, Replacing, RollingBack
  <2> HIDE DEF l
  <2> QED BY <1>1, <1>4, <2>1, <2>2, ClosedKeeps, ZenonT(60)
<1> QED BY <1>2, <1>3, <1>4, Zenon DEF ServicesFail
(* Stopping the owner, to replace it or to roll back, keeps the invariant. *)
LEMMA StopOwnerKeeps ==
  ASSUME NEW p \in Daemons, RealmInv, StopOwner(p) \/ RollbackStop(p)
  PROVE  RealmInv'
<1>1. UNCHANGED <<damaged, want, job>>
  BY Zenon DEF StopOwner, RollbackStop
<1>2. /\ \/ pc[p] = "verified" /\ job[p].kind = "activate"
         \/ pc[p] = "failed"
      /\ Placed(p)
  BY Zenon DEF StopOwner, RollbackStop, RealmInv
<1>3. job[p] \in Jobs /\ job' = [job EXCEPT ![p] = job[p]]
  <2>1. job[p] \in Jobs
    BY <1>2, Zenon DEF Placed, Replacing, RollingBack
  <2> QED BY <1>1, <2>1, Kept, Zenon DEF RealmInv
<1>4. \/ CloseStore(p) /\ Goto(p, "stopped_owner") /\ job[p].kind = "activate"
      \/ CloseStore(p) /\ Goto(p, "closed")
      \/ Goto(p, "failed") /\ UNCHANGED <<marker, owner, svc, open>>
      \/ Goto(p, "closed") /\ UNCHANGED <<marker, owner, svc, open>>
  BY Zenon DEF StopOwner, RollbackStop
<1>5. {"stopped_owner", "closed", "failed"} \subseteq States
  BY Zenon DEF States, Replacing, RollingBack
<1>6. CASE CloseStore(p) /\ Goto(p, "stopped_owner") /\ job[p].kind = "activate"
  BY <1>1, <1>3, <1>5, <1>6, ClosedKeeps, ZenonT(60) DEF Goto
<1>7. CASE CloseStore(p) /\ Goto(p, "closed")
  BY <1>1, <1>3, <1>5, <1>7, ClosedKeeps, ZenonT(60) DEF Goto
<1>8. CASE (Goto(p, "failed") \/ Goto(p, "closed")) /\ UNCHANGED <<marker, owner, svc, open>>
  <2>1. want' = [want EXCEPT ![p] = want[p]] /\ want[p] \in Trees \cup {None}
    BY <1>1, Kept, Zenon DEF RealmInv
  <2>2. PICK l \in {"failed", "closed"} : pc' = [pc EXCEPT ![p] = l]
    BY <1>8, Zenon DEF Goto
  <2> QED BY <1>1, <1>3, <1>5, <1>8, <2>1, <2>2, QuietKeeps, ZenonT(60)
<1> QED BY <1>4, <1>6, <1>7, <1>8, Zenon

-----------------------------------------------------------------------------
(* The steps that take or give up a lock without a store.                  *)
LEMMA LockStepKeeps ==
  ASSUME NEW p \in Daemons, NEW l \in States, NEW j \in Jobs \cup {NoJob}, NEW w \in Trees \cup {None},
         RealmInv, UNCHANGED <<open, svc, marker, damaged>>,
         owner' \in [Trees -> Daemons \cup {None}],
         \A t \in Trees : owner'[t] # owner[t] =>
           owner[t] = None \/ (owner[t] = p /\ t \notin open[p]),
         pc' = [pc EXCEPT ![p] = l], job' = [job EXCEPT ![p] = j], want' = [want EXCEPT ![p] = w],
         l = "idle" \/ (l \in {"stopped_owner", "moved_old", "quarantined", "moved_new"} /\ j.kind = "offline")
           => open[p] = {},
         l \in Replacing \cup RollingBack => j \in Jobs,
         l \in {"waiting", "admitted"} => w \in Trees,
         l \notin {"opened", "floored", "published", "committed", "serving"}
  PROVE  RealmInv'
<1>1. Guarded'
  BY LockKeeps, Zenon DEF RealmInv
<1>2. Moves(p, l, j, w)
  BY Zenon DEF Moves, RealmInv, Types
<1>3. Fits(p, l, j, w)
  BY Zenon DEF Fits, RealmInv, Placed
<1> QED BY <1>1, <1>2, <1>3, MoveKeeps, Zenon DEF RealmInv, Types

(* Starting the candidate keeps the invariant. *)
LEMMA StartCandidateKeeps ==
  ASSUME NEW p \in Daemons, RealmInv, StartCandidate(p)
  PROVE  RealmInv'
<1>1. pc[p] = "moved_new" /\ Placed(p) /\ pc' = [pc EXCEPT ![p] = "admitted"]
  BY Zenon DEF StartCandidate, RealmInv, Goto
<1>2. job[p] \in Jobs /\ job[p].new \in Trees
  BY <1>1, Zenon DEF Placed, Replacing, Jobs
<1>3. /\ UNCHANGED <<open, svc, marker, damaged, job>> /\ want' = [want EXCEPT ![p] = job[p].new]
      /\ owner' = IF job[p].kind = "offline" THEN Unlock(owner, p) ELSE owner
  BY Zenon DEF StartCandidate, disk
<1>4. job[p].kind = "offline" => open[p] = {}
  BY <1>1, Zenon DEF Placed, OffDuty
<1>5. owner' \in [Trees -> Daemons \cup {None}]
  BY <1>3, Zenon DEF Unlock, RealmInv, Types
<1>6. \A t \in Trees : owner'[t] # owner[t] => owner[t] = p /\ t \notin open[p]
  BY <1>3, <1>4, Zenon DEF Unlock
<1>7. job' = [job EXCEPT ![p] = job[p]]
  BY <1>3, Kept, Zenon DEF RealmInv
<1>8. "admitted" \in States /\ "admitted" \notin Replacing \cup RollingBack
  BY Zenon DEF States, Starting, Replacing, RollingBack
<1> QED BY <1>1, <1>2, <1>3, <1>5, <1>6, <1>7, <1>8, LockStepKeeps, ZenonT(60)

(* Locks of trees that are not open are given up.                          *)
LEMMA GivenUp ==
  ASSUME NEW p \in Daemons, RealmInv,
         owner' = [t \in Trees |-> IF owner[t] = p /\ t \notin open[p] THEN None ELSE owner[t]]
  PROVE  /\ owner' \in [Trees -> Daemons \cup {None}]
         /\ \A t \in Trees : owner'[t] # owner[t] => owner[t] = p /\ t \notin open[p]
  BY Zenon DEF RealmInv, Types

(* A rollback that fails keeps the invariant. *)
LEMMA RollbackFailsKeeps ==
  ASSUME NEW p \in Daemons, RealmInv, RollbackFails(p)
  PROVE  RealmInv'
<1> DEFINE l == IF open[p] = {} THEN "idle" ELSE "stranded"
<1>1. /\ UNCHANGED <<open, svc, marker, damaged, want>> /\ job' = [job EXCEPT ![p] = NoJob]
      /\ owner' = [t \in Trees |-> IF owner[t] = p /\ t \notin open[p] THEN None ELSE owner[t]]
      /\ pc' = [pc EXCEPT ![p] = l]
  BY Zenon DEF RollbackFails, disk, Release, Goto
<1>2. /\ l \in {"idle", "stranded"} /\ l \in States /\ l \notin Replacing \cup RollingBack
      /\ l = "idle" => open[p] = {}
  BY Zenon DEF States, Replacing, RollingBack
<1>3. want' = [want EXCEPT ![p] = want[p]] /\ want[p] \in Trees \cup {None}
  BY <1>1, Kept, Zenon DEF RealmInv
<1>4. /\ owner' \in [Trees -> Daemons \cup {None}]
      /\ \A t \in Trees : owner'[t] # owner[t] => owner[t] = p /\ t \notin open[p]
  BY <1>1, GivenUp, Zenon
<1> HIDE DEF l
<1> QED BY <1>1, <1>2, <1>3, <1>4, LockStepKeeps, ZenonT(60)
(* The end of a rollback keeps the invariant. *)
LEMMA RolledBackKeeps ==
  ASSUME NEW p \in Daemons, RealmInv, RolledBack(p)
  PROVE  RealmInv'
<1>1. pc[p] = "restored_old" /\ Placed(p) /\ UNCHANGED <<marker, damaged, svc, open>>
  BY Zenon DEF RolledBack, RealmInv
<1>2. job[p] \in Jobs /\ job[p].old \in Trees
  BY <1>1, Zenon DEF Placed, RollingBack, Jobs
<1>3. CASE job[p].kind = "offline"
  <2> DEFINE l == IF open[p] = {} THEN "idle" ELSE "stranded"
  <2>1. /\ owner' = [t \in Trees |-> IF owner[t] = p /\ t \notin open[p] THEN None ELSE owner[t]]
        /\ job' = [job EXCEPT ![p] = NoJob] /\ pc' = [pc EXCEPT ![p] = l] /\ want' = want
    BY <1>3, Zenon DEF RolledBack, Goto
  <2>2. /\ l \in {"idle", "stranded"} /\ l \in States /\ l \notin Replacing \cup RollingBack
        /\ l = "idle" => open[p] = {}
    BY Zenon DEF States, Replacing, RollingBack
  <2>3. want' = [want EXCEPT ![p] = want[p]] /\ want[p] \in Trees \cup {None}
    BY <2>1, Kept, Zenon DEF RealmInv
  <2>4. /\ owner' \in [Trees -> Daemons \cup {None}]
        /\ \A t \in Trees : owner'[t] # owner[t] => owner[t] = p /\ t \notin open[p]
    BY <2>1, GivenUp, Zenon
  <2> HIDE DEF l
  <2> QED BY <1>1, <2>1, <2>2, <2>3, <2>4, LockStepKeeps, ZenonT(60)
<1>4. CASE job[p].kind # "offline" /\ admission[job[p].old] = p
  <2> DEFINE j == [job[p] EXCEPT !.kind = "restart"]
  <2>1. /\ owner' = owner /\ job' = [job EXCEPT ![p] = [@ EXCEPT !.kind = "restart"]]
        /\ want' = [want EXCEPT ![p] = job[p].old] /\ pc' = [pc EXCEPT ![p] = "admitted"]
    BY <1>4, Zenon DEF RolledBack, Goto
  <2>2. j \in Jobs
    BY <1>2, ZenonT(60) DEF Jobs
  <2>3. job' = [job EXCEPT ![p] = j]
    BY <2>1, Zenon DEF RealmInv, Types
  <2>4. "admitted" \in States
    BY Zenon DEF States, Starting
  <2> HIDE DEF j
  <2> QED BY <1>1, <1>2, <2>1, <2>2, <2>3, <2>4, QuietKeeps, ZenonT(60)
<1>5. CASE job[p].kind # "offline" /\ admission[job[p].old] # p
  <2>1. owner' = owner /\ job' = [job EXCEPT ![p] = NoJob] /\ want' = want /\ pc' = [pc EXCEPT ![p] = "opening"]
    BY <1>5, Zenon DEF RolledBack, Goto, Release
  <2>2. want' = [want EXCEPT ![p] = want[p]] /\ want[p] \in Trees \cup {None}
    BY <2>1, Kept, Zenon DEF RealmInv
  <2>3. "opening" \in States /\ "opening" \notin Replacing \cup RollingBack
    BY Zenon DEF States, Starting, Replacing, RollingBack
  <2> QED BY <1>1, <2>1, <2>2, <2>3, QuietKeeps, ZenonT(60)
<1> QED BY <1>3, <1>4, <1>5, Zenon

(* A candidate is restored by an idle daemon that replaces a tree offline. *)
LEMMA ReplaceKeeps ==
  ASSUME NEW p \in Daemons, NEW new \in Trees, RealmInv, ReplaceFromBackup(p, new) \/ ReplaceRefused(p, new)
  PROVE  RealmInv'
<1>1. /\ pc[p] = "idle" /\ owner[new] = None /\ UNCHANGED <<svc, open, want>>
      /\ marker' = [marker EXCEPT ![new] = "dirty"] /\ damaged' = damaged \ {new}
  BY ZenonT(60) DEF ReplaceFromBackup, ReplaceRefused, Fresh, Restored
<1>2. open[p] = {}
  BY <1>1, Zenon DEF RealmInv, Placed, OffDuty
<1>3. PICK old \in Trees, keep \in BOOLEAN, l \in {"stopped_owner", "failed"} :
        /\ job' = [job EXCEPT ![p] = Job("offline", old, new, keep)] /\ pc' = [pc EXCEPT ![p] = l]
        /\ owner' = owner \/ (owner[old] = None /\ owner' = [owner EXCEPT ![old] = p])
  <2>1. CASE ReplaceFromBackup(p, new)
    BY <2>1, ZenonT(60) DEF ReplaceFromBackup, Root, Goto
  <2>2. CASE ReplaceRefused(p, new)
    BY <2>2, ZenonT(60) DEF ReplaceRefused, Root, Goto
  <2> QED BY <2>1, <2>2, Zenon
<1>4. owner' \in [Trees -> Daemons \cup {None}] /\ \A u \in Trees : owner'[u] # owner[u] => owner[u] = None
  BY <1>3, Zenon DEF RealmInv, Types
<1>5. Guarded' /\ marker' \in [Trees -> {"clean", "dirty"}]
  BY <1>1, <1>4, RewriteKeeps, ZenonT(60) DEF RealmInv
<1> DEFINE j == Job("offline", old, new, keep)
<1>6. j \in Jobs
  BY JobTyped, Zenon
<1>7. Moves(p, l, j, want[p])
  <2>1. want' = [want EXCEPT ![p] = want[p]] /\ want[p] \in Trees \cup {None}
    BY <1>1, Kept, Zenon DEF RealmInv
  <2>2. l \in States
    BY <1>3, Zenon DEF States, Replacing, RollingBack
  <2> HIDE DEF j
  <2> QED BY <1>1, <1>3, <1>6, <2>1, <2>2, ZenonT(60) DEF Moves, RealmInv, Types, j
<1>8. Fits(p, l, j, want[p])
  <2> HIDE DEF j
  <2> QED BY <1>1, <1>2, <1>6, Zenon DEF Fits, RealmInv, Placed
<1> HIDE DEF j
<1> QED BY <1>4, <1>5, <1>7, <1>8, MoveKeeps, Zenon

(* Candidates and first trees are written by no daemon of the realm.       *)
LEMMA WriteKeeps ==
  ASSUME NEW t \in Trees, RealmInv, RestoreBackup(t) \/ Initialize(t)
  PROVE  RealmInv'
<1>1. /\ owner[t] = None /\ UNCHANGED <<owner, pc, job, want, svc, open>>
      /\ marker' = [marker EXCEPT ![t] = "dirty"] /\ damaged' = damaged \ {t}
  BY ZenonT(60) DEF RestoreBackup, Initialize, Fresh, Restored, locks, local
<1>2. Guarded' /\ marker' \in [Trees -> {"clean", "dirty"}]
  BY <1>1, RewriteKeeps, ZenonT(60) DEF RealmInv
<1> QED BY <1>1, <1>2, ZenonT(60) DEF RealmInv, Types, Placed, OffDuty
-----------------------------------------------------------------------------
(* The initial realm satisfies the invariant. *)
LEMMA InitRealm == Init => RealmInv
<1> SUFFICES ASSUME Init PROVE RealmInv
  OBVIOUS
<1>1. Types
  BY Zenon DEF Init, Types, States
<1>2. Guarded
  BY Zenon DEF Init, Guarded, SoleOwner, DamageCaught, OpenDirty, CleanSound
<1>3. \A p \in Daemons : Placed(p)
  BY Zenon DEF Init, Placed, OffDuty, Replacing, RollingBack
<1> QED BY <1>1, <1>2, <1>3, Zenon DEF RealmInv

(* Every step of a daemon keeps the invariant. *)
LEMMA StepRealm ==
  ASSUME NEW p \in Daemons, RealmInv, Step(p)
  PROVE  RealmInv'
<1>1. CASE Start(p)
  BY <1>1, StartingKeeps, OpenDirectoryKeeps, OpenStoreKeeps, StartFailsKeeps, ServicesFailKeeps, ZenonT(60) DEF Start
<1>2. CASE Replace(p)
  BY <1>2, StartingKeeps, StopOwnerKeeps, RenameKeeps, StartCandidateKeeps, EndKeeps, ZenonT(60) DEF Replace
<1>3. CASE RollBack(p)
  BY <1>3, StartingKeeps, StopOwnerKeeps, RolledBackKeeps, RollbackFailsKeeps, EndKeeps, ZenonT(60) DEF RollBack
<1>4. CASE EndStop(p)
  BY <1>4, StopKeeps, ZenonT(60)
<1> QED BY <1>1, <1>2, <1>3, <1>4, ZenonT(60) DEF Step

(* Every step of the system keeps the invariant. *)
LEMMA NextRealm == RealmInv /\ [Next]_vars => RealmInv'
<1> SUFFICES ASSUME RealmInv, [Next]_vars PROVE RealmInv'
  OBVIOUS
<1>1. CASE \E p \in Daemons : Step(p) \/ BeginStop(p) \/ Crash(p)
  BY <1>1, StepRealm, StartingKeeps, StopKeeps, ZenonT(60)
<1>2. CASE \E t \in Trees : RestoreBackup(t) \/ Initialize(t)
  BY <1>2, WriteKeeps, ZenonT(60)
<1>3. CASE \E p \in Daemons, t \in Trees :
             Activate(p, t) \/ ActivateRefused(p, t) \/ ReplaceFromBackup(p, t) \/ ReplaceRefused(p, t)
  BY <1>3, ActivateKeeps, ReplaceKeeps, ZenonT(60)
<1>4. CASE UNCHANGED vars \/ \E p \in Daemons : CreateBackup(p)
  <2>1. UNCHANGED <<owner, open, marker, damaged, pc, job, want, svc>>
    BY <1>4, ZenonT(60) DEF CreateBackup, vars, disk, locks, local
  <2>2. Guarded'
    BY <2>1, SameKeeps, Zenon DEF RealmInv
  <2> QED BY <2>1, <2>2, ZenonT(60) DEF RealmInv, Types, Placed, OffDuty
<1> QED BY <1>1, <1>2, <1>3, <1>4, ZenonT(60) DEF Next

(* The invariant of the realm (RealmStore, RuntimeDaemon._start, stop and  *)
(* the replacements), for any number of daemons, trees, epochs, crashes.   *)
THEOREM RealmInvariant == Spec => []RealmInv
<1>1. Init => RealmInv
  BY InitRealm, Zenon
<1>2. RealmInv /\ [Next]_vars => RealmInv'
  BY NextRealm, Zenon
<1> QED BY <1>1, <1>2, PTL DEF Spec

(* No two daemons ever have one realm database open, whatever is renamed,  *)
(* restored, crashed or rolled back in between (RealmStore's owner lock).  *)
THEOREM OneOwner == Spec => []SoleOwner
<1>1. RealmInv => SoleOwner
  BY Zenon DEF RealmInv, Guarded
<1> QED BY <1>1, RealmInvariant, PTL

(* A tree that a crash damaged is never opened: the light inspection finds *)
(* the clean marker only where an orderly close wrote it and no session    *)
(* began since (RealmStore._read_admission_state and close).               *)
THEOREM DamageStaysOut == Spec => []DamageCaught
<1>1. RealmInv => DamageCaught
  BY Zenon DEF RealmInv, Guarded
<1> QED BY <1>1, RealmInvariant, PTL
-----------------------------------------------------------------------------
(* The fence of a replacement: from its verification to its end, and in    *)
(* the rollback once a tree was moved, the daemon holds the admission      *)
(* locks of both trees, and nobody else can own them.                      *)
Fencing(p) ==
  /\ job[p] \in Jobs
  /\ \/ pc[p] \in Replacing
     \/ pc[p] \in Starting /\ job[p].kind # "restart"
     \/ job[p].movedOld \/ job[p].movedNew

Manned == {"opened", "floored", "published", "committed", "serving"}

Fenced(p) ==
  /\ pc[p] \in {"idle", "serving", "stopping"} => job[p] = NoJob
  /\ pc[p] = "admitted" => admission[want[p]] = p
  /\ Fencing(p) => \A t \in {job[p].old, job[p].new} : admission[t] = p /\ owner[t] \in {None, p}
  /\ pc[p] \in Manned => place[svc[p]] = "root"

LockTypes ==
  /\ admission \in [Trees -> Daemons \cup {None}]
  /\ place \in [Trees -> {"root", "candidate", "superseded", "none"}]

FenceInv == LockTypes /\ \A p \in Daemons : Fenced(p)

(* What a daemon does, and what it may change of the locks and names: the  *)
(* admission locks that are free or its own, an owner lock only with the   *)
(* admission lock in its hand or free, a root only in a replacement.       *)
Acts(p) ==
  \/ Step(p) \/ BeginStop(p) \/ Crash(p) \/ CreateBackup(p)
  \/ \E t \in Trees : Activate(p, t) \/ ActivateRefused(p, t) \/ ReplaceFromBackup(p, t) \/ ReplaceRefused(p, t)

AdmissionEffect(p) ==
  \A t \in Trees : admission'[t] # admission[t] =>
    admission[t] \in {None, p} /\ admission'[t] \in {None, p}

OwnerEffect(p) ==
  \A t \in Trees : owner'[t] # owner[t] =>
    owner'[t] = None \/ (owner'[t] = p /\ admission[t] \in {None, p})

Settled == journal.state \in {"complete", "cleanup_pending"}

PlaceEffect(p) ==
  \A t \in Trees : place'[t] # place[t] =>
    /\ place[t] = "root" =>
         /\ Fencing(p) /\ t \in {job[p].old, job[p].new} /\ pc[p] \notin Manned
         /\ MoveOld(p) \/ RestoreCandidate(p)
    /\ place'[t] = "root" => Root = {} /\ \A u \in Trees \ {t} : place'[u] = place[u]
    /\ place[t] = "superseded" =>
         \/ pc[p] = "published" /\ Settled /\ t = journal.old
         \/ pc[p] = "committed" /\ Fencing(p) /\ t = job[p].old
         \/ Root = {} /\ Fencing(p) /\ t = job[p].old /\ place'[t] = "root"

(* What a daemon does leaves the fences of every other daemon standing. *)
LEMMA OthersFenced ==
  ASSUME NEW p \in Daemons, NEW q \in Daemons \ {p}, RealmInv, FenceInv,
         AdmissionEffect(p), OwnerEffect(p), PlaceEffect(p),
         pc'[q] = pc[q], job'[q] = job[q], want'[q] = want[q], svc'[q] = svc[q]
  PROVE  Fenced(q)'
<1>1. Fenced(q) /\ Placed(q) /\ Fenced(p)
  BY Zenon DEF FenceInv, RealmInv
<1>2. \A t \in Trees : admission[t] = q => admission'[t] = q
  BY RealmAssumption, Zenon DEF AdmissionEffect
<1>3. pc[q] = "admitted" => admission'[want[q]] = q
  BY <1>1, <1>2, Zenon DEF Fenced, Placed
<1>4. Fencing(q) => \A t \in {job[q].old, job[q].new} : admission'[t] = q /\ owner'[t] \in {None, q}
  <2> SUFFICES ASSUME Fencing(q), NEW t \in {job[q].old, job[q].new}
               PROVE  admission'[t] = q /\ owner'[t] \in {None, q}
    OBVIOUS
  <2>1. t \in Trees
    BY Zenon DEF Fencing, Jobs
  <2>2. admission[t] = q /\ owner[t] \in {None, q}
    BY <1>1, Zenon DEF Fenced
  <2> QED BY <1>2, <2>1, <2>2, RealmAssumption, Zenon DEF OwnerEffect
<1>5. pc[q] \in Manned => place'[svc[q]] = "root"
  <2> SUFFICES ASSUME pc[q] \in Manned PROVE place'[svc[q]] = "root"
    OBVIOUS
  <2>1. svc[q] \in Trees /\ place[svc[q]] = "root"
    BY <1>1, Zenon DEF Placed, Manned, Fenced
  <2>2. owner[svc[q]] = q
    BY <1>1, <2>1, RealmAssumption, Zenon DEF Placed, RealmInv, Guarded, SoleOwner
  <2>3. ~(Fencing(p) /\ svc[q] \in {job[p].old, job[p].new})
    BY <1>1, <2>2, RealmAssumption, Zenon DEF Fenced
  <2> QED BY <2>1, <2>3, Zenon DEF PlaceEffect
<1>6. Fencing(q)' => Fencing(q)
  BY Zenon DEF Fencing
<1> QED BY <1>1, <1>3, <1>4, <1>5, <1>6, Zenon DEF Fenced

(* A daemon changes the control state of no other. *)
LEMMA OthersStay ==
  ASSUME NEW p \in Daemons, NEW q \in Daemons \ {p}, RealmInv, Acts(p)
  PROVE  pc'[q] = pc[q] /\ job'[q] = job[q] /\ want'[q] = want[q] /\ svc'[q] = svc[q]
<1>1. CASE Start(p)
  BY <1>1 DEF Start, ReadFloor, OpenDirectory, Admit, OpenStore, OpenRefused, StartFails, WriteFloor, Publish, Serve,
    ServicesFail, CloseStore, Abandon, Goto, Release, Forget, Exit, RealmInv, Types
<1>2. CASE Replace(p)
  BY <1>2, ZenonT(60)
    DEF Replace, StopOwner, MoveOld, JournalQuarantine, MoveCandidate, StartCandidate, StepFails, Commit, Discard,
    Retain, CloseStore, Goto, Release, RealmInv, Types
<1>3. CASE RollBack(p)
  BY <1>3, ZenonT(60)
    DEF RollBack, RollbackStop, RestoreCandidate, RestoreOld, RolledBack, RollbackFails, Restarted, CloseStore,
    Goto, Release, RealmInv, Types
<1>4. CASE EndStop(p) \/ BeginStop(p) \/ Crash(p) \/ CreateBackup(p)
  BY <1>4, Zenon DEF EndStop, BeginStop, Crash, CreateBackup, Goto, Release, Forget, Exit, local, RealmInv, Types
<1>5. CASE \E t \in Trees : Activate(p, t) \/ ActivateRefused(p, t) \/ ReplaceFromBackup(p, t) \/ ReplaceRefused(p, t)
  BY <1>5, ZenonT(60) DEF Activate, ActivateRefused, ReplaceFromBackup, ReplaceRefused, Goto, RealmInv, Types
<1> QED BY <1>1, <1>2, <1>3, <1>4, <1>5, Zenon DEF Acts, Step

(* Admission locks are taken when they are free and given up by the holder. *)
LEMMA AdmissionSteps ==
  ASSUME NEW p \in Daemons, RealmInv, FenceInv, Acts(p)
  PROVE  AdmissionEffect(p) /\ admission' \in [Trees -> Daemons \cup {None}]
<1>0. admission \in [Trees -> Daemons \cup {None}] /\ Placed(p) /\ Fenced(p)
  BY Zenon DEF FenceInv, LockTypes, RealmInv
<1>1. CASE admission' \in {admission, Unlock(admission, p)}
  BY <1>0, <1>1, Zenon DEF AdmissionEffect, Unlock
<1>2. CASE Admit(p)
  BY <1>0, <1>2, Zenon DEF Admit, AdmissionEffect, Placed
<1>3. CASE OpenStore(p)
  BY <1>0, <1>3, Zenon DEF OpenStore, AdmissionEffect, Placed, Fenced
<1>4. CASE \E t \in Trees : Activate(p, t) \/ ActivateRefused(p, t)
  BY <1>0, <1>4, ZenonT(60) DEF Activate, ActivateRefused, Fence, Fenceable, AdmissionEffect, Placed
<1>5. CASE \E t \in Trees : ReplaceFromBackup(p, t) \/ ReplaceRefused(p, t)
  BY <1>0, <1>5, ZenonT(60) DEF ReplaceFromBackup, ReplaceRefused, Fresh, Fence, AdmissionEffect, Root
<1>6. Start(p) => admission' \in {admission, Unlock(admission, p)} \/ Admit(p) \/ OpenStore(p)
  BY ZenonT(60) DEF Start, ReadFloor, OpenDirectory, OpenRefused, StartFails, WriteFloor, Publish, Serve,
    ServicesFail, Abandon, Release, locks
<1>7. Replace(p) => admission' \in {admission, Unlock(admission, p)}
  BY ZenonT(60) DEF Replace, StopOwner, MoveOld, JournalQuarantine, MoveCandidate, StartCandidate, StepFails, Commit,
    Discard, Retain, Release, locks
<1>8. RollBack(p) => admission' \in {admission, Unlock(admission, p)}
  BY ZenonT(60)
    DEF RollBack, RollbackStop, RestoreCandidate, RestoreOld, RolledBack, RollbackFails, Restarted, Release, locks
<1>9. EndStop(p) \/ BeginStop(p) \/ Crash(p) \/ CreateBackup(p) => admission' \in {admission, Unlock(admission, p)}
  BY ZenonT(60) DEF EndStop, BeginStop, Crash, CreateBackup, Release, locks
<1> QED BY <1>1, <1>2, <1>3, <1>4, <1>5, <1>6, <1>7, <1>8, <1>9, Zenon DEF Acts, Step

(* An owner lock is taken with the admission lock of the tree.             *)
LEMMA OwnerSteps ==
  ASSUME NEW p \in Daemons, RealmInv, FenceInv, Acts(p)
  PROVE  OwnerEffect(p)
<1>0. owner \in [Trees -> Daemons \cup {None}] /\ Placed(p) /\ Fenced(p)
  BY Zenon DEF FenceInv, RealmInv, Types
<1>1. CASE /\ owner' \in [Trees -> Daemons \cup {None}]
           /\ \A t \in Trees : owner'[t] \in {owner[t], None}
  BY <1>0, <1>1, Zenon DEF OwnerEffect
<1>2. CASE OpenStore(p)
  BY <1>0, <1>2, Zenon DEF OpenStore, OwnerEffect, Placed, Fenced
<1>3. CASE \E t \in Trees : ReplaceFromBackup(p, t)
  BY <1>0, <1>3, Zenon DEF ReplaceFromBackup, OwnerEffect, Root
<1>4. CASE owner' = owner \/ Exit(p) \/ CloseStore(p) \/ Abandon(p)
  BY <1>0, <1>1, <1>4, Zenon DEF Exit, CloseStore, Abandon, Unlock, Placed
<1>5. CASE StartCandidate(p) \/ RolledBack(p) \/ RollbackFails(p)
  BY <1>0, <1>1, <1>5, ZenonT(60) DEF StartCandidate, RolledBack, RollbackFails, Unlock
<1>6. Start(p) => owner' = owner \/ Exit(p) \/ CloseStore(p) \/ Abandon(p) \/ OpenStore(p)
  BY ZenonT(60) DEF Start, ReadFloor, OpenDirectory, Admit, OpenRefused, StartFails, WriteFloor, Publish, Serve,
    ServicesFail, locks
<1>7. Replace(p) => owner' = owner \/ CloseStore(p) \/ StartCandidate(p)
  BY ZenonT(60) DEF Replace, StopOwner, MoveOld, JournalQuarantine, MoveCandidate, StepFails, Commit,
    Discard, Retain, locks
<1>8. RollBack(p) => owner' = owner \/ CloseStore(p) \/ RolledBack(p) \/ RollbackFails(p)
  BY ZenonT(60) DEF RollBack, RollbackStop, RestoreCandidate, RestoreOld, Restarted, locks
<1>9. EndStop(p) \/ BeginStop(p) \/ Crash(p) \/ CreateBackup(p) => owner' = owner \/ Exit(p)
  BY ZenonT(60) DEF EndStop, BeginStop, Crash, CreateBackup, locks
<1>10. \A t \in Trees : Activate(p, t) \/ ActivateRefused(p, t) \/ ReplaceRefused(p, t) => owner' = owner
  BY ZenonT(60) DEF Activate, ActivateRefused, ReplaceRefused
<1> QED BY <1>2, <1>3, <1>4, <1>5, <1>6, <1>7, <1>8, <1>9, <1>10, Zenon DEF Acts, Step

(* A root is renamed only by the daemon that fences it, and given only     *)
(* when there is none; a superseded tree is removed only by a daemon that  *)
(* published what replaced it, or gets its name back.                      *)
LEMMA PlaceSteps ==
  ASSUME NEW p \in Daemons, RealmInv, FenceInv, Acts(p)
  PROVE  PlaceEffect(p) /\ place' \in [Trees -> {"root", "candidate", "superseded", "none"}]
<1>0. place \in [Trees -> {"root", "candidate", "superseded", "none"}] /\ Placed(p)
  BY Zenon DEF FenceInv, LockTypes, RealmInv
<1>1. CASE place' = place
  BY <1>0, <1>1, Zenon DEF PlaceEffect
<1>2. CASE Serve(p)
  BY <1>0, <1>2, ZenonT(60) DEF Serve, CleanupCompleted, PlaceEffect, Manned, Settled
<1>3. CASE MoveOld(p) \/ MoveCandidate(p)
  <2>1. pc[p] \in {"stopped_owner", "quarantined"} /\ Fencing(p) /\ job[p].old \in Trees /\ job[p].new \in Trees
    BY <1>0, <1>3, Zenon DEF MoveOld, MoveCandidate, Fencing, Placed, Replacing, Jobs
  <2>2. \/ MoveOld(p) /\ place[job[p].old] = "root" /\ place' = [place EXCEPT ![job[p].old] = "superseded"]
        \/ Root = {} /\ place[job[p].new] = "candidate" /\ place' = [place EXCEPT ![job[p].new] = "root"]
    BY <1>3, Zenon DEF MoveOld, MoveCandidate, Rename
  <2> QED BY <1>0, <2>1, <2>2, Zenon DEF PlaceEffect, Manned
<1>4. CASE Discard(p)
  <2>1. pc[p] = "committed" /\ job[p].old \in Trees /\ Fencing(p)
    BY <1>0, <1>4, Zenon DEF Discard, Placed, Replacing, Jobs, Fencing
  <2>2. place' = place \/ (place[job[p].old] = "superseded" /\ place' = [place EXCEPT ![job[p].old] = "none"])
    BY <1>4, ZenonT(60) DEF Discard, Rename
  <2> QED BY <1>0, <2>1, <2>2, Zenon DEF PlaceEffect, Manned
<1>5. CASE RestoreCandidate(p) \/ RestoreOld(p) \/ RolledBack(p)
  <2>1. pc[p] \in {"closed", "restored_new", "restored_old"} /\ job[p] \in Jobs
    BY <1>0, <1>5, ZenonT(60) DEF RestoreCandidate, RestoreOld, RolledBack, Placed, RollingBack
  <2>2. job[p].old \in Trees /\ job[p].new \in Trees
    BY <2>1, Zenon DEF Jobs
  <2>3. \/ place' = place
        \/ /\ RestoreCandidate(p) /\ job[p].movedNew /\ place[job[p].new] = "root"
           /\ place' = [place EXCEPT ![job[p].new] = "candidate"]
        \/ Root = {} /\ job[p].movedOld /\ place' = [place EXCEPT ![job[p].old] = "root"]
        \/ place' = [place EXCEPT ![job[p].new] = IF @ = "candidate" THEN "none" ELSE @]
    BY <1>5, ZenonT(60) DEF RestoreCandidate, RestoreOld, RolledBack
  <2> QED BY <1>0, <2>1, <2>2, <2>3, Zenon DEF PlaceEffect, Manned, Fencing, Root
<1>6. CASE \E t \in Trees : ReplaceFromBackup(p, t) \/ ReplaceRefused(p, t)
  <2>1. PICK t \in Trees : place[t] = "none" /\ place' = [place EXCEPT ![t] = "candidate"]
    BY <1>6, ZenonT(60) DEF ReplaceFromBackup, ReplaceRefused, Fresh, Restored
  <2> QED BY <1>0, <2>1, Zenon DEF PlaceEffect
<1>7. Start(p) => place' = place \/ Serve(p)
  BY ZenonT(60) DEF Start, ReadFloor, OpenDirectory, Admit, OpenStore, OpenRefused, StartFails, WriteFloor, Publish,
    ServicesFail, disk
<1>8. Replace(p) => place' = place \/ MoveOld(p) \/ MoveCandidate(p) \/ Discard(p)
  BY ZenonT(60) DEF Replace, StopOwner, JournalQuarantine, StartCandidate, StepFails, Commit, Retain, disk
<1>9. RollBack(p) => place' = place \/ RestoreCandidate(p) \/ RestoreOld(p) \/ RolledBack(p)
  BY ZenonT(60) DEF RollBack, RollbackStop, RollbackFails, Restarted, disk
<1>10. EndStop(p) \/ BeginStop(p) \/ Crash(p) \/ CreateBackup(p) => place' = place
  BY ZenonT(60) DEF EndStop, BeginStop, Crash, CreateBackup, disk
<1>11. \A t \in Trees : Activate(p, t) \/ ActivateRefused(p, t) => place' = place
  BY ZenonT(60) DEF Activate, ActivateRefused, disk
<1> QED BY <1>1, <1>2, <1>3, <1>4, <1>5, <1>6, <1>7, <1>8, <1>9, <1>10, <1>11, ZenonT(60) DEF Acts, Step

-----------------------------------------------------------------------------
(* What the acting daemon itself keeps: a job that ends takes the fence    *)
(* with it, a job that goes on keeps its locks.                            *)
LEMMA EndedFenced ==
  ASSUME NEW p \in Daemons, job'[p] = NoJob, pc'[p] # "admitted",
         pc'[p] \in Manned => place'[svc'[p]] = "root"
  PROVE  Fenced(p)'
<1>1. NoJob \notin Jobs
  BY Zenon DEF NoJob, Jobs
<1> QED BY <1>1, Zenon DEF Fenced, Fencing

(* A daemon that takes and releases no admission stays fenced. *)
LEMMA HeldFenced ==
  ASSUME NEW p \in Daemons, RealmInv, FenceInv, OwnerEffect(p), admission' = admission,
         job'[p] \in Jobs => job[p] \in Jobs /\ job'[p].old = job[p].old /\ job'[p].new = job[p].new,
         Fencing(p)' => Fencing(p),
         pc'[p] \in {"idle", "serving", "stopping"} => job'[p] = NoJob,
         pc'[p] = "admitted" => admission[want'[p]] = p,
         pc'[p] \in Manned => place'[svc'[p]] = "root"
  PROVE  Fenced(p)'
<1>1. Fenced(p)
  BY Zenon DEF FenceInv
<1>2. ASSUME Fencing(p)'
      PROVE  \A t \in {job'[p].old, job'[p].new} : admission'[t] = p /\ owner'[t] \in {None, p}
  <2>1. Fencing(p) /\ job'[p] \in Jobs
    BY <1>2, Zenon DEF Fencing
  <2>2. \A t \in {job[p].old, job[p].new} : t \in Trees /\ admission[t] = p /\ owner[t] \in {None, p}
    BY <1>1, <2>1, Zenon DEF Fenced, Fencing, Jobs
  <2> QED BY <2>1, <2>2, Zenon DEF OwnerEffect
<1> QED BY <1>2, Zenon DEF Fenced

(* The steps that begin and end no job keep the daemon fenced. *)
LEMMA QuietFenced ==
  ASSUME NEW p \in Daemons, RealmInv, FenceInv, OwnerEffect(p), PlaceEffect(p),
         \/ ReadFloor(p) \/ WriteFloor(p) \/ Publish(p) \/ Serve(p) \/ BeginStop(p) \/ EndStop(p)
         \/ Commit(p) \/ JournalQuarantine(p) \/ StepFails(p) \/ StopOwner(p)
         \/ RollbackStop(p) \/ RestoreCandidate(p) \/ RestoreOld(p) \/ CreateBackup(p)
  PROVE  Fenced(p)'
<1>1. UNCHANGED <<admission, job, want>>
  BY ZenonT(60) DEF ReadFloor, WriteFloor, Publish, Serve, BeginStop, EndStop, Commit, JournalQuarantine,
    StepFails, StopOwner, RollbackStop, RestoreCandidate, RestoreOld, CreateBackup, locks, local
<1>2. \/ pc[p] = "idle" /\ pc'[p] = "opening"
      \/ pc[p] = "opened" /\ pc'[p] = "floored" /\ svc' = svc
      \/ pc[p] = "floored" /\ pc'[p] = "published" /\ svc' = svc
      \/ pc[p] = "published" /\ pc'[p] = "serving" /\ svc' = svc /\ job[p] = NoJob
      \/ pc[p] = "serving" /\ pc'[p] = "serving" /\ svc' = svc
      \/ pc[p] = "serving" /\ pc'[p] = "stopping"
      \/ pc[p] = "stopping" /\ pc'[p] = "idle"
      \/ pc[p] = "published" /\ pc'[p] = "committed" /\ job[p].kind \in {"activate", "offline"} /\ svc' = svc
      \/ pc[p] = "moved_old" /\ pc'[p] = "quarantined"
      \/ pc[p] \in Replacing /\ pc'[p] = "failed"
      \/ pc[p] = "verified" /\ pc'[p] = "stopped_owner"
      \/ pc[p] \in RollingBack /\ pc'[p] \in RollingBack
  BY DEF ReadFloor, WriteFloor, Publish, Serve, BeginStop, EndStop, Commit, JournalQuarantine, StepFails,
    StopOwner, RollbackStop, RestoreCandidate, RestoreOld, CreateBackup, local, Goto, Replacing, RollingBack, RealmInv, Types
<1>3. Fenced(p) /\ Placed(p)
  BY Zenon DEF FenceInv, RealmInv
<1>4. Fencing(p)' => Fencing(p)
  BY <1>1, <1>2, <1>3, Kept, Zenon DEF Fencing, Fenced, Starting, Replacing, RollingBack, RealmInv
<1>5. pc'[p] \in {"idle", "serving", "stopping"} => job'[p] = NoJob
  BY <1>1, <1>2, <1>3, Zenon DEF Fenced, RollingBack
<1>6. pc'[p] # "admitted"
  BY <1>2, Zenon DEF RollingBack
<1>7. pc'[p] \in Manned => place'[svc'[p]] = "root"
  <2> SUFFICES ASSUME pc'[p] \in Manned PROVE place'[svc'[p]] = "root"
    OBVIOUS
  <2>1. pc[p] \in Manned /\ svc' = svc
    BY <1>2, Zenon DEF Manned, RollingBack
  <2> QED BY <1>3, <2>1, Zenon DEF Fenced, Placed, PlaceEffect, Manned
<1> QED BY <1>1, <1>4, <1>5, <1>6, <1>7, HeldFenced, ZenonT(60)

(* The end of a job, or of the daemon, keeps it fenced. *)
LEMMA EndFenced ==
  ASSUME NEW p \in Daemons, RealmInv, FenceInv, PlaceEffect(p),
         Discard(p) \/ Retain(p) \/ Restarted(p) \/ RollbackFails(p) \/ Crash(p)
  PROVE  Fenced(p)'
<1>1. job'[p] = NoJob
  BY ZenonT(60) DEF Discard, Retain, Restarted, RollbackFails, Crash, Release, RealmInv, Types
<1>2. \/ pc[p] \in {"published", "committed"} /\ pc'[p] = "serving" /\ svc' = svc
      \/ pc'[p] \in {"idle", "stranded"}
  BY ZenonT(60) DEF Discard, Retain, Restarted, RollbackFails, Crash, Goto, RealmInv, Types
<1>3. Fenced(p) /\ Placed(p)
  BY Zenon DEF FenceInv, RealmInv
<1>4. pc'[p] \in Manned => place'[svc'[p]] = "root"
  BY <1>2, <1>3, Zenon DEF Fenced, Placed, PlaceEffect, Manned
<1> QED BY <1>1, <1>2, <1>4, EndedFenced, Zenon

(* A start that is given up keeps the daemon fenced. *)
LEMMA AbandonFenced ==
  ASSUME NEW p \in Daemons, RealmInv, FenceInv, OwnerEffect(p), pc[p] \in Starting,
         \/ Abandon(p)
         \/ /\ job[p].kind \in {"activate", "offline"} /\ Goto(p, "failed") /\ UNCHANGED <<admission, job>>
         \/ Goto(p, IF open[p] = {svc[p]} THEN "idle" ELSE "stranded") /\ Release(p)
  PROVE  Fenced(p)'
<1>1. CASE pc'[p] \in {"idle", "stranded"} /\ job'[p] = NoJob
  BY <1>1, EndedFenced, Zenon DEF Manned
<1>2. CASE pc'[p] = "failed" /\ job[p].kind \in {"activate", "offline"} /\ UNCHANGED <<admission, job>>
  <2>1. job[p] \in Jobs
    BY <1>2, Kept, Zenon DEF RealmInv
  <2>2. Fencing(p)
    BY <1>2, <2>1, Zenon DEF Fencing
  <2> QED BY <1>2, <2>1, <2>2, HeldFenced, Zenon DEF Manned
<1>3. \/ pc'[p] \in {"idle", "stranded"} /\ job'[p] = NoJob
      \/ pc'[p] = "failed" /\ job[p].kind \in {"activate", "offline"} /\ UNCHANGED <<admission, job>>
  BY Zenon DEF Abandon, Goto, Release, RealmInv, Types
<1> QED BY <1>1, <1>2, <1>3, Zenon

(* Opening the realm directory keeps the daemon fenced. *)
LEMMA OpenDirectoryFenced ==
  ASSUME NEW p \in Daemons, RealmInv, FenceInv, OwnerEffect(p), OpenDirectory(p)
  PROVE  Fenced(p)'
<1>1. pc[p] = "opening" /\ pc[p] \in Starting
  BY Zenon DEF OpenDirectory, Starting
<1>2. CASE Goto(p, "waiting") /\ UNCHANGED <<admission, job>>
  <2>1. pc'[p] = "waiting" /\ UNCHANGED <<admission, job>> /\ (Fencing(p)' => Fencing(p))
    BY <1>1, <1>2, Zenon DEF Goto, RealmInv, Types, Fencing, Starting, Replacing
  <2> QED BY <2>1, HeldFenced, Zenon DEF Manned
<1>3. CASE Abandon(p)
  BY <1>1, <1>3, AbandonFenced, Zenon
<1> QED BY <1>2, <1>3, Zenon DEF OpenDirectory, locks

(* Every step of a start keeps the daemon fenced. *)
LEMMA StartFenced ==
  ASSUME NEW p \in Daemons, RealmInv, FenceInv, OwnerEffect(p), PlaceEffect(p), Start(p)
  PROVE  Fenced(p)'
<1>0. Fenced(p) /\ Placed(p) /\ LockTypes /\ Types
  BY Zenon DEF FenceInv, RealmInv
<1>1. CASE OpenRefused(p) \/ StartFails(p) \/ ServicesFail(p)
  <2>1. pc[p] \in Starting
    BY <1>1, Zenon DEF OpenRefused, StartFails, ServicesFail, Starting
  <2>2. \/ Abandon(p)
        \/ /\ job[p].kind \in {"activate", "offline"} /\ Goto(p, "failed") /\ UNCHANGED <<admission, job>>
        \/ Goto(p, IF open[p] = {svc[p]} THEN "idle" ELSE "stranded") /\ Release(p)
    BY <1>1, ZenonT(60) DEF OpenRefused, StartFails, ServicesFail
  <2> QED BY <2>1, <2>2, AbandonFenced, ZenonT(60)
<1>2. CASE Admit(p)
  <2>1. /\ pc[p] = "waiting" /\ want[p] \in Trees /\ pc'[p] = "admitted" /\ UNCHANGED <<owner, job, want>>
        /\ admission[want[p]] = None /\ admission' = [admission EXCEPT ![want[p]] = p]
    BY <1>0, <1>2, Zenon DEF Admit, Goto, Placed, Types
  <2>2. admission'[want[p]] = p
    BY <1>0, <2>1, Zenon DEF LockTypes
  <2>3. Fencing(p)' => Fencing(p)
    BY <2>1, Zenon DEF Fencing, Starting, Replacing
  <2>4. Fencing(p) => \A t \in {job[p].old, job[p].new} : admission'[t] = p /\ owner'[t] \in {None, p}
    <3>1. Fencing(p) => \A t \in {job[p].old, job[p].new} : t \in Trees /\ admission[t] = p /\ owner[t] \in {None, p}
      BY <1>0, Zenon DEF Fenced, Fencing, Jobs
    <3> QED BY <1>0, <2>1, <3>1, Zenon DEF LockTypes
  <2> QED BY <2>1, <2>2, <2>3, <2>4, Zenon DEF Fenced, Manned
<1>3. CASE OpenStore(p)
  <2>1. /\ pc[p] = "admitted" /\ want[p] \in Trees /\ pc'[p] = "opened" /\ svc'[p] = want[p] /\ job' = job
        /\ place[want[p]] = "root" /\ place' = place
    BY <1>0, <1>3, Zenon DEF OpenStore, Admissible, Goto, Placed, Types
  <2>2. CASE job[p] = NoJob
    BY <2>1, <2>2, EndedFenced, Zenon
  <2>3. CASE job[p] # NoJob
    <3>1. admission' = admission
      BY <1>3, <2>3, Zenon DEF OpenStore
    <3>2. Fencing(p)' => Fencing(p)
      BY <2>1, Zenon DEF Fencing, Starting, Replacing
    <3> QED BY <2>1, <3>1, <3>2, HeldFenced, Zenon
  <2> QED BY <2>2, <2>3, Zenon
<1> QED BY <1>1, <1>2, <1>3, OpenDirectoryFenced, QuietFenced, ZenonT(60) DEF Start

(* The renames of a replacement keep the daemon fenced. *)
LEMMA RenameFenced ==
  ASSUME NEW p \in Daemons, RealmInv, FenceInv, OwnerEffect(p), MoveOld(p) \/ MoveCandidate(p) \/ StartCandidate(p)
  PROVE  Fenced(p)'
<1>0. Fenced(p) /\ Placed(p) /\ Types
  BY Zenon DEF FenceInv, RealmInv
<1>1. pc[p] \in {"stopped_owner", "quarantined", "moved_new"} /\ job[p] \in Jobs
  BY <1>0, Zenon DEF MoveOld, MoveCandidate, StartCandidate, Placed, Replacing
<1>2. Fencing(p)
  BY <1>1, Zenon DEF Fencing, Replacing
<1>3. job'[p].old = job[p].old /\ job'[p].new = job[p].new
  BY <1>0, <1>1 DEF MoveOld, MoveCandidate, StartCandidate, Types, Jobs
<1>4. admission' = admission
  BY ZenonT(60) DEF MoveOld, MoveCandidate, StartCandidate, locks
<1>5. pc'[p] \in {"moved_old", "quarantined", "moved_new"} \/ (pc'[p] = "admitted" /\ want'[p] = job[p].new)
  BY <1>0, Zenon DEF MoveOld, MoveCandidate, StartCandidate, Goto, Types
<1>6. pc'[p] = "admitted" => admission[want'[p]] = p
  BY <1>0, <1>2, <1>5, Zenon DEF Fenced
<1> QED BY <1>1, <1>2, <1>3, <1>4, <1>5, <1>6, HeldFenced, Zenon DEF Manned

(* The end of a rollback keeps the daemon fenced. *)
LEMMA RolledBackFenced ==
  ASSUME NEW p \in Daemons, RealmInv, FenceInv, OwnerEffect(p), RolledBack(p)
  PROVE  Fenced(p)'
<1>0. Fenced(p) /\ Placed(p) /\ Types
  BY Zenon DEF FenceInv, RealmInv
<1>1. pc[p] = "restored_old" /\ job[p] \in Jobs
  BY <1>0, Zenon DEF RolledBack, Placed, RollingBack
<1>2. CASE job[p].kind = "offline"
  <2>1. job'[p] = NoJob /\ pc'[p] \in {"idle", "stranded"}
    BY <1>0, <1>2, Zenon DEF RolledBack, Goto, Types
  <2> QED BY <2>1, EndedFenced, Zenon DEF Manned
<1>3. CASE job[p].kind # "offline" /\ admission[job[p].old] # p
  <2>1. job'[p] = NoJob /\ pc'[p] = "opening"
    BY <1>0, <1>3, Zenon DEF RolledBack, Goto, Release, Types
  <2> QED BY <2>1, EndedFenced, Zenon DEF Manned
<1>4. CASE job[p].kind # "offline" /\ admission[job[p].old] = p
  <2>1. /\ job'[p] = [job[p] EXCEPT !.kind = "restart"] /\ pc'[p] = "admitted"
        /\ admission' = admission /\ want'[p] = job[p].old
    BY <1>0, <1>4, Zenon DEF RolledBack, Goto, Types
  <2>2. /\ job'[p].old = job[p].old /\ job'[p].new = job[p].new /\ job'[p].kind = "restart"
        /\ job'[p].movedOld = job[p].movedOld /\ job'[p].movedNew = job[p].movedNew
    BY <1>1, <2>1, Zenon DEF Jobs
  <2>3. Fencing(p)' => Fencing(p)
    BY <1>1, <2>1, <2>2, Zenon DEF Fencing, Replacing
  <2> QED BY <1>1, <1>4, <2>1, <2>2, <2>3, HeldFenced, ZenonT(60) DEF Manned
<1> QED BY <1>2, <1>3, <1>4, Zenon

(* A replacement begins with both fences, or it has moved nothing.         *)
LEMMA BeginFenced ==
  ASSUME NEW p \in Daemons, NEW new \in Trees, RealmInv, FenceInv,
         Activate(p, new) \/ ActivateRefused(p, new) \/ ReplaceFromBackup(p, new) \/ ReplaceRefused(p, new)
  PROVE  Fenced(p)'
<1>0. Fenced(p) /\ Placed(p) /\ LockTypes /\ Types
  BY Zenon DEF FenceInv, RealmInv
<1>1. CASE ActivateRefused(p, new) \/ ReplaceRefused(p, new)
  <2>1. pc'[p] = "failed" /\ ~job'[p].movedOld /\ ~job'[p].movedNew
    BY <1>0, <1>1 DEF ActivateRefused, ReplaceRefused, Goto, Job, Types
  <2>2. ~Fencing(p)'
    BY <2>1, Zenon DEF Fencing, Starting, Replacing
  <2> QED BY <2>1, <2>2, Zenon DEF Fenced, Manned
<1>2. CASE Activate(p, new)
  <2>1. /\ pc[p] = "serving" /\ pc'[p] = "verified" /\ owner' = owner /\ owner[new] = None
        /\ job'[p].old = svc[p] /\ job'[p].new = new
        /\ admission' = [admission EXCEPT ![svc[p]] = p, ![new] = p]
    BY <1>0, <1>2 DEF Activate, Goto, Job, Fence, Fenceable, Types
  <2>2. svc[p] \in Trees /\ owner[svc[p]] = p
    BY <1>0, <2>1, RealmAssumption, Zenon DEF Placed, RealmInv, Guarded, SoleOwner
  <2>3. admission'[svc[p]] = p /\ admission'[new] = p
    BY <1>0, <2>1, <2>2, Zenon DEF LockTypes
  <2> QED BY <2>1, <2>2, <2>3, Zenon DEF Fenced, Manned
<1>3. CASE ReplaceFromBackup(p, new)
  <2>1. PICK old \in Trees, keep \in BOOLEAN :
          /\ pc' = [pc EXCEPT ![p] = "stopped_owner"] /\ job' = [job EXCEPT ![p] = Job("offline", old, new, keep)]
          /\ owner[new] = None /\ owner' = [owner EXCEPT ![old] = p]
          /\ admission' = [admission EXCEPT ![old] = p, ![new] = p]
    BY <1>3, ZenonT(60) DEF ReplaceFromBackup, Goto, Fence, Fresh, Root
  <2>2. admission'[old] = p /\ admission'[new] = p /\ owner'[old] = p /\ owner'[new] \in {None, p}
    BY <1>0, <2>1, Zenon DEF LockTypes, Types
  <2>3. pc'[p] = "stopped_owner" /\ job'[p].old = old /\ job'[p].new = new
    BY SMTT(30), <1>0, <2>1 DEF Job, Types
  <2> QED BY <2>2, <2>3, Zenon DEF Fenced, Manned
<1> QED BY <1>1, <1>2, <1>3, Zenon

(* Whatever one daemon does, every daemon stays fenced. *)
LEMMA ActFenced ==
  ASSUME NEW p \in Daemons, RealmInv, FenceInv, Acts(p)
  PROVE  FenceInv'
<1>1. AdmissionEffect(p) /\ OwnerEffect(p) /\ PlaceEffect(p) /\ LockTypes'
  BY AdmissionSteps, OwnerSteps, PlaceSteps, ZenonT(60) DEF LockTypes
<1>2. Fenced(p)'
  BY <1>1, StartFenced, QuietFenced, EndFenced, RenameFenced, RolledBackFenced, BeginFenced, ZenonT(60)
    DEF Acts, Step, Replace, RollBack
<1>3. \A q \in Daemons \ {p} : Fenced(q)'
  BY <1>1, OthersStay, OthersFenced, Zenon
<1> QED BY <1>1, <1>2, <1>3, Zenon DEF FenceInv

(* A tree is written where no tree is, and no daemon is concerned.         *)
LEMMA WriteFenced ==
  ASSUME NEW t \in Trees, RealmInv, FenceInv, RestoreBackup(t) \/ Initialize(t)
  PROVE  /\ FenceInv' /\ UNCHANGED <<admission, owner, pc, job, want, svc, open, journal>> /\ place[t] = "none"
         /\ \/ place' = [place EXCEPT ![t] = "candidate"]
            \/ Root = {} /\ place' = [place EXCEPT ![t] = "root"]
<1>1. /\ UNCHANGED <<admission, owner, pc, job, want, svc, open, journal>> /\ place[t] = "none"
      /\ \/ place' = [place EXCEPT ![t] = "candidate"]
         \/ Root = {} /\ place' = [place EXCEPT ![t] = "root"]
  BY ZenonT(60) DEF RestoreBackup, Initialize, Restored, Fresh, locks, local, support
<1>2. LockTypes'
  BY <1>1, Zenon DEF FenceInv, LockTypes
<1>3. ASSUME NEW p \in Daemons PROVE Fenced(p)'
  <2>1. Fenced(p) /\ Placed(p) /\ place \in [Trees -> {"root", "candidate", "superseded", "none"}]
    BY Zenon DEF FenceInv, RealmInv, LockTypes
  <2>2. pc[p] \in Manned => place'[svc[p]] = "root"
    BY <1>1, <2>1, Zenon DEF Fenced, Placed, Manned
  <2>3. Fencing(p)' => Fencing(p)
    BY <1>1, Zenon DEF Fencing
  <2> QED BY <1>1, <2>1, <2>2, <2>3, Zenon DEF Fenced
<1> QED BY <1>1, <1>2, <1>3, Zenon DEF FenceInv

(* Every step of the system keeps every daemon fenced. *)
LEMMA NextFence == RealmInv /\ FenceInv /\ [Next]_vars => FenceInv'
<1> SUFFICES ASSUME RealmInv, FenceInv, [Next]_vars PROVE FenceInv'
  OBVIOUS
<1>1. CASE \E p \in Daemons : Acts(p)
  BY <1>1, ActFenced, Zenon
<1>2. CASE \E t \in Trees : RestoreBackup(t) \/ Initialize(t)
  BY <1>2, WriteFenced, ZenonT(60)
<1>3. CASE UNCHANGED vars
  BY <1>3 DEF vars, disk, locks, local, FenceInv, LockTypes, Fenced, Fencing
<1> QED BY <1>1, <1>2, <1>3, ZenonT(60) DEF Next, Acts

(* The fences of activate_candidate and replace_from_backup hold what they *)
(* are for: while a replacement is under way, nobody else is admitted to   *)
(* the trees it renames, and a daemon that serves has the realm's root.    *)
THEOREM FenceInvariant == Spec => [](RealmInv /\ FenceInv)
<1>1. Init => FenceInv
  <2> SUFFICES ASSUME Init PROVE FenceInv
    OBVIOUS
  <2>1. LockTypes
    BY Zenon DEF Init, LockTypes
  <2>2. \A p \in Daemons : pc[p] = "idle" /\ job[p] = NoJob /\ NoJob \notin Jobs
    BY Zenon DEF Init, NoJob, Jobs
  <2> QED BY <2>1, <2>2, Zenon DEF FenceInv, Fenced, Fencing, Manned
<1>2. RealmInv /\ FenceInv /\ [Next]_vars => FenceInv'
  BY NextFence, Zenon
<1> QED BY <1>1, <1>2, RealmInvariant, PTL DEF Spec

(* The tree a replacement supersedes is removed, by the replacement itself *)
(* or by the cleanup of a later start, only by a daemon that has published *)
(* the tree now at the realm's root.                                       *)
THEOREM OldKept == Spec => OldKeptUntilServed
<1> DEFINE Removal == \A t \in Trees : place[t] = "superseded" /\ place'[t] = "none" =>
                        \E p \in Daemons : svc[p] \in Root /\ pc[p] \in {"published", "committed"}
<1>1. RealmInv /\ FenceInv /\ [Next]_vars => [Removal]_vars
  <2> SUFFICES ASSUME RealmInv, FenceInv, Next, NEW t \in Trees, place[t] = "superseded", place'[t] = "none"
               PROVE  \E p \in Daemons : svc[p] \in Root /\ pc[p] \in {"published", "committed"}
    BY Zenon
  <2>1. CASE \E p \in Daemons : Acts(p)
    <3>1. PICK p \in Daemons : Acts(p)
      BY <2>1, Zenon
    <3>2. pc[p] \in {"published", "committed"}
      BY <3>1, PlaceSteps, Zenon DEF PlaceEffect
    <3>3. svc[p] \in Root
      BY <3>2, Zenon DEF FenceInv, Fenced, RealmInv, Placed, Manned, Root
    <3> QED BY <3>2, <3>3, Zenon
  <2>2. CASE \E u \in Trees : RestoreBackup(u) \/ Initialize(u)
    <3>1. PICK u \in Trees : RestoreBackup(u) \/ Initialize(u)
      BY <2>2, Zenon
    <3>2. place[u] = "none" /\ (place' = [place EXCEPT ![u] = "candidate"] \/ place' = [place EXCEPT ![u] = "root"])
      BY <3>1, WriteFenced, ZenonT(60)
    <3> QED BY <3>2, Zenon DEF FenceInv, LockTypes
  <2> QED BY <2>1, <2>2, ZenonT(60) DEF Next, Acts
<1> QED BY <1>1, FenceInvariant, PTL DEF Spec, OldKeptUntilServed

-----------------------------------------------------------------------------
(* The trace a replacement leaves: until its end the journal leads to a    *)
(* superseded tree, or was overwritten by the record of a rollback.        *)
RollbackRecord == journal.state \in {"rolled_back", "rollback_failed"}
Superseded == {t \in Trees : place[t] = "superseded"}
Named == RollbackRecord \/ journal.old \in Superseded

Swapped(q) ==
  /\ job[q] \in Jobs /\ job[q].movedNew /\ job[q].kind # "restart"
  /\ pc[q] \notin {"restored_new", "restored_old"}

Traced(q) ==
  /\ pc[q] \in Replacing \cup RollingBack => job[q].kind # "restart"
  /\ pc[q] \in {"verified", "stopped_owner"} => place[job[q].old] = "root"
  /\ pc[q] = "stopped_owner" => Named \/ journal.old = job[q].old
  /\ pc[q] \in {"moved_old", "quarantined"} => job[q].old \in Superseded
  /\ pc[q] \in {"stopped_owner", "moved_old", "quarantined"} => ~(Settled /\ journal.old = job[q].old)
  /\ pc[q] = "moved_new" => job[q].movedNew
  /\ Swapped(q) => place[job[q].new] = "root" /\ job[q].old \in Superseded /\ Named

OneRoot == \A s, t \in Root : s = t

TraceInv == OneRoot /\ RootRecoverable /\ \A q \in Daemons : Traced(q)

(* What a daemon may write to the journal.                                 *)
JournalEffect(p) ==
  journal' # journal =>
    \/ RollbackRecord'
    \/ pc[p] \in Manned /\ (Settled' /\ journal'.old # None => Fencing(p) /\ journal'.old = job[p].old)
    \/ /\ pc[p] = "idle" /\ ~Settled' /\ \E t \in Root : admission[t] = None
    \/ /\ pc[p] \in {"verified", "moved_old", "moved_new"} /\ ~Settled'
       /\ journal'.old = job[p].old /\ place' = place

(* What a step of a daemon may do to the journal and to the places. *)
LEMMA JournalSteps ==
  ASSUME NEW p \in Daemons, RealmInv, FenceInv, Acts(p)
  PROVE  JournalEffect(p)
<1>0. Fenced(p) /\ Placed(p)
  BY Zenon DEF FenceInv, RealmInv
<1>1. CASE journal' = journal
  BY <1>1, Zenon DEF JournalEffect
<1>2. CASE RolledBack(p) \/ RollbackFails(p)
  BY <1>2 DEF RolledBack, RollbackFails, Write, JournalEffect, RollbackRecord
<1>3. CASE StopOwner(p) \/ JournalQuarantine(p) \/ StartCandidate(p)
  <2>1. pc[p] \in {"verified", "moved_old", "moved_new"} /\ place' = place
    BY <1>3, ZenonT(60) DEF StopOwner, JournalQuarantine, StartCandidate, disk
  <2>2. journal' = journal \/ (journal'.old = job[p].old /\ ~Settled')
    BY <1>3 DEF StopOwner, JournalQuarantine, StartCandidate, Write, Settled
  <2> QED BY <2>1, <2>2, Zenon DEF JournalEffect
<1>4. CASE Serve(p) \/ Commit(p) \/ Discard(p)
  <2>1. pc[p] \in {"published", "committed"} /\ (Serve(p) \/ Fencing(p))
    <3>1. Commit(p) => pc[p] = "published" /\ job[p].kind \in {"activate", "offline"} /\ job[p] \in Jobs
      BY Kept, Zenon DEF Commit, RealmInv
    <3>2. Discard(p) => pc[p] = "committed" /\ job[p] \in Jobs
      BY <1>0, Zenon DEF Discard, Placed, Replacing
    <3>3. Serve(p) => pc[p] = "published"
      BY Zenon DEF Serve
    <3> QED BY <1>4, <3>1, <3>2, <3>3, Zenon DEF Fencing, Starting, Replacing
  <2>2. journal' = journal \/ journal'.old = None \/ (~Serve(p) /\ journal'.old = job[p].old)
    BY <1>4 DEF Serve, CleanupCompleted, Commit, Discard, Write
  <2> QED BY <2>1, <2>2, Zenon DEF JournalEffect, Manned
<1>5. CASE \E t \in Trees : Activate(p, t)
  <2>1. pc[p] = "serving" /\ ~Settled'
    BY <1>5 DEF Activate, Write, Settled
  <2> QED BY <2>1, Zenon DEF JournalEffect, Manned
<1>6. CASE \E t \in Trees : ReplaceFromBackup(p, t)
  <2>1. pc[p] = "idle" /\ ~Settled' /\ \E t \in Root : admission[t] = None
    BY <1>6 DEF ReplaceFromBackup, Write, Settled
  <2> QED BY <2>1, Zenon DEF JournalEffect
<1>7. Start(p) => journal' = journal \/ Serve(p)
  BY ZenonT(60) DEF Start, ReadFloor, OpenDirectory, Admit, OpenStore, OpenRefused, StartFails, WriteFloor, Publish,
    ServicesFail, support
<1>8. Replace(p) => journal' = journal \/ StopOwner(p) \/ JournalQuarantine(p) \/ StartCandidate(p) \/ Commit(p) \/ Discard(p)
  BY ZenonT(60) DEF Replace, MoveOld, MoveCandidate, StepFails, Retain, support
<1>9. RollBack(p) => journal' = journal \/ RolledBack(p) \/ RollbackFails(p)
  BY ZenonT(60) DEF RollBack, RollbackStop, RestoreCandidate, RestoreOld, Restarted, support
<1>10. EndStop(p) \/ BeginStop(p) \/ Crash(p) \/ CreateBackup(p) => journal' = journal
  BY ZenonT(60) DEF EndStop, BeginStop, Crash, CreateBackup, support
<1>11. \A t \in Trees : ActivateRefused(p, t) \/ ReplaceRefused(p, t) => journal' = journal
  BY ZenonT(60) DEF ActivateRefused, ReplaceRefused, support
<1> QED BY <1>1, <1>2, <1>3, <1>4, <1>5, <1>6, <1>7, <1>8, <1>9, <1>10, <1>11, ZenonT(60) DEF Acts, Step

(* Two daemons never fence one tree, and a daemon that serves is not at a  *)
(* root that another one fences.                                           *)
LEMMA FencesApart ==
  ASSUME NEW p \in Daemons, NEW q \in Daemons \ {p}, RealmInv, FenceInv, OneRoot, Fencing(q),
         NEW t \in {job[q].old, job[q].new}
  PROVE  /\ t \in Trees /\ admission[t] = q
         /\ Fencing(p) => t \notin {job[p].old, job[p].new}
         /\ place[t] = "root" => pc[p] \notin Manned /\ t \in Root /\ \A u \in Root : u = t
<1>1. t \in Trees /\ admission[t] = q /\ owner[t] \in {None, q}
  BY DEF Fencing, Jobs, FenceInv, Fenced
<1>2. Fencing(p) => t \notin {job[p].old, job[p].new}
  BY <1>1, Zenon DEF FenceInv, Fenced
<1>3. place[t] = "root" => t \in Root /\ \A u \in Root : u = t
  BY <1>1, Zenon DEF OneRoot, Root
<1>4. pc[p] \in Manned => svc[p] \in Root /\ owner[svc[p]] = p
  BY RealmAssumption DEF FenceInv, Fenced, RealmInv, Placed, Manned, Root, Guarded, SoleOwner
<1> QED BY <1>1, <1>2, <1>3, <1>4, RealmAssumption, Zenon

(* What another daemon's step leaves of a replacement.                     *)
LEMMA OthersTraced ==
  ASSUME NEW p \in Daemons, NEW q \in Daemons \ {p}, RealmInv, FenceInv, TraceInv,
         PlaceEffect(p), JournalEffect(p),
         pc'[q] = pc[q], job'[q] = job[q]
  PROVE  Traced(q)'
<1>0. Traced(q) /\ Traced(p) /\ OneRoot /\ Placed(q) /\ Placed(p)
  BY Zenon DEF TraceInv, RealmInv
<1> DEFINE o == job[q].old
           n == job[q].new
<1>1. ASSUME Fencing(q), NEW t \in {o, n}
      PROVE  /\ place[t] = "root" => place'[t] = "root"
             /\ t \in Superseded => t \in Superseded' \/ (pc[p] \in Manned /\ Settled /\ t = journal.old)
  <2>1. t \in Trees /\ (Fencing(p) => t \notin {job[p].old, job[p].new})
    BY <1>0, <1>1, FencesApart
  <2> QED BY <2>1, Zenon DEF PlaceEffect, Superseded, Manned
<1>2. ASSUME Fencing(q), ~(Settled /\ journal.old = o)
      PROVE  ~(Settled' /\ journal'.old = o)
  <2>1. o \in Trees /\ o # None /\ (Fencing(p) => o # job[p].old)
    BY <1>0, <1>2, FencesApart, RealmAssumption
  <2> QED BY <1>2, <2>1, Zenon DEF JournalEffect, Settled, RollbackRecord
<1>3. ASSUME Fencing(q), NEW t \in {o, n}, place[t] = "root"
      PROVE  /\ pc[p] \notin Manned
             /\ Named => Named'
             /\ journal.old = o => Named' \/ journal'.old = o
  <2>1. /\ pc[p] \notin Manned /\ Root # {} /\ (\A u \in Root : u = t) /\ admission[t] = q
        /\ Fencing(p) => t \notin {job[p].old, job[p].new}
    BY <1>0, <1>3, FencesApart
  <2>2. \A u \in Superseded : u \in Superseded'
    BY <2>1, Zenon DEF PlaceEffect, Superseded, Manned
  <2>3. CASE journal' = journal
    BY <2>1, <2>2, <2>3, Zenon DEF Named, RollbackRecord
  <2>4. CASE journal' # journal
    <3>1. pc[p] \in Replacing => Fencing(p) /\ job[p].old \in Trees
      BY <1>0, Zenon DEF Placed, Fencing, Jobs
    <3>2. pc[p] # "verified"
      BY <1>0, <2>1, <3>1, Zenon DEF Traced, Root, Replacing
    <3>3. pc[p] \in {"moved_old", "moved_new"} => job[p].old \in Superseded
      BY <1>0, <3>1, Zenon DEF Traced, Swapped, Replacing, Placed
    <3> QED BY <2>1, <2>2, <2>4, <3>2, <3>3, RealmAssumption, Zenon DEF JournalEffect, Named
  <2> QED BY <2>1, <2>3, <2>4, Zenon
<1>4. pc[q] \in Replacing \/ Swapped(q) => Fencing(q)
  BY <1>0, Zenon DEF Placed, Fencing, Swapped
<1>5. pc[q] \in {"verified", "stopped_owner"} => place'[o] = "root"
  BY <1>0, <1>1, <1>4, Zenon DEF Traced, Replacing
<1>6. pc[q] = "stopped_owner" => Named' \/ journal'.old = o
  BY <1>0, <1>3, <1>4, Zenon DEF Traced, Replacing
<1>7. pc[q] \in {"stopped_owner", "moved_old", "quarantined"} => ~(Settled' /\ journal'.old = o)
  BY <1>0, <1>2, <1>4, Zenon DEF Traced, Replacing
<1>8. pc[q] \in {"moved_old", "quarantined"} => o \in Superseded'
  BY <1>0, <1>1, <1>4, Zenon DEF Traced, Replacing
<1>9. Swapped(q) => place'[n] = "root" /\ o \in Superseded' /\ Named'
  BY <1>0, <1>1, <1>3, <1>4, Zenon DEF Traced
<1>10. Swapped(q)' => Swapped(q)
  BY Zenon DEF Swapped
<1> QED BY <1>0, <1>5, <1>6, <1>7, <1>8, <1>9, <1>10, Zenon DEF Traced

(* A root is found again, or the journal still leads to it.                *)
LEMMA RecoverableStep ==
  ASSUME NEW p \in Daemons, RealmInv, FenceInv, TraceInv, PlaceEffect(p), JournalEffect(p),
         MoveOld(p) \/ RestoreCandidate(p) => journal' = journal
  PROVE  OneRoot' /\ RootRecoverable'
<1>0. Traced(p) /\ Placed(p) /\ OneRoot /\ RootRecoverable
  BY Zenon DEF TraceInv, RealmInv
<1>1. OneRoot'
  BY <1>0, Zenon DEF PlaceEffect, OneRoot, Root
<1> SUFFICES ASSUME Root' = {} PROVE RootRecoverable'
  BY <1>1, Zenon DEF RootRecoverable
<1>2. \A t \in Superseded : pc[p] \notin Manned => t \in Superseded'
  BY Zenon DEF PlaceEffect, Superseded, Manned, Root
<1>3. pc[p] \in Replacing => job[p] \in Jobs /\ job[p].old \in Trees /\ job[p].new \in Trees
  BY <1>0, Zenon DEF Placed, Jobs
<1>4. CASE Root = {}
  <2>1. pc[p] \notin Manned
    BY <1>4, Zenon DEF FenceInv, Fenced, RealmInv, Placed, Manned, Root
  <2>2. pc[p] \notin {"verified", "moved_new"}
    BY <1>0, <1>3, <1>4, Zenon DEF Traced, Swapped, Replacing, Root
  <2>3. PICK t \in Superseded : journal.old = t \/ RollbackRecord
    BY <1>0, <1>4, Zenon DEF RootRecoverable, Superseded, RollbackRecord
  <2>4. t \in Superseded'
    BY <1>2, <2>1, Zenon
  <2>5. pc[p] = "moved_old" => job[p].old \in Superseded'
    BY <1>0, <1>2, <2>1, Zenon DEF Traced
  <2>6. journal' = journal \/ RollbackRecord' \/ (pc[p] = "moved_old" /\ journal'.old = job[p].old)
    BY <1>4, <2>1, <2>2, Zenon DEF JournalEffect
  <2> QED BY <2>3, <2>4, <2>5, <2>6, Zenon DEF RootRecoverable, Superseded, RollbackRecord
<1>5. CASE Root # {}
  <2>1. MoveOld(p) \/ RestoreCandidate(p)
    BY <1>5, Zenon DEF PlaceEffect, Root
  <2>2. PICK r \in Trees : place[r] = "root" /\ place'[r] # "root"
    BY <1>5, Zenon DEF Root
  <2>3. job[p].old \in Superseded' /\ (Named \/ journal.old = job[p].old) /\ pc[p] \notin Manned
    <3>1. CASE MoveOld(p)
      <4>1. pc[p] = "stopped_owner" /\ place' = [place EXCEPT ![job[p].old] = "superseded"]
        BY <3>1, Zenon DEF MoveOld, Rename
      <4>2. job[p].old \in Superseded'
        BY <1>3, <4>1, Zenon DEF Replacing, Superseded, FenceInv, LockTypes
      <4> QED BY <1>0, <4>1, <4>2, Zenon DEF Traced, Manned
    <3>2. CASE RestoreCandidate(p)
      <4>1. pc[p] = "closed" /\ job[p].movedNew
        BY <2>2, <3>2, Zenon DEF RestoreCandidate
      <4>2. Swapped(p)
        BY <1>0, <4>1, Zenon DEF Swapped, Traced, Placed, RollingBack
      <4> QED BY <1>0, <1>2, <4>1, <4>2, Zenon DEF Traced, Manned
    <3> QED BY <2>1, <3>1, <3>2, Zenon
  <2>4. journal' = journal
    BY <2>1, Zenon
  <2> QED BY <1>2, <2>3, <2>4, Zenon DEF RootRecoverable, Named, Superseded, RollbackRecord
<1> QED BY <1>4, <1>5, Zenon

-----------------------------------------------------------------------------
(* What the acting daemon's own step leaves of its replacement.            *)
LEMMA EndedTraced ==
  ASSUME NEW p \in Daemons, job'[p] = NoJob \/ job'[p].kind = "restart", pc'[p] \notin Replacing \cup RollingBack
  PROVE  Traced(p)'
<1>1. NoJob \notin Jobs
  BY Zenon DEF NoJob, Jobs
<1> QED BY <1>1, Zenon DEF Traced, Swapped, Replacing

(* A step that moves no tree keeps the job traced by the journal. *)
LEMMA SteadyTraced ==
  ASSUME NEW p \in Daemons, RealmInv, TraceInv, UNCHANGED <<place, job>>,
         journal' = journal \/ journal'.old = job[p].old,
         pc[p] \notin {"restored_new", "restored_old"},
         pc'[p] \in Starting \cup {"committed", "failed", "closed"},
         pc'[p] \in Replacing \cup RollingBack => job[p].kind # "restart"
  PROVE  Traced(p)'
<1>1. Traced(p)
  BY Zenon DEF TraceInv
<1>2. Swapped(p)' => Swapped(p)
  BY Zenon DEF Swapped
<1>3. Superseded' = Superseded
  BY Zenon DEF Superseded
<1>4. Swapped(p) => place[job[p].new] = "root" /\ job[p].old \in Superseded /\ Named'
  BY <1>1, <1>3, Zenon DEF Traced, Named, RollbackRecord
<1> QED BY <1>2, <1>3, <1>4, Zenon DEF Traced, Starting

(* Every step of a start keeps the job traced. *)
LEMMA StartTraced ==
  ASSUME NEW p \in Daemons, RealmInv, FenceInv, TraceInv, Start(p)
  PROVE  Traced(p)'
<1>0. Fenced(p) /\ Placed(p) /\ Types /\ NoJob.kind = "none"
  BY Zenon DEF FenceInv, RealmInv, NoJob
<1>1. CASE Serve(p)
  <2>1. job'[p] = NoJob /\ pc'[p] = "serving"
    BY <1>0, <1>1, Zenon DEF Serve, Goto, Types
  <2> QED BY <2>1, EndedTraced, Zenon DEF Replacing, RollingBack
<1>2. CASE job'[p] = NoJob /\ pc'[p] \in {"idle", "stranded"}
  BY <1>2, EndedTraced, Zenon DEF Replacing, RollingBack
<1>3. CASE /\ UNCHANGED <<place, job, journal>> /\ pc[p] \in Starting \cup {"idle"}
           /\ pc'[p] \in Starting \/ (pc'[p] = "failed" /\ job[p].kind \in {"activate", "offline"})
  BY <1>3, SteadyTraced, SMTT(30) DEF Starting, Replacing, RollingBack
<1>4. ReadFloor(p) \/ Admit(p) \/ OpenStore(p) \/ WriteFloor(p) \/ Publish(p) =>
        /\ UNCHANGED <<place, job, journal>> /\ pc[p] \in Starting \cup {"idle"} /\ pc'[p] \in Starting
  <2>1. ReadFloor(p) \/ Admit(p) \/ OpenStore(p) \/ WriteFloor(p) \/ Publish(p) => UNCHANGED <<place, job, journal>>
    BY ZenonT(60) DEF ReadFloor, Admit, OpenStore, WriteFloor, Publish, disk, support
  <2> QED BY <1>0, <2>1, Zenon DEF ReadFloor, Admit, OpenStore, WriteFloor, Publish, Goto, Starting, Types
<1>5. OpenDirectory(p) \/ OpenRefused(p) \/ StartFails(p) \/ ServicesFail(p) =>
        \/ job'[p] = NoJob /\ pc'[p] \in {"idle", "stranded"}
        \/ /\ UNCHANGED <<place, job, journal>> /\ pc[p] \in Starting
           /\ pc'[p] \in Starting \/ (pc'[p] = "failed" /\ job[p].kind \in {"activate", "offline"})
  <2>1. OpenDirectory(p) \/ OpenRefused(p) \/ StartFails(p) \/ ServicesFail(p) =>
          pc[p] \in Starting /\ UNCHANGED <<place, journal>>
    BY ZenonT(60) DEF OpenDirectory, OpenRefused, StartFails, ServicesFail, Starting, disk, support
  <2>2. Abandon(p) =>
          \/ job'[p] = NoJob /\ pc'[p] \in {"idle", "stranded"}
          \/ job' = job /\ pc'[p] = "failed" /\ job[p].kind \in {"activate", "offline"}
    BY <1>0, Zenon DEF Abandon, Goto, Release, Types
  <2>3. OpenDirectory(p) => Abandon(p) \/ (job' = job /\ pc'[p] \in Starting)
    BY <1>0, Zenon DEF OpenDirectory, Goto, Starting, Types
  <2>4. ServicesFail(p) =>
          \/ Abandon(p)
          \/ job'[p] = NoJob /\ pc'[p] \in {"idle", "stranded"}
          \/ job' = job /\ pc'[p] = "failed" /\ job[p].kind \in {"activate", "offline"}
    BY <1>0, Zenon DEF ServicesFail, Goto, Release, Types
  <2>5. OpenRefused(p) \/ StartFails(p) => Abandon(p)
    BY Zenon DEF OpenRefused, StartFails
  <2> QED BY <2>1, <2>2, <2>3, <2>4, <2>5, ZenonT(60)
<1> QED BY <1>1, <1>2, <1>3, <1>4, <1>5, ZenonT(60) DEF Start

(* The renames keep the job traced: the journal is written before them. *)
LEMMA MoveTraced ==
  ASSUME NEW p \in Daemons, RealmInv, FenceInv, TraceInv, MoveOld(p) \/ MoveCandidate(p)
  PROVE  Traced(p)'
<1>0. Traced(p) /\ Placed(p) /\ Types /\ RootRecoverable
  BY Zenon DEF TraceInv, RealmInv
<1>1. pc[p] \in {"stopped_owner", "quarantined"} /\ job[p] \in Jobs
  BY <1>0, Zenon DEF MoveOld, MoveCandidate, Placed, Replacing
<1>2. job[p].old \in Trees /\ job[p].new \in Trees /\ job[p].kind # "restart"
  BY <1>0, <1>1, Zenon DEF Jobs, Traced, Replacing
<1>3. journal' = journal
  BY ZenonT(60) DEF MoveOld, MoveCandidate, support
<1>4. place \in [Trees -> {"root", "candidate", "superseded", "none"}]
  BY Zenon DEF FenceInv, LockTypes
<1>5. CASE MoveOld(p)
  <2>1. /\ pc[p] = "stopped_owner" /\ place[job[p].old] = "root"
        /\ place' = [place EXCEPT ![job[p].old] = "superseded"]
        /\ job'[p] = [job[p] EXCEPT !.movedOld = TRUE] /\ pc'[p] \in {"moved_old", "quarantined"}
    BY <1>0, <1>5, Zenon DEF MoveOld, Rename, Goto, Types
  <2>2. ~job[p].movedNew
    BY <1>0, <1>1, <1>2, <2>1, Zenon DEF Traced, Swapped, Superseded
  <2>3. job'[p].old = job[p].old /\ job'[p].kind = job[p].kind /\ job'[p].movedNew = job[p].movedNew
    BY <1>1, <2>1, Zenon DEF Jobs
  <2>4. job[p].old \in Superseded'
    BY <1>2, <1>4, <2>1, Zenon DEF Superseded
  <2>5. ~(Settled' /\ journal'.old = job[p].old)
    BY <1>0, <1>3, <2>1, Zenon DEF Traced, Settled
  <2> QED BY <1>2, <2>1, <2>2, <2>3, <2>4, <2>5, Zenon DEF Traced, Swapped
<1>6. CASE MoveCandidate(p)
  <2>1. /\ pc[p] = "quarantined" /\ place[job[p].new] = "candidate" /\ Root = {}
        /\ place' = [place EXCEPT ![job[p].new] = "root"]
        /\ job'[p] = [job[p] EXCEPT !.movedNew = TRUE] /\ pc'[p] = "moved_new"
    BY <1>0, <1>6, Zenon DEF MoveCandidate, Rename, Goto, Types
  <2>2. /\ job'[p].old = job[p].old /\ job'[p].new = job[p].new /\ job'[p].kind = job[p].kind
        /\ job'[p].movedNew
    BY <1>1, <2>1, Zenon DEF Jobs
  <2>3. \A t \in Superseded : t \in Superseded'
    BY <1>2, <1>4, <2>1, Zenon DEF Superseded
  <2>4. job[p].old \in Superseded' /\ place'[job[p].new] = "root"
    BY <1>0, <1>2, <1>4, <2>1, <2>3, Zenon DEF Traced
  <2>5. Named'
    BY <1>0, <1>3, <2>1, <2>3, Zenon DEF RootRecoverable, Named, RollbackRecord, Superseded
  <2> QED BY <1>2, <2>1, <2>2, <2>4, <2>5, Zenon DEF Traced
<1> QED BY <1>5, <1>6, Zenon

(* Every step of a replacement keeps the job traced. *)
LEMMA ReplaceTraced ==
  ASSUME NEW p \in Daemons, RealmInv, FenceInv, TraceInv, Replace(p)
  PROVE  Traced(p)'
<1>0. Traced(p) /\ Placed(p) /\ Types /\ NoJob.kind = "none"
  BY Zenon DEF TraceInv, RealmInv, NoJob
<1>1. CASE Discard(p) \/ Retain(p)
  <2>1. job'[p] = NoJob /\ pc'[p] = "serving"
    BY <1>0, <1>1, ZenonT(60) DEF Discard, Retain, Goto, Release, Types
  <2> QED BY <2>1, EndedTraced, Zenon DEF Replacing, RollingBack
<1>2. CASE StartCandidate(p) \/ StepFails(p) \/ Commit(p)
  <2>1. UNCHANGED <<place, job>>
    BY <1>2, ZenonT(60) DEF StartCandidate, StepFails, Commit, disk
  <2>2. journal' = journal \/ journal'.old = job[p].old
    BY <1>2 DEF StartCandidate, StepFails, Commit, Write, support
  <2>3. \/ pc[p] \in Replacing /\ pc'[p] = "admitted"
        \/ pc[p] \in Replacing /\ pc'[p] = "failed"
        \/ pc[p] = "published" /\ pc'[p] = "committed" /\ job[p].kind \in {"activate", "offline"}
    BY <1>0, <1>2, Zenon DEF StartCandidate, StepFails, Commit, Goto, Replacing, Types
  <2>4. pc[p] \notin {"restored_new", "restored_old"} /\ pc'[p] \in Starting \cup {"committed", "failed", "closed"}
    BY <2>3, Zenon DEF Starting, Replacing
  <2>5. pc'[p] \in Replacing \cup RollingBack => job[p].kind # "restart"
    BY <1>0, <2>3, Zenon DEF Traced, Replacing, RollingBack
  <2> QED BY <2>1, <2>2, <2>4, <2>5, SteadyTraced, Zenon
<1>3. CASE StopOwner(p) \/ JournalQuarantine(p)
  <2>1. UNCHANGED <<place, job>>
    BY <1>3, ZenonT(60) DEF StopOwner, JournalQuarantine, disk
  <2>2. \/ /\ pc[p] = "verified" /\ pc'[p] = "stopped_owner" /\ journal'.old = job[p].old /\ ~Settled'
        \/ /\ pc[p] = "moved_old" /\ pc'[p] = "quarantined" /\ journal'.old = job[p].old /\ ~Settled'
        \/ pc[p] = "verified" /\ pc'[p] = "failed" /\ journal' = journal
    BY <1>0, <1>3 DEF StopOwner, JournalQuarantine, Goto, Write, Settled, Types
  <2>3. job[p].kind # "restart" /\ Superseded' = Superseded /\ (Swapped(p)' => Swapped(p))
    BY <1>0, <2>1, <2>2, Zenon DEF Traced, Replacing, Superseded, Swapped
  <2>4. Swapped(p) => place[job[p].new] = "root" /\ job[p].old \in Superseded /\ Named'
    BY <1>0, <2>2, <2>3, Zenon DEF Traced, Named, RollbackRecord
  <2> QED BY <1>0, <2>1, <2>2, <2>3, <2>4, Zenon DEF Traced
<1> QED BY <1>1, <1>2, <1>3, MoveTraced, ZenonT(60) DEF Replace

(* Every step of a rollback keeps the job traced. *)
LEMMA RollBackTraced ==
  ASSUME NEW p \in Daemons, RealmInv, FenceInv, TraceInv, RollBack(p)
  PROVE  Traced(p)'
<1>0. Traced(p) /\ Placed(p) /\ Types /\ NoJob.kind = "none"
  BY Zenon DEF TraceInv, RealmInv, NoJob
<1>1. CASE RollbackFails(p) \/ Restarted(p)
  <2>1. job'[p] = NoJob /\ pc'[p] \in {"serving", "idle", "stranded"}
    BY <1>0, <1>1, ZenonT(60) DEF RollbackFails, Restarted, Goto, Release, Types
  <2> QED BY <2>1, EndedTraced, Zenon DEF Replacing, RollingBack
<1>2. CASE RolledBack(p)
  <2>1. job[p] \in Jobs
    BY <1>0, <1>2, Zenon DEF RolledBack, Placed, RollingBack
  <2>2. /\ job'[p] = NoJob \/ job'[p] = [job[p] EXCEPT !.kind = "restart"]
        /\ pc'[p] \in {"idle", "stranded", "admitted", "opening"}
    BY <1>0, <1>2, Zenon DEF RolledBack, Goto, Release, Types
  <2>3. job'[p] = NoJob \/ job'[p].kind = "restart"
    BY <2>1, <2>2, Zenon DEF Jobs
  <2> QED BY <2>2, <2>3, EndedTraced, Zenon DEF Replacing, RollingBack
<1>3. CASE RollbackStop(p)
  <2>1. UNCHANGED <<place, job, journal>> /\ pc[p] = "failed" /\ pc'[p] = "closed"
    BY <1>0, <1>3, Zenon DEF RollbackStop, Goto, Types
  <2>2. job[p].kind # "restart"
    BY <1>0, <2>1, Zenon DEF Traced, RollingBack
  <2> QED BY <2>1, <2>2, SteadyTraced, Zenon
<1>4. CASE RestoreCandidate(p) \/ RestoreOld(p)
  <2>1. job' = job /\ pc[p] \in {"closed", "restored_new"} /\ pc'[p] \in {"restored_new", "restored_old"}
    BY <1>0, <1>4, Zenon DEF RestoreCandidate, RestoreOld, Goto, Types
  <2>2. job[p].kind # "restart"
    BY <1>0, <2>1, Zenon DEF Traced, RollingBack
  <2> QED BY <2>1, <2>2, Zenon DEF Traced, Swapped
<1> QED BY <1>1, <1>2, <1>3, <1>4, ZenonT(60) DEF RollBack

(* A job that begins, or is refused, is traced. *)
LEMMA BeginTraced ==
  ASSUME NEW p \in Daemons, NEW new \in Trees, RealmInv, FenceInv, TraceInv,
         Activate(p, new) \/ ActivateRefused(p, new) \/ ReplaceFromBackup(p, new) \/ ReplaceRefused(p, new)
  PROVE  Traced(p)'
<1>0. Fenced(p) /\ Placed(p) /\ Types /\ LockTypes
  BY Zenon DEF FenceInv, RealmInv
<1>1. CASE ActivateRefused(p, new) \/ ReplaceRefused(p, new)
  <2>1. pc'[p] = "failed" /\ ~job'[p].movedNew /\ job'[p].kind # "restart"
    BY <1>0, <1>1 DEF ActivateRefused, ReplaceRefused, Goto, Job, Types
  <2> QED BY <2>1, Zenon DEF Traced, Swapped
<1>2. CASE Activate(p, new)
  <2>1. pc[p] = "serving" /\ place' = place /\ pc'[p] = "verified"
    BY <1>0, <1>2, Zenon DEF Activate, Goto, disk, Types
  <2>2. job'[p].old = svc[p] /\ ~job'[p].movedNew /\ job'[p].kind = "activate"
    BY <1>0, <1>2 DEF Activate, Job, Types
  <2>3. place[svc[p]] = "root"
    BY <1>0, <2>1, Zenon DEF Fenced, Manned
  <2> QED BY <2>1, <2>2, <2>3, Zenon DEF Traced, Swapped
<1>3. CASE ReplaceFromBackup(p, new)
  <2>1. PICK old \in Root, keep \in BOOLEAN :
          /\ job' = [job EXCEPT ![p] = Job("offline", old, new, keep)] /\ Write("offline_verified", old, keep)
          /\ pc' = [pc EXCEPT ![p] = "stopped_owner"]
          /\ place[new] = "none" /\ place' = [place EXCEPT ![new] = "candidate"]
    BY <1>3, ZenonT(60) DEF ReplaceFromBackup, Restored, Fresh, Goto
  <2>2. pc'[p] = "stopped_owner" /\ job'[p].old = old /\ ~job'[p].movedNew /\ job'[p].kind = "offline"
    BY <1>0, <2>1, Zenon DEF Job, Types
  <2>3. journal'.old = old /\ ~Settled'
    BY <2>1, Zenon DEF Write, Settled
  <2>4. place'[old] = "root"
    BY <1>0, <2>1, Zenon DEF Root, LockTypes
  <2> QED BY <2>2, <2>3, <2>4, Zenon DEF Traced, Swapped
<1> QED BY <1>1, <1>2, <1>3, Zenon

(* Whatever one daemon does, every job stays traced. *)
LEMMA ActTraced ==
  ASSUME NEW p \in Daemons, RealmInv, FenceInv, TraceInv, Acts(p)
  PROVE  TraceInv'
<1>1. PlaceEffect(p) /\ JournalEffect(p)
  BY PlaceSteps, JournalSteps, Zenon
<1>2. MoveOld(p) \/ RestoreCandidate(p) => journal' = journal
  BY ZenonT(60) DEF MoveOld, RestoreCandidate, support
<1>3. OneRoot' /\ RootRecoverable'
  BY <1>1, <1>2, RecoverableStep, Zenon
<1>4. EndStop(p) \/ BeginStop(p) \/ Crash(p) \/ CreateBackup(p) => Traced(p)'
  <2>1. Fenced(p) /\ Types
    BY Zenon DEF FenceInv, RealmInv
  <2>2. EndStop(p) \/ BeginStop(p) \/ Crash(p) \/ CreateBackup(p) =>
          job'[p] = NoJob /\ pc'[p] \in {"idle", "serving", "stopping"}
    BY <2>1, Zenon DEF EndStop, BeginStop, Crash, CreateBackup, Goto, Release, local, Fenced, Types
  <2> QED BY <2>2, EndedTraced, Zenon DEF Replacing, RollingBack
<1>5. Traced(p)'
  BY <1>4, StartTraced, ReplaceTraced, RollBackTraced, BeginTraced, ZenonT(60) DEF Acts, Step
<1>6. \A q \in Daemons \ {p} : Traced(q)'
  BY <1>1, OthersStay, OthersTraced, Zenon
<1> QED BY <1>3, <1>5, <1>6, Zenon DEF TraceInv

(* The tools that write a tree of their own keep every job traced. *)
LEMMA WriteTraced ==
  ASSUME NEW t \in Trees, RealmInv, FenceInv, TraceInv, RestoreBackup(t) \/ Initialize(t)
  PROVE  TraceInv'
<1>1. /\ UNCHANGED <<pc, job, journal>> /\ place[t] = "none"
      /\ \/ place' = [place EXCEPT ![t] = "candidate"]
         \/ Root = {} /\ place' = [place EXCEPT ![t] = "root"]
  BY WriteFenced, ZenonT(60)
<1>2. place \in [Trees -> {"root", "candidate", "superseded", "none"}]
  BY Zenon DEF FenceInv, LockTypes
<1>3. /\ \A u \in Trees \ {t} : place'[u] = place[u]
      /\ place'[t] \in {"candidate", "root"} /\ (place'[t] = "root" => Root = {})
  BY <1>1, <1>2, Zenon
<1>4. Superseded' = Superseded /\ \A u \in Trees : place[u] = "root" => place'[u] = "root"
  BY <1>1, <1>3, Zenon DEF Superseded
<1>5. OneRoot'
  BY <1>3, Zenon DEF TraceInv, OneRoot, Root
<1>6. RootRecoverable'
  BY <1>1, <1>4, Zenon DEF TraceInv, RootRecoverable, Root, Superseded
<1>7. ASSUME NEW q \in Daemons PROVE Traced(q)'
  <2>1. Traced(q) /\ Placed(q)
    BY Zenon DEF TraceInv, RealmInv
  <2>2. (Swapped(q)' <=> Swapped(q)) /\ (Named' <=> Named) /\ (Settled' <=> Settled)
    BY <1>1, <1>4, Zenon DEF Swapped, Named, RollbackRecord, Settled
  <2>3. /\ pc[q] \in {"verified", "stopped_owner"} => job[q].old \in Trees
        /\ Swapped(q) => job[q].new \in Trees
    BY <2>1, Zenon DEF Placed, Jobs, Swapped, Replacing
  <2> QED BY <1>1, <1>4, <2>1, <2>2, <2>3, Zenon DEF Traced
<1> QED BY <1>5, <1>6, <1>7, Zenon DEF TraceInv

(* Every step of the system keeps every job traced. *)
LEMMA NextTrace == RealmInv /\ FenceInv /\ TraceInv /\ [Next]_vars => TraceInv'
<1> SUFFICES ASSUME RealmInv, FenceInv, TraceInv, [Next]_vars PROVE TraceInv'
  OBVIOUS
<1>1. CASE \E p \in Daemons : Acts(p)
  BY <1>1, ActTraced, Zenon
<1>2. CASE \E t \in Trees : RestoreBackup(t) \/ Initialize(t)
  BY <1>2, WriteTraced, ZenonT(60)
<1>3. CASE UNCHANGED vars
  BY <1>3 DEF vars, disk, support, local, TraceInv, OneRoot, Root, RootRecoverable, Traced, Swapped, Named,
    RollbackRecord, Superseded, Settled
<1> QED BY <1>1, <1>2, <1>3, ZenonT(60) DEF Next, Acts

(* When no tree carries the realm's name, whatever daemons replace, roll   *)
(* back, crash and overwrite each other's journal, a superseded tree is    *)
(* there, and the journal (RuntimeDaemon._write_replacement_state) names   *)
(* it or holds the record of a rollback.                                   *)
THEOREM RootFound == Spec => []RootRecoverable
<1>1. Init => TraceInv
  <2> SUFFICES ASSUME Init PROVE TraceInv
    OBVIOUS
  <2>1. \A p \in Daemons : pc[p] = "idle" /\ job[p] = NoJob /\ NoJob \notin Jobs
    BY Zenon DEF Init, NoJob, Jobs
  <2>2. Root = {First}
    BY RealmAssumption, Zenon DEF Init, Root
  <2> QED BY <2>1, <2>2, Zenon DEF TraceInv, OneRoot, RootRecoverable, Traced, Swapped, Replacing, RollingBack
<1>2. RealmInv /\ FenceInv /\ TraceInv /\ [Next]_vars => TraceInv'
  BY NextTrace, Zenon
<1>3. TraceInv => RootRecoverable
  BY Zenon DEF TraceInv
<1> QED BY <1>1, <1>2, <1>3, FenceInvariant, PTL DEF Spec
=============================================================================
