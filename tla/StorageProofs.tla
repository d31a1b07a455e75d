---------------------------- MODULE StorageProofs ----------------------------
(***************************************************************************)
(* Proofs about the bytes of the store and about the gallery that refers   *)
(* to them, for any number of operations, digests, tasks, clients and      *)
(* reports and any number of crashes.                                      *)
(***************************************************************************)
EXTENDS CasPublication, Gallery, TLAPS

(* The publication of bytes: CasPublication. *)

USE OpAssumption, KindAssumption, EntriesAssumption, RestartAssumption

(* The positions under the mutex. *)
Held == {"journal", "publish", "commit", "committed", "undo"}

(* Whoever is between Acquire and its end holds the mutex. *)
MutexHeld ==
  /\ \A o \in Op : pc[o] \in Held => mutex = o
  /\ mutex = NoOp => published = {}

(* What the operation under the mutex has already made sure of: the files   *)
(* its commit will reference are there, and what a settlement would unlink  *)
(* is referenced by no row.                                                 *)
HolderReady(o) ==
  /\ pc[o] = "journal" => published = {}
  /\ pc[o] = "publish" => Entries[o] \subseteq cas \cup todo
  /\ pc[o] = "commit" => Entries[o] \subseteq cas
  /\ Kind[o] = "settlement" /\ pc[o] \in {"publish", "commit"} => published \cap objects = {}

(* The inductive invariant behind ObjectsBacked. *)
CasInv == TypeOK /\ ObjectsBacked /\ MutexHeld /\ \A o \in Op : HolderReady(o)

(* What recovery removes is referenced by no row, and it only removes. *)
LEMMA RecoverKeepsRows ==
  ASSUME TypeOK, ObjectsBacked, RecoverSome, UNCHANGED objects
  PROVE  /\ ObjectsBacked' /\ cas' \subseteq Digest
         /\ journal' \in [Op -> SUBSET Digest] /\ seen' \in [Op -> Identity]
<1>1. PICK stuck \in SUBSET RollBack, kept \in SUBSET Op : Recover(stuck, kept)
  BY DEF RecoverSome
<1>2. RollBack \cap objects = {}
  BY DEF RollBack
<1>3. cas' = cas \ (RollBack \ stuck)
  BY <1>1 DEF Recover
<1>4. journal' \in [Op -> SUBSET Digest]
  BY <1>1 DEF Recover, TypeOK
<1>5. seen' \in [Op -> Identity]
  BY <1>1 DEF Recover, Forget, TypeOK, Identity
<1> QED
  BY <1>2, <1>3, <1>4, <1>5 DEF ObjectsBacked, TypeOK

(* The empty store satisfies the invariant. *)
LEMMA CasInit == Init => CasInv
BY DEF Init, CasInv, TypeOK, ObjectsBacked, MutexHeld, HolderReady, Held, Stage, Identity

(* Every step of every operation, every recovery and every crash preserves it. *)
LEMMA CasStep == CasInv /\ [Next]_vars => CasInv'
<1> SUFFICES ASSUME CasInv, [Next]_vars PROVE CasInv'
  OBVIOUS
<1> USE DEF CasInv
<1>1. CASE Restart
  <2>1. TypeOK' /\ ObjectsBacked'
    BY <1>1, RecoverKeepsRows DEF Restart, Release, database, TypeOK, Stage
  <2>2. \A o \in Op : pc'[o] \in {"idle", "done", "failed"}
    BY <1>1 DEF Restart
  <2> QED
    BY <1>1, <2>1, <2>2 DEF Restart, Release, MutexHeld, HolderReady, Held
<1>2. CASE OtherMutation
  <2>1. TypeOK' /\ ObjectsBacked'
    BY <1>2, RecoverKeepsRows DEF OtherMutation, database, locals, TypeOK
  <2>2. \A o \in Op : pc[o] \notin Held
    BY <1>2 DEF OtherMutation, MutexHeld
  <2> QED
    BY <1>2, <2>1, <2>2 DEF OtherMutation, locals, MutexHeld, HolderReady, Held
<1>3. ASSUME NEW o \in Op, Step(o) PROVE CasInv'
  <2>1. CASE StageUpload(o)
    BY <2>1 DEF StageUpload, Goto, database, locals, TypeOK, Stage, ObjectsBacked, MutexHeld, HolderReady, Held
  <2>2. CASE ExistingIdentity(o)
    BY <2>2 DEF ExistingIdentity, Goto, files, database, locals, TypeOK, Stage, ObjectsBacked, MutexHeld, HolderReady, Held
  <2>3. CASE Refuse(o)
    BY <2>3 DEF Refuse, Goto, database, locals, TypeOK, Stage, ObjectsBacked, MutexHeld, HolderReady, Held
  <2>4. CASE Acquire(o)
    BY <2>4 DEF Acquire, Goto, files, database, locals, TypeOK, Stage, ObjectsBacked, MutexHeld, HolderReady, Held
  <2>5. CASE BeginJournal(o)
    <3>1. ToPublish(o) \subseteq Entries[o] /\ Entries[o] \subseteq cas \cup ToPublish(o)
      BY DEF ToPublish, ObjectsBacked
    <3>2. ToJournal(o) \subseteq Digest
      BY DEF ToJournal
    <3> QED
      BY <2>5, <3>1, <3>2 DEF BeginJournal, Goto, database, TypeOK, Stage, ObjectsBacked, MutexHeld, HolderReady, Held
  <2>6. ASSUME NEW d \in Digest, Publish(o, d) PROVE CasInv'
    <3>1. \A p \in Op : HolderReady(p)'
      BY <2>6, Zenon DEF Publish, database, ObjectsBacked, MutexHeld, HolderReady, Held
    <3> QED
      BY <2>6, <3>1 DEF Publish, database, TypeOK, ObjectsBacked, MutexHeld, Held
  <2>7. CASE Discard(o)
    BY <2>7 DEF Discard, Goto, database, locals, TypeOK, Stage, ObjectsBacked, MutexHeld, HolderReady, Held
  <2>8. CASE SnapshotRow(o)
    BY <2>8 DEF SnapshotRow, files, locals, TypeOK, ObjectsBacked, MutexHeld, HolderReady, Held
  <2>9. CASE Commit(o)
    <3>1. links' \subseteq ({Project[p] : p \in Op} \ {NoProject}) \X Digest
      BY <2>9 DEF Commit, Linked, TypeOK
    <3>2. TypeOK'
      BY <2>9, <3>1 DEF Commit, Goto, Release, files, locals, TypeOK, Stage
    <3>3. MutexHeld' /\ \A p \in Op : HolderReady(p)'
      BY <2>9 DEF Commit, Goto, Release, files, locals, TypeOK, MutexHeld, HolderReady, Held
    <3> QED
      BY <2>9, <3>2, <3>3 DEF Commit, files, ObjectsBacked, HolderReady
  <2>10. CASE Abort(o)
    <3>1. PICK gone \in SUBSET published :
            (Kind[o] # "settlement" => gone = {}) /\ cas' = cas \ gone /\ Forget(gone)
      BY <2>10 DEF Abort
    <3>2. gone \cap objects = {}
      BY <2>10, <3>1 DEF Abort, HolderReady
    <3>3. ObjectsBacked'
      BY <2>10, <3>1, <3>2 DEF Abort, database, ObjectsBacked
    <3>4. ToJournal(o) \subseteq Digest
      BY DEF ToJournal
    <3>5. journal' \in [Op -> SUBSET Digest] /\ seen' \in [Op -> Identity]
      BY <2>10, <3>1, <3>4 DEF Abort, JournalFails, Forget, TypeOK, Identity
    <3>6. TypeOK'
      BY <2>10, <3>1, <3>5, Zenon DEF Abort, Goto, Release, database, locals, TypeOK, Stage
    <3>7. MutexHeld' /\ \A p \in Op : HolderReady(p)'
      BY <2>10 DEF Abort, Goto, Release, locals, TypeOK, MutexHeld, HolderReady, Held
    <3> QED
      BY <3>3, <3>6, <3>7
  <2>11. CASE RecoverJournals(o)
    <3>1. TypeOK' /\ ObjectsBacked'
      BY <2>11, RecoverKeepsRows DEF RecoverJournals, Goto, Release, database, TypeOK, Stage
    <3>2. \A p \in Op : pc'[p] \notin Held
      BY <2>11 DEF RecoverJournals, Goto, TypeOK, MutexHeld, Held
    <3> QED
      BY <2>11, <3>1, <3>2, Zenon DEF RecoverJournals, Release, MutexHeld, HolderReady, Held
  <2>12. CASE RetryTask(o)
    BY <2>12, Zenon DEF RetryTask, files, locals, TypeOK, ObjectsBacked, MutexHeld, HolderReady, Held
  <2> QED
    BY <1>3, <2>1, <2>2, <2>3, <2>4, <2>5, <2>6, <2>7, <2>8, <2>9, <2>10, <2>11, <2>12 DEF Step, Proceed
<1>4. CASE UNCHANGED vars
  BY <1>4 DEF vars, files, database, locals, TypeOK, ObjectsBacked, MutexHeld, HolderReady, Held
<1> QED
  BY <1>1, <1>2, <1>3, <1>4 DEF Next

(* CasInv holds in every reachable state. *)
THEOREM CasInvariant == Spec => []CasInv
BY CasInit, CasStep, PTL DEF Spec

(* A committed object never loses its file, whatever fails or crashes, for  *)
(* any number of concurrent publications of the same bytes.                 *)
THEOREM ObjectsStayBacked == Spec => []ObjectsBacked
<1>1. CasInv => ObjectsBacked
  BY DEF CasInv
<1> QED
  BY <1>1, CasInvariant, PTL

-----------------------------------------------------------------------------
(* Every file that no row references is named by a journal, but for the     *)
(* copy of an upload whose check for an existing file became stale.         *)

(* What an operation is about to create is in its journal, unless it is an  *)
(* upload whose check became stale.                                         *)
JournalReady(o) ==
  /\ pc[o] \in {"idle", "staged", "verified", "journal"} => journal[o] = {}
  /\ pc[o] = "publish" => todo \subseteq Entries[o]
  /\ pc[o] = "publish" /\ seen[o] # "changed" => todo \ cas \subseteq journal[o]

(* The check is only made by uploads, and one that is not stale is right. *)
SeenReady(o) ==
  /\ pc[o] \in {"staged", "verified"} \/ seen[o] # "none" => Kind[o] = "ingest"
  /\ pc[o] \in {"idle", "staged"} => seen[o] = "none"
  /\ seen[o] = "same" => Entries[o] \subseteq cas

OrphanInv == CasInv /\ OrphansAccounted /\ \A o \in Op : JournalReady(o) /\ SeenReady(o)

(* Unlinking files keeps every check that is not stale right. *)
LEMMA ForgetKeepsSeen ==
  ASSUME TypeOK, NEW gone, cas' = cas \ gone, Forget(gone), \A o \in Op : SeenReady(o)
  PROVE  \A o \in Op : /\ seen'[o] = "same" => Entries[o] \subseteq cas'
                       /\ seen'[o] # "none" => Kind[o] = "ingest"
                       /\ seen[o] = "none" => seen'[o] = "none"
                       /\ seen[o] = "changed" => seen'[o] = "changed"
BY DEF TypeOK, Forget, SeenReady

(* A file that recovery leaves without a row keeps the journal that names   *)
(* it; a journal that was empty stays empty.                                *)
LEMMA RecoverKeepsJournals ==
  ASSUME TypeOK, OrphansAccounted, \A o \in Op : SeenReady(o), RecoverSome, UNCHANGED objects
  PROVE  /\ OrphansAccounted'
         /\ \A o \in Op : /\ journal[o] = {} => journal'[o] = {}
                          /\ seen'[o] = "same" => Entries[o] \subseteq cas'
                          /\ seen'[o] # "none" => Kind[o] = "ingest"
                          /\ seen[o] = "none" => seen'[o] = "none"
<1>1. PICK stuck \in SUBSET RollBack, kept \in SUBSET Op : Recover(stuck, kept)
  BY Zenon DEF RecoverSome
<1>2. /\ cas' = cas \ (RollBack \ stuck)
      /\ journal' = [o \in Op |->
           IF o \in kept \/ (~Committed(o) /\ journal[o] \cap RollBack \cap stuck # {})
           THEN journal[o] ELSE {}]
      /\ Forget(RollBack \ stuck)
  BY <1>1, Zenon DEF Recover
<1>3. \A o \in Op : /\ seen'[o] = "same" => Entries[o] \subseteq cas'
                    /\ seen'[o] # "none" => Kind[o] = "ingest"
                    /\ seen[o] = "none" => seen'[o] = "none"
                    /\ seen[o] = "changed" => seen'[o] = "changed"
  BY <1>2, ForgetKeepsSeen
<1>4. ASSUME NEW d \in cas' \ objects', ~Unjournaled(d)' PROVE \E o \in Op : d \in journal'[o]
  <2>1. PICK o \in Op : d \in journal[o]
    BY <1>2, <1>3, <1>4 DEF OrphansAccounted, Unjournaled
  <2>2. ~Committed(o)
    BY <1>4, <2>1 DEF Committed
  <2>3. d \in RollBack
    BY <1>4, <2>1, <2>2, ZenonT(30) DEF RollBack
  <2>4. d \in stuck
    BY <1>2, <1>4, <2>3
  <2> QED
    BY <1>2, <2>1, <2>2, <2>3, <2>4, Zenon
<1> QED
  BY <1>2, <1>3, <1>4 DEF OrphansAccounted

(* Only one operation is under the mutex. *)
LEMMA OneHolds ==
  ASSUME CasInv, NEW o \in Op, pc[o] \in Held
  PROVE  \A p \in Op : p # o => pc[p] # "publish"
BY Zenon DEF CasInv, MutexHeld, Held

(* Goto moves one operation. *)
LEMMA GotoMoves ==
  ASSUME TypeOK, NEW o \in Op, NEW s, Goto(o, s)
  PROVE  pc'[o] = s /\ \A p \in Op : p # o => pc'[p] = pc[p]
BY Zenon DEF TypeOK, Goto

(* An operation that leaves the mutex, or is about to, leaves nobody that   *)
(* publishes.                                                               *)
LEMMA NobodyPublishes ==
  ASSUME CasInv, TypeOK, NEW o \in Op, pc[o] \in Held,
         NEW s \in {"committed", "done", "undo", "failed"}, Goto(o, s)
  PROVE  \A p \in Op :
           /\ pc'[p] # "publish"
           /\ pc'[p] \in {"idle", "staged", "verified", "journal"} => p # o /\ pc[p] = pc'[p]
<1>1. pc'[o] = s /\ \A p \in Op : p # o => pc'[p] = pc[p] /\ pc[p] # "publish"
  BY GotoMoves, OneHolds, Zenon DEF Held
<1>2. s \notin {"idle", "staged", "verified", "journal", "publish"}
  OBVIOUS
<1> QED
  BY <1>1, <1>2, Zenon

(* An operation that begins to publish is ready. *)
LEMMA BeginsReady ==
  ASSUME NEW o \in Op, pc'[o] = "publish", todo' \subseteq Entries[o],
         seen'[o] # "changed" => todo' \ cas' \subseteq journal'[o]
  PROVE  JournalReady(o)'
BY Zenon DEF JournalReady

(* The steps of one operation leave the others ready while no file goes. *)
LEMMA OthersReady ==
  ASSUME NEW p \in Op, JournalReady(p), SeenReady(p), pc[p] # "publish", cas \subseteq cas',
         pc'[p] = pc[p], journal'[p] = journal[p], seen'[p] = seen[p]
  PROVE  JournalReady(p)' /\ SeenReady(p)'
BY Zenon DEF JournalReady, SeenReady

(* Every step preserves OrphanInv. *)
LEMMA OrphanStep ==
  ASSUME OrphanInv, [Next]_vars
  PROVE  OrphanInv'
<1> USE DEF OrphanInv
<1>0. CasInv' /\ TypeOK
  BY CasStep DEF CasInv
<1>a. ASSUME RecoverSome, UNCHANGED objects,
             \A o \in Op : /\ pc'[o] # "publish"
                           /\ pc'[o] \in {"idle", "staged", "verified", "journal"} => pc'[o] = pc[o]
      PROVE  OrphanInv'
  <2>1. /\ OrphansAccounted'
        /\ \A o \in Op : /\ journal[o] = {} => journal'[o] = {}
                         /\ seen'[o] = "same" => Entries[o] \subseteq cas'
                         /\ seen'[o] # "none" => Kind[o] = "ingest"
                         /\ seen[o] = "none" => seen'[o] = "none"
    BY <1>0, <1>a, RecoverKeepsJournals, Zenon
  <2>2. \A o \in Op : JournalReady(o)' /\ SeenReady(o)'
    BY <1>a, <2>1 DEF JournalReady, SeenReady
  <2> QED
    BY <1>0, <2>1, <2>2, Zenon
<1>1. CASE Restart
  BY <1>a, <1>1 DEF Restart, database
<1>2. CASE OtherMutation
  <2>1. \A o \in Op : pc[o] # "publish"
    BY <1>2, Zenon DEF CasInv, TypeOK, OtherMutation, MutexHeld, Held
  <2> QED
    BY <1>a, <1>2, <2>1 DEF OtherMutation, database
<1>3. ASSUME NEW o \in Op, Step(o) PROVE OrphanInv'
  <2> USE DEF TypeOK, OrphansAccounted, Unjournaled, JournalReady, SeenReady
  <2>1. CASE StageUpload(o)
    BY <1>0, <2>1 DEF StageUpload, Goto, database, locals
  <2>2. CASE ExistingIdentity(o)
    <3>1. Kind[o] = "ingest" /\ pc[o] = "staged"
      BY <2>2, Zenon DEF ExistingIdentity
    <3>2. seen'[o] = "same" => Entries[o] \subseteq cas
      <4>1. \E d : Entries[o] = {d}
        BY ZenonT(30), <3>1
      <4> QED
        BY <1>0, <2>2, <4>1 DEF ExistingIdentity, Identity
    <3>3. /\ seen[o] = "none" /\ \A p \in Op : p # o => seen'[p] = seen[p] /\ pc'[p] = pc[p]
          /\ pc'[o] = "verified" /\ UNCHANGED <<cas, objects, journal, todo>>
      BY <1>0, <2>2, <3>1, Zenon DEF ExistingIdentity, Goto, files, database, locals
    <3>4. OrphansAccounted'
      BY <3>3
    <3>5. ASSUME NEW p \in Op PROVE JournalReady(p)' /\ SeenReady(p)'
      BY <3>1, <3>2, <3>3, Zenon
    <3> QED
      BY <1>0, <3>4, <3>5
  <2>3. CASE Refuse(o)
    BY <1>0, <2>3, ZenonT(30) DEF Refuse, Goto, database, locals
  <2>4. CASE Acquire(o)
    BY <1>0, <2>4 DEF Acquire, Goto, files, database, locals
  <2>5. CASE BeginJournal(o)
    <3>1. /\ ToPublish(o) \subseteq Entries[o]
          /\ seen[o] # "changed" => ToPublish(o) \ cas \subseteq ToJournal(o)
      BY <1>0, <2>5, Zenon DEF BeginJournal, ToPublish, ToJournal, StageOutputs, Identity
    <3>2. journal[o] = {} /\ mutex = o
      BY <2>5, Zenon DEF BeginJournal, CasInv, MutexHeld, Held
    <3>3. OrphansAccounted'
      BY <1>0, <2>5, <3>2 DEF BeginJournal, database
    <3>4. \A p \in Op : p # o => pc[p] # "publish"
      BY <2>5, OneHolds, Zenon DEF BeginJournal, Held
    <3>5. pc'[o] = "publish" /\ \A p \in Op : p # o => pc'[p] = pc[p]
      BY <1>0, <2>5, GotoMoves, Zenon DEF BeginJournal
    <3>6. /\ journal'[o] = ToJournal(o) /\ \A p \in Op : p # o => journal'[p] = journal[p]
          /\ todo' = ToPublish(o) /\ cas' = cas /\ seen' = seen
      BY <1>0, <2>5, Zenon DEF BeginJournal
    <3>7. pc[o] = "journal"
      BY <2>5, Zenon DEF BeginJournal
    <3>8. JournalReady(o)' /\ SeenReady(o)'
      <4>1. todo' \subseteq Entries[o] /\ (seen'[o] # "changed" => todo' \ cas' \subseteq journal'[o])
        BY <3>1, <3>6
      <4>2. JournalReady(o)'
        BY <3>5, <4>1, BeginsReady, Zenon
      <4>3. SeenReady(o)'
        BY <3>5, <3>6, <3>7, Zenon
      <4> QED
        BY <4>2, <4>3, Zenon
    <3>9. ASSUME NEW p \in Op, p # o PROVE JournalReady(p)' /\ SeenReady(p)'
      BY <3>4, <3>5, <3>6, <3>9, OthersReady, Zenon
    <3> QED
      BY <1>0, <3>3, <3>8, <3>9, Zenon
  <2>6. ASSUME NEW d \in Digest, Publish(o, d) PROVE OrphanInv'
    <3>1. d \notin cas => d \in journal[o] \/ Unjournaled(d)
      BY <2>6, Zenon DEF Publish
    <3>2. OrphansAccounted'
      BY <1>0, <2>6, <3>1 DEF Publish, database
    <3>3. /\ pc[o] = "publish" /\ cas \subseteq cas' /\ todo' \subseteq todo
          /\ UNCHANGED <<pc, journal, seen>>
      BY <2>6, Zenon DEF Publish
    <3>4. JournalReady(o)' /\ SeenReady(o)'
      BY <3>3, Zenon
    <3>5. ASSUME NEW p \in Op, p # o PROVE JournalReady(p)' /\ SeenReady(p)'
      <4>1. pc[p] # "publish"
        BY <3>3, <3>5, OneHolds, Zenon DEF Held
      <4> QED
        BY <3>3, <4>1, OthersReady, Zenon
    <3> QED
      BY <1>0, <3>2, <3>4, <3>5, Zenon
  <2>7. CASE Discard(o)
    BY <1>0, <2>7 DEF Discard, Goto, database, locals
  <2>8. CASE SnapshotRow(o)
    BY <1>0, <2>8, ZenonT(30) DEF SnapshotRow, files, locals
  <2>9. CASE Commit(o)
    <3>1. PICK s \in {"committed", "done"} : Goto(o, s)
      BY <2>9, Zenon DEF Commit
    <3>2. pc[o] \in Held
      BY <2>9, Zenon DEF Commit, Held
    <3>3. \A p \in Op :
            /\ pc'[p] # "publish"
            /\ pc'[p] \in {"idle", "staged", "verified", "journal"} => p # o /\ pc[p] = pc'[p]
      BY <1>0, <3>1, <3>2, NobodyPublishes, ZenonT(40)
    <3>4. UNCHANGED <<cas, journal, seen>> /\ objects \subseteq objects'
      BY <2>9, Zenon DEF Commit, files
    <3>5. OrphansAccounted'
      BY <3>4, Zenon
    <3>6. ASSUME NEW p \in Op PROVE JournalReady(p)' /\ SeenReady(p)'
      BY <3>3, <3>4, Zenon
    <3> QED
      BY <1>0, <3>5, <3>6, Zenon
  <2>10. CASE Abort(o)
    <3>1. PICK gone \in SUBSET published : cas' = cas \ gone /\ Forget(gone)
      BY <2>10, Zenon DEF Abort
    <3>2. \A p \in Op : /\ seen'[p] = "same" => Entries[p] \subseteq cas'
                        /\ seen'[p] # "none" => Kind[p] = "ingest"
                        /\ seen[p] = "none" => seen'[p] = "none"
                        /\ seen[p] = "changed" => seen'[p] = "changed"
      BY <1>0, <3>1, ForgetKeepsSeen, Zenon
    <3>3. \A p \in Op : journal[p] \subseteq journal'[p] /\ (p # o => journal'[p] = journal[p])
      <4>1. journal' = journal \/ (journal[o] = {} /\ journal' = [journal EXCEPT ![o] = ToJournal(o)])
        BY <2>10, Zenon DEF Abort, JournalFails
      <4> QED
        BY <1>0, <4>1, Zenon
    <3>4. OrphansAccounted'
      <4>1. cas' \subseteq cas /\ UNCHANGED objects
        BY <2>10, <3>1, Zenon DEF Abort, database
      <4> QED
        BY <3>2, <3>3, <4>1, Zenon
    <3>5. \A p \in Op :
            /\ pc'[p] # "publish"
            /\ pc'[p] \in {"idle", "staged", "verified", "journal"} => p # o /\ pc[p] = pc'[p]
      <4>1. PICK s \in {"undo", "failed"} : Goto(o, s)
        BY <2>10, Zenon DEF Abort
      <4>2. pc[o] \in Held
        BY <2>10, Zenon DEF Abort, Held
      <4> QED
        BY <1>0, <4>1, <4>2, NobodyPublishes, ZenonT(40)
    <3>6. ASSUME NEW p \in Op PROVE JournalReady(p)' /\ SeenReady(p)'
      BY <3>2, <3>3, <3>5, Zenon
    <3> QED
      BY <1>0, <3>4, <3>6, Zenon
  <2>11. CASE RecoverJournals(o)
    <3>1. \A p \in Op : /\ pc'[p] # "publish"
                        /\ pc'[p] \in {"idle", "staged", "verified", "journal"} => pc'[p] = pc[p]
      <4>1. PICK s \in {"done", "failed"} : Goto(o, s)
        BY <2>11, Zenon DEF RecoverJournals
      <4>2. pc[o] \in Held
        BY <2>11, Zenon DEF RecoverJournals, Held
      <4> QED
        BY <1>0, <4>1, <4>2, NobodyPublishes, ZenonT(40)
    <3> QED
      BY <1>a, <2>11, <3>1, ZenonT(30) DEF RecoverJournals, database
  <2>12. CASE RetryTask(o)
    BY <1>0, <2>12, ZenonT(30) DEF RetryTask, files, locals
  <2> QED
    BY <1>3, <2>1, <2>2, <2>3, <2>4, <2>5, <2>6, <2>7, <2>8, <2>9, <2>10, <2>11, <2>12, ZenonT(30) DEF Step, Proceed
<1>4. CASE UNCHANGED vars
  BY <1>0, <1>4 DEF vars, files, database, locals, OrphansAccounted, Unjournaled, JournalReady, SeenReady
<1> QED
  BY <1>1, <1>2, <1>3, <1>4 DEF Next

(* No failure, crash or failed clean-up leaves a file in the store that     *)
(* neither a row nor a journal knows, but for the copy of an upload whose   *)
(* check for an existing file became stale before it had the mutex.         *)
THEOREM OrphansStayAccounted == Spec => []OrphansAccounted
<1>1. Init => OrphanInv
  BY CasInit DEF Init, OrphanInv, OrphansAccounted, JournalReady, SeenReady
<1>2. OrphanInv /\ [Next]_vars => OrphanInv'
  BY OrphanStep
<1>3. OrphanInv => OrphansAccounted
  BY DEF OrphanInv
<1> QED
  BY <1>1, <1>2, <1>3, PTL DEF Spec

HIDE OpAssumption
HIDE KindAssumption
HIDE EntriesAssumption
HIDE RestartAssumption

-----------------------------------------------------------------------------
(* Generations and their variants: Gallery. *)

(* A row of generation_variants: the fields an update may leave alone are   *)
(* there.                                                                   *)
VariantRow(row) ==
  row = [gen |-> row.gen, obj |-> row.obj, type |-> row.type, primary |-> row.primary,
         poster |-> row.poster, at |-> row.at, viewed |-> row.viewed]

(* The rows are rows, and a variant is stored under its own generation.     *)
GalleryRows ==
  /\ generations = [g \in DOMAIN generations |-> generations[g]]
  /\ variants = [v \in DOMAIN variants |-> variants[v]]
  /\ \A g \in DOMAIN generations : generations[g].version \in Nat
  /\ \A v \in DOMAIN variants :
       VariantRow(variants[v]) /\ variants[v].gen = v[1] /\ v[1] \in DOMAIN generations

(* Whatever is named after a task came with its settlement. *)
NamesSettled ==
  /\ \A g \in DOMAIN generations : g[1] \in Tasks => task[g[1]].status = "completed"
  /\ \A v \in DOMAIN variants : v[2] \in Tasks => task[v[2]].status = "completed"

(* What a running task knows: while the version it names is still the       *)
(* generation's, the generation looks as its submitter saw it.              *)
TargetsKnown ==
  \A t \in Tasks, g \in DOMAIN generations :
    task[t].status = "running" /\ task[t].effect.target = g /\ g # None =>
      /\ task[t].effect.expected \in Nat /\ task[t].effect.expected <= generations[g].version
      /\ task[t].effect.expected = generations[g].version => Picture(g) = task[t].seen

(* What was checked when a running task was admitted. *)
EffectsKnown ==
  \A t \in Tasks :
    task[t].status = "running" =>
      /\ task[t].effect.kind = "publish" => task[t].effect.declared \in Declared
      /\ task[t].effect.target # None =>
           task[t].effect.kind \in {"append", "attach"} /\ task[t].effect.target \in DOMAIN generations

(* The inductive invariant behind GalleryCoherent and SettledOnSeen. *)
GalleryInv ==
  /\ GalleryRows /\ NamesSettled /\ GalleryCoherent /\ TargetsKnown /\ EffectsKnown
  /\ task = [t \in Tasks |-> task[t]]

(* One field of a row changes, the others stay. *)
LEMMA RowUpdates ==
  ASSUME NEW row, VariantRow(row), NEW x
  PROVE  /\ VariantRow([row EXCEPT !.primary = x]) /\ VariantRow([row EXCEPT !.poster = x])
         /\ VariantRow([row EXCEPT !.viewed = x])
         /\ [row EXCEPT !.primary = x].primary = x /\ [row EXCEPT !.poster = x].poster = x
         /\ \A f \in {"gen", "obj", "type", "at", "poster"} : [row EXCEPT !.primary = x][f] = row[f]
         /\ \A f \in {"gen", "obj", "type", "at", "primary"} : [row EXCEPT !.poster = x][f] = row[f]
         /\ \A f \in {"gen", "obj", "type", "at", "primary", "poster"} :
              [row EXCEPT !.viewed = x][f] = row[f]
<1>1. DOMAIN row = {"gen", "obj", "type", "primary", "poster", "at", "viewed"}
  BY DEF VariantRow
<1>2. VariantRow([row EXCEPT !.primary = x])
  BY DEF VariantRow
<1>3. VariantRow([row EXCEPT !.poster = x])
  BY DEF VariantRow
<1>4. VariantRow([row EXCEPT !.viewed = x])
  BY DEF VariantRow
<1> QED
  BY <1>1, <1>2, <1>3, <1>4

(* A row whose marker is cleared. *)
Cleared(row, new) ==
  /\ VariantRow(new) /\ new.primary = FALSE
  /\ \A f \in {"gen", "obj", "type", "at", "poster"} : new[f] = row[f]

(* The marker is cleared, the rest of the row stays. *)
LEMMA ClearedRow ==
  ASSUME NEW row, VariantRow(row), NEW new, new = [row EXCEPT !.primary = FALSE]
  PROVE  Cleared(row, new)
<1>1. DOMAIN row = {"gen", "obj", "type", "primary", "poster", "at", "viewed"}
  BY DEF VariantRow
<1>2. VariantRow(new)
  BY Zenon DEF VariantRow
<1> QED
  BY <1>1, <1>2 DEF Cleared

(* A generation looks the same when its variants differ at most in views    *)
(* and posters.                                                             *)
LEMMA PictureKept ==
  ASSUME NEW g, Members(g)' = Members(g), generations'[g].poster = generations[g].poster,
         \A v \in Members(g) : /\ variants'[v].primary = variants[v].primary
                               /\ variants'[v].type = variants[v].type
                               /\ variants'[v].at = variants[v].at
  PROVE  Picture(g)' = Picture(g)
<1>1. Explicit(g)' = Explicit(g)
  BY DEF Explicit
<1>2. Original(g)' = Original(g)
  BY DEF Original
<1>3. ASSUME NEW S, S \subseteq Members(g) PROVE Earliest(S)' = Earliest(S)
  BY <1>3 DEF Earliest
<1>4. Explicit(g) \subseteq Members(g) /\ Original(g) \subseteq Members(g)
  BY DEF Explicit, Original
<1> DEFINE from == IF Explicit(g) # {} THEN Explicit(g)
                   ELSE IF Original(g) # {} THEN Original(g) ELSE Members(g)
<1>5. from \subseteq Members(g)
  BY <1>4
<1>6. Earliest(from)' = Earliest(from)
  BY <1>1, <1>2, <1>3, <1>5 DEF Earliest
<1>7. Primary(g)' = Primary(g)
  BY <1>1, <1>2, <1>6 DEF Primary
<1> QED
  BY <1>7 DEF Picture

(* A generation moves on, or looks the same. *)
Moved(g) ==
  /\ generations'[g].version \in Nat
  /\ \/ generations'[g].version > generations[g].version
     \/ generations'[g].version = generations[g].version /\ Picture(g)' = Picture(g)

(* What a task that stays running knows stays true. *)
LEMMA TasksStayKnown ==
  ASSUME GalleryInv, DOMAIN generations \subseteq DOMAIN generations',
         \A g \in DOMAIN generations : Moved(g),
         \A t \in Tasks : task'[t].status = "running" => task'[t] = task[t]
  PROVE  TargetsKnown' /\ EffectsKnown'
<1>1. EffectsKnown'
  BY DEF EffectsKnown, GalleryInv
<1>2. ASSUME NEW t \in Tasks, NEW g \in DOMAIN generations',
             task'[t].status = "running", task'[t].effect.target = g, g # None
      PROVE  /\ task'[t].effect.expected \in Nat
             /\ task'[t].effect.expected <= generations'[g].version
             /\ task'[t].effect.expected = generations'[g].version => Picture(g)' = task'[t].seen
  <2>1. task'[t] = task[t]
    BY <1>2
  <2>2. g \in DOMAIN generations
    BY <1>2, <2>1, Zenon DEF EffectsKnown, GalleryInv
  <2> DEFINE e == task[t].effect
             saw == task[t].seen
  <2>3. /\ e.expected \in Nat /\ e.expected <= generations[g].version
        /\ e.expected = generations[g].version => Picture(g) = saw
    BY <1>2, <2>1, <2>2, Zenon DEF TargetsKnown, GalleryInv
  <2>4. Moved(g) /\ generations[g].version \in Nat
    BY <2>2, Zenon DEF GalleryInv, GalleryRows
  <2> HIDE DEF e, saw
  <2>5. /\ e.expected <= generations'[g].version
        /\ e.expected = generations'[g].version => Picture(g)' = saw
    BY <2>3, <2>4 DEF Moved
  <2> QED
    BY <2>1, <2>3, <2>5, Zenon DEF e, saw
<1>3. TargetsKnown'
  BY <1>2, Zenon DEF TargetsKnown
<1> QED
  BY <1>1, <1>3

(* New rows, under new names, that are coherent among themselves. *)
NewRows(G, V) ==
  /\ \A g \in DOMAIN G :
       /\ g \notin DOMAIN generations /\ G[g].version \in Nat
       /\ G[g].poster # None => \E v \in DOMAIN V : V[v].gen = g /\ V[v].obj = G[g].poster.source
  /\ \A v \in DOMAIN V :
       /\ v \notin DOMAIN variants /\ VariantRow(V[v]) /\ V[v].gen = v[1] /\ v[1] \in DOMAIN G
       /\ V[v].poster # None => V[v].poster.source = V[v].obj
  /\ \A v, w \in DOMAIN V : V[v].gen = V[w].gen /\ V[v].primary /\ V[w].primary => v = w

(* They leave what is there as it is, and the gallery stays coherent. *)
LEMMA Growth ==
  ASSUME GalleryInv, NEW G, NEW V, NewRows(G, V),
         generations' = With(generations, G), variants' = With(variants, V)
  PROVE  /\ GalleryRows' /\ GalleryCoherent' /\ DOMAIN generations \subseteq DOMAIN generations'
         /\ \A g \in DOMAIN generations : Moved(g)
<1> USE DEF NewRows
<1>1. /\ DOMAIN generations' = DOMAIN generations \cup DOMAIN G
      /\ generations' = [g \in DOMAIN generations' |-> generations'[g]]
      /\ \A g \in DOMAIN generations : generations'[g] = generations[g]
      /\ \A g \in DOMAIN G : generations'[g] = G[g]
  BY Zenon DEF With
<1>2. /\ DOMAIN variants' = DOMAIN variants \cup DOMAIN V
      /\ variants' = [v \in DOMAIN variants' |-> variants'[v]]
      /\ \A v \in DOMAIN variants : variants'[v] = variants[v]
      /\ \A v \in DOMAIN V : variants'[v] = V[v]
  BY DEF With
<1>3. GalleryRows
  BY DEF GalleryInv
<1>4. GalleryRows'
  <2>1. \A g \in DOMAIN generations' : generations'[g].version \in Nat
    BY <1>1, <1>3 DEF GalleryRows
  <2>2. ASSUME NEW v \in DOMAIN variants'
        PROVE  /\ VariantRow(variants'[v]) /\ variants'[v].gen = v[1]
               /\ v[1] \in DOMAIN generations'
    <3>1. CASE v \in DOMAIN variants
      BY <1>1, <1>2, <1>3, <3>1 DEF GalleryRows
    <3>2. CASE v \in DOMAIN V
      BY <1>1, <1>2, <3>2, Zenon
    <3> QED
      BY <1>2, <2>2, <3>1, <3>2, Zenon
  <2> QED
    BY <1>1, <1>2, <2>1, <2>2, Zenon DEF GalleryRows
<1>5. ASSUME NEW g \in DOMAIN generations PROVE Members(g)' = Members(g)
  <2>1. \A v \in DOMAIN V : V[v].gen # g
    BY <1>5, Zenon
  <2> QED
    BY <1>2, <2>1 DEF Members
<1>6. ASSUME NEW g \in DOMAIN generations PROVE Moved(g)
  <2>1. Picture(g)' = Picture(g)
    BY <1>1, <1>2, <1>5, PictureKept DEF Members
  <2> QED
    BY <1>1, <1>3, <2>1, Zenon DEF Moved, GalleryRows
<1>7. ASSUME NEW v \in DOMAIN variants', NEW w \in DOMAIN variants',
             variants'[v].gen = variants'[w].gen, variants'[v].primary, variants'[w].primary
      PROVE  v = w
  <2>1. \A x \in DOMAIN variants, y \in DOMAIN V : variants[x].gen # V[y].gen
    BY <1>3 DEF GalleryRows
  <2>2. CASE v \in DOMAIN variants /\ w \in DOMAIN variants
    BY <1>2, <1>7, <2>2 DEF GalleryInv, GalleryCoherent
  <2>3. CASE v \in DOMAIN V /\ w \in DOMAIN V
    BY <1>2, <1>7, <2>3, Zenon
  <2> QED
    BY <1>2, <1>7, <2>1, <2>2, <2>3
<1>8. ASSUME NEW g \in DOMAIN generations', generations'[g].poster # None
      PROVE  \E v \in Members(g)' : variants'[v].obj = generations'[g].poster.source
  <2>1. CASE g \in DOMAIN generations
    <3>1. PICK v \in Members(g) : variants[v].obj = generations[g].poster.source
      BY <1>1, <1>8, <2>1 DEF GalleryInv, GalleryCoherent
    <3> QED
      BY <1>1, <1>2, <1>5, <2>1, <3>1 DEF Members
  <2>2. CASE g \in DOMAIN G
    <3>1. PICK v \in DOMAIN V : V[v].gen = g /\ V[v].obj = G[g].poster.source
      BY <1>1, <1>8, <2>2, Zenon
    <3> QED
      BY <1>1, <1>2, <2>2, <3>1 DEF Members
  <2> QED
    BY <1>1, <1>8, <2>1, <2>2, Zenon
<1>9. ASSUME NEW v \in DOMAIN variants', variants'[v].poster # None
      PROVE  variants'[v].poster.source = variants'[v].obj
  <2>1. CASE v \in DOMAIN variants
    BY <1>2, <1>9, <2>1 DEF GalleryInv, GalleryCoherent
  <2>2. CASE v \in DOMAIN V
    BY <1>2, <1>9, <2>2
  <2> QED
    BY <1>2, <1>9, <2>1, <2>2, Zenon
<1>10. GalleryCoherent'
  BY <1>7, <1>8, <1>9, Zenon DEF GalleryCoherent
<1> QED
  BY <1>1, <1>4, <1>6, <1>10, Zenon

(* The rows of generation.create_with_variant and of an import. *)
LEMMA CreatedCoherent ==
  ASSUME GalleryInv, NEW t, NEW o, NEW poster, Created(t, o, poster),
         <<t, "made">> \notin DOMAIN generations,
         poster # None => poster.source = o
  PROVE  /\ GalleryRows' /\ GalleryCoherent' /\ DOMAIN generations \subseteq DOMAIN generations'
         /\ \A g \in DOMAIN generations : Moved(g)
         /\ DOMAIN generations' = DOMAIN generations \cup {<<t, "made">>}
         /\ DOMAIN variants' = DOMAIN variants \cup {<<<<t, "made">>, "initial">>}
<1> DEFINE G == [g \in {<<t, "made">>} |-> [version |-> 1, poster |-> poster]]
           row == [gen |-> <<t, "made">>, obj |-> o, type |-> "original", primary |-> TRUE,
                   poster |-> poster, at |-> 1, viewed |-> FALSE]
           V == [v \in {<<<<t, "made">>, "initial">>} |-> row]
<1>1. generations' = With(generations, G) /\ variants' = With(variants, V)
  BY Zenon DEF Created
<1>2. /\ VariantRow(row) /\ row.gen = <<t, "made">> /\ row.obj = o /\ row.poster = poster
  BY DEF VariantRow
<1>3. <<<<t, "made">>, "initial">> \notin DOMAIN variants
  BY Zenon DEF GalleryInv, GalleryRows
<1> HIDE DEF row
<1>4. /\ DOMAIN V = {<<<<t, "made">>, "initial">>}
      /\ \A v \in DOMAIN V : V[v] = row /\ v[1] = <<t, "made">>
  OBVIOUS
<1>5. /\ DOMAIN G = {<<t, "made">>}
      /\ \A g \in DOMAIN G : g = <<t, "made">> /\ G[g].version = 1 /\ G[g].poster = poster
  OBVIOUS
<1>6. DOMAIN generations' = DOMAIN generations \cup DOMAIN G /\ DOMAIN variants' = DOMAIN variants \cup DOMAIN V
  BY <1>1, Zenon DEF With
<1> HIDE DEF G, V
<1>7. \A g \in DOMAIN G :
        /\ g \notin DOMAIN generations /\ G[g].version \in Nat
        /\ G[g].poster # None => \E v \in DOMAIN V : V[v].gen = g /\ V[v].obj = G[g].poster.source
  BY <1>2, <1>4, <1>5
<1>8. \A v \in DOMAIN V :
        /\ v \notin DOMAIN variants /\ VariantRow(V[v]) /\ V[v].gen = v[1] /\ v[1] \in DOMAIN G
        /\ V[v].poster # None => V[v].poster.source = V[v].obj
  BY <1>2, <1>3, <1>4, <1>5
<1>9. \A v, w \in DOMAIN V : v = w
  BY <1>4
<1>10. NewRows(G, V)
  BY <1>7, <1>8, <1>9, Zenon DEF NewRows
<1>11. /\ GalleryRows' /\ GalleryCoherent' /\ DOMAIN generations \subseteq DOMAIN generations'
       /\ \A g \in DOMAIN generations : Moved(g)
  BY <1>1, <1>10, Growth, Zenon
<1> QED
  BY <1>4, <1>5, <1>6, <1>11, Zenon

(* A poster names the object it was found for. *)
LEMMA PosterSource ==
  ASSUME NEW r, NEW o, PosterOf(r, o) # None
  PROVE  PosterOf(r, o).source = o
BY DEF PosterOf

(* A selector takes at most one output, and a key has one selector. *)
LEMMA ChosenOnce ==
  ASSUME NEW e, e.declared \in Declared, NEW r \in Reports,
         NEW x \in Chosen(e, r), NEW y \in Chosen(e, r)
  PROVE  /\ x.sel \in e.declared /\ y.sel \in e.declared
         /\ x.sel.key = y.sel.key \/ x.sel.rank = y.sel.rank => x = y
<1>1. /\ x.sel \in e.declared /\ x.out \in r.media /\ x.sel.key = x.out.key
      /\ y.sel \in e.declared /\ y.out \in r.media /\ y.sel.key = y.out.key
      /\ x = [sel |-> x.sel, out |-> x.out] /\ y = [sel |-> y.sel, out |-> y.out]
  BY DEF Chosen
<1>2. \A a, b \in e.declared : a.key = b.key \/ a.rank = b.rank => a = b
  BY GalleryAssumption, Zenon
<1>3. \A a, b \in r.media : a.key = b.key => a = b
  BY GalleryAssumption, Zenon
<1>4. x.sel.key = y.sel.key \/ x.sel.rank = y.sel.rank => x.sel = y.sel
  BY <1>1, <1>2, Zenon
<1>5. x.sel = y.sel => x.out = y.out
  BY <1>1, <1>3, Zenon
<1> QED
  BY <1>1, <1>4, <1>5, Zenon

(* A group has at most one primary output. *)
LEMMA PrimaryOnce ==
  ASSUME NEW e, e.declared \in Declared, NEW r \in Reports, NEW S, S \subseteq Chosen(e, r),
         NEW x \in PrimaryOutput(S), NEW y \in PrimaryOutput(S)
  PROVE  x \in S /\ x = y
<1>1. /\ x \in S /\ y \in S /\ x.sel.rank <= y.sel.rank /\ y.sel.rank <= x.sel.rank
  BY Zenon DEF PrimaryOutput
<1>2. x.sel \in e.declared /\ y.sel \in e.declared
  BY <1>1, ChosenOnce
<1>3. x.sel.rank \in Nat /\ y.sel.rank \in Nat
  BY <1>2, GalleryAssumption, Zenon
<1>4. x.sel.rank = y.sel.rank
  BY <1>1, <1>3
<1> QED
  BY <1>1, <1>4, ChosenOnce

(* The rows of generation.publish_v1 are new and coherent. *)
LEMMA PublishedRows ==
  ASSUME GalleryInv, NEW t \in Tasks, task[t].status = "running",
         NEW e, e.declared \in Declared, NEW r \in Reports
  PROVE  /\ NewRows(PublishedGenerations(t, e, r), PublishedVariants(t, e, r))
         /\ \A g \in DOMAIN PublishedGenerations(t, e, r) : g[1] = t
         /\ \A v \in DOMAIN PublishedVariants(t, e, r) : v[2] \notin Tasks
<1> DEFINE chosen == Chosen(e, r)
           G == PublishedGenerations(t, e, r)
           V == PublishedVariants(t, e, r)
           gen(x) == <<t, x.sel.key[1]>>
           name(x) == <<gen(x), x.sel.key[2]>>
           Row(v) == CHOOSE x \in chosen : x.sel.key = <<v[1][2], v[2]>>
           row(x) == [gen |-> gen(x), obj |-> x.out.obj, type |-> x.sel.key[2],
                      primary |-> x \in PrimaryOutput(OfGroup(chosen, x.sel.key[1])),
                      poster |-> PosterOf(r, x.out.obj), at |-> x.sel.rank, viewed |-> FALSE]
<1>1. \A x \in chosen : x.sel.key = <<x.sel.key[1], x.sel.key[2]>> /\ x.sel.key[2] \notin Tasks
  <2> SUFFICES ASSUME NEW x \in chosen
               PROVE  x.sel.key = <<x.sel.key[1], x.sel.key[2]>> /\ x.sel.key[2] \notin Tasks
    BY Zenon
  <2>1. x.sel \in e.declared
    BY ChosenOnce
  <2> QED
    BY <2>1, GalleryAssumption, Zenon
<1>2. ASSUME NEW x \in chosen PROVE Row(name(x)) = x
  <2>1. name(x)[1][2] = x.sel.key[1] /\ name(x)[2] = x.sel.key[2]
    OBVIOUS
  <2>2. x.sel.key = <<name(x)[1][2], name(x)[2]>>
    BY <1>1, <2>1, Zenon
  <2> HIDE DEF name
  <2>3. /\ Row(name(x)) \in chosen
        /\ Row(name(x)).sel.key = x.sel.key
    BY <2>2, Zenon
  <2>4. PICK y \in chosen : y = Row(name(x)) /\ y.sel.key = x.sel.key
    BY <2>3, Zenon
  <2>5. y = x
    BY <2>4, ChosenOnce
  <2> QED
    BY <2>4, <2>5, Zenon
<1>3. /\ DOMAIN V = {name(x) : x \in chosen}
      /\ \A v \in DOMAIN V :
           V[v] = [gen |-> v[1], obj |-> Row(v).out.obj, type |-> v[2],
                   primary |-> Row(v) \in PrimaryOutput(OfGroup(chosen, v[1][2])),
                   poster |-> PosterOf(r, Row(v).out.obj), at |-> Row(v).sel.rank, viewed |-> FALSE]
  BY Zenon DEF PublishedVariants
<1>4. ASSUME NEW x \in chosen PROVE V[name(x)] = row(x) /\ name(x) \in DOMAIN V
  <2>1. /\ name(x)[1] = gen(x) /\ name(x)[1][2] = x.sel.key[1] /\ name(x)[2] = x.sel.key[2]
    OBVIOUS
  <2>2. name(x) \in DOMAIN V
    BY <1>3, Zenon
  <2> HIDE DEF name, Row, gen, V, chosen
  <2> QED
    BY <1>2, <1>3, <2>1, <2>2, Zenon
<1>5. /\ DOMAIN G = {gen(x) : x \in chosen}
      /\ \A g \in DOMAIN G :
           /\ G[g].version = 1
           /\ G[g].poster # None =>
                \E x \in PrimaryOutput(OfGroup(chosen, g[2])) : G[g].poster = PosterOf(r, x.out.obj)
  <2>1. DOMAIN G = {gen(x) : x \in chosen}
    BY Zenon DEF PublishedGenerations, Group
  <2>2. ASSUME NEW g \in DOMAIN G
        PROVE  /\ G[g].version = 1
               /\ G[g].poster # None =>
                    \E x \in PrimaryOutput(OfGroup(chosen, g[2])) : G[g].poster = PosterOf(r, x.out.obj)
    <3> DEFINE first == PrimaryOutput(OfGroup(chosen, g[2]))
    <3>1. G[g] = [version |-> 1,
                  poster  |-> IF first = {} THEN None
                              ELSE PosterOf(r, (CHOOSE x \in first : TRUE).out.obj)]
      BY Zenon DEF PublishedGenerations
    <3> HIDE DEF first, G
    <3>2. G[g].version = 1
      BY <3>1
    <3>3. ASSUME G[g].poster # None PROVE \E x \in first : G[g].poster = PosterOf(r, x.out.obj)
      <4>1. first # {} /\ G[g].poster = PosterOf(r, (CHOOSE x \in first : TRUE).out.obj)
        BY <3>1, <3>3
      <4>2. (CHOOSE x \in first : TRUE) \in first
        BY <4>1, Zenon
      <4> QED
        BY <4>1, <4>2, Zenon
    <3> QED
      BY <3>2, <3>3, Zenon DEF first
  <2> QED
    BY <2>1, <2>2, Zenon
<1>6. \A g \in DOMAIN G : g[1] = t
  BY <1>5
<1>7. \A v \in DOMAIN V : \E x \in chosen : v = name(x)
  BY <1>3, Zenon
<1>8. ASSUME NEW x \in chosen
      PROVE  /\ VariantRow(row(x)) /\ row(x).gen = gen(x) /\ row(x).obj = x.out.obj
             /\ row(x).poster = PosterOf(r, x.out.obj) /\ name(x)[1] = gen(x) /\ name(x)[2] = x.sel.key[2]
             /\ row(x).primary => x \in PrimaryOutput(OfGroup(chosen, x.sel.key[1]))
  BY Zenon DEF VariantRow
<1>9. \A g \in DOMAIN G : g \notin DOMAIN generations
  BY <1>6, Zenon DEF GalleryInv, NamesSettled
<1>10. \A v \in DOMAIN V : v[1] \in DOMAIN G /\ v[2] \notin Tasks
  <2> HIDE DEF G, V, row
  <2> QED
    BY <1>1, <1>5, <1>7, <1>8
<1>11. \A v \in DOMAIN V : v \notin DOMAIN variants
  BY <1>9, <1>10, Zenon DEF GalleryInv, GalleryRows
<1>12. ASSUME NEW g \in DOMAIN G, G[g].poster # None
       PROVE  \E v \in DOMAIN V : V[v].gen = g /\ V[v].obj = G[g].poster.source
  <2>1. PICK x \in PrimaryOutput(OfGroup(chosen, g[2])) : G[g].poster = PosterOf(r, x.out.obj)
    BY <1>5, <1>12, Zenon
  <2>2. x \in OfGroup(chosen, g[2])
    BY <2>1, Zenon DEF PrimaryOutput
  <2>3. x \in chosen /\ x.sel.key[1] = g[2]
    BY <2>2, Zenon DEF OfGroup, Group
  <2>4. gen(x) = g
    BY <1>5, <1>6, <2>3
  <2>5. G[g].poster.source = x.out.obj
    BY <1>12, <2>1, PosterSource, Zenon
  <2> HIDE DEF G, V, row, name, gen, chosen
  <2> QED
    BY <1>4, <1>8, <2>3, <2>4, <2>5, Zenon
<1>13. ASSUME NEW v \in DOMAIN V
       PROVE  /\ VariantRow(V[v]) /\ V[v].gen = v[1]
              /\ V[v].poster # None => V[v].poster.source = V[v].obj
  <2>1. PICK x \in chosen : v = name(x)
    BY <1>7, Zenon
  <2> HIDE DEF G, V, row, name, gen, chosen
  <2>2. V[v] = row(x) /\ v[1] = gen(x)
    BY <1>4, <1>8, <2>1, Zenon
  <2> QED
    <3>1. /\ VariantRow(row(x)) /\ row(x).gen = gen(x) /\ row(x).obj = x.out.obj
          /\ row(x).poster = PosterOf(r, x.out.obj)
      BY <1>8, Zenon
    <3>2. row(x).poster # None => row(x).poster.source = x.out.obj
      BY <3>1, PosterSource
    <3> QED
      BY <2>2, <3>1, <3>2
<1>14. ASSUME NEW v \in DOMAIN V, NEW w \in DOMAIN V, V[v].gen = V[w].gen, V[v].primary, V[w].primary
       PROVE  v = w
  <2>1. PICK x \in chosen, y \in chosen : v = name(x) /\ w = name(y)
    BY <1>7, <1>14, Zenon
  <2>2. V[v] = row(x) /\ V[w] = row(y)
    BY <1>4, <2>1, Zenon
  <2>3. gen(x) = gen(y) /\ row(x).primary /\ row(y).primary
    BY <1>8, <1>14, <2>2, ZenonT(40)
  <2>4. x.sel.key[1] = y.sel.key[1]
    BY <2>3, Zenon
  <2>5. /\ x \in PrimaryOutput(OfGroup(chosen, x.sel.key[1]))
        /\ y \in PrimaryOutput(OfGroup(chosen, x.sel.key[1]))
    BY <1>8, <2>3, <2>4, Zenon
  <2>6. OfGroup(chosen, x.sel.key[1]) \subseteq chosen
    BY Zenon DEF OfGroup
  <2>7. x = y
    BY <2>5, <2>6, PrimaryOnce, Zenon
  <2> QED
    BY <2>1, <2>7, Zenon
<1> HIDE DEF G, V
<1>15. NewRows(G, V)
  <2>0. 1 \in Nat
    OBVIOUS
  <2>1. \A g \in DOMAIN G : G[g].version \in Nat
    BY <1>5, <2>0, Zenon
  <2> QED
    BY <1>9, <1>10, <1>11, <1>12, <1>13, <1>14, <2>1, Zenon DEF NewRows
<1> QED
  BY <1>6, <1>10, <1>15, Zenon DEF G, V

(* The variant that represents a generation is one of its variants. *)
LEMMA PrimaryMember ==
  ASSUME NEW g
  PROVE  Primary(g) \subseteq Members(g)
BY DEF Primary, Earliest, Explicit, Original

(* What an update of single variants may change. *)
Touched(v) ==
  /\ VariantRow(variants'[v])
  /\ \A f \in {"gen", "obj", "type", "at", "primary"} : variants'[v][f] = variants[v][f]
  /\ variants'[v].poster # None => variants'[v].poster.source = variants'[v].obj

(* Views and posters of single variants leave every generation as it was. *)
LEMMA TouchedCoherent ==
  ASSUME GalleryInv, UNCHANGED generations, DOMAIN variants' = DOMAIN variants,
         variants' = [v \in DOMAIN variants |-> variants'[v]],
         \A v \in DOMAIN variants : Touched(v)
  PROVE  /\ GalleryRows' /\ GalleryCoherent'
         /\ \A g \in DOMAIN generations : Moved(g)
<1>1. ASSUME NEW v \in DOMAIN variants
      PROVE  /\ variants'[v].gen = variants[v].gen /\ variants'[v].obj = variants[v].obj
             /\ variants'[v].type = variants[v].type /\ variants'[v].at = variants[v].at
             /\ variants'[v].primary = variants[v].primary
  BY <1>1, Zenon DEF Touched
<1>2. GalleryRows'
  BY <1>1 DEF Touched, GalleryInv, GalleryRows
<1>3. ASSUME NEW g PROVE Members(g)' = Members(g)
  BY <1>1 DEF Members
<1>4. ASSUME NEW g \in DOMAIN generations PROVE Moved(g)
  <2>1. Picture(g)' = Picture(g)
    BY <1>1, <1>3, PictureKept DEF Members
  <2> QED
    BY <2>1, Zenon DEF Moved, GalleryInv, GalleryRows
<1>5. GalleryCoherent'
  <2>1. ASSUME NEW v \in DOMAIN variants, NEW w \in DOMAIN variants,
               variants'[v].gen = variants'[w].gen, variants'[v].primary, variants'[w].primary
        PROVE  v = w
    BY <1>1, <2>1, ZenonT(40) DEF GalleryInv, GalleryCoherent
  <2>2. ASSUME NEW g \in DOMAIN generations, generations[g].poster # None
        PROVE  \E v \in Members(g)' : variants'[v].obj = generations[g].poster.source
    <3>1. PICK v \in Members(g) : variants[v].obj = generations[g].poster.source
      BY <2>2, Zenon DEF GalleryInv, GalleryCoherent
    <3>2. v \in DOMAIN variants /\ v \in Members(g)'
      BY <1>3, <3>1 DEF Members
    <3> QED
      BY <1>1, <3>1, <3>2, Zenon
  <2>3. \A v \in DOMAIN variants : variants'[v].poster # None => variants'[v].poster.source = variants'[v].obj
    BY Zenon DEF Touched
  <2> QED
    BY <2>1, <2>2, <2>3, Zenon DEF GalleryCoherent
<1> QED
  BY <1>2, <1>4, <1>5, Zenon

(* generation.variant.append keeps the gallery coherent. *)
LEMMA AppendCoherent ==
  ASSUME GalleryInv, NEW t \in Tasks, task[t].status = "running", NEW e, NEW r, Append(t, e, r)
  PROVE  /\ GalleryRows' /\ GalleryCoherent' /\ DOMAIN generations' = DOMAIN generations
         /\ \A g \in DOMAIN generations : Moved(g)
         /\ DOMAIN variants' = DOMAIN variants \cup {<<e.target, t>>}
<1> DEFINE g == e.target
           id == <<g, t>>
<1>1. PICK o \in r.media, p \in Primary(g) :
        /\ AppendOK(e, r, o, p)
        /\ LET poster == PosterOf(r, variants[p].obj)
               rows   == IF e.policy = "promote" THEN Demoted(g) ELSE variants
               new    == [gen |-> g, obj |-> o.obj, type |-> e.type,
                          primary |-> e.policy = "promote", poster |-> PosterOf(r, o.obj),
                          at |-> Cardinality(Members(g)) + 1, viewed |-> FALSE]
           IN  /\ generations' = [generations EXCEPT ![g] =
                       [version |-> @.version + 1,
                        poster  |-> IF poster = None THEN @.poster ELSE poster]]
               /\ variants' = With(rows, [v \in {<<g, t>>} |-> new])
  BY Zenon DEF Append
<1> DEFINE poster == PosterOf(r, variants[p].obj)
           rows   == IF e.policy = "promote" THEN Demoted(g) ELSE variants
           new    == [gen |-> g, obj |-> o.obj, type |-> e.type,
                      primary |-> e.policy = "promote", poster |-> PosterOf(r, o.obj),
                      at |-> Cardinality(Members(g)) + 1, viewed |-> FALSE]
<1>2. g \in DOMAIN generations
  BY <1>1, Zenon DEF AppendOK, Current
<1>3. p \in DOMAIN variants /\ variants[p].gen = g
  BY <1>1, PrimaryMember DEF Members
<1>4. id \notin DOMAIN variants
  BY Zenon DEF GalleryInv, NamesSettled
<1>5. /\ VariantRow(new) /\ new.gen = g /\ new.obj = o.obj
      /\ new.primary = (e.policy = "promote") /\ new.poster = PosterOf(r, o.obj)
  BY Zenon DEF VariantRow
<1>6. /\ DOMAIN rows = DOMAIN variants
      /\ \A v \in DOMAIN variants :
           /\ VariantRow(rows[v])
           /\ \A f \in {"gen", "obj", "type", "at", "poster"} : rows[v][f] = variants[v][f]
           /\ e.policy = "promote" /\ variants[v].gen = g => rows[v].primary = FALSE
           /\ e.policy # "promote" \/ variants[v].gen # g => rows[v].primary = variants[v].primary
  <2>1. CASE e.policy # "promote"
    BY <2>1 DEF GalleryInv, GalleryRows
  <2>2. CASE e.policy = "promote"
    <3>1. rows = [v \in DOMAIN variants |->
             IF v \in Members(g) THEN [variants[v] EXCEPT !.primary = FALSE] ELSE variants[v]]
      BY <2>2 DEF Demoted
    <3>2. ASSUME NEW v \in DOMAIN variants
          PROVE  /\ VariantRow(rows[v])
                 /\ \A f \in {"gen", "obj", "type", "at", "poster"} : rows[v][f] = variants[v][f]
                 /\ variants[v].gen = g => rows[v].primary = FALSE
                 /\ variants[v].gen # g => rows[v].primary = variants[v].primary
      <4>1. VariantRow(variants[v])
        BY DEF GalleryInv, GalleryRows
      <4>2. CASE v \in Members(g)
        <5>1. rows[v] = [variants[v] EXCEPT !.primary = FALSE]
          BY <3>1, <4>2, Zenon
        <5> QED
          <6>1. PICK row : row = variants[v] /\ VariantRow(row)
            BY <4>1, Zenon
          <6>2. PICK row2 : row2 = rows[v] /\ row2 = [row EXCEPT !.primary = FALSE]
            BY <5>1, <6>1, Zenon
          <6>3. Cleared(row, row2)
            <7>1. VariantRow(row)
              BY <6>1, Zenon
            <7>2. row2 = [row EXCEPT !.primary = FALSE]
              BY <6>2, Zenon
            <7> QED
              BY <7>1, <7>2, ClearedRow, Zenon
          <6>4. variants[v].gen = g
            BY <4>2 DEF Members
          <6> HIDE DEF rows, g
          <6> QED
            BY <6>1, <6>2, <6>3, <6>4, Zenon DEF Cleared
      <4>3. CASE v \notin Members(g)
        <5>1. rows[v] = variants[v]
          BY <3>1, <4>3, Zenon
        <5> QED
          BY <4>1, <4>3, <5>1, Zenon DEF Members
      <4> QED
        BY <4>2, <4>3, Zenon
    <3> QED
      BY <2>2, <3>1, <3>2, Zenon
  <2> QED
    BY <2>1, <2>2, Zenon
<1> HIDE DEF new, rows, poster, g
<1>7. /\ DOMAIN variants' = DOMAIN variants \cup {id}
      /\ variants' = [v \in DOMAIN variants' |-> variants'[v]]
      /\ variants'[id] = new /\ \A v \in DOMAIN variants : variants'[v] = rows[v]
  <2>1. variants' = With(rows, [v \in {id} |-> new])
    BY <1>1, Zenon DEF new, rows
  <2> QED
    BY <1>4, <1>6, <2>1 DEF With
<1>8. /\ DOMAIN generations' = DOMAIN generations
      /\ generations' = [h \in DOMAIN generations |-> generations'[h]]
      /\ \A h \in DOMAIN generations : h # g => generations'[h] = generations[h]
      /\ generations'[g].version = generations[g].version + 1
      /\ generations'[g].poster = IF poster = None THEN generations[g].poster ELSE poster
  <2>1. generations' = [generations EXCEPT ![g] =
             [version |-> generations[g].version + 1,
              poster  |-> IF poster = None THEN generations[g].poster ELSE poster]]
    BY <1>1 DEF poster
  <2>2. generations = [h \in DOMAIN generations |-> generations[h]]
    BY Zenon DEF GalleryInv, GalleryRows
  <2> QED
    BY <1>2, <2>1, <2>2, Zenon
<1>9. generations'[g].version \in Nat /\ \A h \in DOMAIN generations : generations[h].version \in Nat
  BY <1>2, <1>8 DEF GalleryInv, GalleryRows
<1>10. \A v \in DOMAIN variants :
         /\ VariantRow(variants'[v]) /\ variants'[v].gen = variants[v].gen
         /\ variants'[v].obj = variants[v].obj /\ variants'[v].type = variants[v].type
         /\ variants'[v].at = variants[v].at /\ variants'[v].poster = variants[v].poster
         /\ e.policy = "promote" /\ variants[v].gen = g => variants'[v].primary = FALSE
         /\ e.policy # "promote" \/ variants[v].gen # g => variants'[v].primary = variants[v].primary
  BY <1>6, <1>7
<1>11. GalleryRows'
  <2>1. \A h \in DOMAIN generations' : generations'[h].version \in Nat
    BY <1>8, <1>9
  <2>2. ASSUME NEW v \in DOMAIN variants'
        PROVE  /\ VariantRow(variants'[v]) /\ variants'[v].gen = v[1] /\ v[1] \in DOMAIN generations'
    <3>1. CASE v \in DOMAIN variants
      BY <1>8, <1>10, <3>1, Zenon DEF GalleryInv, GalleryRows
    <3>2. CASE v = id
      BY <1>2, <1>5, <1>7, <1>8, <3>2
    <3> QED
      BY <1>7, <2>2, <3>1, <3>2, Zenon
  <2> QED
    BY <1>7, <1>8, <2>1, <2>2, Zenon DEF GalleryRows
<1>12. ASSUME NEW h \in DOMAIN generations PROVE Moved(h)
  <2>1. CASE h = g
    BY <1>9, <1>8, <2>1 DEF Moved
  <2>2. CASE h # g
    <3>1. Members(h)' = Members(h)
      BY <1>5, <1>7, <1>10, <2>2 DEF Members
    <3>2. Picture(h)' = Picture(h)
      <4>1. \A v \in Members(h) : v \in DOMAIN variants /\ variants[v].gen # g
        BY <2>2 DEF Members
      <4> QED
        BY <1>8, <1>10, <2>2, <3>1, <4>1, PictureKept, Zenon
    <3> QED
      BY <1>8, <1>9, <2>2, <3>2, Zenon DEF Moved
  <2> QED
    BY <2>1, <2>2, Zenon
<1>13. ASSUME NEW v \in DOMAIN variants', NEW w \in DOMAIN variants',
              variants'[v].gen = variants'[w].gen, variants'[v].primary, variants'[w].primary
       PROVE  v = w
  <2>1. CASE v = id \/ w = id
    <3>1. e.policy = "promote" /\ variants'[v].gen = g /\ variants'[w].gen = g
      BY <1>5, <1>7, <1>13, <2>1, ZenonT(40)
    <3>2. v \notin DOMAIN variants /\ w \notin DOMAIN variants
      BY <1>10, <1>13, <3>1
    <3> QED
      BY <1>7, <1>13, <3>2, Zenon
  <2>2. CASE v \in DOMAIN variants /\ w \in DOMAIN variants
    <3>1. variants[v].primary /\ variants[w].primary /\ variants[v].gen = variants[w].gen
      BY <1>10, <1>13, <2>2
    <3> QED
      BY <2>2, <3>1, Zenon DEF GalleryInv, GalleryCoherent
  <2> QED
    BY <1>7, <1>13, <2>1, <2>2, Zenon
<1>14. ASSUME NEW h \in DOMAIN generations', generations'[h].poster # None
       PROVE  \E v \in Members(h)' : variants'[v].obj = generations'[h].poster.source
  <2>1. CASE h = g /\ poster # None
    <3>1. generations'[h].poster.source = variants[p].obj
      <4>1. generations'[h].poster = poster
        BY <1>8, <2>1, Zenon
      <4> QED
        BY <2>1, <4>1, PosterSource, Zenon DEF poster
    <3>2. p \in Members(h)' /\ variants'[p].obj = variants[p].obj
      BY <1>3, <1>7, <1>10, <2>1 DEF Members
    <3> QED
      BY <3>1, <3>2, Zenon
  <2>2. CASE ~(h = g /\ poster # None)
    <3>1. generations'[h].poster = generations[h].poster /\ h \in DOMAIN generations
      BY <1>8, <2>2
    <3>2. PICK v \in Members(h) : variants[v].obj = generations[h].poster.source
      BY <1>14, <3>1, Zenon DEF GalleryInv, GalleryCoherent
    <3>3. v \in Members(h)' /\ variants'[v].obj = variants[v].obj
      BY <1>7, <1>10, <3>2 DEF Members
    <3> QED
      BY <3>1, <3>2, <3>3, Zenon
  <2> QED
    BY <2>1, <2>2, Zenon
<1>15. ASSUME NEW v \in DOMAIN variants', variants'[v].poster # None
       PROVE  variants'[v].poster.source = variants'[v].obj
  <2>1. CASE v = id
    <3>1. variants'[v].poster = PosterOf(r, o.obj) /\ variants'[v].obj = o.obj
      BY <1>5, <1>7, <2>1
    <3> QED
      BY <1>15, <3>1, PosterSource, Zenon
  <2>2. CASE v \in DOMAIN variants
    BY <1>10, <1>15, <2>2, Zenon DEF GalleryInv, GalleryCoherent
  <2> QED
    BY <1>7, <1>15, <2>1, <2>2, Zenon
<1>16. GalleryCoherent'
  BY <1>13, <1>14, <1>15, Zenon DEF GalleryCoherent
<1> QED
  BY <1>7, <1>8, <1>11, <1>12, <1>16, Zenon DEF g

(* generation.thumbnail.attach keeps the gallery coherent. *)
LEMMA AttachCoherent ==
  ASSUME GalleryInv, NEW t, NEW e, NEW r, Attach(t, e, r)
  PROVE  /\ GalleryRows' /\ GalleryCoherent' /\ DOMAIN generations' = DOMAIN generations
         /\ \A g \in DOMAIN generations : Moved(g)
<1> DEFINE g == e.target
           poster == PosterOf(r, e.object)
<1>1. PICK p \in Primary(g) :
        /\ Current(e) /\ variants[p].obj = e.object
        /\ generations' = [generations EXCEPT ![g] =
               [version |-> IF @.poster = poster THEN @.version ELSE @.version + 1,
                poster  |-> poster]]
        /\ UNCHANGED variants
  BY Zenon DEF Attach
<1>2. g \in DOMAIN generations /\ generations[g].version \in Nat
  BY <1>1 DEF Current, GalleryInv, GalleryRows
<1>3. p \in Members(g)
  BY <1>1, PrimaryMember
<1>4. generations = [h \in DOMAIN generations |-> generations[h]]
  BY Zenon DEF GalleryInv, GalleryRows
<1> HIDE DEF g, poster
<1>5. /\ DOMAIN generations' = DOMAIN generations
      /\ generations' = [h \in DOMAIN generations |-> generations'[h]]
      /\ \A h \in DOMAIN generations : h # g => generations'[h] = generations[h]
      /\ generations'[g].poster = poster
      /\ generations'[g].version = IF generations[g].poster = poster THEN generations[g].version
                                   ELSE generations[g].version + 1
  BY <1>1, <1>2, <1>4, Zenon
<1>6. GalleryRows'
  <2>1. \A h \in DOMAIN generations : generations'[h].version \in Nat
    BY <1>2, <1>5 DEF GalleryInv, GalleryRows
  <2> QED
    BY <1>1, <1>5, <2>1 DEF GalleryInv, GalleryRows
<1>7. \A h : Members(h)' = Members(h)
  BY <1>1 DEF Members
<1>8. ASSUME NEW h \in DOMAIN generations PROVE Moved(h)
  <2>1. CASE h = g /\ generations[g].poster # poster
    BY <1>2, <1>5, <2>1 DEF Moved
  <2>2. CASE h # g \/ generations[g].poster = poster
    <3>1. generations'[h].poster = generations[h].poster /\ generations'[h].version = generations[h].version
      BY <1>5, <2>2, Zenon
    <3>2. Picture(h)' = Picture(h)
      BY <1>1, <1>7, <3>1, PictureKept
    <3> QED
      BY <3>1, <3>2 DEF Moved, GalleryInv, GalleryRows
  <2> QED
    BY <2>1, <2>2, Zenon
<1>9. ASSUME NEW h \in DOMAIN generations', generations'[h].poster # None
      PROVE  \E v \in Members(h)' : variants'[v].obj = generations'[h].poster.source
  <2>1. CASE h = g
    <3>1. generations'[h].poster = poster /\ poster # None
      BY <1>5, <1>9, <2>1, Zenon
    <3>2. poster.source = e.object
      BY <3>1, PosterSource, Zenon DEF poster
    <3> QED
      BY <1>1, <1>3, <1>7, <2>1, <3>1, <3>2
  <2>2. CASE h # g
    <3>1. PICK v \in Members(h) : variants[v].obj = generations[h].poster.source
      BY <1>5, <1>9, <2>2, Zenon DEF GalleryInv, GalleryCoherent
    <3> QED
      BY <1>1, <1>5, <1>7, <1>9, <2>2, <3>1
  <2> QED
    BY <2>1, <2>2, Zenon
<1>10. GalleryCoherent'
  BY <1>1, <1>9, Zenon DEF GalleryInv, GalleryCoherent
<1> QED
  BY <1>5, <1>6, <1>8, <1>10, Zenon

(* What the rows of a step must satisfy, and how the rows it adds are named. *)
RowsStep ==
  /\ GalleryRows' /\ GalleryCoherent' /\ DOMAIN generations \subseteq DOMAIN generations'
  /\ \A g \in DOMAIN generations : Moved(g)

NewNames ==
  /\ \A g \in DOMAIN generations' :
       g \in DOMAIN generations \/ g[1] \notin Tasks \/ task'[g[1]].status = "completed"
  /\ \A v \in DOMAIN variants' :
       v \in DOMAIN variants \/ v[2] \notin Tasks \/ task'[v[2]].status = "completed"

(* A step of such rows preserves the invariant, unless it starts a task. *)
LEMMA RowsKeep ==
  ASSUME GalleryInv, RowsStep, NewNames, task' = [t \in Tasks |-> task'[t]],
         \A t \in Tasks : task[t].status = "completed" => task'[t].status = "completed",
         \A t \in Tasks : task'[t].status = "running" => task'[t] = task[t]
  PROVE  GalleryInv'
<1>1. NamesSettled'
  BY Zenon DEF NewNames, GalleryInv, NamesSettled
<1>2. TargetsKnown' /\ EffectsKnown'
  BY TasksStayKnown, ZenonT(40) DEF RowsStep
<1> QED
  BY <1>1, <1>2, Zenon DEF GalleryInv, RowsStep

(* The effects that a client may predeclare name what the gallery shows. *)
LEMMA AdmissibleKnown ==
  ASSUME GalleryInv, NEW e \in Admissible
  PROVE  /\ e.kind = "publish" => e.declared \in Declared
         /\ e.target # None =>
              /\ e.kind \in {"append", "attach"} /\ e.target \in DOMAIN generations
              /\ e.expected = generations[e.target].version
<1>1. CASE e \in {Effect("publish", None, 0, None, None, None, None, d) : d \in Declared}
  <2>1. PICK d \in Declared : e = Effect("publish", None, 0, None, None, None, None, d)
    BY <1>1, Zenon
  <2>2. e.declared = d /\ e.target = None
    BY <2>1, Zenon DEF Effect
  <2> QED
    BY <2>1, <2>2, Zenon
<1>2. CASE e \in {Effect("create", None, 0, None, None, None, None, {}) : o \in owned}
           \cup {Effect("project", None, project, None, None, None, None, {})}
  <2>1. \/ e = Effect("create", None, 0, None, None, None, None, {})
        \/ e = Effect("project", None, project, None, None, None, None, {})
    BY <1>2, Zenon
  <2>2. ASSUME NEW k, NEW n, e = Effect(k, None, n, None, None, None, None, {})
        PROVE  e.kind = k /\ e.target = None
    BY <2>2, Zenon DEF Effect
  <2>3. e.kind # "publish" /\ e.target = None
    BY <2>1, <2>2
  <2> QED
    BY <2>3, Zenon
<1>3. \A v \in DOMAIN variants : variants[v].gen \in DOMAIN generations
  BY Zenon DEF GalleryInv, GalleryRows
<1>4. CASE e \in {Effect("append", variants[v].gen, generations[variants[v].gen].version,
                         v, variants[v].obj, policy, type, {}) :
                      v \in {w \in DOMAIN variants : variants[w].obj \in owned},
                      policy \in {"preserve", "promote"}, type \in {"original", "upscaled"}}
  <2>1. PICK v \in DOMAIN variants, policy \in {"preserve", "promote"}, type \in {"original", "upscaled"} :
          e = Effect("append", variants[v].gen, generations[variants[v].gen].version,
                     v, variants[v].obj, policy, type, {})
    BY <1>4
  <2> QED
    BY <1>3, <2>1, Zenon DEF Effect
<1>5. CASE e \in {Effect("attach", variants[v].gen, generations[variants[v].gen].version,
                         None, variants[v].obj, None, None, {}) :
                      v \in {w \in DOMAIN variants : w \in Primary(variants[w].gen)}}
  <2>1. PICK v \in DOMAIN variants :
          e = Effect("attach", variants[v].gen, generations[variants[v].gen].version,
                     None, variants[v].obj, None, None, {})
    BY <1>5, Zenon
  <2> QED
    BY <1>3, <2>1, Zenon DEF Effect
<1> QED
  BY <1>1, <1>2, <1>4, <1>5 DEF Admissible

(* A generation looks the same while no row changes. *)
LEMMA PictureStill ==
  ASSUME UNCHANGED <<generations, variants>>
  PROVE  \A g : Picture(g)' = Picture(g) /\ Members(g)' = Members(g)
<1>0. generations' = generations /\ variants' = variants
  BY Zenon
<1> SUFFICES ASSUME NEW g PROVE Picture(g)' = Picture(g) /\ Members(g)' = Members(g)
  BY Zenon
<1>1. Members(g)' = Members(g)
  BY <1>0, Zenon DEF Members
<1>2. Explicit(g)' = Explicit(g) /\ Original(g)' = Original(g)
  BY <1>0, <1>1, Zenon DEF Explicit, Original
<1>3. Primary(g)' = Primary(g)
  BY <1>0, <1>1, <1>2 DEF Primary, Earliest
<1> QED
  BY <1>0, <1>1, <1>3, Zenon DEF Picture

(* A task that starts knows the generation it is about. *)
LEMMA AdmitKeeps ==
  ASSUME GalleryInv, NEW t \in Tasks, Admit(t)
  PROVE  GalleryInv'
<1>1. PICK e \in Admissible :
        task' = [task EXCEPT ![t] = [status |-> "running", effect |-> e,
                   seen |-> IF e.target = None THEN None ELSE Picture(e.target)]]
  BY Zenon DEF Admit
<1>2. UNCHANGED <<generations, variants>> /\ task[t].status = "none"
  BY Zenon DEF Admit
<1>3. /\ task' = [x \in Tasks |-> task'[x]] /\ \A x \in Tasks : x # t => task'[x] = task[x]
      /\ task'[t].status = "running" /\ task'[t].effect = e
      /\ e.target # None => task'[t].seen = Picture(e.target)
  BY <1>1 DEF GalleryInv
<1>4. /\ e.kind = "publish" => e.declared \in Declared
      /\ e.target # None =>
           /\ e.kind \in {"append", "attach"} /\ e.target \in DOMAIN generations
           /\ e.expected = generations[e.target].version
  BY AdmissibleKnown, ZenonT(40)
<1>5. \A g : Picture(g)' = Picture(g) /\ Members(g)' = Members(g)
  BY <1>2, PictureStill, Zenon
<1>6. GalleryRows' /\ GalleryCoherent'
  BY <1>2, <1>5 DEF GalleryInv, GalleryRows, GalleryCoherent
<1>7. NamesSettled'
  <2>1. \A x \in Tasks : task[x].status = "completed" => task'[x].status = "completed"
    BY <1>2, <1>3, Zenon
  <2> QED
    BY <1>2, <2>1, Zenon DEF GalleryInv, NamesSettled
<1>8. EffectsKnown'
  <2>1. ASSUME NEW x \in Tasks, task'[x].status = "running"
        PROVE  /\ task'[x].effect.kind = "publish" => task'[x].effect.declared \in Declared
               /\ task'[x].effect.target # None =>
                    /\ task'[x].effect.kind \in {"append", "attach"}
                    /\ task'[x].effect.target \in DOMAIN generations'
    <3>1. CASE x = t
      BY <1>2, <1>3, <1>4, <3>1, Zenon
    <3>2. CASE x # t
      BY <1>2, <1>3, <2>1, <3>2, Zenon DEF GalleryInv, EffectsKnown
    <3> QED
      BY <3>1, <3>2
  <2> QED
    BY <2>1, ZenonT(40) DEF EffectsKnown
<1>9. TargetsKnown'
  <2>1. ASSUME NEW x \in Tasks, NEW g \in DOMAIN generations', task'[x].status = "running",
               task'[x].effect.target = g, g # None
        PROVE  /\ task'[x].effect.expected \in Nat
               /\ task'[x].effect.expected <= generations'[g].version
               /\ task'[x].effect.expected = generations'[g].version => Picture(g)' = task'[x].seen
    <3>1. CASE x = t
      <4>1. /\ task'[x].effect.expected = generations[g].version /\ task'[x].seen = Picture(g)
            /\ g \in DOMAIN generations
        BY <1>2, <1>3, <1>4, <2>1, <3>1, Zenon
      <4>2. generations[g].version \in Nat
        BY <4>1, Zenon DEF GalleryInv, GalleryRows
      <4>3. generations[g].version <= generations[g].version
        BY <4>2
      <4>4. generations' = generations
        BY <1>2, Zenon
      <4> QED
        BY <1>5, <4>1, <4>2, <4>3, <4>4, ZenonT(40)
    <3>2. CASE x # t
      BY <1>2, <1>3, <1>5, <2>1, <3>2, ZenonT(40) DEF GalleryInv, TargetsKnown
    <3> QED
      BY <3>1, <3>2, ZenonT(40)
  <2> QED
    BY <2>1, Zenon DEF TargetsKnown
<1> QED
  BY <1>3, <1>6, <1>7, <1>8, <1>9, Zenon DEF GalleryInv

(* Rows that no step touches. *)
LEMMA RowsStill ==
  ASSUME GalleryInv, UNCHANGED <<generations, variants>>
  PROVE  RowsStep /\ NewNames
<1>1. \A g : Picture(g)' = Picture(g) /\ Members(g)' = Members(g)
  BY PictureStill, Zenon
<1>2. GalleryRows' /\ GalleryCoherent'
  BY <1>1 DEF GalleryInv, GalleryRows, GalleryCoherent
<1>3. ASSUME NEW g \in DOMAIN generations PROVE Moved(g)
  BY <1>1, Zenon DEF Moved, GalleryInv, GalleryRows
<1> QED
  BY <1>2, <1>3, Zenon DEF RowsStep, NewNames

(* Requests without a worker leave the tasks alone. *)
LEMMA TasksStill ==
  ASSUME GalleryInv, RowsStep, NewNames, UNCHANGED task
  PROVE  GalleryInv'
<1>1. task' = [t \in Tasks |-> task'[t]]
  BY DEF GalleryInv
<1> QED
  BY <1>1, RowsKeep, Zenon

(* A poster of the variant's own object. *)
LEMMA TouchedPoster ==
  ASSUME NEW v, NEW q, VariantRow(variants[v]),
         variants'[v] = [variants[v] EXCEPT !.poster = [obj |-> q, source |-> variants[v].obj]]
  PROVE  Touched(v)
<1> DEFINE row == variants[v]
           new == variants'[v]
           poster == [obj |-> q, source |-> row.obj]
<1>1. poster.source = row.obj
  OBVIOUS
<1>2. VariantRow(row) /\ new = [row EXCEPT !.poster = poster]
  BY Zenon
<1> HIDE DEF row, new, poster
<1>3. VariantRow(new) /\ new.poster = poster
  BY <1>2 DEF VariantRow
<1>4. \A f \in {"gen", "obj", "type", "at", "primary"} : new[f] = row[f]
  BY <1>2 DEF VariantRow
<1>5. new.obj = row.obj
  BY <1>4
<1> QED
  BY <1>1, <1>3, <1>4, <1>5, Zenon DEF Touched, row, new

(* A view. *)
LEMMA TouchedView ==
  ASSUME NEW v, VariantRow(variants[v]),
         variants[v].poster # None => variants[v].poster.source = variants[v].obj,
         variants'[v] = [variants[v] EXCEPT !.viewed = TRUE]
  PROVE  Touched(v)
<1> DEFINE row == variants[v]
           new == variants'[v]
<1>1. /\ VariantRow(row) /\ new = [row EXCEPT !.viewed = TRUE]
      /\ row.poster # None => row.poster.source = row.obj
  BY Zenon
<1> HIDE DEF row, new
<1>2. VariantRow(new)
  BY <1>1, Zenon DEF VariantRow
<1>3. \A f \in {"gen", "obj", "type", "at", "primary", "poster"} : new[f] = row[f]
  BY <1>1 DEF VariantRow
<1>4. new.poster # None => new.poster.source = new.obj
  BY <1>1, <1>3
<1> QED
  BY <1>2, <1>3, <1>4, Zenon DEF Touched, row, new

(* A settlement keeps the rows coherent, and names the rows it adds after   *)
(* its task.                                                                *)
LEMMA SettleKeeps ==
  ASSUME GalleryInv, NEW t \in Tasks, Settle(t)
  PROVE  GalleryInv'
<1> DEFINE e == task[t].effect
<1>1. task[t].status = "running" /\ task' = [task EXCEPT ![t] = [NoTask EXCEPT !.status = "completed"]]
  BY DEF Settle
<1>2. /\ task' = [x \in Tasks |-> task'[x]] /\ \A x \in Tasks : x # t => task'[x] = task[x]
      /\ task'[t].status = "completed"
  BY <1>1 DEF GalleryInv, NoTask
<1>3. PICK r \in Reports :
        \/ e.kind = "publish" /\ PublishGenerations(t, e, r)
        \/ e.kind = "create"  /\ CreateWithVariant(t, e, r)
        \/ e.kind = "append"  /\ Append(t, e, r)
        \/ e.kind = "attach"  /\ Attach(t, e, r)
        \/ e.kind = "project" /\ UpdateProject(t, e, r)
  BY Zenon DEF Settle
<1>4. RowsStep /\ NewNames
  <2>1. CASE e.kind = "publish" /\ PublishGenerations(t, e, r)
    <3>1. e.declared \in Declared
      BY <1>1, <2>1, Zenon DEF GalleryInv, EffectsKnown
    <3> DEFINE G == PublishedGenerations(t, e, r)
               V == PublishedVariants(t, e, r)
    <3>2. generations' = With(generations, G) /\ variants' = With(variants, V)
      BY <2>1, Zenon DEF PublishGenerations
    <3> HIDE DEF e
    <3>3. /\ NewRows(G, V) /\ \A g \in DOMAIN G : g[1] = t
          /\ \A v \in DOMAIN V : v[2] \notin Tasks
      BY <1>1, <3>1, PublishedRows, Zenon
    <3> HIDE DEF G, V
    <3>4. RowsStep
      BY <3>2, <3>3, Growth, Zenon DEF RowsStep
    <3>5. /\ DOMAIN generations' = DOMAIN generations \cup DOMAIN G
          /\ DOMAIN variants' = DOMAIN variants \cup DOMAIN V
      BY <3>2, Zenon DEF With
    <3>6. NewNames
      BY <1>2, <3>3, <3>5, Zenon DEF NewNames
    <3> QED
      BY <3>4, <3>6
  <2>2. CASE e.kind = "create" /\ CreateWithVariant(t, e, r)
    <3>1. PICK o \in r.media : Created(t, o.obj, PosterOf(r, o.obj))
      BY <2>2, Zenon DEF CreateWithVariant
    <3>2. <<t, "made">> \notin DOMAIN generations
      BY <1>1 DEF GalleryInv, NamesSettled
    <3>3. PICK obj, poster : Created(t, obj, poster) /\ (poster # None => poster.source = obj)
      <4>1. PosterOf(r, o.obj) # None => PosterOf(r, o.obj).source = o.obj
        BY PosterSource
      <4> QED
        BY <3>1, <4>1, Zenon
    <3>4. /\ RowsStep
          /\ DOMAIN generations' = DOMAIN generations \cup {<<t, "made">>}
          /\ DOMAIN variants' = DOMAIN variants \cup {<<<<t, "made">>, "initial">>}
      BY <3>2, <3>3, CreatedCoherent, Zenon DEF RowsStep
    <3>5. NewNames
      <4>1. \A g \in DOMAIN generations' \ DOMAIN generations : g[1] = t
        BY <3>4
      <4>2. \A v \in DOMAIN variants' \ DOMAIN variants : v[2] \notin Tasks
        BY <3>4, GalleryAssumption
      <4> QED
        BY <1>2, <4>1, <4>2, Zenon DEF NewNames
    <3> QED
      BY <3>4, <3>5
  <2>3. CASE e.kind = "append" /\ Append(t, e, r)
    <3> HIDE DEF e
    <3>1. /\ GalleryRows' /\ GalleryCoherent' /\ DOMAIN generations' = DOMAIN generations
          /\ \A g \in DOMAIN generations : Moved(g)
          /\ DOMAIN variants' = DOMAIN variants \cup {<<e.target, t>>}
      BY <1>1, <2>3, AppendCoherent, Zenon
    <3>2. \A v \in DOMAIN variants' \ DOMAIN variants : v[2] = t
      BY <3>1
    <3> QED
      BY <1>2, <3>1, <3>2, Zenon DEF RowsStep, NewNames
  <2>4. CASE e.kind = "attach" /\ Attach(t, e, r)
    <3> HIDE DEF e
    <3>1. /\ GalleryRows' /\ GalleryCoherent' /\ DOMAIN generations' = DOMAIN generations
          /\ \A g \in DOMAIN generations : Moved(g)
      BY <2>4, AttachCoherent, Zenon
    <3>2. UNCHANGED variants
      BY <2>4, Zenon DEF Attach
    <3> QED
      BY <3>1, <3>2, Zenon DEF RowsStep, NewNames
  <2>5. CASE e.kind = "project" /\ UpdateProject(t, e, r)
    <3>1. UNCHANGED <<generations, variants>>
      BY <2>5 DEF UpdateProject
    <3> QED
      BY <3>1, RowsStill, Zenon
  <2> QED
    BY <1>3, <2>1, <2>2, <2>3, <2>4, <2>5, Zenon
<1>5. \A x \in Tasks : task[x].status = "completed" => task'[x].status = "completed"
  BY <1>2, Zenon
<1>6. \A x \in Tasks : task'[x].status = "running" => task'[x] = task[x]
  BY <1>2
<1> QED
  BY <1>2, <1>4, <1>5, <1>6, RowsKeep, Zenon

(* Every step preserves the invariant. *)
LEMMA GalleryStep ==
  ASSUME GalleryInv, [GalleryNext]_galleryVars
  PROVE  GalleryInv'
<1>1. ASSUME NEW t \in Tasks, Admit(t) PROVE GalleryInv'
  BY <1>1, AdmitKeeps
<1>2. ASSUME NEW t \in Tasks, Settle(t) PROVE GalleryInv'
  BY <1>2, SettleKeeps
<1>3. ASSUME NEW t \in Tasks, Fail(t) PROVE GalleryInv'
  <2>1. /\ UNCHANGED <<generations, variants>> /\ task[t].status = "running"
        /\ task' = [task EXCEPT ![t] = [NoTask EXCEPT !.status = "failed"]]
    BY <1>3 DEF Fail
  <2>2. /\ task' = [x \in Tasks |-> task'[x]] /\ \A x \in Tasks : x # t => task'[x] = task[x]
        /\ task'[t].status = "failed"
    BY <2>1 DEF GalleryInv, NoTask
  <2>3. \A x \in Tasks : task[x].status = "completed" => task'[x].status = "completed"
    BY <2>1, <2>2
  <2>4. \A x \in Tasks : task'[x].status = "running" => task'[x] = task[x]
    BY <2>2
  <2> QED
    BY <2>1, <2>2, <2>3, <2>4, RowsStill, RowsKeep, Zenon
<1>4. ASSUME UNCHANGED <<generations, variants, task>> PROVE GalleryInv'
  BY <1>4, RowsStill, TasksStill, Zenon
<1>5. ASSUME NEW k \in Imports, Ingest(k) PROVE GalleryInv'
  BY <1>4, <1>5, Zenon DEF Ingest
<1>6. ASSUME NEW k \in Imports, Catalog(k) PROVE GalleryInv'
  <2>1. /\ UNCHANGED task /\ Created(k, imported[k], None)
        /\ <<k, "made">> \notin DOMAIN generations
    BY <1>6, Zenon DEF Catalog
  <2>2. /\ RowsStep
        /\ DOMAIN generations' = DOMAIN generations \cup {<<k, "made">>}
        /\ DOMAIN variants' = DOMAIN variants \cup {<<<<k, "made">>, "initial">>}
    BY <2>1, CreatedCoherent, Zenon DEF RowsStep
  <2>3. \A g \in DOMAIN generations' \ DOMAIN generations : g[1] \notin Tasks
    BY <2>2, GalleryAssumption
  <2>4. \A v \in DOMAIN variants' \ DOMAIN variants : v[2] \notin Tasks
    BY <2>2, GalleryAssumption
  <2>5. NewNames
    BY <2>3, <2>4, Zenon DEF NewNames
  <2> QED
    BY <2>1, <2>2, <2>5, TasksStill, Zenon
<1>7. ASSUME UNCHANGED <<generations, task>>, DOMAIN variants' = DOMAIN variants,
             variants' = [v \in DOMAIN variants |-> variants'[v]],
             \A v \in DOMAIN variants : Touched(v)
      PROVE  GalleryInv'
  <2>1. GalleryRows' /\ GalleryCoherent' /\ \A g \in DOMAIN generations : Moved(g)
    BY <1>7, TouchedCoherent, Zenon
  <2>2. RowsStep /\ NewNames
    BY <1>7, <2>1, Zenon DEF RowsStep, NewNames
  <2> QED
    BY <1>7, <2>2, TasksStill, Zenon
<1>8. ASSUME NEW v \in DOMAIN variants, NEW k \in Requests, AttachVariantThumbnail(v, k)
      PROVE  GalleryInv'
  <2>1. PICK q : variants' = [variants EXCEPT ![v].poster = [obj |-> q, source |-> variants[v].obj]]
    BY <1>8, Zenon DEF AttachVariantThumbnail
  <2>2. UNCHANGED <<generations, task>>
    BY <1>8, Zenon DEF AttachVariantThumbnail
  <2>3. /\ DOMAIN variants' = DOMAIN variants /\ variants' = [w \in DOMAIN variants |-> variants'[w]]
        /\ \A w \in DOMAIN variants : w # v => variants'[w] = variants[w]
        /\ variants'[v] = [variants[v] EXCEPT !.poster = [obj |-> q, source |-> variants[v].obj]]
    BY <2>1, Zenon DEF GalleryInv, GalleryRows
  <2>4. Touched(v)
    BY <2>3, TouchedPoster, Zenon DEF GalleryInv, GalleryRows
  <2>5. \A w \in DOMAIN variants : w # v => Touched(w)
    BY <2>3, Zenon DEF Touched, GalleryInv, GalleryRows, GalleryCoherent
  <2> QED
    BY <1>7, <2>2, <2>3, <2>4, <2>5, Zenon
<1>9. ASSUME NEW S, MarkViewed(S) PROVE GalleryInv'
  <2>1. /\ UNCHANGED <<generations, task>>
        /\ variants' = [v \in DOMAIN variants |->
                          IF v \in S THEN [variants[v] EXCEPT !.viewed = TRUE] ELSE variants[v]]
    BY <1>9, Zenon DEF MarkViewed
  <2>2. DOMAIN variants' = DOMAIN variants /\ variants' = [v \in DOMAIN variants |-> variants'[v]]
    BY <2>1
  <2>3. ASSUME NEW v \in DOMAIN variants PROVE Touched(v)
    <3>1. /\ VariantRow(variants[v])
          /\ variants[v].poster # None => variants[v].poster.source = variants[v].obj
      BY Zenon DEF GalleryInv, GalleryRows, GalleryCoherent
    <3>2. CASE variants'[v] = variants[v]
      BY <3>1, <3>2, Zenon DEF Touched
    <3>3. CASE variants'[v] = [variants[v] EXCEPT !.viewed = TRUE]
      BY <3>1, <3>3, TouchedView
    <3> QED
      BY <2>1, <3>2, <3>3
  <2> QED
    BY <1>7, <2>1, <2>2, <2>3, Zenon
<1>10. ASSUME NEW v, MarkVariantViewed(v) PROVE GalleryInv'
  BY <1>9, <1>10, Zenon DEF MarkVariantViewed
<1>11. ASSUME NEW g, MarkGenerationViewed(g) PROVE GalleryInv'
  BY <1>9, <1>11, Zenon DEF MarkGenerationViewed
<1>12. CASE UNCHANGED galleryVars
  BY <1>4, <1>12, Zenon DEF galleryVars
<1> QED
  BY <1>1, <1>2, <1>3, <1>5, <1>6, <1>8, <1>10, <1>11, <1>12, Zenon DEF GalleryNext

(* The gallery starts with one generation that predates primary markers. *)
LEMMA GalleryStarts ==
  GalleryInit => GalleryInv
<1> SUFFICES ASSUME GalleryInit PROVE GalleryInv
  OBVIOUS
<1>1. /\ generations = [g \in {OldGeneration} |-> [version |-> 1, poster |-> None]]
      /\ variants = Legacy /\ task = [t \in Tasks |-> NoTask]
  BY DEF GalleryInit
<1>2. /\ DOMAIN generations = {OldGeneration} /\ generations[OldGeneration].version = 1
      /\ generations[OldGeneration].poster = None
  BY <1>1, Zenon
<1>3. \A t \in Tasks : task[t].status = "none"
  BY <1>1, Zenon DEF NoTask
<1>4. OldGeneration[1] \notin Tasks
  BY GalleryAssumption, Zenon DEF OldGeneration
<1>5. ASSUME NEW v \in DOMAIN variants
      PROVE  /\ VariantRow(variants[v]) /\ variants[v].gen = OldGeneration /\ v[1] = OldGeneration
             /\ v[2] \notin Tasks /\ ~variants[v].primary /\ variants[v].poster = None
  <2>1. /\ variants[v].gen = OldGeneration /\ v[1] = OldGeneration
        /\ v[2] \notin Tasks /\ ~variants[v].primary /\ variants[v].poster = None
    BY <1>1, <1>5, GalleryAssumption, Zenon
  <2>2. VariantRow(variants[v])
    BY <1>1, <1>5, GalleryAssumption, Zenon DEF VariantRow
  <2> QED
    BY <2>1, <2>2
<1>6. GalleryRows
  <2>1. variants = [v \in DOMAIN variants |-> variants[v]]
    BY <1>1, GalleryAssumption, Zenon
  <2>2. generations = [g \in DOMAIN generations |-> generations[g]]
    BY <1>1, Zenon
  <2>3. \A g \in DOMAIN generations : generations[g].version \in Nat
    BY <1>2
  <2> QED
    BY <1>2, <1>5, <2>1, <2>2, <2>3, Zenon DEF GalleryRows
<1>7. NamesSettled
  BY <1>2, <1>4, <1>5, Zenon DEF NamesSettled
<1>8. GalleryCoherent
  BY <1>2, <1>5, Zenon DEF GalleryCoherent
<1>9. TargetsKnown /\ EffectsKnown
  BY <1>3 DEF TargetsKnown, EffectsKnown
<1> QED
  BY <1>1, <1>6, <1>7, <1>8, <1>9 DEF GalleryInv

(* The inductive invariant of the gallery. *)
THEOREM GalleryInvariant == GallerySpec => []GalleryInv
<1>1. GalleryInit => GalleryInv
  BY GalleryStarts
<1>2. GalleryInv /\ [GalleryNext]_galleryVars => GalleryInv'
  BY GalleryStep
<1> QED
  BY <1>1, <1>2, PTL DEF GallerySpec

(* For any tasks, reports and imports, settled in any order: no generation  *)
(* has two primary variants, and every poster was made from what it shows.  *)
THEOREM GalleryStaysCoherent == GallerySpec => []GalleryCoherent
<1>1. GalleryInv => GalleryCoherent
  BY DEF GalleryInv
<1> QED
  BY <1>1, GalleryInvariant, PTL

(* A settlement on an existing generation finds what its submitter saw.     *)
LEMMA SettledSeen ==
  ASSUME GalleryInv, [GalleryNext]_galleryVars, NEW t \in Tasks,
         task[t].status = "running", task'[t].status = "completed", task[t].effect.target # None
  PROVE  Picture(task[t].effect.target) = task[t].seen
<1> DEFINE e == task[t].effect
<1>1. Settle(t)
  <2>1. ASSUME NEW x \in Tasks, Admit(x) PROVE FALSE
    <3>1. task[x].status = "none" /\ x # t
      BY <2>1, Zenon DEF Admit
    <3>2. task'[t] = task[t]
      BY <2>1, <3>1 DEF Admit, GalleryInv
    <3> QED
      BY <3>2, Zenon
  <2>2. ASSUME NEW x \in Tasks, Fail(x) PROVE FALSE
    <3>1. task' = [task EXCEPT ![x] = [NoTask EXCEPT !.status = "failed"]]
      BY <2>2 DEF Fail
    <3> QED
      BY <3>1 DEF GalleryInv, NoTask
  <2>3. ASSUME NEW x \in Tasks, Settle(x), x # t PROVE FALSE
    <3>1. task' = [task EXCEPT ![x] = [NoTask EXCEPT !.status = "completed"]]
      BY <2>3 DEF Settle
    <3>2. task'[t] = task[t]
      BY <2>3, <3>1 DEF GalleryInv
    <3> QED
      BY <3>2
  <2>4. ~UNCHANGED task
    OBVIOUS
  <2> QED
    BY <2>1, <2>2, <2>3, <2>4, Zenon DEF GalleryNext, galleryVars, Ingest, Catalog, Created,
       AttachVariantThumbnail, MarkVariantViewed, MarkGenerationViewed, MarkViewed
<1>2. e.kind \in {"append", "attach"} /\ e.target \in DOMAIN generations
  BY Zenon DEF GalleryInv, EffectsKnown
<1>3. PICK r \in Reports : (e.kind = "append" /\ Append(t, e, r)) \/ (e.kind = "attach" /\ Attach(t, e, r))
  BY <1>1, <1>2 DEF Settle
<1>4. Current(e)
  BY <1>3, Zenon DEF Append, AppendOK, Attach
<1>5. PICK g : g = e.target
  OBVIOUS
<1>6. g \in DOMAIN generations /\ g # None /\ e.expected = generations[g].version
  BY <1>2, <1>4, <1>5, Zenon DEF Current
<1> QED
  BY <1>5, <1>6, Zenon DEF GalleryInv, TargetsKnown

(* A task that changes an existing generation settles on what its submitter *)
(* saw, whatever settled in between.                                        *)
THEOREM TasksSettleOnSeen == GallerySpec => SettledOnSeen
<1>1. GalleryInv /\ [GalleryNext]_galleryVars =>
        [\A t \in Tasks :
           task[t].status = "running" /\ task'[t].status = "completed"
           /\ task[t].effect.target # None
           => Picture(task[t].effect.target) = task[t].seen]_galleryVars
  BY SettledSeen, Zenon
<1> QED
  BY <1>1, GalleryInvariant, PTL DEF GallerySpec, SettledOnSeen
=============================================================================
