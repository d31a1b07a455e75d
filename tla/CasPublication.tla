--------------------------- MODULE CasPublication ---------------------------
(***************************************************************************)
(* Publication of bytes into the content-addressed store (CAS).  A file    *)
(* appears at its digest before the SQLite transaction that references it  *)
(* commits, so a journal outside SQLite names the digests first; a failed  *)
(* or interrupted publication is reconciled from the journals, by the      *)
(* operation itself and again when the process starts.                     *)
(*                                                                         *)
(* Four operations publish: ingest (an upload), settlement (the outputs of *)
(* an attempt), text (a shot text binding) and snapshot (the inline        *)
(* snapshot of a task being created).  All but the upload's staging and    *)
(* its check for an existing file happen under the store mutex; a process  *)
(* crash can come between any two file-system steps or before the commit.  *)
(***************************************************************************)
EXTENDS Naturals

CONSTANTS
  Op,         \* publications, each tried once
  NoOp,       \* the mutex is free
  Digest,     \* SHA-256 digests
  Kind,       \* Kind[o]: which operation o is
  Entries,    \* Entries[o]: the digests o publishes or references
  Data,       \* Data[o]: the ones o carries bytes for
  Project,    \* Project[o]: the project o is for
  NoProject,  \* project_id NULL or "unscoped"
  MaxRestart  \* bound on crashes

KindSet == {"ingest", "settlement", "text", "snapshot"}

ASSUME OpAssumption == NoOp \notin Op
ASSUME KindAssumption == Kind \in [Op -> KindSet]
ASSUME EntriesAssumption ==
  /\ Entries \in [Op -> SUBSET Digest] /\ Data \in [Op -> SUBSET Digest]
  /\ \A o \in Op : Data[o] \subseteq Entries[o] /\ Entries[o] # {}
  /\ \A o \in Op : Kind[o] # "settlement" => Data[o] = Entries[o] /\ \E d \in Digest : Entries[o] = {d}
ASSUME RestartAssumption == MaxRestart \in Nat

VARIABLES
  cas,        \* digests with a file in the CAS; a file always has the right bytes
  objects,    \* digests with a committed row in objects
  links,      \* committed rows of project_objects
  completed,  \* settlements whose task is completed with their outputs as result
  journal,    \* journal[o]: the digests o's journal file names, {} if there is none
  upload,     \* operations with a file under staging/uploads
  pc,         \* where o is
  seen,       \* seen[o]: what existing_identity found before o took the mutex
  mutex,      \* the operation that holds store._mutex
  todo,       \* what that operation has still to publish
  published,  \* the destinations it created
  restarts

files == <<cas, journal, upload>>
database == <<objects, links, completed>>
locals == <<todo, published>>
vars == <<files, database, pc, seen, mutex, locals, restarts>>

Stage == {"idle", "staged", "verified", "journal", "publish", "commit", "committed",
          "undo", "done", "failed"}
Identity == {"none", "same", "changed"}

(* The state has the declared types. *)
TypeOK ==
  /\ cas \subseteq Digest /\ objects \subseteq Digest
  /\ links \subseteq ({Project[o] : o \in Op} \ {NoProject}) \X Digest
  /\ completed \subseteq {o \in Op : Kind[o] = "settlement"}
  /\ upload \subseteq {o \in Op : Kind[o] = "ingest"}
  /\ journal \in [Op -> SUBSET Digest]
  /\ pc \in [Op -> Stage] /\ seen \in [Op -> Identity]
  /\ mutex \in Op \cup {NoOp}
  /\ todo \subseteq Digest /\ published \subseteq Digest
  /\ restarts \in 0..MaxRestart

Init ==
  /\ cas = {} /\ objects = {} /\ links = {} /\ completed = {}
  /\ journal = [o \in Op |-> {}] /\ upload = {}
  /\ pc = [o \in Op |-> "idle"] /\ seen = [o \in Op |-> "none"]
  /\ mutex = NoOp /\ todo = {} /\ published = {}
  /\ restarts = 0

Goto(o, s) == pc' = [pc EXCEPT ![o] = s]

Release == mutex' = NoOp /\ todo' = {} /\ published' = {}

(* file_identity holds the inode and its change time, so a token taken      *)
(* before a file is unlinked never matches the file that replaces it.       *)
Forget(gone) ==
  seen' = [o \in Op |-> IF seen[o] = "same" /\ Entries[o] \cap gone # {} THEN "changed" ELSE seen[o]]

-----------------------------------------------------------------------------
(* Uploads before the mutex: stage, then existing_identity.                 *)

StageUpload(o) ==
  /\ pc[o] = "idle" /\ Kind[o] = "ingest"
  /\ upload' = upload \cup {o}
  /\ Goto(o, "staged")
  /\ UNCHANGED <<cas, journal, database, seen, mutex, locals, restarts>>

(* While the operation under the mutex publishes, it still drops a second   *)
(* link from the file it made, which changes the file's change time.        *)
Unsettled(d) == d \in published /\ pc[mutex] = "publish"

ExistingIdentity(o) ==
  /\ pc[o] = "staged"
  /\ \E s \in Identity :
       /\ (s = "none") = (Entries[o] \cap cas = {})
       /\ s = "changed" => \E d \in Entries[o] : Unsettled(d)
       /\ seen' = [seen EXCEPT ![o] = s]
  /\ Goto(o, "verified")
  /\ UNCHANGED <<files, database, mutex, locals, restarts>>

(* The upload is refused, or its connection lost, before it takes the mutex. *)
Refuse(o) ==
  /\ pc[o] \in {"staged", "verified"}
  /\ upload' = upload \ {o}
  /\ Goto(o, "failed")
  /\ UNCHANGED <<cas, journal, database, seen, mutex, locals, restarts>>

-----------------------------------------------------------------------------
(* Under the mutex.                                                         *)

Acquire(o) ==
  /\ mutex = NoOp
  /\ pc[o] = IF Kind[o] = "ingest" THEN "verified" ELSE "idle"
  /\ mutex' = o
  /\ Goto(o, "journal")
  /\ UNCHANGED <<files, database, seen, locals, restarts>>

(* _stage_outputs: an output without bytes must be in the store, and the    *)
(* task's project must own an object that has a row, unless no project does *)
(* and the upload's receipt authorises it (or not: then it is an Abort).    *)
Owned(o, d) == <<Project[o], d>> \in links \/ \A q \in Op : <<Project[q], d>> \notin links

StageOutputs(o) ==
  /\ Entries[o] \ Data[o] \subseteq cas
  /\ Project[o] # NoProject =>
       \A d \in Entries[o] : IF d \in objects THEN Owned(o, d) ELSE d \in Data[o]

(* The entries an operation writes to the store.  text and snapshot reuse a *)
(* digest that has a row, text also one that has a file.                    *)
ToPublish(o) ==
  {d \in Entries[o] : /\ Kind[o] \in {"text", "snapshot"} => d \notin objects
                      /\ Kind[o] = "text" => d \notin cas}

(* ... and the ones it journals first: an upload unless it saw the file     *)
(* before the mutex, a settlement what it carries and finds no file for.    *)
ToJournal(o) ==
  {d \in ToPublish(o) \cap Data[o] : /\ Kind[o] = "ingest" => seen[o] = "none"
                                     /\ Kind[o] = "settlement" => d \notin cas}

(* _begin_cas_publication_journal and journal_snapshot_publication *)
BeginJournal(o) ==
  /\ pc[o] = "journal"
  /\ Kind[o] = "settlement" => StageOutputs(o)
  /\ journal' = [journal EXCEPT ![o] = ToJournal(o)]
  /\ todo' = ToPublish(o)
  /\ Goto(o, "publish")
  /\ UNCHANGED <<cas, upload, database, seen, mutex, published, restarts>>

(* An upload deduplicates only against the file existing_identity verified; *)
(* the other operations verify the file they find under the mutex.          *)
Reusable(o) == Kind[o] = "ingest" => seen[o] = "same"

Publish(o, d) ==
  /\ pc[o] = "publish" /\ d \in todo
  /\ \/ d \notin cas /\ cas' = cas \cup {d} /\ published' = published \cup {d}
     \/ d \in cas /\ Reusable(o) /\ UNCHANGED <<cas, published>>
  /\ todo' = todo \ {d}
  /\ UNCHANGED <<journal, upload, database, pc, seen, mutex, restarts>>

(* An upload drops its staging link before the transaction. *)
Discard(o) ==
  /\ pc[o] = "publish" /\ todo = {}
  /\ upload' = upload \ {o}
  /\ Goto(o, "commit")
  /\ UNCHANGED <<cas, journal, database, seen, mutex, locals, restarts>>

Linked(o) == IF Project[o] = NoProject THEN {} ELSE {Project[o]} \X Entries[o]

(* Except for a render task, create_task has no transaction around the      *)
(* snapshot: its objects row commits on its own.                            *)
SnapshotRow(o) ==
  /\ pc[o] = "commit" /\ Kind[o] = "snapshot"
  /\ objects' = objects \cup Entries[o]
  /\ UNCHANGED <<files, links, completed, pc, seen, mutex, locals, restarts>>

(* The transaction commits.  Task creation is no durable mutation: it       *)
(* leaves its journal to the next one.                                      *)
Commit(o) ==
  /\ pc[o] = "commit"
  /\ objects' = objects \cup Entries[o]
  /\ links' = links \cup Linked(o)
  /\ completed' = IF Kind[o] = "settlement" THEN completed \cup {o} ELSE completed
  /\ IF Kind[o] = "snapshot" THEN Goto(o, "done") /\ Release
                             ELSE Goto(o, "committed") /\ UNCHANGED <<mutex, locals>>
  /\ UNCHANGED <<files, seen, restarts>>

(* The journal file may be complete when writing it still reports an error. *)
JournalFails(o) == journal' = journal \/ journal' = [journal EXCEPT ![o] = ToJournal(o)]

(* Any step under the mutex may fail, the commit included, and SQLite rolls *)
(* back.  A settlement unlinks the destinations it created, as far as it    *)
(* can (_discard_staged_outputs).  Task creation, and an upload whose       *)
(* journal could not be written, leave without recovering.                  *)
Abort(o) ==
  /\ pc[o] \in {"journal", "publish", "commit"}
  /\ IF pc[o] = "journal" THEN JournalFails(o) ELSE UNCHANGED journal
  /\ \E gone \in SUBSET published :
       /\ Kind[o] # "settlement" => gone = {}
       /\ cas' = cas \ gone
       /\ Forget(gone)
  /\ upload' = upload \ {o}
  /\ IF Kind[o] = "snapshot" \/ (Kind[o] = "ingest" /\ pc[o] = "journal")
     THEN Goto(o, "failed") /\ Release
     ELSE Goto(o, "undo") /\ UNCHANGED <<mutex, locals>>
  /\ UNCHANGED <<database, restarts>>

-----------------------------------------------------------------------------
(* _recover_cas_publication_journals                                        *)

(* _publication_committed *)
Committed(o) ==
  /\ journal[o] \subseteq objects
  /\ Project[o] # NoProject => {Project[o]} \X journal[o] \subseteq links
  /\ Kind[o] = "settlement" => o \in completed

(* Mutant: every entry of an uncommitted journal goes. *)
RollBackAll == UNION {journal[o] : o \in {p \in Op : ~Committed(p)}}

(* The files of uncommitted journals, but for those another operation has   *)
(* since committed a row for.                                               *)
RollBack == (UNION {journal[o] : o \in {p \in Op : ~Committed(p)}}) \ objects

(* Mutant: the journal goes even when a file could not be unlinked. *)
RecoverOnce(stuck, kept) ==
  /\ cas' = cas \ (RollBack \ stuck)
  /\ journal' = [o \in Op |-> IF o \in kept THEN journal[o] ELSE {}]
  /\ Forget(RollBack \ stuck)

(* Mutant: only the journals of committed publications are handled. *)
RecoverCommitted(stuck, kept) ==
  /\ journal' = [o \in Op |-> IF o \in kept \/ ~Committed(o) THEN journal[o] ELSE {}]
  /\ Forget({})
  /\ UNCHANGED cas

(* A file that cannot be unlinked (stuck) keeps its journal, and so does a  *)
(* journal that cannot be read or removed (kept).  A crash in the middle    *)
(* leaves the rest undone, which is one of these outcomes.                  *)
Recover(stuck, kept) ==
  /\ cas' = cas \ (RollBack \ stuck)
  /\ journal' = [o \in Op |->
       IF o \in kept \/ (~Committed(o) /\ journal[o] \cap RollBack \cap stuck # {})
       THEN journal[o] ELSE {}]
  /\ Forget(RollBack \ stuck)

RecoverSome == \E stuck \in SUBSET RollBack, kept \in SUBSET Op : Recover(stuck, kept)

RecoverJournals(o) ==
  /\ pc[o] \in {"committed", "undo"}
  /\ RecoverSome
  /\ Goto(o, IF pc[o] = "committed" THEN "done" ELSE "failed")
  /\ Release
  /\ UNCHANGED <<upload, database, restarts>>

(* Any other durable mutation recovers after its transaction too. *)
OtherMutation ==
  /\ mutex = NoOp
  /\ RecoverSome
  /\ UNCHANGED <<upload, database, pc, mutex, locals, restarts>>

(* The process dies and starts again: it recovers the journals and sweeps   *)
(* the abandoned uploads before it serves.                                  *)
Restart ==
  /\ restarts < MaxRestart /\ restarts' = restarts + 1
  /\ RecoverSome
  /\ upload' = {}
  /\ pc' = [o \in Op |-> IF pc[o] \in {"idle", "done"} THEN pc[o] ELSE "failed"]
  /\ Release
  /\ UNCHANGED database

(* A retry of the task takes its result away. *)
RetryTask(o) ==
  /\ mutex = NoOp /\ o \in completed
  /\ completed' = completed \ {o}
  /\ UNCHANGED <<files, objects, links, pc, seen, mutex, locals, restarts>>

Proceed(o) ==
  \/ ExistingIdentity(o) \/ BeginJournal(o) \/ (\E d \in Digest : Publish(o, d))
  \/ Discard(o) \/ Commit(o) \/ Abort(o) \/ RecoverJournals(o)

Step(o) ==
  Proceed(o) \/ StageUpload(o) \/ Acquire(o) \/ Refuse(o) \/ SnapshotRow(o) \/ RetryTask(o)

Next == Restart \/ OtherMutation \/ \E o \in Op : Step(o)

Spec == Init /\ [][Next]_vars

(* Operations under the mutex end, durable mutations keep coming, and not   *)
(* every attempt to unlink a file fails.                                    *)
CleanMutation == mutex = NoOp /\ Recover({}, {}) /\ UNCHANGED <<upload, database, pc, mutex, locals, restarts>>

FairSpec == Spec /\ (\A o \in Op : WF_vars(Proceed(o))) /\ SF_vars(CleanMutation)

-----------------------------------------------------------------------------
(* A committed objects row always has its file: neither the roll-back of a  *)
(* failed publication of the same bytes, nor a stale journal found after a  *)
(* crash or after the task was retried, removes it.                         *)
ObjectsBacked == objects \subseteq cas

(* An upload that found the file before it had the mutex does not journal;  *)
(* when that file is then rolled back, its own copy is the one file that no *)
(* journal may name.                                                        *)
Unjournaled(d) == \E o \in Op : Kind[o] = "ingest" /\ d \in Entries[o] /\ seen[o] = "changed"

(* Every other file without a row is named by a journal until it is gone or *)
(* referenced, whatever fails or crashes.                                   *)
OrphansAccounted == \A d \in cas \ objects : Unjournaled(d) \/ \E o \in Op : d \in journal[o]

(* ... and such a file is eventually referenced or removed. *)
OrphansCleared ==
  \A d \in Digest : (d \in cas \ objects) ~> (d \notin cas \/ d \in objects \/ Unjournaled(d))

=============================================================================
