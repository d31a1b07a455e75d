---------------------------- MODULE RealmUpgrade ----------------------------
(***************************************************************************)
(* Offline maintenance of the realm database: runtime_protocol/upgrade.py. *)
(* upgrade_realm rebuilds a version 23 database beside the source and      *)
(* swaps it in; migrate_canonical_to_current changes the schema in one     *)
(* transaction; compact_idempotency_ledger vacuums into a new file and     *)
(* swaps that in.  All three run while owner.lock is held and no Runtime   *)
(* is.  A power cut may end them between any two file operations, and any  *)
(* operation may raise.                                                    *)
(*                                                                         *)
(* A database file is abstracted to the rows it holds.  "base" was written *)
(* and checkpointed long ago; "tail" is what a Runtime committed since,    *)
(* into the write-ahead log.  SQLite applies a log to the file beside it:  *)
(* the log of another file makes the database unreadable.                  *)
(***************************************************************************)
EXTENDS Naturals

VARIABLES
  db,        \* realm.sqlite3: the file it is and the rows in it
  wal,       \* realm.sqlite3-wal: the file it belongs to and the rows in it
  version,   \* the schema version of realm.sqlite3
  archive,   \* the rollback snapshot of the upgrade in progress
  kept,      \* the snapshots earlier upgrades left behind
  job,       \* the maintenance in progress, or how the last one ended
  lock,      \* the Runtime that holds owner.lock, 0 when none does
  committed  \* history: every row some writer was told is committed

maintenance == <<db, wal, version, archive, kept, job>>

Versions == {"v23", "older", "current"}
Kinds == {"upgrade", "migrate", "compact"}
Nothing == [of |-> "none", rows |-> {}]
NoArchive == [db |-> Nothing, wal |-> Nothing]
NoJob == [kind |-> "none", by |-> "nobody", pc |-> "idle"]

(* What a reader of a database file with this log beside it finds. *)
Rows(d, w) ==
  IF w = Nothing THEN d.rows
  ELSE IF w.of = d.of THEN d.rows \cup w.rows ELSE {}

JobAt(k, p) == job.kind = k /\ job.pc = p
JobGoto(p) == job' = [job EXCEPT !.pc = p]

(* SQLite merges the log into its database and removes it: a checkpoint,    *)
(* or the last connection's close.                                          *)
Merge ==
  /\ db' = [db EXCEPT !.rows = Rows(db, wal)]
  /\ wal' = Nothing

Maintaining == job.pc \notin {"idle", "ok", "failed"}

(* owner.lock: held by a Runtime or for the length of the maintenance. *)
Unowned == lock = 0 /\ ~Maintaining

(* _owner_fence: owner.lock, without waiting for it. *)
OwnerFence(k, m) ==
  /\ Unowned /\ job = NoJob
  /\ job' = [kind |-> k, by |-> m, pc |-> "start"]

(***************************************************************************)
(* upgrade_realm.                                                          *)
(***************************************************************************)

(* _archive_source copies the database and its sidecars.  *)
ArchiveSource ==
  /\ JobAt("upgrade", "start")
  /\ archive' = [db |-> db, wal |-> wal]
  /\ JobGoto("archived")
  /\ UNCHANGED <<db, wal, version, kept, lock, committed>>

(* _source_shape: only a version 23 layout is rebuilt; the canonical ones   *)
(* are migrated in place.                                                   *)
SourceShape == version = "v23"

(* _assert_snapshot_unchanged. *)
SnapshotUnchanged == db = archive.db /\ wal = archive.wal

(* _copy_shared: the shared tables of the archived source, row by row, into *)
(* an empty canonical database.                                             *)
Candidate == [of |-> "candidate", rows |-> Rows(archive.db, archive.wal)]

(* The shape, the integrity, the foreign keys and the confirmation of the   *)
(* source are checked on a copy, the candidate is built from that copy and  *)
(* validated, and the source is compared with the archive: a failure of any *)
(* of these leaves the source as it was and drops the archive.              *)
BuildCandidate ==
  /\ JobAt("upgrade", "archived")
  /\ \/ /\ SourceShape
        /\ SnapshotUnchanged
        /\ JobGoto("built")
        /\ UNCHANGED archive
     \/ /\ archive' = NoArchive
        /\ JobGoto("failed")
  /\ UNCHANGED <<db, wal, version, kept, lock, committed>>

(* _checkpoint_source_wal, and the manifest that says "validated". *)
CheckpointSourceWal ==
  /\ JobAt("upgrade", "built")
  /\ \/ Merge /\ JobGoto("merged")
     \/ UNCHANGED <<db, wal>> /\ JobGoto("rollback")
  /\ UNCHANGED <<version, archive, kept, lock, committed>>

(* The candidate, built from the archived rows, replaces the database. *)
ActivateCandidate ==
  /\ JobAt("upgrade", "merged")
  /\ \/ /\ db' = Candidate
        /\ version' = "current"
        /\ JobGoto("swapped")
     \/ /\ JobGoto("rollback")
        /\ UNCHANGED <<db, version>>
  /\ UNCHANGED <<wal, archive, kept, lock, committed>>

(* The directory is flushed and the manifest says "activated": then the    *)
(* temporary archive goes.                                                 *)
ConfirmActivation ==
  /\ JobAt("upgrade", "swapped")
  /\ \/ archive' = NoArchive /\ JobGoto("ok")
     \/ JobGoto("rollback") /\ UNCHANGED archive
  /\ UNCHANGED <<db, wal, version, kept, lock, committed>>

(* Mutant: a rollback that fails removes its snapshot like one that worked. *)
RollbackFailsBare ==
  /\ job.kind = "upgrade" /\ job.pc \in {"rollback", "restored"}
  /\ archive' = NoArchive
  /\ JobGoto("failed")
  /\ UNCHANGED <<db, wal, version, kept, lock, committed>>

(* "Keep the only rollback image if restoration itself fails." *)
RollbackFails ==
  /\ job.kind = "upgrade" /\ job.pc \in {"rollback", "restored"}
  /\ kept' = kept \cup {archive}
  /\ archive' = NoArchive
  /\ JobGoto("failed")
  /\ UNCHANGED <<db, wal, version, lock, committed>>

(* The database is restored from the archive first, ... *)
RollbackDatabase ==
  /\ JobAt("upgrade", "rollback")
  /\ db' = archive.db
  /\ version' = "v23"
  /\ JobGoto("restored")
  /\ UNCHANGED <<wal, archive, kept, lock, committed>>

(* ... then its sidecars; then the archive is dropped. *)
RollbackSidecars ==
  /\ JobAt("upgrade", "restored")
  /\ wal' = archive.wal
  /\ archive' = NoArchive
  /\ JobGoto("failed")
  /\ UNCHANGED <<db, version, kept, lock, committed>>

(***************************************************************************)
(* migrate_canonical_to_current: every step in one transaction.            *)
(***************************************************************************)

(* _canonical_schema_identity: a known version with exactly its layout. *)
CanonicalSchema == version = "older"

(* A realm that is current already is answered without the fence; version  *)
(* 23 and what the migration does not know are refused before it.          *)
Migrate ==
  /\ JobAt("migrate", "start")
  /\ \/ CanonicalSchema /\ version' = "current" /\ JobGoto("ok")
     \/ version' = version /\ JobGoto("failed")
  /\ Merge
  /\ UNCHANGED <<archive, kept, lock, committed>>

(***************************************************************************)
(* compact_idempotency_ledger.                                             *)
(***************************************************************************)

(* The expired results and the retired task specifications are rewritten   *)
(* in one transaction, the log is merged and removed, and the database is  *)
(* vacuumed into a file of its own, which is verified.                     *)
CompactInto ==
  /\ JobAt("compact", "start")
  /\ \/ version = "current" /\ JobGoto("vacuumed")
     \/ JobGoto("failed")
  /\ Merge
  /\ UNCHANGED <<version, archive, kept, lock, committed>>

(* durable_replace of the database by the vacuumed file. *)
CompactSwap ==
  /\ JobAt("compact", "vacuumed")
  /\ \/ db' = [db EXCEPT !.of = "compacted"] /\ JobGoto("ok")
     \/ db' = db /\ JobGoto("failed")
  /\ UNCHANGED <<wal, version, archive, kept, lock, committed>>

JobStep ==
  \/ ArchiveSource \/ BuildCandidate \/ CheckpointSourceWal \/ ActivateCandidate
  \/ ConfirmActivation \/ RollbackFails \/ RollbackDatabase \/ RollbackSidecars
  \/ Migrate
  \/ CompactInto \/ CompactSwap

(* A power cut, or the end of the process that runs the maintenance: the   *)
(* file system keeps what it has, and the lock is free again.              *)
JobCut ==
  /\ kept' = IF archive = NoArchive THEN kept ELSE kept \cup {archive}
  /\ archive' = NoArchive
  /\ job' = NoJob

(***************************************************************************)
(* Every row a writer was told is committed can be read from the realm's   *)
(* database, or, after an upgrade was cut short, from the snapshot it kept:*)
(* no order of file operations, failures and power cuts leaves the rows of *)
(* the log behind, applies them to another file or drops the only copy.    *)
(***************************************************************************)
RowsRecoverable ==
  \/ committed \subseteq Rows(db, wal)
  \/ \E a \in kept \cup {archive} : committed \subseteq Rows(a.db, a.wal)
=============================================================================
