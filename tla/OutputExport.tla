---------------------------- MODULE OutputExport ----------------------------
(***************************************************************************)
(* Copying a managed output to the export folder, which the user also      *)
(* writes.  The file is linked inside the transaction that records the     *)
(* export, so a crash or a failed commit leaves a file without a record    *)
(* and the retry finds its name taken.  Names are pairs: <<file name, 0>>, *)
(* and <<association, n>> for the n-th fallback name of an association.    *)
(***************************************************************************)
EXTENDS Integers, FiniteSetsExt

CONSTANTS
    Retained,        \* the associations that may be exported
    FileName,        \* [Retained -> the managed file name]
    ExportKeys,      \* idempotency keys
    MaxUserFiles,    \* bound: files the user puts there
    MaxAborts,       \* bound: exports that die or roll back
    NoExport

VARIABLES
    folder,          \* name -> the association whose bytes it holds, or "user"
    exports,         \* recorded: [assoc, key, file]
    exporting,       \* the export in progress, under the store's mutex
    saved,           \* the names the user saved files under
    aborts

exportVars == <<folder, exports, exporting, saved, aborts>>

Plain(a) == <<FileName[a], 0>>

(* The first fallback name that is free.                                   *)
CollisionSafe(a) ==
    <<a, Min({n \in 1..(Cardinality(DOMAIN folder) + 1) : <<a, n>> \notin DOMAIN folder})>>

Destination(a) == IF Plain(a) \in DOMAIN folder THEN CollisionSafe(a) ELSE Plain(a)

(* A recorded key is answered from its receipt.                            *)
BeginExport(a, k) ==
    /\ exporting = NoExport
    /\ \A e \in exports : <<e.assoc, e.key>> # <<a, k>>
    /\ exporting' = [assoc |-> a, key |-> k, file |-> Destination(a), linked |-> FALSE]
    /\ UNCHANGED <<folder, exports, saved, aborts>>

(* Mutant: the staged file is renamed over the destination.                *)
MaterializeOver ==
    /\ exporting # NoExport /\ ~exporting.linked
    /\ folder' = [n \in DOMAIN folder \cup {exporting.file} |->
                     IF n = exporting.file THEN exporting.assoc ELSE folder[n]]
    /\ exporting' = [exporting EXCEPT !.linked = TRUE]
    /\ UNCHANGED <<exports, saved, aborts>>

(* The link fails when the name has been taken since it was chosen; then   *)
(* another one is chosen.                                                  *)
Materialize ==
    /\ exporting # NoExport /\ ~exporting.linked
    /\ \/ /\ exporting.file \notin DOMAIN folder
          /\ folder' = [n \in DOMAIN folder \cup {exporting.file} |->
                           IF n = exporting.file THEN exporting.assoc ELSE folder[n]]
          /\ exporting' = [exporting EXCEPT !.linked = TRUE]
       \/ /\ exporting.file \in DOMAIN folder
          /\ exporting' = [exporting EXCEPT !.file = CollisionSafe(exporting.assoc)]
          /\ UNCHANGED folder
    /\ UNCHANGED <<exports, saved, aborts>>

RecordExport ==
    /\ exporting # NoExport /\ exporting.linked
    /\ exports' = exports \cup {[assoc |-> exporting.assoc, key |-> exporting.key,
                                 file |-> exporting.file]}
    /\ exporting' = NoExport
    /\ UNCHANGED <<folder, saved, aborts>>

(* The process dies, or the transaction fails: the link stays.             *)
AbortExport ==
    /\ exporting # NoExport /\ aborts < MaxAborts
    /\ exporting' = NoExport
    /\ aborts' = aborts + 1
    /\ UNCHANGED <<folder, exports, saved>>

(* The user saves a file of their own under any free name.                 *)
UserSaves(n) ==
    /\ n \notin DOMAIN folder
    /\ Cardinality(saved) < MaxUserFiles
    /\ saved' = saved \cup {n}
    /\ folder' = [m \in DOMAIN folder \cup {n} |-> IF m = n THEN "user" ELSE folder[m]]
    /\ UNCHANGED <<exports, exporting, aborts>>

ExportInit ==
    /\ folder = [n \in {} |-> "user"]
    /\ exports = {} /\ exporting = NoExport /\ saved = {} /\ aborts = 0

ExportNext ==
    \/ \E a \in Retained, k \in ExportKeys : BeginExport(a, k)
    \/ Materialize \/ RecordExport \/ AbortExport
    \/ \E n \in {Plain(a) : a \in Retained} \cup {<<a, 1>> : a \in Retained} : UserSaves(n)

ExportSpec == ExportInit /\ [][ExportNext]_exportVars

(* The file of a recorded export holds the bytes of its association and is *)
(* the file of no other export, and what the user saved is still there:    *)
(* although associations share file names, the user takes a name between   *)
(* its choice and the link, and exports die after the link.                *)
ExportHonest ==
    /\ \A e \in exports : e.file \in DOMAIN folder /\ folder[e.file] = e.assoc
    /\ \A e, f \in exports : e.file = f.file => e = f
    /\ \A n \in saved : folder[n] = "user"
=============================================================================
