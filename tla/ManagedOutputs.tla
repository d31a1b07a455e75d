--------------------------- MODULE ManagedOutputs ---------------------------
(***************************************************************************)
(* Associations of settled outputs with their tasks, their lifecycle rows, *)
(* and the two offline tools that rewrite them: the migration that adds    *)
(* associations to renders which predate them, and the repair of generic   *)
(* media types.  Clients read a lifecycle and act on it later.  A          *)
(* reference stands for the association of an output and, when the output  *)
(* was published, for the generation variant with the same name and type.  *)
(* Bytes are not modelled: both tools verify them and skip on a mismatch.  *)
(***************************************************************************)
EXTENDS Integers, FiniteSetsExt

CONSTANTS
    Renders,         \* tasks that may settle
    Outputs,         \* what they may report: [obj, name, type, published, durable]
    Historical,      \* task -> output, settled before associations existed
    Infer,           \* file name -> the media type of its suffix, or Unknown
    Videos,          \* the video media types
    Clients,
    MaxUpdates,      \* bound: lifecycle updates
    Unknown

VARIABLES
    serving,         \* the owner runs: the offline tools are refused
    mediaType,       \* object -> media type
    settled,         \* task -> its output
    refs,            \* association id -> [task, obj, name, type]
    life,            \* association id -> [state, version, pinned, lease]
    views            \* [Clients -> the lifecycle it read, or Unknown]

(* Unknown, for a lease or a view, is no lease.                            *)
ASSUME UnknownAssumption == Unknown \notin [id : Clients \cup {"unnamed"}, live : BOOLEAN]

outputVars == <<serving, mediaType, settled, refs, life, views>>

Generic == "application/octet-stream"

Clip == "clip/visual"

Put(f, x, y) == [z \in DOMAIN f \cup {x} |-> IF z = x THEN y ELSE f[z]]

(* The id derives from the task, the output's key and its generation: it   *)
(* differs for an output that was published in one.                        *)
AssociationId(t, published) == <<t, published>>

NewLifecycle(state) == [state |-> state, version |-> 1, pinned |-> FALSE, lease |-> Unknown]

Reference(t, o) == [task |-> t, obj |-> o.obj, name |-> o.name, type |-> o.type]

(* Settling refuses an object that is known under another type.            *)
SettleOutput(t) ==
    /\ serving /\ t \notin DOMAIN settled
    /\ \E o \in Outputs :
          LET id == AssociationId(t, o.published)
          IN  /\ o.obj \in DOMAIN mediaType => mediaType[o.obj] = o.type
              /\ mediaType' = Put(mediaType, o.obj, o.type)
              /\ settled' = Put(settled, t, o)
              /\ refs' = Put(refs, id, Reference(t, o))
              /\ life' = Put(life, id, NewLifecycle(IF o.durable THEN "available" ELSE "temporary"))
    /\ UNCHANGED <<serving, views>>

-----------------------------------------------------------------------------
(* Lifecycle                                                               *)

ReadLifecycle(c, id) ==
    /\ serving /\ views[c] = Unknown
    /\ views' = [views EXCEPT ![c] = [id |-> id, row |-> life[id]]]
    /\ UNCHANGED <<serving, mediaType, settled, refs, life>>

LeaseActive(row) == row.lease # Unknown /\ row.lease.live

(* A request may name a lease, its own, or none.                           *)
LeaseMine(row, asked) == LeaseActive(row) /\ asked # Unknown => asked = row.lease.id

Protected(row) == row.pinned \/ LeaseActive(row)

Gone(row) == row.state \in {"expired", "reclaimed"}

Lease(c, row, asked) ==
    /\ ~Gone(row) /\ LeaseMine(row, asked)
    /\ life' = [life EXCEPT ![views[c].id] = [row EXCEPT !.version = @ + 1,
           !.lease = [id |-> IF asked # Unknown THEN asked
                             ELSE IF row.lease # Unknown THEN row.lease.id ELSE "unnamed",
                      live |-> TRUE]]]

ChangeLifecycle(c, row, allowed, new) ==
    /\ allowed
    /\ life' = [life EXCEPT ![views[c].id] = [new EXCEPT !.version = row.version + 1]]

Updates == MapThenSumSet(LAMBDA id : life[id].version - 1, DOMAIN life)

(* Mutant: the version the client read is not compared.                    *)
UnchangedSinceAny(c) == TRUE

UnchangedSince(c) == life[views[c].id].version = views[c].row.version

UpdateLifecycle(c, asked) ==
    /\ serving /\ views[c] # Unknown
    /\ UnchangedSince(c) /\ Updates < MaxUpdates
    /\ LET row == life[views[c].id]
       IN  \/ Lease(c, row, asked)
           \/ ChangeLifecycle(c, row, LeaseMine(row, asked), [row EXCEPT !.lease = Unknown])
           \/ ChangeLifecycle(c, row, ~Gone(row), [row EXCEPT !.pinned = TRUE])
           \/ ChangeLifecycle(c, row, TRUE, [row EXCEPT !.pinned = FALSE])
           \/ ChangeLifecycle(c, row, row.state = "temporary" /\ ~Protected(row),
                     [row EXCEPT !.state = "expired"])
           \/ ChangeLifecycle(c, row, row.state = "expired" /\ ~Protected(row),
                     [row EXCEPT !.state = "reclaimed", !.lease = Unknown])
           \/ ChangeLifecycle(c, row, row.state \in {"available", "temporary"},
                     [row EXCEPT !.state = "promoted", !.lease = Unknown])
    /\ views' = [views EXCEPT ![c] = Unknown]
    /\ UNCHANGED <<serving, mediaType, settled, refs>>

(* The request conflicts, or is never sent.                                *)
GiveUp(c) ==
    /\ views[c] # Unknown
    /\ views' = [views EXCEPT ![c] = Unknown]
    /\ UNCHANGED <<serving, mediaType, settled, refs, life>>

(* Time passes a lease's deadline.                                         *)
LeaseLapses(id) ==
    /\ LeaseActive(life[id])
    /\ life' = [life EXCEPT ![id].lease.live = FALSE]
    /\ UNCHANGED <<serving, mediaType, settled, refs, views>>

-----------------------------------------------------------------------------
(* Offline tools, behind the owner fence                                   *)

StartOrStop ==
    /\ serving' = ~serving
    /\ views' = [c \in Clients |-> Unknown]
    /\ UNCHANGED <<mediaType, settled, refs, life>>

VideoOutput(o) == Infer[o.name] \in Videos /\ o.type \in Videos \cup {Clip}

(* Settled video outputs without the association of an unpublished output. *)
HistoricalCandidates ==
    {t \in DOMAIN settled :
        LET o == settled[t]
        IN  /\ AssociationId(t, FALSE) \notin DOMAIN refs
            /\ VideoOutput(o)
            /\ o.obj \in DOMAIN mediaType => mediaType[o.obj] = o.type}

(* One transaction for the candidates of one task or of all.  The schema   *)
(* admits one association per output of a task, so a published one among   *)
(* them fails them all.                                                    *)
MigrateHistorical(scope) ==
    LET found == HistoricalCandidates \cap scope
    IN  /\ ~serving /\ found # {}
        /\ \A t \in found : AssociationId(t, TRUE) \notin DOMAIN refs
        /\ \A t, u \in found :
               settled[t].obj = settled[u].obj => settled[t].type = settled[u].type
        /\ mediaType' = [o \in DOMAIN mediaType \cup {settled[t].obj : t \in found} |->
               IF o \in DOMAIN mediaType THEN mediaType[o]
               ELSE (CHOOSE x \in {settled[t] : t \in found} : x.obj = o).type]
        /\ refs' = [id \in DOMAIN refs \cup {AssociationId(t, FALSE) : t \in found} |->
               IF id \in DOMAIN refs THEN refs[id] ELSE Reference(id[1], settled[id[1]])]
        /\ life' = [id \in DOMAIN life \cup {AssociationId(t, FALSE) : t \in found} |->
               IF id \in DOMAIN life THEN life[id] ELSE NewLifecycle("available")]
        /\ UNCHANGED <<serving, settled, views>>

ReferencesOf(o) == {id \in DOMAIN refs : refs[id].obj = o}

(* The type of the managed file name's suffix.                             *)
Inferred(id) == Infer[refs[id].name]

(* What a reference says its object is.                                    *)
Resolved(id) == IF refs[id].type \in {Generic, Clip} THEN Inferred(id) ELSE refs[id].type

(* The references in scope that ask for a repair of o.                     *)
Asking(o, scope) ==
    {id \in ReferencesOf(o) \cap scope : refs[id].type = Generic /\ Inferred(id) # Unknown}

(* An object is repaired when the generic references in scope agree on a   *)
(* type and no reference, in scope or not, says another.                   *)
Repairable(o, scope, type) ==
    /\ Asking(o, scope) # {} /\ \A id \in Asking(o, scope) : Inferred(id) = type
    /\ mediaType[o] \in {Generic, type}
    /\ \A id \in ReferencesOf(o) : Resolved(id) = type

(* Every reference of a repaired object is rewritten, in scope or not.     *)
Retyped(o, scope) == ReferencesOf(o)

RepairTypes(scope) ==
    LET type(o)  == {y \in {Inferred(id) : id \in scope} : Repairable(o, scope, y)}
        repaired == {o \in DOMAIN mediaType : type(o) # {}}
    IN  /\ ~serving /\ repaired # {}
        /\ mediaType' = [o \in DOMAIN mediaType |->
               IF o \in repaired THEN CHOOSE y \in type(o) : TRUE ELSE mediaType[o]]
        /\ refs' = [id \in DOMAIN refs |->
               LET o == refs[id].obj
               IN  IF o \in repaired /\ id \in Retyped(o, scope) /\ refs[id].type = Generic
                   THEN [refs[id] EXCEPT !.type = CHOOSE y \in type(o) : TRUE]
                   ELSE refs[id]]
        /\ UNCHANGED <<serving, settled, life, views>>

-----------------------------------------------------------------------------
OutputInit ==
    /\ serving = TRUE
    /\ mediaType = [o \in {} |-> Generic]
    /\ settled = Historical
    /\ refs = [id \in {} |-> Unknown]
    /\ life = [id \in {} |-> Unknown]
    /\ views = [c \in Clients |-> Unknown]

OutputNext ==
    \/ \E t \in Renders : SettleOutput(t)
    \/ \E c \in Clients, id \in DOMAIN life : ReadLifecycle(c, id)
    \/ \E c \in Clients : GiveUp(c) \/ \E asked \in {c, Unknown} : UpdateLifecycle(c, asked)
    \/ \E id \in DOMAIN life : LeaseLapses(id)
    \/ StartOrStop \/ MigrateHistorical(DOMAIN settled) \/ RepairTypes(DOMAIN refs)
    \/ \E t \in DOMAIN settled :
           \/ MigrateHistorical({t})
           \/ RepairTypes({id \in DOMAIN refs : refs[id].task = t})

OutputSpec == OutputInit /\ [][OutputNext]_outputVars

(* A lifecycle changes only by a client that read it as it is, but for a   *)
(* lease that has lapsed since: two clients with the same version never    *)
(* both succeed, so none undoes a pin or a lease it has not seen.          *)
LifecycleOnSeen ==
    [][\A id \in DOMAIN life :
          life'[id].version # life[id].version =>
              \E c \in Clients :
                  /\ views[c] # Unknown /\ views'[c] = Unknown /\ views[c].id = id
                  /\ views[c].row.state = life[id].state
                  /\ views[c].row.pinned = life[id].pinned
                  /\ (views[c].row.lease = Unknown) = (life[id].lease = Unknown)]_outputVars
=============================================================================
