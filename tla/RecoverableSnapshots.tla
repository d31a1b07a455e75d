------------------------ MODULE RecoverableSnapshots ------------------------
(***************************************************************************)
(* Drafts that a delegated child commits while it runs.  They are charged  *)
(* to the parent's attempt, which froze the limits in its policy, and they *)
(* outlive both attempts.  A worker whose reply was lost publishes again,  *)
(* with the same idempotency key or with another one, perhaps after its    *)
(* lease or its parent's has ended.                                        *)
(***************************************************************************)
EXTENDS Integers, FiniteSetsExt

CONSTANTS
    Children,         \* attempts of delegated children
    ParentOf,         \* [Children -> the parent's attempt]
    SnapshotKeys,     \* idempotency keys
    Revisions,        \* revision numbers a child may publish
    Sizes,            \* sizes in bytes
    MaxSnapshots,     \* the parent's limits
    MaxBytes,
    MaxSnapshotBytes

VARIABLES
    authority,        \* the attempts, of children and parents, whose lease is live
    snapshots,        \* committed: [child, revision, size, key]
    aliases           \* replays that were recorded under another key

(* Limits, sizes and revision numbers are numbers.                         *)
ASSUME SnapshotAssumption ==
    /\ Revisions \subseteq Nat /\ Sizes \subseteq Nat
    /\ MaxSnapshots \in Nat /\ MaxBytes \in Nat /\ MaxSnapshotBytes \in Nat

snapshotVars == <<authority, snapshots, aliases>>

Published(c) == {s \in snapshots : s.child = c}

(* Mutant: only the snapshots of the child itself are charged.             *)
ChargedOwn(c) == Published(c)

(* Everything committed under the parent's attempt, whatever became of the *)
(* children.                                                               *)
Charged(c) == {s \in snapshots : ParentOf[s.child] = ParentOf[c]}

Bytes(S) == MapThenSumSet(LAMBDA s : s.size, S)

WithinLimits(c, size) ==
    /\ size <= MaxSnapshotBytes
    /\ Cardinality(Charged(c)) < MaxSnapshots
    /\ Bytes(Charged(c)) + size <= MaxBytes

(* The key has no receipt of this child: otherwise the call is a replay or *)
(* a conflict, and changes nothing.                                        *)
FreshKey(c, k) == \A s \in snapshots \cup aliases : <<s.child, s.key>> # <<c, k>>

(* The revision was committed under another key: the same request gets the *)
(* first result and its key is bound to it, even after authority ended.    *)
PublishAgain(c, k, revision, size) ==
    /\ FreshKey(c, k)
    /\ \E s \in Published(c) : s.revision = revision /\ s.size = size
    /\ aliases' = aliases \cup {[child |-> c, revision |-> revision, size |-> size, key |-> k]}
    /\ UNCHANGED <<authority, snapshots>>

PublishSnapshot(c, k, revision, size) ==
    /\ FreshKey(c, k)
    /\ {c, ParentOf[c]} \subseteq authority
    /\ \A s \in Published(c) : s.revision < revision
    /\ WithinLimits(c, size)
    /\ snapshots' = snapshots \cup {[child |-> c, revision |-> revision, size |-> size, key |-> k]}
    /\ UNCHANGED <<authority, aliases>>

(* A child or the parent settles, fails, or loses its lease.               *)
EndAttempt(x) ==
    /\ x \in authority
    /\ authority' = authority \ {x}
    /\ UNCHANGED <<snapshots, aliases>>

SnapshotInit ==
    /\ authority = Children \cup {ParentOf[c] : c \in Children}
    /\ snapshots = {} /\ aliases = {}

SnapshotNext ==
    \/ \E c \in Children, k \in SnapshotKeys, n \in Revisions, size \in Sizes :
           PublishAgain(c, k, n, size) \/ PublishSnapshot(c, k, n, size)
    \/ \E x \in authority : EndAttempt(x)

SnapshotSpec == SnapshotInit /\ [][SnapshotNext]_snapshotVars

(* The children of a parent together stay within its limits, a revision of *)
(* a child is committed and charged once, and every replay that was bound  *)
(* to another key answers with a snapshot that is there.                   *)
SnapshotsMetered ==
    /\ \A c \in Children :
           LET family == {s \in snapshots : ParentOf[s.child] = ParentOf[c]}
           IN  Cardinality(family) <= MaxSnapshots /\ Bytes(family) <= MaxBytes
    /\ \A s, z \in snapshots : s.child = z.child /\ s.revision = z.revision => s = z
    /\ \A a \in aliases : \E s \in snapshots :
           s.child = a.child /\ s.revision = a.revision /\ s.size = a.size
=============================================================================
