-------------------------- MODULE MCCasPublication --------------------------
(* A small instance of CasPublication.                                      *)
EXTENDS CasPublication, TLC

CONSTANTS a, b, c, d, d1, d2, p1, p2

(* One publication of each kind: an upload and a settlement of the same     *)
(* bytes; the settlement also refers to bytes it does not carry, which a    *)
(* text and the snapshot of another project's task publish.                 *)
AllOp == {a, b, c, d}
AllKind == a :> "ingest" @@ b :> "settlement" @@ c :> "snapshot" @@ d :> "text"
AllEntries == a :> {d1} @@ b :> {d1, d2} @@ c :> {d2} @@ d :> {d2}
AllData == [AllEntries EXCEPT ![b] = {d1}]
AllProject == a :> NoProject @@ b :> p1 @@ c :> p2 @@ d :> p1
=============================================================================
