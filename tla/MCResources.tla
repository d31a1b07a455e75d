---------------------------- MODULE MCResources ----------------------------
(***************************************************************************)
(* The project's media: generations and variants, the managed outputs they *)
(* come from, exports and drafts.  The four parts share no variable, so    *)
(* each is explored by itself from an initial state of its own.            *)
(***************************************************************************)
EXTENDS Gallery, ManagedOutputs, OutputExport, RecoverableSnapshots, TLC

VARIABLE part    \* the part that takes steps

CONSTANTS t1, t2, k1, a, b, c, w, pa, pb

Key(g, v) == <<g, v>>
Sel(g, v, n, req) == [key |-> Key(g, v), rank |-> n, required |-> req]
Out(g, v, o, prim) == [key |-> Key(g, v), obj |-> o, primary |-> prim]
Poster(o, srcs) == [obj |-> o, of |-> srcs]

(* a and b are images, c is a video, w has a type of no known family.      *)
MCFamily == [o \in {a, b, c, w} |-> IF o = c THEN "video" ELSE IF o = w THEN None ELSE "image"]

(* An all-or-nothing group of two, and two groups of which one may be      *)
(* missing.                                                                *)
MCDeclared ==
    {{Sel("x", "alt", 1, TRUE), Sel("x", "original", 2, TRUE)},
     {Sel("x", "alt", 1, FALSE), Sel("y", "alt", 2, FALSE)}}

MCReports ==
    {[media |-> {Out("x", "alt", a, FALSE), Out("x", "original", b, FALSE)},
      posters |-> {Poster(pa, {a})}],
     [media |-> {Out("x", "alt", a, TRUE), Out("y", "alt", b, FALSE)},
      posters |-> {Poster(pa, {a}), Poster(pb, {b})}],
     [media |-> {Out("x", "alt", a, FALSE)}, posters |-> {Poster(pa, {a, b})}],
     [media |-> {Out("x", "alt", b, TRUE)}, posters |-> {Poster(pb, {b})}],
     [media |-> {Out("x", "alt", c, FALSE)}, posters |-> {}],
     [media |-> {}, posters |-> {Poster(pa, {a})}],
     [media |-> {}, posters |-> {Poster(pb, {b})}]}

OldVariant(o, type, n) ==
    [gen |-> OldGeneration, obj |-> o, type |-> type, primary |-> FALSE,
     poster |-> None, at |-> n, viewed |-> FALSE]

MCLegacy ==
    [v \in {<<OldGeneration, "first">>, <<OldGeneration, "second">>} |->
        IF v[2] = "first" THEN OldVariant(a, "upscaled", 1) ELSE OldVariant(b, "original", 2)]

(* Tasks, renders and clients differ in nothing but their names.           *)
ResourceSymmetry ==
    Permutations(Tasks) \cup Permutations(Renders) \cup Permutations(Clients)

MCUploaded == {a, b}

-----------------------------------------------------------------------------
CONSTANTS r1, r2, old, c1, c2, s1, s2, parent, e1, e2

Output(o, name, type, published, durable) ==
    [obj |-> o, name |-> name, type |-> type, published |-> published, durable |-> durable]

MCOutputs ==
    {Output("d1", "cut.mp4", Generic, FALSE, TRUE), Output("d1", "cut.mp4", Generic, TRUE, TRUE),
     Output("d1", "still.png", Generic, FALSE, TRUE), Output("d1", "cut.mp4", "video/mp4", TRUE, TRUE),
     Output("d2", "cut.mp4", "video/mp4", FALSE, FALSE), Output("d2", "raw", Generic, FALSE, TRUE)}

(* A render that settled before associations existed.                      *)
MCHistorical == [t \in {old} |-> Output("d2", "cut.mp4", "video/mp4", FALSE, TRUE)]

MCInfer ==
    [n \in {"cut.mp4", "still.png", "raw"} |->
        IF n = "cut.mp4" THEN "video/mp4" ELSE IF n = "still.png" THEN "image/png" ELSE Unknown]

(* Two outputs with the same file name, one with its own.                  *)
MCFileName == [x \in {"a1", "a2", "a3"} |-> IF x = "a3" THEN "still.png" ELSE "cut.mp4"]

MCParentOf == [x \in {s1, s2} |-> parent]

ResourcesInit ==
    /\ part \in {"gallery", "outputs", "exports", "drafts"}
    /\ GalleryInit /\ OutputInit /\ ExportInit /\ SnapshotInit

ResourcesNext ==
    /\ UNCHANGED part
    /\ \/ part = "gallery" /\ GalleryNext /\ UNCHANGED <<outputVars, exportVars, snapshotVars>>
       \/ part = "outputs" /\ OutputNext /\ UNCHANGED <<galleryVars, exportVars, snapshotVars>>
       \/ part = "exports" /\ ExportNext /\ UNCHANGED <<galleryVars, outputVars, snapshotVars>>
       \/ part = "drafts" /\ SnapshotNext /\ UNCHANGED <<galleryVars, outputVars, exportVars>>

ResourcesSpec ==
    ResourcesInit /\ [][ResourcesNext]_<<part, galleryVars, outputVars, exportVars, snapshotVars>>
=============================================================================
