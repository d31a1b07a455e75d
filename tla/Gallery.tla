------------------------------ MODULE Gallery ------------------------------
(***************************************************************************)
(* The generations of one project and their variants: media that completed *)
(* tasks published.  A task is admitted with a settlement effect (store.py *)
(* create_task) and the effect is applied, or refused, in the transaction  *)
(* that settles its attempt (_settle_attempt).  Between the two any number *)
(* of other tasks settle, so an effect on an existing generation carries   *)
(* the version its submitter read.  Posters (thumbnails) are generated     *)
(* from one object each and may arrive with the media, in a task of their  *)
(* own, or by a direct request; a file may be imported without a worker.   *)
(* Leases and fences are those of TaskLedger: here a task settles once.    *)
(***************************************************************************)
EXTENDS Integers, FiniteSets

CONSTANTS
    Tasks,       \* the tasks that may be admitted
    Imports,     \* the idempotency keys of media imports
    Media,       \* creative objects
    Posters,     \* image/jpeg objects
    Family,      \* [Media -> media family, None when it is unknown]
    Uploaded,    \* the objects the project holds at the start
    Declared,    \* sets of selectors that publish effects declare
    Reports,     \* the outputs that workers report
    Requests,    \* idempotency keys of direct poster requests
    MaxRequests, \* bound: direct poster requests
    MaxViews,    \* bound: variants that are viewed one by one
    Legacy,      \* variants of the generation that predates is_primary
    MaxVersion,  \* bound: tasks on a generation of a higher version are not admitted
    None

VARIABLES
    generations, \* id -> [version, poster]
    variants,    \* id -> [gen, obj, type, primary, poster, at, viewed]
    owned,       \* project_objects of the project
    project,     \* the version of the project row
    task,        \* [Tasks -> [status, effect, seen]]
    imported,    \* [Imports -> the object of its committed ingest, or None]
    receipts     \* direct poster requests that were recorded

galleryVars == <<generations, variants, owned, project, task, imported, receipts>>

OldGeneration == <<None, "old">>

(* A selector has the key of the output it takes, its rank in the effect,  *)
(* and whether the output is required; a key is a group and a variant.     *)
(* The ids the model gives to variants, a generation with a key, a task or *)
(* "initial", do not collide, as the ids the code generates do not.        *)
ASSUME GalleryAssumption ==
    /\ \A d \in Declared : \A a, b \in d : a.rank = b.rank => a = b
    /\ \A d \in Declared : \A a, b \in d : a.key = b.key => a = b
    /\ \A d \in Declared : \A a \in d : a.key = <<a.key[1], a.key[2]>> /\ a.rank \in Nat
    /\ \A r \in Reports : \A a, b \in r.media : a.key = b.key => a = b
    /\ \A r \in Reports : \A a \in r.media : a.obj \in Media
    /\ \A r \in Reports : \A p \in r.posters : p.obj \in Posters /\ p.of \subseteq Media
    /\ \A v \in DOMAIN Legacy :
           /\ Legacy[v].gen = OldGeneration /\ ~Legacy[v].primary
           /\ Legacy[v].poster = None /\ Legacy[v].obj \in Uploaded
           /\ Legacy[v] = [gen |-> Legacy[v].gen, obj |-> Legacy[v].obj, type |-> Legacy[v].type,
                            primary |-> Legacy[v].primary, poster |-> Legacy[v].poster,
                            at |-> Legacy[v].at, viewed |-> Legacy[v].viewed]
    /\ DOMAIN Legacy # {} /\ Legacy = [v \in DOMAIN Legacy |-> Legacy[v]]
    /\ None \notin Tasks \cup Imports \cup Media \cup Posters
    /\ Tasks \cap Imports = {}
    /\ \A v \in DOMAIN Legacy : v[1] = OldGeneration /\ v[2] \notin Tasks
    /\ \A d \in Declared : \A a \in d : a.key[2] \notin Tasks
    /\ "initial" \notin Tasks

Group(s) == s.key[1]

-----------------------------------------------------------------------------
(* Reading a generation.                                                   *)

Members(g) == {v \in DOMAIN variants : variants[v].gen = g}

Explicit(g) == {v \in Members(g) : variants[v].primary}

Original(g) == {v \in Members(g) : variants[v].type = "original"}

Earliest(S) == {v \in S : \A w \in S : variants[v].at <= variants[w].at}

(* The variant that represents g: the explicit one, else the first         *)
(* original, else the first.  Several explicit ones are a conflict.        *)
Primary(g) ==
    IF \E v, w \in Explicit(g) : v # w THEN {}
    ELSE Earliest(IF Explicit(g) # {} THEN Explicit(g)
                  ELSE IF Original(g) # {} THEN Original(g) ELSE Members(g))

(* What a client that read g knows of it: history, for SettledOnSeen.      *)
Picture(g) == [primary |-> Primary(g), poster |-> generations[g].poster, members |-> Members(g)]

-----------------------------------------------------------------------------
(* Posters among the outputs of a report.                                  *)

(* Every poster is of admitted objects, and no object has two.             *)
PostersOK(r, allowed) ==
    /\ \A p \in r.posters : p.of # {} /\ p.of \subseteq allowed
    /\ \A p, q \in r.posters : p # q => p.of \cap q.of = {}

(* Mutant: the first poster of the report is taken for any object.         *)
PosterOfAny(r, o) ==
    IF \E p \in r.posters : TRUE
    THEN LET p == CHOOSE p \in r.posters : TRUE
         IN  [obj |-> p.obj, source |-> CHOOSE s \in p.of : TRUE]
    ELSE None

PosterOf(r, o) ==
    IF \E p \in r.posters : o \in p.of
    THEN [obj |-> (CHOOSE p \in r.posters : o \in p.of).obj, source |-> o]
    ELSE None

-----------------------------------------------------------------------------
(* generation.publish_v1                                                   *)

Chosen(e, r) ==
    {x \in [sel : e.declared, out : r.media] : x.sel.key = x.out.key}

OfGroup(S, grp) == {x \in S : Group(x.sel) = grp}

(* The outputs that may be the primary one: the flagged, else originals,   *)
(* else all; the first in the effect's order is.                           *)
PrimaryOutput(S) ==
    LET flagged   == {x \in S : x.out.primary}
        originals == {x \in S : x.sel.key[2] = "original"}
        from      == IF flagged # {} THEN flagged ELSE IF originals # {} THEN originals ELSE S
    IN  {x \in from : \A y \in from : x.sel.rank <= y.sel.rank}

RequiredPresent(e, chosen) ==
    /\ \A s \in e.declared : s.required => \E x \in chosen : x.sel = s
    /\ chosen # {}

PublishOK(e, r) ==
    LET chosen == Chosen(e, r)
    IN  /\ RequiredPresent(e, chosen)
        /\ PostersOK(r, {x.out.obj : x \in chosen})
        /\ \A x, y \in chosen :
               Group(x.sel) = Group(y.sel) /\ x.out.primary /\ y.out.primary => x = y

(* The rows of the settlement: a generation per group that has outputs.    *)
PublishedGenerations(t, e, r) ==
    LET chosen == Chosen(e, r)
    IN  [g \in {<<t, Group(x.sel)>> : x \in chosen} |->
            LET first == PrimaryOutput(OfGroup(chosen, g[2]))
            IN  [version |-> 1,
                 poster  |-> IF first = {} THEN None
                             ELSE PosterOf(r, (CHOOSE x \in first : TRUE).out.obj)]]

PublishedVariants(t, e, r) ==
    LET chosen == Chosen(e, r)
        Row(v) == CHOOSE x \in chosen : x.sel.key = <<v[1][2], v[2]>>
    IN  [v \in {<<<<t, x.sel.key[1]>>, x.sel.key[2]>> : x \in chosen} |->
            [gen |-> v[1], obj |-> Row(v).out.obj, type |-> v[2],
             primary |-> Row(v) \in PrimaryOutput(OfGroup(chosen, v[1][2])),
             poster |-> PosterOf(r, Row(v).out.obj), at |-> Row(v).sel.rank,
             viewed |-> FALSE]]

With(f, h) == [x \in DOMAIN f \cup DOMAIN h |-> IF x \in DOMAIN h THEN h[x] ELSE f[x]]

PublishGenerations(t, e, r) ==
    /\ PublishOK(e, r)
    /\ generations' = With(generations, PublishedGenerations(t, e, r))
    /\ variants' = With(variants, PublishedVariants(t, e, r))
    /\ UNCHANGED project

-----------------------------------------------------------------------------
(* generation.create_with_variant                                          *)

(* The new generation's single variant is its explicit primary.            *)
Created(t, o, poster) ==
    /\ generations' = With(generations,
           [g \in {<<t, "made">>} |-> [version |-> 1, poster |-> poster]])
    /\ variants' = With(variants,
           [v \in {<<<<t, "made">>, "initial">>} |->
               [gen |-> <<t, "made">>, obj |-> o, type |-> "original", primary |-> TRUE,
                poster |-> poster, at |-> 1, viewed |-> FALSE]])
    /\ UNCHANGED project

CreateWithVariant(t, e, r) ==
    \E o \in r.media :
        /\ r.media = {o}
        /\ PostersOK(r, {o.obj})
        /\ Created(t, o.obj, PosterOf(r, o.obj))

-----------------------------------------------------------------------------
(* generation.variant.append and generation.thumbnail.attach               *)

(* Mutant: the effect is applied to the generation as it is now.           *)
CurrentAny(e) ==
    /\ e.target \in DOMAIN generations
    /\ e.object \in owned

(* The target still has the version that the submitter read.               *)
Current(e) ==
    /\ e.target \in DOMAIN generations
    /\ generations[e.target].version = e.expected
    /\ e.object \in owned

(* A variant is of the media family of its source, and both are known.     *)
SameFamily(source, o) == Family[source] # None /\ Family[o] = Family[source]

AppendOK(e, r, o, p) ==
    /\ Current(e)
    /\ e.source \in Members(e.target) /\ variants[e.source].obj = e.object
    /\ r.media = {o}
    /\ SameFamily(e.object, o.obj)
    /\ PostersOK(r, {o.obj, variants[p].obj})

(* A promotion first clears every explicit marker of the generation.       *)
Demoted(g) ==
    [v \in DOMAIN variants |->
        IF v \in Members(g) THEN [variants[v] EXCEPT !.primary = FALSE] ELSE variants[v]]

(* The poster of the generation may be replaced by one of its primary at   *)
(* the time; that of the appended variant is kept with the variant.        *)
Append(t, e, r) ==
    \E o \in r.media, p \in Primary(e.target) :
        /\ AppendOK(e, r, o, p)
        /\ LET poster == PosterOf(r, variants[p].obj)
               rows   == IF e.policy = "promote" THEN Demoted(e.target) ELSE variants
               new    == [gen |-> e.target, obj |-> o.obj, type |-> e.type,
                          primary |-> e.policy = "promote", poster |-> PosterOf(r, o.obj),
                          at |-> Cardinality(Members(e.target)) + 1, viewed |-> FALSE]
           IN  /\ generations' = [generations EXCEPT ![e.target] =
                       [version |-> @.version + 1,
                        poster  |-> IF poster = None THEN @.poster ELSE poster]]
               /\ variants' = With(rows, [v \in {<<e.target, t>>} |-> new])
               /\ UNCHANGED project

(* A poster task replaces the poster of the generation; the version moves  *)
(* only when the poster is another one.                                    *)
Attach(t, e, r) ==
    \E p \in Primary(e.target), q \in r.posters :
        /\ Current(e) /\ variants[p].obj = e.object
        /\ r.media = {} /\ r.posters = {q}
        /\ PostersOK(r, {e.object})
        /\ LET poster == PosterOf(r, e.object)
           IN  generations' = [generations EXCEPT ![e.target] =
                   [version |-> IF @.poster = poster THEN @.version ELSE @.version + 1,
                    poster  |-> poster]]
        /\ UNCHANGED <<variants, project>>

UpdateProject(t, e, r) ==
    /\ project = e.expected
    /\ project' = project + 1
    /\ UNCHANGED <<generations, variants>>

-----------------------------------------------------------------------------
(* Tasks                                                                   *)

NoTask == [status |-> "none", effect |-> None, seen |-> None]

Effect(kind, target, expected, source, object, policy, type, declared) ==
    [kind |-> kind, target |-> target, expected |-> expected, source |-> source,
     object |-> object, policy |-> policy, type |-> type, declared |-> declared]

(* The effects that a client may predeclare after reading the gallery.     *)
Admissible ==
    {Effect("publish", None, 0, None, None, None, None, d) : d \in Declared}
    \cup {Effect("create", None, 0, None, None, None, None, {}) : o \in owned}
    \cup {Effect("project", None, project, None, None, None, None, {})}
    \cup {Effect("append", variants[v].gen, generations[variants[v].gen].version,
                 v, variants[v].obj, policy, type, {}) :
              v \in {w \in DOMAIN variants : variants[w].obj \in owned},
              policy \in {"preserve", "promote"}, type \in {"original", "upscaled"}}
    \cup {Effect("attach", variants[v].gen, generations[variants[v].gen].version,
                 None, variants[v].obj, None, None, {}) :
              v \in {w \in DOMAIN variants : w \in Primary(variants[w].gen)}}

Admit(t) ==
    /\ task[t].status = "none"
    /\ \E e \in Admissible :
          /\ e.expected <= MaxVersion
          /\ task' = [task EXCEPT ![t] =
                 [status |-> "running", effect |-> e,
                  seen |-> IF e.target = None THEN None ELSE Picture(e.target)]]
    /\ UNCHANGED <<generations, variants, owned, project, imported, receipts>>

(* The outputs become project objects before the effect is applied to the  *)
(* rows, in one transaction; a refused effect leaves the task running.     *)
Settle(t) ==
    /\ task[t].status = "running"
    /\ \E r \in Reports :
          /\ LET e == task[t].effect
             IN  \/ e.kind = "publish" /\ PublishGenerations(t, e, r)
                 \/ e.kind = "create"  /\ CreateWithVariant(t, e, r)
                 \/ e.kind = "append"  /\ Append(t, e, r)
                 \/ e.kind = "attach"  /\ Attach(t, e, r)
                 \/ e.kind = "project" /\ UpdateProject(t, e, r)
          /\ owned' = owned \cup {o.obj : o \in r.media} \cup {q.obj : q \in r.posters}
    /\ task' = [task EXCEPT ![t] = [NoTask EXCEPT !.status = "completed"]]
    /\ UNCHANGED <<imported, receipts>>

(* The attempt fails, as after a refused settlement.                       *)
Fail(t) ==
    /\ task[t].status = "running"
    /\ task' = [task EXCEPT ![t] = [NoTask EXCEPT !.status = "failed"]]
    /\ UNCHANGED <<generations, variants, owned, project, imported, receipts>>

-----------------------------------------------------------------------------
(* Requests without a worker                                               *)

FreshImport(k) == imported[k] = None

(* The bytes are those of a supported image or video.                      *)
Importable(o) == Family[o] # None

(* An import first commits the object, then, in another transaction, the   *)
(* task, its attempt, the generation and the receipt.  A call may end in   *)
(* between; a call with the same key goes on from what was committed.      *)
Ingest(k) ==
    /\ FreshImport(k)
    /\ \E o \in {m \in Media : Importable(m)} :
          /\ imported' = [imported EXCEPT ![k] = o]
          /\ owned' = owned \cup {o}
    /\ UNCHANGED <<generations, variants, project, task, receipts>>

Catalog(k) ==
    /\ imported[k] # None
    /\ <<k, "made">> \notin DOMAIN generations
    /\ Created(k, imported[k], None)
    /\ UNCHANGED <<owned, task, imported, receipts>>

(* A poster for one variant, checked against the variant's own object.     *)
AttachVariantThumbnail(v, k) ==
    /\ \A c \in receipts : <<c.key, c.variant>> # <<k, v>>
    /\ Cardinality(receipts) < MaxRequests
    /\ \E q \in Posters \cap owned :
          /\ variants' = [variants EXCEPT ![v].poster = [obj |-> q, source |-> variants[v].obj]]
          /\ receipts' = receipts \cup {[key |-> k, variant |-> v, poster |-> q]}
    /\ UNCHANGED <<generations, owned, project, task, imported>>

MarkViewed(S) ==
    /\ S # {} /\ \E v \in S : ~variants[v].viewed
    /\ variants' = [v \in DOMAIN variants |->
                       IF v \in S THEN [variants[v] EXCEPT !.viewed = TRUE] ELSE variants[v]]
    /\ UNCHANGED <<generations, owned, project, task, imported, receipts>>

MarkVariantViewed(v) ==
    /\ Cardinality({w \in DOMAIN variants : variants[w].viewed}) < MaxViews
    /\ MarkViewed({v})

MarkGenerationViewed(g) == MarkViewed(Members(g))

-----------------------------------------------------------------------------
GalleryInit ==
    /\ generations = [g \in {OldGeneration} |-> [version |-> 1, poster |-> None]]
    /\ variants = Legacy
    /\ owned = Uploaded
    /\ project = 1
    /\ task = [t \in Tasks |-> NoTask]
    /\ imported = [k \in Imports |-> None]
    /\ receipts = {}

GalleryNext ==
    \/ \E t \in Tasks : Admit(t) \/ Settle(t) \/ Fail(t)
    \/ \E k \in Imports : Ingest(k) \/ Catalog(k)
    \/ \E v \in DOMAIN variants, k \in Requests : AttachVariantThumbnail(v, k)
    \/ \E v \in DOMAIN variants : MarkVariantViewed(v)
    \/ \E g \in DOMAIN generations : MarkGenerationViewed(g)

GallerySpec == GalleryInit /\ [][GalleryNext]_galleryVars

-----------------------------------------------------------------------------
(* A generation stays coherent whatever effects, imports and posters       *)
(* settle and in whatever order: it never has two variants marked primary, *)
(* for which _generation_primary_variant would refuse every later append,  *)
(* its poster was made from one of its own variants and that of a variant  *)
(* from the variant's own object.                                          *)
GalleryCoherent ==
    /\ \A v, w \in DOMAIN variants :
           /\ variants[v].gen = variants[w].gen
           /\ variants[v].primary /\ variants[w].primary
           => v = w
    /\ \A g \in DOMAIN generations :
           generations[g].poster # None =>
               \E v \in Members(g) : variants[v].obj = generations[g].poster.source
    /\ \A v \in DOMAIN variants :
           variants[v].poster # None => variants[v].poster.source = variants[v].obj

(* A task that changes an existing generation settles on what its          *)
(* submitter saw: the same primary, poster and variants, although views    *)
(* and posters of single variants may have come in between.                *)
SettledOnSeen ==
    [][\A t \in Tasks :
          task[t].status = "running" /\ task'[t].status = "completed"
          /\ task[t].effect.target # None
          => Picture(task[t].effect.target) = task[t].seen]_galleryVars
=============================================================================
