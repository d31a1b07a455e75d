---------------------------- MODULE Composition ----------------------------
(***************************************************************************)
(* The authoring store: project shots, their immutable revisions, the text *)
(* bindings that revisions pin, and the parent compositions that place     *)
(* shot revisions on a timeline.  Every command is one SQLite transaction  *)
(* under the store's mutex (_durable_mutation), so each is one action; a   *)
(* refused command rolls back and is no step.  A shot is stored twice: as  *)
(* a mutable projection (project_shots, shot_items), which the shot        *)
(* commands edit, and as a chain of immutable revisions with a head, which *)
(* publications add to; each kind of command has to maintain both.         *)
(*                                                                         *)
(* Content stands for name, metadata, items and the archived flag.  Media, *)
(* internal timelines, placements and seam reports travel with their       *)
(* revision and are left out.  One binding stands for the kinds and slots  *)
(* of a shot.  The idempotency ledger is kept for publications, whose      *)
(* answers are rebuilt; a replay of another command is no step.            *)
(***************************************************************************)
EXTENDS Integers, Sequences, FiniteSets

CONSTANTS
  Shot,       \* identities of project shots
  Content,    \* what a shot can show
  Text,       \* text objects
  RevId,      \* identities of shot revisions
  ParentId,   \* identities of parent composition revisions
  Timeline,   \* timelines of the project
  Key,        \* idempotency keys
  None,       \* an absent row
  MaxVersion, \* bound on the version of a shot
  MaxHead     \* bound on the events of a text binding

ASSUME BoundAssumption == MaxVersion \in Nat \ {0} /\ MaxHead \in Nat
ASSUME FiniteAssumption == IsFiniteSet(RevId)

VARIABLES
  proj,    \* proj[s]: the content of shot s, None before it exists
  ver,     \* ver[s]: its version
  revs,    \* revs[r]: the shot revision r
  head,    \* head[s]: shot_revision_heads
  texts,   \* texts[s]: the events of s's text binding, the last one current
  parents, \* parents[p]: the parent composition revision p
  phead,   \* phead[t]: parent_composition_heads
  events,  \* events[t]: the parent.composition.published events of t
  ledger   \* ledger[k]: the receipt of the publication with key k

shots == <<proj, ver, revs, head>>
publications == <<parents, phead, events, ledger>>
vars == <<shots, texts, publications>>

(* A revision pins the head and the object of the text binding, or neither. *)
Revision == [shot : Shot, content : Content, pin : 0..MaxHead, text : Text \cup {None}]

Parent == [timeline : Timeline, occ : SUBSET RevId]

ASSUME NoneAssumption ==
  None \notin Content \cup Text \cup RevId \cup ParentId \cup Revision \cup Parent

(* An event names the head it replaced and the head it made. *)
Event == [old : ParentId \cup {None}, new : ParentId]

(* A publication request: the head it was written against, the identity of  *)
(* the new parent revision, and the shot revisions its occurrences use.     *)
Request ==
  [expected : ParentId \cup {None}, parent : ParentId,
   rows : UNION {[R -> Revision] : R \in SUBSET RevId}]

Init ==
  /\ proj = [s \in Shot |-> None]
  /\ ver = [s \in Shot |-> 0]
  /\ revs = [r \in RevId |-> None]
  /\ head = [s \in Shot |-> None]
  /\ texts = [s \in Shot |-> <<>>]
  /\ parents = [p \in ParentId |-> None]
  /\ phead = [t \in Timeline |-> None]
  /\ events = [t \in Timeline |-> <<>>]
  /\ ledger = [k \in Key |-> None]

-----------------------------------------------------------------------------
(* Shot commands.                                                           *)

(* Mutant: the revision is stored and the head is left behind. *)
RevisionWithoutHead(s, c, r) ==
  /\ revs[r] = None
  /\ revs' = [revs EXCEPT ![r] = [shot |-> s, content |-> c, pin |-> 0, text |-> None]]
  /\ UNCHANGED head

(* _record_legacy_shot_revision: the projection as a revision with a new    *)
(* identity, which becomes the head.  The projection carries no text pins.  *)
RecordRevision(s, c, r) ==
  /\ revs[r] = None
  /\ revs' = [revs EXCEPT ![r] = [shot |-> s, content |-> c, pin |-> 0, text |-> None]]
  /\ head' = [head EXCEPT ![s] = r]

(* create_project_shot *)
CreateShot(s, c, r) ==
  /\ proj[s] = None
  /\ proj' = [proj EXCEPT ![s] = c]
  /\ ver' = [ver EXCEPT ![s] = 1]
  /\ RecordRevision(s, c, r)
  /\ UNCHANGED <<texts, publications>>

(* A command that changes what an existing shot shows. *)
Change(s, c, r) ==
  /\ proj[s] # None /\ ver[s] < MaxVersion
  /\ proj' = [proj EXCEPT ![s] = c]
  /\ ver' = [ver EXCEPT ![s] = ver[s] + 1]
  /\ RecordRevision(s, c, r)
  /\ UNCHANGED <<texts, publications>>

(* update_project_shot, archive and recover included. *)
UpdateShot(s, v, c, r) == ver[s] = v /\ Change(s, c, r)

(* add_shot_item takes no expected version. *)
AddShotItem(s, c, r) == c # proj[s] /\ Change(s, c, r)

(* remove_shot_item *)
RemoveShotItem(s, v, c, r) == ver[s] = v /\ c # proj[s] /\ Change(s, c, r)

(* reorder_shot_items accepts the order that is there. *)
ReorderShotItems(s, v, c, r) == ver[s] = v /\ Change(s, c, r)

(* promote_project_shot_candidate and store.promote_shot_items: the         *)
(* candidate becomes the primary and the old primary is superseded.         *)
PromoteCandidate(s, v, c, r) == ver[s] = v /\ c # proj[s] /\ Change(s, c, r)

-----------------------------------------------------------------------------
(* Text bindings.                                                           *)

(* _record_text_binding_event *)
RecordTextEvent(s, x) == texts' = [texts EXCEPT ![s] = Append(@, x)]

(* Both commands name the head they were written for.  Binding the text     *)
(* that is bound already writes nothing.                                    *)
BindText(s, expected, x) ==
  /\ proj[s] # None
  /\ Len(texts[s]) = expected /\ expected < MaxHead
  /\ expected # 0 => texts[s][expected] # x
  /\ RecordTextEvent(s, x)
  /\ UNCHANGED <<shots, publications>>

(* set_project_shot_text_binding: head 0 creates the binding. *)
SetText(s, expected, x) == BindText(s, expected, x)

(* rebind_project_shot_text_binding, to an object that is stored. *)
RebindText(s, expected, x) == expected >= 1 /\ BindText(s, expected, x)

-----------------------------------------------------------------------------
(* publish_parent_composition.                                              *)

(* A supplied revision that is stored already has the stored bytes. *)
SameBytes(rows) == \A r \in DOMAIN rows : revs[r] # None => rows[r] = revs[r]

New(rows) == {r \in DOMAIN rows : revs[r] = None}

(* _validate_published_text_bindings with require_current: a new revision   *)
(* pins the binding's head and that event's object, or has no descriptor.   *)
PinsCurrent(row) ==
  \/ row.pin = 0 /\ row.text = None
  \/ /\ row.pin # 0 /\ row.pin = Len(texts[row.shot])
     /\ row.text = texts[row.shot][row.pin]

(* The order in which the publication visits its revisions, the iteration   *)
(* order of the Python set resolved_keys.                                   *)
Orders(R) == {o \in [R -> 1..Cardinality(R)] : \A a, b \in R : o[a] = o[b] => a = b}

(* The last of the revisions Q that order o visits, None if there is none. *)
Last(o, Q) ==
  IF Q = {} THEN None ELSE CHOOSE r \in Q : \A q \in Q : o[q] <= o[r]

NewOf(rows, s) == {r \in New(rows) : rows[r].shot = s}

(* _apply_published_shot_projection, once for each new revision in order. *)
Projected(rows, o) ==
  [s \in Shot |-> IF NewOf(rows, s) = {} THEN proj[s] ELSE rows[Last(o, NewOf(rows, s))].content]

(* The head of shot s before revision r is visited: every new revision      *)
(* visited earlier has moved it.                                            *)
HeadBefore(rows, o, s, r) ==
  LET earlier == {q \in NewOf(rows, s) : o[q] < o[r]}
  IN  IF earlier = {} THEN head[s] ELSE Last(o, earlier)

ContentOf(rows, r) == IF revs[r] # None THEN revs[r].content ELSE rows[r].content

(* A linked revision leaves the head and has it verified against the        *)
(* projection (_verify_shot_head_projection), which every new revision of   *)
(* the publication has been applied to by then.                             *)
HeadsVerified(rows, o) ==
  \A r \in DOMAIN rows \ New(rows) :
    ContentOf(rows, HeadBefore(rows, o, rows[r].shot, r)) = Projected(rows, o)[rows[r].shot]

(* The last new revision of a shot becomes its head. *)
HeadAfter(rows, o) ==
  [s \in Shot |-> IF NewOf(rows, s) = {} THEN head[s] ELSE Last(o, NewOf(rows, s))]

(* Each applied projection advances the version, or creates the shot at 1. *)
VersionAfter(rows) == [s \in Shot |-> ver[s] + Cardinality(NewOf(rows, s))]

(* The identity of a parent revision is new, or names the same bytes. *)
ParentFits(t, q) ==
  \/ parents[q.parent] = None
  \/ parents[q.parent] = [timeline |-> t, occ |-> DOMAIN q.rows]

(* Mutant: the head is not compared. *)
AnyHead(t, q) == TRUE

HeadExpected(t, q) == phead[t] = q.expected

(* What the transaction checks before it writes. *)
Acceptable(t, k, q) ==
  /\ ledger[k] = None
  /\ HeadExpected(t, q)
  /\ SameBytes(q.rows)
  /\ \A r \in New(q.rows) : PinsCurrent(q.rows[r])
  /\ \A s \in Shot : VersionAfter(q.rows)[s] <= MaxVersion
  /\ ParentFits(t, q)

(* Mutant: a parent revision lists only the revisions it adds. *)
NewOccurrences(rows) == New(rows)

Occurrences(rows) == DOMAIN rows

(* _append_timeline_event returns the identity of the event it appends. *)
AppendedEvent(t) == Len(events[t]) + 1

Publish(t, k, q, o) ==
  /\ Acceptable(t, k, q)
  /\ HeadsVerified(q.rows, o)
  /\ proj' = Projected(q.rows, o)
  /\ ver' = VersionAfter(q.rows)
  /\ revs' = [r \in RevId |-> IF r \in DOMAIN q.rows THEN q.rows[r] ELSE revs[r]]
  /\ head' = HeadAfter(q.rows, o)
  /\ parents' = [parents EXCEPT ![q.parent] = [timeline |-> t, occ |-> Occurrences(q.rows)]]
  /\ phead' = [phead EXCEPT ![t] = q.parent]
  /\ events' = [events EXCEPT ![t] = Append(@, [old |-> q.expected, new |-> q.parent])]
  /\ ledger' = [ledger EXCEPT ![k] =
                  [timeline |-> t, request |-> q, event |-> AppendedEvent(t)]]
  /\ UNCHANGED texts

(* The stored revisions of a composition. *)
Closure(p) == [r \in parents[p].occ |-> revs[r]]

(* A client's publication: linked revisions, and new ones of its own. *)
PublishComposition(t, k, expected, p, R, new, o) ==
  Publish(t, k,
    [expected |-> expected, parent |-> p,
     rows |-> [r \in R |-> IF revs[r] # None THEN revs[r] ELSE new[r]]], o)

(* restore_project_parent_composition_revision: the closure of an earlier   *)
(* revision under an identity derived from the request.                     *)
RestoreComposition(t, k, expected, src, p, o) ==
  /\ parents[src] # None /\ parents[src].timeline = t
  /\ parents[p] = None
  /\ Publish(t, k, [expected |-> expected, parent |-> p, rows |-> Closure(src)], o)

(* replace_parent_composition_media: the closure of the expected head with  *)
(* revision r replaced by a copy n that differs in its internal timeline.   *)
(* The identity of n derives from r and the clip, so n may be stored since  *)
(* the same replacement was made before and restored away.                  *)
ReplaceMedia(t, k, expected, r, n, p, o) ==
  /\ expected # None /\ parents[expected] # None /\ parents[expected].timeline = t
  /\ r \in parents[expected].occ
  /\ n # r /\ revs[n] \in {None, revs[r]}
  /\ parents[p] = None
  /\ Publish(t, k,
       [expected |-> expected, parent |-> p,
        rows |-> [x \in (parents[expected].occ \ {r}) \cup {n} |->
                    IF x = n THEN revs[r] ELSE revs[x]]], o)

-----------------------------------------------------------------------------
(* The revisions a client can write now: without a pin, or with one of the  *)
(* current text.  Any other pin is refused.                                 *)
Draft ==
  {[shot |-> s, content |-> c, pin |-> 0, text |-> None] : s \in Shot, c \in Content} \cup
  {[shot |-> s, content |-> c, pin |-> Len(texts[s]), text |-> texts[s][Len(texts[s])]] :
     s \in {u \in Shot : texts[u] # <<>>}, c \in Content}

ShotCommand(s) ==
  \/ \E c \in Content, r \in RevId : CreateShot(s, c, r) \/ AddShotItem(s, c, r)
  \/ \E c \in Content, r \in RevId, v \in 1..MaxVersion :
       \/ UpdateShot(s, v, c, r)
       \/ RemoveShotItem(s, v, c, r)
       \/ ReorderShotItems(s, v, c, r)
       \/ PromoteCandidate(s, v, c, r)
  \/ \E x \in Text, n \in 0..MaxHead : SetText(s, n, x) \/ RebindText(s, n, x)

Publication(t, k) ==
  \E expected \in ParentId \cup {None}, p \in ParentId :
    \/ \E R \in SUBSET RevId : \E new \in [R \cap {r \in RevId : revs[r] = None} -> Draft], o \in Orders(R) :
         PublishComposition(t, k, expected, p, R, new, o)
    \/ \E src \in ParentId : parents[src] # None
         /\ \E o \in Orders(parents[src].occ) : RestoreComposition(t, k, expected, src, p, o)
    \/ \E r, n \in RevId : expected # None /\ parents[expected] # None
         /\ \E o \in Orders((parents[expected].occ \ {r}) \cup {n}) :
              ReplaceMedia(t, k, expected, r, n, p, o)

Next ==
  \/ \E s \in Shot : ShotCommand(s)
  \/ \E t \in Timeline, k \in Key : Publication(t, k)

Spec == Init /\ [][Next]_vars

-----------------------------------------------------------------------------
(* Properties.                                                              *)

TypeOK ==
  /\ proj \in [Shot -> Content \cup {None}]
  /\ ver \in [Shot -> 0..MaxVersion]
  /\ revs \in [RevId -> Revision \cup {None}]
  /\ head \in [Shot -> RevId \cup {None}]
  /\ texts \in [Shot -> Seq(Text)]
  /\ \A s \in Shot : Len(texts[s]) <= MaxHead
  /\ parents \in [ParentId -> Parent \cup {None}]
  /\ phead \in [Timeline -> ParentId \cup {None}]
  /\ events \in [Timeline -> Seq(Event)]
  /\ ledger \in [Key -> [timeline : Timeline, request : Request, event : Nat] \cup {None}]
  /\ \A k \in Key : ledger[k] # None => ledger[k].event \in 1..Len(events[ledger[k].timeline])

(* The mutable projection of a shot always shows its head revision, through *)
(* every mix of shot commands, publications, restores and replacements, so  *)
(* that _verify_shot_head_projection can only fail on damaged data.         *)
HeadShown ==
  \A s \in Shot :
    /\ proj[s] = None <=> head[s] = None
    /\ head[s] # None =>
         revs[head[s]] # None /\ revs[head[s]].shot = s /\ revs[head[s]].content = proj[s]

(* The publications of a timeline form one chain: each replaced exactly the *)
(* head the one before it made, so no publication is lost unseen.           *)
HeadChain ==
  \A t \in Timeline :
    /\ \A i \in 1..Len(events[t]) :
         events[t][i].old = IF i = 1 THEN None ELSE events[t][i - 1].new
    /\ phead[t] = IF events[t] = <<>> THEN None ELSE events[t][Len(events[t])].new

(* The answer to a publication can be rebuilt at any later time from the    *)
(* immutable rows and the event (_publication_replay_result), whatever has  *)
(* been edited, published or restored since.                                *)
ReplayExact ==
  \A k \in Key : ledger[k] # None =>
    LET e == events[ledger[k].timeline][ledger[k].event]
    IN  ledger[k].request =
          [expected |-> e.old, parent |-> e.new, rows |-> Closure(e.new)]

(* What a revision pins of its shot's text stays readable: the event exists *)
(* and still has the pinned object, after any number of rebindings.         *)
PinsResolve ==
  \A r \in RevId : revs[r] # None /\ revs[r].pin # 0 =>
    /\ revs[r].pin <= Len(texts[revs[r].shot])
    /\ texts[revs[r].shot][revs[r].pin] = revs[r].text

(* A shot's head only moves to a revision written by the same command: "an  *)
(* older linked revision must never regress the mutable projection or head".*)
HeadAdvances ==
  [][\A s \in Shot : head'[s] # head[s] => revs[head'[s]] = None]_vars

(* What a shot shows never changes without its version, on which the        *)
(* optimistic checks of the shot commands rely.                             *)
VersionTracks ==
  [][\A s \in Shot : proj'[s] # proj[s] => ver'[s] > ver[s]]_vars

=============================================================================
