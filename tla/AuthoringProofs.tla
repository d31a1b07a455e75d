--------------------------- MODULE AuthoringProofs ---------------------------
(***************************************************************************)
(* Proofs about what is authored from the outputs of tasks and where it    *)
(* goes: the authoring store, the lifecycles of managed outputs, the files *)
(* they are exported to and the snapshots of a runner, for any number of   *)
(* shots, timelines, revisions, clients, files and snapshots.  They rest   *)
(* on finite sets and on induction over the natural numbers.               *)
(***************************************************************************)
EXTENDS Composition, ManagedOutputs, OutputExport, RecoverableSnapshots,
        FiniteSetTheorems, WellFoundedInduction, TLAPS

(* The authoring store: Composition.  The invariants are proved together:  *)
(* a publication is typed because the compositions it copies are closed,   *)
(* and its head checks are about what the projections show.                *)

(* Every revision a stored composition places is stored. *)
Closed ==
  \A p \in ParentId : parents[p] # None => \A r \in parents[p].occ : revs[r] # None

(* A shot that does not exist yet has no version. *)
Unversioned == \A s \in Shot : proj[s] = None => ver[s] = 0

Inv == TypeOK /\ HeadShown /\ Closed /\ Unversioned

-----------------------------------------------------------------------------
(* The last visited revision.                                               *)

Less == {p \in Nat \X Nat : p[1] < p[2]}

(* The order of the natural numbers is well-founded. *)
LEMMA LessWellFounded == IsWellFoundedOn(Less, Nat)
BY NatLessThanWellFounded, Zenon DEF OpToRel, Less

(* A set of natural numbers that is not empty has a least element. *)
LEMMA LeastNatural ==
  ASSUME NEW T \in SUBSET Nat, T # {}
  PROVE  \E x \in T : \A y \in T : x <= y
<1>1. IsWellFoundedOn(Less, Nat)
  BY LessWellFounded, Zenon
<1>2. \E x \in T : \A y \in T : <<y, x>> \notin Less
  BY <1>1, WFMin, Zenon
<1>3. PICK x \in T : \A y \in T : <<y, x>> \notin Less
  BY <1>2, Zenon
<1>4. ASSUME NEW y \in T PROVE x <= y
  <2>1. x \in Nat /\ y \in Nat
    OBVIOUS
  <2>2. y < x => <<y, x>> \in Less
    BY <2>1, Zenon DEF Less
  <2> QED
    BY <1>3, <2>1, <2>2
<1> QED
  BY <1>4, Zenon

(* An order visits one revision of every non-empty set last. *)
LEMMA LastMember ==
  ASSUME NEW R \in SUBSET RevId, NEW o \in Orders(R), NEW Q \in SUBSET R, Q # {}
  PROVE  Last(o, Q) \in Q
<1> DEFINE n == Cardinality(R)
           T == {n - o[q] : q \in Q}
<1>1. n \in Nat
  BY FiniteAssumption, FS_Subset, FS_CardinalityType, Zenon
<1>2. \A q \in Q : o[q] \in 1..n
  BY Zenon DEF Orders
<1> HIDE DEF n
<1>3. T \in SUBSET Nat /\ T # {}
  BY <1>1, <1>2
<1>4. PICK x \in T : \A y \in T : x <= y
  <2> HIDE DEF T
  <2> QED
    BY <1>3, LeastNatural, Zenon
<1>5. PICK r \in Q : x = n - o[r]
  OBVIOUS
<1>6. \A q \in Q : n - o[q] \in T
  OBVIOUS
<1>7. \A q \in Q : o[q] <= o[r]
  <2> HIDE DEF T
  <2> QED
    BY <1>1, <1>2, <1>4, <1>5, <1>6
<1> QED
  BY <1>7, Zenon DEF Last

-----------------------------------------------------------------------------
(* One publication.                                                         *)

(* The request of a publication places revisions of the right shape. *)
LEMMA RequestRows ==
  ASSUME NEW q \in Request
  PROVE  /\ DOMAIN q.rows \in SUBSET RevId
         /\ \A r \in DOMAIN q.rows : q.rows[r] \in Revision
         /\ q.parent \in ParentId
         /\ q.expected \in ParentId \cup {None}
<1>1. PICK R \in SUBSET RevId : q.rows \in [R -> Revision]
  BY Zenon DEF Request
<1> QED
  BY <1>1, Zenon DEF Request

(* Where a publication has new revisions of a shot, the last one visited is *)
(* one of them.                                                             *)
LEMMA LastNew ==
  ASSUME NEW q \in Request, NEW o \in Orders(DOMAIN q.rows), NEW s \in Shot,
         NewOf(q.rows, s) # {}
  PROVE  LET l == Last(o, NewOf(q.rows, s))
         IN  l \in DOMAIN q.rows /\ l \in RevId /\ revs[l] = None /\ q.rows[l].shot = s
<1>1. NewOf(q.rows, s) \in SUBSET DOMAIN q.rows
  BY Zenon DEF NewOf, New
<1>2. Last(o, NewOf(q.rows, s)) \in NewOf(q.rows, s)
  BY <1>1, RequestRows, LastMember
<1> QED
  BY <1>1, <1>2, RequestRows, Zenon DEF NewOf, New

(* What a publication may never do: change or drop a stored row. *)
LEMMA PublishKeeps ==
  ASSUME NEW t \in Timeline, NEW k \in Key, NEW q \in Request, NEW o, TypeOK,
         Publish(t, k, q, o)
  PROVE  /\ \A r \in RevId : revs[r] # None => revs'[r] = revs[r]
         /\ \A p \in ParentId : parents[p] # None => parents'[p] = parents[p]
<1>1. ASSUME NEW r \in RevId, revs[r] # None PROVE revs'[r] = revs[r]
  BY <1>1, Zenon DEF Publish, Acceptable, SameBytes
<1>2. ASSUME NEW p \in ParentId, parents[p] # None PROVE parents'[p] = parents[p]
  BY <1>2, Zenon DEF Publish, Acceptable, ParentFits, Occurrences, TypeOK
<1> QED
  BY <1>1, <1>2, Zenon

(* A publication keeps the types, the agreement of heads and projections,   *)
(* and the closure of the stored compositions.                              *)
LEMMA PublishInv ==
  ASSUME NEW t \in Timeline, NEW k \in Key, NEW q \in Request,
         NEW o \in Orders(DOMAIN q.rows), Inv, Publish(t, k, q, o)
  PROVE  Inv'
<1> DEFINE rows == q.rows
           l(s) == Last(o, NewOf(rows, s))
<1>1. /\ DOMAIN rows \in SUBSET RevId
      /\ \A r \in DOMAIN rows : rows[r] \in Revision
      /\ q.parent \in ParentId
      /\ q.expected \in ParentId \cup {None}
  BY RequestRows, Zenon
<1>2. \A s \in Shot : NewOf(rows, s) # {} =>
        l(s) \in DOMAIN rows /\ l(s) \in RevId /\ revs[l(s)] = None /\ rows[l(s)].shot = s
  BY LastNew, Zenon
<1>3. /\ \A r \in RevId : revs[r] # None => revs'[r] = revs[r]
      /\ \A p \in ParentId : parents[p] # None => parents'[p] = parents[p]
  BY PublishKeeps, Zenon DEF Inv
<1>4. \A r \in DOMAIN rows : revs'[r] = rows[r]
  BY <1>1, Zenon DEF Publish
<1>5. TypeOK'
  <2>1. proj' \in [Shot -> Content \cup {None}]
    BY <1>1, <1>2, Zenon DEF Publish, Projected, Inv, TypeOK, Revision
  <2>2. ver' \in [Shot -> 0..MaxVersion]
    <3> SUFFICES ASSUME NEW s \in Shot PROVE VersionAfter(rows)[s] \in 0..MaxVersion
      BY Zenon DEF Publish, VersionAfter
    <3>1. NewOf(rows, s) \in SUBSET RevId
      BY <1>1, Zenon DEF NewOf, New
    <3>2. Cardinality(NewOf(rows, s)) \in Nat
      BY <3>1, FiniteAssumption, FS_Subset, FS_CardinalityType, Zenon
    <3>3. ver[s] \in Nat
      BY BoundAssumption DEF Inv, TypeOK
    <3> QED
      BY <3>2, <3>3, BoundAssumption DEF Publish, Acceptable, VersionAfter
  <2>3. revs' \in [RevId -> Revision \cup {None}]
    BY <1>1, Zenon DEF Publish, Inv, TypeOK
  <2>4. head' \in [Shot -> RevId \cup {None}]
    BY <1>2, Zenon DEF Publish, HeadAfter, Inv, TypeOK
  <2>5. texts' \in [Shot -> Seq(Text)] /\ \A s \in Shot : Len(texts'[s]) <= MaxHead
    BY Zenon DEF Publish, Inv, TypeOK
  <2>6. parents' \in [ParentId -> Parent \cup {None}]
    BY <1>1, Zenon DEF Publish, Occurrences, Parent, Inv, TypeOK
  <2>7. phead' \in [Timeline -> ParentId \cup {None}]
    BY <1>1, Zenon DEF Publish, Inv, TypeOK
  <2>8. events' \in [Timeline -> Seq(Event)]
    <3>1. [old |-> q.expected, new |-> q.parent] \in Event
      BY <1>1, Zenon DEF Event
    <3>2. Append(events[t], [old |-> q.expected, new |-> q.parent]) \in Seq(Event)
      BY <3>1 DEF Inv, TypeOK
    <3> QED
      BY <3>2, Zenon DEF Publish, Inv, TypeOK
  <2>9. ledger' \in [Key -> [timeline : Timeline, request : Request, event : Nat] \cup {None}]
    BY DEF Publish, AppendedEvent, Inv, TypeOK
  <2>10. ASSUME NEW j \in Key, ledger'[j] # None
         PROVE  ledger'[j].event \in 1..Len(events'[ledger'[j].timeline])
    <3>1. \A u \in Timeline : Len(events[u]) \in Nat /\ Len(events'[u]) \in Nat
                              /\ Len(events'[u]) >= Len(events[u])
      BY <1>1 DEF Publish, Event, Inv, TypeOK
    <3>2. CASE j = k
      <4>1. ledger'[j] = [timeline |-> t, request |-> q, event |-> Len(events[t]) + 1]
        BY <3>2, Zenon DEF Publish, AppendedEvent, Inv, TypeOK
      <4>2. Len(events'[t]) = Len(events[t]) + 1
        BY <1>1 DEF Publish, Event, Inv, TypeOK
      <4> QED
        BY <4>1, <4>2, <3>1
    <3>3. CASE j # k
      <4>1. ledger'[j] = ledger[j]
        BY <3>3, Zenon DEF Publish, Inv, TypeOK
      <4>2. ledger[j].event \in 1..Len(events[ledger[j].timeline]) /\ ledger[j].timeline \in Timeline
        BY <4>1, <2>10, Zenon DEF Inv, TypeOK
      <4> QED
        BY <4>1, <4>2, <3>1
    <3> QED
      BY <3>2, <3>3, Zenon
  <2> QED
    BY <2>1, <2>2, <2>3, <2>4, <2>5, <2>6, <2>7, <2>8, <2>9, <2>10, Zenon DEF TypeOK
<1>6. HeadShown'
  <2> SUFFICES ASSUME NEW s \in Shot
               PROVE  /\ proj'[s] = None <=> head'[s] = None
                      /\ head'[s] # None =>
                           /\ revs'[head'[s]] # None
                           /\ revs'[head'[s]].shot = s
                           /\ revs'[head'[s]].content = proj'[s]
    BY Zenon DEF HeadShown
  <2>1. CASE NewOf(rows, s) = {}
    <3>1. proj'[s] = proj[s] /\ head'[s] = head[s]
      BY <2>1, Zenon DEF Publish, Projected, HeadAfter
    <3>2. head[s] # None => revs'[head[s]] = revs[head[s]]
      BY <1>3 DEF Inv, HeadShown, TypeOK
    <3> QED
      BY <3>1, <3>2 DEF Inv, HeadShown
  <2>2. CASE NewOf(rows, s) # {}
    <3>1. proj'[s] = rows[l(s)].content /\ head'[s] = l(s)
      BY <2>2, Zenon DEF Publish, Projected, HeadAfter
    <3>2. revs'[l(s)] = rows[l(s)] /\ rows[l(s)] \in Revision /\ rows[l(s)].shot = s /\ l(s) \in RevId
      BY <1>1, <1>2, <1>4, <2>2, Zenon
    <3> HIDE DEF l
    <3> QED
      BY <3>1, <3>2, NoneAssumption, Zenon DEF Revision
  <2> QED
    BY <2>1, <2>2, Zenon
<1>7. Closed'
  <2> SUFFICES ASSUME NEW p \in ParentId, parents'[p] # None, NEW r \in parents'[p].occ
               PROVE  revs'[r] # None
    BY Zenon DEF Closed
  <2>1. CASE p = q.parent
    <3>1. parents'[p].occ = DOMAIN rows
      BY <2>1, Zenon DEF Publish, Occurrences, Inv, TypeOK
    <3> QED
      BY <3>1, <1>1, <1>4, NoneAssumption
  <2>2. CASE p # q.parent
    <3>1. parents'[p] = parents[p]
      BY <2>2, Zenon DEF Publish, Inv, TypeOK
    <3>2. r \in RevId /\ revs[r] # None
      BY <3>1, Zenon DEF Inv, TypeOK, Closed, Parent
    <3> QED
      BY <3>2, <1>3, Zenon
  <2> QED
    BY <2>1, <2>2, Zenon
<1>8. Unversioned'
  <2> SUFFICES ASSUME NEW s \in Shot, proj'[s] = None PROVE ver'[s] = 0
    BY Zenon DEF Unversioned
  <2>1. NewOf(rows, s) = {}
    <3> SUFFICES ASSUME NewOf(rows, s) # {} PROVE FALSE
      OBVIOUS
    <3>1. proj'[s] = rows[l(s)].content /\ rows[l(s)] \in Revision
      BY <1>1, <1>2, Zenon DEF Publish, Projected
    <3> HIDE DEF l
    <3> QED
      BY <3>1, NoneAssumption, Zenon DEF Revision
  <2>2. proj[s] = None /\ ver'[s] = ver[s] + Cardinality(NewOf(rows, s))
    BY <2>1, ZenonT(60) DEF Publish, Projected, VersionAfter
  <2> QED
    BY <2>1, <2>2, FS_EmptySet DEF Inv, Unversioned
<1> QED
  BY <1>5, <1>6, <1>7, <1>8, Zenon DEF Inv

(* The revisions a client can write are well-formed. *)
LEMMA DraftType ==
  ASSUME TypeOK PROVE Draft \subseteq Revision
<1> SUFFICES ASSUME NEW row \in Draft PROVE row \in Revision
  OBVIOUS
<1>1. CASE \E s \in Shot, c \in Content :
             row = [shot |-> s, content |-> c, pin |-> 0, text |-> None]
  BY <1>1, BoundAssumption DEF Revision
<1>2. CASE \E s \in {u \in Shot : texts[u] # <<>>}, c \in Content :
             row = [shot |-> s, content |-> c, pin |-> Len(texts[s]), text |-> texts[s][Len(texts[s])]]
  <2>1. PICK s \in Shot, c \in Content :
          /\ texts[s] # <<>>
          /\ row = [shot |-> s, content |-> c, pin |-> Len(texts[s]), text |-> texts[s][Len(texts[s])]]
    BY <1>2, Zenon
  <2>2. texts[s] \in Seq(Text) /\ Len(texts[s]) \in 0..MaxHead
    BY BoundAssumption DEF TypeOK
  <2>3. texts[s][Len(texts[s])] \in Text
    BY <2>1, <2>2
  <2> QED
    BY <2>1, <2>2, <2>3, Zenon DEF Revision
<1> QED
  BY <1>1, <1>2 DEF Draft

(* Publishing, restoring and replacing media all publish a well-formed      *)
(* request.                                                                 *)
LEMMA PublicationIsPublish ==
  ASSUME NEW t \in Timeline, NEW k \in Key, Inv, Publication(t, k)
  PROVE  \E q \in Request : \E o \in Orders(DOMAIN q.rows) : Publish(t, k, q, o)
<1> DEFINE Req(e, p, f) == [expected |-> e, parent |-> p, rows |-> f]
<1>1. ASSUME NEW e \in ParentId \cup {None}, NEW p \in ParentId, NEW R \in SUBSET RevId, NEW f,
             f \in [R -> Revision], NEW o \in Orders(R), Publish(t, k, Req(e, p, f), o)
      PROVE  \E q \in Request : \E x \in Orders(DOMAIN q.rows) : Publish(t, k, q, x)
  <2>1. Req(e, p, f) \in Request
    BY <1>1, Zenon DEF Request
  <2>2. DOMAIN (Req(e, p, f).rows) = R
    BY <1>1, Zenon
  <2> HIDE DEF Req
  <2> QED
    BY <1>1, <2>1, <2>2, Zenon
<1>2. PICK e \in ParentId \cup {None}, p \in ParentId :
        \/ \E R \in SUBSET RevId : \E new \in [R \cap {r \in RevId : revs[r] = None} -> Draft], o \in Orders(R) :
             PublishComposition(t, k, e, p, R, new, o)
        \/ \E src \in ParentId : parents[src] # None
             /\ \E o \in Orders(parents[src].occ) : RestoreComposition(t, k, e, src, p, o)
        \/ \E r, n \in RevId : e # None /\ parents[e] # None
             /\ \E o \in Orders((parents[e].occ \ {r}) \cup {n}) : ReplaceMedia(t, k, e, r, n, p, o)
  BY Zenon DEF Publication
<1>3. CASE \E R \in SUBSET RevId : \E new \in [R \cap {r \in RevId : revs[r] = None} -> Draft], o \in Orders(R) :
             PublishComposition(t, k, e, p, R, new, o)
  <2>a. PICK R \in SUBSET RevId :
          \E new \in [R \cap {r \in RevId : revs[r] = None} -> Draft], o \in Orders(R) :
            PublishComposition(t, k, e, p, R, new, o)
    BY <1>3, Zenon
  <2>1. PICK new \in [R \cap {r \in RevId : revs[r] = None} -> Draft], o \in Orders(R) :
          PublishComposition(t, k, e, p, R, new, o)
    BY <2>a, Zenon
  <2> DEFINE f == [r \in R |-> IF revs[r] # None THEN revs[r] ELSE new[r]]
  <2>2. f \in [R -> Revision]
    BY DraftType, Zenon DEF Inv, TypeOK
  <2>3. Publish(t, k, Req(e, p, f), o)
    BY <2>1, Zenon DEF PublishComposition
  <2> HIDE DEF f, Req
  <2> QED
    BY <1>1, <2>2, <2>3, Zenon
<1>4. CASE \E src \in ParentId : parents[src] # None
             /\ \E o \in Orders(parents[src].occ) : RestoreComposition(t, k, e, src, p, o)
  <2>1. PICK src \in ParentId : parents[src] # None
             /\ \E o \in Orders(parents[src].occ) : RestoreComposition(t, k, e, src, p, o)
    BY <1>4, Zenon
  <2>2. PICK o \in Orders(parents[src].occ) : RestoreComposition(t, k, e, src, p, o)
    BY <2>1, Zenon
  <2>3. parents[src].occ \in SUBSET RevId
    BY <2>1, Zenon DEF Inv, TypeOK, Parent
  <2>4. Closure(src) \in [parents[src].occ -> Revision]
    BY <2>1, <2>3, Zenon DEF Closure, Inv, TypeOK, Closed
  <2>5. Publish(t, k, Req(e, p, Closure(src)), o)
    BY <2>2, Zenon DEF RestoreComposition
  <2> HIDE DEF Req
  <2> QED
    BY <1>1, <2>3, <2>4, <2>5, Zenon
<1>5. CASE \E r, n \in RevId : e # None /\ parents[e] # None
             /\ \E o \in Orders((parents[e].occ \ {r}) \cup {n}) : ReplaceMedia(t, k, e, r, n, p, o)
  <2>1. PICK r \in RevId, n \in RevId : e # None /\ parents[e] # None
             /\ \E o \in Orders((parents[e].occ \ {r}) \cup {n}) : ReplaceMedia(t, k, e, r, n, p, o)
    BY <1>5, Zenon
  <2> DEFINE R == (parents[e].occ \ {r}) \cup {n}
             f == [x \in R |-> IF x = n THEN revs[r] ELSE revs[x]]
  <2>2. PICK o \in Orders(R) : ReplaceMedia(t, k, e, r, n, p, o)
    BY <2>1, Zenon
  <2>3. parents[e].occ \in SUBSET RevId /\ r \in parents[e].occ
    BY <2>1, <2>2, Zenon DEF Inv, TypeOK, Parent, ReplaceMedia
  <2>4. f \in [R -> Revision] /\ R \in SUBSET RevId
    BY <2>1, <2>3, Zenon DEF Inv, TypeOK, Closed
  <2>5. Publish(t, k, Req(e, p, f), o)
    BY <2>2, Zenon DEF ReplaceMedia
  <2> HIDE DEF f, R, Req
  <2> QED
    BY <1>1, <2>4, <2>5, Zenon
<1> QED
  BY ZenonT(60), <1>2, <1>3, <1>4, <1>5

-----------------------------------------------------------------------------
(* The shot commands.                                                       *)

(* What the shot commands do to a shot: show c, and make that the head. *)
Shown(s, c, r) ==
  /\ proj' = [proj EXCEPT ![s] = c]
  /\ ver' \in [Shot -> 0..MaxVersion]
  /\ ver'[s] > ver[s] /\ \A u \in Shot \ {s} : ver'[u] = ver[u]
  /\ RecordRevision(s, c, r)
  /\ UNCHANGED <<texts, publications>>

(* A command on a shot shows something new, or binds a text. *)
LEMMA ShotCommandIs ==
  ASSUME NEW s \in Shot, Inv, ShotCommand(s)
  PROVE  \/ \E c \in Content, r \in RevId : Shown(s, c, r)
         \/ \E x \in Text, n \in 0..MaxHead : BindText(s, n, x)
<1>1. ASSUME NEW c \in Content, NEW r \in RevId, CreateShot(s, c, r)
      PROVE  Shown(s, c, r)
  BY <1>1, BoundAssumption DEF CreateShot, Shown, Inv, TypeOK, Unversioned
<1>2. ASSUME NEW c \in Content, NEW r \in RevId, Change(s, c, r)
      PROVE  Shown(s, c, r)
  BY <1>2, BoundAssumption DEF Change, Shown, Inv, TypeOK
<1>3. \/ \E c \in Content, r \in RevId : CreateShot(s, c, r) \/ Change(s, c, r)
      \/ \E x \in Text, n \in 0..MaxHead : BindText(s, n, x)
  BY Zenon DEF ShotCommand, UpdateShot, AddShotItem, RemoveShotItem, ReorderShotItems,
       PromoteCandidate, SetText, RebindText
<1> QED
  BY <1>1, <1>2, <1>3, Zenon

(* Showing c keeps the invariant. *)
LEMMA ShownInv ==
  ASSUME NEW s \in Shot, NEW c \in Content, NEW r \in RevId, Inv, Shown(s, c, r)
  PROVE  Inv'
<1>1. revs[r] = None /\ revs' = [revs EXCEPT ![r] = [shot |-> s, content |-> c, pin |-> 0, text |-> None]]
  BY Zenon DEF Shown, RecordRevision
<1>2. [shot |-> s, content |-> c, pin |-> 0, text |-> None] \in Revision
  BY BoundAssumption, SMTT(40) DEF Revision
<1>3. TypeOK'
  BY <1>1, <1>2 DEF Shown, RecordRevision, publications, Inv, TypeOK
<1>4. HeadShown'
  <2> SUFFICES ASSUME NEW u \in Shot
               PROVE  /\ proj'[u] = None <=> head'[u] = None
                      /\ head'[u] # None =>
                           /\ revs'[head'[u]] # None
                           /\ revs'[head'[u]].shot = u
                           /\ revs'[head'[u]].content = proj'[u]
    BY Zenon DEF HeadShown
  <2>1. CASE u = s
    <3>1. proj'[u] = c /\ head'[u] = r
      BY <2>1, Zenon DEF Shown, RecordRevision, Inv, TypeOK
    <3>2. revs'[r] = [shot |-> s, content |-> c, pin |-> 0, text |-> None]
      BY <1>1, Zenon DEF Inv, TypeOK
    <3> QED
      BY SMTT(40), <1>2, <2>1, <3>1, <3>2, NoneAssumption
  <2>2. CASE u # s
    <3>1. proj'[u] = proj[u] /\ head'[u] = head[u]
      BY <2>2, Zenon DEF Shown, RecordRevision, Inv, TypeOK
    <3>2. head[u] # None => revs'[head[u]] = revs[head[u]]
      BY <1>1, SMTT(40) DEF Inv, HeadShown, TypeOK
    <3> QED
      BY <3>1, <3>2, SMTT(40) DEF Inv, HeadShown
  <2> QED
    BY <2>1, <2>2, Zenon
<1>5. Closed'
  BY <1>1, <1>2, NoneAssumption, Zenon DEF Shown, publications, Inv, Closed, TypeOK, Parent
<1>6. Unversioned'
  BY NoneAssumption, Zenon DEF Shown, Inv, Unversioned, TypeOK
<1> QED
  BY <1>3, <1>4, <1>5, <1>6, Zenon DEF Inv

(* Binding a text keeps the invariant. *)
LEMMA BindTextInv ==
  ASSUME NEW s \in Shot, NEW x \in Text, NEW n \in 0..MaxHead, Inv, BindText(s, n, x)
  PROVE  Inv'
<1>1. texts[s] \in Seq(Text) /\ Append(texts[s], x) \in Seq(Text)
      /\ Len(Append(texts[s], x)) = Len(texts[s]) + 1
  BY DEF Inv, TypeOK
<1>2. texts' = [texts EXCEPT ![s] = Append(texts[s], x)] /\ Len(texts[s]) < MaxHead
  BY Zenon DEF BindText, RecordTextEvent
<1>3. texts' \in [Shot -> Seq(Text)] /\ \A u \in Shot : Len(texts'[u]) <= MaxHead
  BY <1>1, <1>2, BoundAssumption, SMTT(40) DEF Inv, TypeOK
<1>4. UNCHANGED <<proj, ver, revs, head, parents, phead, events, ledger>>
  BY Zenon DEF BindText, shots, publications
<1> QED
  BY <1>3, <1>4, Zenon DEF Inv, TypeOK, HeadShown, Closed, Unversioned

-----------------------------------------------------------------------------
(* The invariant.                                                           *)

(* The kinds of step, for the proofs by cases. *)
LEMMA StepCases ==
  ASSUME Inv, [Next]_vars
  PROVE  \/ \E t \in Timeline, k \in Key : \E q \in Request : \E o \in Orders(DOMAIN q.rows) :
              Publish(t, k, q, o)
         \/ \E s \in Shot, c \in Content, r \in RevId : Shown(s, c, r)
         \/ \E s \in Shot, x \in Text, n \in 0..MaxHead : BindText(s, n, x)
         \/ UNCHANGED vars
<1>1. \/ \E s \in Shot : ShotCommand(s)
      \/ \E t \in Timeline, k \in Key : Publication(t, k)
      \/ UNCHANGED vars
  BY Zenon DEF Next
<1>2. ASSUME NEW s \in Shot, ShotCommand(s)
      PROVE  \/ \E c \in Content, r \in RevId : Shown(s, c, r)
             \/ \E x \in Text, n \in 0..MaxHead : BindText(s, n, x)
  BY <1>2, ShotCommandIs, Zenon
<1>3. ASSUME NEW t \in Timeline, NEW k \in Key, Publication(t, k)
      PROVE  \E q \in Request : \E o \in Orders(DOMAIN q.rows) : Publish(t, k, q, o)
  BY <1>3, PublicationIsPublish, Zenon
<1> QED
  BY <1>1, <1>2, <1>3, Zenon

(* Nothing is shown, stored or published at first. *)
LEMMA InitInv == Init => Inv
<1> SUFFICES ASSUME Init PROVE Inv
  BY Zenon
<1>1. TypeOK
  BY BoundAssumption, SMTT(40) DEF Init, TypeOK
<1>2. HeadShown /\ Closed /\ Unversioned
  BY Zenon DEF Init, HeadShown, Closed, Unversioned
<1> QED
  BY <1>1, <1>2, Zenon DEF Inv

(* Every step keeps the invariant. *)
LEMMA NextInv == Inv /\ [Next]_vars => Inv'
<1> SUFFICES ASSUME Inv, [Next]_vars PROVE Inv'
  OBVIOUS
<1>1. ASSUME NEW t \in Timeline, NEW k \in Key, NEW q \in Request,
             NEW o \in Orders(DOMAIN q.rows), Publish(t, k, q, o)
      PROVE  Inv'
  BY <1>1, PublishInv, Zenon
<1>2. ASSUME NEW s \in Shot, NEW c \in Content, NEW r \in RevId, Shown(s, c, r)
      PROVE  Inv'
  BY <1>2, ShownInv, Zenon
<1>3. ASSUME NEW s \in Shot, NEW x \in Text, NEW n \in 0..MaxHead, BindText(s, n, x)
      PROVE  Inv'
  BY Zenon, <1>3, BindTextInv
<1>4. CASE UNCHANGED vars
  BY <1>4, ZenonT(60) DEF vars, shots, publications, Inv, TypeOK, HeadShown, Closed, Unversioned
<1> QED
  BY <1>1, <1>2, <1>3, <1>4, StepCases, Zenon

(* The store keeps the invariant for ever. *)
LEMMA InvAlways == Spec => []Inv
BY InitInv, NextInv, PTL DEF Spec

(* The mutable projection of every shot always shows its head revision,     *)
(* through any mix of shot commands and publications                        *)
(* (_apply_published_shot_projection, _record_legacy_shot_revision).        *)
THEOREM ProjectionShowsHead == Spec => []HeadShown
<1>1. Inv => HeadShown
  BY Zenon DEF Inv
<1> QED
  BY <1>1, InvAlways, PTL

(* The head of a shot never moves to a revision that was stored before the  *)
(* command: linking an older revision regresses nothing.                    *)
THEOREM HeadNeverRegresses == Spec => HeadAdvances
<1> DEFINE A == \A s \in Shot : head'[s] # head[s] => revs[head'[s]] = None
<1>1. Inv /\ [Next]_vars => [A]_vars
  <2> SUFFICES ASSUME Inv, [Next]_vars, NEW s \in Shot, head'[s] # head[s]
               PROVE  revs[head'[s]] = None
    BY Zenon
  <2>1. ASSUME NEW t \in Timeline, NEW k \in Key, NEW q \in Request,
               NEW o \in Orders(DOMAIN q.rows), Publish(t, k, q, o)
        PROVE  revs[head'[s]] = None
    <3>1. NewOf(q.rows, s) # {} /\ head'[s] = Last(o, NewOf(q.rows, s))
      BY <2>1, ZenonT(60) DEF Publish, HeadAfter
    <3> QED
      BY SMTT(40), <3>1, LastNew
  <2>2. ASSUME NEW u \in Shot, NEW c \in Content, NEW r \in RevId, Shown(u, c, r)
        PROVE  revs[head'[s]] = None
    BY <2>2, ZenonT(60) DEF Shown, RecordRevision, Inv, TypeOK
  <2>3. ASSUME NEW u \in Shot, NEW x \in Text, NEW n \in 0..MaxHead, BindText(u, n, x)
        PROVE  revs[head'[s]] = None
    BY <2>3, Zenon DEF BindText, shots
  <2>4. CASE UNCHANGED vars
    BY <2>4, Zenon DEF vars, shots
  <2> QED
    BY <2>1, <2>2, <2>3, <2>4, StepCases, Zenon
<1> QED
  BY <1>1, InvAlways, PTL DEF Spec, HeadAdvances

(* What a shot shows never changes without its version, so an edit written  *)
(* against a version is refused once anything it did not see was written.   *)
THEOREM VersionSeesChanges == Spec => VersionTracks
<1> DEFINE A == \A s \in Shot : proj'[s] # proj[s] => ver'[s] > ver[s]
<1>1. Inv /\ [Next]_vars => [A]_vars
  <2> SUFFICES ASSUME Inv, [Next]_vars, NEW s \in Shot, proj'[s] # proj[s]
               PROVE  ver'[s] > ver[s]
    BY Zenon
  <2>1. ASSUME NEW t \in Timeline, NEW k \in Key, NEW q \in Request,
               NEW o \in Orders(DOMAIN q.rows), Publish(t, k, q, o)
        PROVE  ver'[s] > ver[s]
    <3>1. NewOf(q.rows, s) # {}
      BY <2>1, ZenonT(60) DEF Publish, Projected
    <3>2. NewOf(q.rows, s) \in SUBSET RevId
      BY RequestRows, Zenon DEF NewOf, New
    <3>3. IsFiniteSet(NewOf(q.rows, s))
      BY Zenon, <3>2, FiniteAssumption, FS_Subset
    <3>4. Cardinality(NewOf(q.rows, s)) \in Nat /\ Cardinality(NewOf(q.rows, s)) # 0
      BY Zenon, <3>1, <3>3, FS_CardinalityType, FS_EmptySet
    <3>5. ver[s] \in Nat
      BY BoundAssumption, SMTT(40) DEF Inv, TypeOK
    <3>6. ver' = VersionAfter(q.rows)
      BY <2>1, Zenon DEF Publish
    <3>7. ver'[s] = ver[s] + Cardinality(NewOf(q.rows, s))
      BY <3>6, Zenon DEF VersionAfter
    <3> HIDE <2>1
    <3> QED
      BY <3>4, <3>5, <3>7, SMTT(40)
  <2>2. ASSUME NEW u \in Shot, NEW c \in Content, NEW r \in RevId, Shown(u, c, r)
        PROVE  ver'[s] > ver[s]
    BY <2>2, Zenon DEF Shown, Inv, TypeOK
  <2>3. ASSUME NEW u \in Shot, NEW x \in Text, NEW n \in 0..MaxHead, BindText(u, n, x)
        PROVE  ver'[s] > ver[s]
    BY <2>3, Zenon DEF BindText, shots
  <2>4. CASE UNCHANGED vars
    BY <2>4, Zenon DEF vars, shots
  <2> QED
    BY <2>1, <2>2, <2>3, <2>4, StepCases, Zenon
<1> QED
  BY <1>1, InvAlways, PTL DEF Spec, VersionTracks

-----------------------------------------------------------------------------
(* What the store keeps for ever: the chain of publications of a timeline,  *)
(* the receipts a retry is answered from, and the text revisions pin.       *)

(* The steps that publish nothing leave compositions, events and receipts,  *)
(* and every stored revision.                                               *)
LEMMA QuietStep ==
  ASSUME Inv,
         \/ \E s \in Shot, c \in Content, r \in RevId : Shown(s, c, r)
         \/ \E s \in Shot, x \in Text, n \in 0..MaxHead : BindText(s, n, x)
         \/ UNCHANGED vars
  PROVE  /\ UNCHANGED publications
         /\ \A r \in RevId : revs[r] # None => revs'[r] = revs[r]
<1>1. ASSUME NEW s \in Shot, NEW c \in Content, NEW r \in RevId, Shown(s, c, r)
      PROVE  /\ UNCHANGED publications
             /\ \A x \in RevId : revs[x] # None => revs'[x] = revs[x]
  BY <1>1, ZenonT(60) DEF Shown, RecordRevision, Inv, TypeOK
<1>2. ASSUME NEW s \in Shot, NEW x \in Text, NEW n \in 0..MaxHead, BindText(s, n, x)
      PROVE  UNCHANGED publications /\ UNCHANGED revs
  BY <1>2, Zenon DEF BindText, shots
<1>3. CASE UNCHANGED vars
  BY <1>3, Zenon DEF vars, shots
<1> QED
  BY <1>1, <1>2, <1>3, Zenon

(* The events of a timeline after a publication. *)
LEMMA PublishEvents ==
  ASSUME NEW t \in Timeline, NEW k \in Key, NEW q \in Request, NEW o, TypeOK, Publish(t, k, q, o)
  PROVE  /\ Len(events'[t]) = Len(events[t]) + 1
         /\ events'[t][Len(events[t]) + 1] = [old |-> q.expected, new |-> q.parent]
         /\ \A i \in 1..Len(events[t]) : events'[t][i] = events[t][i]
         /\ \A u \in Timeline \ {t} : events'[u] = events[u]
         /\ Len(events[t]) \in Nat
<1>1. events[t] \in Seq(Event) /\ [old |-> q.expected, new |-> q.parent] \in Event
  BY RequestRows, ZenonT(60) DEF TypeOK, Event
<1>2. events' = [events EXCEPT ![t] = Append(events[t], [old |-> q.expected, new |-> q.parent])]
  BY ZenonT(60) DEF Publish
<1>3. /\ Len(Append(events[t], [old |-> q.expected, new |-> q.parent])) = Len(events[t]) + 1
      /\ Append(events[t], [old |-> q.expected, new |-> q.parent])[Len(events[t]) + 1]
           = [old |-> q.expected, new |-> q.parent]
      /\ \A i \in 1..Len(events[t]) :
           Append(events[t], [old |-> q.expected, new |-> q.parent])[i] = events[t][i]
      /\ Len(events[t]) \in Nat
  <2> DEFINE e == [old |-> q.expected, new |-> q.parent]
  <2> HIDE DEF e
  <2>1. /\ Len(Append(events[t], e)) = Len(events[t]) + 1
        /\ Append(events[t], e)[Len(events[t]) + 1] = e
        /\ \A i \in 1..Len(events[t]) : Append(events[t], e)[i] = events[t][i]
        /\ Len(events[t]) \in Nat
    BY <1>1
  <2> QED
    BY <2>1, Zenon DEF e
<1> QED
  BY <1>2, <1>3, ZenonT(60) DEF TypeOK

(* The publications of a timeline form one chain of heads: none is lost. *)
THEOREM PublicationsChain == Spec => []HeadChain
<1>1. Init => HeadChain
  BY DEF Init, HeadChain
<1>2. Inv /\ HeadChain /\ [Next]_vars => HeadChain'
  <2> SUFFICES ASSUME Inv, HeadChain, [Next]_vars PROVE HeadChain'
    BY Zenon
  <2>1. ASSUME NEW t \in Timeline, NEW k \in Key, NEW q \in Request,
               NEW o \in Orders(DOMAIN q.rows), Publish(t, k, q, o)
        PROVE  HeadChain'
    <3>1. /\ Len(events'[t]) = Len(events[t]) + 1
          /\ events'[t][Len(events[t]) + 1] = [old |-> q.expected, new |-> q.parent]
          /\ \A i \in 1..Len(events[t]) : events'[t][i] = events[t][i]
          /\ \A u \in Timeline \ {t} : events'[u] = events[u]
          /\ Len(events[t]) \in Nat
      BY <2>1, PublishEvents, Zenon DEF Inv
    <3>2. /\ phead'[t] = q.parent /\ phead[t] = q.expected
          /\ \A u \in Timeline \ {t} : phead'[u] = phead[u]
      BY <2>1, ZenonT(60) DEF Publish, Acceptable, HeadExpected, Inv, TypeOK
    <3>3. events[t] \in Seq(Event) /\ events'[t] \in Seq(Event)
      BY <2>1, PublishInv, ZenonT(60) DEF Inv, TypeOK
    <3> SUFFICES ASSUME NEW u \in Timeline
                 PROVE  /\ \A i \in 1..Len(events'[u]) :
                             events'[u][i].old = IF i = 1 THEN None ELSE events'[u][i - 1].new
                        /\ phead'[u] = IF events'[u] = <<>> THEN None
                                       ELSE events'[u][Len(events'[u])].new
      BY ZenonT(60) DEF HeadChain
    <3>4. CASE u # t
      BY <3>1, <3>2, <3>4, SMTT(90) DEF HeadChain
    <3>5. CASE u = t
      <4>1. events'[t] # <<>>
        BY <3>1, <3>3
      <4>2. phead'[t] = events'[t][Len(events'[t])].new
        BY SMTT(40), <3>1, <3>2
      <4>3. ASSUME NEW i \in 1..Len(events'[t])
            PROVE  events'[t][i].old = IF i = 1 THEN None ELSE events'[t][i - 1].new
        <5>1. CASE i \in 1..Len(events[t])
          <6>1. events[t][i].old = IF i = 1 THEN None ELSE events[t][i - 1].new
            BY <5>1, Zenon DEF HeadChain
          <6>2. i # 1 => i - 1 \in 1..Len(events[t])
            BY SMTT(40), <5>1, <3>1
          <6> QED
            BY Zenon, <5>1, <6>1, <6>2, <3>1
        <5>2. CASE i = Len(events[t]) + 1
          <6>1. events'[t][i].old = phead[t]
            BY SMTT(40), <5>2, <3>1, <3>2
          <6>2. phead[t] = IF events[t] = <<>> THEN None ELSE events[t][Len(events[t])].new
            BY Zenon DEF HeadChain
          <6>3. CASE events[t] = <<>>
            BY SMTT(40), <5>2, <6>1, <6>2, <6>3, <3>1
          <6>4. CASE events[t] # <<>>
            <7>1. Len(events[t]) \in 1..Len(events[t])
              BY SMTT(40), <3>3, <6>4
            <7> QED
              BY <5>2, <6>1, <6>2, <6>4, <7>1, <3>1
          <6> QED
            BY Zenon, <6>3, <6>4
        <5> QED
          BY SMTT(40), <5>1, <5>2, <3>1
      <4> QED
        BY <3>5, <4>1, <4>2, <4>3, Zenon
    <3> QED
      BY Zenon, <3>4, <3>5
  <2>2. CASE UNCHANGED publications
    BY <2>2, Zenon DEF publications, HeadChain
  <2> QED
    BY <2>1, <2>2, StepCases, QuietStep, Zenon
<1> QED
  BY <1>1, <1>2, InvAlways, PTL DEF Spec

(* The receipt of key k agrees with its event and with the stored rows. *)
Exact(k) ==
  /\ events[ledger[k].timeline][ledger[k].event]
       = [old |-> ledger[k].request.expected, new |-> ledger[k].request.parent]
  /\ ledger[k].request.rows = Closure(ledger[k].request.parent)
  /\ parents[ledger[k].request.parent] # None

Receipts == \A k \in Key : ledger[k] # None => Exact(k)

(* A receipt stays exact while stored rows and its event stay. *)
LEMMA ReceiptStays ==
  ASSUME NEW k \in Key, Inv, Exact(k), ledger[k] # None, ledger'[k] = ledger[k],
         \A r \in RevId : revs[r] # None => revs'[r] = revs[r],
         \A p \in ParentId : parents[p] # None => parents'[p] = parents[p],
         events'[ledger[k].timeline][ledger[k].event] = events[ledger[k].timeline][ledger[k].event]
  PROVE  Exact(k)'
<1> DEFINE p == ledger[k].request.parent
<1>1. p \in ParentId
  BY ZenonT(60) DEF Inv, TypeOK, Request
<1>2. parents[p] # None
  BY Zenon DEF Exact
<1>3. parents'[p] = parents[p] /\ parents[p].occ \in SUBSET RevId
  BY <1>1, <1>2, ZenonT(60) DEF Inv, TypeOK, Parent
<1>4. \A r \in parents[p].occ : revs'[r] = revs[r]
  BY <1>1, <1>2, <1>3, Zenon DEF Inv, Closed
<1>5. [r \in parents'[p].occ |-> revs'[r]] = [r \in parents[p].occ |-> revs[r]]
  BY <1>3, <1>4, Zenon
<1> QED
  BY <1>2, <1>3, <1>5, ZenonT(60) DEF Exact, Closure

(* The answer to every publication can be rebuilt exactly at any later time *)
(* (_publication_replay_result), so that compacting the ledger loses        *)
(* nothing.                                                                 *)
THEOREM PublicationsReplay == Spec => []ReplayExact
<1>1. Init => Receipts
  BY Zenon DEF Init, Receipts
<1>2. Inv /\ Receipts /\ [Next]_vars => Receipts'
  <2> SUFFICES ASSUME Inv, Receipts, [Next]_vars, NEW j \in Key, ledger'[j] # None
               PROVE  Exact(j)'
    BY Zenon DEF Receipts
  <2>1. ASSUME NEW t \in Timeline, NEW k \in Key, NEW q \in Request,
               NEW o \in Orders(DOMAIN q.rows), Publish(t, k, q, o)
        PROVE  Exact(j)'
    <3>1. /\ Len(events'[t]) = Len(events[t]) + 1
          /\ events'[t][Len(events[t]) + 1] = [old |-> q.expected, new |-> q.parent]
          /\ \A i \in 1..Len(events[t]) : events'[t][i] = events[t][i]
          /\ \A u \in Timeline \ {t} : events'[u] = events[u]
          /\ Len(events[t]) \in Nat
      BY <2>1, PublishEvents, Zenon DEF Inv
    <3>2. /\ \A r \in RevId : revs[r] # None => revs'[r] = revs[r]
          /\ \A p \in ParentId : parents[p] # None => parents'[p] = parents[p]
      BY <2>1, PublishKeeps, Zenon DEF Inv
    <3>3. CASE j = k
      <4>1. ledger'[j] = [timeline |-> t, request |-> q, event |-> Len(events[t]) + 1]
        BY <2>1, <3>3, ZenonT(60) DEF Publish, AppendedEvent, Inv, TypeOK
      <4>2. parents'[q.parent] = [timeline |-> t, occ |-> DOMAIN q.rows]
        BY <2>1, RequestRows, ZenonT(60) DEF Publish, Occurrences, Inv, TypeOK
      <4>3. \A r \in DOMAIN q.rows : revs'[r] = q.rows[r]
        BY <2>1, RequestRows, ZenonT(60) DEF Publish
      <4>4. PICK R \in SUBSET RevId : q.rows \in [R -> Revision]
        BY Zenon DEF Request
      <4>5. [r \in parents'[q.parent].occ |-> revs'[r]] = q.rows
        BY SMTT(40), <4>2, <4>3, <4>4
      <4>6. parents'[q.parent] # None
        BY <4>2, RequestRows, NoneAssumption, SMTT(40) DEF Parent
      <4>7. /\ ledger'[j].timeline = t /\ ledger'[j].event = Len(events[t]) + 1
            /\ ledger'[j].request = q
        BY <4>1, SMTT(40)
      <4>8. events'[ledger'[j].timeline][ledger'[j].event]
              = [old |-> ledger'[j].request.expected, new |-> ledger'[j].request.parent]
        BY <4>7, <3>1, ZenonT(60)
      <4>9. ledger'[j].request.rows
              = [r \in parents'[ledger'[j].request.parent].occ |-> revs'[r]]
        BY <4>5, <4>7, ZenonT(60)
      <4>10. parents'[ledger'[j].request.parent] # None
        BY <4>6, <4>7, ZenonT(60)
      <4> QED
        BY <4>8, <4>9, <4>10, ZenonT(60) DEF Exact, Closure
    <3>4. CASE j # k
      <4>1. ledger'[j] = ledger[j]
        BY <2>1, <3>4, ZenonT(60) DEF Publish, Inv, TypeOK
      <4>2. ledger[j].event \in 1..Len(events[ledger[j].timeline]) /\ ledger[j].timeline \in Timeline
        BY <4>1, Zenon DEF Inv, TypeOK
      <4>3. events'[ledger[j].timeline][ledger[j].event] = events[ledger[j].timeline][ledger[j].event]
        BY Zenon, <4>2, <3>1
      <4>4. Exact(j)
        BY <4>1, Zenon DEF Receipts
      <4> QED
        BY Zenon, <4>1, <4>3, <4>4, <3>2, ReceiptStays
    <3> QED
      BY Zenon, <3>3, <3>4
  <2>2. CASE /\ UNCHANGED publications
             /\ \A r \in RevId : revs[r] # None => revs'[r] = revs[r]
    <3>1. ledger' = ledger /\ parents' = parents /\ events' = events
      BY <2>2, Zenon DEF publications
    <3>2. ledger[j] # None /\ ledger'[j] = ledger[j] /\ Exact(j)
      BY <3>1, Zenon DEF Receipts
    <3> QED
      BY Zenon, <2>2, <3>1, <3>2, ReceiptStays
  <2> QED
    BY <2>1, <2>2, StepCases, QuietStep, Zenon
<1>3. Inv /\ Receipts => ReplayExact
  <2> SUFFICES ASSUME Inv, Receipts, NEW k \in Key, ledger[k] # None
               PROVE  LET e == events[ledger[k].timeline][ledger[k].event]
                      IN  ledger[k].request =
                            [expected |-> e.old, parent |-> e.new, rows |-> Closure(e.new)]
    BY ZenonT(60) DEF ReplayExact
  <2>1. ledger[k].request \in Request /\ Exact(k)
    BY Zenon DEF Inv, TypeOK, Receipts
  <2>2. ledger[k].request = [expected |-> ledger[k].request.expected,
                             parent |-> ledger[k].request.parent, rows |-> ledger[k].request.rows]
    BY <2>1, Zenon DEF Request
  <2> DEFINE f == events[ledger[k].timeline][ledger[k].event]
  <2>3. f = [old |-> ledger[k].request.expected, new |-> ledger[k].request.parent]
    BY <2>1, ZenonT(60) DEF Exact
  <2>4. ledger[k].request.rows = Closure(ledger[k].request.parent)
    BY <2>1, ZenonT(60) DEF Exact
  <2> HIDE DEF f
  <2>5. f.old = ledger[k].request.expected /\ f.new = ledger[k].request.parent
    BY <2>3, Zenon
  <2>6. ledger[k].request = [expected |-> f.old, parent |-> f.new, rows |-> Closure(f.new)]
    BY <2>2, <2>4, <2>5, ZenonT(60)
  <2> QED
    BY <2>6, ZenonT(60) DEF f
<1> QED
  BY <1>1, <1>2, <1>3, InvAlways, PTL DEF Spec

(* What a revision pins of its shot's text can be read for ever. *)
THEOREM PinsStayReadable == Spec => []PinsResolve
<1>1. Init => PinsResolve
  BY DEF Init, PinsResolve
<1>2. Inv /\ PinsResolve /\ [Next]_vars => PinsResolve'
  <2> SUFFICES ASSUME Inv, PinsResolve, [Next]_vars,
                      NEW r \in RevId, revs'[r] # None, revs'[r].pin # 0
               PROVE  /\ revs'[r].pin <= Len(texts'[revs'[r].shot])
                      /\ texts'[revs'[r].shot][revs'[r].pin] = revs'[r].text
    BY Zenon DEF PinsResolve
  <2> DEFINE Goal == /\ revs'[r].pin <= Len(texts'[revs'[r].shot])
                     /\ texts'[revs'[r].shot][revs'[r].pin] = revs'[r].text
  <2>1. ASSUME NEW t \in Timeline, NEW k \in Key, NEW q \in Request,
               NEW o \in Orders(DOMAIN q.rows), Publish(t, k, q, o)
        PROVE  Goal
    <3>1. texts' = texts
      BY <2>1, ZenonT(60) DEF Publish
    <3>2. CASE revs[r] # None
      <4>1. revs'[r] = revs[r]
        BY <2>1, <3>2, PublishKeeps, Zenon DEF Inv
      <4> QED
        BY <3>1, <3>2, <4>1, Zenon DEF PinsResolve
    <3>3. CASE revs[r] = None
      <4>1. r \in DOMAIN q.rows /\ revs'[r] = q.rows[r]
        BY <2>1, <3>3, ZenonT(60) DEF Publish
      <4>2. PinsCurrent(q.rows[r]) /\ q.rows[r] \in Revision
        BY <2>1, <3>3, <4>1, RequestRows, ZenonT(60) DEF Publish, Acceptable, New
      <4>3. texts[q.rows[r].shot] \in Seq(Text)
        BY <4>2, ZenonT(60) DEF Inv, TypeOK, Revision
      <4> QED
        BY <3>1, <4>1, <4>2, <4>3, SMTT(40) DEF PinsCurrent
    <3> QED
      BY Zenon, <3>2, <3>3
  <2>2. ASSUME NEW s \in Shot, NEW c \in Content, NEW n \in RevId, Shown(s, c, n)
        PROVE  Goal
    <3>1. r # n /\ texts' = texts
      BY <2>2, ZenonT(60) DEF Shown, RecordRevision, Inv, TypeOK
    <3>2. revs'[r] = revs[r]
      BY <2>2, <3>1, ZenonT(60) DEF Shown, RecordRevision, Inv, TypeOK
    <3> QED
      BY <3>1, <3>2, Zenon DEF PinsResolve
  <2>3. ASSUME NEW s \in Shot, NEW x \in Text, NEW n \in 0..MaxHead, BindText(s, n, x)
        PROVE  Goal
    <3>1. revs' = revs /\ texts' = [texts EXCEPT ![s] = Append(texts[s], x)]
      BY <2>3, Zenon DEF BindText, RecordTextEvent, shots
    <3>2. revs[r] \in Revision /\ revs[r].shot \in Shot /\ revs[r].pin \in Nat
      BY <3>1, BoundAssumption, SMTT(40) DEF Inv, TypeOK, Revision
    <3>3. /\ revs[r].pin <= Len(texts[revs[r].shot])
          /\ texts[revs[r].shot][revs[r].pin] = revs[r].text
      BY <3>1, Zenon DEF PinsResolve
    <3>4. /\ texts[s] \in Seq(Text)
          /\ Len(Append(texts[s], x)) = Len(texts[s]) + 1
          /\ \A i \in 1..Len(texts[s]) : Append(texts[s], x)[i] = texts[s][i]
          /\ Len(texts[s]) \in Nat
      BY SMTT(40) DEF Inv, TypeOK
    <3>5. revs[r].pin \in 1..Len(texts[revs[r].shot])
      <4>1. Len(texts[revs[r].shot]) \in Nat
        BY <3>2, SMTT(40) DEF Inv, TypeOK
      <4> QED
        BY SMTT(40), <3>1, <3>2, <3>3, <4>1
    <3>6. CASE revs[r].shot = s
      <4>1. texts'[s] = Append(texts[s], x)
        BY <3>1, Zenon DEF Inv, TypeOK
      <4>2. revs[r].pin \in 1..Len(texts[s])
        BY <3>5, <3>6, Zenon
      <4>3. Append(texts[s], x)[revs[r].pin] = revs[r].text
        BY <3>3, <3>4, <3>6, <4>2, Zenon
      <4>4. revs[r].pin <= Len(Append(texts[s], x))
        BY <3>2, <3>4, <4>2
      <4> QED
        BY <3>1, <3>6, <4>1, <4>3, <4>4, Zenon
    <3>7. CASE revs[r].shot # s
      <4>1. texts'[revs[r].shot] = texts[revs[r].shot]
        BY <3>1, <3>2, <3>7, Zenon DEF Inv, TypeOK
      <4> QED
        BY ZenonT(60), <3>1, <3>3, <4>1
    <3> QED
      BY <3>6, <3>7, Zenon
  <2>4. CASE UNCHANGED vars
    BY <2>4, Zenon DEF vars, shots, PinsResolve
  <2> QED
    BY <2>1, <2>2, <2>3, <2>4, StepCases, Zenon
<1> QED
  BY <1>1, <1>2, InvAlways, PTL DEF Spec

-----------------------------------------------------------------------------
(* Lifecycles of managed outputs: ManagedOutputs. *)

(* A row of a lifecycle. *)
LifeRows ==
  [state : {"temporary", "available", "expired", "reclaimed", "promoted"}, version : Nat,
   pinned : BOOLEAN, lease : [id : Clients \cup {"unnamed"}, live : BOOLEAN] \cup {Unknown}]

(* What a client holds was read: it is not newer than the row, and while    *)
(* the version is the same only a lease can have lapsed.                    *)
ViewKnown(v, rows) ==
  /\ v.id \in DOMAIN rows
  /\ v.row.version \in Nat /\ v.row.version <= rows[v.id].version
  /\ v.row.version = rows[v.id].version =>
       /\ v.row.state = rows[v.id].state /\ v.row.pinned = rows[v.id].pinned
       /\ (v.row.lease = Unknown) = (rows[v.id].lease = Unknown)

(* Whatever the clients hold was read. *)
ViewsKnown == \A c \in Clients : views[c] # Unknown => ViewKnown(views[c], life)

(* The inductive invariant behind LifecycleOnSeen: only settled tasks have  *)
(* lifecycles, so a settlement never resets one.                            *)
LifecycleInv ==
  /\ life \in [DOMAIN life -> LifeRows]
  /\ \A id \in DOMAIN life : id[1] \in DOMAIN settled
  /\ views = [c \in Clients |-> views[c]]
  /\ ViewsKnown

(* A row of life has moved on, or only its lease has lapsed. *)
Later(old, new) ==
  \/ new.version > old.version
  \/ /\ new.version = old.version /\ new.state = old.state /\ new.pinned = old.pinned
     /\ (new.lease = Unknown) = (old.lease = Unknown)

(* What a client read stays known when rows only move on. *)
LEMMA ViewsKept ==
  ASSUME LifecycleInv, life' \in [DOMAIN life' -> LifeRows], DOMAIN life \subseteq DOMAIN life',
         \A id \in DOMAIN life : Later(life[id], life'[id]),
         \A id \in DOMAIN life' : id[1] \in DOMAIN settled',
         views' = [c \in Clients |-> views'[c]],
         \A c \in Clients : views'[c] # Unknown => views'[c] = views[c]
  PROVE  LifecycleInv'
<1>1. ASSUME NEW c \in Clients, views'[c] # Unknown PROVE ViewKnown(views'[c], life')
  <2>1. PICK v : v = views'[c] /\ ViewKnown(v, life)
    BY <1>1, Zenon DEF LifecycleInv, ViewsKnown
  <2>2. v.id \in DOMAIN life /\ life[v.id] \in LifeRows /\ life'[v.id] \in LifeRows
    BY <2>1, Zenon DEF LifecycleInv, ViewKnown
  <2>3. Later(life[v.id], life'[v.id])
    BY <2>2, Zenon
  <2> DEFINE old == life[v.id]
             new == life'[v.id]
  <2>4. old.version \in Nat /\ new.version \in Nat
    BY <2>2, Zenon DEF LifeRows
  <2> HIDE DEF old, new
  <2>5. v.row.version \in Nat /\ v.row.version <= old.version /\ new.version >= old.version
    BY <2>1, <2>3, <2>4 DEF ViewKnown, Later, old, new
  <2>6. ASSUME v.row.version = new.version
        PROVE  /\ v.row.state = new.state /\ v.row.pinned = new.pinned
               /\ (v.row.lease = Unknown) = (new.lease = Unknown)
    <3>1. v.row.version = old.version /\ ~(new.version > old.version)
      BY <2>4, <2>5, <2>6
    <3> QED
      BY <2>1, <2>3, <3>1, Zenon DEF ViewKnown, Later, old, new
  <2>7. v.row.version <= new.version
    BY <2>4, <2>5
  <2>8. v.id \in DOMAIN life'
    BY <2>2, Zenon
  <2>9. ViewKnown(v, life')
    BY <2>5, <2>6, <2>7, <2>8, Zenon DEF ViewKnown, new
  <2> QED
    BY <2>1, <2>9, Zenon
<1>2. ViewsKnown'
  BY <1>1, Zenon DEF ViewsKnown
<1> QED
  BY <1>2, Zenon DEF LifecycleInv

(* A lifecycle update writes the next version of the row it was checked on. *)
LEMMA UpdateAdvances ==
  ASSUME LifecycleInv, NEW c \in Clients, NEW asked \in {c, Unknown}, UpdateLifecycle(c, asked)
  PROVE  LET id == views[c].id
         IN  /\ views[c] # Unknown /\ id \in DOMAIN life
             /\ life[id].version = views[c].row.version
             /\ \E new \in LifeRows : new.version = life[id].version + 1 /\ life' = [life EXCEPT ![id] = new]
             /\ views' = [views EXCEPT ![c] = Unknown] /\ UNCHANGED settled
<1> DEFINE id == views[c].id
           row == life[id]
<1>1. /\ views[c] # Unknown /\ id \in DOMAIN life /\ row.version = views[c].row.version
      /\ views' = [views EXCEPT ![c] = Unknown] /\ UNCHANGED settled
  BY DEF UpdateLifecycle, UnchangedSince, LifecycleInv, ViewsKnown, ViewKnown
<1>2. row \in LifeRows
  BY <1>1 DEF LifecycleInv
<1>3. ASSUME NEW allowed, NEW new \in LifeRows, ChangeLifecycle(c, row, allowed, new)
      PROVE  \E r \in LifeRows : r.version = row.version + 1 /\ life' = [life EXCEPT ![id] = r]
  <2>1. [new EXCEPT !.version = row.version + 1] \in LifeRows
        /\ [new EXCEPT !.version = row.version + 1].version = row.version + 1
    BY <1>2 DEF LifeRows
  <2> QED
    BY <1>3, <2>1, Zenon DEF ChangeLifecycle
<1>4. CASE Lease(c, row, asked)
  <2> DEFINE lease == [id |-> IF asked # Unknown THEN asked
                              ELSE IF row.lease # Unknown THEN row.lease.id ELSE "unnamed",
                       live |-> TRUE]
             new == [row EXCEPT !.version = @ + 1, !.lease = lease]
  <2>1. lease \in [id : Clients \cup {"unnamed"}, live : BOOLEAN]
    BY <1>2 DEF LifeRows
  <2>3. life' = [life EXCEPT ![id] = new]
    BY <1>4 DEF Lease
  <2> HIDE DEF lease, row
  <2>2. new \in LifeRows /\ new.version = row.version + 1
    <3> DEFINE next == [row EXCEPT !.version = row.version + 1]
    <3>1. next \in LifeRows /\ next.version = row.version + 1
      BY <1>2 DEF LifeRows
    <3>2. new = [next EXCEPT !.lease = lease]
      OBVIOUS
    <3> HIDE DEF new, next
    <3> QED
      BY <2>1, <3>1, <3>2 DEF LifeRows
  <2> USE DEF row
  <2> QED
    BY <1>1, <2>2, <2>3, Zenon
<1> DEFINE Advances == \E r \in LifeRows : r.version = row.version + 1 /\ life' = [life EXCEPT ![id] = r]
<1>5. CASE \/ ChangeLifecycle(c, row, LeaseMine(row, asked), [row EXCEPT !.lease = Unknown])
           \/ ChangeLifecycle(c, row, ~Gone(row), [row EXCEPT !.pinned = TRUE])
           \/ ChangeLifecycle(c, row, TRUE, [row EXCEPT !.pinned = FALSE])
  <2>1. /\ [row EXCEPT !.lease = Unknown] \in LifeRows
        /\ [row EXCEPT !.pinned = TRUE] \in LifeRows /\ [row EXCEPT !.pinned = FALSE] \in LifeRows
    BY <1>2, Zenon DEF LifeRows
  <2>2. Advances
    BY <1>3, <1>5, <2>1, Zenon
  <2> QED
    BY <1>1, <2>2, Zenon
<1>6. CASE \/ ChangeLifecycle(c, row, row.state = "temporary" /\ ~Protected(row),
                     [row EXCEPT !.state = "expired"])
           \/ ChangeLifecycle(c, row, row.state = "expired" /\ ~Protected(row),
                     [row EXCEPT !.state = "reclaimed", !.lease = Unknown])
           \/ ChangeLifecycle(c, row, row.state \in {"available", "temporary"},
                     [row EXCEPT !.state = "promoted", !.lease = Unknown])
  <2>1. /\ [row EXCEPT !.state = "expired"] \in LifeRows
        /\ [row EXCEPT !.state = "reclaimed", !.lease = Unknown] \in LifeRows
        /\ [row EXCEPT !.state = "promoted", !.lease = Unknown] \in LifeRows
    BY <1>2, Zenon DEF LifeRows
  <2>2. Advances
    BY <1>3, <1>6, <2>1, Zenon
  <2> QED
    BY <1>1, <2>2, Zenon
<1> QED
  BY <1>4, <1>5, <1>6, ZenonT(40) DEF UpdateLifecycle

(* Every step preserves it. *)
LEMMA LifecycleStep == LifecycleInv /\ [OutputNext]_outputVars => LifecycleInv'
<1> SUFFICES ASSUME LifecycleInv, [OutputNext]_outputVars PROVE LifecycleInv'
  OBVIOUS
<1>0. \A r : Later(r, r)
  BY Zenon DEF Later
<1>1. ASSUME NEW t, SettleOutput(t) PROVE LifecycleInv'
  <2>1. PICK o \in Outputs :
          /\ settled' = Put(settled, t, o)
          /\ life' = Put(life, <<t, o.published>>,
                         NewLifecycle(IF o.durable THEN "available" ELSE "temporary"))
    BY <1>1, Zenon DEF SettleOutput, AssociationId
  <2>2. t \notin DOMAIN settled /\ UNCHANGED views
    BY <1>1, Zenon DEF SettleOutput
  <2>3. NewLifecycle(IF o.durable THEN "available" ELSE "temporary") \in LifeRows
    BY DEF NewLifecycle, LifeRows
  <2>4. <<t, o.published>> \notin DOMAIN life
    BY <2>2, Zenon DEF LifecycleInv
  <2>5. life' \in [DOMAIN life' -> LifeRows] /\ DOMAIN life' = DOMAIN life \cup {<<t, o.published>>}
    BY <2>1, <2>3, Zenon DEF Put, LifecycleInv
  <2>6. \A id \in DOMAIN life : life'[id] = life[id]
    BY <2>1, <2>4, Zenon DEF Put
  <2>7. \A id \in DOMAIN life' : id[1] \in DOMAIN settled'
    BY <2>1, <2>5 DEF Put, LifecycleInv
  <2> QED
    BY <1>0, <2>2, <2>5, <2>6, <2>7, ViewsKept, Zenon DEF LifecycleInv
<1>2. ASSUME NEW c \in Clients, NEW id \in DOMAIN life, ReadLifecycle(c, id) PROVE LifecycleInv'
  <2>1. views' = [views EXCEPT ![c] = [id |-> id, row |-> life[id]]] /\ UNCHANGED <<life, settled>>
    BY <1>2 DEF ReadLifecycle
  <2>2. life[id] \in LifeRows
    BY Zenon DEF LifecycleInv
  <2>3. ViewKnown([id |-> id, row |-> life[id]], life)
    BY <2>2 DEF ViewKnown, LifeRows
  <2>4. ASSUME NEW d \in Clients, views'[d] # Unknown PROVE ViewKnown(views'[d], life')
    <3>1. PICK v : v = views'[d] /\ ViewKnown(v, life)
      <4>1. views'[d] \in {views[d], [id |-> id, row |-> life[id]]}
        BY <2>1 DEF LifecycleInv
      <4> QED
        BY <2>3, <2>4, <4>1, Zenon DEF LifecycleInv, ViewsKnown
    <3>2. ViewKnown(v, life')
      BY <2>1, <3>1, Zenon
    <3> QED
      BY <3>1, <3>2, Zenon
  <2>5. ViewsKnown'
    BY <2>4, Zenon DEF ViewsKnown
  <2>6. views' = [d \in Clients |-> views'[d]]
    BY <2>1, Zenon DEF LifecycleInv
  <2> QED
    BY <2>1, <2>5, <2>6, Zenon DEF LifecycleInv
<1>3. ASSUME NEW c \in Clients, GiveUp(c) PROVE LifecycleInv'
  BY <1>0, <1>3, ViewsKept, Zenon DEF GiveUp, LifecycleInv
<1>4. ASSUME NEW c \in Clients, NEW asked \in {c, Unknown}, UpdateLifecycle(c, asked) PROVE LifecycleInv'
  <2> DEFINE id == views[c].id
  <2>1. PICK new \in LifeRows : new.version = life[id].version + 1 /\ life' = [life EXCEPT ![id] = new]
    BY <1>4, UpdateAdvances, Zenon
  <2>2. id \in DOMAIN life /\ views' = [views EXCEPT ![c] = Unknown] /\ UNCHANGED settled
    BY <1>4, UpdateAdvances, Zenon
  <2> HIDE DEF id
  <2>3. life' \in [DOMAIN life' -> LifeRows] /\ DOMAIN life' = DOMAIN life
    BY <2>1, Zenon DEF LifecycleInv
  <2>4. ASSUME NEW i \in DOMAIN life PROVE Later(life[i], life'[i])
    BY <2>1, <2>2 DEF Later, LifecycleInv, LifeRows
  <2>5. /\ views' = [d \in Clients |-> views'[d]]
        /\ \A d \in Clients : views'[d] # Unknown => views'[d] = views[d]
    BY <2>2 DEF LifecycleInv
  <2>6. \A i \in DOMAIN life' : i[1] \in DOMAIN settled'
    BY <2>2, <2>3 DEF LifecycleInv
  <2> QED
    BY <2>3, <2>4, <2>5, <2>6, ViewsKept, Zenon
<1>5. ASSUME NEW id \in DOMAIN life, LeaseLapses(id) PROVE LifecycleInv'
  <2>1. /\ life[id].lease # Unknown /\ life' = [life EXCEPT ![id].lease.live = FALSE]
        /\ UNCHANGED <<settled, views>>
    BY <1>5 DEF LeaseLapses, LeaseActive
  <2>2. life[id] \in LifeRows /\ life[id].lease \in [id : Clients \cup {"unnamed"}, live : BOOLEAN]
    BY <2>1 DEF LifecycleInv, LifeRows
  <2> DEFINE lapsed == [life[id].lease EXCEPT !.live = FALSE]
  <2>3. lapsed \in [id : Clients \cup {"unnamed"}, live : BOOLEAN] /\ lapsed # Unknown
    BY <2>2, UnknownAssumption, Zenon
  <2> HIDE DEF lapsed
  <2>4. life' = [life EXCEPT ![id] = [life[id] EXCEPT !.lease = lapsed]]
    BY <2>1 DEF lapsed
  <2>5. /\ [life[id] EXCEPT !.lease = lapsed] \in LifeRows
        /\ Later(life[id], [life[id] EXCEPT !.lease = lapsed])
    BY <2>1, <2>2, <2>3 DEF LifeRows, Later
  <2>6. life' \in [DOMAIN life' -> LifeRows] /\ DOMAIN life' = DOMAIN life
    BY <2>4, <2>5 DEF LifecycleInv
  <2>7. ASSUME NEW i \in DOMAIN life PROVE Later(life[i], life'[i])
    BY <1>0, <2>4, <2>5
  <2> QED
    BY <2>1, <2>6, <2>7, ViewsKept, Zenon DEF LifecycleInv
<1>6. CASE StartOrStop
  BY <1>0, <1>6, ViewsKept DEF StartOrStop, LifecycleInv
<1>7. ASSUME NEW scope, MigrateHistorical(scope) PROVE LifecycleInv'
  <2> DEFINE found == HistoricalCandidates \cap scope
  <2>1. /\ life' = [id \in DOMAIN life \cup {AssociationId(t, FALSE) : t \in found} |->
               IF id \in DOMAIN life THEN life[id] ELSE NewLifecycle("available")]
        /\ UNCHANGED <<settled, views>>
    BY <1>7, Zenon DEF MigrateHistorical
  <2>2. \A t \in found : t \in DOMAIN settled
    BY Zenon DEF HistoricalCandidates
  <2> HIDE DEF found
  <2>3. NewLifecycle("available") \in LifeRows
    BY DEF NewLifecycle, LifeRows
  <2>4. life' \in [DOMAIN life' -> LifeRows] /\ DOMAIN life \subseteq DOMAIN life'
    BY <2>1, <2>3, Zenon DEF LifecycleInv
  <2>5. \A id \in DOMAIN life : life'[id] = life[id]
    BY <2>1
  <2>6. \A id \in DOMAIN life' : id[1] \in DOMAIN settled'
    <3>1. ASSUME NEW id \in DOMAIN life' PROVE id[1] \in DOMAIN settled
      <4>1. id \in DOMAIN life \/ \E t \in found : id = <<t, FALSE>>
        BY <2>1, Zenon DEF AssociationId
      <4>2. ASSUME NEW t \in found, id = <<t, FALSE>> PROVE id[1] \in DOMAIN settled
        BY <2>2, <4>2
      <4> QED
        BY <4>1, <4>2, Zenon DEF LifecycleInv
    <3> QED
      BY <2>1, <3>1, Zenon
  <2> QED
    BY <1>0, <2>1, <2>4, <2>5, <2>6, ViewsKept, Zenon DEF LifecycleInv
<1>8. ASSUME NEW scope, RepairTypes(scope) PROVE LifecycleInv'
  BY <1>0, <1>8, ViewsKept, Zenon DEF RepairTypes, LifecycleInv
<1>9. CASE UNCHANGED outputVars
  BY <1>0, <1>9, ViewsKept DEF outputVars, LifecycleInv
<1> QED
  BY <1>1, <1>2, <1>3, <1>4, <1>5, <1>6, <1>7, <1>8, <1>9, Zenon DEF OutputNext

(* LifecycleInv holds in every reachable state. *)
THEOREM LifecycleInvariant == OutputSpec => []LifecycleInv
<1>1. OutputInit => LifecycleInv
  BY DEF OutputInit, LifecycleInv, ViewsKnown
<1> QED
  BY <1>1, LifecycleStep, PTL DEF OutputSpec

(* Nobody changes a lifecycle that they have not seen as it is, for any     *)
(* number of clients and renders and any order of updates, lapsed leases,   *)
(* restarts and runs of the offline tools.                                  *)
THEOREM LifecyclesChangeOnSeen == OutputSpec => LifecycleOnSeen
<1> DEFINE Seen(id) ==
      \E c \in Clients :
          /\ views[c] # Unknown /\ views'[c] = Unknown /\ views[c].id = id
          /\ views[c].row.state = life[id].state
          /\ views[c].row.pinned = life[id].pinned
          /\ (views[c].row.lease = Unknown) = (life[id].lease = Unknown)
<1>1. ASSUME LifecycleInv, OutputNext, NEW id \in DOMAIN life, life'[id].version # life[id].version
      PROVE  Seen(id)
  <2>1. ASSUME NEW t, SettleOutput(t) PROVE FALSE
    <3>1. PICK o \in Outputs :
            life' = Put(life, <<t, o.published>>,
                        NewLifecycle(IF o.durable THEN "available" ELSE "temporary"))
      BY <2>1, Zenon DEF SettleOutput, AssociationId
    <3>2. <<t, o.published>> \notin DOMAIN life
      BY <1>1, <2>1 DEF SettleOutput, LifecycleInv
    <3> QED
      BY <1>1, <3>1, <3>2, Zenon DEF Put
  <2>2. ASSUME NEW c \in Clients, NEW asked \in {c, Unknown}, UpdateLifecycle(c, asked)
        PROVE  Seen(id)
    <3>1. PICK new \in LifeRows : life' = [life EXCEPT ![views[c].id] = new]
      BY <1>1, <2>2, UpdateAdvances, Zenon
    <3>2. /\ views[c] # Unknown /\ views[c].id \in DOMAIN life
          /\ life[views[c].id].version = views[c].row.version
          /\ views' = [views EXCEPT ![c] = Unknown]
      BY <1>1, <2>2, UpdateAdvances, Zenon
    <3>3. views[c].id = id
      BY <1>1, <3>1, Zenon
    <3>4. views'[c] = Unknown
      BY <1>1, <3>2 DEF LifecycleInv
    <3>5. ViewKnown(views[c], life)
      BY <1>1, <3>2, Zenon DEF LifecycleInv, ViewsKnown
    <3> QED
      BY <3>2, <3>3, <3>4, <3>5, Zenon DEF ViewKnown
  <2>3. ASSUME NEW i, LeaseLapses(i), i \in DOMAIN life PROVE FALSE
    BY <1>1, <2>3, Zenon DEF LeaseLapses, LifecycleInv, LifeRows
  <2>4. ASSUME NEW scope, MigrateHistorical(scope) PROVE FALSE
    BY <1>1, <2>4, Zenon DEF MigrateHistorical
  <2>5. CASE UNCHANGED life
    BY <1>1, <2>5, Zenon
  <2>6. ASSUME NEW c, GiveUp(c) \/ (\E i : ReadLifecycle(c, i)) PROVE UNCHANGED life
    BY <2>6 DEF GiveUp, ReadLifecycle
  <2>7. ASSUME NEW scope, StartOrStop \/ RepairTypes(scope) PROVE UNCHANGED life
    BY <2>7 DEF StartOrStop, RepairTypes
  <2> HIDE DEF Seen
  <2> QED
    BY <1>1, <2>1, <2>2, <2>3, <2>4, <2>5, <2>6, <2>7, Zenon DEF OutputNext
<1>2. ASSUME LifecycleInv, [OutputNext]_outputVars
      PROVE  [\A id \in DOMAIN life : life'[id].version # life[id].version => Seen(id)]_outputVars
  BY <1>1, <1>2, Zenon
<1> QED
  BY <1>2, LifecycleInvariant, PTL DEF OutputSpec, LifecycleOnSeen

-----------------------------------------------------------------------------
(* Exported files: OutputExport. *)

(* Min returns a member of a set of natural numbers that is not empty. *)
LEMMA MinMember ==
  ASSUME NEW S \in SUBSET Nat, S # {}
  PROVE  Min(S) \in S
BY LeastNatural, Zenon DEF Min

(* A folder of finitely many files always leaves a fallback name free.      *)
LEMMA FallbackFree ==
  ASSUME NEW a, IsFiniteSet(DOMAIN folder)
  PROVE  /\ CollisionSafe(a) \notin DOMAIN folder
         /\ \E n \in Nat : CollisionSafe(a) = <<a, n>>
<1> DEFINE c == Cardinality(DOMAIN folder)
           free == {n \in 1..(c + 1) : <<a, n>> \notin DOMAIN folder}
           name == [n \in 1..(c + 1) |-> <<a, n>>]
<1>1. c \in Nat
  BY FS_CardinalityType
<1>2. free # {}
  <2>1. SUFFICES ASSUME free = {} PROVE FALSE
    OBVIOUS
  <2>2. name \in Injection(1..(c + 1), DOMAIN folder)
    BY <2>1 DEF Injection, IsInjective
  <2>3. Cardinality(1..(c + 1)) <= c
    BY <2>2, FS_Injection
  <2>4. Cardinality(1..(c + 1)) = c + 1
    BY <1>1, FS_Interval
  <2> QED
    BY <1>1, <2>3, <2>4
<1>3. free \subseteq Nat
  BY <1>1
<1>4. Min(free) \in free
  BY <1>2, <1>3, MinMember, Zenon
<1>5. CollisionSafe(a) = <<a, Min(free)>>
  BY DEF CollisionSafe
<1>6. <<a, Min(free)>> \notin DOMAIN folder
  BY <1>4, Zenon
<1>7. Min(free) \in Nat
  BY <1>3, <1>4, Zenon
<1> QED
  BY <1>5, <1>6, <1>7, Zenon

(* The names an export may choose. *)
ExportNames == ({FileName[a] : a \in Retained} \cup Retained) \X Nat

(* The export in progress has a name of its own: until the link, one that   *)
(* was free when it was chosen, and from then on the file it has made,      *)
(* which no recorded export has.                                            *)
ExportOwned ==
  /\ IsFiniteSet(DOMAIN folder) /\ saved \subseteq DOMAIN folder
  /\ exporting \in [assoc : Retained, key : ExportKeys, file : ExportNames, linked : BOOLEAN]
                   \cup {NoExport}
  /\ exporting # NoExport /\ exporting.linked =>
       /\ exporting.file \in DOMAIN folder /\ folder[exporting.file] = exporting.assoc
       /\ \A e \in exports : e.file # exporting.file

(* The inductive invariant behind ExportHonest. *)
ExportInv == ExportOwned /\ ExportHonest

(* The name an export begins with is free. *)
LEMMA DestinationFree ==
  ASSUME NEW a \in Retained, IsFiniteSet(DOMAIN folder)
  PROVE  /\ Destination(a) \notin DOMAIN folder /\ Destination(a) \in ExportNames
         /\ CollisionSafe(a) \notin DOMAIN folder /\ CollisionSafe(a) \in ExportNames
<1>1. CollisionSafe(a) \notin DOMAIN folder /\ \E n \in Nat : CollisionSafe(a) = <<a, n>>
  BY FallbackFree, Zenon
<1>2. CollisionSafe(a) \in ExportNames
  BY <1>1 DEF ExportNames
<1>3. Plain(a) \in ExportNames
  BY Zenon DEF Plain, ExportNames
<1> QED
  BY <1>1, <1>2, <1>3, Zenon DEF Destination

(* Every step of an export and every file the user saves preserves it. *)
LEMMA ExportStep == ExportInv /\ [ExportNext]_exportVars => ExportInv'
<1> SUFFICES ASSUME ExportInv, [ExportNext]_exportVars PROVE ExportInv'
  OBVIOUS
<1> USE DEF ExportInv
<1>1. ASSUME NEW a \in Retained, NEW k \in ExportKeys, BeginExport(a, k) PROVE ExportInv'
  <2>1. Destination(a) \in ExportNames
    BY DestinationFree, Zenon DEF ExportOwned
  <2>2. UNCHANGED <<folder, exports, saved>>
    BY <1>1, Zenon DEF BeginExport
  <2>3. /\ exporting' \in [assoc : Retained, key : ExportKeys, file : ExportNames, linked : BOOLEAN]
        /\ exporting'.linked = FALSE
    BY <1>1, <2>1, Zenon DEF BeginExport
  <2> QED
    BY <2>2, <2>3, Zenon DEF ExportOwned, ExportHonest
<1>2. CASE Materialize
  <2>1. CASE exporting.file \notin DOMAIN folder
    <3>1. /\ exporting # NoExport
          /\ exporting' = [exporting EXCEPT !.linked = TRUE]
          /\ folder' = [n \in DOMAIN folder \cup {exporting.file} |->
                           IF n = exporting.file THEN exporting.assoc ELSE folder[n]]
          /\ UNCHANGED <<exports, saved>>
      BY <1>2, <2>1 DEF Materialize
    <3>2. IsFiniteSet(DOMAIN folder')
      BY <3>1, FS_AddElement DEF ExportOwned
    <3> QED
      BY <2>1, <3>1, <3>2, Zenon DEF ExportOwned, ExportHonest
  <2>2. CASE exporting.file \in DOMAIN folder
    <3>1. /\ exporting # NoExport /\ ~exporting.linked
          /\ exporting' = [exporting EXCEPT !.file = CollisionSafe(exporting.assoc)]
          /\ UNCHANGED <<folder, exports, saved>>
      BY <1>2, <2>2 DEF Materialize
    <3>2. CollisionSafe(exporting.assoc) \in ExportNames
      BY <3>1, DestinationFree DEF ExportOwned
    <3> QED
      BY <3>1, <3>2 DEF ExportOwned, ExportHonest
  <2> QED
    BY <2>1, <2>2
<1>3. CASE RecordExport
  BY <1>3 DEF RecordExport, ExportOwned, ExportHonest
<1>4. CASE AbortExport
  BY <1>4, Zenon DEF AbortExport, ExportOwned, ExportHonest
<1>5. ASSUME NEW n, UserSaves(n) PROVE ExportInv'
  <2>1. IsFiniteSet(DOMAIN folder')
    BY <1>5, FS_AddElement, Zenon DEF UserSaves, ExportOwned
  <2> QED
    BY <1>5, <2>1, Zenon DEF UserSaves, ExportOwned, ExportHonest
<1>6. CASE UNCHANGED exportVars
  BY <1>6, Zenon DEF exportVars, ExportOwned, ExportHonest
<1> QED
  BY <1>1, <1>2, <1>3, <1>4, <1>5, <1>6, ZenonT(30) DEF ExportNext

(* ExportInv holds in every reachable state. *)
THEOREM ExportInvariant == ExportSpec => []ExportInv
<1>1. ExportInit => ExportInv
  BY FS_EmptySet DEF ExportInit, ExportInv, ExportOwned, ExportHonest
<1> QED
  BY <1>1, ExportStep, PTL DEF ExportSpec

(* The file of a recorded export keeps the bytes of its association and is  *)
(* no other export's, and the user's files stay, for any set of outputs,    *)
(* keys and file names and any number of user files and of aborted exports. *)
THEOREM ExportsStayHonest == ExportSpec => []ExportHonest
<1>1. ExportInv => ExportHonest
  BY DEF ExportInv
<1> QED
  BY <1>1, ExportInvariant, PTL

(* _collision_safe_export_filename always finds a name, and each name an    *)
(* export chooses, first or after a lost race, is free at the time.         *)
THEOREM ChosenNamesFree ==
  ExportSpec => [][exporting' # NoExport /\ (exporting = NoExport \/ exporting'.file # exporting.file)
                     => exporting'.file \notin DOMAIN folder]_exportVars
<1> DEFINE Free == exporting' # NoExport /\ (exporting = NoExport \/ exporting'.file # exporting.file)
                     => exporting'.file \notin DOMAIN folder
<1>1. ASSUME ExportInv, ExportNext PROVE Free
  <2>1. ASSUME NEW a \in Retained, NEW k \in ExportKeys, BeginExport(a, k) PROVE Free
    <3>1. Destination(a) \notin DOMAIN folder
      BY <1>1, DestinationFree DEF ExportInv, ExportOwned
    <3> QED
      BY <2>1, <3>1, Zenon DEF BeginExport
  <2>2. CASE Materialize
    <3>1. CollisionSafe(exporting.assoc) \notin DOMAIN folder
      BY <1>1, <2>2, DestinationFree, Zenon DEF ExportInv, ExportOwned, Materialize
    <3> QED
      BY <1>1, <2>2, <3>1 DEF Materialize, ExportInv, ExportOwned
  <2>3. CASE RecordExport \/ AbortExport
    BY <2>3, Zenon DEF RecordExport, AbortExport
  <2>4. ASSUME NEW n, UserSaves(n) PROVE Free
    BY <2>4 DEF UserSaves
  <2> QED
    BY <1>1, <2>1, <2>2, <2>3, <2>4, Zenon DEF ExportNext
<1> QED
  BY <1>1, ExportInvariant, PTL DEF ExportSpec

-----------------------------------------------------------------------------
(* Snapshots of a runner: RecoverableSnapshots. *)

(* Induction over the natural numbers, for a set of them. *)
LEMMA SetInduction ==
  ASSUME NEW G, 0 \in G, \A n \in Nat : n \in G => n + 1 \in G
  PROVE  \A n \in Nat : n \in G
<1> SUFFICES ASSUME NEW m \in Nat, m \notin G PROVE FALSE
  OBVIOUS
<1>1. PICK x \in Nat \ G : \A y \in Nat \ G : x <= y
  BY LeastNatural, Zenon
<1>2. x # 0 /\ x \in Nat
  OBVIOUS
<1>3. x - 1 \in Nat /\ ~(x <= x - 1) /\ (x - 1) + 1 = x
  BY <1>2
<1>4. x - 1 \in G
  BY <1>1, <1>3, Zenon
<1> QED
  BY <1>1, <1>3, <1>4

(* The sums of the subsets of S, taking one element at a time. *)
Sums(f, S) ==
  f = [s \in SUBSET S |-> IF s = {} THEN 0
                          ELSE (CHOOSE x \in s : TRUE).size + f[s \ {CHOOSE x \in s : TRUE}]]

(* What Bytes computes, once there is such a function. *)
LEMMA BytesSums ==
  ASSUME NEW S, NEW f, Sums(f, S)
  PROVE  \E g : Sums(g, S) /\ Bytes(S) = g[S]
<1> DEFINE g == CHOOSE h : Sums(h, S)
<1>1. Sums(g, S)
  BY Zenon
<1>2. Bytes(S) = g[S]
  BY DEF Bytes, MapThenSumSet, MapThenFoldSet, Sums
<1> QED
  BY <1>1, <1>2, Zenon

(* There is such a function for every finite set. *)
LEMMA SumsExist ==
  ASSUME NEW S, IsFiniteSet(S)
  PROVE  \E f : Sums(f, S)
<1> DEFINE Upto(n) == {s \in SUBSET S : Cardinality(s) <= n}
           c(s) == CHOOSE x \in s : TRUE
           Part(f, n) == f = [s \in Upto(n) |-> IF s = {} THEN 0 ELSE c(s).size + f[s \ {c(s)}]]
           G == {n \in Nat : \E f : Part(f, n)}
<1>1. \A s \in SUBSET S : IsFiniteSet(s) /\ Cardinality(s) \in Nat /\ Cardinality(s) <= Cardinality(S)
  BY FS_Subset, FS_CardinalityType, Zenon
<1>2. 0 \in G
  <2> DEFINE f == [s \in Upto(0) |-> 0]
  <2>1. \A s \in Upto(0) : s = {}
    BY <1>1, FS_EmptySet
  <2>2. Part(f, 0)
    BY <2>1
  <2> QED
    BY <2>2, Zenon
<1>3. ASSUME NEW n \in Nat, n \in G PROVE n + 1 \in G
  <2>1. PICK f : Part(f, n)
    BY <1>3, Zenon
  <2> DEFINE g == [s \in Upto(n + 1) |-> IF s = {} THEN 0 ELSE c(s).size + f[s \ {c(s)}]]
  <2>2. Upto(n) \subseteq Upto(n + 1)
    BY <1>1
  <2>3. ASSUME NEW s \in Upto(n) PROVE g[s] = f[s]
    <3>1. f[s] = IF s = {} THEN 0 ELSE c(s).size + f[s \ {c(s)}]
      BY <2>1, <2>3, Zenon
    <3>2. g[s] = IF s = {} THEN 0 ELSE c(s).size + f[s \ {c(s)}]
      BY <2>2, <2>3, Zenon
    <3> QED
      BY <3>1, <3>2, Zenon
  <2>4. ASSUME NEW s \in Upto(n + 1), s # {} PROVE s \ {c(s)} \in Upto(n)
    <3>1. c(s) \in s
      BY <2>4, Zenon
    <3>2. PICK x \in s : x = c(s)
      BY <3>1, Zenon
    <3>3. IsFiniteSet(s) /\ s \in SUBSET S /\ Cardinality(s) <= n + 1 /\ Cardinality(s) \in Nat
      BY <1>1, <2>4, Zenon
    <3>4. Cardinality(s \ {x}) = Cardinality(s) - 1 /\ s \ {x} \in SUBSET S
      BY <3>3, FS_RemoveElement, Zenon
    <3>5. Cardinality(s \ {x}) <= n
      BY <3>3, <3>4
    <3> QED
      BY <3>2, <3>4, <3>5, Zenon
  <2>5. \A s \in Upto(n + 1) : s # {} => g[s \ {c(s)}] = f[s \ {c(s)}]
    BY <2>3, <2>4, Zenon
  <2>6. g = [s \in Upto(n + 1) |-> IF s = {} THEN 0 ELSE c(s).size + g[s \ {c(s)}]]
    <3> DEFINE lhs(s) == IF s = {} THEN 0 ELSE c(s).size + f[s \ {c(s)}]
               rhs(s) == IF s = {} THEN 0 ELSE c(s).size + g[s \ {c(s)}]
    <3>1. ASSUME NEW s \in Upto(n + 1) PROVE lhs(s) = rhs(s)
      <4>1. CASE s = {}
        BY <4>1, Zenon
      <4>2. CASE s # {}
        <5>1. g[s \ {c(s)}] = f[s \ {c(s)}]
          BY <2>5, <4>2, Zenon
        <5> HIDE DEF g, c
        <5> QED
          BY <4>2, <5>1, Zenon
      <4> QED
        BY <4>1, <4>2, Zenon
    <3>2. g = [s \in Upto(n + 1) |-> lhs(s)]
      OBVIOUS
    <3> HIDE DEF lhs, rhs, g
    <3>3. g = [s \in Upto(n + 1) |-> rhs(s)]
      BY <3>1, <3>2, Zenon
    <3> QED
      BY <3>3, Zenon DEF rhs
  <2>7. Part(g, n + 1)
    BY <2>6, Zenon
  <2> HIDE DEF g, Part
  <2> QED
    BY <2>7
<1>4. \A n \in Nat : n \in G
  <2> HIDE DEF G
  <2> QED
    BY <1>2, <1>3, SetInduction, Zenon
<1>5. Cardinality(S) \in Nat
  BY FS_CardinalityType
<1>6. PICK f : Part(f, Cardinality(S))
  BY <1>4, <1>5, Zenon
<1>7. Upto(Cardinality(S)) = SUBSET S
  BY <1>1, Zenon
<1> QED
  BY <1>6, <1>7, Zenon DEF Sums

Sized(S) == IsFiniteSet(S) /\ \A x \in S : x.size \in Nat

(* Taking any one element away takes its size away. *)
Additive(f, S) == \A s \in SUBSET S : f[s] \in Nat /\ \A x \in s : f[s] = x.size + f[s \ {x}]

(* Which element is taken first does not matter. *)
LEMMA SumsAdd ==
  ASSUME NEW S, Sized(S), NEW f, Sums(f, S)
  PROVE  Additive(f, S)
<1> DEFINE Adds(s) == f[s] \in Nat /\ \A x \in s : f[s] = x.size + f[s \ {x}]
           G == {n \in Nat : \A s \in SUBSET S : Cardinality(s) <= n => Adds(s)}
<1>1. \A s \in SUBSET S : IsFiniteSet(s) /\ Cardinality(s) \in Nat
  BY FS_Subset, FS_CardinalityType, Zenon DEF Sized
<1>2. f[{}] = 0
  BY Zenon DEF Sums
<1>3. ASSUME NEW s \in SUBSET S, s # {}
      PROVE  \E x \in s : f[s] = x.size + f[s \ {x}]
  <2>1. (CHOOSE x \in s : TRUE) \in s
    BY <1>3, Zenon
  <2>2. f[s] = (CHOOSE x \in s : TRUE).size + f[s \ {CHOOSE x \in s : TRUE}]
    BY <1>3, Zenon DEF Sums
  <2> QED
    BY <2>1, <2>2, Zenon
<1>0. Adds({})
  <2>1. f[{}] \in Nat
    BY <1>2
  <2> QED
    BY <2>1, Zenon
<1>4. 0 \in G
  <2>1. \A s \in SUBSET S : Cardinality(s) <= 0 => s = {}
    BY <1>1, FS_EmptySet
  <2> QED
    BY <1>0, <2>1, Zenon
<1>5. ASSUME NEW n \in Nat, n \in G PROVE n + 1 \in G
  <2>1. ASSUME NEW s \in SUBSET S, Cardinality(s) <= n + 1, s # {} PROVE Adds(s)
    <3>2. PICK y \in s : f[s] = y.size + f[s \ {y}]
      BY <1>3, <2>1, Zenon
    <3>3. ASSUME NEW x \in s PROVE Adds(s \ {x}) /\ x.size \in Nat
      <4>1. IsFiniteSet(s) /\ x \in S
        BY <1>1, Zenon
      <4>2. Cardinality(s \ {x}) = Cardinality(s) - 1 /\ s \ {x} \in SUBSET S
        BY <4>1, FS_RemoveElement, Zenon
      <4>3. Cardinality(s \ {x}) <= n
        BY <1>1, <2>1, <4>2
      <4> QED
        BY <1>5, <4>1, <4>2, <4>3, Zenon DEF Sized
    <3>4. f[s] \in Nat
      <4>1. f[s \ {y}] \in Nat /\ y.size \in Nat
        BY <3>3, Zenon
      <4> QED
        BY <3>2, <4>1
    <3>5. ASSUME NEW x \in s PROVE f[s] = x.size + f[s \ {x}]
      <4>1. CASE x = y
        BY <3>2, <4>1, ZenonT(40)
      <4>2. CASE x # y
        <5> DEFINE both == (s \ {y}) \ {x}
        <5>1. x \in s \ {y} /\ y \in s \ {x} /\ (s \ {x}) \ {y} = both
          BY <4>2
        <5>2. f[s \ {y}] = x.size + f[both]
          BY <3>3, <5>1, Zenon
        <5>3. f[s \ {x}] = y.size + f[both]
          BY <3>3, <5>1, Zenon
        <5>4. PICK m : m = f[both]
          OBVIOUS
        <5>5. x.size \in Nat /\ y.size \in Nat /\ f[s \ {y}] \in Nat /\ f[s \ {x}] \in Nat
          BY <3>3, Zenon
        <5>6. m \in Nat
          <6>1. both \in SUBSET S /\ both \in SUBSET (s \ {y}) /\ s \ {y} \in SUBSET S
            OBVIOUS
          <6>2. IsFiniteSet(s) /\ IsFiniteSet(s \ {y}) /\ Cardinality(s) \in Nat
            BY <1>1, <6>1, Zenon
          <6>3. Cardinality(s \ {y}) = Cardinality(s) - 1
            BY <6>2, FS_RemoveElement
          <6>4. Cardinality(both) <= Cardinality(s \ {y}) /\ Cardinality(both) \in Nat
            BY <1>1, <6>1, <6>2, FS_Subset, Zenon
          <6>5. Cardinality(both) <= n
            BY <2>1, <6>2, <6>3, <6>4
          <6> QED
            BY <1>5, <5>4, <6>1, <6>5, Zenon
        <5> QED
          BY <3>2, <5>2, <5>3, <5>4, <5>5, <5>6
      <4> QED
        BY <4>1, <4>2, Zenon
    <3> QED
      BY <3>4, <3>5, Zenon
  <2> HIDE DEF Adds
  <2> QED
    BY <1>0, <2>1
<1>6. \A n \in Nat : n \in G
  <2> HIDE DEF G
  <2> QED
    BY <1>4, <1>5, SetInduction, Zenon
<1>7. ASSUME NEW s \in SUBSET S PROVE Adds(s)
  <2>1. Cardinality(s) \in G /\ Cardinality(s) <= Cardinality(s)
    BY <1>1, <1>6
  <2> QED
    BY <2>1, Zenon
<1> QED
  BY <1>7, Zenon DEF Additive

(* Subsets have the same sums, whichever set they are taken from. *)
LEMMA SumsAgree ==
  ASSUME NEW T, Sized(T), NEW S \in SUBSET T, NEW f, Sums(f, S), NEW g, Sums(g, T)
  PROVE  f[S] = g[S]
<1> DEFINE G == {n \in Nat : \A s \in SUBSET S : Cardinality(s) = n => f[s] = g[s]}
<1>1. \A s \in SUBSET S : IsFiniteSet(s) /\ Cardinality(s) \in Nat /\ s \in SUBSET T
  BY FS_Subset, FS_CardinalityType, Zenon DEF Sized
<1>2. f[{}] = 0 /\ g[{}] = 0
  BY Zenon DEF Sums
<1>3. ASSUME NEW s \in SUBSET S, s # {}
      PROVE  \E x \in s : f[s] = x.size + f[s \ {x}] /\ g[s] = x.size + g[s \ {x}]
  <2>1. (CHOOSE x \in s : TRUE) \in s /\ s \in SUBSET T
    BY <1>1, <1>3, Zenon
  <2>2. f[s] = (CHOOSE x \in s : TRUE).size + f[s \ {CHOOSE x \in s : TRUE}]
    BY <1>3, Zenon DEF Sums
  <2>3. g[s] = (CHOOSE x \in s : TRUE).size + g[s \ {CHOOSE x \in s : TRUE}]
    BY <1>3, <2>1, Zenon DEF Sums
  <2> QED
    BY <2>1, <2>2, <2>3, Zenon
<1>4. 0 \in G
  <2>1. \A s \in SUBSET S : Cardinality(s) = 0 => s = {}
    BY <1>1, FS_EmptySet, Zenon
  <2> QED
    BY <1>2, <2>1
<1>5. ASSUME NEW n \in Nat, n \in G PROVE n + 1 \in G
  <2>1. ASSUME NEW s \in SUBSET S, Cardinality(s) = n + 1 PROVE f[s] = g[s]
    <3>1. s # {}
      BY <2>1, FS_EmptySet
    <3>2. PICK x \in s : f[s] = x.size + f[s \ {x}] /\ g[s] = x.size + g[s \ {x}]
      BY <1>3, <3>1, Zenon
    <3>3. IsFiniteSet(s)
      BY <1>1, Zenon
    <3>4. Cardinality(s \ {x}) = n /\ s \ {x} \in SUBSET S
      BY <2>1, <3>3, FS_RemoveElement
    <3>5. f[s \ {x}] = g[s \ {x}]
      BY <1>5, <3>4, Zenon
    <3> QED
      BY <3>2, <3>5, Zenon
  <2> QED
    BY <2>1
<1>6. \A n \in Nat : n \in G
  <2> HIDE DEF G
  <2> QED
    BY <1>4, <1>5, SetInduction, Zenon
<1> QED
  BY <1>1, <1>6, Zenon

(* Bytes is one of these sums. *)
LEMMA BytesOf ==
  ASSUME NEW S, Sized(S)
  PROVE  \E f : Sums(f, S) /\ Bytes(S) = f[S]
<1>1. PICK f : Sums(f, S)
  BY SumsExist, ZenonT(40) DEF Sized
<1> QED
  BY <1>1, BytesSums, Zenon

(* One more file adds its size. *)
LEMMA BytesAdd ==
  ASSUME NEW S, NEW x, x \notin S, Sized(S \cup {x})
  PROVE  Bytes(S) \in Nat /\ Bytes(S \cup {x}) = Bytes(S) + x.size
<1>1. PICK T : T = S \cup {x}
  OBVIOUS
<1>2. Sized(T) /\ S \in SUBSET T /\ x \in T /\ T \in SUBSET T /\ T \ {x} = S /\ x.size \in Nat
  BY <1>1 DEF Sized
<1>3. Sized(S)
  BY <1>2, FS_Subset, Zenon DEF Sized
<1>4. PICK f : Sums(f, S) /\ Bytes(S) = f[S]
  BY <1>3, BytesOf, Zenon
<1>5. PICK g : Sums(g, T) /\ Bytes(T) = g[T]
  BY <1>2, BytesOf, Zenon
<1>6. f[S] = g[S]
  BY <1>2, <1>4, <1>5, SumsAgree, ZenonT(40)
<1>7. f[S] \in Nat
  <2>1. S \in SUBSET S
    OBVIOUS
  <2> QED
    BY <1>3, <1>4, <2>1, SumsAdd, Zenon DEF Additive
<1>8. g[T] = x.size + g[T \ {x}]
  <2>1. Additive(g, T)
    <3>1. Sized(T) /\ Sums(g, T)
      BY <1>2, <1>5, Zenon
    <3> QED
      BY <3>1, SumsAdd, Zenon
  <2> QED
    BY <1>2, <2>1, Zenon DEF Additive
<1>9. g[T] = x.size + g[S]
  BY <1>2, <1>8, Zenon
<1> QED
  BY <1>1, <1>2, <1>4, <1>5, <1>6, <1>7, <1>9

(* The inductive invariant behind SnapshotsMetered. *)
SnapshotInv ==
  /\ IsFiniteSet(snapshots)
  /\ \A s \in snapshots : s.size \in Nat /\ s.revision \in Nat
  /\ SnapshotsMetered

(* One more snapshot is within the limits that were checked. *)
LEMMA SnapshotCharged ==
  ASSUME SnapshotInv, NEW x, x.size \in Nat, x \notin snapshots, snapshots' = snapshots \cup {x},
         NEW c \in Children, ParentOf[x.child] = ParentOf[c], WithinLimits(c, x.size)
  PROVE  /\ Cardinality(Charged(c)') <= MaxSnapshots
         /\ Bytes(Charged(c)') <= MaxBytes
<1>1. PICK S : S = Charged(c)
  BY Zenon
<1>2. Charged(c)' = S \cup {x} /\ x \notin S /\ S \in SUBSET snapshots
  BY <1>1, Zenon DEF Charged
<1>3. IsFiniteSet(S) /\ \A s \in S : s.size \in Nat
  BY <1>2, FS_Subset, Zenon DEF SnapshotInv
<1>4. Cardinality(S \cup {x}) = Cardinality(S) + 1 /\ IsFiniteSet(S \cup {x})
  BY <1>2, <1>3, FS_AddElement, Zenon
<1>5. Sized(S \cup {x})
  BY <1>3, <1>4, Zenon DEF Sized
<1>6. Bytes(S \cup {x}) = Bytes(S) + x.size
  BY <1>2, <1>5, BytesAdd, Zenon
<1>7. Cardinality(S) < MaxSnapshots /\ Bytes(S) + x.size <= MaxBytes /\ Cardinality(S) \in Nat
  BY <1>1, <1>3, FS_CardinalityType, ZenonT(30) DEF WithinLimits
<1>8. Cardinality(S) + 1 <= MaxSnapshots
  BY <1>7, SnapshotAssumption
<1> QED
  BY <1>2, <1>4, <1>6, <1>7, <1>8, Zenon

(* Every step preserves it. *)
LEMMA SnapshotStep == SnapshotInv /\ [SnapshotNext]_snapshotVars => SnapshotInv'
<1> SUFFICES ASSUME SnapshotInv, [SnapshotNext]_snapshotVars PROVE SnapshotInv'
  OBVIOUS
<1>1. CASE UNCHANGED snapshotVars
  BY <1>1, Zenon DEF snapshotVars, SnapshotInv, SnapshotsMetered
<1>2. ASSUME NEW e, EndAttempt(e) PROVE SnapshotInv'
  BY <1>2, ZenonT(40) DEF EndAttempt, SnapshotInv, SnapshotsMetered
<1>3. ASSUME NEW c \in Children, NEW k \in SnapshotKeys, NEW n \in Revisions, NEW size \in Sizes,
             PublishAgain(c, k, n, size)
      PROVE  SnapshotInv'
  <2>1. PICK a : a = [child |-> c, revision |-> n, size |-> size, key |-> k]
    BY Zenon
  <2>2. aliases' = aliases \cup {a} /\ UNCHANGED snapshots
    BY <1>3, <2>1, Zenon DEF PublishAgain
  <2>3. a.child = c /\ a.revision = n /\ a.size = size
    BY <2>1, Zenon
  <2>4. \E s \in snapshots : s.child = a.child /\ s.revision = a.revision /\ s.size = a.size
    BY <1>3, <2>3, Zenon DEF PublishAgain, Published
  <2>5. \A y \in aliases' : \E s \in snapshots :
          s.child = y.child /\ s.revision = y.revision /\ s.size = y.size
    BY <2>2, <2>4, Zenon DEF SnapshotInv, SnapshotsMetered
  <2> QED
    BY <2>2, <2>5 DEF SnapshotInv, SnapshotsMetered
<1>4. ASSUME NEW c \in Children, NEW k \in SnapshotKeys, NEW n \in Revisions, NEW size \in Sizes,
             PublishSnapshot(c, k, n, size)
      PROVE  SnapshotInv'
  <2>1. PICK x : x = [child |-> c, revision |-> n, size |-> size, key |-> k]
    BY Zenon
  <2>2. /\ snapshots' = snapshots \cup {x} /\ UNCHANGED aliases
        /\ \A s \in snapshots : s.child = c => s.revision < n
        /\ WithinLimits(c, size)
    BY <1>4, <2>1, Zenon DEF PublishSnapshot, Published
  <2>3. x.child = c /\ x.revision = n /\ x.size = size /\ n \in Nat /\ size \in Nat
    BY <2>1, SnapshotAssumption
  <2>4. x \notin snapshots
    BY <2>2, <2>3
  <2>5. IsFiniteSet(snapshots') /\ \A s \in snapshots' : s.size \in Nat /\ s.revision \in Nat
    BY <2>2, <2>3, FS_AddElement, ZenonT(40) DEF SnapshotInv
  <2>6. \A s, z \in snapshots' : s.child = z.child /\ s.revision = z.revision => s = z
    BY <2>2, <2>3 DEF SnapshotInv, SnapshotsMetered
  <2>7. \A y \in aliases' : \E s \in snapshots' :
          s.child = y.child /\ s.revision = y.revision /\ s.size = y.size
    BY <2>2, Zenon DEF SnapshotInv, SnapshotsMetered
  <2>8. ASSUME NEW d \in Children
        PROVE  Cardinality(Charged(d)') <= MaxSnapshots /\ Bytes(Charged(d)') <= MaxBytes
    <3>1. CASE ParentOf[d] = ParentOf[c]
      <4>1. Charged(d)' = Charged(c)'
        BY <3>1, Zenon DEF Charged
      <4>2. ParentOf[x.child] = ParentOf[c] /\ WithinLimits(c, x.size) /\ x.size \in Nat
        BY <2>2, <2>3, Zenon
      <4>3. Cardinality(Charged(c)') <= MaxSnapshots /\ Bytes(Charged(c)') <= MaxBytes
        BY <2>2, <2>4, <4>2, SnapshotCharged, Zenon
      <4> QED
        BY <4>1, <4>3, Zenon
    <3>2. CASE ParentOf[d] # ParentOf[c]
      <4>1. Charged(d)' = Charged(d)
        BY <2>2, <2>3, <3>2, ZenonT(30) DEF Charged
      <4> QED
        BY <4>1, Zenon DEF SnapshotInv, SnapshotsMetered, Charged
    <3> QED
      BY <3>1, <3>2, Zenon
  <2> QED
    BY <2>5, <2>6, <2>7, <2>8, ZenonT(30) DEF SnapshotInv, SnapshotsMetered, Charged
<1> QED
  BY <1>1, <1>2, <1>3, <1>4, ZenonT(30) DEF SnapshotNext

(* The inductive invariant of the snapshots. *)
THEOREM SnapshotInvariant == SnapshotSpec => []SnapshotInv
<1>1. SnapshotInit => SnapshotInv
  <2> SUFFICES ASSUME SnapshotInit PROVE SnapshotInv
    OBVIOUS
  <2>1. snapshots = {} /\ aliases = {} /\ IsFiniteSet({}) /\ Cardinality({}) = 0
    BY FS_EmptySet DEF SnapshotInit
  <2>2. Bytes({}) = 0
    <3>1. Sized({})
      BY <2>1, Zenon DEF Sized
    <3>2. PICK f : Sums(f, {}) /\ Bytes({}) = f[{}]
      BY <3>1, BytesOf, Zenon
    <3> QED
      BY <3>2 DEF Sums
  <2>3. ASSUME NEW c PROVE {s \in snapshots : ParentOf[s.child] = ParentOf[c]} = {}
    BY <2>1, Zenon
  <2> QED
    BY <2>1, <2>2, <2>3, SnapshotAssumption DEF SnapshotInv, SnapshotsMetered
<1> QED
  BY <1>1, SnapshotStep, PTL DEF SnapshotSpec

(* The children of a parent never exceed its limits together, for any       *)
(* number of children, keys, revisions and sizes, and whenever an attempt   *)
(* ends; a revision is charged once and every alias has its snapshot.       *)
THEOREM SnapshotsStayMetered == SnapshotSpec => []SnapshotsMetered
<1>1. SnapshotInv => SnapshotsMetered
  BY DEF SnapshotInv
<1> QED
  BY <1>1, SnapshotInvariant, PTL
=============================================================================
