--------------------------- MODULE MemStoreProps ----------------------------
(***************************************************************************)
(* What the in-memory store promises, against what the central store held  *)
(* at each revision.                                                       *)
(***************************************************************************)
EXTENDS MemStore

FeedSteps == {"idle", "drop", "new", "enter", "compile", "intern", "merge", "publish"}
CheckSteps == {"idle", "begin", "not ready", "undefined", "invalid", "reading"}

(* Every variable has its type; no id is the one that stands for unknown   *)
(* objects or past it.                                                     *)
MemTypeOK ==
  /\ current \in Refs \cup {Nil}
  /\ \A ref \in Refs :
       /\ heap[ref].revision \in Revisions \cup {0}
       /\ \A space \in Spaces :
            /\ heap[ref].names[space] \in Seq(Names)
            /\ Len(heap[ref].names[space]) < UnknownObject
  /\ mu.active \cap mu.pending = {} /\ mu.active \cup mu.pending \subseteq Checkers
  /\ mu.writer \in {"none", "waits", "holds"}
  /\ feed.step \in FeedSteps /\ feed.ref \in Refs \cup {Nil}
  /\ \A c \in Checkers :
       /\ check[c].step \in CheckSteps
       /\ check[c].ref \in Refs \cup {Nil}
       /\ check[c].reads \in 0..MaxReads

(* Reset: "the old and new replicas are never live at once", whoever still *)
(* checks against the old.                                                 *)
NeverBothLive == Cardinality(Live) <= 1

-----------------------------------------------------------------------------

Ascending(list) == \A i, j \in DOMAIN list : i < j => Less(list[i], list[j])

(* list is the sorted list of what As makes of subjects. *)
Lists(list, subjects, As(_)) ==
  Ascending(list) /\ ToSet(list) = {As(s) : s \in subjects}

(* e lists the subjects, each where its kind goes. *)
ListsAll(e, subjects) ==
  LET wild == {s \in subjects : s.wildcard}
      sets == {s \in subjects \ wild : s.relation # 0}
  IN  /\ Lists(e.direct, subjects \ (wild \cup sets), AsObject)
      /\ Lists(e.usersets, sets, AsUserset)
      /\ Lists(e.wildcards, wild, AsWildcard)

(* The subjects that items have on k. *)
SubjectsOn(items, k) == {it.subject : it \in {i \in items : i.key = k}}

(* entries are those of items, and nothing more. *)
Holds(entries, items) ==
  /\ DOMAIN entries = {it.key : it \in items}
  /\ \A k \in DOMAIN entries : ListsAll(entries[k], SubjectsOn(items, k))

(* A store that is ready, and not in the middle of Apply, holds exactly    *)
(* the tuples and the schema of the revision it says, however many resets  *)
(* and changes came before and wherever one of them failed.                *)
HeldWhole ==
  current # Nil /\ mu.writer # "holds" =>
    LET r      == heap[current]
        tuples == History[r.revision].tuples
        schema == History[r.revision].schema
        Ids(refs) == {<<lookup(r.names["types"], x.type),
                        LookupRelation(r.names, x.relation)>> : x \in refs}
    IN  /\ \A t \in tuples : resolves(r.names, t)
        /\ Holds(r.entries, {Item(r.names, t, TRUE) : t \in tuples})
        /\ r.defines = Ids(schema.defines) /\ r.subjects = Ids(schema.accepts)

-----------------------------------------------------------------------------
(* A Check, in names. *)

ObjectName(c, id) ==
  IF id = UnknownObject THEN check[c].asked.resource.id
  ELSE heap[check[c].ref].names["objects"][id]

RefName(c, type, id) ==
  [type |-> heap[check[c].ref].names["types"][type], id |-> ObjectName(c, id)]

SubjectName(c, s) ==
  [type |-> RefName(c, s[1], s[2]).type, id |-> RefName(c, s[1], s[2]).id,
   relation |-> IF Len(s) = 2 THEN NoName ELSE heap[check[c].ref].names["relations"][s[3]]]

(* The subjects stored on what the last read was of, at the revision the   *)
(* Check began with.                                                       *)
StoredThen(c) ==
  LET k == check[c].last.key
  IN  {t.subject : t \in {t \in History[check[c].began].tuples :
         /\ t.resource = RefName(c, k.object.type, k.object.id)
         /\ t.relation = heap[check[c].ref].names["relations"][k.relation]}}

ReadRight(c) ==
  LET read  == check[c].last
      plain == {s \in StoredThen(c) : s.id # WildcardMarker}
      told  == {SubjectName(c, s) : s \in ToSet(read.subjects)}
      asked == check[c].asked.subject
  IN  CASE read.kind = "lookup" -> /\ read.granted <=> asked \in plain
                                   /\ told = {s \in plain : s.relation # NoName}
        [] read.kind = "subjects" -> told = plain
        [] read.kind = "wildcard" ->
             read.granted <=> [asked EXCEPT !.id = WildcardMarker] \in StoredThen(c)

(* What a revision's schema lets be asked: who holds a relation that it    *)
(* defines, of one subject of a type that some relation accepts.           *)
Askable(schema, q) ==
  /\ [type |-> q.subject.type, relation |-> q.subject.relation] \in schema.accepts
  /\ q.subject.id # WildcardMarker
  /\ [type |-> q.resource.type, relation |-> q.relation] \in schema.defines

(* "Check answers req from the one revision s holds when it starts": one   *)
(* that the store was given, never a replica with nothing in it.  A Check  *)
(* is refused just when that revision's schema does not let it be asked,   *)
(* whatever names are left over from another, or when it asks about a      *)
(* whole type, as store_test.go does with all users; and each of its reads *)
(* is what the tuples of that revision say.                                *)
AnswersOneRevision ==
  \A c \in Checkers : check[c].step \in {"undefined", "invalid", "reading"} =>
    /\ check[c].began \in Revisions
    /\ check[c].step = "reading" <=> Askable(History[check[c].began].schema, check[c].asked)
    /\ check[c].step = "reading" /\ check[c].last # Nil => ReadRight(c)

(* Every call returns: a Check that came while the store was being fed,    *)
(* and a Reset or Apply however many Checks keep coming.                   *)
EveryCallEnds ==
  /\ feed.step # "idle" ~> feed.step = "idle"
  /\ \A c \in Checkers : check[c].step # "idle" ~> check[c].step = "idle"

=============================================================================
