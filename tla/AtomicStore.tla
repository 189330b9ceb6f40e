---------------------------- MODULE AtomicStore -----------------------------
(***************************************************************************)
(* What the central store promises its writers, in one step per request:   *)
(* a Write applies all of its updates to a store whose newest schema takes *)
(* them, a DeleteMatching whose filter that schema accepts removes all it  *)
(* matches, a WriteSchema replaces the schema when it takes every stored   *)
(* tuple.  Anything else changes nothing.  There are no transactions,      *)
(* locks or statements here.                                               *)
(***************************************************************************)
EXTENDS StoreData

CONSTANT Asked   \* the requests callers make

VARIABLES content, schema

Touched(updates) ==
  {updates[i].tuple : i \in {j \in 1..Len(updates) : updates[j].op = "touch"}}

Deleted(updates) ==
  {updates[i].tuple : i \in {j \in 1..Len(updates) : updates[j].op = "delete"}}

Write(updates) ==
  /\ checkUpdates(schema, updates)
  /\ content' = (content \ Deleted(updates)) \cup Touched(updates)
  /\ UNCHANGED schema

DeleteMatching(filter) ==
  /\ schema # NoSchema
  /\ checkFilter(schema, filter)
  /\ content' = {t \in content : ~Matches(filter, t)}
  /\ UNCHANGED schema

(* Whether next still takes every stored tuple. *)
Keeps(next) == \A t \in content : checkFilter(next, FilterOf(t))

WriteSchema(next) ==
  /\ Keeps(next)
  /\ schema' = next
  /\ UNCHANGED content

Init == content = {} /\ schema = NoSchema

Next ==
  \E r \in Asked :
    \/ r.kind = "write" /\ Write(r.updates)
    \/ r.kind = "delete" /\ DeleteMatching(r.filter)
    \/ r.kind = "schema" /\ WriteSchema(r.schema)

Spec == Init /\ [][Next]_<<content, schema>>

=============================================================================
