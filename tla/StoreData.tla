------------------------------ MODULE StoreData ------------------------------
(***************************************************************************)
(* The data the central store (internal/datastore/postgres) keeps and the  *)
(* pure functions of write.go, delete.go, schema.go and lock.go over it.   *)
(*                                                                         *)
(* A tuple is opaque but for its relation (RelOf) and the kind of subject  *)
(* it names (KindOf: user, user:*, team#member).  A schema is what these   *)
(* functions read of a compiled one: the kinds each relation accepts, none *)
(* for a relation it does not define or defines as a permission.           *)
(***************************************************************************)
EXTENDS Integers, Sequences, FiniteSets

CONSTANTS
  Tuples,         \* the tuples requests name
  Relations,      \* resource type and relation, as document#viewer
  Kinds,          \* the subject types a relation may accept
  RelOf,          \* the relation of each tuple
  KindOf,         \* the subject type of each tuple
  AnyKind,        \* a filter's empty subject type: matches every subject
  NoSchema,       \* what latestSchema returns before a schema is written
  MaxTupleLocks,  \* lock.go's maxTupleLocks
  NameRank        \* where each lock's name sorts

Schemas == [Relations -> SUBSET Kinds]

Filters == [rel : Relations, kind : Kinds \cup {AnyKind}]

Updates == [op : {"touch", "delete"}, tuple : Tuples]

(* A lock is named by what it covers: a tuple, a relation, the schema or   *)
(* the log Prune cuts.  lock.go hashes the names; two names sharing a hash *)
(* is left out.                                                            *)
LockNames == {"prune", "schema"} \cup Relations \cup Tuples

Locks == [name : LockNames, exclusive : BOOLEAN]

ASSUME TupleAssumption ==
  /\ RelOf \in [Tuples -> Relations]
  /\ KindOf \in [Tuples -> Kinds]

ASSUME KindAssumption == AnyKind \notin Kinds

ASSUME SchemaAssumption == NoSchema \notin Schemas

ASSUME MaxTupleLocksAssumption == MaxTupleLocks \in Nat

(* No two locks share a name, and the finitely many names in use sort in   *)
(* one total order.                                                        *)
ASSUME LockNameAssumption ==
  /\ "prune" \notin Relations \cup Tuples
  /\ "schema" \notin Relations \cup Tuples
  /\ Relations \cap Tuples = {}
  /\ NameRank \in [LockNames -> Nat]
  /\ \A m, n \in LockNames : NameRank[m] = NameRank[n] => m = n
  /\ \E last \in LockNames : \A n \in LockNames : NameRank[n] <= NameRank[last]

-----------------------------------------------------------------------------

(* The tuples the condition of Filter.where selects. *)
Matches(f, t) == RelOf[t] = f.rel /\ f.kind \in {AnyKind, KindOf[t]}

(* The filter check builds for one tuple. *)
FilterOf(t) == [rel |-> RelOf[t], kind |-> KindOf[t]]

(* Whether schema defines f's relation as one that stores tuples and       *)
(* accepts f's subject type.                                               *)
checkFilter(schema, f) ==
  /\ schema[f.rel] # {}
  /\ f.kind \in schema[f.rel] \cup {AnyKind}

(* Whether schema takes every update of a request that repeats none. *)
checkUpdates(schema, updates) ==
  /\ schema # NoSchema
  /\ \A i \in 1..Len(updates) :
       /\ checkFilter(schema, FilterOf(updates[i].tuple))
       /\ \A j \in 1..Len(updates) : updates[i].tuple = updates[j].tuple => i = j

(* Fault: a subject type dropped from a relation that stays goes unseen. *)
droppedRelationsOnly(prev, next) ==
  {f \in Filters : prev[f.rel] # {} /\ next[f.rel] = {} /\ f.kind = AnyKind}

(* A filter for each thing next drops that prev let tuples use: a relation *)
(* that stores no tuples any more, or a subject type it stops accepting.   *)
dropped(prev, next) ==
  {f \in Filters :
     /\ prev[f.rel] # {}
     /\ IF next[f.rel] = {} THEN f.kind = AnyKind
                            ELSE f.kind \in prev[f.rel] \ next[f.rel]}

-----------------------------------------------------------------------------

lock(name, exclusive) == [name |-> name, exclusive |-> exclusive]

(* Each lock once, in the strongest mode asked for it.  The sort of        *)
(* lock.go is Frontmost.                                                   *)
ordered(locks) ==
  {lock(l.name, \E m \in locks : m.name = l.name /\ m.exclusive) : l \in locks}

(* Fault: locks are taken in whatever order the request names them. *)
AnyWanted(want, l) == l \in want

(* The lock of want that sorts first. *)
Frontmost(want, l) ==
  l \in want /\ \A m \in want : NameRank[l.name] <= NameRank[m.name]

large(updates) == Len(updates) > MaxTupleLocks

(* Fault: a write does not hold the schema it was checked against. *)
writeLocksNoSchema(updates) ==
  LET tuples == {updates[i].tuple : i \in 1..Len(updates)}
  IN  ordered({lock(RelOf[t], large(updates)) : t \in tuples}
              \cup {lock(t, TRUE) : t \in IF large(updates) THEN {} ELSE tuples})

(* The locks Write takes: the schema and the relations shared and the      *)
(* tuples alone, or the relations alone in place of too many tuples.       *)
writeLocks(updates) ==
  LET tuples == {updates[i].tuple : i \in 1..Len(updates)}
      whole  == large(updates)
  IN  ordered({lock("schema", FALSE)}
              \cup {lock(RelOf[t], whole) : t \in tuples}
              \cup {lock(t, TRUE) : t \in IF whole THEN {} ELSE tuples})

(* Two locks that two transactions cannot hold at once. *)
Conflicts(l, m) == l.name = m.name /\ (l.exclusive \/ m.exclusive)

=============================================================================
