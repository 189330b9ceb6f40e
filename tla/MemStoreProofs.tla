--------------------------- MODULE MemStoreProofs ---------------------------
(***************************************************************************)
(* That the in-memory store answers from one whole revision of the central *)
(* store, for any history, checkers, questions and order of changes.       *)
(*                                                                         *)
(* First the lock.  No two replicas are live at once, and the one a Check  *)
(* reads stands still until it returns (LiveInv).                          *)
(*                                                                         *)
(* Then what a replica holds.  Between the steps of apply it is half way   *)
(* from one revision to the next (Filled): once the changes that have been *)
(* interned land, its entries hold what has been read of the new revision  *)
(* and, for the changes not yet read, what the old one said.  A replica    *)
(* nobody feeds is whole (StoreInv).                                       *)
(*                                                                         *)
(* Last the reads.  A question is resolved to ids by the names of the      *)
(* replica, and each key and answer says, by the same names, tuples of its *)
(* revision (CheckInv).                                                    *)
(***************************************************************************)
EXTENDS ReplicaProofs

-----------------------------------------------------------------------------
(* What is invariant of the replicas and of the calls about them. *)

(* What is held of tuples. *)
Stored(names, tuples) == {Item(names, t, TRUE) : t \in tuples}

(* The relations of types that refs name, by ids. *)
Ids(names, refs) ==
  {<<lookup(names["types"], x.type), LookupRelation(names, x.relation)>> : x \in refs}

(* All of whose names have ids. *)
RefsSeen(names, refs) ==
  \A x \in refs : /\ Seen(names["types"], x.type)
                  /\ x.relation # NoName => Seen(names["relations"], x.relation)

(* r has the rules of schema, by its ids. *)
Rules(r, schema) ==
  /\ RefsSeen(r.names, schema.defines \cup schema.accepts)
  /\ r.defines = Ids(r.names, schema.defines) /\ r.subjects = Ids(r.names, schema.accepts)

(* Every tuple has its ids in names, and entries hold them and no other. *)
HoldsAll(names, entries, tuples) ==
  /\ EntriesTyped(entries) /\ \A t \in tuples : resolves(names, t)
  /\ Holds(entries, Stored(names, tuples))

(* r is the store at the revision it says. *)
Whole(r) ==
  /\ r.revision \in Revisions
  /\ HoldsAll(r.names, r.entries, History[r.revision].tuples)
  /\ Rules(r, History[r.revision].schema)

(* The tuples that were there before and those there are now, when the     *)
(* changes left have not been read.                                        *)
ReadSoFar(before, now, left) ==
  {t \in Tuples : IF t \in left THEN t \in before ELSE t \in now}

(* What entries hold, once items have landed in it, is what has been read. *)
Adding(names, entries, tuples, items, held) ==
  /\ held \in SUBSET PresentItems /\ Holds(entries, held)
  /\ Lands(held, Adds(items), Drops(items)) = Stored(names, tuples)

(* Half way from the tuples before to those now. *)
Filled(names, entries, before, now, left, items) ==
  /\ EntriesTyped(entries)
  /\ \A t \in ReadSoFar(before, now, left) : resolves(names, t)
  /\ \A it \in items : \E t \in Tuples \ left :
       resolves(names, t) /\ it = IF t \in now THEN Item(names, t, TRUE) ELSE Item(names, t, FALSE)
  /\ \E held : Adding(names, entries, ReadSoFar(before, now, left), items, held)

(* Every replica has its shape, and no name of it two ids. *)
HeapInv ==
  /\ current \in Refs \cup {Nil} /\ DOMAIN heap = Refs
  /\ \A ref \in Refs :
       /\ DOMAIN heap[ref] = {"revision", "names", "defines", "subjects", "entries"}
       /\ heap[ref].revision \in Revisions \cup {0} /\ Tables(heap[ref].names)

(* Who is in a Check holds the lock for reading or waits to begin. *)
MuInv ==
  /\ mu \in [active : SUBSET Checkers, pending : SUBSET Checkers, writer : {"none", "waits", "holds"}]
  /\ mu.active \cap mu.pending = {}
  /\ \A c \in Checkers :
       /\ check[c].step # "idle" <=> c \in mu.active \cup mu.pending
       /\ c \in mu.pending => check[c].step = "begin"

(* What a call that feeds the store was given, and what is left of it. *)
CallInv ==
  /\ DOMAIN feed = {"step", "ref", "rev", "schema", "left", "items"}
  /\ feed.step \in FeedSteps /\ feed.ref \in Refs \cup {Nil} /\ feed.left \subseteq Tuples
  /\ feed.step # "idle" => feed.rev \in Revisions
  /\ feed.step \in {"drop", "new", "compile"} => feed.schema = History[feed.rev].schema
  /\ feed.step \in {"drop", "new"} => feed.left = History[feed.rev].tuples
  /\ feed.step \in {"drop", "new", "enter"} => feed.items = {}
  /\ feed.step = "enter" => feed.schema \in {Nil, History[feed.rev].schema}
  /\ feed.step \in {"merge", "publish"} => feed.left = {}
  /\ feed.step = "publish" => feed.items = {}
  /\ feed.step = "enter" /\ current # Nil =>
       LET held == History[heap[current].revision]
       IN  /\ SymDiff(held.tuples, History[feed.rev].tuples) \subseteq feed.left
           /\ feed.schema = Nil => held.schema = History[feed.rev].schema

(* What the replica that is being fed held before: newReplica's nothing. *)
HeldBefore == IF Applying THEN History[heap[feed.ref].revision].tuples ELSE {}

(* The replica that is being fed is half way, and has the new rules once   *)
(* they are compiled.                                                      *)
FillInv ==
  feed.ref # Nil =>
    LET r == heap[feed.ref]
    IN  /\ r.revision \in Revisions /\ (~Applying => r.revision = feed.rev)
        /\ Filled(r.names, r.entries, HeldBefore, History[feed.rev].tuples, feed.left, feed.items)
        /\ feed.step \in {"intern", "merge", "publish"} => Rules(r, History[feed.rev].schema)

(* The store is whole but while Apply is in it. *)
HeldInv == current # Nil /\ feed.ref = Nil => Whole(heap[current])

-----------------------------------------------------------------------------

(* What is held of tuples that resolve is typed. *)
LEMMA StoredTyped ==
  ASSUME NEW names, Tables(names), NEW tuples \in SUBSET Tuples, \A t \in tuples : resolves(names, t)
  PROVE  Stored(names, tuples) \in SUBSET PresentItems
<1>1. ASSUME NEW t \in tuples
      PROVE  Item(names, t, TRUE) \in PresentItems
  <2>1. t \in TupleNames
    BY MemStoreAssumption
  <2>2. Item(names, t, TRUE) \in Items
    BY <2>1, ResolvesIs
  <2>3. Item(names, t, TRUE).present = TRUE
    BY DEF Item
  <2> QED
    BY <2>2, <2>3 DEF PresentItems
<1> QED
  BY <1>1 DEF Stored

(* An item that takes is the one that put, but for that. *)
LEMMA ItemSays ==
  ASSUME NEW names, NEW t
  PROVE  /\ Item(names, t, TRUE).present = TRUE /\ Item(names, t, FALSE).present = FALSE
         /\ [key |-> Item(names, t, FALSE).key, subject |-> Item(names, t, FALSE).subject, present |-> TRUE]
               = Item(names, t, TRUE)
BY DEF Item

(* Reset begins with nothing, of nothing. *)
LEMMA NothingFilled ==
  ASSUME NEW now \in SUBSET Tuples
  PROVE  Filled(NewDictionary, <<>>, {}, now, now, {})
<1>1. ReadSoFar({}, now, now) = {}
  BY DEF ReadSoFar
<1>2. EntriesTyped(<<>>)
  BY DEF EntriesTyped
<1>3. Adding(NewDictionary, <<>>, {}, {}, {})
  BY DEF Adding, Holds, Lands, Adds, Drops, Stored
<1> QED
  BY <1>1, <1>2, <1>3 DEF Filled

(* Apply begins with what it holds. *)
LEMMA HeldFilled ==
  ASSUME NEW names, Tables(names), NEW entries, NEW before \in SUBSET Tuples, NEW now \in SUBSET Tuples,
         HoldsAll(names, entries, before), NEW left, SymDiff(before, now) \subseteq left
  PROVE  Filled(names, entries, before, now, left, {})
<1>1. ReadSoFar(before, now, left) = before
  BY DEF ReadSoFar, SymDiff
<1>2. Stored(names, before) \in SUBSET PresentItems
  BY StoredTyped DEF HoldsAll
<1>3. Adding(names, entries, before, {}, Stored(names, before))
  BY <1>2 DEF Adding, HoldsAll, Lands, Adds, Drops
<1> QED
  BY <1>1, <1>3 DEF Filled, HoldsAll

(* Apply ends with what is there now. *)
LEMMA FilledHolds ==
  ASSUME NEW names, NEW entries, NEW before, NEW now \in SUBSET Tuples,
         Filled(names, entries, before, now, {}, {})
  PROVE  HoldsAll(names, entries, now)
<1>1. ReadSoFar(before, now, {}) = now
  BY DEF ReadSoFar
<1>2. PICK held : Adding(names, entries, now, {}, held)
  BY <1>1 DEF Filled
<1>3. held = Stored(names, now)
  BY <1>2 DEF Adding, Lands, Adds, Drops
<1> QED
  BY <1>1, <1>2, <1>3 DEF Filled, HoldsAll, Adding

(* Names interned since do not change how far it is. *)
LEMMA GrownFilled ==
  ASSUME NEW names, Tables(names), NEW later, Tables(later), Grows(names, later),
         NEW entries, NEW before, NEW now, NEW left, NEW items,
         Filled(names, entries, before, now, left, items)
  PROVE  Filled(later, entries, before, now, left, items)
<1> DEFINE read == ReadSoFar(before, now, left)
<1>1. \A t \in Tuples : resolves(names, t) =>
        resolves(later, t) /\ \A p : Item(later, t, p) = Item(names, t, p)
  BY GrownItem, MemStoreAssumption
<1>2. read \in SUBSET Tuples /\ \A t \in read : resolves(names, t)
  BY DEF ReadSoFar, Filled
<1> HIDE DEF read
<1>3. \A t \in read : resolves(later, t) /\ Item(later, t, TRUE) = Item(names, t, TRUE)
  BY <1>1, <1>2
<1>4. Stored(later, read) = Stored(names, read)
  BY <1>3 DEF Stored
<1>5. PICK held : Adding(names, entries, read, items, held)
  BY DEF Filled, read
<1>6. Adding(later, entries, read, items, held)
  BY <1>4, <1>5 DEF Adding
<1>7. ASSUME NEW it \in items
      PROVE  \E t \in Tuples \ left : resolves(later, t) /\ it = IF t \in now THEN Item(later, t, TRUE) ELSE Item(later, t, FALSE)
  <2>1. PICK t \in Tuples \ left : resolves(names, t) /\ it = IF t \in now THEN Item(names, t, TRUE) ELSE Item(names, t, FALSE)
    BY <1>7 DEF Filled
  <2>2. /\ resolves(later, t) /\ Item(later, t, TRUE) = Item(names, t, TRUE)
        /\ Item(later, t, FALSE) = Item(names, t, FALSE)
    BY <1>1, <2>1
  <2> QED
    BY <2>1, <2>2
<1> QED
  BY <1>3, <1>6, <1>7 DEF Filled, read

(* Items of the tuples read are typed, and finitely many. *)
LEMMA ReadItems ==
  ASSUME NEW names, Tables(names), NEW entries, NEW before, NEW now, NEW left, NEW items,
         Filled(names, entries, before, now, left, items)
  PROVE  items \in SUBSET Items /\ IsFiniteSet(items)
<1> DEFINE T == {t \in Tuples \ left : resolves(names, t)}
           f == [t \in T |-> IF t \in now THEN Item(names, t, TRUE) ELSE Item(names, t, FALSE)]
           image == {f[t] : t \in T}
<1>1. \A t \in T : t \in TupleNames /\ resolves(names, t)
  BY MemStoreAssumption
<1>2. \A t \in T : Item(names, t, TRUE) \in Items /\ Item(names, t, FALSE) \in Items
  BY <1>1, ResolvesIs
<1>3. items \subseteq image
  BY DEF Filled
<1>4. image \subseteq Items
  BY <1>2
<1>5. IsFiniteSet(T)
  <2>1. T \subseteq Tuples
    OBVIOUS
  <2> QED
    BY <2>1, MemStoreAssumption, FS_Subset
<1>6. IsFiniteSet(image)
  BY <1>5, FiniteImage
<1> HIDE DEF image
<1> QED
  BY <1>3, <1>4, <1>6, FS_Subset

(* A change is read: one of a tuple that is there now. *)
LEMMA PresentRead ==
  ASSUME NEW names, Tables(names), NEW entries, NEW before \in SUBSET Tuples, NEW now \in SUBSET Tuples,
         NEW left, NEW items, Filled(names, entries, before, now, left, items),
         NEW t \in left, t \in now, resolves(names, t)
  PROVE  Filled(names, entries, before, now, left \ {t}, items \cup {Item(names, t, TRUE)})
<1> DEFINE read == ReadSoFar(before, now, left)
           next == ReadSoFar(before, now, left \ {t})
           it == Item(names, t, TRUE)
           all == items \cup {it}
<1>1. next = read \cup {t} /\ read \in SUBSET Tuples
  BY DEF ReadSoFar
<1>2. \A u \in next : resolves(names, u)
  BY <1>1 DEF Filled
<1>3. PICK held : Adding(names, entries, read, items, held)
  BY DEF Filled
<1>4. it.present = TRUE
  BY ItemSays
<1>5. Adds(all) = Adds(items) \cup {it}
  BY <1>4 DEF Adds
<1>6. Drops(all) = Drops(items)
  BY <1>4 DEF Drops
<1>7. it \notin Drops(items)
  <2> SUFFICES ASSUME NEW other \in items, ~other.present,
                      it = [key |-> other.key, subject |-> other.subject, present |-> TRUE]
               PROVE  FALSE
    BY DEF Drops
  <2>1. PICK u \in Tuples \ left :
          resolves(names, u) /\ other = IF u \in now THEN Item(names, u, TRUE) ELSE Item(names, u, FALSE)
    BY DEF Filled
  <2>2. u \notin now /\ other = Item(names, u, FALSE)
    BY <2>1, ItemSays
  <2>3. it = Item(names, u, TRUE)
    BY <2>2, ItemSays
  <2>4. u \in TupleNames /\ t \in TupleNames
    BY <2>1, MemStoreAssumption
  <2>5. u = t
    BY <2>1, <2>3, <2>4, SameItem
  <2> QED
    BY <2>2, <2>5
<1>8. Stored(names, next) = Stored(names, read) \cup {it}
  BY <1>1 DEF Stored
<1>9. Adding(names, entries, next, all, held)
  <2> HIDE DEF it, all, next, read
  <2> QED
    BY <1>3, <1>5, <1>6, <1>7, <1>8 DEF Adding, Lands
<1>10. ASSUME NEW other \in all
       PROVE  \E u \in Tuples \ (left \ {t}) :
                resolves(names, u) /\ other = IF u \in now THEN Item(names, u, TRUE) ELSE Item(names, u, FALSE)
  <2>1. CASE other = it
    BY <2>1
  <2>2. CASE other \in items
    <3>1. PICK u \in Tuples \ left :
            resolves(names, u) /\ other = IF u \in now THEN Item(names, u, TRUE) ELSE Item(names, u, FALSE)
      BY <2>2 DEF Filled
    <3> QED
      BY <3>1
  <2> QED
    BY <2>1, <2>2
<1> HIDE DEF all, next, read
<1>11. EntriesTyped(entries)
  BY DEF Filled
<1> QED
  BY <1>2, <1>9, <1>10, <1>11 DEF Filled, all, next

(* A change is read: one of a tuple that is not there now. *)
LEMMA AbsentRead ==
  ASSUME NEW names, Tables(names), NEW entries, NEW before \in SUBSET Tuples, NEW now \in SUBSET Tuples,
         NEW left, NEW items, Filled(names, entries, before, now, left, items),
         NEW t \in left, t \in Tuples, t \notin now
  PROVE  Filled(names, entries, before, now, left \ {t},
                IF resolves(names, t) THEN items \cup {Item(names, t, FALSE)} ELSE items)
<1> DEFINE read == ReadSoFar(before, now, left)
           next == ReadSoFar(before, now, left \ {t})
           it == Item(names, t, FALSE)
           all == IF resolves(names, t) THEN items \cup {it} ELSE items
<1>1. next = read \ {t} /\ read \in SUBSET Tuples
  BY DEF ReadSoFar
<1>2. \A u \in read : resolves(names, u) /\ u \in TupleNames
  BY <1>1, MemStoreAssumption DEF Filled
<1>3. PICK held : Adding(names, entries, read, items, held)
  BY DEF Filled
<1>4. ASSUME NEW other \in all
       PROVE  \E u \in Tuples \ (left \ {t}) :
                resolves(names, u) /\ other = IF u \in now THEN Item(names, u, TRUE) ELSE Item(names, u, FALSE)
  <2>1. CASE other = it /\ resolves(names, t)
    BY <2>1
  <2>2. CASE other \in items
    <3>1. PICK u \in Tuples \ left :
            resolves(names, u) /\ other = IF u \in now THEN Item(names, u, TRUE) ELSE Item(names, u, FALSE)
      BY <2>2 DEF Filled
    <3> QED
      BY <3>1
  <2> QED
    BY <2>1, <2>2
<1>5. Adding(names, entries, next, all, held)
  <2>1. CASE ~resolves(names, t)
    <3>1. next = read
      BY <1>1, <1>2, <2>1
    <3> QED
      BY <1>3, <2>1, <3>1
  <2>2. CASE resolves(names, t)
    <3>1. it.present = FALSE
      BY ItemSays
    <3>2. Adds(all) = Adds(items)
      BY <2>2, <3>1 DEF Adds
    <3>3. Drops(all) = Drops(items) \cup {Item(names, t, TRUE)}
      <4>1. [key |-> it.key, subject |-> it.subject, present |-> TRUE] = Item(names, t, TRUE)
        BY ItemSays
      <4> HIDE DEF it
      <4> QED
        BY <2>2, <3>1, <4>1 DEF Drops
    <3>4. \A u \in read : Item(names, u, TRUE) = Item(names, t, TRUE) <=> u = t
      <4>1. t \in TupleNames
        BY MemStoreAssumption
      <4> QED
        BY <1>2, <2>2, <4>1, SameItem
    <3>5. Stored(names, next) = Stored(names, read) \ {Item(names, t, TRUE)}
      BY <1>1, <3>4 DEF Stored
    <3> HIDE DEF it, all, next, read
    <3> QED
      BY <1>3, <3>2, <3>3, <3>5 DEF Adding, Lands
  <2> QED
    BY <2>1, <2>2
<1> HIDE DEF all, next, read
<1>6. EntriesTyped(entries)
  BY DEF Filled
<1>7. \A u \in next : resolves(names, u)
  BY <1>1, <1>2
<1> QED
  BY <1>4, <1>5, <1>6, <1>7 DEF Filled, all, next

(* What is left for a key lands in it. *)
LEMMA KeyLands ==
  ASSUME NEW names, Tables(names), NEW entries, NEW before, NEW now,
         NEW left, NEW items, Filled(names, entries, before, now, left, items), NEW k \in Keys
  PROVE  LET on == {it \in items : it.key = k}
         IN  Filled(names, Landed(entries, k, on), before, now, left, items \ on)
<1> DEFINE on == {it \in items : it.key = k}
           rest == items \ on
           land == Landed(entries, k, on)
           read == ReadSoFar(before, now, left)
<1>1. items \in SUBSET Items /\ IsFiniteSet(items)
  BY ReadItems
<1>2. on \in SUBSET Items /\ IsFiniteSet(on) /\ \A it \in on : it.key = k
  BY <1>1, FS_Subset
<1>3. PICK held : Adding(names, entries, read, items, held)
  BY DEF Filled
<1>4. held \in SUBSET PresentItems /\ Holds(entries, held) /\ EntriesTyped(entries)
  BY <1>3 DEF Adding, Filled
<1> DEFINE after == Lands(held, Adds(on), Drops(on))
<1>5. EntriesTyped(land) /\ Holds(land, after)
  <2> HIDE DEF on, land
  <2> QED
    BY <1>2, <1>4, LandedIs DEF land
<1>6. /\ Adds(items) = Adds(on) \cup Adds(rest) /\ Drops(items) = Drops(on) \cup Drops(rest)
      /\ Adds(rest) \cap Drops(on) = {}
  BY DEF Adds, Drops
<1>7. Adds(on) \subseteq PresentItems
  BY <1>2 DEF Adds, PresentItems
<1> HIDE DEF on, rest, land
<1>8. after \in SUBSET PresentItems
  BY <1>4, <1>7 DEF Lands
<1>9. Lands(after, Adds(rest), Drops(rest)) = Lands(held, Adds(items), Drops(items))
  BY <1>6 DEF Lands
<1>10. Adding(names, land, read, rest, after)
  <2> HIDE DEF after
  <2> QED
    BY <1>3, <1>5, <1>8, <1>9 DEF Adding
<1>11. rest \subseteq items
  BY DEF rest
<1> HIDE DEF after
<1>12. Filled(names, land, before, now, left, rest)
  BY <1>5, <1>10, <1>11 DEF Filled
<1> QED
  BY <1>12 DEF on, rest, land

-----------------------------------------------------------------------------
(* The fields the lock's argument is about. *)
MemShape ==
  /\ DOMAIN heap = Refs
  /\ {"active", "pending", "writer"} \subseteq DOMAIN mu
  /\ {"step", "ref", "items"} \subseteq DOMAIN feed
  /\ DOMAIN check = Checkers
  /\ \A c \in Checkers : {"step", "ref"} \subseteq DOMAIN check[c]

(* Who writes is alone. *)
WriterInv == mu.writer = "holds" => mu.active = {}

(* A Check that has found a replica holds the lock for reading, and the    *)
(* replica is still the store's.                                           *)
ReaderInv == \A c \in Checkers : check[c].ref # Nil => c \in mu.active /\ check[c].ref = current

(* The feeding goroutine has a replica of its own only while the store has *)
(* none, and the store's only under the lock.                              *)
FeederInv ==
  /\ feed.ref # Nil /\ current # Nil => feed.ref = current /\ mu.writer = "holds"
  /\ feed.step = "new" => current = Nil
  /\ feed.step \in {"idle", "drop", "new", "enter"} => feed.ref = Nil
  /\ feed.step \in {"compile", "intern", "merge"} => feed.ref # Nil

(* No two replicas are live, and none moves under a Check. *)
LiveInv == MemShape /\ WriterInv /\ ReaderInv /\ FeederInv

-----------------------------------------------------------------------------

(* An empty store has no replica. *)
LEMMA InitLive == MemInit => LiveInv
BY DEF MemInit, LiveInv, MemShape, WriterInv, ReaderInv, FeederInv, UnlockedMutex, IdleFeed, IdleCheck

(* Under the lock for writing nobody reads. *)
LEMMA NoReaders ==
  ASSUME LiveInv, mu.active = {}
  PROVE  \A c \in Checkers : check[c].ref = Nil
BY DEF LiveInv, ReaderInv

(* The feeding goroutine lets go of its replica, and the lock if it had it. *)
LEMMA FailLive ==
  ASSUME LiveInv, Fail, feed.ref # Nil
  PROVE  LiveInv'
<1>1. \A c \in Checkers : check[c].ref = Nil
  BY NoReaders DEF LiveInv, WriterInv, ReaderInv, FeederInv
<1>2. MemShape'
  BY DEF LiveInv, MemShape, Fail, Collected, Unlocked, IdleFeed
<1>3. WriterInv'
  BY DEF LiveInv, MemShape, WriterInv, Fail, Unlocked
<1>4. ReaderInv'
  BY <1>1 DEF Fail, ReaderInv
<1>5. FeederInv'
  BY DEF Fail, FeederInv, IdleFeed
<1> QED
  BY <1>2, <1>3, <1>4, <1>5 DEF LiveInv

(* A call that is to feed the store has no replica yet. *)
LEMMA FeedCallLive ==
  ASSUME LiveInv, feed.step = "idle", mu' = LockCalled,
         feed'.ref = Nil, {"step", "ref", "items"} \subseteq DOMAIN feed',
         feed'.step \in {"drop", "enter"}, UNCHANGED <<current, heap, check>>
  PROVE  LiveInv'
BY DEF LiveInv, MemShape, WriterInv, ReaderInv, FeederInv, LockCalled

(* A replica goes on being filled where it is. *)
LEMMA FillingLive ==
  ASSUME LiveInv, feed.ref # Nil, UNCHANGED <<current, mu, check>>, DOMAIN heap' = DOMAIN heap,
         feed'.ref = feed.ref, feed'.step \in {"compile", "intern", "merge"},
         DOMAIN feed' = DOMAIN feed
  PROVE  LiveInv'
BY DEF LiveInv, MemShape, WriterInv, ReaderInv, FeederInv

(* Every step of a call that feeds the store keeps to the lock. *)
LEMMA FeedStepLive ==
  ASSUME LiveInv, FeedStep
  PROVE  LiveInv'
<1> USE DEF LiveInv, MemShape, WriterInv, ReaderInv, FeederInv
<1>1. CASE Drop
  BY <1>1 DEF Drop, Lockable, Collected, Unlocked
<1>2. CASE New
  <2>1. PICK ref \in Refs :
          /\ feed' = [feed EXCEPT !.step = "compile", !.ref = ref]
          /\ DOMAIN heap' = DOMAIN heap
    BY <1>2 DEF New
  <2>2. ref # Nil
    BY MemStoreAssumption
  <2>3. UNCHANGED <<current, mu, check>> /\ current = Nil
    BY <1>2 DEF New
  <2> QED
    BY <2>1, <2>2, <2>3
<1>3. CASE Publish
  BY <1>3 DEF Publish, Lockable, Unlocked, IdleFeed
<1>4. CASE Enter
  <2>1. CASE current = Nil
    BY <1>4, <2>1 DEF Enter, Unlocked, IdleFeed
  <2>2. CASE current # Nil
    <3>1. feed'.ref = current /\ feed'.step \in {"compile", "intern"} /\ DOMAIN feed' = DOMAIN feed
      BY <1>4, <2>2 DEF Enter
    <3>2. mu' = Locked /\ mu.active = {} /\ UNCHANGED <<current, heap, check>>
      BY <1>4, <2>2 DEF Enter, Lockable
    <3> QED
      BY <2>2, <3>1, <3>2 DEF Locked
  <2> QED
    BY <2>1, <2>2
<1>5. CASE Move
  <2>1. /\ current' = current /\ check' = check /\ DOMAIN heap' = DOMAIN heap
        /\ feed' = IdleFeed /\ mu' = Unlocked
    BY <1>5 DEF Move
  <2>2. \A c \in Checkers : check[c].ref = Nil
    BY <1>5, NoReaders DEF Move, Applying
  <2>3. MemShape'
    BY <2>1 DEF Unlocked, IdleFeed
  <2>4. WriterInv' /\ ReaderInv' /\ FeederInv'
    BY <2>1, <2>2 DEF Unlocked, IdleFeed
  <2> QED
    BY <2>3, <2>4
<1>6. CASE Compile
  <2>1. CASE Fail
    BY <1>6, <2>1, FailLive DEF Compile
  <2>2. CASE ~Fail
    <3>1. /\ UNCHANGED <<current, mu, check>> /\ DOMAIN heap' = DOMAIN heap
          /\ feed' = [feed EXCEPT !.step = "intern"]
      BY <1>6, <2>2 DEF Compile
    <3> QED
      BY <1>6, <3>1, FillingLive DEF Compile
  <2> QED
    BY <2>1, <2>2
<1>7. ASSUME NEW t \in Tuples, Intern(t)
      PROVE  LiveInv'
  <2>1. CASE Fail
    BY <1>7, <2>1, FailLive DEF Intern
  <2>2. CASE ~Fail
    <3>1. /\ UNCHANGED <<current, mu, check>> /\ DOMAIN heap' = DOMAIN heap
          /\ feed'.ref = feed.ref /\ feed'.step = feed.step /\ DOMAIN feed' = DOMAIN feed
      BY <1>7, <2>2 DEF Intern
    <3> QED
      BY <1>7, <3>1, FillingLive DEF Intern
  <2> QED
    BY <2>1, <2>2
<1>8. CASE Merge
  BY <1>8 DEF Merge
<1>9. CASE MergeKey
  BY <1>9 DEF MergeKey
<1>10. CASE Built
  BY <1>10 DEF Built, Applying, LockCalled
<1> QED
  BY <1>1, <1>2, <1>3, <1>4, <1>5, <1>6, <1>7, <1>8, <1>9, <1>10 DEF FeedStep

(* Reset and Apply are such calls. *)
LEMMA FeedCallsLive ==
  ASSUME LiveInv, FeedCall
  PROVE  LiveInv'
<1>1. ASSUME NEW rev \in Revisions, CallReset(rev)
      PROVE  LiveInv'
  BY <1>1, FeedCallLive DEF CallReset, IdleFeed
<1>2. ASSUME NEW rev \in Revisions, NEW schema, NEW changes, CallApply(rev, schema, changes)
      PROVE  LiveInv'
  BY <1>2, FeedCallLive DEF CallApply, IdleFeed
<1> QED
  BY <1>1, <1>2 DEF FeedCall

(* What a read answers leaves the reader where it was. *)
LEMMA AnsweredLive ==
  ASSUME LiveInv, NEW c \in Checkers, NEW kind, NEW k, NEW granted, NEW subjects,
         Answered(c, kind, k, granted, subjects)
  PROVE  LiveInv'
BY DEF LiveInv, MemShape, WriterInv, ReaderInv, FeederInv, Answered

(* A Check finds a replica under the lock and lets go of both at once. *)
LEMMA CheckStepLive ==
  ASSUME LiveInv, NEW c \in Checkers, CheckStep(c)
  PROVE  LiveInv'
<1>1. CASE Resolve(c)
  BY <1>1 DEF Resolve, Resolved, LiveInv, MemShape, WriterInv, ReaderInv, FeederInv
<1>2. ASSUME NEW k, ReadLookup(c, k) \/ ReadSubjects(c, k) \/ ReadWildcard(c, k)
      PROVE  LiveInv'
  BY <1>2, AnsweredLive DEF ReadLookup, ReadSubjects, ReadWildcard
<1>3. CASE Return(c)
  BY <1>3 DEF Return, RUnlocked, IdleCheck, LiveInv, MemShape, WriterInv, ReaderInv, FeederInv
<1> QED
  BY <1>1, <1>2, <1>3 DEF CheckStep

(* A Check that is called has found none yet. *)
LEMMA CallCheckLive ==
  ASSUME LiveInv, NEW c \in Checkers, NEW q, CallCheck(c, q)
  PROVE  LiveInv'
BY DEF CallCheck, RLockCalled, RLocked, IdleCheck, LiveInv, MemShape, WriterInv, ReaderInv, FeederInv

(* The invariant is inductive. *)
LEMMA StepLive ==
  ASSUME LiveInv, [MemNext]_memVars
  PROVE  LiveInv'
<1>1. CASE FeedCall
  BY <1>1, FeedCallsLive
<1>2. CASE FeedStep
  BY <1>2, FeedStepLive
<1>3. ASSUME NEW c \in Checkers, CheckStep(c)
      PROVE  LiveInv'
  BY <1>3, CheckStepLive
<1>4. ASSUME NEW c \in Checkers, NEW q \in Questions[c], CallCheck(c, q)
      PROVE  LiveInv'
  BY <1>4, CallCheckLive
<1>5. CASE UNCHANGED memVars
  BY <1>5 DEF memVars, LiveInv, MemShape, WriterInv, ReaderInv, FeederInv
<1> QED
  BY <1>1, <1>2, <1>3, <1>4, <1>5 DEF MemNext

(* Readers, the writer and the feeding goroutine agree on which replica is *)
(* the store's: the inductive invariant.                                   *)
THEOREM LocksKeepReplicas == MemSpec => []LiveInv
<1>1. LiveInv /\ [MemNext]_memVars => LiveInv'
  BY StepLive
<1> QED
  BY InitLive, <1>1, PTL DEF MemSpec

(* Reset never has the old replica and the new one at once (store.go:35),  *)
(* whoever still checks.                                                   *)
THEOREM OneReplica == MemSpec => []NeverBothLive
<1>1. ASSUME LiveInv
      PROVE  NeverBothLive
  <2>1. \A ref, other \in Live : ref = other
    BY <1>1 DEF Live, LiveInv, ReaderInv, FeederInv
  <2>2. CASE Live = {}
    BY <2>2, FS_EmptySet DEF NeverBothLive
  <2>3. ASSUME NEW ref \in Live
        PROVE  NeverBothLive
    <3>1. Live = {ref}
      BY <2>1, <2>3
    <3> QED
      BY <3>1, FS_Singleton DEF NeverBothLive
  <2> QED
    BY <2>2, <2>3
<1> QED
  BY LocksKeepReplicas, <1>1, PTL

-----------------------------------------------------------------------------

(* The replica of a Check in flight, as it is and as it is next. *)
StandsStill ==
  \A c \in Checkers :
    check[c].ref # Nil /\ check'[c].ref # Nil =>
      check'[c].ref = check[c].ref /\ heap'[check[c].ref] = heap[check[c].ref]

(* Whoever feeds has nothing to do, or waits for the lock, while one reads. *)
LEMMA ReadersHoldOff ==
  ASSUME LiveInv, NEW c \in Checkers, check[c].ref # Nil
  PROVE  ~FeedStep
<1>1. mu.active # {} /\ mu.writer # "holds" /\ current # Nil /\ feed.ref = Nil
  BY DEF LiveInv, WriterInv, ReaderInv, FeederInv
<1>2. feed.step \notin {"new", "compile", "intern", "merge"}
  BY <1>1 DEF LiveInv, FeederInv
<1> QED
  BY <1>1, <1>2 DEF FeedStep, Drop, New, Publish, Enter, Move, Compile, Intern, Merge, MergeKey,
                    Built, Lockable

(* mu is held across a whole Check, "so a change never lands between two   *)
(* of its reads" (store.go:19).                                            *)
THEOREM ReadsOneReplica == MemSpec => [][StandsStill]_memVars
<1>1. ASSUME LiveInv, [MemNext]_memVars
      PROVE  [StandsStill]_memVars
  <2> SUFFICES ASSUME NEW c \in Checkers, check[c].ref # Nil, check'[c].ref # Nil
               PROVE  check'[c].ref = check[c].ref /\ heap'[check[c].ref] = heap[check[c].ref]
    BY DEF StandsStill
  <2>1. check[c].ref = current /\ DOMAIN check = Checkers
        /\ \A d \in Checkers : {"step", "ref"} \subseteq DOMAIN check[d]
    BY <1>1 DEF LiveInv, MemShape, ReaderInv
  <2>2. CASE FeedCall
    BY <2>2 DEF FeedCall, CallReset, CallApply
  <2>3. ASSUME NEW d \in Checkers, CheckStep(d)
        PROVE  check'[c].ref = check[c].ref /\ heap' = heap
    <3>1. CASE Resolve(d)
      BY <2>1, <3>1 DEF Resolve, Resolved
    <3>2. ASSUME NEW k, ReadLookup(d, k) \/ ReadSubjects(d, k) \/ ReadWildcard(d, k)
          PROVE  check'[c].ref = check[c].ref /\ heap' = heap
      <4>1. ASSUME NEW kind, NEW granted, NEW subjects, Answered(d, kind, k, granted, subjects)
            PROVE  check'[c].ref = check[c].ref /\ heap' = heap
        BY <2>1, <4>1 DEF Answered
      <4> QED
        BY <3>2, <4>1 DEF ReadLookup, ReadSubjects, ReadWildcard
    <3>3. CASE Return(d)
      BY <2>1, <3>3 DEF Return, IdleCheck
    <3> QED
      BY <2>3, <3>1, <3>2, <3>3 DEF CheckStep
  <2>4. ASSUME NEW d \in Checkers, NEW q \in Questions[d], CallCheck(d, q)
        PROVE  check'[c].ref = check[c].ref /\ heap' = heap
    BY <2>1, <2>4 DEF CallCheck, IdleCheck
  <2>5. CASE UNCHANGED memVars
    BY <2>5 DEF memVars
  <2> QED
    BY <1>1, <2>2, <2>3, <2>4, <2>5, ReadersHoldOff DEF MemNext
<1> QED
  BY LocksKeepReplicas, <1>1, PTL DEF MemSpec

(* Rules go on being those of their schema under later names. *)
LEMMA GrownRules ==
  ASSUME NEW r, NEW later, Tables(r.names), Tables(later.names), Grows(r.names, later.names),
         later.defines = r.defines, later.subjects = r.subjects, NEW schema, Rules(r, schema)
  PROVE  Rules(later, schema)
<1> DEFINE refs == schema.defines \cup schema.accepts
<1>1. \A space \in Spaces : \A x :
        Seen(r.names[space], x) => /\ Seen(later.names[space], x)
                                   /\ lookup(later.names[space], x) = lookup(r.names[space], x)
  <2> SUFFICES ASSUME NEW space \in Spaces, NEW x, Seen(r.names[space], x)
               PROVE  Seen(later.names[space], x) /\ lookup(later.names[space], x) = lookup(r.names[space], x)
    OBVIOUS
  <2>1. Table(r.names[space]) /\ Table(later.names[space]) /\ Lengthens(r.names[space], later.names[space])
    BY DEF Tables, Grows
  <2> QED
    BY <2>1, GrownLookup
<1>2. "types" \in Spaces /\ "relations" \in Spaces
  BY DEF Spaces
<1>3. RefsSeen(r.names, refs)
  BY DEF Rules
<1>4. RefsSeen(later.names, refs)
  BY <1>1, <1>2, <1>3 DEF RefsSeen
<1>5. ASSUME NEW x \in refs
      PROVE  /\ lookup(later.names["types"], x.type) = lookup(r.names["types"], x.type)
             /\ LookupRelation(later.names, x.relation) = LookupRelation(r.names, x.relation)
  <2>1. CASE x.relation = NoName
    BY <1>1, <1>2, <1>3, <2>1, NoNameUnseen DEF LookupRelation, RefsSeen
  <2>2. CASE x.relation # NoName
    BY <1>1, <1>2, <1>3, <2>2 DEF LookupRelation, RefsSeen
  <2> QED
    BY <2>1, <2>2
<1>6. /\ Ids(later.names, schema.defines) = Ids(r.names, schema.defines)
      /\ Ids(later.names, schema.accepts) = Ids(r.names, schema.accepts)
  BY <1>5 DEF Ids
<1> QED
  BY <1>4, <1>6 DEF Rules

(* compile interns every name its rules are held by. *)
LEMMA CompiledRules ==
  ASSUME NEW names, Tables(names), NEW schema \in Schemas, Declares(schema),
         internAll(names, schema.words).ok, NEW r, r.names = internAll(names, schema.words).names,
         r.defines = Ids(r.names, schema.defines), r.subjects = Ids(r.names, schema.accepts)
  PROVE  Rules(r, schema)
<1> DEFINE words == schema.words
           x == internAll(names, words)
<1>1. words \in Seq(Words) /\ \A ref \in schema.defines \cup schema.accepts : ref.type # NoName
  BY DictionaryAssumption DEF Schemas
<1>2. InternedUpTo(names, words, Len(words), x)
  BY <1>1, InternAllIs
<1>3. \A space, name : Contains(words, Word(space, name)) => Word(space, name) \in ToSet(words)
  BY <1>1 DEF Contains, ToSet
<1> HIDE DEF words
<1>4. ASSUME NEW ref \in schema.defines \cup schema.accepts
      PROVE  /\ Seen(x.names["types"], ref.type)
             /\ ref.relation # NoName => Seen(x.names["relations"], ref.relation)
  <2>1. Word("types", ref.type) \in ToSet(words) /\ ref.type # NoName
    BY <1>1, <1>3 DEF Declares, words
  <2>2. ref.relation # NoName => Word("relations", ref.relation) \in ToSet(words)
    BY <1>3 DEF Declares, words
  <2>3. x.ok
    BY DEF words
  <2> HIDE DEF x
  <2> QED
    BY <1>1, <1>2, <2>1, <2>2, <2>3, InternedSeen
<1> QED
  BY <1>4 DEF Rules, RefsSeen, words

-----------------------------------------------------------------------------

(* The fields of a replica, and of a call that feeds one. *)
ReplicaFields == {"revision", "names", "defines", "subjects", "entries"}
FeedFields == {"step", "ref", "rev", "schema", "left", "items"}

(* What is known of the central store at a revision. *)
LEMMA HistoryIs ==
  ASSUME NEW rev \in Revisions
  PROVE  /\ History[rev].tuples \in SUBSET Tuples /\ History[rev].schema \in Schemas
         /\ History[rev].schema # Nil
         /\ History[rev].schema.compiles => Declares(History[rev].schema)
BY MemStoreAssumption

(* The replicas, and the call that feeds one. *)
StoreInv == HeapInv /\ CallInv /\ FillInv /\ HeldInv

(* A step that feeds the replica, leaving it half way to the same          *)
(* revision.                                                               *)
LEMMA FillingStore ==
  ASSUME LiveInv, StoreInv, feed.ref # Nil, UNCHANGED current,
         NEW r, DOMAIN r = ReplicaFields,
         heap' = [heap EXCEPT ![feed.ref] = r] \/ (heap' = heap /\ r = heap[feed.ref]),
         r.revision = heap[feed.ref].revision, Tables(r.names),
         DOMAIN feed' = FeedFields, feed'.ref = feed.ref, feed'.rev = feed.rev,
         feed'.step \in {"intern", "merge"}, feed'.left \subseteq feed.left,
         feed'.step = "merge" => feed'.left = {},
         Filled(r.names, r.entries, HeldBefore, History[feed.rev].tuples, feed'.left, feed'.items),
         Rules(r, History[feed.rev].schema)
  PROVE  StoreInv'
<1>1. feed.ref \in Refs /\ DOMAIN heap = Refs /\ feed.step # "idle" /\ feed.rev \in Revisions
  BY DEF LiveInv, FeederInv, StoreInv, HeapInv, CallInv
<1>2. heap'[feed.ref] = r /\ \A ref \in Refs : ref # feed.ref => heap'[ref] = heap[ref]
  BY <1>1
<1>3. DOMAIN heap' = Refs
  BY <1>1
<1>4. HeapInv'
  BY <1>1, <1>2, <1>3 DEF StoreInv, HeapInv, ReplicaFields
<1>5. CallInv'
  BY <1>1 DEF StoreInv, CallInv, FeedSteps, FeedFields
<1>6. Applying' <=> Applying
  BY DEF Applying
<1>7. HeldBefore' = HeldBefore
  BY <1>2, <1>6 DEF HeldBefore
<1>8. FillInv'
  BY <1>1, <1>2, <1>6, <1>7 DEF StoreInv, FillInv
<1>9. HeldInv'
  BY DEF HeldInv
<1> QED
  BY <1>4, <1>5, <1>8, <1>9 DEF StoreInv

(* What is of no use is forgotten. *)
LEMMA CollectedHeap ==
  ASSUME StoreInv, NEW ref \in Refs \cup {Nil}, heap' = Collected(ref), current' \in {current, Nil}
  PROVE  HeapInv' /\ (heap' = heap \/ (ref # Nil /\ heap' = [heap EXCEPT ![ref] = Blank(0)]))
<1>1. DOMAIN Blank(0) = ReplicaFields /\ Blank(0).revision = 0 /\ Blank(0).names = NewDictionary
  BY DEF Blank, ReplicaFields
<1>2. Tables(NewDictionary)
  BY DictionaryAssumption DEF Tables, Table, NewDictionary
<1>3. heap' = heap \/ (ref # Nil /\ heap' = [heap EXCEPT ![ref] = Blank(0)])
  BY DEF Collected
<1> HIDE DEF Collected
<1> QED
  BY <1>1, <1>2, <1>3 DEF StoreInv, HeapInv, ReplicaFields

(* apply fails: the store has nothing, and the next call starts over. *)
LEMMA FailStore ==
  ASSUME LiveInv, StoreInv, Fail
  PROVE  StoreInv'
<1>1. HeapInv'
  BY CollectedHeap DEF Fail, StoreInv, CallInv
<1>2. current' = Nil /\ feed' = IdleFeed
  BY DEF Fail
<1>3. CallInv' /\ FillInv' /\ HeldInv'
  BY <1>2, MemStoreAssumption DEF IdleFeed, CallInv, FillInv, HeldInv, FeedSteps
<1> QED
  BY <1>1, <1>3 DEF StoreInv

(* Reset or Apply is called with what the central store has said. *)
LEMMA FeedCallStore ==
  ASSUME LiveInv, StoreInv, FeedCall
  PROVE  StoreInv'
<1>1. feed.step = "idle" /\ feed.ref = Nil /\ current' = current /\ heap' = heap
  BY DEF FeedCall, CallReset, CallApply, LiveInv, FeederInv
<1>2. ASSUME NEW rev \in Revisions, CallReset(rev)
      PROVE  CallInv' /\ feed'.ref = Nil
  <2>1. feed' = [step |-> "drop", ref |-> Nil, rev |-> rev, schema |-> History[rev].schema,
                 left |-> History[rev].tuples, items |-> {}]
    BY <1>2 DEF CallReset, IdleFeed
  <2> QED
    BY <2>1, HistoryIs DEF CallInv, FeedSteps
<1>3. ASSUME NEW rev \in Revisions, NEW schema \in {Nil, History[rev].schema}, NEW changes \in SUBSET Tuples,
             CallApply(rev, schema, changes),
             current # Nil =>
               LET held == History[heap[current].revision]
               IN  /\ SymDiff(held.tuples, History[rev].tuples) \subseteq changes
                   /\ schema = Nil => held.schema = History[rev].schema
      PROVE  CallInv' /\ feed'.ref = Nil
  <2>1. feed' = [step |-> "enter", ref |-> Nil, rev |-> rev, schema |-> schema,
                 left |-> changes, items |-> {}]
    BY <1>3 DEF CallApply, IdleFeed
  <2> QED
    BY <1>1, <1>3, <2>1 DEF CallInv, FeedSteps
<1>4. CallInv' /\ feed'.ref = Nil
  <2>1. CASE \E rev \in Revisions : CallReset(rev)
    BY <1>2, <2>1
  <2>2. ASSUME current = Nil, NEW rev \in Revisions, CallApply(rev, Nil, {})
        PROVE  CallInv' /\ feed'.ref = Nil
    BY <1>3, <2>2
  <2>3. ASSUME current # Nil, NEW to \in Revisions,
               NEW schema \in SchemasSent(heap[current].revision, to),
               NEW changes \in ChangeLists(heap[current].revision, to),
               CallApply(to, schema, changes)
        PROVE  CallInv' /\ feed'.ref = Nil
    <3> DEFINE from == heap[current].revision
    <3>0. from \in Revisions
      BY <1>1, <2>3 DEF StoreInv, HeldInv, Whole
    <3>1. schema \in {Nil, History[to].schema} /\ (schema = Nil => History[from].schema = History[to].schema)
      BY <2>3, HistoryIs DEF SchemasSent
    <3>2. SymDiff(History[from].tuples, History[to].tuples) \subseteq changes /\ changes \subseteq Tuples
      <4>1. SymDiff(History[from].tuples, History[to].tuples) \subseteq Tuples
        BY <3>0, HistoryIs DEF SymDiff
      <4> DEFINE differ == SymDiff(History[from].tuples, History[to].tuples)
      <4> HIDE DEF differ
      <4>2. PICK idle \in SUBSET (Tuples \ differ) : changes = differ \cup idle
        BY <2>3 DEF ChangeLists, differ
      <4> QED
        BY <4>1, <4>2 DEF differ
    <3> HIDE DEF from
    <3> QED
      BY <1>3, <2>3, <3>1, <3>2 DEF from
  <2> QED
    BY <2>1, <2>2, <2>3 DEF FeedCall
<1>5. HeapInv' /\ FillInv' /\ HeldInv'
  BY <1>1, <1>4 DEF StoreInv, HeapInv, FillInv, HeldInv, Whole
<1> QED
  BY <1>4, <1>5 DEF StoreInv

(* A Check changes nothing of it. *)
LEMMA SameStore ==
  ASSUME StoreInv, UNCHANGED <<current, heap, feed>>
  PROVE  StoreInv'
<1>1. HeapInv' /\ CallInv'
  BY DEF StoreInv, HeapInv, CallInv
<1>2. HeldInv'
  BY DEF StoreInv, HeldInv
<1>3. HeldBefore' = HeldBefore /\ (Applying' <=> Applying)
  BY DEF HeldBefore, Applying
<1>4. FillInv'
  BY <1>3 DEF StoreInv, FillInv
<1> QED
  BY <1>1, <1>2, <1>4 DEF StoreInv

-----------------------------------------------------------------------------
(* Reset and Apply. *)

(* Reset lets go of the old replica. *)
LEMMA DropStore ==
  ASSUME LiveInv, StoreInv, Drop
  PROVE  StoreInv'
<1>1. HeapInv'
  BY CollectedHeap DEF Drop, StoreInv, HeapInv
<1>2. current' = Nil /\ feed' = [feed EXCEPT !.step = "new"] /\ feed.step = "drop" /\ feed.ref = Nil
  BY DEF Drop, LiveInv, FeederInv
<1>3. CallInv' /\ FillInv' /\ HeldInv'
  BY <1>2 DEF StoreInv, CallInv, FillInv, HeldInv, FeedSteps
<1> QED
  BY <1>1, <1>3 DEF StoreInv

(* Reset makes a replica of nothing. *)
LEMMA NewStore ==
  ASSUME LiveInv, StoreInv, New
  PROVE  StoreInv'
<1> DEFINE now == History[feed.rev].tuples
<1>1. PICK ref \in Refs : /\ heap' = [heap EXCEPT ![ref] = Blank(feed.rev)]
                          /\ feed' = [feed EXCEPT !.step = "compile", !.ref = ref]
  BY DEF New
<1>2. /\ feed.step = "new" /\ current' = current /\ current = Nil /\ ref # Nil
      /\ feed.rev \in Revisions /\ feed.schema = History[feed.rev].schema
      /\ feed.left = now /\ feed.items = {} /\ DOMAIN feed = FeedFields
  BY MemStoreAssumption DEF New, LiveInv, FeederInv, StoreInv, CallInv, FeedFields
<1>3. /\ DOMAIN Blank(feed.rev) = ReplicaFields /\ Blank(feed.rev).revision = feed.rev
      /\ Blank(feed.rev).names = NewDictionary /\ Blank(feed.rev).entries = <<>>
  BY DEF Blank, ReplicaFields
<1>4. Tables(NewDictionary)
  BY DictionaryAssumption DEF Tables, Table, NewDictionary
<1>5. /\ DOMAIN heap' = Refs /\ heap'[ref] = Blank(feed.rev)
      /\ \A other \in Refs : other # ref => heap'[other] = heap[other]
  BY <1>1 DEF StoreInv, HeapInv
<1>6. HeapInv'
  BY <1>2, <1>3, <1>4, <1>5 DEF StoreInv, HeapInv, ReplicaFields
<1>7. /\ DOMAIN feed' = FeedFields /\ feed'.step = "compile" /\ feed'.ref = ref /\ feed'.rev = feed.rev
      /\ feed'.schema = feed.schema /\ feed'.left = now /\ feed'.items = {}
  BY <1>1, <1>2 DEF FeedFields
<1>8. CallInv'
  BY <1>2, <1>7, HistoryIs DEF CallInv, FeedSteps, FeedFields
<1>9. ~Applying' /\ HeldBefore' = {}
  BY <1>2, <1>7 DEF Applying, HeldBefore
<1>10. Filled(NewDictionary, <<>>, {}, now, now, {})
  BY <1>2, HistoryIs, NothingFilled
<1>11. FillInv'
  BY <1>2, <1>3, <1>5, <1>7, <1>9, <1>10 DEF FillInv
<1>12. HeldInv'
  BY <1>2 DEF HeldInv
<1> QED
  BY <1>6, <1>8, <1>11, <1>12 DEF StoreInv

(* Reset shows a replica that is whole. *)
LEMMA PublishStore ==
  ASSUME LiveInv, StoreInv, Publish
  PROVE  StoreInv'
<1>1. /\ feed.step = "publish" /\ mu.writer # "holds" /\ current' = feed.ref
      /\ heap' = heap /\ feed' = IdleFeed
  BY DEF Publish, Lockable
<1>2. HeapInv'
  BY <1>1 DEF StoreInv, HeapInv, CallInv
<1>3. CallInv' /\ FillInv'
  BY <1>1, MemStoreAssumption DEF IdleFeed, CallInv, FillInv, FeedSteps
<1>4. ASSUME feed.ref # Nil
      PROVE  Whole(heap[feed.ref])
  <2>1. current = Nil /\ ~Applying
    BY <1>1, <1>4 DEF LiveInv, FeederInv, Applying
  <2> DEFINE r == heap[feed.ref]
             now == History[feed.rev].tuples
  <2>2. feed.rev \in Revisions /\ feed.left = {} /\ feed.items = {}
    BY <1>1 DEF StoreInv, CallInv
  <2>3. r.revision = feed.rev /\ Filled(r.names, r.entries, {}, now, {}, {}) /\ Rules(r, History[feed.rev].schema)
    BY <1>1, <1>4, <2>1, <2>2 DEF StoreInv, FillInv, HeldBefore
  <2>4. HoldsAll(r.names, r.entries, now)
    <3> HIDE DEF r
    <3> QED
      BY <2>2, <2>3, HistoryIs, FilledHolds
  <2> QED
    BY <2>2, <2>3, <2>4 DEF Whole
<1>5. HeldInv'
  BY <1>1, <1>4 DEF HeldInv
<1> QED
  BY <1>2, <1>3, <1>5 DEF StoreInv

(* Apply refuses, or takes the replica as it is held. *)
LEMMA EnterStore ==
  ASSUME LiveInv, StoreInv, Enter
  PROVE  StoreInv'
<1>1. feed.step = "enter" /\ current' = current /\ heap' = heap /\ feed.ref = Nil
  BY DEF Enter, LiveInv, FeederInv
<1>2. HeapInv'
  BY <1>1 DEF StoreInv, HeapInv
<1>3. CASE current = Nil
  <2>1. feed' = IdleFeed
    BY <1>3 DEF Enter
  <2>2. CallInv' /\ FillInv' /\ HeldInv'
    BY <1>1, <1>3, <2>1, MemStoreAssumption DEF IdleFeed, CallInv, FillInv, HeldInv, FeedSteps
  <2> QED
    BY <1>2, <2>2 DEF StoreInv
<1>4. CASE current # Nil
  <2> DEFINE r == heap[current]
             before == History[r.revision].tuples
             now == History[feed.rev].tuples
  <2>1. Whole(r) /\ current \in Refs /\ Tables(r.names)
    BY <1>1, <1>4 DEF StoreInv, HeldInv, HeapInv
  <2>2. /\ feed.rev \in Revisions /\ feed.items = {} /\ DOMAIN feed = FeedFields
        /\ feed.schema \in {Nil, History[feed.rev].schema} /\ feed.left \subseteq Tuples
        /\ SymDiff(before, now) \subseteq feed.left
        /\ feed.schema = Nil => History[r.revision].schema = History[feed.rev].schema
    BY <1>1, <1>4 DEF StoreInv, CallInv, FeedFields
  <2>3. feed' = [feed EXCEPT !.step = IF feed.schema = Nil THEN "intern" ELSE "compile", !.ref = current]
    BY <1>4 DEF Enter
  <2>4. /\ DOMAIN feed' = FeedFields /\ feed'.step = IF feed.schema = Nil THEN "intern" ELSE "compile"
        /\ feed'.ref = current /\ feed'.rev = feed.rev /\ feed'.schema = feed.schema
        /\ feed'.left = feed.left /\ feed'.items = {}
    BY <2>2, <2>3 DEF FeedFields
  <2>5. CallInv'
    BY <1>4, <2>1, <2>2, <2>4 DEF CallInv, FeedSteps, FeedFields
  <2>6. Applying' /\ HeldBefore' = before
    BY <1>1, <1>4, <2>4 DEF Applying, HeldBefore
  <2>7. Filled(r.names, r.entries, before, now, feed.left, {})
    <3>1. HoldsAll(r.names, r.entries, before) /\ r.revision \in Revisions
      BY <2>1 DEF Whole
    <3>2. before \in SUBSET Tuples /\ now \in SUBSET Tuples
      BY <2>2, <3>1, HistoryIs
    <3> HIDE DEF r, before, now
    <3> QED
      BY <2>1, <2>2, <3>1, <3>2, HeldFilled
  <2>8. feed.schema = Nil => Rules(r, History[feed.rev].schema)
    BY <2>1, <2>2 DEF Whole
  <2>9. FillInv'
    BY <1>1, <2>1, <2>2, <2>4, <2>6, <2>7, <2>8 DEF FillInv, Whole
  <2>10. HeldInv'
    BY <1>1, <1>4, <2>4 DEF HeldInv
  <2> QED
    BY <1>2, <2>5, <2>9, <2>10 DEF StoreInv
<1> QED
  BY <1>3, <1>4

(* apply moves the replica to its revision once all is merged. *)
LEMMA MoveStore ==
  ASSUME LiveInv, StoreInv, Move
  PROVE  StoreInv'
<1> DEFINE r == heap[current]
           next == [r EXCEPT !.revision = feed.rev]
           now == History[feed.rev].tuples
<1>1. /\ feed.step = "merge" /\ feed.items = {} /\ feed.left = {} /\ feed.rev \in Revisions
      /\ feed.ref # Nil /\ feed.ref = current /\ current \in Refs
      /\ current' = current /\ feed' = IdleFeed /\ heap' = [heap EXCEPT ![current] = next]
  BY DEF Move, Applying, StoreInv, CallInv, HeapInv
<1>2. DOMAIN heap = Refs /\ DOMAIN r = ReplicaFields /\ Tables(r.names)
  BY <1>1 DEF StoreInv, HeapInv, ReplicaFields
<1>3. /\ DOMAIN next = ReplicaFields /\ next.revision = feed.rev /\ next.names = r.names
      /\ next.entries = r.entries /\ next.defines = r.defines /\ next.subjects = r.subjects
  BY <1>2 DEF ReplicaFields
<1> HIDE DEF next
<1>4. /\ DOMAIN heap' = Refs /\ heap'[current] = next
      /\ \A other \in Refs : other # current => heap'[other] = heap[other]
  BY <1>1, <1>2
<1>5. HeapInv'
  BY <1>1, <1>2, <1>3, <1>4 DEF StoreInv, HeapInv, ReplicaFields
<1>6. CallInv' /\ FillInv'
  BY <1>1, MemStoreAssumption DEF IdleFeed, CallInv, FillInv, FeedSteps
<1>7. Filled(r.names, r.entries, HeldBefore, now, {}, {}) /\ Rules(r, History[feed.rev].schema)
  BY <1>1 DEF StoreInv, FillInv
<1>8. HoldsAll(r.names, r.entries, now)
  <2> HIDE DEF r
  <2> QED
    BY <1>1, <1>7, HistoryIs, FilledHolds
<1>9. Whole(next)
  BY <1>1, <1>3, <1>7, <1>8 DEF Whole, Rules
<1>10. HeldInv'
  BY <1>1, <1>4, <1>9 DEF HeldInv
<1> QED
  BY <1>5, <1>6, <1>10 DEF StoreInv

-----------------------------------------------------------------------------
(* What both do with a replica. *)

(* apply compiles the new schema, or keeps the rules where there is none. *)
LEMMA CompileStore ==
  ASSUME LiveInv, StoreInv, Compile
  PROVE  StoreInv'
<1> DEFINE r == heap[feed.ref]
           schema == History[feed.rev].schema
           interned == internAll(r.names, feed.schema.words)
           next == [r EXCEPT !.names = interned.names, !.defines = Ids(interned.names, feed.schema.defines),
                             !.subjects = Ids(interned.names, feed.schema.accepts)]
<1>1. /\ feed.step = "compile" /\ feed.ref # Nil /\ feed.ref \in Refs /\ feed.rev \in Revisions
      /\ feed.schema = schema /\ DOMAIN feed = FeedFields
  BY DEF Compile, LiveInv, FeederInv, StoreInv, CallInv, FeedFields
<1>2. CASE Fail
  BY <1>2, FailStore
<1>3. CASE ~Fail
  <2>1. /\ schema.compiles /\ interned.ok /\ current' = current
        /\ heap' = [heap EXCEPT ![feed.ref] = next] /\ feed' = [feed EXCEPT !.step = "intern"]
    BY <1>1, <1>3, Zenon DEF Compile, Ids, LookupRelation
  <2>2. DOMAIN r = ReplicaFields /\ Tables(r.names) /\ r.revision \in Revisions
    BY <1>1 DEF StoreInv, HeapInv, FillInv, ReplicaFields
  <2>3. schema \in Schemas /\ Declares(schema)
    BY <1>1, <2>1, HistoryIs
  <2>4. InternedUpTo(r.names, schema.words, Len(schema.words), interned)
    <3>1. schema.words \in Seq(Words)
      BY <2>3 DEF Schemas
    <3> QED
      BY <1>1, <2>2, <3>1, InternAllIs
  <2> HIDE DEF interned
  <2>5. Tables(interned.names) /\ Grows(r.names, interned.names)
    BY <2>4 DEF InternedUpTo
  <2>6. /\ DOMAIN next = ReplicaFields /\ next.revision = r.revision /\ next.names = interned.names
        /\ next.entries = r.entries /\ next.defines = Ids(next.names, schema.defines)
        /\ next.subjects = Ids(next.names, schema.accepts)
    BY <1>1, <2>2 DEF ReplicaFields
  <2> HIDE DEF next
  <2>7. Rules(next, schema)
    <3> HIDE DEF r, schema
    <3> QED
      BY <1>1, <2>1, <2>2, <2>3, <2>6, CompiledRules DEF interned
  <2>8. Filled(next.names, next.entries, HeldBefore, History[feed.rev].tuples, feed.left, feed.items)
    <3>1. Filled(r.names, r.entries, HeldBefore, History[feed.rev].tuples, feed.left, feed.items)
      BY <1>1 DEF StoreInv, FillInv
    <3> HIDE DEF r
    <3> QED
      BY <2>2, <2>5, <2>6, <3>1, GrownFilled
  <2>9. /\ DOMAIN feed' = FeedFields /\ feed'.ref = feed.ref /\ feed'.rev = feed.rev
        /\ feed'.step = "intern" /\ feed'.left = feed.left /\ feed'.items = feed.items
    BY <1>1, <2>1 DEF FeedFields
  <2> QED
    BY <1>1, <2>1, <2>5, <2>6, <2>7, <2>8, <2>9, FillingStore
<1> QED
  BY <1>2, <1>3

(* Intern reads one change. *)
LEMMA InternStore ==
  ASSUME LiveInv, StoreInv, NEW t \in Tuples, Intern(t)
  PROVE  StoreInv'
<1> DEFINE r == heap[feed.ref]
           names == r.names
           interned == internAll(names, tupleWords(t))
           now == History[feed.rev].tuples
           next == [r EXCEPT !.names = interned.names]
           rest == feed.left \ {t}
<1>1. /\ feed.step = "intern" /\ t \in feed.left /\ feed.ref # Nil /\ feed.ref \in Refs /\ feed.rev \in Revisions
      /\ DOMAIN feed = FeedFields /\ feed.left \subseteq Tuples /\ DOMAIN heap = Refs
  BY DEF Intern, LiveInv, FeederInv, StoreInv, CallInv, HeapInv, FeedFields
<1>2. DOMAIN r = ReplicaFields /\ Tables(names) /\ r.revision \in Revisions
  BY <1>1 DEF StoreInv, HeapInv, FillInv, ReplicaFields
<1>3. /\ Filled(names, r.entries, HeldBefore, now, feed.left, feed.items)
      /\ Rules(r, History[feed.rev].schema)
  BY <1>1 DEF StoreInv, FillInv
<1>4. now \in SUBSET Tuples /\ HeldBefore \in SUBSET Tuples
  <2>1. now \in SUBSET Tuples
    BY <1>1, HistoryIs
  <2>2. History[r.revision].tuples \in SUBSET Tuples
    BY <1>2, HistoryIs
  <2> QED
    BY <2>1, <2>2 DEF HeldBefore
<1>5. t \in TupleNames
  BY MemStoreAssumption
<1>6. CASE Fail
  BY <1>6, FailStore
<1>7. CASE t \in now /\ ~Fail
  <2>1. /\ interned.ok /\ current' = current
        /\ heap' = [heap EXCEPT ![feed.ref].names = interned.names]
        /\ feed' = [feed EXCEPT !.left = rest, !.items = @ \cup {Item(interned.names, t, TRUE)}]
    BY <1>1, <1>7 DEF Intern, IsPresent
  <2>2. resolves(interned.names, t)
    BY <1>2, <1>5, <2>1, InternedResolves
  <2>3. Tables(interned.names) /\ Grows(names, interned.names)
    <3>1. tupleWords(t) \in Seq(Words)
      BY <1>5, TupleWordsAre
    <3>2. InternedUpTo(names, tupleWords(t), Len(tupleWords(t)), interned)
      BY <1>2, <3>1, InternAllIs
    <3> HIDE DEF interned
    <3> QED
      BY <3>2 DEF InternedUpTo
  <2> HIDE DEF interned
  <2>4. heap' = [heap EXCEPT ![feed.ref] = next]
    BY <1>1, <2>1
  <2>5. /\ DOMAIN next = ReplicaFields /\ next.revision = r.revision /\ next.names = interned.names
        /\ next.entries = r.entries /\ next.defines = r.defines /\ next.subjects = r.subjects
    BY <1>2 DEF ReplicaFields
  <2>6. /\ DOMAIN feed' = FeedFields /\ feed'.ref = feed.ref /\ feed'.rev = feed.rev
        /\ feed'.step = "intern" /\ feed'.left = rest
        /\ feed'.items = feed.items \cup {Item(interned.names, t, TRUE)}
    BY <1>1, <2>1 DEF FeedFields
  <2> HIDE DEF next
  <2>7. Rules(next, History[feed.rev].schema)
    <3> HIDE DEF r
    <3> QED
      BY <1>2, <1>3, <2>3, <2>5, GrownRules
  <2>8. Filled(next.names, next.entries, HeldBefore, now, rest, feed'.items)
    <3> HIDE DEF r, now, rest
    <3>1. Filled(interned.names, r.entries, HeldBefore, now, feed.left, feed.items)
      BY <1>2, <1>3, <2>3, GrownFilled
    <3>2. Filled(interned.names, r.entries, HeldBefore, now, feed.left \ {t},
                 feed.items \cup {Item(interned.names, t, TRUE)})
      BY <1>1, <1>4, <1>7, <2>2, <2>3, <3>1, PresentRead
    <3> QED
      BY <2>5, <2>6, <3>2 DEF rest
  <2>9. rest \subseteq feed.left
    OBVIOUS
  <2>10. r.revision = next.revision /\ feed'.step \in {"intern", "merge"} /\ Tables(next.names)
    BY <2>3, <2>5, <2>6
  <2> QED
    BY <1>1, <2>1, <2>4, <2>5, <2>6, <2>7, <2>8, <2>9, <2>10, FillingStore
<1>8. CASE t \notin now /\ ~Fail
  <2>1. /\ current' = current /\ heap' = heap
        /\ feed' = [feed EXCEPT !.left = rest,
                      !.items = IF resolves(names, t) THEN @ \cup {Item(names, t, FALSE)} ELSE @]
    BY <1>1, <1>8 DEF Intern, IsPresent
  <2>2. heap' = heap /\ r = heap[feed.ref]
    BY <1>1, <2>1
  <2>3. /\ DOMAIN feed' = FeedFields /\ feed'.ref = feed.ref /\ feed'.rev = feed.rev
        /\ feed'.step = "intern" /\ feed'.left = rest
        /\ feed'.items = IF resolves(names, t) THEN feed.items \cup {Item(names, t, FALSE)} ELSE feed.items
    BY <1>1, <2>1 DEF FeedFields
  <2>4. Filled(names, r.entries, HeldBefore, now, rest, feed'.items)
    <3> HIDE DEF r, now
    <3>1. Filled(names, r.entries, HeldBefore, now, feed.left \ {t},
                 IF resolves(names, t) THEN feed.items \cup {Item(names, t, FALSE)} ELSE feed.items)
      BY <1>1, <1>2, <1>3, <1>4, <1>8, AbsentRead
    <3> QED
      BY <2>3, <3>1
  <2>5. rest \subseteq feed.left
    OBVIOUS
  <2> HIDE DEF r, rest
  <2>6. r.revision = heap[feed.ref].revision
    BY DEF r
  <2> QED
    BY <1>1, <1>2, <1>3, <2>1, <2>2, <2>3, <2>4, <2>5, <2>6, FillingStore
<1> QED
  BY <1>6, <1>7, <1>8

(* merge begins when every change has been interned. *)
LEMMA MergeStore ==
  ASSUME LiveInv, StoreInv, Merge
  PROVE  StoreInv'
<1> DEFINE r == heap[feed.ref]
           now == History[feed.rev].tuples
<1>1. /\ feed.step = "intern" /\ feed.left = {} /\ feed.ref # Nil /\ feed.ref \in Refs /\ feed.rev \in Revisions
      /\ DOMAIN feed = FeedFields /\ DOMAIN heap = Refs
      /\ feed' = [feed EXCEPT !.step = "merge"] /\ current' = current /\ heap' = heap
  BY DEF Merge, LiveInv, FeederInv, StoreInv, CallInv, HeapInv, FeedFields
<1>2. DOMAIN r = ReplicaFields /\ Tables(r.names)
  BY <1>1 DEF StoreInv, HeapInv, ReplicaFields
<1>3. /\ Filled(r.names, r.entries, HeldBefore, now, feed.left, feed.items)
      /\ Rules(r, History[feed.rev].schema)
  BY <1>1 DEF StoreInv, FillInv
<1>4. heap' = heap
  BY <1>1
<1>5. /\ DOMAIN feed' = FeedFields /\ feed'.ref = feed.ref /\ feed'.rev = feed.rev
      /\ feed'.step = "merge" /\ feed'.left = feed.left /\ feed'.items = feed.items
  BY <1>1 DEF FeedFields
<1> HIDE DEF r, now
<1>6. r.revision = heap[feed.ref].revision /\ r = heap[feed.ref]
  BY DEF r
<1> QED
  BY <1>1, <1>2, <1>3, <1>4, <1>5, <1>6, FillingStore DEF now

(* MergeKey: what was read of a key lands in it. *)
LEMMA MergeKeyStore ==
  ASSUME LiveInv, StoreInv, MergeKey
  PROVE  StoreInv'
<1> DEFINE r == heap[feed.ref]
           now == History[feed.rev].tuples
<1>1. /\ feed.step = "merge" /\ feed.left = {} /\ feed.ref # Nil /\ feed.ref \in Refs /\ feed.rev \in Revisions
      /\ DOMAIN feed = FeedFields /\ DOMAIN heap = Refs /\ current' = current
  BY DEF MergeKey, LiveInv, FeederInv, StoreInv, CallInv, HeapInv, FeedFields
<1>2. DOMAIN r = ReplicaFields /\ Tables(r.names)
  BY <1>1 DEF StoreInv, HeapInv, ReplicaFields
<1>3. /\ Filled(r.names, r.entries, HeldBefore, now, feed.left, feed.items)
      /\ Rules(r, History[feed.rev].schema)
  BY <1>1 DEF StoreInv, FillInv
<1>4. PICK k \in {it.key : it \in feed.items} :
        LET on == {it \in feed.items : it.key = k}
        IN  /\ heap' = [heap EXCEPT ![feed.ref].entries = Landed(@, k, on)]
            /\ feed' = [feed EXCEPT !.items = @ \ on]
  BY DEF MergeKey
<1>5. k \in Keys
  <2>1. feed.items \in SUBSET Items
    <3> HIDE DEF r, now
    <3> QED
      BY <1>2, <1>3, ReadItems
  <2> QED
    BY <2>1 DEF Items
<1> DEFINE on == {it \in feed.items : it.key = k}
           land == Landed(r.entries, k, on)
           next == [r EXCEPT !.entries = land]
<1>6. Filled(r.names, land, HeldBefore, now, feed.left, feed.items \ on)
  <2> HIDE DEF r, now
  <2> QED
    BY <1>2, <1>3, <1>5, KeyLands
<1> HIDE DEF land, on
<1>7. heap' = [heap EXCEPT ![feed.ref] = next] /\ feed' = [feed EXCEPT !.items = @ \ on]
  BY <1>1, <1>4 DEF land, on
<1>8. /\ DOMAIN next = ReplicaFields /\ next.revision = r.revision /\ next.names = r.names
      /\ next.entries = land /\ next.defines = r.defines /\ next.subjects = r.subjects
  BY <1>2 DEF ReplicaFields
<1>9. /\ DOMAIN feed' = FeedFields /\ feed'.ref = feed.ref /\ feed'.rev = feed.rev
      /\ feed'.step = "merge" /\ feed'.left = feed.left /\ feed'.items = feed.items \ on
  BY <1>1, <1>7 DEF FeedFields
<1> HIDE DEF next
<1>10. Rules(next, History[feed.rev].schema)
  BY <1>3, <1>8 DEF Rules
<1> HIDE DEF r
<1>11. next.revision = heap[feed.ref].revision /\ Tables(next.names)
  BY <1>2, <1>8 DEF r
<1>12. Filled(next.names, next.entries, HeldBefore, now, feed'.left, feed'.items)
  BY <1>6, <1>8, <1>9
<1> QED
  BY <1>1, <1>7, <1>8, <1>9, <1>10, <1>11, <1>12, FillingStore

(* build is done when every key has been merged. *)
LEMMA BuiltStore ==
  ASSUME LiveInv, StoreInv, Built
  PROVE  StoreInv'
<1>1. /\ feed.step = "merge" /\ feed.items = {} /\ feed.left = {} /\ ~Applying /\ feed.rev \in Revisions
      /\ current' = current /\ heap' = heap /\ feed' = [feed EXCEPT !.step = "publish", !.schema = Nil]
      /\ DOMAIN feed = FeedFields /\ feed.ref # Nil
  BY DEF Built, StoreInv, CallInv, FeedFields, LiveInv, FeederInv
<1>2. /\ DOMAIN feed' = FeedFields /\ feed'.ref = feed.ref /\ feed'.rev = feed.rev
      /\ feed'.step = "publish" /\ feed'.left = {} /\ feed'.items = {}
  BY <1>1 DEF FeedFields
<1>3. HeapInv'
  BY <1>1 DEF StoreInv, HeapInv
<1>4. CallInv'
  BY <1>1, <1>2 DEF StoreInv, CallInv, FeedSteps, FeedFields
<1>5. ~Applying' /\ HeldBefore' = HeldBefore
  BY <1>1, <1>2 DEF Applying, HeldBefore
<1>6. FillInv'
  BY <1>1, <1>2, <1>5 DEF StoreInv, FillInv
<1>7. HeldInv'
  BY <1>1, <1>2 DEF HeldInv
<1> QED
  BY <1>3, <1>4, <1>6, <1>7 DEF StoreInv

(* Every step of a call that feeds the store. *)
LEMMA FeedStepStore ==
  ASSUME LiveInv, StoreInv, FeedStep
  PROVE  StoreInv'
BY DropStore, NewStore, PublishStore, EnterStore, MoveStore, CompileStore, InternStore, MergeStore,
   MergeKeyStore, BuiltStore DEF FeedStep

-----------------------------------------------------------------------------
(* A read of a whole replica, in names. *)

(* What ids say in a Check of q, whose resource may have none. *)
NameOfObject(names, q, id) == IF id = UnknownObject THEN q.resource.id ELSE names["objects"][id]

NameOfRef(names, q, type, id) == [type |-> names["types"][type], id |-> NameOfObject(names, q, id)]

NameOfSubject(names, q, s) ==
  [type |-> NameOfRef(names, q, s[1], s[2]).type, id |-> NameOfRef(names, q, s[1], s[2]).id,
   relation |-> IF Len(s) = 2 THEN NoName ELSE names["relations"][s[3]]]

(* Whether t is on what k means in a Check of q. *)
IsOn(names, q, k, t) ==
  /\ t.resource = NameOfRef(names, q, k.object.type, k.object.id)
  /\ t.relation = names["relations"][k.relation]

(* The subjects of the tuples on k. *)
StoredOn(names, q, tuples, k) == {t.subject : t \in {u \in tuples : IsOn(names, q, k, u)}}

(* read, of these names, says what is stored on its key. *)
ReadSays(names, q, tuples, read) ==
  LET on    == StoredOn(names, q, tuples, read.key)
      plain == {s \in on : s.id # WildcardMarker}
      told  == {NameOfSubject(names, q, s) : s \in ToSet(read.subjects)}
  IN  CASE read.kind = "lookup" -> /\ read.granted <=> q.subject \in plain
                                   /\ told = {s \in plain : s.relation # NoName}
        [] read.kind = "subjects" -> told = plain
        [] read.kind = "wildcard" -> read.granted <=> [q.subject EXCEPT !.id = WildcardMarker] \in on

(* Which is what AnswersOneRevision asks of it. *)
LEMMA ReadRightIs ==
  ASSUME NEW c
  PROVE  ReadRight(c) <=>
           ReadSays(heap[check[c].ref].names, check[c].asked, History[check[c].began].tuples, check[c].last)
<1> DEFINE names == heap[check[c].ref].names
           q == check[c].asked
           tuples == History[check[c].began].tuples
           read == check[c].last
           plain == {s \in StoredThen(c) : s.id # WildcardMarker}
           told == {SubjectName(c, s) : s \in ToSet(read.subjects)}
<1>1. StoredThen(c) = StoredOn(names, q, tuples, read.key)
  BY Zenon DEF StoredThen, RefName, ObjectName, StoredOn, IsOn, NameOfRef, NameOfObject
<1>2. \A s : SubjectName(c, s) = NameOfSubject(names, q, s)
  BY Zenon DEF SubjectName, RefName, ObjectName, NameOfSubject, NameOfRef, NameOfObject
<1>3. told = {NameOfSubject(names, q, s) : s \in ToSet(read.subjects)}
  BY <1>2
<1>4. ReadRight(c) <=>
        CASE read.kind = "lookup" -> /\ read.granted <=> q.subject \in plain
                                     /\ told = {s \in plain : s.relation # NoName}
          [] read.kind = "subjects" -> told = plain
          [] read.kind = "wildcard" -> read.granted <=> [q.subject EXCEPT !.id = WildcardMarker] \in StoredThen(c)
  BY Zenon DEF ReadRight
<1> QED
  BY <1>1, <1>3, <1>4 DEF ReadSays

(* An id is of one name. *)
LEMMA IdOfName ==
  ASSUME NEW table, Table(table), NEW s, Seen(table, s), NEW i \in 1..Len(table)
  PROVE  lookup(table, s) = i <=> s = table[i]
BY LookupIs DEF Table

(* A key by ids; only what was asked may be an object without one. *)
KnownKey(names, q, k) ==
  /\ k = [object |-> [type |-> k.object.type, id |-> k.object.id], relation |-> k.relation]
  /\ k.object.type \in 1..Len(names["types"]) /\ k.relation \in 1..Len(names["relations"])
  /\ \/ k.object.id \in 1..Len(names["objects"])
     \/ k.object.id = UnknownObject /\ ~Seen(names["objects"], q.resource.id)

(* Ids count from 1 and stay below the one of an object that has none. *)
LEMMA TablesAre ==
  ASSUME NEW names, Tables(names), NEW space \in Spaces
  PROVE  /\ Table(names[space]) /\ Len(names[space]) \in Nat /\ DOMAIN names[space] = 1..Len(names[space])
         /\ \A i \in 1..Len(names[space]) : i \in Nat /\ i # 0 /\ i # UnknownObject
<1>1. Table(names[space])
  BY DEF Tables
<1>2. Len(names[space]) \in Nat /\ Len(names[space]) <= Limit /\ Limit \in Nat
      /\ DOMAIN names[space] = 1..Len(names[space])
  BY <1>1, DictionaryAssumption DEF Table
<1> QED
  BY <1>1, <1>2 DEF UnknownObject

(* A tuple is on a key that is read just when it is held under that key. *)
LEMMA KeyOfTuple ==
  ASSUME NEW names, Tables(names), NEW q, NEW k, KnownKey(names, q, k),
         NEW t \in TupleNames, TupleSeen(names, t)
  PROVE  Item(names, t, TRUE).key = k <=> IsOn(names, q, k, t)
<1> DEFINE T == names["types"]
           O == names["objects"]
           R == names["relations"]
<1>1. Table(T) /\ Table(O) /\ Table(R)
  BY DEF Tables, Spaces
<1>2. Seen(T, t.resource.type) /\ Seen(O, t.resource.id) /\ Seen(R, t.relation)
  BY DEF TupleSeen
<1>3. Item(names, t, TRUE).key = [object |-> [type |-> lookup(T, t.resource.type), id |-> lookup(O, t.resource.id)],
                                  relation |-> lookup(R, t.relation)]
  BY DEF Item, LookupObjectRef, LookupRelation
<1>4. t.resource = [type |-> t.resource.type, id |-> t.resource.id]
  BY DEF TupleNames
<1>5. \A i \in 1..Len(O) : i # UnknownObject
  BY TablesAre DEF Spaces
<1>6. IsOn(names, q, k, t) <=>
        /\ t.resource.type = T[k.object.type]
        /\ t.resource.id = IF k.object.id = UnknownObject THEN q.resource.id ELSE O[k.object.id]
        /\ t.relation = R[k.relation]
  BY <1>4 DEF IsOn, NameOfRef, NameOfObject
<1>7. /\ k = [object |-> [type |-> k.object.type, id |-> k.object.id], relation |-> k.relation]
      /\ k.object.type \in 1..Len(T) /\ k.relation \in 1..Len(R)
      /\ \/ k.object.id \in 1..Len(O)
         \/ k.object.id = UnknownObject /\ ~Seen(O, q.resource.id)
  BY DEF KnownKey
<1> HIDE DEF T, O, R
<1>8. /\ lookup(T, t.resource.type) = k.object.type <=> t.resource.type = T[k.object.type]
      /\ lookup(R, t.relation) = k.relation <=> t.relation = R[k.relation]
  BY <1>1, <1>2, <1>7, IdOfName
<1>9. lookup(O, t.resource.id) = k.object.id <=>
        t.resource.id = IF k.object.id = UnknownObject THEN q.resource.id ELSE O[k.object.id]
  <2>1. CASE k.object.id \in 1..Len(O)
    BY <1>1, <1>2, <1>5, <2>1, IdOfName
  <2>2. CASE k.object.id = UnknownObject /\ ~Seen(O, q.resource.id)
    <3>1. lookup(O, t.resource.id) \in 1..Len(O)
      BY <1>1, <1>2, LookupIs
    <3>2. lookup(O, t.resource.id) # k.object.id
      BY <1>5, <2>2, <3>1
    <3>3. t.resource.id # q.resource.id
      BY <1>2, <2>2
    <3> QED
      BY <2>2, <3>2, <3>3
  <2> QED
    BY <1>7, <2>1, <2>2
<1>10. Item(names, t, TRUE).key = k <=>
         /\ lookup(T, t.resource.type) = k.object.type /\ lookup(O, t.resource.id) = k.object.id
         /\ lookup(R, t.relation) = k.relation
  <2> DEFINE K == Item(names, t, TRUE).key
             a == lookup(T, t.resource.type)
             b == lookup(O, t.resource.id)
             d == lookup(R, t.relation)
             x == k.object.type
             y == k.object.id
             z == k.relation
  <2>1. K = [object |-> [type |-> a, id |-> b], relation |-> d]
    BY <1>3
  <2>2. k = [object |-> [type |-> x, id |-> y], relation |-> z]
    BY <1>7
  <2> HIDE DEF K, a, b, d, x, y, z
  <2>3. K = k <=> a = x /\ b = y /\ d = z
    BY <2>1, <2>2
  <2> QED
    BY <2>3 DEF K, a, b, d, x, y, z
<1> QED
  BY <1>6, <1>8, <1>9, <1>10

(* The ids of the subjects that names has. *)
TheirIds(names, subjects) == {LookupSubjectRef(names, s) : s \in subjects}

(* What is listed on a key that is read is what is stored on it. *)
LEMMA ListedOn ==
  ASSUME NEW names, Tables(names), NEW entries, NEW tuples \in SUBSET Tuples, HoldsAll(names, entries, tuples),
         NEW q, NEW k, KnownKey(names, q, k)
  PROVE  LET e  == EntryOf(entries, k)
             on == StoredOn(names, q, tuples, k)
         IN  /\ \A s \in on : s \in SubjectNames /\ SubjectSeen(names, s)
             /\ TheirIds(names, on) \in SUBSET Subjects
             /\ EntryTyped(e) /\ ListsAll(e, TheirIds(names, on))
<1> DEFINE e == EntryOf(entries, k)
           on == StoredOn(names, q, tuples, k)
           items == Stored(names, tuples)
<1>1. \A t \in tuples : t \in TupleNames /\ TupleSeen(names, t)
  BY MemStoreAssumption, ResolvesIs DEF HoldsAll
<1>2. \A t \in tuples : /\ t.subject \in SubjectNames /\ SubjectSeen(names, t.subject)
                        /\ Item(names, t, TRUE).key = k <=> IsOn(names, q, k, t)
  BY <1>1, KeyOfTuple DEF TupleNames, SubjectNames, TupleSeen
<1>3. \A s \in on : s \in SubjectNames /\ SubjectSeen(names, s)
  BY <1>2 DEF StoredOn
<1>4. TheirIds(names, on) \in SUBSET Subjects
  BY <1>3, SubjectResolves DEF TheirIds
<1>5. \A t \in tuples : Item(names, t, TRUE).subject = LookupSubjectRef(names, t.subject)
  BY DEF Item
<1>6. SubjectsOn(items, k) = TheirIds(names, on)
  <2> HIDE DEF items
  <2>1. SubjectsOn(items, k) = {LookupSubjectRef(names, t.subject) : t \in {u \in tuples : Item(names, u, TRUE).key = k}}
    BY <1>5 DEF SubjectsOn, Stored, items
  <2>2. {u \in tuples : Item(names, u, TRUE).key = k} = {u \in tuples : IsOn(names, q, k, u)}
    BY <1>2
  <2> QED
    BY <2>1, <2>2 DEF TheirIds, StoredOn
<1>7. Holds(entries, items) /\ EntriesTyped(entries)
  BY DEF HoldsAll
<1>8. CASE k \in DOMAIN entries
  BY <1>3, <1>4, <1>6, <1>7, <1>8 DEF EntryOf, Holds, EntriesTyped
<1>9. CASE k \notin DOMAIN entries
  <2>1. SubjectsOn(items, k) = {}
    BY <1>7, <1>9 DEF Holds, SubjectsOn
  <2> QED
    BY <1>3, <1>4, <1>6, <1>9, <2>1, EmptyEntry DEF EntryOf
<1> QED
  BY <1>3, <1>4, <1>8, <1>9, <1>6

(* Ids of subjects that are seen, by their kind. *)
LEMMA SeenIds ==
  ASSUME NEW names, Tables(names), NEW s \in SubjectNames, SubjectSeen(names, s)
  PROVE  LET ids == LookupSubjectRef(names, s)
         IN  /\ ids \in Subjects
             /\ ids.type \in 1..Len(names["types"]) /\ names["types"][ids.type] = s.type
             /\ ids.wildcard <=> s.id = WildcardMarker
             /\ ids.relation # 0 <=> s.relation # NoName
             /\ s.id # WildcardMarker => ids.id \in 1..Len(names["objects"]) /\ names["objects"][ids.id] = s.id
             /\ s.relation # NoName =>
                  ids.relation \in 1..Len(names["relations"]) /\ names["relations"][ids.relation] = s.relation
<1> DEFINE T == names["types"]
           O == names["objects"]
           R == names["relations"]
           ids == LookupSubjectRef(names, s)
<1>1. Table(T) /\ Table(O) /\ Table(R) /\ lookup(R, NoName) = 0
  BY NoNameUnseen DEF Tables, Spaces
<1>2. /\ Seen(T, s.type) /\ (s.id # WildcardMarker => Seen(O, s.id))
      /\ (s.relation # NoName => Seen(R, s.relation))
  BY DEF SubjectSeen
<1>3. ids \in Subjects
  BY SubjectResolves
<1>4. /\ ids.type = lookup(T, s.type) /\ ids.relation = lookup(R, s.relation)
      /\ (ids.wildcard <=> s.id = WildcardMarker) /\ (s.id # WildcardMarker => ids.id = lookup(O, s.id))
  BY DEF LookupSubjectRef, LookupRelation
<1>5. Len(R) \in Nat
  BY TablesAre DEF Spaces
<1> HIDE DEF T, O, R, ids
<1>6. ids.type \in 1..Len(T) /\ T[ids.type] = s.type
  BY <1>1, <1>2, <1>4, LookupIs
<1>7. s.id # WildcardMarker => ids.id \in 1..Len(O) /\ O[ids.id] = s.id
  BY <1>1, <1>2, <1>4, LookupIs
<1>8. s.relation # NoName => ids.relation \in 1..Len(R) /\ R[ids.relation] = s.relation
  BY <1>1, <1>2, <1>4, LookupIs
<1>9. ids.relation # 0 <=> s.relation # NoName
  BY <1>1, <1>4, <1>5, <1>8
<1> QED
  BY <1>3, <1>4, <1>6, <1>7, <1>8, <1>9 DEF T, O, R, ids

(* A cell says the name of what it lists. *)
LEMMA CellNames ==
  ASSUME NEW names, Tables(names), NEW s \in SubjectNames, SubjectSeen(names, s), s.id # WildcardMarker, NEW q
  PROVE  LET ids == LookupSubjectRef(names, s)
         IN  /\ s.relation = NoName => NameOfSubject(names, q, AsObject(ids)) = s
             /\ s.relation # NoName => NameOfSubject(names, q, AsUserset(ids)) = s
<1> DEFINE T == names["types"]
           O == names["objects"]
           R == names["relations"]
           ids == LookupSubjectRef(names, s)
           x == AsObject(ids)
           y == AsUserset(ids)
<1>1. /\ T[ids.type] = s.type /\ O[ids.id] = s.id /\ ids.id \in 1..Len(O)
      /\ s.relation # NoName => R[ids.relation] = s.relation
  BY SeenIds
<1>2. ids.id # UnknownObject
  BY <1>1, TablesAre DEF Spaces
<1>3. s = [type |-> s.type, id |-> s.id, relation |-> s.relation]
  BY DEF SubjectNames
<1>4. \A a, b, d : Len(<<a, b>>) = 2 /\ Len(<<a, b, d>>) = 3
  OBVIOUS
<1>5. x = <<ids.type, ids.id>> /\ y = <<ids.type, ids.id, ids.relation>>
  BY DEF AsObject, AsUserset
<1>6. Len(x) = 2 /\ Len(y) = 3 /\ x[1] = ids.type /\ x[2] = ids.id
      /\ y[1] = ids.type /\ y[2] = ids.id /\ y[3] = ids.relation
  BY <1>4, <1>5
<1> HIDE DEF ids, x, y, T, O, R
<1>7. NameOfSubject(names, q, x) = [type |-> s.type, id |-> s.id, relation |-> NoName]
  BY <1>1, <1>2, <1>6 DEF NameOfSubject, NameOfRef, NameOfObject, T, O
<1>8. s.relation # NoName => NameOfSubject(names, q, y) = [type |-> s.type, id |-> s.id, relation |-> s.relation]
  BY <1>1, <1>2, <1>6 DEF NameOfSubject, NameOfRef, NameOfObject, T, O, R
<1> QED
  BY <1>3, <1>7, <1>8 DEF ids, x, y

(* Names of cells, and subjects by the list they go to. *)
NamesOf(names, q, cells) == {NameOfSubject(names, q, x) : x \in cells}
ObjectsOn(on)  == {s \in on : s.id # WildcardMarker /\ s.relation = NoName}
UsersetsOn(on) == {s \in on : s.id # WildcardMarker /\ s.relation # NoName}

(* The lists of ids say the names of what they list. *)
LEMMA ListedNames ==
  ASSUME NEW names, Tables(names), NEW q, NEW on, \A s \in on : s \in SubjectNames /\ SubjectSeen(names, s)
  PROVE  LET ids == TheirIds(names, on)
         IN  /\ NamesOf(names, q, ObjectsOf(ids)) = ObjectsOn(on)
             /\ NamesOf(names, q, UsersetsOf(ids)) = UsersetsOn(on)
<1> DEFINE ids == TheirIds(names, on)
           Id(s) == LookupSubjectRef(names, s)
           objects == {s \in on : s.id # WildcardMarker /\ s.relation = NoName}
           sets == {s \in on : s.id # WildcardMarker /\ s.relation # NoName}
<1>1. \A s \in on : (Id(s).wildcard <=> s.id = WildcardMarker) /\ (Id(s).relation # 0 <=> s.relation # NoName)
  BY SeenIds
<1>2. \A s \in on : /\ s \in objects => NameOfSubject(names, q, AsObject(Id(s))) = s
                    /\ s \in sets => NameOfSubject(names, q, AsUserset(Id(s))) = s
  BY CellNames
<1> HIDE DEF Id
<1>3. ObjectsOf(ids) = {AsObject(Id(s)) : s \in objects}
  BY <1>1 DEF ObjectsOf, Plain, TheirIds, Id
<1>4. UsersetsOf(ids) = {AsUserset(Id(s)) : s \in sets}
  BY <1>1 DEF UsersetsOf, Sets, TheirIds, Id
<1> HIDE DEF ids
<1>5. NamesOf(names, q, ObjectsOf(ids)) = ObjectsOn(on)
  BY <1>2, <1>3 DEF NamesOf, ObjectsOn
<1>6. NamesOf(names, q, UsersetsOf(ids)) = UsersetsOn(on)
  BY <1>2, <1>4 DEF NamesOf, UsersetsOn
<1> QED
  BY <1>5, <1>6 DEF ids

(* The subject asked about, by ids. *)
SubjectAsked(names, q) ==
  LET subj == LookupSubjectRef(names, q.subject)
  IN  [subj EXCEPT !.id = IF subj.wildcard THEN @ ELSE OrUnknown(@)]

(* The subject asked about, by kind. *)
LEMMA AskedIs ==
  ASSUME NEW names, Tables(names), NEW q, q.subject \in SubjectNames
  PROVE  LET subject == SubjectAsked(names, q)
             ids == LookupSubjectRef(names, q.subject)
         IN  /\ subject.type = ids.type /\ subject.relation = ids.relation /\ subject.wildcard = ids.wildcard
             /\ subject.type \in Nat /\ subject.relation \in Nat /\ subject.id \in Nat
             /\ subject.wildcard <=> q.subject.id = WildcardMarker
             /\ q.subject.id = WildcardMarker => subject.id = 0 /\ ids.id = 0
             /\ q.subject.id # WildcardMarker =>
                  IF Seen(names["objects"], q.subject.id)
                  THEN subject.id = ids.id /\ ids.id \in 1..Len(names["objects"])
                  ELSE subject.id = UnknownObject
             /\ q.subject.relation = NoName => ids.relation = 0
             /\ Seen(names["relations"], q.subject.relation) => ids.relation # 0
<1> DEFINE T == names["types"]
           O == names["objects"]
           R == names["relations"]
           s == q.subject
           ids == LookupSubjectRef(names, s)
           subject == SubjectAsked(names, q)
<1>1. Table(T) /\ Table(O) /\ Table(R) /\ lookup(R, NoName) = 0
  BY NoNameUnseen DEF Tables, Spaces
<1>2. Len(T) \in Nat /\ Len(O) \in Nat /\ Len(R) \in Nat
  BY TablesAre DEF Spaces
<1>3. /\ ids = [type |-> ids.type, id |-> ids.id, relation |-> ids.relation, wildcard |-> ids.wildcard]
      /\ ids.type = lookup(T, s.type) /\ ids.relation = lookup(R, s.relation)
      /\ ids.id = IF s.id = WildcardMarker THEN 0 ELSE lookup(O, s.id)
      /\ ids.wildcard \in BOOLEAN /\ (ids.wildcard <=> s.id = WildcardMarker)
  BY DEF LookupSubjectRef, LookupRelation
<1>4. subject = [ids EXCEPT !.id = IF ids.wildcard THEN @ ELSE OrUnknown(@)]
  BY Zenon DEF SubjectAsked
<1>5. UnknownObject \in Nat
  BY DictionaryAssumption DEF UnknownObject
<1> HIDE DEF T, O, R, s, subject, ids
<1>6. /\ IF Seen(T, s.type) THEN lookup(T, s.type) \in 1..Len(T) ELSE lookup(T, s.type) = 0
      /\ IF Seen(O, s.id) THEN lookup(O, s.id) \in 1..Len(O) ELSE lookup(O, s.id) = 0
      /\ IF Seen(R, s.relation) THEN lookup(R, s.relation) \in 1..Len(R) ELSE lookup(R, s.relation) = 0
  BY <1>1, LookupIs
<1>7. /\ ids.type = lookup(T, s.type) /\ ids.relation = lookup(R, s.relation)
      /\ ids.id = IF s.id = WildcardMarker THEN 0 ELSE lookup(O, s.id)
      /\ (ids.wildcard <=> s.id = WildcardMarker)
  BY <1>3
<1>8. /\ subject.type = ids.type /\ subject.relation = ids.relation /\ subject.wildcard = ids.wildcard
      /\ subject.id = IF s.id = WildcardMarker THEN ids.id ELSE OrUnknown(ids.id)
  BY <1>3, <1>4
<1>9. subject.type \in Nat /\ subject.relation \in Nat
  BY <1>2, <1>6, <1>7, <1>8
<1>10. s.id # WildcardMarker => IF Seen(O, s.id)
                                THEN subject.id = ids.id /\ ids.id \in 1..Len(O)
                                ELSE subject.id = UnknownObject
  BY <1>2, <1>6, <1>7, <1>8 DEF OrUnknown
<1>11. s.id = WildcardMarker => subject.id = 0 /\ ids.id = 0
  BY <1>7, <1>8
<1>12. subject.id \in Nat
  BY <1>2, <1>5, <1>10, <1>11
<1>13. Seen(R, s.relation) => ids.relation # 0
  BY <1>2, <1>6, <1>7
<1>14. s.relation = NoName => ids.relation = 0
  BY <1>1, <1>7
<1>15. subject.wildcard <=> s.id = WildcardMarker
  BY <1>7, <1>8
<1> QED
  BY <1>8, <1>9, <1>10, <1>11, <1>12, <1>13, <1>14, <1>15 DEF s, ids, subject, O, R

(* What is asked about is listed just where it is stored. *)
LEMMA AskedListed ==
  ASSUME NEW names, Tables(names), NEW q \in TupleNames,
         q.subject.relation # NoName => Seen(names["relations"], q.subject.relation),
         NEW on, \A s \in on : s \in SubjectNames /\ SubjectSeen(names, s)
  PROVE  LET subject == SubjectAsked(names, q)
             ids == TheirIds(names, on)
             asked == q.subject
         IN  /\ subject.relation # 0 =>
                  (AsUserset(subject) \in UsersetsOf(ids) <=> asked \in on /\ asked.id # WildcardMarker)
             /\ subject.relation = 0 =>
                  (AsObject(subject) \in ObjectsOf(ids) <=> asked \in on /\ asked.id # WildcardMarker)
             /\ ~subject.wildcard /\ subject.relation = 0 =>
                  (<<subject.type>> \in WildOf(ids) <=> [asked EXCEPT !.id = WildcardMarker] \in on)
<1> DEFINE asked == q.subject
           subject == SubjectAsked(names, q)
           them == TheirIds(names, on)
           Id(s) == LookupSubjectRef(names, s)
           whole == [asked EXCEPT !.id = WildcardMarker]
<1>1. asked \in SubjectNames
  BY DEF TupleNames, SubjectNames
<1>2. \A s \in on : /\ Id(s) \in Subjects
                    /\ (Id(s).wildcard <=> s.id = WildcardMarker) /\ (Id(s).relation # 0 <=> s.relation # NoName)
                    /\ (s.id # WildcardMarker => Id(s).id \in 1..Len(names["objects"]))
  BY SeenIds
<1>3. \A other \in SubjectNames :
        (other.relation # NoName => Seen(names["relations"], other.relation)) =>
           \A s \in on : Id(s) = Id(other) <=> s = other
  BY SameSubject
<1>4. /\ subject.type = Id(asked).type /\ subject.relation = Id(asked).relation
      /\ subject.wildcard = Id(asked).wildcard /\ (subject.wildcard <=> asked.id = WildcardMarker)
      /\ (asked.id = WildcardMarker => subject.id = 0 /\ Id(asked).id = 0)
      /\ (asked.id # WildcardMarker =>
            IF Seen(names["objects"], asked.id)
            THEN subject.id = Id(asked).id /\ Id(asked).id \in 1..Len(names["objects"])
            ELSE subject.id = UnknownObject)
      /\ (asked.relation = NoName => Id(asked).relation = 0)
      /\ (asked.relation # NoName => Id(asked).relation # 0)
  BY <1>1, AskedIs
<1>5. \A i \in 1..Len(names["objects"]) : i # 0 /\ i # UnknownObject
  BY TablesAre DEF Spaces
<1>6. asked \in on /\ asked.id # WildcardMarker => Seen(names["objects"], asked.id)
  BY DEF SubjectSeen
<1>7. \A s : Id(s) = [type |-> Id(s).type, id |-> Id(s).id, relation |-> Id(s).relation, wildcard |-> Id(s).wildcard]
             /\ Id(s).wildcard \in BOOLEAN
  <2> TAKE s
  <2>1. Id(s) = [type |-> lookup(names["types"], s.type),
                 id |-> IF s.id = WildcardMarker THEN 0 ELSE lookup(names["objects"], s.id),
                 relation |-> lookup(names["relations"], s.relation), wildcard |-> s.id = WildcardMarker]
    BY Zenon DEF LookupSubjectRef, LookupRelation
  <2> QED
    BY <2>1
<1> HIDE DEF Id, subject, them
<1>8. ASSUME NEW s \in on, s.id # WildcardMarker
      PROVE  subject.type = Id(s).type /\ subject.id = Id(s).id /\ subject.relation = Id(s).relation <=> s = asked
  <2>1. ASSUME s = asked
        PROVE  subject.type = Id(s).type /\ subject.id = Id(s).id /\ subject.relation = Id(s).relation
    BY <1>4, <1>6, <1>8, <2>1
  <2>2. ASSUME subject.type = Id(s).type, subject.id = Id(s).id, subject.relation = Id(s).relation
        PROVE  s = asked
    <3>1. asked.id # WildcardMarker
      BY <1>2, <1>4, <1>5, <1>8, <2>2
    <3>2. Seen(names["objects"], asked.id)
      BY <1>2, <1>4, <1>5, <1>8, <2>2, <3>1
    <3>3. /\ Id(asked).type = Id(s).type /\ Id(asked).id = Id(s).id /\ Id(asked).relation = Id(s).relation
          /\ ~Id(asked).wildcard /\ ~Id(s).wildcard
      BY <1>2, <1>4, <1>8, <2>2, <3>1, <3>2
    <3>4. Id(asked).wildcard = Id(s).wildcard
      BY <1>7, <3>3
    <3>5. Id(s) = Id(asked)
      BY <1>7, <3>3, <3>4, Zenon
    <3> QED
      BY <1>1, <1>3, <3>5
  <2> QED
    BY <2>1, <2>2
<1>9. ASSUME subject.relation # 0
      PROVE  AsUserset(subject) \in UsersetsOf(them) <=> asked \in on /\ asked.id # WildcardMarker
  <2>1. AsUserset(subject) \in UsersetsOf(them) <=>
          \E s \in on : /\ s.id # WildcardMarker /\ Id(s).relation # 0
                        /\ AsUserset(subject) = AsUserset(Id(s))
    BY <1>2 DEF UsersetsOf, Sets, them, TheirIds, Id
  <2>2. \A s : AsUserset(subject) = AsUserset(Id(s)) <=>
          subject.type = Id(s).type /\ subject.id = Id(s).id /\ subject.relation = Id(s).relation
    BY DEF AsUserset
  <2> QED
    BY <1>4, <1>8, <1>9, <2>1, <2>2
<1>10. ASSUME subject.relation = 0
       PROVE  AsObject(subject) \in ObjectsOf(them) <=> asked \in on /\ asked.id # WildcardMarker
  <2>1. AsObject(subject) \in ObjectsOf(them) <=>
          \E s \in on : /\ s.id # WildcardMarker /\ Id(s).relation = 0
                        /\ AsObject(subject) = AsObject(Id(s))
    BY <1>2 DEF ObjectsOf, Plain, them, TheirIds, Id
  <2>2. \A s : AsObject(subject) = AsObject(Id(s)) <=> subject.type = Id(s).type /\ subject.id = Id(s).id
    BY DEF AsObject
  <2> QED
    BY <1>4, <1>8, <1>10, <2>1, <2>2
<1>11. ASSUME ~subject.wildcard, subject.relation = 0
       PROVE  <<subject.type>> \in WildOf(them) <=> whole \in on
  <2>1. asked.relation = NoName
    BY <1>4, <1>11
  <2>2. /\ whole \in SubjectNames /\ whole.id = WildcardMarker /\ whole.relation = NoName
        /\ whole.type = asked.type
    BY <1>1, <2>1 DEF SubjectNames
  <2>3. /\ Id(whole).type = subject.type /\ Id(whole).wildcard /\ Id(whole).relation = 0
        /\ Id(whole).id = 0
    <3>1. Id(whole).type = subject.type
      BY <1>4, <2>2 DEF Id, LookupSubjectRef
    <3> HIDE DEF whole
    <3>2. Id(whole).wildcard /\ Id(whole).id = 0 /\ Id(whole).relation = lookup(names["relations"], NoName)
      BY <2>2 DEF Id, LookupSubjectRef, LookupRelation
    <3> QED
      BY <3>1, <3>2, NoNameUnseen DEF Spaces
  <2> HIDE DEF whole
  <2>4. <<subject.type>> \in WildOf(them) <=>
          \E s \in on : s.id = WildcardMarker /\ <<subject.type>> = AsWildcard(Id(s))
    BY <1>2 DEF WildOf, Wild, them, TheirIds, Id
  <2>5. \A s : <<subject.type>> = AsWildcard(Id(s)) <=> subject.type = Id(s).type
    BY DEF AsWildcard
  <2>6. ASSUME NEW s \in on, s.id = WildcardMarker
        PROVE  subject.type = Id(s).type <=> s = whole
    <3>1. ASSUME subject.type = Id(s).type
          PROVE  s = whole
      <4>1. Id(s).wildcard /\ Id(s).id = 0 /\ Id(s).relation = 0
        BY <1>2, <2>6 DEF Subjects
      <4>2. Id(s).wildcard = Id(whole).wildcard
        BY <1>7, <2>3, <4>1
      <4>3. Id(s).type = Id(whole).type /\ Id(s).id = Id(whole).id /\ Id(s).relation = Id(whole).relation
        BY <2>3, <3>1, <4>1
      <4>4. Id(s) = Id(whole)
        BY <1>7, <4>2, <4>3, Zenon
      <4> QED
        BY <1>3, <2>2, <4>4
    <3>2. s = whole => subject.type = Id(s).type
      BY <2>3
    <3> QED
      BY <3>1, <3>2
  <2> QED
    BY <2>2, <2>4, <2>5, <2>6
<1> QED
  BY <1>9, <1>10, <1>11 DEF subject, them

(* names hold the tuples in entries, q is asked, and k is a key that may be read for it. *)
Readable(names, entries, tuples, q, k) ==
  /\ Tables(names) /\ tuples \in SUBSET Tuples /\ HoldsAll(names, entries, tuples)
  /\ q \in TupleNames /\ (q.subject.relation # NoName => Seen(names["relations"], q.subject.relation))
  /\ KnownKey(names, q, k)

(* The lists of the entry that a read finds, of what is stored on its key. *)
LEMMA ListsRead ==
  ASSUME NEW names, NEW entries, NEW tuples, NEW q, NEW k, Readable(names, entries, tuples, q, k)
  PROVE  LET e   == EntryOf(entries, k)
             on  == StoredOn(names, q, tuples, k)
             ids == TheirIds(names, on)
         IN  /\ \A s \in on : s \in SubjectNames /\ SubjectSeen(names, s)
             /\ e.direct \in Seq(ObjectCells) /\ Ascending(e.direct) /\ ToSet(e.direct) = ObjectsOf(ids)
             /\ e.usersets \in Seq(UsersetCells) /\ Ascending(e.usersets) /\ ToSet(e.usersets) = UsersetsOf(ids)
             /\ e.wildcards \in Seq(WildcardCells) /\ ToSet(e.wildcards) = WildOf(ids)
<1> DEFINE e   == EntryOf(entries, k)
           on  == StoredOn(names, q, tuples, k)
           ids == TheirIds(names, on)
<1>1. /\ \A s \in on : s \in SubjectNames /\ SubjectSeen(names, s)
      /\ EntryTyped(e) /\ ListsAll(e, ids)
  BY ListedOn DEF Readable
<1> HIDE DEF e, ids
<1>2. /\ e.direct \in Seq(ObjectCells) /\ e.usersets \in Seq(UsersetCells) /\ e.wildcards \in Seq(WildcardCells)
  BY <1>1 DEF EntryTyped
<1>3. /\ Ascending(e.direct) /\ ToSet(e.direct) = ObjectsOf(ids)
      /\ Ascending(e.usersets) /\ ToSet(e.usersets) = UsersetsOf(ids)
      /\ Ascending(e.wildcards) /\ ToSet(e.wildcards) = WildOf(ids)
  BY <1>1, ListsAllIs
<1> QED
  BY <1>1, <1>2, <1>3 DEF e, ids

(* Lookup answers whether the subject is stored itself, with the usersets  *)
(* stored.                                                                 *)
LEMMA LookupSays ==
  ASSUME NEW names, NEW entries, NEW tuples, NEW q, NEW k, Readable(names, entries, tuples, q, k),
         NEW read, read.kind = "lookup", read.key = k,
         read.granted <=> holds(EntryOf(entries, k), SubjectAsked(names, q)),
         read.subjects = EntryOf(entries, k).usersets
  PROVE  ReadSays(names, q, tuples, read)
<1> DEFINE e   == EntryOf(entries, k)
           on  == StoredOn(names, q, tuples, k)
           ids == TheirIds(names, on)
           subject == SubjectAsked(names, q)
           plain == {s \in on : s.id # WildcardMarker}
           told  == {NameOfSubject(names, q, s) : s \in ToSet(read.subjects)}
<1>1. /\ \A s \in on : s \in SubjectNames /\ SubjectSeen(names, s)
      /\ e.direct \in Seq(ObjectCells) /\ Ascending(e.direct) /\ ToSet(e.direct) = ObjectsOf(ids)
      /\ e.usersets \in Seq(UsersetCells) /\ Ascending(e.usersets) /\ ToSet(e.usersets) = UsersetsOf(ids)
  BY ListsRead
<1>2. Tables(names) /\ q \in TupleNames /\ (q.subject.relation # NoName => Seen(names["relations"], q.subject.relation))
  BY DEF Readable
<1>3. told = {s \in plain : s.relation # NoName}
  <2>1. NamesOf(names, q, UsersetsOf(ids)) = UsersetsOn(on)
    BY <1>1, <1>2, ListedNames
  <2>2. told = NamesOf(names, q, UsersetsOf(ids))
    BY <1>1 DEF NamesOf
  <2> QED
    BY <2>1, <2>2 DEF UsersetsOn
<1>4. /\ subject.relation # 0 =>
           (AsUserset(subject) \in UsersetsOf(ids) <=> q.subject \in on /\ q.subject.id # WildcardMarker)
      /\ subject.relation = 0 =>
           (AsObject(subject) \in ObjectsOf(ids) <=> q.subject \in on /\ q.subject.id # WildcardMarker)
  BY <1>1, <1>2, AskedListed
<1>5. AsUserset(subject) \in UsersetCells /\ AsObject(subject) \in ObjectCells
  <2>1. q.subject \in SubjectNames
    BY <1>2 DEF TupleNames, SubjectNames
  <2>2. subject.type \in Nat /\ subject.relation \in Nat /\ subject.id \in Nat
    BY <1>2, <2>1, AskedIs
  <2> HIDE DEF subject
  <2> QED
    BY <2>2 DEF AsUserset, AsObject, UsersetCells, ObjectCells
<1> HIDE DEF subject, e, ids
<1>6. Found(e.usersets, AsUserset(subject)) <=> AsUserset(subject) \in UsersetsOf(ids)
  BY <1>1, <1>5, FoundIs, CellsOrdered
<1>7. Found(e.direct, AsObject(subject)) <=> AsObject(subject) \in ObjectsOf(ids)
  BY <1>1, <1>5, FoundIs, CellsOrdered
<1>8. read.granted <=> q.subject \in plain
  <2>1. read.granted <=> holds(e, subject)
    BY DEF e, subject
  <2>2. holds(e, subject) <=> IF subject.relation # 0 THEN Found(e.usersets, AsUserset(subject))
                              ELSE Found(e.direct, AsObject(subject))
    BY DEF holds
  <2> QED
    BY <1>4, <1>6, <1>7, <2>1, <2>2
<1> HIDE DEF told
<1>9. ReadSays(names, q, tuples, read) <=> /\ read.granted <=> q.subject \in plain
                                           /\ told = {s \in plain : s.relation # NoName}
  BY DEF ReadSays, told
<1> QED
  BY <1>3, <1>8, <1>9

(* SubjectsOf answers all that is stored and no wildcard. *)
LEMMA SubjectsSay ==
  ASSUME NEW names, NEW entries, NEW tuples, NEW q, NEW k, Readable(names, entries, tuples, q, k),
         NEW read, read.kind = "subjects", read.key = k, read.subjects = SubjectsOf(entries, k)
  PROVE  /\ ReadSays(names, q, tuples, read)
         /\ ToSet(SubjectsOf(entries, k)) =
              LET ids == TheirIds(names, StoredOn(names, q, tuples, k)) IN ObjectsOf(ids) \cup UsersetsOf(ids)
<1> DEFINE e   == EntryOf(entries, k)
           on  == StoredOn(names, q, tuples, k)
           ids == TheirIds(names, on)
           plain == {s \in on : s.id # WildcardMarker}
           told  == {NameOfSubject(names, q, s) : s \in ToSet(read.subjects)}
           Cells == ObjectCells \cup UsersetCells
<1>1. /\ \A s \in on : s \in SubjectNames /\ SubjectSeen(names, s)
      /\ e.direct \in Seq(ObjectCells) /\ ToSet(e.direct) = ObjectsOf(ids)
      /\ e.usersets \in Seq(UsersetCells) /\ ToSet(e.usersets) = UsersetsOf(ids)
  BY ListsRead
<1>2. /\ NamesOf(names, q, ObjectsOf(ids)) = ObjectsOn(on)
      /\ NamesOf(names, q, UsersetsOf(ids)) = UsersetsOn(on)
  BY <1>1, ListedNames DEF Readable
<1>3. ToSet(read.subjects) = ObjectsOf(ids) \cup UsersetsOf(ids)
  <2> DEFINE a == e.direct
             b == e.usersets
  <2>1. a \in Seq(Cells) /\ b \in Seq(Cells)
    <3> HIDE DEF e, ids
    <3> QED
      BY <1>1
  <2>2. read.subjects = a \o b
    BY DEF SubjectsOf
  <2> HIDE DEF Cells, a, b
  <2>3. ToSet(a \o b) = ToSet(a) \cup ToSet(b)
    BY <2>1, Joined
  <2> QED
    BY <1>1, <2>2, <2>3 DEF a, b
<1> HIDE DEF ids
<1>4. told = plain
  <2>1. told = NamesOf(names, q, ObjectsOf(ids)) \cup NamesOf(names, q, UsersetsOf(ids))
    BY <1>3 DEF NamesOf
  <2> QED
    BY <1>2, <2>1 DEF ObjectsOn, UsersetsOn
<1> HIDE DEF told
<1>5. ReadSays(names, q, tuples, read) <=> told = plain
  BY DEF ReadSays, told
<1> QED
  BY <1>3, <1>4, <1>5 DEF ids

(* HasWildcard answers whether everyone of the subject's type is stored. *)
LEMMA WildcardSays ==
  ASSUME NEW names, NEW entries, NEW tuples, NEW q, NEW k, Readable(names, entries, tuples, q, k),
         ~SubjectAsked(names, q).wildcard, SubjectAsked(names, q).relation = 0,
         NEW read, read.kind = "wildcard", read.key = k,
         read.granted <=> HasWildcard(entries, k, SubjectAsked(names, q).type)
  PROVE  ReadSays(names, q, tuples, read)
<1> DEFINE e   == EntryOf(entries, k)
           on  == StoredOn(names, q, tuples, k)
           ids == TheirIds(names, on)
           subject == SubjectAsked(names, q)
           whole == [q.subject EXCEPT !.id = WildcardMarker]
<1>1. /\ \A s \in on : s \in SubjectNames /\ SubjectSeen(names, s)
      /\ e.wildcards \in Seq(WildcardCells) /\ ToSet(e.wildcards) = WildOf(ids)
  BY ListsRead
<1>2. <<subject.type>> \in WildOf(ids) <=> whole \in on
  BY <1>1, AskedListed DEF Readable
<1>3. \A list \in Seq(WildcardCells) : \A x : Contains(list, x) <=> x \in ToSet(list)
  BY DEF Contains, ToSet
<1> HIDE DEF subject, ids, e
<1>4. read.granted <=> Contains(e.wildcards, <<subject.type>>)
  BY DEF HasWildcard, e, subject
<1>5. read.granted <=> whole \in on
  BY <1>1, <1>2, <1>3, <1>4
<1>6. ReadSays(names, q, tuples, read) <=> (read.granted <=> whole \in on)
  BY DEF ReadSays
<1> QED
  BY <1>5, <1>6

(* What an answer leads to is a key too. *)
LEMMA LedKnown ==
  ASSUME NEW r, Tables(r.names), NEW schema \in Schemas, Rules(r, schema), NEW q,
         NEW on, \A s \in on : s \in SubjectNames /\ SubjectSeen(r.names, s),
         NEW answer, ToSet(answer) \subseteq
           ObjectsOf(TheirIds(r.names, on)) \cup UsersetsOf(TheirIds(r.names, on))
  PROVE  \A k \in LedTo(r, answer) : KnownKey(r.names, q, k)
<1> DEFINE names == r.names
           T == 1..Len(names["types"])
           O == 1..Len(names["objects"])
           R == 1..Len(names["relations"])
           them == TheirIds(names, on)
<1>1. \A s \in on : LET id == LookupSubjectRef(names, s)
                    IN  /\ id.type \in T
                        /\ (id.wildcard <=> s.id = WildcardMarker)
                        /\ (id.relation # 0 <=> s.relation # NoName)
                        /\ (s.id # WildcardMarker => id.id \in O)
                        /\ (s.relation # NoName => id.relation \in R)
  BY SeenIds
<1>2. \A s \in them : s.type \in T /\ (~s.wildcard => s.id \in O) /\ (s.relation # 0 => s.relation \in R)
  BY <1>1 DEF TheirIds
<1> HIDE DEF them
<1>3. \A x \in ObjectsOf(them) : x[1] \in T /\ x[2] \in O /\ Len(x) = 2
  <2> SUFFICES ASSUME NEW s \in them, ~s.wildcard
               PROVE  AsObject(s)[1] \in T /\ AsObject(s)[2] \in O /\ Len(AsObject(s)) = 2
    BY DEF ObjectsOf, Plain
  <2>1. AsObject(s) = <<s.type, s.id>>
    BY DEF AsObject
  <2> QED
    BY <1>2, <2>1
<1>4. \A x \in UsersetsOf(them) : x[1] \in T /\ x[2] \in O /\ x[3] \in R /\ Len(x) = 3
  <2> SUFFICES ASSUME NEW s \in them, ~s.wildcard, s.relation # 0
               PROVE  LET x == AsUserset(s) IN x[1] \in T /\ x[2] \in O /\ x[3] \in R /\ Len(x) = 3
    BY DEF UsersetsOf, Sets
  <2>1. AsUserset(s) = <<s.type, s.id, s.relation>>
    BY DEF AsUserset
  <2> QED
    BY <1>2, <2>1
<1>5. \A ref \in r.defines : ref[2] \in R
  <2>1. \A x \in schema.defines : x.relation # NoName /\ Seen(names["relations"], x.relation)
    BY DictionaryAssumption DEF Rules, RefsSeen, Schemas
  <2>2. Table(names["relations"])
    BY TablesAre DEF Spaces
  <2>3. \A x \in schema.defines : LookupRelation(names, x.relation) \in R
    BY <2>1, <2>2, LookupIs DEF LookupRelation
  <2>4. r.defines = Ids(names, schema.defines)
    BY DEF Rules
  <2> HIDE DEF R, names
  <2> QED
    BY <2>3, <2>4 DEF Ids
<1> DEFINE Key(a, b, d) == [object |-> [type |-> a, id |-> b], relation |-> d]
<1>6. \A a \in T, b \in O, d \in R : KnownKey(names, q, Key(a, b, d))
  BY DEF KnownKey
<1> HIDE DEF T, O, R, Key
<1>7. ASSUME NEW k \in LedTo(r, answer)
      PROVE  KnownKey(names, q, k)
  <2>1. CASE \E s \in ToSet(answer) : Len(s) = 3 /\ k = Key(s[1], s[2], s[3])
    <3>1. PICK s \in ToSet(answer) : Len(s) = 3 /\ k = Key(s[1], s[2], s[3])
      BY <2>1
    <3>2. s[1] \in T /\ s[2] \in O /\ s[3] \in R
      BY <1>3, <1>4, <3>1 DEF them
    <3> QED
      BY <1>6, <3>1, <3>2
  <2>2. CASE \E s \in ToSet(answer), ref \in r.defines : Len(s) = 2 /\ k = Key(s[1], s[2], ref[2])
    <3>1. PICK s \in ToSet(answer), ref \in r.defines : Len(s) = 2 /\ k = Key(s[1], s[2], ref[2])
      BY <2>2
    <3>2. s[1] \in T /\ s[2] \in O /\ ref[2] \in R
      BY <1>3, <1>4, <1>5, <3>1 DEF them
    <3> QED
      BY <1>6, <3>1, <3>2
  <2> QED
    BY <1>7, <2>1, <2>2 DEF LedTo, Key
<1> QED
  BY <1>7

-----------------------------------------------------------------------------
(* The lock, and who is in a Check. *)

(* What feeds the store takes and lets go of the lock around no Check but  *)
(* those it lets in.                                                       *)
LEMMA FeedsMu ==
  ASSUME LiveInv, MuInv, FeedStep \/ FeedCall
  PROVE  MuInv'
<1> DEFINE M == [active : SUBSET Checkers, pending : SUBSET Checkers, writer : {"none", "waits", "holds"}]
<1>1. check' = check
  BY DEF FeedStep, FeedCall, Drop, New, Publish, Enter, Move, Compile, Intern, Merge, MergeKey, Built,
         Fail, CallReset, CallApply
<1>2. mu \in M /\ DOMAIN mu = {"active", "pending", "writer"}
  BY DEF MuInv
<1>3. CASE mu' = mu
  BY <1>1, <1>3 DEF MuInv
<1>4. CASE mu' = Unlocked /\ mu.active = {}
  <2>1. mu' \in M /\ mu'.active = mu.pending /\ mu'.pending = {}
    BY <1>2, <1>4 DEF Unlocked
  <2> QED
    BY <1>1, <1>4, <2>1 DEF MuInv
<1>5. CASE mu' = LockCalled \/ mu' = Locked
  <2>1. mu' \in M /\ mu'.active = mu.active /\ mu'.pending = mu.pending
    BY <1>2, <1>5 DEF LockCalled, Locked
  <2> QED
    BY <1>1, <2>1 DEF MuInv
<1>6. Applying => mu.active = {}
  BY DEF Applying, LiveInv, WriterInv, ReaderInv, FeederInv
<1>7. Fail => mu' = mu \/ (mu' = Unlocked /\ mu.active = {})
  BY <1>6 DEF Fail
<1> HIDE DEF M
<1>8. mu' = mu \/ (mu' = Unlocked /\ mu.active = {}) \/ mu' = LockCalled \/ mu' = Locked
  <2>1. CASE FeedCall
    BY <2>1 DEF FeedCall, CallReset, CallApply
  <2>2. CASE Drop \/ Publish \/ Enter
    BY <2>2 DEF Drop, Publish, Enter, Lockable
  <2>3. CASE New \/ Move \/ Merge \/ MergeKey \/ Built
    BY <1>6, <2>3 DEF New, Move, Merge, MergeKey, Built
  <2>4. CASE Compile
    BY <1>7, <2>4 DEF Compile
  <2>5. ASSUME NEW t \in Tuples, Intern(t)
        PROVE  mu' = mu \/ (mu' = Unlocked /\ mu.active = {})
    BY <1>7, <2>5 DEF Intern
  <2> QED
    BY <2>1, <2>2, <2>3, <2>4, <2>5 DEF FeedStep
<1> QED
  BY <1>3, <1>4, <1>5, <1>8

(* A Check takes the lock for reading, or waits behind the writer. *)
LEMMA CallCheckMu ==
  ASSUME LiveInv, MuInv, NEW c \in Checkers, NEW q, CallCheck(c, q)
  PROVE  MuInv'
<1>1. /\ DOMAIN check = Checkers /\ check[c].step = "idle"
      /\ check' = [check EXCEPT ![c] = [IdleCheck EXCEPT !.step = "begin", !.asked = q]]
      /\ mu' = IF mu.writer = "none" THEN [mu EXCEPT !.active = @ \cup {c}] ELSE [mu EXCEPT !.pending = @ \cup {c}]
  BY DEF CallCheck, LiveInv, MemShape, RLockCalled, RLocked
<1>2. check'[c].step = "begin" /\ \A d \in Checkers : d # c => check'[d] = check[d]
  BY <1>1 DEF IdleCheck
<1>3. c \notin mu.active /\ c \notin mu.pending
  BY <1>1 DEF MuInv
<1> QED
  BY <1>1, <1>2, <1>3 DEF MuInv

(* A Check that resolves its question has the lock. *)
LEMMA ResolveMu ==
  ASSUME LiveInv, MuInv, NEW c \in Checkers, Resolve(c)
  PROVE  MuInv'
<1>1. /\ DOMAIN check = Checkers /\ "step" \in DOMAIN check[c] /\ c \in mu.active /\ mu' = mu
      /\ check' = [check EXCEPT ![c] = Resolved(c)]
  BY DEF Resolve, LiveInv, MemShape
<1>2. Resolved(c).step # "idle"
  <2>1. \A r, q : Verdict(r, q) # "idle"
    BY DEF Verdict
  <2> QED
    BY <1>1, <2>1 DEF Resolved
<1> HIDE DEF Resolved
<1> QED
  BY <1>1, <1>2 DEF MuInv

(* A read leaves the lock alone. *)
LEMMA AnsweredMu ==
  ASSUME LiveInv, MuInv, NEW c \in Checkers, NEW kind, NEW k, NEW granted, NEW subjects,
         Answered(c, kind, k, granted, subjects)
  PROVE  MuInv'
<1>1. /\ DOMAIN check = Checkers /\ "step" \in DOMAIN check[c] /\ mu' = mu
  BY DEF Answered, LiveInv, MemShape
<1>2. \A d \in Checkers : check'[d].step = check[d].step
  BY <1>1 DEF Answered
<1> QED
  BY <1>1, <1>2 DEF MuInv

(* A Check that returns lets go of the lock. *)
LEMMA ReturnMu ==
  ASSUME LiveInv, MuInv, NEW c \in Checkers, Return(c)
  PROVE  MuInv'
<1>1. /\ DOMAIN check = Checkers /\ check[c].step \in {"not ready", "undefined", "invalid", "reading"}
      /\ check' = [check EXCEPT ![c] = IdleCheck] /\ mu' = [mu EXCEPT !.active = @ \ {c}]
  BY DEF Return, RUnlocked, LiveInv, MemShape
<1>2. check'[c].step = "idle" /\ \A d \in Checkers : d # c => check'[d] = check[d]
  BY <1>1 DEF IdleCheck
<1>3. c \notin mu.pending
  BY <1>1 DEF MuInv
<1> QED
  BY <1>1, <1>2, <1>3 DEF MuInv

(* Every step keeps who is in a Check and who holds the lock together. *)
LEMMA StepMu ==
  ASSUME LiveInv, MuInv, [MemNext]_memVars
  PROVE  MuInv'
<1>1. CASE FeedCall \/ FeedStep
  BY <1>1, FeedsMu
<1>2. ASSUME NEW c \in Checkers, CheckStep(c)
      PROVE  MuInv'
  <2>1. CASE Resolve(c)
    BY <2>1, ResolveMu
  <2>2. ASSUME NEW k, ReadLookup(c, k) \/ ReadSubjects(c, k) \/ ReadWildcard(c, k)
        PROVE  MuInv'
    BY <2>2, AnsweredMu DEF ReadLookup, ReadSubjects, ReadWildcard
  <2>3. CASE Return(c)
    BY <2>3, ReturnMu
  <2> QED
    BY <1>2, <2>1, <2>2, <2>3 DEF CheckStep
<1>3. ASSUME NEW c \in Checkers, NEW q \in Questions[c], CallCheck(c, q)
      PROVE  MuInv'
  BY <1>3, CallCheckMu
<1>4. CASE UNCHANGED memVars
  BY <1>4 DEF memVars, MuInv
<1> QED
  BY <1>1, <1>2, <1>3, <1>4 DEF MemNext

(* Every step keeps the replicas and the call that feeds one. *)
LEMMA StepStore ==
  ASSUME LiveInv, StoreInv, [MemNext]_memVars
  PROVE  StoreInv'
<1>1. CASE FeedCall
  BY <1>1, FeedCallStore
<1>2. CASE FeedStep
  BY <1>2, FeedStepStore
<1>3. ASSUME NEW c \in Checkers, CheckStep(c)
      PROVE  StoreInv'
  <2>1. UNCHANGED <<current, heap, feed>>
    BY <1>3 DEF CheckStep, Resolve, ReadLookup, ReadSubjects, ReadWildcard, Answered, Return
  <2> QED
    BY <2>1, SameStore
<1>4. ASSUME NEW c \in Checkers, NEW q \in Questions[c], CallCheck(c, q)
      PROVE  StoreInv'
  BY <1>4, SameStore DEF CallCheck
<1>5. CASE UNCHANGED memVars
  BY <1>5, SameStore DEF memVars
<1> QED
  BY <1>1, <1>2, <1>3, <1>4, <1>5 DEF MemNext

-----------------------------------------------------------------------------
(* A Check in flight. *)

(* The fields of a Check. *)
CheckFields == {"step", "ref", "asked", "began", "subject", "keys", "reads", "last"}

(* What x, a Check of the replica r, knows of it. *)
Answers(r, x) ==
  /\ x.began = r.revision /\ x.step = Verdict(r, x.asked)
  /\ x.subject = SubjectAsked(r.names, x.asked)
  /\ x.step = "reading" =>
       /\ \A k \in x.keys : KnownKey(r.names, x.asked, k)
       /\ x.last # Nil => ReadSays(r.names, x.asked, History[x.began].tuples, x.last)

(* A Check that has found a replica has asked it. *)
CheckInv(c) ==
  /\ DOMAIN check[c] = CheckFields
  /\ check[c].step \in CheckSteps /\ check[c].ref \in Refs \cup {Nil}
  /\ check[c].reads \in 0..MaxReads
  /\ check[c].step # "idle" => check[c].asked \in Questions[c]
  /\ check[c].step \in {"undefined", "invalid", "reading"} <=> check[c].ref # Nil
  /\ check[c].ref = Nil => check[c].last = Nil
  /\ check[c].ref # Nil => Answers(heap[check[c].ref], check[c])

(* The invariant: the replicas, the lock and the Checks. *)
DataInv == StoreInv /\ MuInv /\ \A c \in Checkers : CheckInv(c)

(* Who has found a replica has the store's, whole. *)
LEMMA CheckedWhole ==
  ASSUME LiveInv, StoreInv, NEW c \in Checkers, check[c].ref # Nil
  PROVE  /\ check[c].ref = current /\ current \in Refs
         /\ Whole(heap[current]) /\ Tables(heap[current].names)
<1>1. check[c].ref = current /\ current # Nil /\ mu.active # {} /\ mu.writer # "holds" /\ feed.ref = Nil
  BY DEF LiveInv, WriterInv, ReaderInv, FeederInv
<1> QED
  BY <1>1 DEF StoreInv, HeldInv, HeapInv

(* What the others do does not reach a Check. *)
LEMMA OtherCheck ==
  ASSUME NEW c \in Checkers, CheckInv(c), check'[c] = check[c],
         check[c].ref # Nil => heap' = heap
  PROVE  CheckInv(c)'
<1>1. CASE check[c].ref = Nil
  BY <1>1 DEF CheckInv
<1>2. CASE check[c].ref # Nil
  BY <1>2 DEF CheckInv
<1> QED
  BY <1>1, <1>2

(* Check resolves the names of its question and decides whether it may be  *)
(* asked.                                                                  *)
LEMMA ResolveCheck ==
  ASSUME LiveInv, StoreInv, NEW c \in Checkers, CheckInv(c), Resolve(c)
  PROVE  CheckInv(c)'
<1> DEFINE x == check[c]
           y == Resolved(c)
           q == x.asked
           r == heap[current]
           obj == LookupObjectRef(r.names, q.resource)
           key == [object |-> [obj EXCEPT !.id = OrUnknown(@)], relation |-> LookupRelation(r.names, q.relation)]
<1>1. /\ DOMAIN check = Checkers /\ x.step = "begin" /\ heap' = heap
      /\ check' = [check EXCEPT ![c] = y]
  BY DEF Resolve, LiveInv, MemShape
<1>2. check'[c] = y
  BY <1>1
<1>3. x.ref = Nil /\ x.last = Nil /\ DOMAIN x = CheckFields /\ x.reads \in 0..MaxReads /\ q \in Questions[c]
  BY <1>1 DEF CheckInv
<1>4. CASE current = Nil
  <2>1. y = [x EXCEPT !.step = "not ready"]
    BY <1>4 DEF Resolved
  <2>2. DOMAIN y = CheckFields /\ y.step = "not ready" /\ y.ref = Nil /\ y.last = Nil /\ y.reads = x.reads /\ y.asked = q
    BY <1>3, <2>1 DEF CheckFields
  <2> HIDE DEF x, y, q
  <2> QED
    BY <1>2, <1>3, <2>2 DEF CheckInv, CheckSteps
<1>5. CASE current # Nil
  <2>1. current \in Refs /\ Tables(r.names)
    BY <1>5 DEF StoreInv, HeapInv
  <2>2. y = [x EXCEPT !.step = Verdict(r, q), !.ref = current, !.began = r.revision,
                      !.subject = SubjectAsked(r.names, q), !.keys = {key}]
    BY <1>5, Zenon DEF Resolved, SubjectAsked
  <2>3. /\ DOMAIN y = CheckFields /\ y.step = Verdict(r, q) /\ y.ref = current /\ y.began = r.revision
        /\ y.subject = SubjectAsked(r.names, q) /\ y.keys = {key} /\ y.last = Nil /\ y.reads = x.reads /\ y.asked = q
    <3> DEFINE v == Verdict(r, q)
               s == SubjectAsked(r.names, q)
               rev == r.revision
    <3>1. y = [x EXCEPT !.step = v, !.ref = current, !.began = rev, !.subject = s, !.keys = {key}]
      BY <2>2
    <3>2. DOMAIN x = CheckFields /\ x.last = Nil
      BY <1>3
    <3> HIDE DEF x, y, r, key, v, s, rev
    <3>3. /\ DOMAIN y = CheckFields /\ y.step = v /\ y.ref = current /\ y.began = rev
          /\ y.subject = s /\ y.keys = {key} /\ y.last = Nil /\ y.reads = x.reads /\ y.asked = x.asked
      BY <3>1, <3>2 DEF CheckFields
    <3> QED
      BY <3>3 DEF v, s, rev
  <2>4. Verdict(r, q) \in {"undefined", "invalid", "reading"}
    BY DEF Verdict
  <2>5. Verdict(r, q) = "reading" => KnownKey(r.names, q, key)
    <3> SUFFICES ASSUME Verdict(r, q) = "reading"
                 PROVE  KnownKey(r.names, q, key)
      OBVIOUS
    <3> DEFINE T == r.names["types"]
               O == r.names["objects"]
               R == r.names["relations"]
               rel == LookupRelation(r.names, q.relation)
               id == OrUnknown(lookup(O, q.resource.id))
    <3>1. obj = [type |-> lookup(T, q.resource.type), id |-> lookup(O, q.resource.id)] /\ rel = lookup(R, q.relation)
      BY DEF LookupObjectRef, LookupRelation
    <3>2. obj.type # 0 /\ rel # 0
      BY DEF Verdict
    <3>3. Table(T) /\ Table(O) /\ Table(R)
      BY <2>1 DEF Tables, Spaces
    <3>4. key = [object |-> [type |-> lookup(T, q.resource.type), id |-> id], relation |-> lookup(R, q.relation)]
      BY <3>1
    <3>5. lookup(T, q.resource.type) # 0 /\ lookup(R, q.relation) # 0
      BY <3>1, <3>2
    <3> HIDE DEF key, obj, rel, r, q, T, O, R
    <3>6. lookup(T, q.resource.type) \in 1..Len(T) /\ lookup(R, q.relation) \in 1..Len(R)
      BY <3>3, <3>5, LookupIs
    <3>7. Len(O) \in Nat
      BY <2>1, TablesAre DEF Spaces, O
    <3>8. id \in 1..Len(O) \/ (id = UnknownObject /\ ~Seen(O, q.resource.id))
      BY <3>3, <3>7, LookupIs DEF OrUnknown
    <3> HIDE DEF id
    <3> QED
      BY <3>4, <3>6, <3>8 DEF KnownKey, T, O, R
  <2> HIDE DEF x, y, q, r, key
  <2>6. Answers(r, y)
    BY <2>3, <2>4, <2>5 DEF Answers
  <2>7. current # Nil
    BY <1>5
  <2> QED
    BY <1>1, <1>2, <1>3, <2>1, <2>3, <2>4, <2>6, <2>7 DEF CheckInv, CheckSteps, r
<1> QED
  BY <1>4, <1>5

(* Check returns, or is called. *)
LEMMA ReturnCheck ==
  ASSUME LiveInv, NEW c \in Checkers, CheckInv(c), Return(c) \/ \E q \in Questions[c] : CallCheck(c, q)
  PROVE  CheckInv(c)'
<1>1. DOMAIN check = Checkers
  BY DEF LiveInv, MemShape
<1>2. CASE Return(c)
  <2>1. check'[c] = IdleCheck
    BY <1>1, <1>2 DEF Return
  <2>2. DOMAIN check'[c] = CheckFields /\ check'[c].step = "idle" /\ check'[c].ref = Nil
        /\ check'[c].reads = 0 /\ check'[c].last = Nil
    BY <2>1 DEF IdleCheck, CheckFields
  <2>3. 0 \in 0..MaxReads
    BY MemStoreAssumption
  <2> QED
    BY <2>2, <2>3 DEF CheckInv, CheckSteps
<1>3. ASSUME NEW q \in Questions[c], CallCheck(c, q)
      PROVE  CheckInv(c)'
  <2>1. check'[c] = [IdleCheck EXCEPT !.step = "begin", !.asked = q]
    BY <1>1, <1>3 DEF CallCheck
  <2>2. DOMAIN check'[c] = CheckFields /\ check'[c].step = "begin" /\ check'[c].ref = Nil
        /\ check'[c].reads = 0 /\ check'[c].last = Nil /\ check'[c].asked = q
    BY <2>1 DEF IdleCheck, CheckFields
  <2>3. 0 \in 0..MaxReads
    BY MemStoreAssumption
  <2> QED
    BY <2>2, <2>3 DEF CheckInv, CheckSteps
<1> QED
  BY <1>2, <1>3

(* What a Check that reads may read. *)
LEMMA ReadsReadable ==
  ASSUME LiveInv, StoreInv, NEW c \in Checkers, CheckInv(c), Reads(c), NEW k \in check[c].keys
  PROVE  LET r == heap[check[c].ref]
         IN  /\ check[c].ref # Nil /\ Tables(r.names) /\ check[c].began = r.revision
             /\ Rules(r, History[r.revision].schema) /\ r.revision \in Revisions
             /\ check[c].subject = SubjectAsked(r.names, check[c].asked)
             /\ Readable(r.names, r.entries, History[r.revision].tuples, check[c].asked, k)
<1> DEFINE r == heap[check[c].ref]
           q == check[c].asked
<1>1. /\ check[c].step = "reading" /\ check[c].ref # Nil /\ q \in TupleNames
      /\ check[c].step = Verdict(r, q) /\ KnownKey(r.names, q, k) /\ check[c].began = r.revision
      /\ check[c].subject = SubjectAsked(r.names, q)
  BY MemStoreAssumption DEF Reads, CheckInv, Answers
<1>2. Whole(r) /\ Tables(r.names)
  BY <1>1, CheckedWhole
<1>3. q.subject.relation # NoName => Seen(r.names["relations"], q.subject.relation)
  <2>1. q.subject.relation # NoName => lookup(r.names["relations"], q.subject.relation) # 0
    BY <1>1 DEF Verdict, LookupSubjectRef, LookupRelation
  <2>2. Table(r.names["relations"])
    BY <1>2 DEF Tables, Spaces
  <2> QED
    BY <2>1, <2>2, LookupIs
<1> HIDE DEF r, q
<1>4. History[r.revision].tuples \in SUBSET Tuples
  BY <1>2, HistoryIs DEF Whole
<1> QED
  BY <1>1, <1>2, <1>3, <1>4 DEF Whole, Readable, r, q

(* A read that says what is stored. *)
LEMMA AnsweredCheck ==
  ASSUME LiveInv, NEW c \in Checkers, CheckInv(c), Reads(c), NEW kind, NEW k, NEW granted, NEW subjects,
         Answered(c, kind, k, granted, subjects), check[c].ref # Nil,
         \A key \in LedTo(heap[check[c].ref], subjects) : KnownKey(heap[check[c].ref].names, check[c].asked, key),
         ReadSays(heap[check[c].ref].names, check[c].asked, History[check[c].began].tuples,
                  [kind |-> kind, key |-> k, granted |-> granted, subjects |-> subjects])
  PROVE  CheckInv(c)'
<1> DEFINE x == check[c]
           y == check'[c]
           r == heap[x.ref]
           led == LedTo(r, subjects)
           said == [kind |-> kind, key |-> k, granted |-> granted, subjects |-> subjects]
<1>1. /\ DOMAIN x = CheckFields /\ x.step = "reading" /\ x.ref \in Refs /\ x.reads \in Nat /\ x.reads < MaxReads
      /\ x.asked \in Questions[c] /\ Answers(r, x) /\ MaxReads \in Nat
  BY MemStoreAssumption DEF CheckInv, Reads
<1>2. /\ DOMAIN y = DOMAIN x /\ y.step = x.step /\ y.ref = x.ref /\ y.asked = x.asked /\ y.began = x.began
      /\ y.subject = x.subject /\ y.reads = x.reads + 1 /\ y.keys = x.keys \cup led /\ y.last = said
      /\ heap' = heap
  <2>1. DOMAIN check = Checkers
    BY DEF LiveInv, MemShape
  <2> QED
    BY <1>1, <2>1 DEF Answered, CheckFields
<1>3. ReadSays(r.names, x.asked, History[x.began].tuples, said) /\ \A key \in led : KnownKey(r.names, x.asked, key)
  OBVIOUS
<1> DEFINE s == heap'[y.ref]
<1>4. s = r
  BY <1>2
<1> HIDE DEF led, said, r, s
<1>5. Answers(s, y)
  <2> HIDE DEF x, y
  <2> QED
    BY <1>1, <1>2, <1>3, <1>4 DEF Answers
<1>6. y.reads \in 0..MaxReads
  <2> HIDE DEF x, y
  <2> QED
    BY <1>1, <1>2
<1>7. DOMAIN y = CheckFields /\ y.step = "reading" /\ y.ref \in Refs /\ y.asked \in Questions[c] /\ y.ref # Nil
  BY <1>1, <1>2
<1> QED
  BY <1>5, <1>6, <1>7 DEF CheckInv, CheckSteps, s

(* Every read of a Check says what is stored. *)
LEMMA ReadCheck ==
  ASSUME LiveInv, StoreInv, NEW c \in Checkers, CheckInv(c), NEW k \in check[c].keys,
         ReadLookup(c, k) \/ ReadSubjects(c, k) \/ ReadWildcard(c, k)
  PROVE  CheckInv(c)'
<1> DEFINE r == heap[check[c].ref]
           q == check[c].asked
           tuples == History[check[c].began].tuples
           schema == History[check[c].began].schema
           on == StoredOn(r.names, q, tuples, k)
           ids == TheirIds(r.names, on)
           e == EntryOf(r.entries, k)
           subject == check[c].subject
<1>0. Reads(c)
  BY DEF ReadLookup, ReadSubjects, ReadWildcard
<1>1. /\ check[c].ref # Nil /\ Tables(r.names) /\ Rules(r, schema) /\ schema \in Schemas
      /\ subject = SubjectAsked(r.names, q) /\ Readable(r.names, r.entries, tuples, q, k)
  BY <1>0, ReadsReadable, HistoryIs
<1> HIDE DEF r, q, tuples, schema, subject
<1>2. /\ \A s \in on : s \in SubjectNames /\ SubjectSeen(r.names, s)
      /\ ToSet(e.usersets) = UsersetsOf(ids)
  BY <1>1, ListsRead
<1> HIDE DEF on
<1>3. ASSUME NEW answer, ToSet(answer) \subseteq ObjectsOf(ids) \cup UsersetsOf(ids)
      PROVE  \A key \in LedTo(r, answer) : KnownKey(r.names, q, key)
  BY <1>1, <1>2, <1>3, LedKnown
<1>4. ASSUME NEW kind, NEW granted, NEW answer, Answered(c, kind, k, granted, answer),
             ToSet(answer) \subseteq ObjectsOf(ids) \cup UsersetsOf(ids),
             ReadSays(r.names, q, tuples, [kind |-> kind, key |-> k, granted |-> granted, subjects |-> answer])
      PROVE  CheckInv(c)'
  <2>1. \A key \in LedTo(r, answer) : KnownKey(r.names, q, key)
    BY <1>3, <1>4
  <2> QED
    BY <1>0, <1>1, <1>4, <2>1, AnsweredCheck DEF r, q, tuples
<1>5. CASE ReadLookup(c, k)
  <2> DEFINE answer == Lookup(r.entries, k, subject)
             read == [kind |-> "lookup", key |-> k, granted |-> answer.direct, subjects |-> answer.subjects]
  <2>1. Answered(c, "lookup", k, answer.direct, answer.subjects)
    BY <1>5 DEF ReadLookup, r, subject
  <2>2. answer.direct = holds(e, subject) /\ answer.subjects = e.usersets
    BY DEF Lookup
  <2> HIDE DEF answer, e, ids
  <2>3. /\ read.kind = "lookup" /\ read.key = k /\ read.granted = answer.direct /\ read.subjects = answer.subjects
    OBVIOUS
  <2>4. (read.granted <=> holds(EntryOf(r.entries, k), SubjectAsked(r.names, q)))
        /\ read.subjects = EntryOf(r.entries, k).usersets
    BY <1>1, <2>2, <2>3 DEF e
  <2> HIDE DEF read
  <2>5. ReadSays(r.names, q, tuples, read)
    BY <1>1, <2>3, <2>4, LookupSays
  <2>6. ToSet(answer.subjects) \subseteq ObjectsOf(ids) \cup UsersetsOf(ids)
    BY <1>2, <2>2
  <2> QED
    BY <1>4, <2>1, <2>5, <2>6 DEF read
<1>6. CASE ReadSubjects(c, k)
  <2> DEFINE answer == SubjectsOf(r.entries, k)
             read == [kind |-> "subjects", key |-> k, granted |-> FALSE, subjects |-> answer]
  <2>1. Answered(c, "subjects", k, FALSE, answer)
    BY <1>6 DEF ReadSubjects, r
  <2>2. read.kind = "subjects" /\ read.key = k /\ read.subjects = SubjectsOf(r.entries, k)
    OBVIOUS
  <2> HIDE DEF read
  <2>3. /\ ReadSays(r.names, q, tuples, read)
        /\ ToSet(answer) = ObjectsOf(ids) \cup UsersetsOf(ids)
    BY <1>1, <2>2, SubjectsSay DEF on
  <2> HIDE DEF answer, ids
  <2> QED
    BY <1>4, <2>1, <2>3 DEF read
<1>7. CASE ReadWildcard(c, k)
  <2> DEFINE granted == HasWildcard(r.entries, k, subject.type)
             read == [kind |-> "wildcard", key |-> k, granted |-> granted, subjects |-> <<>>]
  <2>1. Answered(c, "wildcard", k, granted, <<>>) /\ ~subject.wildcard /\ subject.relation = 0
    BY <1>7 DEF ReadWildcard, r, subject
  <2> HIDE DEF granted
  <2>2. read.kind = "wildcard" /\ read.key = k /\ read.granted = granted
    OBVIOUS
  <2> HIDE DEF read
  <2>3. ReadSays(r.names, q, tuples, read)
    BY <1>1, <2>1, <2>2, WildcardSays DEF granted
  <2>4. ToSet(<<>>) = {}
    BY DEF ToSet
  <2> HIDE DEF ids
  <2> QED
    BY <1>4, <2>1, <2>3, <2>4 DEF read
<1> QED
  BY <1>5, <1>6, <1>7

(* Nothing that a Check reads changes while it is in flight. *)
LEMMA StepChecks ==
  ASSUME LiveInv, StoreInv, NEW c \in Checkers, CheckInv(c), [MemNext]_memVars
  PROVE  CheckInv(c)'
<1>1. CASE FeedCall
  BY <1>1, OtherCheck DEF FeedCall, CallReset, CallApply
<1>2. CASE FeedStep
  <2>1. check' = check
    BY <1>2 DEF FeedStep, Drop, New, Publish, Enter, Move, Compile, Intern, Merge, MergeKey, Built, Fail
  <2> QED
    BY <1>2, <2>1, OtherCheck, ReadersHoldOff
<1>3. ASSUME NEW d \in Checkers, CheckStep(d) \/ \E q \in Questions[d] : CallCheck(d, q)
      PROVE  CheckInv(c)'
  <2>1. CASE d = c
    <3>1. CASE Resolve(c)
      BY <3>1, ResolveCheck
    <3>2. ASSUME NEW k \in check[c].keys, ReadLookup(c, k) \/ ReadSubjects(c, k) \/ ReadWildcard(c, k)
          PROVE  CheckInv(c)'
      BY <3>2, ReadCheck
    <3>3. CASE Return(c) \/ \E q \in Questions[c] : CallCheck(c, q)
      BY <3>3, ReturnCheck
    <3> QED
      BY <1>3, <2>1, <3>1, <3>2, <3>3 DEF CheckStep
  <2>2. CASE d # c
    <3>1. DOMAIN check = Checkers
      BY DEF LiveInv, MemShape
    <3>2. ASSUME NEW kind, NEW k, NEW granted, NEW subjects, Answered(d, kind, k, granted, subjects)
          PROVE  check'[c] = check[c] /\ heap' = heap
      BY <2>2, <3>1, <3>2 DEF Answered
    <3>3. CASE CheckStep(d)
      <4>1. CASE Resolve(d) \/ Return(d)
        BY <2>2, <3>1, <4>1, OtherCheck DEF Resolve, Return
      <4>2. ASSUME NEW k, ReadLookup(d, k) \/ ReadSubjects(d, k) \/ ReadWildcard(d, k)
            PROVE  check'[c] = check[c] /\ heap' = heap
        BY <3>2, <4>2 DEF ReadLookup, ReadSubjects, ReadWildcard
      <4> QED
        BY <3>3, <4>1, <4>2, OtherCheck DEF CheckStep
    <3>4. ASSUME NEW q, CallCheck(d, q)
          PROVE  CheckInv(c)'
      BY <2>2, <3>1, <3>4, OtherCheck DEF CallCheck
    <3> QED
      BY <1>3, <3>3, <3>4
  <2> QED
    BY <2>1, <2>2
<1>4. CASE UNCHANGED memVars
  BY <1>4, OtherCheck DEF memVars
<1> QED
  BY <1>1, <1>2, <1>3, <1>4 DEF MemNext

(* An empty store, and nobody asking. *)
LEMMA InitData ==
  ASSUME MemInit
  PROVE  DataInv
<1>1. DOMAIN Blank(0) = ReplicaFields /\ Blank(0).revision = 0 /\ Blank(0).names = NewDictionary
  BY DEF Blank, ReplicaFields
<1>2. Tables(NewDictionary)
  BY DictionaryAssumption DEF Tables, Table, NewDictionary
<1>3. \A ref \in Refs : heap[ref] = Blank(0)
  BY DEF MemInit
<1>4. HeapInv
  BY <1>1, <1>2, <1>3 DEF MemInit, HeapInv, ReplicaFields
<1>5. CallInv /\ FillInv /\ HeldInv
  BY MemStoreAssumption DEF MemInit, IdleFeed, CallInv, FillInv, HeldInv, FeedSteps
<1>6. MuInv
  BY DEF MemInit, UnlockedMutex, IdleCheck, MuInv
<1>7. ASSUME NEW c \in Checkers
      PROVE  CheckInv(c)
  <2>1. check[c] = IdleCheck
    BY DEF MemInit
  <2>2. DOMAIN check[c] = CheckFields /\ check[c].step = "idle" /\ check[c].ref = Nil
        /\ check[c].reads = 0 /\ check[c].last = Nil
    BY <2>1 DEF IdleCheck, CheckFields
  <2>3. 0 \in 0..MaxReads
    BY MemStoreAssumption
  <2> QED
    BY <2>2, <2>3 DEF CheckInv, CheckSteps
<1> QED
  BY <1>4, <1>5, <1>6, <1>7 DEF DataInv, StoreInv

(* The inductive invariant of the replicas, of the calls that feed them and of the Checks. *)
THEOREM ReplicasHold == MemSpec => []DataInv
<1>1. LiveInv /\ DataInv /\ [MemNext]_memVars => DataInv'
  <2> SUFFICES ASSUME LiveInv, DataInv, [MemNext]_memVars
               PROVE  DataInv'
    OBVIOUS
  <2>1. \A c \in Checkers : CheckInv(c)'
    BY StepChecks DEF DataInv
  <2> QED
    BY <2>1, StepStore, StepMu DEF DataInv
<1> QED
  BY InitData, <1>1, LocksKeepReplicas, PTL DEF MemSpec

(* The in-memory store keeps its types: no name space outgrows its ids,    *)
(* the lock's holders are Checks, and a call is at one of its steps.       *)
THEOREM MemTyped == MemSpec => []MemTypeOK
<1>1. ASSUME LiveInv, DataInv
      PROVE  MemTypeOK
  <2>1. \A ref \in Refs : \A space \in Spaces :
          heap[ref].names[space] \in Seq(Names) /\ Len(heap[ref].names[space]) < UnknownObject
    <3> SUFFICES ASSUME NEW ref \in Refs, NEW space \in Spaces
                 PROVE  heap[ref].names[space] \in Seq(Names) /\ Len(heap[ref].names[space]) < UnknownObject
      OBVIOUS
    <3> DEFINE table == heap[ref].names[space]
    <3>1. Table(table)
      BY <1>1 DEF DataInv, StoreInv, HeapInv, Tables
    <3> HIDE DEF table
    <3>2. table \in Seq(Names) /\ Len(table) \in Nat /\ Len(table) <= Limit /\ Limit \in Nat
      BY <3>1, DictionaryAssumption DEF Table
    <3> QED
      BY <3>2 DEF UnknownObject, table
  <2>2. /\ current \in Refs \cup {Nil} /\ \A ref \in Refs : heap[ref].revision \in Revisions \cup {0}
    BY <1>1 DEF DataInv, StoreInv, HeapInv
  <2>3. /\ mu.active \cap mu.pending = {} /\ mu.active \cup mu.pending \subseteq Checkers
        /\ mu.writer \in {"none", "waits", "holds"}
    BY <1>1 DEF DataInv, MuInv
  <2>4. feed.step \in FeedSteps /\ feed.ref \in Refs \cup {Nil}
    BY <1>1 DEF DataInv, StoreInv, CallInv
  <2>5. \A c \in Checkers : /\ check[c].step \in CheckSteps /\ check[c].ref \in Refs \cup {Nil}
                             /\ check[c].reads \in 0..MaxReads
    BY <1>1 DEF DataInv, CheckInv
  <2> QED
    BY <2>1, <2>2, <2>3, <2>4, <2>5 DEF MemTypeOK
<1> QED
  BY LocksKeepReplicas, ReplicasHold, <1>1, PTL

(* Whenever nobody has the store locked for writing, it is "the central    *)
(* store at one revision" (store.go): it holds every tuple and rule of the *)
(* revision it says and no other, whatever was fed to it, in whatever      *)
(* order changes landed, and wherever an earlier apply failed.             *)
THEOREM StoreIsWhole == MemSpec => []HeldWhole
<1>1. ASSUME LiveInv, DataInv
      PROVE  HeldWhole
  <2> SUFFICES ASSUME current # Nil, mu.writer # "holds"
               PROVE  HeldWhole
    BY DEF HeldWhole
  <2>1. Whole(heap[current])
    BY <1>1 DEF LiveInv, FeederInv, DataInv, StoreInv, HeldInv
  <2> DEFINE r == heap[current]
             tuples == History[r.revision].tuples
             schema == History[r.revision].schema
  <2>2. /\ \A t \in tuples : resolves(r.names, t)
        /\ Holds(r.entries, {Item(r.names, t, TRUE) : t \in tuples})
    BY <2>1 DEF Whole, HoldsAll, Stored
  <2>3. /\ r.defines = {<<lookup(r.names["types"], x.type), LookupRelation(r.names, x.relation)>> : x \in schema.defines}
        /\ r.subjects = {<<lookup(r.names["types"], x.type), LookupRelation(r.names, x.relation)>> : x \in schema.accepts}
    BY <2>1 DEF Whole, Rules, Ids
  <2> QED
    BY <2>2, <2>3, Zenon DEF HeldWhole
<1> QED
  BY LocksKeepReplicas, ReplicasHold, <1>1, PTL

(* The verdict on a question, by names. *)
LEMMA VerdictIs ==
  ASSUME NEW r, Tables(r.names), NEW schema \in Schemas, Rules(r, schema), NEW q \in TupleNames
  PROVE  Verdict(r, q) = "reading" <=> Askable(schema, q)
<1> DEFINE T == r.names["types"]
           R == r.names["relations"]
           s == q.subject
           o == q.resource
<1>1. Table(T) /\ Table(R) /\ lookup(R, NoName) = 0 /\ ~Seen(R, NoName)
  BY NoNameUnseen DEF Tables, Spaces
<1>2. \A x \in schema.defines \cup schema.accepts :
        /\ Seen(T, x.type) /\ (x.relation # NoName => Seen(R, x.relation))
        /\ x = [type |-> x.type, relation |-> x.relation]
  BY DEF Rules, RefsSeen, Schemas
<1>3. \A x \in schema.defines : x.relation # NoName
  BY DictionaryAssumption DEF Schemas
<1>4. /\ r.defines = {<<lookup(T, x.type), lookup(R, x.relation)>> : x \in schema.defines}
      /\ r.subjects = {<<lookup(T, x.type), lookup(R, x.relation)>> : x \in schema.accepts}
  BY DEF Rules, Ids, LookupRelation
<1> DEFINE subj == LookupSubjectRef(r.names, s)
<1>5. Concrete(subj) <=> s.id # WildcardMarker
  BY Zenon DEF Concrete, LookupSubjectRef
<1>6. Verdict(r, q) = "reading" <=>
        /\ Concrete(subj)
        /\ lookup(T, o.type) # 0 /\ lookup(R, q.relation) # 0
        /\ s.relation # NoName => lookup(R, s.relation) # 0
        /\ <<lookup(T, s.type), lookup(R, s.relation)>> \in r.subjects
        /\ <<lookup(T, o.type), lookup(R, q.relation)>> \in r.defines
  BY DEF Verdict, LookupObjectRef, LookupSubjectRef, LookupRelation
<1> HIDE DEF T, R, s, o, subj
<1>7. /\ Len(T) \in Nat /\ Len(R) \in Nat
  BY TablesAre DEF Spaces, T, R
<1>8. ASSUME NEW table, Table(table), Len(table) \in Nat, NEW x, Seen(table, x)
      PROVE  lookup(table, x) # 0 /\ \A y : lookup(table, y) = lookup(table, x) <=> y = x
  BY <1>8, LookupIs, IdsDiffer
<1>9. ASSUME NEW x \in schema.accepts
      PROVE  (s.relation # NoName => lookup(R, s.relation) # 0)
              /\ <<lookup(T, s.type), lookup(R, s.relation)>> = <<lookup(T, x.type), lookup(R, x.relation)>>
             <=> x = [type |-> s.type, relation |-> s.relation]
  <2>1. lookup(T, s.type) = lookup(T, x.type) <=> s.type = x.type
    BY <1>1, <1>2, <1>7, <1>8
  <2>2. CASE x.relation = NoName
    <3>1. lookup(R, x.relation) = 0
      BY <1>1, <2>2
    <3>2. (s.relation # NoName => lookup(R, s.relation) # 0) /\ lookup(R, s.relation) = lookup(R, x.relation)
            <=> s.relation = x.relation
      BY <1>1, <2>2, <3>1
    <3> QED
      BY <1>2, <2>1, <3>2
  <2>3. CASE x.relation # NoName
    <3>1. /\ lookup(R, s.relation) = lookup(R, x.relation) <=> s.relation = x.relation
          /\ lookup(R, x.relation) # 0
      BY <1>1, <1>2, <1>7, <1>8, <2>3
    <3> QED
      BY <1>2, <2>1, <3>1
  <2> QED
    BY <2>2, <2>3
<1>10. ASSUME NEW x \in schema.defines
      PROVE  lookup(T, o.type) # 0 /\ lookup(R, q.relation) # 0
              /\ <<lookup(T, o.type), lookup(R, q.relation)>> = <<lookup(T, x.type), lookup(R, x.relation)>>
             <=> x = [type |-> o.type, relation |-> q.relation]
  <2>1. /\ lookup(T, o.type) = lookup(T, x.type) <=> o.type = x.type
        /\ lookup(T, x.type) # 0
    BY <1>1, <1>2, <1>7, <1>8
  <2>2. /\ lookup(R, q.relation) = lookup(R, x.relation) <=> q.relation = x.relation
        /\ lookup(R, x.relation) # 0
    BY <1>1, <1>2, <1>3, <1>7, <1>8
  <2> QED
    BY <1>2, <2>1, <2>2
<1>11. (s.relation # NoName => lookup(R, s.relation) # 0)
        /\ <<lookup(T, s.type), lookup(R, s.relation)>> \in r.subjects
       <=> [type |-> s.type, relation |-> s.relation] \in schema.accepts
  BY <1>4, <1>9
<1>12. lookup(T, o.type) # 0 /\ lookup(R, q.relation) # 0
        /\ <<lookup(T, o.type), lookup(R, q.relation)>> \in r.defines
       <=> [type |-> o.type, relation |-> q.relation] \in schema.defines
  BY <1>4, <1>10
<1> QED
  BY <1>6, <1>11, <1>12, <1>5 DEF Askable, s, o

(* Checks "answer req from the one revision s holds when it starts"        *)
(* (store.go): it is of a revision that the store was given, a question is *)
(* refused just when that revision's schema does not let it be asked, or   *)
(* it asks about a whole type, and each Lookup, SubjectsOf and HasWildcard *)
(* says, by names, what that revision stores.                              *)
THEOREM ChecksSayOneRevision == MemSpec => []AnswersOneRevision
<1>1. ASSUME LiveInv, DataInv
      PROVE  AnswersOneRevision
  <2> SUFFICES ASSUME NEW c \in Checkers, check[c].step \in {"undefined", "invalid", "reading"}
               PROVE  /\ check[c].began \in Revisions
                      /\ check[c].step = "reading"
                           <=> Askable(History[check[c].began].schema, check[c].asked)
                      /\ check[c].step = "reading" /\ check[c].last # Nil => ReadRight(c)
    BY Zenon DEF AnswersOneRevision
  <2> DEFINE r == heap[check[c].ref]
             q == check[c].asked
             schema == History[check[c].began].schema
  <2>1. CheckInv(c) /\ check[c].ref # Nil
    BY <1>1 DEF DataInv, CheckInv
  <2>2. Whole(r) /\ Tables(r.names)
    BY <1>1, <2>1, CheckedWhole DEF DataInv
  <2>3. check[c].began = r.revision /\ check[c].step = Verdict(r, q) /\ q \in TupleNames
    BY <2>1, MemStoreAssumption DEF CheckInv, Answers
  <2>4. schema \in Schemas /\ Rules(r, schema) /\ check[c].began \in Revisions
    BY <2>2, <2>3, HistoryIs DEF Whole
  <2>5. check[c].step = "reading" /\ check[c].last # Nil => ReadRight(c)
    BY <2>1, ReadRightIs DEF CheckInv, Answers
  <2> HIDE DEF r, q, schema
  <2>6. check[c].step = "reading" <=> Askable(schema, q)
    BY <2>2, <2>3, <2>4, VerdictIs
  <2> QED
    BY <2>4, <2>5, <2>6 DEF q, schema
<1> QED
  BY LocksKeepReplicas, ReplicasHold, <1>1, PTL

=============================================================================
