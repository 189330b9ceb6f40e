------------------------------ MODULE Replica -------------------------------
(***************************************************************************)
(* The data of memstore/replica.go: the tuples of one revision, held under *)
(* interned ids in sorted lists, and how a list of changes lands in them.  *)
(*                                                                         *)
(* A list holds the fields its order compares: an object is <<type, id>>,  *)
(* a userset <<type, id, relation>> and a wildcard <<type>>.               *)
(***************************************************************************)
EXTENDS Dictionary, SequencesExt

NoEntry == [direct |-> <<>>, usersets |-> <<>>, wildcards |-> <<>>]

(* compareObjects and compareSubjects: the first field that differs says.  *)
Less(a, b) ==
  \E i \in DOMAIN a : a[i] < b[i] /\ \A j \in 1..(i - 1) : a[j] = b[j]

AsObject(s)   == <<s.type, s.id>>
AsUserset(s)  == <<s.type, s.id, s.relation>>
AsWildcard(s) == <<s.type>>

-----------------------------------------------------------------------------
(* Items: what a change does to a key, by ids. *)

Item(names, t, present) ==
  [key     |-> [object |-> LookupObjectRef(names, t.resource),
                relation |-> LookupRelation(names, t.relation)],
   subject |-> LookupSubjectRef(names, t.subject),
   present |-> present]

tupleWords(t) ==
  objectWords(t.resource) \o <<Word("relations", t.relation)>> \o subjectWords(t.subject)

(* Whether a removed tuple can be held: every name of it has been seen. *)
resolves(names, t) ==
  LET it == Item(names, t, FALSE)
  IN  /\ ValidObject(it.key.object) /\ it.key.relation # 0
      /\ ValidSubject(it.subject)
      /\ t.subject.relation # NoName => it.subject.relation # 0

-----------------------------------------------------------------------------
(* Merging. *)

(* base with adds put in and drops taken out, in one walk of all three:    *)
(* at stands in base, adds and drops.                                      *)
mergeSorted(base, adds, drops) ==
  LET Behind(d, x) ==   \* d, past the drops below x
        CHOOSE n \in d..(Len(drops) + 1) :
          /\ n <= Len(drops) => ~Less(drops[n], x)
          /\ \A m \in d..(n - 1) : Less(drops[m], x)
      out[at \in (1..(Len(base) + 1)) \X (1..(Len(adds) + 1)) \X (1..(Len(drops) + 1))] ==
        LET i == at[1]
            j == at[2]
            inBase   == i <= Len(base)
            inAdds   == j <= Len(adds)
            fromBase == inBase /\ (inAdds => ~Less(adds[j], base[i]))
            fromAdds == inAdds /\ (inBase => ~Less(base[i], adds[j]))
            x        == IF fromBase THEN base[i] ELSE adds[j]
            n        == Behind(at[3], x)
            rest     == out[<<IF fromBase THEN i + 1 ELSE i,
                              IF fromAdds THEN j + 1 ELSE j, n>>]
        IN  IF ~inBase /\ ~inAdds THEN <<>>
            ELSE IF n <= Len(drops) /\ drops[n] = x THEN rest
            ELSE <<x>> \o rest
  IN  IF adds = <<>> /\ drops = <<>> THEN base ELSE out[<<1, 1, 1>>]

(* The members of a set, in order. *)
InOrder(S) ==
  [n \in 1..Cardinality(S) |->
     CHOOSE x \in S : Cardinality({y \in S : Less(y, x)}) = n - 1]

(* The subjects of items, in the order of what the list holds of them. *)
Sorted(items, As(_)) == InOrder({As(it.subject) : it \in items})

(* One of an entry's lists, once items that go in it have landed. *)
Patched(list, items, As(_)) ==
  mergeSorted(list, Sorted({it \in items : it.present}, As),
                    Sorted({it \in items : ~it.present}, As))

(* What a key holds once items, all on it, have landed. *)
mergeKey(e, items) ==
  LET wild == {it \in items : it.subject.wildcard}
      sets == {it \in items \ wild : it.subject.relation # 0}
  IN  [direct    |-> Patched(e.direct, items \ (wild \cup sets), AsObject),
       usersets  |-> Patched(e.usersets, sets, AsUserset),
       wildcards |-> Patched(e.wildcards, wild, AsWildcard)]

EntryOf(entries, k) == IF k \in DOMAIN entries THEN entries[k] ELSE NoEntry

(* A key that holds nothing is dropped. *)
Landed(entries, k, items) ==
  LET e == mergeKey(EntryOf(entries, k), items)
  IN  IF e = NoEntry
      THEN [x \in DOMAIN entries \ {k} |-> entries[x]]
      ELSE [x \in DOMAIN entries \cup {k} |-> IF x = k THEN e ELSE entries[x]]

-----------------------------------------------------------------------------
(* The evaluator's questions. *)

(* slices.BinarySearchFunc, which supposes that the list is sorted. *)
Found(list, x) ==
  LET from[span \in (1..(Len(list) + 1)) \X (1..(Len(list) + 1))] ==
        LET lo  == span[1]
            hi  == span[2]
            mid == (lo + hi) \div 2
        IN  IF lo >= hi THEN lo
            ELSE IF Less(list[mid], x) THEN from[<<mid + 1, hi>>] ELSE from[<<lo, mid>>]
      at == from[<<1, Len(list) + 1>>]
  IN  at <= Len(list) /\ list[at] = x

holds(e, s) ==
  IF s.relation # 0 THEN Found(e.usersets, AsUserset(s)) ELSE Found(e.direct, AsObject(s))

Lookup(entries, k, s) ==
  [direct |-> holds(EntryOf(entries, k), s), subjects |-> EntryOf(entries, k).usersets]

SubjectsOf(entries, k) == EntryOf(entries, k).direct \o EntryOf(entries, k).usersets

HasWildcard(entries, k, type) == Contains(EntryOf(entries, k).wildcards, <<type>>)

=============================================================================
