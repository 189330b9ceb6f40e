----------------------------- MODULE Dictionary -----------------------------
(***************************************************************************)
(* core/dictionary.go and core/refs.go: the names a replica has seen, and  *)
(* the ids it gave them.  A table is the sequence of its names, so a name's *)
(* id is its place and 0 stands for no name.                               *)
(***************************************************************************)
EXTENDS Integers, Sequences

CONSTANTS
  Names,
  NoName,           \* ""
  WildcardMarker,   \* "*"
  Limit             \* the highest id given out

ASSUME DictionaryAssumption ==
  /\ NoName \notin Names /\ WildcardMarker \notin Names
  /\ Limit \in Nat \ {0}

Spaces == {"types", "relations", "objects"}

(* Names to be interned, each in its space. *)
Words == [space : Spaces, name : Names \cup {NoName}]
Word(space, name) == [space |-> space, name |-> name]

NewDictionary == [space \in Spaces |-> <<>>]

(* One past the last id, and asked about in place of a name without one.   *)
UnknownObject == Limit + 1

-----------------------------------------------------------------------------

(* Whether table holds s. *)
Seen(table, s) == \E i \in DOMAIN table : table[i] = s

(* Fault: the last id is taken for the first that is too many. *)
ExhaustedPastLimit(table, s) ==
  s # NoName /\ ~Seen(table, s) /\ Len(table) > Limit

(* ErrIDSpaceExhausted. *)
Exhausted(table, s) ==
  s # NoName /\ ~Seen(table, s) /\ Len(table) + 1 > Limit

intern(table, s) ==
  IF s = NoName \/ Seen(table, s) THEN table ELSE Append(table, s)

lookup(table, s) ==
  IF Seen(table, s) THEN CHOOSE i \in DOMAIN table : table[i] = s ELSE 0

(* The words interned one after another, up to the first that fails: the   *)
(* ones before it stay.                                                    *)
internAll(names, words) ==
  LET Step(x, w) ==
        IF ~x.ok \/ Exhausted(x.names[w.space], w.name)
        THEN [x EXCEPT !.ok = FALSE]
        ELSE [x EXCEPT !.names[w.space] = intern(@, w.name)]
      upTo[i \in 0..Len(words)] ==
        IF i = 0 THEN {[names |-> names, ok |-> TRUE]} ELSE {Step(x, words[i]) : x \in upTo[i - 1]}
  IN  CHOOSE x \in upTo[Len(words)] : TRUE

-----------------------------------------------------------------------------
(* References, interned and looked up. *)

ObjectRefs  == [type : Nat, id : Nat]
SubjectRefs == [type : Nat, id : Nat, relation : Nat, wildcard : BOOLEAN]

objectWords(o) == <<Word("types", o.type), Word("objects", o.id)>>

subjectWords(s) ==
  <<Word("types", s.type)>>
    \o (IF s.id = WildcardMarker THEN <<>> ELSE <<Word("objects", s.id)>>)
    \o (IF s.relation = NoName THEN <<>> ELSE <<Word("relations", s.relation)>>)

LookupObjectRef(names, o) ==
  [type |-> lookup(names["types"], o.type), id |-> lookup(names["objects"], o.id)]

LookupRelation(names, rel) == lookup(names["relations"], rel)

LookupSubjectRef(names, s) ==
  [type     |-> lookup(names["types"], s.type),
   id       |-> IF s.id = WildcardMarker THEN 0 ELSE lookup(names["objects"], s.id),
   relation |-> LookupRelation(names, s.relation),
   wildcard |-> s.id = WildcardMarker]

ValidObject(o) == o.type # 0 /\ o.id # 0

ValidSubject(s) ==
  /\ s.type # 0
  /\ IF s.wildcard THEN s.id = 0 /\ s.relation = 0 ELSE s.id # 0

=============================================================================
