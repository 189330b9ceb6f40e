------------------------------ MODULE Compiler ------------------------------
(***************************************************************************)
(* schema/compile.go: sources compiled one after another into schemas,     *)
(* their names interned in one dictionary.                                 *)
(*                                                                         *)
(* A source comes piece by piece, so that every one the pieces make up is  *)
(* compiled; what the parser has stopped at is not written any further.    *)
(* Where an error stands on the page and what it says is left out.         *)
(***************************************************************************)
EXTENDS Parser, SchemaBuilder
LOCAL INSTANCE SequencesExt

CONSTANTS
  ValidNames,   \* what ValidType and ValidRelation accept
  Starts,       \* how the first source may begin, and how long it may grow
  Later,        \* the same, of every source after it
  Pieces,       \* what a source may go on with
  TypeAt        \* the type that each id is in a schema, and one for 0

ASSUME CompilerAssumption ==
  /\ ValidNames \subseteq Names
  /\ IsInjective(TypeAt) /\ DOMAIN TypeAt = 0..Limit
  /\ Types = {TypeAt[id] : id \in 1..Limit} /\ Relations = 1..Limit
  /\ \A start \in Starts \cup Later : start.most \in Nat

VARIABLES
  src,       \* the source
  most,      \* the bound on its length
  names,     \* the dictionary
  todo,      \* the definitions build has yet to hand to the builder
  pc,        \* "reading" until the names are interned, then "building"
  compiled   \* what was compiled last: the definitions and their schema

compilerVars == <<src, most, names, todo, pc, compiled, builderVars>>

NoneYet == [defs |-> <<>>, schema |-> [rewrites |-> <<>>, allowed |-> <<>>]]

-----------------------------------------------------------------------------
(* What core cannot see. *)

TypeNames(defs) == {defs[i].name : i \in DOMAIN defs}

AllMembers(defs) == UNION {ToSet(defs[i].members) : i \in DOMAIN defs}

Declared(defs) == {m.name : m \in AllMembers(defs)}

RECURSIVE NamesIn(_)

NamesIn(e) ==
  CASE e.op = "this" -> {}
    [] e.op = "computed_userset" -> {e.relation}
    [] e.op = "tuple_to_userset" -> {e.tupleset, e.relation}
    [] OTHER -> UNION {NamesIn(e.children[i]) : i \in DOMAIN e.children}

(* check has nothing to say. *)
check(defs) ==
  /\ IsInjective([i \in DOMAIN defs |-> defs[i].name])
  /\ TypeNames(defs) \cup Declared(defs) \subseteq ValidNames
  /\ \A m \in AllMembers(defs) :
       /\ \A st \in ToSet(m.types) : st.typ \in TypeNames(defs)
                                     /\ st.relation \in Declared(defs) \cup {NoName}
       /\ NamesIn(m.expr) \subseteq Declared(defs)

-----------------------------------------------------------------------------
(* From names to ids. *)

words(defs) ==
  FlattenSeq([i \in DOMAIN defs |->
    <<Word("types", defs[i].name)>>
      \o [j \in DOMAIN defs[i].members |-> Word("relations", defs[i].members[j].name)]])

(* Fault: ids are counted from the first that this source interns. *)
IdByPlace(table, written, s) ==
  IF s \in written THEN Cardinality({t \in written : lookup(table, t) <= lookup(table, s)}) ELSE 0

(* The maps build keeps hold the names this source has written. *)
IdOf(table, written, s) == IF s \in written THEN lookup(table, s) ELSE 0

RECURSIVE rewrite(_, _, _)

rewrite(table, written, e) ==
  CASE e.op = "this" -> This
    [] e.op = "computed_userset" -> ComputedUserset(IdOf(table, written, e.relation))
    [] e.op = "tuple_to_userset" ->
         TupleToUserset(IdOf(table, written, e.tupleset), IdOf(table, written, e.relation))
    [] OTHER -> [op |-> e.op, children |-> [i \in DOMAIN e.children |->
                                             rewrite(table, written, e.children[i])]]

(* What build tells the builder, with the names interned. *)
Definition(ids, defs, typ, m) ==
  LET TypeId(t) == TypeAt[IdOf(ids["types"], TypeNames(defs), t)]
      RelId(r)  == IdOf(ids["relations"], Declared(defs), r)
      Taken(st) == IF st.wildcard THEN Everyone(TypeId(st.typ))
                   ELSE IF st.relation # NoName THEN On(TypeId(st.typ), RelId(st.relation))
                   ELSE TypeId(st.typ)
  IN  [ref     |-> On(TypeId(typ), RelId(m.name)),
       rewrite |-> rewrite(ids["relations"], Declared(defs), m.expr),
       accepts |-> {Taken(st) : st \in ToSet(m.types)}]

DefinitionsOf(ids, defs) ==
  FlattenSeq([i \in DOMAIN defs |->
    [j \in DOMAIN defs[i].members |->
       Definition(ids, defs, defs[i].name, defs[i].members[j])]])

-----------------------------------------------------------------------------
(* One source after another. *)

(* Nothing yet stops the parser from reading on. *)
Open == parse(src).at > Len(src)

Write ==
  /\ pc = "reading"
  /\ Open
  /\ \E piece \in Pieces : /\ Len(src) + Len(piece) <= most
                           /\ src' = src \o piece
  /\ UNCHANGED <<most, names, todo, pc, compiled, builderVars>>

NextSource == \E start \in Later : src' = start.src /\ most' = start.most

(* The source cannot be read, or is refused before a name is interned. *)
Refuse ==
  /\ pc = "reading"
  /\ parse(src).ok => ~check(parse(src).value)
  /\ NextSource
  /\ UNCHANGED <<names, todo, pc, compiled, builderVars>>

(* The first half of build.  The names before one that has no id stay. *)
Intern ==
  /\ pc = "reading"
  /\ parse(src).ok
  /\ \E defs \in {parse(src).value} :
       /\ check(defs)
       /\ \E interned \in {internAll(names, words(defs))} :
            /\ names' = interned.names
            /\ IF interned.ok
               THEN /\ pc' = "building"
                    /\ todo' = DefinitionsOf(interned.names, defs)
                    /\ UNCHANGED <<src, most>>
               ELSE /\ NextSource
                    /\ UNCHANGED <<pc, todo>>
  /\ UNCHANGED <<compiled, builderVars>>

Declare ==
  /\ pc = "building"
  /\ todo # <<>>
  /\ Define(Head(todo))
  /\ todo' = Tail(todo)
  /\ UNCHANGED <<src, most, names, pc, compiled>>

Validate ==
  /\ pc = "building"
  /\ todo = <<>>
  /\ Build
  /\ UNCHANGED <<src, most, names, todo, pc, compiled>>

(* Compile returns; the next call makes a builder of its own. *)
Return ==
  /\ built # NotBuilt
  /\ compiled' = IF built = Refused THEN compiled
                 ELSE [defs |-> parse(src).value, schema |-> built.schema]
  /\ rewrites' = <<>> /\ allowed' = <<>> /\ clash' = FALSE /\ built' = NotBuilt
  /\ pc' = "reading"
  /\ NextSource
  /\ UNCHANGED <<names, todo>>

CompilerInit ==
  /\ \E start \in Starts : src = start.src /\ most = start.most
  /\ names = NewDictionary
  /\ todo = <<>>
  /\ pc = "reading"
  /\ compiled = NoneYet
  /\ BuilderInit

CompilerNext ==
  \/ Write \/ Refuse \/ Intern \/ Declare \/ Validate \/ Return

CompilerSpec == CompilerInit /\ [][CompilerNext]_compilerVars

=============================================================================
