----------------------------- MODULE SchemaData -----------------------------
(***************************************************************************)
(* The terms internal/core speaks of schemas and tuples in.  A tuple says  *)
(* that a subject stands on a key: one relation on one object.  A subject  *)
(* is an object, a userset, which is a key itself, or everyone of a type.  *)
(***************************************************************************)
EXTENDS Integers, Sequences, FiniteSets

CONSTANTS
  Types,
  Relations,   \* the names of relations and permissions, of every type
  Objects,
  TypeOf       \* the type of each object

RelationRefs == [type : Types, relation : Relations]

Keys == [object : Objects, relation : Relations]

Key(o, rel) == [object |-> o, relation |-> rel]

RefOf(k) == [type |-> TypeOf[k.object], relation |-> k.relation]

(* type:*, as a subject and as a type of subjects. *)
Everyone(t) == [all |-> t]
Wildcards   == [all : Types]

ASSUME ObjectAssumption ==
  /\ TypeOf \in [Objects -> Types]
  /\ Objects \cap (Keys \cup Wildcards) = {}

Subjects     == Objects \cup Keys \cup Wildcards
SubjectTypes == Types \cup RelationRefs \cup Wildcards

SubjectTypeOf(s) ==
  IF s \in Objects THEN TypeOf[s] ELSE IF s \in Keys THEN RefOf(s) ELSE s

Tuples == [key : Keys, subject : Subjects]

-----------------------------------------------------------------------------

This                     == [op |-> "this"]
ComputedUserset(rel)     == [op |-> "computed_userset", relation |-> rel]
TupleToUserset(set, rel) ==
  [op |-> "tuple_to_userset", tupleset |-> set, relation |-> rel]
Union(children)          == [op |-> "union", children |-> children]
Intersection(children)   == [op |-> "intersection", children |-> children]
Exclusion(base, less)    == [op |-> "exclusion", children |-> <<base, less>>]

Composite == {"union", "intersection", "exclusion"}

(* A schema defines some of the refs.  Those defined by "this" are its     *)
(* relations, and accept subjects; the others are its permissions.         *)
Defined(schema) == DOMAIN schema.rewrites

Accepted(schema, ref) ==
  IF ref \in DOMAIN schema.allowed THEN schema.allowed[ref] ELSE {}

Allows(schema, ref, st) == st \in Accepted(schema, ref)

=============================================================================
