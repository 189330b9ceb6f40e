--------------------------- MODULE CheckSemantics ---------------------------
(***************************************************************************)
(* What a schema and tuples say, apart from how core/check.go finds out:   *)
(* the keys a subject holds are the least set closed under the schema's    *)
(* definitions, with each subtraction read from what is finally held.      *)
(*                                                                         *)
(* Nothing here supposes that the schema is stratified.  low rises and     *)
(* Held(low) falls, each bounding the answer from its side; where the two  *)
(* meet, the definitions have one meaning.                                 *)
(***************************************************************************)
EXTENDS CheckMeaning
LOCAL INSTANCE FiniteSetsExt

RECURSIVE Grants(_, _, _, _, _, _, _)

(* Whether rw, on k, grants s when the keys in yes are held and those      *)
(* outside no are not.                                                     *)
Grants(schema, tuples, s, rw, k, yes, no) ==
  CASE rw.op = "this" ->
         \/ Named(schema, tuples, s, k)
         \/ \E t \in tuples : /\ t.key = k /\ t.subject \in yes
                              /\ Allows(schema, RefOf(k), SubjectTypeOf(t.subject))
    [] rw.op = "computed_userset" -> Key(k.object, rw.relation) \in yes
    [] rw.op = "tuple_to_userset" ->
         LET set == Key(k.object, rw.tupleset)
         IN  \E o \in Objects : /\ [key |-> set, subject |-> o] \in tuples
                                /\ Allows(schema, RefOf(set), TypeOf[o])
                                /\ Key(o, rw.relation) \in yes
    [] rw.op = "union" ->
         \E i \in DOMAIN rw.children :
           Grants(schema, tuples, s, rw.children[i], k, yes, no)
    [] rw.op = "intersection" ->
         \A i \in DOMAIN rw.children :
           Grants(schema, tuples, s, rw.children[i], k, yes, no)
    [] rw.op = "exclusion" ->
         /\ Grants(schema, tuples, s, rw.children[1], k, yes, no)
         /\ ~Grants(schema, tuples, s, rw.children[2], k, no, yes)

RECURSIVE Closure(_, _, _, _, _)

(* The least set of keys closed under the definitions, from held up, when  *)
(* what is subtracted is read from no.                                     *)
Closure(schema, tuples, s, held, no) ==
  LET grown == {k \in Keys :
                 /\ RefOf(k) \in Defined(schema)
                 /\ Grants(schema, tuples, s, schema.rewrites[RefOf(k)], k, held, no)}
  IN  IF grown = held THEN held ELSE Closure(schema, tuples, s, grown, no)

Held(schema, tuples, s, no) == Closure(schema, tuples, s, {}, no)

RECURSIVE Rise(_, _, _, _)

Rise(schema, tuples, s, low) ==
  LET grown == Held(schema, tuples, s, Held(schema, tuples, s, low))
  IN  IF grown = low THEN low ELSE Rise(schema, tuples, s, grown)

(* The keys s surely holds. *)
Answer(schema, tuples, s) == Rise(schema, tuples, s, {})

-----------------------------------------------------------------------------
(* The meaning of a case, as the reference computes it. *)

RECURSIVE Needed(_, _, _)

(* The claims in some and those they depend on, after the ones in met. *)
Needed(x, met, some) ==
  IF some = {} THEN met
  ELSE Needed(x, met \cup some, UNION {Subclaims(x, c) : c \in some} \ (met \cup some))

RECURSIVE Rounds(_, _, _)

(* The keys held after each round, until one changes nothing. *)
Rounds(x, held, no) ==
  LET grown == {k \in Keys : /\ RefOf(k) \in Defined(x.schema)
                             /\ Grants(x.schema, x.tuples, x.subject,
                                       x.schema.rewrites[RefOf(k)], k, held, no)}
  IN  IF grown = held THEN <<held>> ELSE <<held>> \o Rounds(x, grown, no)

RECURSIVE Height(_)

Height(rw) ==
  IF rw.op \in Composite
  THEN 1 + Max({Height(rw.children[i]) : i \in DOMAIN rw.children}) ELSE 0

(* What g says of claims on x. *)
MeaningOn(x, claims) ==
  LET answer == Answer(x.schema, x.tuples, x.subject)
      rounds == Rounds(x, {}, answer) \o <<>>
      StageOf(c) ==
        LET after == {n \in DOMAIN rounds :
                       Grants(x.schema, x.tuples, x.subject, c.rw, c.key, rounds[n], answer)}
        IN  IF after = {} THEN 0 ELSE 10 * Min(after) + Height(c.rw)
  IN  [c \in claims |->
         [level |-> Cardinality(Needed(x, {}, {c})), stage |-> StageOf(c)]]

(* The claims about the keys. *)
About(x, keys) ==
  Needed(x, {}, {Says(x.schema, k) : k \in {k \in keys : RefOf(k) \in Defined(x.schema)}})

MeaningOf(x)    == MeaningOn(x, About(x, {x.key}))
MeaningOfAll(x) == MeaningOn(x, About(x, Keys))

=============================================================================
