---------------------------- MODULE CheckMeaning ----------------------------
(***************************************************************************)
(* What a schema and tuples say, apart from how core/check.go finds out,   *)
(* as the least model of a stratified set of rules.  x is what is asked:   *)
(* schema, tuples and subject.                                             *)
(*                                                                         *)
(* A claim is that a rewrite, on a key, grants the subject.  A meaning is  *)
(* the granted claims with their reasons: each has a stage, after those of *)
(* the claims it follows from, so no claim is its own reason; and a level, *)
(* as reference_test.go's strata, under which what it subtracts is.        *)
(***************************************************************************)
EXTENDS SchemaData

Claim(rw, k) == [rw |-> rw, key |-> k]

(* That the subject holds k. *)
Says(schema, k) == Claim(schema.rewrites[RefOf(k)], k)

(* Whether the subjects stored on k name s itself, or all of its type. *)
Named(schema, tuples, s, k) ==
  \E t \in tuples :
    /\ t.key = k
    /\ Allows(schema, RefOf(k), SubjectTypeOf(t.subject))
    /\ \/ t.subject = s
       \/ s \in Objects /\ t.subject = Everyone(TypeOf[s])

(* The keys whose holders the claim's rewrite grants. *)
Reads(x, c) ==
  CASE c.rw.op = "this" ->
         {t.subject : t \in {t \in x.tuples :
            /\ t.key = c.key /\ t.subject \in Keys
            /\ Allows(x.schema, RefOf(t.key), RefOf(t.subject))}}
    [] c.rw.op = "computed_userset" -> {Key(c.key.object, c.rw.relation)}
    [] c.rw.op = "tuple_to_userset" ->
         {k \in {Key(t.subject, c.rw.relation) : t \in {t \in x.tuples :
            /\ t.key = Key(c.key.object, c.rw.tupleset) /\ t.subject \in Objects
            /\ Allows(x.schema, RefOf(t.key), TypeOf[t.subject])}} :
              RefOf(k) \in Defined(x.schema)}
    [] OTHER -> {}

Child(c, i) == Claim(c.rw.children[i], c.key)

Subclaims(x, c) ==
  {Says(x.schema, k) : k \in Reads(x, c)}
    \cup (IF c.rw.op \in Composite THEN {Child(c, i) : i \in DOMAIN c.rw.children} ELSE {})

(* checkShape, and "Build proves an accepted userset type names a defined  *)
(* relation".                                                              *)
WellFormed(x, c) ==
  /\ c.key \in Keys
  /\ c.rw.op \in {"this", "computed_userset", "tuple_to_userset"} \cup Composite
  /\ c.rw.op \in Composite =>
       DOMAIN c.rw.children = 1 .. Len(c.rw.children) /\ Len(c.rw.children) >= 2
  /\ c.rw.op = "exclusion" => Len(c.rw.children) = 2
  /\ \A k \in Reads(x, c) : k \in Keys /\ RefOf(k) \in Defined(x.schema)

(* Whether c follows when, of the claims it is made of, those in held do. *)
Follows(x, c, held, others) ==
  CASE c.rw.op = "intersection" -> \A i \in DOMAIN c.rw.children : Child(c, i) \in held
    [] c.rw.op = "exclusion" -> Child(c, 1) \in held /\ Child(c, 2) \in others
    [] OTHER -> \/ held # {}
                \/ c.rw.op = "this" /\ Named(x.schema, x.tuples, x.subject, c.key)

(* g gives each of its claims a level and a stage, 0 for the stage of what *)
(* is not granted.                                                         *)
Accounts(x, g) ==
  \A c \in DOMAIN g :
    LET of    == Subclaims(x, c)
        held  == {d \in of : g[d].stage > 0}
        since == {d \in held : g[d].stage < g[c].stage}
    IN  /\ g[c] \in [level : Nat, stage : Nat]
        /\ WellFormed(x, c)
        /\ of \subseteq DOMAIN g
        /\ \A d \in of : g[d].level <= g[c].level
        /\ c.rw.op = "exclusion" => g[Child(c, 2)].level < g[c].level
        /\ g[c].stage > 0 => Follows(x, c, since, of \ held)
        /\ Follows(x, c, held, of \ held) => g[c].stage > 0

(* g says whether the subject holds k. *)
SpeaksOf(x, g, k) == RefOf(k) \in Defined(x.schema) => Says(x.schema, k) \in DOMAIN g

IsMeaning(x, g) == SpeaksOf(x, g, x.key) /\ Accounts(x, g)

(* The same for every key. *)
MeansAll(x, g) == Accounts(x, g) /\ \A k \in Keys : SpeaksOf(x, g, k)

=============================================================================
