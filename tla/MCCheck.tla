------------------------------ MODULE MCCheck -------------------------------
(* Instances of Evaluator for TLC: teams that hold users and teams.          *)
EXTENDS CheckProps, CheckSemantics, TLC

CONSTANTS user, team, u, a, b, c, m, up, p, q, r, s

MCTypes == {user, team}
MCRelations == {m, up, p, q, r, s}
MCObjects == {u, a, b, c}
MCTypeOf == [o \in {u, a, b, c} |-> IF o = u THEN user ELSE team]

Team(rel)   == [type |-> team, relation |-> rel]
Of(rel)     == ComputedUserset(rel)
Up(rel)     == TupleToUserset(up, rel)
AnyOf(rels) == Union([i \in DOMAIN rels |-> Of(rels[i])])
AllOf(rels) == Intersection([i \in DOMAIN rels |-> Of(rels[i])])

Stands(k, x) == [key |-> k, subject |-> x]

(* m stores users and teams, up is a tupleset, the rest are permissions. *)
SchemaOf(stored, perms) ==
  [rewrites |-> [ref \in {Team(rel) : rel \in DOMAIN perms} |-> perms[ref.relation]]
                  @@ [ref \in DOMAIN stored |-> This],
   allowed |-> stored]

-----------------------------------------------------------------------------
(* Permissions p and q along teams that may be above one another. *)

Along(mTakes, pDef, qDef) ==
  SchemaOf(Team(m) :> mTakes @@ Team(up) :> {team, user}, p :> pDef @@ q :> qDef)

Nested  == Along({user, Team(m), Everyone(user)}, Union(<<Up(p), Of(m)>>), Exclusion(Of(p), Up(p)))
Crossed == Along({user, Team(p)}, Intersection(<<Of(q), Up(q)>>), Union(<<Up(p), Of(m)>>))
Tangled == Along({user, Team(q)}, Union(<<Up(q), Of(m)>>), Intersection(<<Of(p), Up(p)>>))

(* u in a, a above c, a and b in and above each other; up may also hold a    *)
(* user, which has no permissions.                                           *)
TuplesOver(rel) ==
  << Stands(Key(a, m), u), Stands(Key(c, up), a), Stands(Key(a, m), Key(b, rel)),
     Stands(Key(b, m), Key(a, rel)), Stands(Key(a, up), b), Stands(Key(b, up), c),
     Stands(Key(b, up), a), Stands(Key(a, up), u) >>

(* The i-th digit of n. *)
Digit(n, i, base) == (n \div base ^ i) % base

(* Every subset of some. *)
CasesOf(schema, some, key) ==
  [n \in 1 .. 2 ^ Len(some) |->
     [schema |-> schema,
      tuples |-> {some[i] : i \in {i \in DOMAIN some : Digit(n, i - 1, 2) = 1}},
      subject |-> u, key |-> key, maxDepth |-> 24, mayFail |-> FALSE]]

(* Only Nested takes every user, and none takes the holders of up. *)
AnswerCases ==
  CasesOf(Nested, TuplesOver(m) \o << Stands(Key(c, m), Everyone(user)),
                                      Stands(Key(b, m), Key(a, up)) >>, Key(a, q))
    \o CasesOf(Crossed, TuplesOver(p), Key(a, p))
    \o CasesOf(Tangled, TuplesOver(q), Key(a, q))

Limited(x) == [x EXCEPT !.maxDepth = 5, !.mayFail = TRUE]

(* u is no team, and has no q. *)
LimitCases ==
  LET Climbs(x) == /\ Stands(Key(a, up), b) \in x.tuples
                   /\ Stands(Key(a, up), u) \notin x.tuples
      climbs == SelectSeq(AnswerCases, Climbs)
  IN  [i \in DOMAIN climbs |-> Limited(climbs[i])]
        \o <<[Limited(AnswerCases[1]) EXCEPT !.tuples = {}, !.subject = a, !.key = Key(u, q)]>>

-----------------------------------------------------------------------------
(* Permissions of one team, defined by one another, over m that holds u. *)

(* Every definition of a permission from one or two of x, y and m. *)
Over(x, y) ==
  LET pairs == <<<<x, y>>, <<y, x>>, <<x, m>>, <<m, x>>, <<y, m>>, <<m, y>>>>
  IN  <<Of(x), Of(y), Of(m)>> \o [i \in 1 .. 6 |-> AnyOf(pairs[i])]
        \o [i \in 1 .. 6 |-> AllOf(pairs[i])]

Three ==
  [n \in 1 .. 15 ^ 3 |-> p :> Over(q, r)[1 + Digit(n, 0, 15)]
                           @@ q :> Over(p, r)[1 + Digit(n, 1, 15)]
                           @@ r :> Over(p, q)[1 + Digit(n, 2, 15)]]

(* A component settles inside the rounds of another. *)
Inner == p :> AnyOf(<<s, m>>) @@ q :> AnyOf(<<r, m>>)
           @@ r :> Of(q) @@ s :> AllOf(<<p, q, m>>)

(* A round meets a member that a later one has to raise. *)
Grown == p :> AnyOf(<<r, m>>) @@ q :> Of(s)
           @@ r :> AllOf(<<p, s, q, s>>) @@ s :> AnyOf(<<q, p>>)

(* A root's answer has risen when it turns out not to be the root. *)
Risen == p :> AnyOf(<<s, r>>) @@ q :> AnyOf(<<r, m>>) @@ r :> AnyOf(<<up, q>>)
           @@ s :> AllOf(<<q, r, q>>) @@ up :> AllOf(<<s, p, m>>)

LoopCases ==
  LET loops == Three \o <<Inner, Grown, Risen>>
  IN  [i \in DOMAIN loops |->
         [schema |-> SchemaOf(Team(m) :> {user}, loops[i]),
          tuples |-> {Stands(Key(a, m), u)}, subject |-> u, key |-> Key(a, p),
          maxDepth |-> 24, mayFail |-> FALSE]] \o <<>>

AllCases == AnswerCases \o LimitCases \o LoopCases

AllMeanings ==
  LET cases == AllCases
  IN  [i \in DOMAIN cases |-> MeaningOf(cases[i]) @@ <<>>] \o <<>>

(* TLC computes a definition once, and what a constant stands for anew at    *)
(* every use.                                                                *)
MCCases    == AllCases
MCMeanings == AllMeanings

=============================================================================
