------------------------------ MODULE MCSchema ------------------------------
(* Instances of SchemaBuilder for TLC: teams that hold users and teams. *)
EXTENDS SchemaProps, CheckSemantics, SchemaWalk, TLC

CONSTANTS user, team, u, x, a, b, m, up, p, q

MCTypes == {user, team}
MCRelations == {m, up, p, q}
MCObjects == {u, x, a, b}
MCTypeOf == u :> user @@ x :> user @@ a :> team @@ b :> team

Relation(rel, accepts) ==
  [ref |-> On(team, rel), rewrite |-> This, accepts |-> accepts]
Permission(rel, rw) ==
  [ref |-> On(team, rel), rewrite |-> rw, accepts |-> {}]

(* A stored relation, a tupleset and two permissions, each in the ways     *)
(* that meet a rule of Build or keep it.                                   *)
MCDefinitions ==
  { Relation(m, {user}),
    Relation(m, {user, On(team, m)}),
    Relation(m, {user, On(team, p)}),
    Relation(m, {user, On(team, q)}),
    Relation(m, {Everyone(user), On(team, q)}),
    Relation(m, {}),
    Relation(up, {team}),
    Relation(up, {team, On(team, p)}),
    Relation(up, {team, Everyone(user)}),
    Relation(up, {user}),
    Permission(p, Union(<<ComputedUserset(m), TupleToUserset(up, p)>>)),
    Permission(p, Intersection(<<ComputedUserset(m), ComputedUserset(q)>>)),
    Permission(p, Exclusion(ComputedUserset(m), ComputedUserset(q))),
    Permission(p, Exclusion(ComputedUserset(m), TupleToUserset(up, m))),
    Permission(p, Exclusion(ComputedUserset(m), TupleToUserset(up, q))),
    Permission(p, Union(<<ComputedUserset(m)>>)),
    Relation(q, {user}),
    Permission(q, ComputedUserset(m)),
    Permission(q, Union(<<ComputedUserset(m), ComputedUserset(p)>>)),
    Permission(q, Exclusion(TupleToUserset(up, m), ComputedUserset(m))),
    Permission(q, Exclusion(ComputedUserset(m),
                            Exclusion(ComputedUserset(m), ComputedUserset(p)))) }

(* TLC computes a definition once. *)
AllTerms == UNION {PartsOf(d.rewrite) : d \in MCDefinitions}
MCTerms  == {part.rw : part \in AllTerms}

On2(k, s) == [key |-> k, subject |-> s]

MCTuples ==
  { On2(Key(a, m), u), On2(Key(a, m), Everyone(user)),
    On2(Key(b, m), u),
    On2(Key(a, m), Key(b, m)), On2(Key(a, m), Key(b, p)), On2(Key(b, m), Key(a, q)),
    On2(Key(a, up), b), On2(Key(b, up), a), On2(Key(a, up), a) }

MCStores == {T \in SUBSET MCTuples : Cardinality(T) <= 3}
MCAskers == {u, Key(b, m)}
=============================================================================
