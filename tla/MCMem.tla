------------------------------- MODULE MCMem --------------------------------
(* Instances of MemStore for TLC: teams whose members are users and teams. *)
EXTENDS MemStoreProps

CONSTANTS user, team, a, b, u, v, w, m, p, none, any, c1, c2, r1, r2

MCNames == {user, team, a, b, u, v, w, m, p}

Rel(type, rel) == [type |-> type, relation |-> rel]
Obj(type, id)  == [type |-> type, id |-> id]
Subj(type, id, rel) == [type |-> type, id |-> id, relation |-> rel]
On(id, rel, s) == [resource |-> Obj(team, id), relation |-> rel, subject |-> s]

MCTuples ==
  { On(a, m, Subj(user, u, none)), On(a, m, Subj(user, v, none)),
    On(a, m, Subj(team, b, m)), On(b, m, Subj(user, any, none)),
    On(b, m, Subj(user, w, none)), On(a, m, Subj(user, u, p)) }

Types(rels) == <<Word("types", user), Word("types", team)>> \o rels

(* m: user | user:* | team#m, and then m: user with p = m. *)
First ==
  [compiles |-> TRUE, words |-> Types(<<Word("relations", m)>>),
   defines |-> {Rel(team, m)}, accepts |-> {Rel(user, none), Rel(team, m)}]
Second ==
  [compiles |-> TRUE, words |-> Types(<<Word("relations", m), Word("relations", p)>>),
   defines |-> {Rel(team, m), Rel(team, p)}, accepts |-> {Rel(user, none)}]
Unreadable == [compiles |-> FALSE, words |-> <<>>, defines |-> {}, accepts |-> {}]

MCHistory ==
  << [schema |-> First, tuples |-> {On(a, m, Subj(user, u, none)), On(a, m, Subj(team, b, m)),
                                    On(b, m, Subj(user, any, none))}],
     [schema |-> First, tuples |-> {On(a, m, Subj(user, v, none)), On(a, m, Subj(team, b, m)),
                                    On(a, m, Subj(user, u, none))}],
     [schema |-> Second, tuples |-> {On(a, m, Subj(user, v, none)),
                                     On(b, m, Subj(user, w, none))}],
     [schema |-> Unreadable, tuples |-> {}] >>

Ask(id, rel, s) == [resource |-> Obj(team, id), relation |-> rel, subject |-> s]

(* Among them two that are refused: of team#m for p, which no revision     *)
(* takes both of, and of all users, whom a relation accepts.               *)
MCQuestions ==
  LET refused == Ask(a, p, Subj(team, b, m))
      everyone == Ask(b, m, Subj(user, any, none))
  IN  c1 :> {Ask(a, m, Subj(user, u, none)), Ask(b, m, Subj(user, w, none)), refused}
        @@ c2 :> {everyone}

TwoCheckers == {c1, c2}
TwoRefs == {r1, r2}
=============================================================================
