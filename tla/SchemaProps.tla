---------------------------- MODULE SchemaProps -----------------------------
(***************************************************************************)
(* What Build promises of a schema it returns, said in terms of what the   *)
(* schema and stored tuples mean, not of its edges.                        *)
(***************************************************************************)
EXTENDS SchemaBuilder, CheckMeaning

CONSTANTS
  Stores,     \* the sets of tuples a schema is tried on
  Askers,     \* the subjects asked about
  Stranger,   \* an object no tuple names, as core.UnknownObject
  Meaning(_)  \* what a schema and tuples mean for a subject, as calculated

ASSUME StoreAssumption ==
  \A T \in Stores :
    /\ T \subseteq Tuples
    /\ \A t \in T : t.subject # Stranger

ASSUME StrangerAssumption == Stranger \in Objects

(* As many keys as are asked about. *)
ASSUME KeyAssumption == IsFiniteSet(Keys)

(* Every variable has its type, and what accepts subjects is a relation.   *)
BuilderTypeOK ==
  /\ DOMAIN rewrites \subseteq RelationRefs
  /\ DOMAIN allowed = {r \in DOMAIN rewrites : rewrites[r] = This}
  /\ clash \in BOOLEAN
  /\ built.outcome \in {"none", "refused", "schema"}

IsBuilt == built.outcome = "schema"

Asked(T, s) == [schema |-> built.schema, tuples |-> T, subject |-> s]

(* The keys that s holds when T are stored. *)
KeysOf(T, s) ==
  LET g == Meaning(Asked(T, s))
  IN  {k \in Keys : /\ RefOf(k) \in Defined(built.schema)
                    /\ g[Says(built.schema, k)].stage > 0}

Levels == 0..Cardinality(DOMAIN rewrites)

(* reference_test.go: Build refuses exactly the loops through a subtract   *)
(* side.  There is none just when the relations can be put on levels, each *)
(* no lower than what it reads and above what it subtracts.                *)
RefusesOnlyLoops ==
  checkStratified <=>
    \E level \in [{e.from : e \in Edges} \cup {e.to : e \in Edges} -> Levels] :
      \A e \in Edges :
        level[e.from] >= level[e.to] + (IF e.negated THEN 1 ELSE 0)

(* checkStratified: "Without it the ... cycle rule has no least fixed      *)
(* point to converge on".  With it, a schema that was built means          *)
(* something, whatever tuples are stored and whoever asks.                 *)
BuiltHasMeaning ==
  IsBuilt =>
    \A T \in Stores, s \in Askers \cup {Stranger} :
      MeansAll(Asked(T, s), Meaning(Asked(T, s)))

(* ExclusionReachable: a relation outside it is never subtracted, even     *)
(* through data, so a tuple added to it takes nothing from anyone.         *)
UnreachableOnlyGrants ==
  IsBuilt =>
    \A T \in Stores, s \in Askers : \A t \in T :
      RefOf(t.key) \notin built.reachable => KeysOf(T \ {t}, s) \subseteq KeysOf(T, s)

(* checkAllowed refuses a userset that reaches a wildcard: no userset a    *)
(* relation accepts holds someone no tuple names.                          *)
NoUsersetHoldsEveryone ==
  IsBuilt =>
    \A ref \in DOMAIN built.schema.allowed :
      \A userset \in built.schema.allowed[ref] \cap RelationRefs :
        \A T \in Stores : \A k \in KeysOf(T, Stranger) : RefOf(k) # userset

=============================================================================
