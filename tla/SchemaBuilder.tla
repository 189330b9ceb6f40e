--------------------------- MODULE SchemaBuilder ----------------------------
(***************************************************************************)
(* core/schema.go: definitions collected one by one, then validated        *)
(* together by Build.                                                      *)
(*                                                                         *)
(* A schema is refused for one complaint or for many: the model keeps that *)
(* there is one, not what is said.  Fields an operator does not read and   *)
(* type ids that did not resolve have no counterpart here; nor, as what a  *)
(* relation accepts is a set of its subject types, have a type listed      *)
(* twice and a wildcard with a relation, which checkAllowed refuses.       *)
(***************************************************************************)
EXTENDS SchemaData

CONSTANTS
  Definitions,   \* what callers define: [ref, rewrite, accepts]
  Terms,         \* their rewrites, and the operands of these
  Walk(_)        \* what a walk over a rewrite meets: its parts

(* A part of a rewrite is negated if it is below a subtract side. *)
Part(rw, negated) == [rw |-> rw, negated |-> negated]

(* Where a walk goes on from a part: to its operands. *)
Operands(p) ==
  IF p.rw.op \in Composite
  THEN {Part(p.rw.children[i], p.negated \/ (p.rw.op = "exclusion" /\ i = 2)) :
          i \in DOMAIN p.rw.children}
  ELSE {}

ASSUME TermAssumption ==
  /\ IsFiniteSet(Terms)
  /\ \A rw \in Terms : rw.op \in Composite => rw.children \in Seq(Terms)

(* A walk meets the rewrite it is over, and what walks over its operands   *)
(* meet.  A rewrite is a tree: none is below itself.                       *)
ASSUME WalkAssumption ==
  \A rw \in Terms :
    LET top == Part(rw, FALSE)
    IN  /\ top \in Walk(rw)
        /\ \A p \in Walk(rw) :
             /\ p.rw \in Terms /\ p.negated \in BOOLEAN
             /\ Operands(p) \subseteq Walk(rw)
             /\ \/ p = top
                \/ \E o \in Operands(top) : \E q \in Walk(o.rw) :
                     p = Part(q.rw, o.negated \/ q.negated)
        /\ \A o \in Operands(top) : \A p \in Walk(o.rw) : p.rw # rw

ASSUME DefinitionAssumption ==
  \A d \in Definitions :
    /\ d.ref \in RelationRefs /\ d.accepts \subseteq SubjectTypes
    /\ d.rewrite \in Terms

VARIABLES
  rewrites,   \* the rewrite of each ref defined
  allowed,    \* the subject types each relation accepts
  clash,      \* whether a ref was defined twice
  built       \* what Build returned

builderVars == <<rewrites, allowed, clash, built>>

NotBuilt == [outcome |-> "none"]
Refused  == [outcome |-> "refused"]

Accepts(ref) == IF ref \in DOMAIN allowed THEN allowed[ref] ELSE {}

(* A function on one more ref. *)
With(f, ref, value) ==
  [r \in DOMAIN f \cup {ref} |-> IF r = ref THEN value ELSE f[r]]

-----------------------------------------------------------------------------

(* Fault: the last definition of a ref stands. *)
DefineLast(d) ==
  /\ built = NotBuilt
  /\ rewrites' = With(rewrites, d.ref, d.rewrite)
  /\ allowed' = IF d.rewrite = This
                THEN With(allowed, d.ref, d.accepts) ELSE allowed
  /\ UNCHANGED <<clash, built>>

(* Relation and Permission.  The first definition of a ref stands. *)
Define(d) ==
  /\ built = NotBuilt
  /\ IF d.ref \in DOMAIN rewrites
     THEN clash' = TRUE /\ UNCHANGED <<rewrites, allowed>>
     ELSE /\ rewrites' = With(rewrites, d.ref, d.rewrite)
          /\ allowed' = IF d.rewrite = This
                        THEN With(allowed, d.ref, d.accepts) ELSE allowed
          /\ UNCHANGED clash
  /\ UNCHANGED built

-----------------------------------------------------------------------------
(* The shape of a definition. *)

On(typ, rel) == [type |-> typ, relation |-> rel]

(* rel on each type the tupleset accepts that defines it. *)
arrowTargets(set, rel) ==
  {r \in DOMAIN rewrites :
     /\ r.relation = rel
     /\ r.type \in Accepts(set) \/ Everyone(r.type) \in Accepts(set)
        \/ \E st \in Accepts(set) \cap RelationRefs : st.type = r.type}

(* An arrow's tupleset is a relation that names objects, and one of their  *)
(* types defines the target.                                               *)
ArrowOK(typ, rw) ==
  LET set == On(typ, rw.tupleset)
  IN  /\ set \in DOMAIN rewrites
      /\ rewrites[set] = This
      /\ Accepts(set) \subseteq Types
      /\ arrowTargets(set, rw.relation) # {}

(* A part of a permission of typ. *)
PartOK(typ, rw) ==
  CASE rw.op = "computed_userset" -> On(typ, rw.relation) \in DOMAIN rewrites
    [] rw.op = "tuple_to_userset" -> ArrowOK(typ, rw)
    [] rw.op \in Composite ->
         /\ Len(rw.children) >= 2
         /\ rw.op = "exclusion" => Len(rw.children) = 2
    [] OTHER -> FALSE

checkShape(ref) ==
  rewrites[ref] = This \/ \A p \in Walk(rewrites[ref]) : PartOK(ref.type, p.rw)

-----------------------------------------------------------------------------
(* What definitions read. *)

(* Fault: reading an arrow is reading where it leads, its tupleset not. *)
ArrowReadsTarget(typ, rw) == arrowTargets(On(typ, rw.tupleset), rw.relation)

(* What an arrow depends on: where it leads, and the tupleset itself. *)
ArrowReads(typ, rw) ==
  {On(typ, rw.tupleset)} \cup arrowTargets(On(typ, rw.tupleset), rw.relation)

(* What a part of a permission of typ depends on itself. *)
DependsOn(typ, rw) ==
  CASE rw.op = "computed_userset" -> {On(typ, rw.relation)}
    [] rw.op = "tuple_to_userset" -> ArrowReads(typ, rw)
    [] OTHER -> {}

(* What the rewrite of ref depends on. *)
collectEdges(ref) ==
  UNION {[from : {ref}, to : DependsOn(ref.type, p.rw), negated : {p.negated}] :
         p \in Walk(rewrites[ref])}

(* Fault: what tuples may point at is no dependency. *)
NoStoredEdges(ref) == {}

(* What a relation's tuples may point at. *)
collectStoredEdges(ref) ==
  [from : {ref}, to : Accepts(ref) \cap RelationRefs, negated : {FALSE}]

Edges ==
  UNION {collectEdges(r) \cup collectStoredEdges(r) : r \in DOMAIN rewrites}

(* Whether no edge leads out of refs. *)
Closed(refs, edges) == \A e \in edges : e.from \in refs => e.to \in refs

(* The refs edges lead to from refs, refs included: the least closed set. *)
Reach(refs, edges) ==
  LET all    == refs \cup {e.to : e \in edges}
      closed == {some \in SUBSET all : refs \subseteq some /\ Closed(some, edges)}
  IN  {r \in all : \A some \in closed : r \in some}

(* Fault: only what a definition itself reads back is seen. *)
NoDirectLoop ==
  \A e \in Edges :
    e.negated => [from |-> e.to, to |-> e.from, negated |-> FALSE] \notin Edges

(* No subtract side leads back to what subtracts it. *)
checkStratified ==
  \A e \in Edges : e.negated => e.from \notin Reach({e.to}, Edges)

exclusionReachable == Reach({e.to : e \in {d \in Edges : d.negated}}, Edges)

-----------------------------------------------------------------------------
(* What a relation accepts. *)

(* The refs whose subjects a part hands on: not an arrow's tupleset. *)
Yields(typ, rw) ==
  CASE rw.op = "computed_userset" -> {On(typ, rw.relation)}
    [] rw.op = "tuple_to_userset" ->
         arrowTargets(On(typ, rw.tupleset), rw.relation)
    [] OTHER -> {}

YieldEdges ==
  UNION {UNION {[from : {r}, to : Yields(r.type, p.rw)] : p \in Walk(rewrites[r])} :
         r \in DOMAIN rewrites}

(* Fault: only a wildcard that the relation itself accepts is seen. *)
acceptsWildcard(ref) == Accepts(ref) \cap Wildcards # {}

(* Whether ref picks up every subject of a type.  The usersets it accepts  *)
(* are not followed: each is refused where it is accepted.                 *)
reachesWildcard(ref) ==
  \E r \in Reach({ref}, YieldEdges) : Accepts(r) \cap Wildcards # {}

checkAllowed(ref) ==
  rewrites[ref] = This =>
    /\ Accepts(ref) # {}
    /\ \A target \in Accepts(ref) \cap RelationRefs :
         target \in DOMAIN rewrites /\ ~reachesWildcard(target)

-----------------------------------------------------------------------------

Build ==
  /\ built = NotBuilt
  /\ built' =
       IF /\ ~clash
          /\ \A ref \in DOMAIN rewrites : checkShape(ref) /\ checkAllowed(ref)
          /\ checkStratified
       THEN [outcome |-> "schema",
             schema |-> [rewrites |-> rewrites, allowed |-> allowed],
             reachable |-> exclusionReachable]
       ELSE Refused
  /\ UNCHANGED <<rewrites, allowed, clash>>

BuilderInit ==
  /\ rewrites = <<>>
  /\ allowed = <<>>
  /\ clash = FALSE
  /\ built = NotBuilt

BuilderNext == (\E d \in Definitions : Define(d)) \/ Build

BuilderSpec == BuilderInit /\ [][BuilderNext]_builderVars

=============================================================================
