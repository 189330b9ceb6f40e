---------------------------- MODULE SchemaProofs ----------------------------
(***************************************************************************)
(* Proofs about SchemaBuilder: what it refuses, and that a schema it has   *)
(* built means something, whatever tuples are stored.                      *)
(***************************************************************************)
EXTENDS SchemaProps, FiniteSetTheorems, WellFoundedInduction, TLAPS

(* Natural numbers have a least one. *)
LEMMA LeastNat ==
  ASSUME NEW T, T \subseteq Nat, T # {}
  PROVE  \E m \in T : \A t \in T : m <= t
<1>1. PICK m \in T : \A t \in T : ~(<<t, m>> \in OpToRel(<, Nat))
  BY NatLessThanWellFounded, WFMin, Zenon
<1>2. ASSUME NEW t \in T
      PROVE  m <= t
  <2>1. t < m => <<t, m>> \in OpToRel(<, Nat)
    BY DEF OpToRel
  <2>2. ~(t < m)
    BY <1>1, <2>1, Zenon
  <2> QED
    BY <2>2
<1> QED
  BY <1>1, <1>2

-----------------------------------------------------------------------------
(* Where edges lead. *)

LEMMA ReachIs ==
  ASSUME NEW refs, NEW edges
  PROVE  /\ refs \subseteq Reach(refs, edges)
         /\ Closed(Reach(refs, edges), edges)
         /\ \A some : refs \subseteq some /\ Closed(some, edges) =>
                        Reach(refs, edges) \subseteq some
<1> DEFINE all    == refs \cup {e.to : e \in edges}
           closed == {some \in SUBSET all : refs \subseteq some /\ Closed(some, edges)}
<1>1. Reach(refs, edges) = {r \in all : \A some \in closed : r \in some}
  BY DEF Reach
<1>2. refs \subseteq Reach(refs, edges)
  BY <1>1
<1>3. Closed(Reach(refs, edges), edges)
  <2>1. SUFFICES ASSUME NEW e \in edges, e.from \in Reach(refs, edges)
                 PROVE  e.to \in Reach(refs, edges)
    BY DEF Closed
  <2>2. e.to \in all
    OBVIOUS
  <2>3. \A some \in closed : e.to \in some
    BY <1>1, <2>1 DEF Closed
  <2> QED
    BY <1>1, <2>2, <2>3
<1>4. ASSUME NEW some, refs \subseteq some, Closed(some, edges)
      PROVE  Reach(refs, edges) \subseteq some
  <2>1. some \cap all \in closed
    BY <1>4 DEF Closed
  <2> HIDE DEF all, closed
  <2> QED
    BY <1>1, <2>1
<1> QED
  BY <1>2, <1>3, <1>4

(* No negated edge is on a loop. *)
NoLoop(edges) == \A e \in edges : e.negated => e.from \notin Reach({e.to}, edges)

(* How many of the sources edges lead to from r. *)
Rank(r, edges, sources) == Cardinality(Reach({r}, edges) \cap sources)

(* Where no negated edge is on a loop, the sources that can be reached     *)
(* become no more along an edge, and fewer along a negated one.            *)
LEMMA RankFalls ==
  ASSUME NEW edges, NEW sources, IsFiniteSet(sources), \A e \in edges : e.from \in sources,
         NoLoop(edges)
  PROVE  /\ \A r : Rank(r, edges, sources) \in 0 .. Cardinality(sources)
         /\ \A e \in edges :
              /\ Rank(e.to, edges, sources) <= Rank(e.from, edges, sources)
              /\ e.negated => Rank(e.to, edges, sources) < Rank(e.from, edges, sources)
<1>1. ASSUME NEW r
      PROVE  /\ IsFiniteSet(Reach({r}, edges) \cap sources)
             /\ Rank(r, edges, sources) \in Nat
             /\ Rank(r, edges, sources) \in 0 .. Cardinality(sources)
  <2> DEFINE led == Reach({r}, edges)
  <2> HIDE DEF led
  <2>1. IsFiniteSet(led \cap sources) /\ Cardinality(led \cap sources) <= Cardinality(sources)
    BY FS_Intersection
  <2>2. Cardinality(led \cap sources) \in Nat /\ Cardinality(sources) \in Nat
    BY <2>1, FS_CardinalityType
  <2> QED
    BY <2>1, <2>2 DEF Rank, led
<1>2. ASSUME NEW e \in edges
      PROVE  /\ Rank(e.to, edges, sources) <= Rank(e.from, edges, sources)
             /\ e.negated => Rank(e.to, edges, sources) < Rank(e.from, edges, sources)
  <2> DEFINE above == Reach({e.from}, edges)
             below == Reach({e.to}, edges)
  <2>1. e.from \in above /\ Closed(above, edges)
    BY ReachIs
  <2>2. below \subseteq above
    <3>1. {e.to} \subseteq above
      BY <2>1 DEF Closed
    <3> QED
      BY <2>1, <3>1, ReachIs
  <2>3. e.negated => e.from \notin below /\ e.from \in sources
    BY DEF NoLoop
  <2> HIDE DEF above, below
  <2>4. /\ IsFiniteSet(above \cap sources)
        /\ below \cap sources \in SUBSET (above \cap sources)
    BY <1>1, <2>2 DEF above
  <2>5. /\ Cardinality(below \cap sources) <= Cardinality(above \cap sources)
        /\ Cardinality(above \cap sources) = Cardinality(below \cap sources) =>
             above \cap sources = below \cap sources
    BY <2>4, FS_Subset
  <2>6. e.negated => above \cap sources # below \cap sources
    BY <2>1, <2>3
  <2>7. /\ Rank(e.from, edges, sources) = Cardinality(above \cap sources)
        /\ Rank(e.to, edges, sources) = Cardinality(below \cap sources)
    BY DEF Rank, above, below
  <2>8. Rank(e.from, edges, sources) \in Nat /\ Rank(e.to, edges, sources) \in Nat
    BY <1>1
  <2> QED
    BY <2>5, <2>6, <2>7, <2>8
<1> QED
  BY <1>1, <1>2

-----------------------------------------------------------------------------
(* Type correctness. *)

(* The rules of Build. *)
Rules ==
  /\ \A ref \in DOMAIN rewrites : checkShape(ref) /\ checkAllowed(ref)
  /\ checkStratified

(* What is defined has its types; what is built is what was defined and    *)
(* keeps the rules.                                                        *)
BuilderInv ==
  /\ BuilderTypeOK
  /\ IsFiniteSet(DOMAIN rewrites)
  /\ \A r \in DOMAIN rewrites : rewrites[r] \in Terms
  /\ \A r \in DOMAIN allowed : allowed[r] \subseteq SubjectTypes
  /\ IsBuilt =>
       /\ built.schema = [rewrites |-> rewrites, allowed |-> allowed]
       /\ built.reachable = exclusionReachable
       /\ Rules

LEMMA BuilderStarts == BuilderInit => BuilderInv
<1> SUFFICES ASSUME BuilderInit PROVE BuilderInv
  OBVIOUS
<1>1. DOMAIN rewrites = {} /\ DOMAIN allowed = {}
  BY DEF BuilderInit
<1>2. ~IsBuilt /\ built.outcome = "none" /\ clash = FALSE
  BY DEF BuilderInit, NotBuilt, IsBuilt
<1> QED
  BY <1>1, <1>2, FS_EmptySet DEF BuilderInv, BuilderTypeOK

(* They are about definitions alone. *)
LEMMA RulesKept ==
  ASSUME rewrites' = rewrites, allowed' = allowed
  PROVE  exclusionReachable' = exclusionReachable /\ (Rules' <=> Rules)
  BY DEF exclusionReachable, Rules, Edges, collectEdges, collectStoredEdges, checkShape,
         checkAllowed, checkStratified, PartOK, ArrowOK, ArrowReads, arrowTargets, Accepts,
         DependsOn, reachesWildcard, YieldEdges, Yields

LEMMA DefineKeeps ==
  ASSUME BuilderInv, NEW d \in Definitions, Define(d)
  PROVE  BuilderInv'
<1>1. /\ d.ref \in RelationRefs /\ d.accepts \subseteq SubjectTypes /\ d.rewrite \in Terms
      /\ built' = built /\ ~IsBuilt' /\ built.outcome = "none"
  BY DefinitionAssumption DEF Define, NotBuilt, IsBuilt
<1>2. CASE d.ref \in DOMAIN rewrites
  <2>1. clash' = TRUE /\ rewrites' = rewrites /\ allowed' = allowed
    BY <1>2 DEF Define
  <2> QED
    BY <1>1, <2>1 DEF BuilderInv, BuilderTypeOK
<1>3. CASE d.ref \notin DOMAIN rewrites
  <2>1. /\ rewrites' = With(rewrites, d.ref, d.rewrite)
        /\ allowed' = IF d.rewrite = This THEN With(allowed, d.ref, d.accepts) ELSE allowed
        /\ clash' = clash
    BY <1>3 DEF Define
  <2>2. /\ DOMAIN rewrites' = DOMAIN rewrites \cup {d.ref}
        /\ rewrites'[d.ref] = d.rewrite
        /\ \A r \in DOMAIN rewrites : rewrites'[r] = rewrites[r]
    BY <1>3, <2>1 DEF With
  <2>3. IsFiniteSet(DOMAIN rewrites')
    BY <2>2, FS_AddElement DEF BuilderInv
  <2>4. /\ DOMAIN allowed' = {r \in DOMAIN rewrites' : rewrites'[r] = This}
        /\ \A r \in DOMAIN allowed' : allowed'[r] \subseteq SubjectTypes
    <3>0. /\ DOMAIN allowed = {r \in DOMAIN rewrites : rewrites[r] = This}
          /\ \A r \in DOMAIN allowed : allowed[r] \subseteq SubjectTypes
      BY DEF BuilderInv, BuilderTypeOK
    <3>1. CASE d.rewrite = This
      <4>1. /\ DOMAIN allowed' = DOMAIN allowed \cup {d.ref}
            /\ allowed'[d.ref] = d.accepts
            /\ \A r \in DOMAIN allowed : r # d.ref => allowed'[r] = allowed[r]
        BY <2>1, <3>1 DEF With
      <4> QED
        BY <1>1, <1>3, <2>2, <3>0, <3>1, <4>1
    <3>2. CASE d.rewrite # This
      BY <1>3, <2>1, <2>2, <3>0, <3>2
    <3> QED
      BY <3>1, <3>2
  <2> QED
    BY <1>1, <2>1, <2>2, <2>3, <2>4 DEF BuilderInv, BuilderTypeOK
<1> QED
  BY <1>2, <1>3

LEMMA BuildKeeps ==
  ASSUME BuilderInv, Build
  PROVE  BuilderInv'
<1>1. rewrites' = rewrites /\ allowed' = allowed /\ clash' = clash
  BY DEF Build
<1>2. CASE ~clash /\ Rules
  <2>1. built' = [outcome |-> "schema",
                  schema |-> [rewrites |-> rewrites, allowed |-> allowed],
                  reachable |-> exclusionReachable]
    BY <1>2 DEF Build, Rules
  <2>2. exclusionReachable' = exclusionReachable /\ (Rules' <=> Rules)
    BY <1>1, RulesKept
  <2> QED
    BY <1>1, <1>2, <2>1, <2>2 DEF BuilderInv, BuilderTypeOK
<1>3. CASE ~(~clash /\ Rules)
  <2>1. built' = Refused
    BY <1>3 DEF Build, Rules
  <2> QED
    BY <1>1, <2>1 DEF BuilderInv, BuilderTypeOK, Refused, IsBuilt
<1> QED
  BY <1>2, <1>3

LEMMA BuilderStutters ==
  ASSUME BuilderInv, UNCHANGED builderVars
  PROVE  BuilderInv'
<1>1. rewrites' = rewrites /\ allowed' = allowed /\ clash' = clash /\ built' = built
  BY DEF builderVars
<1>2. exclusionReachable' = exclusionReachable /\ (Rules' <=> Rules)
  BY <1>1, RulesKept
<1> QED
  BY <1>1, <1>2 DEF BuilderInv, BuilderTypeOK, IsBuilt

(* The builder keeps its types, and builds by its rules (SchemaBuilder).   *)
THEOREM BuilderIsInvariant == BuilderSpec => []BuilderInv
<1>1. BuilderInv /\ [BuilderNext]_builderVars => BuilderInv'
  BY DefineKeeps, BuildKeeps, BuilderStutters DEF BuilderNext
<1> QED
  BY <1>1, BuilderStarts, PTL DEF BuilderSpec

(* SchemaBuilder: what accepts subjects is always a relation, and nothing  *)
(* but a relation that was defined.                                        *)
THEOREM BuilderIsTyped == BuilderSpec => []BuilderTypeOK
<1>1. BuilderInv => BuilderTypeOK
  BY DEF BuilderInv
<1> QED
  BY <1>1, BuilderIsInvariant, PTL

-----------------------------------------------------------------------------
(* What is refused. *)

LEMMA EdgeFrom ==
  ASSUME NEW e \in Edges
  PROVE  e.from \in DOMAIN rewrites
<1>1. PICK r \in DOMAIN rewrites : e \in collectEdges(r) \cup collectStoredEdges(r)
  BY DEF Edges
<1>2. CASE e \in collectStoredEdges(r)
  BY <1>2 DEF collectStoredEdges
<1>3. CASE e \in collectEdges(r)
  <2>1. PICK p \in Walk(rewrites[r]) :
          e \in [from : {r}, to : DependsOn(r.type, p.rw), negated : {p.negated}]
    BY <1>3 DEF collectEdges
  <2> QED
    BY <2>1
<1> QED
  BY <1>1, <1>2, <1>3

(* Levels that rise along no edge, and fall along negated ones, leave no   *)
(* loop; ... *)
LEMMA LevelsBreakLoops ==
  ASSUME NEW edges, NEW level \in [{e.from : e \in edges} \cup {e.to : e \in edges} -> Nat],
         \A e \in edges : level[e.from] >= level[e.to] + (IF e.negated THEN 1 ELSE 0)
  PROVE  NoLoop(edges)
<1> DEFINE nodes == {e.from : e \in edges} \cup {e.to : e \in edges}
<1>1. SUFFICES ASSUME NEW e \in edges, e.negated, e.from \in Reach({e.to}, edges)
               PROVE  FALSE
  BY DEF NoLoop
<1> DEFINE low == {r \in nodes : level[r] <= level[e.to]}
<1>2. \A d \in edges : /\ d.from \in nodes /\ d.to \in nodes
                       /\ level[d.from] \in Nat /\ level[d.to] \in Nat
                       /\ level[d.from] >= level[d.to]
  OBVIOUS
<1>3. {e.to} \subseteq low
  BY <1>2
<1>4. Closed(low, edges)
  BY <1>2 DEF Closed
<1> HIDE DEF low
<1>5. e.from \in low
  BY <1>1, <1>3, <1>4, ReachIs
<1> QED
  BY <1>1, <1>2, <1>5 DEF low

(* SchemaBuilder: Build refuses a loop through a subtract side, and        *)
(* nothing else for one, however the definitions came.                     *)
THEOREM BuildRefusesLoops == BuilderSpec => []RefusesOnlyLoops
<1>1. BuilderInv => RefusesOnlyLoops
  <2> DEFINE nodes == {e.from : e \in Edges} \cup {e.to : e \in Edges}
             Leads(level) == \A e \in Edges :
               level[e.from] >= level[e.to] + (IF e.negated THEN 1 ELSE 0)
  <2> SUFFICES ASSUME BuilderInv PROVE RefusesOnlyLoops
    OBVIOUS
  <2>1. checkStratified <=> NoLoop(Edges)
    BY DEF checkStratified, NoLoop
  <2>2. IsFiniteSet(DOMAIN rewrites) /\ \A e \in Edges : e.from \in DOMAIN rewrites
    BY EdgeFrom DEF BuilderInv
  <2>3. Levels \subseteq Nat
    BY DEF Levels
  <2>4. ASSUME NoLoop(Edges)
        PROVE  \E level \in [nodes -> Levels] : Leads(level)
    <3> DEFINE level == [r \in nodes |-> Rank(r, Edges, DOMAIN rewrites)]
    <3>1. /\ \A r : Rank(r, Edges, DOMAIN rewrites) \in Levels
          /\ \A e \in Edges :
               /\ Rank(e.to, Edges, DOMAIN rewrites) <= Rank(e.from, Edges, DOMAIN rewrites)
               /\ e.negated =>
                    Rank(e.to, Edges, DOMAIN rewrites) < Rank(e.from, Edges, DOMAIN rewrites)
      BY <2>2, <2>4, RankFalls DEF Levels
    <3>2. level \in [nodes -> Levels]
      BY <3>1
    <3>3. \A e \in Edges : /\ level[e.from] = Rank(e.from, Edges, DOMAIN rewrites)
                           /\ level[e.to] = Rank(e.to, Edges, DOMAIN rewrites)
                           /\ level[e.from] \in Nat /\ level[e.to] \in Nat
      BY <2>3, <3>1
    <3> HIDE DEF level
    <3>4. Leads(level)
      BY <3>1, <3>3
    <3> QED
      BY <3>2, <3>4
  <2>5. ASSUME NEW level \in [nodes -> Levels], Leads(level)
        PROVE  NoLoop(Edges)
    <3>1. level \in [nodes -> Nat]
      BY <2>3
    <3> QED
      BY <2>5, <3>1, LevelsBreakLoops
  <2> QED
    BY <2>1, <2>4, <2>5 DEF RefusesOnlyLoops
<1> QED
  BY <1>1, BuilderIsInvariant, PTL

-----------------------------------------------------------------------------
(* The claims a schema makes. *)

(* x is asked of what is defined. *)
Asks(x) ==
  /\ x.schema.rewrites = rewrites /\ x.schema.allowed = allowed
  /\ x.tuples \subseteq Tuples

(* The rewrites below a ref's own, that one included. *)
PartOf(ref, rw) == \E p \in Walk(rewrites[ref]) : p.rw = rw

Claims ==
  {c \in [rw : Terms, key : Keys] :
     RefOf(c.key) \in DOMAIN rewrites /\ PartOf(RefOf(c.key), c.rw)}

LEMMA ClaimsAreFinite == IsFiniteSet(Claims)
<1> DEFINE Pairs == Terms \X Keys
           All   == [rw : Terms, key : Keys]
           f     == [pair \in Pairs |-> Claim(pair[1], pair[2])]
<1>1. IsFiniteSet(Pairs)
  BY TermAssumption, KeyAssumption, FS_Product
<1>2. f \in [Pairs -> All]
  BY DEF Claim
<1>3. ASSUME NEW c \in All PROVE \E pair \in Pairs : f[pair] = c
  <2>1. <<c.rw, c.key>> \in Pairs
    OBVIOUS
  <2>2. f[<<c.rw, c.key>>] = c
    BY <2>1 DEF Claim
  <2> QED
    BY <2>1, <2>2
<1>4. f \in Surjection(Pairs, All)
  BY <1>2, <1>3 DEF Surjection
<1> HIDE DEF Pairs, All, f
<1>5. IsFiniteSet(All)
  BY <1>1, <1>4, FS_Surjection
<1>6. Claims \in SUBSET All
  BY DEF Claims, All
<1> QED
  BY <1>5, <1>6, FS_Subset

(* A walk meets all that is below, ... *)
LEMMA WalkGoesOn ==
  ASSUME NEW rw \in Terms, NEW p \in Walk(rw), p.rw.op \in Composite,
         NEW i \in DOMAIN p.rw.children
  PROVE  /\ p.rw.children[i] \in Terms
         /\ Part(p.rw.children[i], p.negated \/ (p.rw.op = "exclusion" /\ i = 2)) \in Walk(rw)
<1>1. p.rw \in Terms /\ Operands(p) \subseteq Walk(rw)
  BY WalkAssumption
<1>2. p.rw.children \in Seq(Terms)
  BY <1>1, TermAssumption
<1>3. Part(p.rw.children[i], p.negated \/ (p.rw.op = "exclusion" /\ i = 2)) \in Operands(p)
  BY DEF Operands
<1> QED
  BY <1>1, <1>2, <1>3

(* ... and nothing below a leaf. *)
LEMMA WalkStops ==
  ASSUME NEW rw \in Terms, rw.op \notin Composite
  PROVE  Walk(rw) = {Part(rw, FALSE)}
<1>1. Operands(Part(rw, FALSE)) = {}
  BY DEF Operands, Part
<1>2. Part(rw, FALSE) \in Walk(rw)
  BY WalkAssumption
<1>3. ASSUME NEW p \in Walk(rw) PROVE p = Part(rw, FALSE)
  <2>1. \/ p = Part(rw, FALSE)
        \/ \E o \in Operands(Part(rw, FALSE)) : \E q \in Walk(o.rw) :
             p = Part(q.rw, o.negated \/ q.negated)
    BY WalkAssumption
  <2> QED
    BY <1>1, <2>1
<1> QED
  BY <1>2, <1>3

LEMMA KeyIs ==
  ASSUME NEW k \in Keys
  PROVE  /\ RefOf(k) \in RelationRefs
         /\ RefOf(k).type = TypeOf[k.object] /\ RefOf(k).relation = k.relation
         /\ k.object \in Objects /\ k.relation \in Relations
         /\ \A rel : On(RefOf(k).type, rel) = RefOf(Key(k.object, rel))
  BY ObjectAssumption DEF Keys, RefOf, RelationRefs, On, Key

(* What a claim is made of has the shape that Build checks. *)
LEMMA ClaimShape ==
  ASSUME BuilderInv, Rules, NEW c \in Claims
  PROVE  /\ c.key \in Keys /\ c.rw \in Terms
         /\ RefOf(c.key) \in DOMAIN rewrites
         /\ rewrites[RefOf(c.key)] \in Terms
         /\ c = Claim(c.rw, c.key)
         /\ \/ c.rw = This /\ rewrites[RefOf(c.key)] = This
            \/ /\ c.rw.op # "this" /\ rewrites[RefOf(c.key)] # This
               /\ PartOK(RefOf(c.key).type, c.rw)
<1>1. /\ c \in [rw : Terms, key : Keys]
      /\ RefOf(c.key) \in DOMAIN rewrites /\ PartOf(RefOf(c.key), c.rw)
  BY DEF Claims
<1>2. PICK p \in Walk(rewrites[RefOf(c.key)]) : p.rw = c.rw
  BY <1>1 DEF PartOf
<1>3. rewrites[RefOf(c.key)] \in Terms /\ checkShape(RefOf(c.key))
  BY <1>1 DEF BuilderInv, Rules
<1>4. CASE rewrites[RefOf(c.key)] = This
  <2>1. This.op \notin Composite
    BY DEF This, Composite
  <2>2. Walk(This) = {Part(This, FALSE)}
    BY <1>3, <1>4, <2>1, WalkStops
  <2>3. c.rw = This
    BY <1>2, <1>4, <2>2 DEF Part
  <2> QED
    BY <1>1, <1>3, <1>4, <2>3 DEF Claim
<1>5. CASE rewrites[RefOf(c.key)] # This
  <2>1. PartOK(RefOf(c.key).type, c.rw)
    BY <1>2, <1>3, <1>5 DEF checkShape
  <2>2. c.rw.op # "this"
    BY <2>1 DEF PartOK, Composite
  <2> QED
    BY <1>1, <1>3, <1>5, <2>1, <2>2 DEF Claim
<1> QED
  BY <1>4, <1>5

(* What a tuple on a ref may point at, and where an arrow leads. *)
LEMMA EdgesAre ==
  ASSUME NEW ref \in DOMAIN rewrites, NEW to
  PROVE  /\ to \in Accepts(ref) \cap RelationRefs =>
              [from |-> ref, to |-> to, negated |-> FALSE] \in Edges
         /\ \A p \in Walk(rewrites[ref]) :
              to \in DependsOn(ref.type, p.rw) =>
                [from |-> ref, to |-> to, negated |-> p.negated] \in Edges
<1>1. ASSUME to \in Accepts(ref) \cap RelationRefs
      PROVE  [from |-> ref, to |-> to, negated |-> FALSE] \in Edges
  <2>1. [from |-> ref, to |-> to, negated |-> FALSE] \in collectStoredEdges(ref)
    BY <1>1 DEF collectStoredEdges
  <2> QED
    BY <2>1 DEF Edges
<1>2. ASSUME NEW p \in Walk(rewrites[ref]), to \in DependsOn(ref.type, p.rw)
      PROVE  [from |-> ref, to |-> to, negated |-> p.negated] \in Edges
  <2>1. [from |-> ref, to |-> to, negated |-> p.negated] \in
          [from : {ref}, to : DependsOn(ref.type, p.rw), negated : {p.negated}]
    BY <1>2
  <2>2. [from |-> ref, to |-> to, negated |-> p.negated] \in collectEdges(ref)
    BY <2>1 DEF collectEdges
  <2> QED
    BY <2>2 DEF Edges
<1> QED
  BY <1>1, <1>2

(* What a claim reads is on refs that its own depends on, and these are    *)
(* defined. *)
LEMMA ReadsLead ==
  ASSUME BuilderInv, Rules, NEW x, Asks(x), NEW c \in Claims, NEW k \in Reads(x, c)
  PROVE  /\ k \in Keys /\ RefOf(k) \in DOMAIN rewrites
         /\ c.rw.op = "this" => RefOf(k) \in Accepts(RefOf(c.key)) \cap RelationRefs
         /\ c.rw.op # "this" => /\ RefOf(k) \in Yields(RefOf(c.key).type, c.rw)
                               /\ RefOf(k) \in DependsOn(RefOf(c.key).type, c.rw)
<1> DEFINE ref == RefOf(c.key)
<1>1. /\ c.key \in Keys /\ ref \in DOMAIN rewrites
      /\ \/ c.rw = This /\ rewrites[ref] = This
         \/ c.rw.op # "this" /\ PartOK(ref.type, c.rw)
  BY ClaimShape
<1>2. /\ x.schema.rewrites = rewrites /\ x.schema.allowed = allowed /\ x.tuples \subseteq Tuples
      /\ \A r : Accepted(x.schema, r) = Accepts(r)
  BY DEF Asks, Accepted, Accepts
<1>3. \A t \in x.tuples : t.key \in Keys /\ t.subject \in Subjects
  BY <1>2 DEF Tuples
<1>4. DOMAIN rewrites \subseteq RelationRefs
  BY DEF BuilderInv, BuilderTypeOK
<1>5. CASE c.rw = This
  <2>1. k \in {t.subject : t \in {t \in x.tuples :
            /\ t.key = c.key /\ t.subject \in Keys
            /\ Allows(x.schema, RefOf(t.key), RefOf(t.subject))}}
    BY <1>5 DEF Reads, This
  <2>2. k \in Keys /\ RefOf(k) \in Accepts(ref) /\ c.rw.op = "this"
    BY <1>2, <1>5, <2>1 DEF Allows, This
  <2>3. RefOf(k) \in RelationRefs
    BY <2>2, KeyIs
  <2>4. checkAllowed(ref) /\ rewrites[ref] = This
    BY <1>1, <1>5 DEF Rules, This
  <2>5. RefOf(k) \in DOMAIN rewrites
    BY <2>2, <2>3, <2>4 DEF checkAllowed
  <2> QED
    BY <2>2, <2>3, <2>5
<1>6. CASE c.rw.op = "computed_userset"
  <2>1. k = Key(c.key.object, c.rw.relation)
    BY <1>6 DEF Reads
  <2>2. On(ref.type, c.rw.relation) \in DOMAIN rewrites
    <3>1. PartOK(ref.type, c.rw)
      BY <1>1, <1>6 DEF This
    <3> QED
      BY <1>6, <3>1 DEF PartOK, Composite
  <2>3. c.rw.relation \in Relations
    BY <1>4, <2>2 DEF On, RelationRefs
  <2>4. k \in Keys /\ RefOf(k) = On(ref.type, c.rw.relation)
    BY <1>1, <2>1, <2>3, KeyIs DEF Keys, Key
  <2> QED
    BY <1>6, <2>2, <2>4 DEF DependsOn, Yields
<1>7. CASE c.rw.op = "tuple_to_userset"
  <2>1. /\ On(ref.type, c.rw.tupleset) \in DOMAIN rewrites
        /\ arrowTargets(On(ref.type, c.rw.tupleset), c.rw.relation) # {}
    <3>1. PartOK(ref.type, c.rw)
      BY <1>1, <1>7 DEF This
    <3>2. ArrowOK(ref.type, c.rw)
      BY <1>7, <3>1 DEF PartOK, Composite
    <3> QED
      BY <3>2 DEF ArrowOK
  <2>2. c.rw.relation \in Relations
    BY <1>4, <2>1 DEF arrowTargets, RelationRefs
  <2>3. k \in {j \in {Key(t.subject, c.rw.relation) : t \in {t \in x.tuples :
            /\ t.key = Key(c.key.object, c.rw.tupleset) /\ t.subject \in Objects
            /\ Allows(x.schema, RefOf(t.key), TypeOf[t.subject])}} :
              RefOf(j) \in Defined(x.schema)}
    BY <1>7 DEF Reads
  <2>4. PICK t \in x.tuples :
          /\ t.key = Key(c.key.object, c.rw.tupleset) /\ t.subject \in Objects
          /\ Allows(x.schema, RefOf(t.key), TypeOf[t.subject])
          /\ k = Key(t.subject, c.rw.relation)
    BY <2>3
  <2>5. k \in Keys /\ RefOf(k) \in DOMAIN rewrites
    BY <1>2, <2>2, <2>3, <2>4 DEF Keys, Key, Defined
  <2>6. RefOf(t.key) = On(ref.type, c.rw.tupleset)
    BY <1>1, <2>4, KeyIs
  <2>7. RefOf(k).relation = c.rw.relation /\ RefOf(k).type = TypeOf[t.subject]
    BY <2>4 DEF RefOf, Key
  <2>8. RefOf(k).type \in Accepts(On(ref.type, c.rw.tupleset))
    BY <1>2, <2>4, <2>6, <2>7 DEF Allows
  <2>9. RefOf(k) \in arrowTargets(On(ref.type, c.rw.tupleset), c.rw.relation)
    BY <2>5, <2>7, <2>8 DEF arrowTargets
  <2> QED
    BY <1>7, <2>5, <2>9 DEF DependsOn, ArrowReads, Yields
<1>8. CASE c.rw.op \in Composite
  BY <1>8 DEF Reads, Composite
<1>9. \/ c.rw = This
      \/ c.rw.op \in {"computed_userset", "tuple_to_userset"} \cup Composite
  BY <1>1 DEF PartOK, Composite
<1> QED
  BY <1>5, <1>6, <1>7, <1>8, <1>9

(* The claims of a built schema are well formed, ... *)
LEMMA ClaimsAreFormed ==
  ASSUME BuilderInv, Rules, NEW x, Asks(x), NEW c \in Claims
  PROVE  WellFormed(x, c)
<1>1. /\ c.key \in Keys /\ c.rw \in Terms
      /\ c.rw = This \/ (c.rw.op # "this" /\ PartOK(RefOf(c.key).type, c.rw))
  BY ClaimShape
<1>2. c.rw.op \in {"this", "computed_userset", "tuple_to_userset"} \cup Composite
  <2>1. CASE c.rw = This
    BY <2>1 DEF This
  <2>2. CASE c.rw.op # "this" /\ PartOK(RefOf(c.key).type, c.rw)
    BY <2>2 DEF PartOK, Composite
  <2> QED
    BY <1>1, <2>1, <2>2
<1>3. ASSUME c.rw.op \in Composite
      PROVE  /\ DOMAIN c.rw.children = 1 .. Len(c.rw.children)
             /\ Len(c.rw.children) >= 2
             /\ c.rw.op = "exclusion" => Len(c.rw.children) = 2
  <2>1. PartOK(RefOf(c.key).type, c.rw)
    BY <1>1, <1>3 DEF This, Composite
  <2>2. /\ Len(c.rw.children) >= 2
        /\ c.rw.op = "exclusion" => Len(c.rw.children) = 2
    BY <1>3, <2>1 DEF PartOK, Composite
  <2>3. c.rw.children \in Seq(Terms)
    BY <1>1, <1>3, TermAssumption
  <2> QED
    BY <2>2, <2>3
<1>4. \A k \in Reads(x, c) : k \in Keys /\ RefOf(k) \in Defined(x.schema)
  BY ReadsLead DEF Asks, Defined
<1>5. c.rw.op = "exclusion" => c.rw.op \in Composite
  BY DEF Composite
<1> QED
  BY <1>1, <1>2, <1>3, <1>4, <1>5 DEF WellFormed

(* ... and made of claims of the schema. *)
LEMMA SaysIsClaim ==
  ASSUME BuilderInv, NEW x, Asks(x), NEW k \in Keys, RefOf(k) \in DOMAIN rewrites
  PROVE  Says(x.schema, k) \in Claims /\ Says(x.schema, k).key = k
<1>1. Says(x.schema, k) = [rw |-> rewrites[RefOf(k)], key |-> k]
  BY DEF Says, Claim, Asks
<1>2. rewrites[RefOf(k)] \in Terms
  BY DEF BuilderInv
<1>3. Part(rewrites[RefOf(k)], FALSE) \in Walk(rewrites[RefOf(k)])
  BY <1>2, WalkAssumption
<1>4. PartOf(RefOf(k), rewrites[RefOf(k)])
  BY <1>3 DEF PartOf, Part
<1> QED
  BY <1>1, <1>2, <1>4 DEF Claims

LEMMA ChildIsClaim ==
  ASSUME BuilderInv, NEW c \in Claims, c.rw.op \in Composite, NEW i \in DOMAIN c.rw.children
  PROVE  /\ Child(c, i) \in Claims
         /\ Child(c, i).key = c.key /\ Child(c, i).rw = c.rw.children[i]
<1>1. /\ c.key \in Keys /\ RefOf(c.key) \in DOMAIN rewrites /\ PartOf(RefOf(c.key), c.rw)
      /\ rewrites[RefOf(c.key)] \in Terms
  BY DEF Claims, BuilderInv
<1>2. PICK p \in Walk(rewrites[RefOf(c.key)]) : p.rw = c.rw
  BY <1>1 DEF PartOf
<1>3. PICK n : /\ p.rw.children[i] \in Terms
               /\ Part(p.rw.children[i], n) \in Walk(rewrites[RefOf(c.key)])
  BY <1>1, <1>2, WalkGoesOn
<1>4. Child(c, i) = [rw |-> c.rw.children[i], key |-> c.key]
  BY DEF Child, Claim
<1>5. PartOf(RefOf(c.key), c.rw.children[i])
  BY <1>2, <1>3 DEF PartOf, Part
<1> QED
  BY <1>1, <1>2, <1>3, <1>4, <1>5 DEF Claims

LEMMA SubclaimIs ==
  ASSUME BuilderInv, Rules, NEW x, Asks(x), NEW c \in Claims, NEW d \in Subclaims(x, c)
  PROVE  /\ d \in Claims
         /\ \/ RefOf(d.key) \in DOMAIN rewrites /\ \E k \in Reads(x, c) : d = Says(x.schema, k) /\ d.key = k
            \/ /\ c.rw.op \in Composite /\ d.key = c.key
               /\ \E i \in DOMAIN c.rw.children : d = Child(c, i)
<1>1. CASE \E k \in Reads(x, c) : d = Says(x.schema, k)
  <2>1. PICK k \in Reads(x, c) : d = Says(x.schema, k)
    BY <1>1
  <2>2. k \in Keys /\ RefOf(k) \in DOMAIN rewrites
    BY ReadsLead
  <2> QED
    BY <2>1, <2>2, SaysIsClaim
<1>2. CASE c.rw.op \in Composite /\ \E i \in DOMAIN c.rw.children : d = Child(c, i)
  BY <1>2, ChildIsClaim
<1>3. \/ \E k \in Reads(x, c) : d = Says(x.schema, k)
      \/ c.rw.op \in Composite /\ \E i \in DOMAIN c.rw.children : d = Child(c, i)
  BY DEF Subclaims
<1> QED
  BY <1>1, <1>2, <1>3

-----------------------------------------------------------------------------
(* The levels of claims. *)

ClaimEdges(x) ==
  {e \in [from : Claims, to : Claims, negated : BOOLEAN] :
     /\ e.to \in Subclaims(x, e.from)
     /\ e.negated <=> e.from.rw.op = "exclusion" /\ e.to = Child(e.from, 2)}

(* What the subtract side of c leads to: parts of it, ... *)
Beneath(c) ==
  {d \in Claims :
     /\ d.key = c.key
     /\ Part(d.rw, TRUE) \in Walk(rewrites[RefOf(c.key)])
     /\ \E p \in Walk(c.rw.children[2]) : p.rw = d.rw}

(* ... and claims on refs it reaches. *)
Behind(c) ==
  {d \in Claims :
     \E e \in Edges : /\ e.negated /\ e.from = RefOf(c.key)
                     /\ RefOf(d.key) \in Reach({e.to}, Edges)}

LEMMA ExclusionHasSides ==
  ASSUME BuilderInv, Rules, NEW c \in Claims, c.rw.op = "exclusion"
  PROVE  /\ 1 \in DOMAIN c.rw.children /\ 2 \in DOMAIN c.rw.children
         /\ c.rw.op \in Composite /\ c.rw.children[2] \in Terms
<1>1. c.rw.op \in Composite /\ c.rw \in Terms
  BY ClaimShape DEF Composite
<1>2. PartOK(RefOf(c.key).type, c.rw)
  BY ClaimShape DEF This
<1>3. Len(c.rw.children) = 2
  BY <1>1, <1>2 DEF PartOK, Composite
<1>4. c.rw.children \in Seq(Terms)
  BY <1>1, TermAssumption
<1> QED
  BY <1>1, <1>3, <1>4

(* Nothing leads out of there, ... *)
LEMMA BehindIsClosed ==
  ASSUME BuilderInv, Rules, NEW x, Asks(x), NEW c \in Claims,
         NEW d \in Behind(c), NEW e \in Subclaims(x, d)
  PROVE  e \in Behind(c)
<1>1. d \in Claims /\ e \in Claims
  BY SubclaimIs DEF Behind
<1>2. PICK n \in Edges : /\ n.negated /\ n.from = RefOf(c.key)
                        /\ RefOf(d.key) \in Reach({n.to}, Edges)
  BY DEF Behind
<1>3. CASE e.key = d.key
  BY <1>1, <1>2, <1>3 DEF Behind
<1>4. CASE \E k \in Reads(x, d) : e = Says(x.schema, k) /\ e.key = k
  <2>1. PICK k \in Reads(x, d) : e.key = k
    BY <1>4
  <2>2. /\ d.rw.op = "this" => RefOf(k) \in Accepts(RefOf(d.key)) \cap RelationRefs
        /\ d.rw.op # "this" => RefOf(k) \in DependsOn(RefOf(d.key).type, d.rw)
    BY <1>1, ReadsLead
  <2>3. /\ RefOf(d.key) \in DOMAIN rewrites
        /\ \E p \in Walk(rewrites[RefOf(d.key)]) : p.rw = d.rw
    BY <1>1 DEF Claims, PartOf
  <2>4. PICK m : [from |-> RefOf(d.key), to |-> RefOf(k), negated |-> m] \in Edges
    BY <2>2, <2>3, EdgesAre
  <2>5. Closed(Reach({n.to}, Edges), Edges)
    BY ReachIs
  <2>6. RefOf(k) \in Reach({n.to}, Edges)
    BY <1>2, <2>4, <2>5 DEF Closed
  <2> QED
    BY <1>1, <1>2, <2>1, <2>6 DEF Behind
<1> QED
  BY <1>1, <1>3, <1>4, SubclaimIs

LEMMA BeneathIsClosed ==
  ASSUME BuilderInv, Rules, NEW x, Asks(x), NEW c \in Claims, c.rw.op = "exclusion",
         NEW d \in Beneath(c), NEW e \in Subclaims(x, d)
  PROVE  e \in Beneath(c) \cup Behind(c)
<1> DEFINE ref == RefOf(c.key)
<1>1. /\ d \in Claims /\ e \in Claims /\ d.key = c.key /\ ref \in DOMAIN rewrites
      /\ rewrites[ref] \in Terms /\ c.rw.children[2] \in Terms
      /\ Part(d.rw, TRUE) \in Walk(rewrites[ref])
  BY SubclaimIs, ClaimShape, ExclusionHasSides DEF Beneath
<1>2. PICK p \in Walk(c.rw.children[2]) : p.rw = d.rw
  BY DEF Beneath
<1>3. CASE d.rw.op \in Composite /\ \E i \in DOMAIN d.rw.children : e = Child(d, i)
  <2>1. PICK i \in DOMAIN d.rw.children : e = Child(d, i)
    BY <1>3
  <2>2. e.key = c.key /\ e.rw = d.rw.children[i]
    BY <1>1, <1>3, <2>1, ChildIsClaim
  <2>3. Part(e.rw, TRUE) \in Walk(rewrites[ref])
    <3>1. Part(d.rw, TRUE).rw = d.rw /\ Part(d.rw, TRUE).negated = TRUE
      BY DEF Part
    <3>2. Part(d.rw.children[i], TRUE \/ (d.rw.op = "exclusion" /\ i = 2)) \in Walk(rewrites[ref])
      BY <1>1, <1>3, <3>1, WalkGoesOn
    <3> QED
      BY <2>2, <3>2
  <2>4. \E q \in Walk(c.rw.children[2]) : q.rw = e.rw
    <3>1. PICK n : Part(p.rw.children[i], n) \in Walk(c.rw.children[2])
      BY <1>1, <1>2, <1>3, WalkGoesOn
    <3> QED
      BY <1>2, <2>2, <3>1 DEF Part
  <2> QED
    BY <1>1, <2>2, <2>3, <2>4 DEF Beneath
<1>4. CASE \E k \in Reads(x, d) : e = Says(x.schema, k) /\ e.key = k
  <2>1. PICK k \in Reads(x, d) : e.key = k
    BY <1>4
  <2>2. rewrites[ref] # This
    <3>1. c.rw # This
      BY DEF This
    <3> QED
      BY <3>1, ClaimShape
  <2>3. d.rw.op # "this"
    BY <1>1, <2>2, ClaimShape
  <2>4. RefOf(k) \in DependsOn(ref.type, d.rw)
    BY <1>1, <2>3, ReadsLead
  <2>5. [from |-> ref, to |-> RefOf(k), negated |-> TRUE] \in Edges
    BY <1>1, <2>4, EdgesAre DEF Part
  <2>6. RefOf(k) \in Reach({RefOf(k)}, Edges)
    BY ReachIs
  <2> QED
    BY <1>1, <2>1, <2>5, <2>6 DEF Behind
<1> QED
  BY <1>1, <1>3, <1>4, SubclaimIs

(* ... and the claim itself is not there: a rewrite is no part of its own  *)
(* subtract side, and checkStratified keeps its ref from being reached.    *)
LEMMA ClaimNotBehind ==
  ASSUME BuilderInv, Rules, NEW c \in Claims, c.rw.op = "exclusion"
  PROVE  /\ c \notin Beneath(c) \cup Behind(c)
         /\ Child(c, 2) \in Beneath(c)
<1>1. /\ 2 \in DOMAIN c.rw.children /\ c.rw.op \in Composite /\ c.rw \in Terms
      /\ c.rw.children[2] \in Terms /\ rewrites[RefOf(c.key)] \in Terms
      /\ PartOf(RefOf(c.key), c.rw)
  BY ExclusionHasSides, ClaimShape DEF Claims
<1>2. PICK p \in Walk(rewrites[RefOf(c.key)]) : p.rw = c.rw
  BY <1>1 DEF PartOf
<1>3. c \notin Behind(c)
  BY DEF Behind, Rules, checkStratified
<1>4. c \notin Beneath(c)
  <2>1. Part(c.rw.children[2], FALSE \/ (c.rw.op = "exclusion" /\ 2 = 2)) \in
          Operands(Part(c.rw, FALSE))
    <3>1. Part(c.rw, FALSE).rw = c.rw /\ Part(c.rw, FALSE).negated = FALSE
      BY DEF Part
    <3> QED
      BY <1>1, <3>1 DEF Operands
  <2>2. \A q \in Walk(c.rw.children[2]) : q.rw # c.rw
    <3>1. \A o \in Operands(Part(c.rw, FALSE)) : \A q \in Walk(o.rw) : q.rw # c.rw
      BY <1>1, WalkAssumption
    <3> QED
      BY <2>1, <3>1 DEF Part
  <2> QED
    BY <2>2 DEF Beneath
<1>5. Child(c, 2) \in Beneath(c)
  <2>1. /\ Child(c, 2) \in Claims /\ Child(c, 2).key = c.key
        /\ Child(c, 2).rw = c.rw.children[2]
    BY <1>1, ChildIsClaim
  <2>2. Part(p.rw.children[2], p.negated \/ (p.rw.op = "exclusion" /\ 2 = 2)) \in
          Walk(rewrites[RefOf(c.key)])
    BY <1>1, <1>2, WalkGoesOn
  <2>3. (p.negated \/ (p.rw.op = "exclusion" /\ 2 = 2)) = TRUE
    <3>1. p.negated \in BOOLEAN
      BY <1>1, WalkAssumption
    <3> QED
      BY <1>2, <3>1
  <2>4. Part(c.rw.children[2], TRUE) \in Walk(rewrites[RefOf(c.key)])
    BY <1>2, <2>2, <2>3
  <2>5. \E q \in Walk(c.rw.children[2]) : q.rw = c.rw.children[2]
    <3>1. Part(c.rw.children[2], FALSE) \in Walk(c.rw.children[2])
      BY <1>1, WalkAssumption
    <3> QED
      BY <3>1 DEF Part
  <2> QED
    BY <2>1, <2>4, <2>5 DEF Beneath
<1> QED
  BY <1>3, <1>4, <1>5

(* So no claim depends on what subtracts it. *)
LEMMA ClaimsDoNotLoop ==
  ASSUME BuilderInv, Rules, NEW x, Asks(x)
  PROVE  NoLoop(ClaimEdges(x))
<1>1. SUFFICES ASSUME NEW e \in ClaimEdges(x), e.negated
               PROVE  e.from \notin Reach({e.to}, ClaimEdges(x))
  BY DEF NoLoop
<1>2. PICK c \in Claims : c = e.from /\ c.rw.op = "exclusion" /\ e.to = Child(c, 2)
  BY <1>1 DEF ClaimEdges
<1> DEFINE there == Beneath(c) \cup Behind(c)
<1>3. {e.to} \subseteq there /\ c \notin there
  BY <1>2, ClaimNotBehind
<1>4. Closed(there, ClaimEdges(x))
  <2>1. SUFFICES ASSUME NEW d \in there, NEW f \in Subclaims(x, d) PROVE f \in there
    BY DEF Closed, ClaimEdges
  <2> QED
    BY <1>2, <2>1, BeneathIsClosed, BehindIsClosed
<1> HIDE DEF there
<1>5. Reach({e.to}, ClaimEdges(x)) \subseteq there
  BY <1>3, <1>4, ReachIs
<1> QED
  BY <1>2, <1>3, <1>5

(* Levels for claims: none is below what it is made of, and an exclusion   *)
(* is above what it subtracts.                                             *)
Leveled(x, level) ==
  /\ level \in [Claims -> 0 .. Cardinality(Claims)]
  /\ \A c \in Claims :
       /\ WellFormed(x, c)
       /\ Subclaims(x, c) \subseteq Claims
       /\ \A d \in Subclaims(x, c) : level[d] <= level[c]
       /\ c.rw.op = "exclusion" => /\ Child(c, 2) \in Subclaims(x, c)
                                  /\ level[Child(c, 2)] < level[c]

LEMMA ClaimsHaveLevels ==
  ASSUME BuilderInv, Rules, NEW x, Asks(x)
  PROVE  \E level : Leveled(x, level)
<1> DEFINE rank(c) == Rank(c, ClaimEdges(x), Claims)
           level   == [c \in Claims |-> rank(c)]
<1>1. /\ \A c : rank(c) \in 0 .. Cardinality(Claims)
      /\ \A e \in ClaimEdges(x) :
           /\ rank(e.to) <= rank(e.from)
           /\ e.negated => rank(e.to) < rank(e.from)
  <2>1. \A e \in ClaimEdges(x) : e.from \in Claims
    BY DEF ClaimEdges
  <2> QED
    BY <2>1, ClaimsDoNotLoop, ClaimsAreFinite, RankFalls
<1> HIDE DEF rank
<1>2. ASSUME NEW c \in Claims
      PROVE  /\ WellFormed(x, c)
             /\ Subclaims(x, c) \subseteq Claims
             /\ \A d \in Subclaims(x, c) : rank(d) <= rank(c)
             /\ c.rw.op = "exclusion" => /\ Child(c, 2) \in Subclaims(x, c)
                                        /\ rank(Child(c, 2)) < rank(c)
  <2>1. WellFormed(x, c) /\ Subclaims(x, c) \subseteq Claims
    BY ClaimsAreFormed, SubclaimIs
  <2>2. ASSUME NEW d \in Subclaims(x, c)
        PROVE  /\ rank(d) <= rank(c)
               /\ c.rw.op = "exclusion" /\ d = Child(c, 2) => rank(d) < rank(c)
    <3> DEFINE e == [from |-> c, to |-> d,
                     negated |-> c.rw.op = "exclusion" /\ d = Child(c, 2)]
    <3>1. e \in ClaimEdges(x)
      BY <2>1 DEF ClaimEdges
    <3> QED
      BY <1>1, <3>1
  <2>3. c.rw.op = "exclusion" => Child(c, 2) \in Subclaims(x, c)
    BY ExclusionHasSides DEF Subclaims
  <2> QED
    BY <2>1, <2>2, <2>3
<1>3. level \in [Claims -> 0 .. Cardinality(Claims)]
  BY <1>1
<1>4. \A c \in Claims : level[c] = rank(c)
  OBVIOUS
<1> HIDE DEF level
<1>5. Leveled(x, level)
  BY <1>2, <1>3, <1>4 DEF Leveled
<1> QED
  BY <1>5

-----------------------------------------------------------------------------
(* The stages of claims, level by level. *)

(* What c is made of and stages grant, and what they grant before c. *)
HeldIn(x, stage, c)  == {d \in Subclaims(x, c) : stage[d] > 0}
SinceIn(x, stage, c) == {d \in HeldIn(x, stage, c) : stage[d] < stage[c]}

Justified(x, stage, c) ==
  stage[c] > 0 =>
    Follows(x, c, SinceIn(x, stage, c), Subclaims(x, c) \ HeldIn(x, stage, c))

Complete(x, stage, c) ==
  Follows(x, c, HeldIn(x, stage, c), Subclaims(x, c) \ HeldIn(x, stage, c)) => stage[c] > 0

Granted(stage) == {c \in Claims : stage[c] > 0}

(* No stage is above the number of claims granted. *)
Numbered(stage) ==
  stage \in [Claims -> Nat] /\ \A c \in Claims : stage[c] <= Cardinality(Granted(stage))

(* The stages of the levels below n; nothing else is granted. *)
StagesBelow(x, level, n, stage) ==
  /\ Numbered(stage)
  /\ \A c \in Claims : IF level[c] < n THEN Justified(x, stage, c) /\ Complete(x, stage, c)
                        ELSE stage[c] = 0

LEMMA GrantedIs ==
  ASSUME NEW stage \in [Claims -> Nat]
  PROVE  /\ IsFiniteSet(Granted(stage)) /\ Cardinality(Granted(stage)) \in Nat
         /\ Cardinality(Granted(stage)) <= Cardinality(Claims) /\ Cardinality(Claims) \in Nat
<1>1. Granted(stage) \in SUBSET Claims
  BY DEF Granted
<1>2. IsFiniteSet(Granted(stage)) /\ Cardinality(Granted(stage)) <= Cardinality(Claims)
  BY <1>1, ClaimsAreFinite, FS_Subset
<1> QED
  BY <1>2, ClaimsAreFinite, FS_CardinalityType

(* A claim follows from more, but for what it subtracts. *)
LEMMA FollowsFromMore ==
  ASSUME NEW x, NEW c, NEW held, NEW more, NEW others, NEW fewer,
         held \subseteq more,
         c.rw.op = "exclusion" => (Child(c, 2) \in others => Child(c, 2) \in fewer),
         Follows(x, c, held, others)
  PROVE  Follows(x, c, more, fewer)
<1>1. CASE c.rw.op = "intersection"
  BY <1>1 DEF Follows
<1>2. CASE c.rw.op = "exclusion"
  BY <1>2 DEF Follows
<1>3. CASE c.rw.op # "intersection" /\ c.rw.op # "exclusion"
  BY <1>3 DEF Follows
<1> QED
  BY <1>1, <1>2, <1>3

(* Stages that agree on what a claim is made of, and on the claim, agree   *)
(* on how it is granted. *)
LEMMA AgreeBelow ==
  ASSUME NEW x, NEW c, NEW stage, NEW other, other[c] = stage[c],
         \A d \in Subclaims(x, c) : other[d] = stage[d]
  PROVE  /\ Justified(x, stage, c) <=> Justified(x, other, c)
         /\ Complete(x, stage, c) <=> Complete(x, other, c)
<1>1. HeldIn(x, other, c) = HeldIn(x, stage, c)
  BY DEF HeldIn
<1>2. SinceIn(x, other, c) = SinceIn(x, stage, c)
  BY <1>1 DEF SinceIn, HeldIn
<1> QED
  BY <1>1, <1>2 DEF Justified, Complete

(* Stages that are those of the levels below n, and justified on level n.  *)
Extends(x, level, n, stage, t) ==
  /\ Numbered(t)
  /\ \A c \in Claims : /\ level[c] < n => t[c] = stage[c]
                       /\ level[c] = n => Justified(x, t, c)
                       /\ level[c] > n => t[c] = 0

(* Where a claim on level n follows and is not granted, it can be granted  *)
(* after all others. *)
LEMMA GrantOneMore ==
  ASSUME NEW x, NEW level, Leveled(x, level), NEW n \in Nat, NEW stage, NEW t,
         Extends(x, level, n, stage, t), NEW c \in Claims, level[c] = n, ~Complete(x, t, c)
  PROVE  \E u : /\ Extends(x, level, n, stage, u)
               /\ Cardinality(Granted(u)) > Cardinality(Granted(t))
<1> DEFINE m == Cardinality(Granted(t))
           u == [t EXCEPT ![c] = m + 1]
<1>1. /\ t \in [Claims -> Nat] /\ m \in Nat /\ IsFiniteSet(Granted(t))
      /\ \A d \in Claims : t[d] <= m
  BY GrantedIs DEF Extends, Numbered
<1>2. /\ t[c] = 0
      /\ Follows(x, c, HeldIn(x, t, c), Subclaims(x, c) \ HeldIn(x, t, c))
  BY <1>1 DEF Complete
<1>3. /\ u \in [Claims -> Nat] /\ u[c] = m + 1
      /\ \A d \in Claims : d # c => u[d] = t[d]
  BY <1>1
<1> HIDE DEF u
<1>4. Cardinality(Granted(u)) = m + 1
  <2>1. Granted(u) = Granted(t) \cup {c} /\ c \notin Granted(t)
    BY <1>1, <1>2, <1>3 DEF Granted
  <2> QED
    BY <1>1, <2>1, FS_AddElement
<1>5. Numbered(u)
  BY <1>1, <1>3, <1>4 DEF Numbered
<1>6. \A d \in Claims : /\ Subclaims(x, d) \subseteq Claims
                        /\ level[d] \in Nat
                        /\ d.rw.op = "exclusion" /\ level[d] = n => Child(d, 2) \in Claims \ {c}
  BY DEF Leveled
<1>7. Justified(x, u, c)
  <2>1. HeldIn(x, t, c) \subseteq SinceIn(x, u, c)
    BY <1>1, <1>2, <1>3, <1>6 DEF HeldIn, SinceIn
  <2>2. c.rw.op = "exclusion" =>
          (Child(c, 2) \in Subclaims(x, c) \ HeldIn(x, t, c) =>
             Child(c, 2) \in Subclaims(x, c) \ HeldIn(x, u, c))
    BY <1>3, <1>6 DEF HeldIn
  <2>3. Follows(x, c, SinceIn(x, u, c), Subclaims(x, c) \ HeldIn(x, u, c))
    BY <1>2, <2>1, <2>2, FollowsFromMore
  <2> QED
    BY <2>3 DEF Justified
<1>8. ASSUME NEW d \in Claims, level[d] = n, d # c
      PROVE  Justified(x, u, d)
  <2>1. SUFFICES ASSUME t[d] > 0
                 PROVE  Follows(x, d, SinceIn(x, u, d), Subclaims(x, d) \ HeldIn(x, u, d))
    BY <1>3, <1>8 DEF Justified
  <2>2. Follows(x, d, SinceIn(x, t, d), Subclaims(x, d) \ HeldIn(x, t, d))
    BY <1>8, <2>1 DEF Extends, Justified
  <2>3. SinceIn(x, t, d) \subseteq SinceIn(x, u, d)
    BY <1>2, <1>3, <1>6, <1>8 DEF SinceIn, HeldIn
  <2>4. d.rw.op = "exclusion" =>
          (Child(d, 2) \in Subclaims(x, d) \ HeldIn(x, t, d) =>
             Child(d, 2) \in Subclaims(x, d) \ HeldIn(x, u, d))
    BY <1>3, <1>6, <1>8 DEF HeldIn
  <2> QED
    BY <2>2, <2>3, <2>4, FollowsFromMore
<1>9. Extends(x, level, n, stage, u)
  BY <1>3, <1>5, <1>6, <1>7, <1>8 DEF Extends
<1> QED
  BY <1>1, <1>4, <1>9

(* What is granted on one more level is as much as can be justified. *)
LEMMA NextLevel ==
  ASSUME NEW x, NEW level, Leveled(x, level), NEW n \in Nat, NEW stage,
         StagesBelow(x, level, n, stage)
  PROVE  \E more : StagesBelow(x, level, n + 1, more)
<1>1. /\ \A c \in Claims : /\ level[c] \in Nat /\ Subclaims(x, c) \subseteq Claims
                           /\ \A d \in Subclaims(x, c) : level[d] <= level[c]
      /\ stage \in [Claims -> Nat]
  BY DEF Leveled, StagesBelow, Numbered
<1>2. Extends(x, level, n, stage, stage)
  BY <1>1 DEF Extends, StagesBelow, Justified
<1> DEFINE All     == {t \in [Claims -> Nat] : Extends(x, level, n, stage, t)}
           Left(t) == Cardinality(Claims) - Cardinality(Granted(t))
<1>3. PICK t \in All : \A u \in All : Left(t) <= Left(u)
  <2> DEFINE T == {Left(t) : t \in All}
  <2>1. T \subseteq Nat
    BY GrantedIs
  <2>2. T # {}
    BY <1>1, <1>2
  <2> HIDE DEF T
  <2>3. PICK l \in T : \A k \in T : l <= k
    BY <2>1, <2>2, LeastNat
  <2> QED
    BY <2>3 DEF T
<1>4. /\ Extends(x, level, n, stage, t) /\ t \in [Claims -> Nat]
      /\ \A c \in Claims : level[c] < n => t[c] = stage[c]
  BY <1>3 DEF Extends
<1>5. ASSUME NEW c \in Claims, level[c] < n
      PROVE  Justified(x, t, c) /\ Complete(x, t, c)
  <2>1. t[c] = stage[c] /\ \A d \in Subclaims(x, c) : t[d] = stage[d]
    BY <1>1, <1>4, <1>5
  <2>2. Justified(x, stage, c) /\ Complete(x, stage, c)
    BY <1>5 DEF StagesBelow
  <2> QED
    BY <2>1, <2>2, AgreeBelow
<1>6. ASSUME NEW c \in Claims, level[c] = n
      PROVE  Justified(x, t, c) /\ Complete(x, t, c)
  <2>1. Justified(x, t, c)
    BY <1>4, <1>6 DEF Extends
  <2>2. ASSUME ~Complete(x, t, c) PROVE FALSE
    <3>1. PICK u : /\ Extends(x, level, n, stage, u)
                   /\ Cardinality(Granted(u)) > Cardinality(Granted(t))
      BY <1>4, <1>6, <2>2, GrantOneMore
    <3>2. u \in All
      BY <3>1 DEF Extends, Numbered
    <3>3. Left(t) <= Left(u)
      BY <1>3, <3>2
    <3>4. /\ Cardinality(Granted(u)) \in Nat /\ Cardinality(Granted(t)) \in Nat
          /\ Cardinality(Claims) \in Nat
      BY <1>4, <3>2, GrantedIs
    <3> QED
      BY <3>1, <3>3, <3>4
  <2> QED
    BY <2>1, <2>2
<1>7. \A c \in Claims : level[c] > n => t[c] = 0
  BY <1>4 DEF Extends
<1>8. StagesBelow(x, level, n + 1, t)
  BY <1>1, <1>4, <1>5, <1>6, <1>7 DEF StagesBelow, Extends
<1> QED
  BY <1>8

LEMMA ClaimsHaveStages ==
  ASSUME NEW x, NEW level, Leveled(x, level)
  PROVE  \A n \in Nat : \E stage : StagesBelow(x, level, n, stage)
<1> DEFINE Without == {n \in Nat : ~\E stage : StagesBelow(x, level, n, stage)}
<1>1. SUFFICES ASSUME Without # {} PROVE FALSE
  OBVIOUS
<1>2. PICK n \in Without : \A k \in Without : n <= k
  BY <1>1, LeastNat
<1>3. n # 0
  <2> DEFINE none == [c \in Claims |-> 0]
  <2>1. none \in [Claims -> Nat] /\ \A c \in Claims : none[c] = 0
    OBVIOUS
  <2> HIDE DEF none
  <2>2. Numbered(none)
    BY <2>1, GrantedIs DEF Numbered
  <2>3. \A c \in Claims : ~(level[c] < 0)
    BY DEF Leveled
  <2>4. StagesBelow(x, level, 0, none)
    BY <2>1, <2>2, <2>3 DEF StagesBelow
  <2> QED
    BY <1>2, <2>4
<1>4. PICK k \in Nat : n = k + 1
  <2>1. n \in Nat /\ n - 1 \in Nat /\ n = (n - 1) + 1
    BY <1>2, <1>3
  <2> QED
    BY <2>1
<1>5. PICK stage : StagesBelow(x, level, k, stage)
  BY <1>2, <1>4
<1>6. \E more : StagesBelow(x, level, n, more)
  BY <1>4, <1>5, NextLevel
<1> QED
  BY <1>2, <1>6

(* What a schema that keeps the rules means. *)
LEMMA RulesGiveMeaning ==
  ASSUME BuilderInv, Rules, NEW x, Asks(x)
  PROVE  \E g : MeansAll(x, g)
<1>1. PICK level : Leveled(x, level)
  BY ClaimsHaveLevels
<1> DEFINE n == Cardinality(Claims) + 1
<1>2. Cardinality(Claims) \in Nat
  BY ClaimsAreFinite, FS_CardinalityType
<1>3. PICK stage : StagesBelow(x, level, n, stage)
  BY <1>1, <1>2, ClaimsHaveStages
<1>4. \A c \in Claims : level[c] \in Nat /\ level[c] < n /\ stage[c] \in Nat
  BY <1>1, <1>2, <1>3 DEF Leveled, StagesBelow, Numbered
<1> DEFINE g == [c \in Claims |-> [level |-> level[c], stage |-> stage[c]]]
<1>5. /\ DOMAIN g = Claims
      /\ \A c \in Claims : /\ g[c] \in [level : Nat, stage : Nat]
                           /\ g[c].level = level[c] /\ g[c].stage = stage[c]
  BY <1>4
<1> HIDE DEF g, n
<1>6. \A k \in Keys : SpeaksOf(x, g, k)
  BY <1>5, SaysIsClaim DEF SpeaksOf, Asks, Defined
<1>7. ASSUME NEW c \in DOMAIN g
      PROVE  LET of    == Subclaims(x, c)
                 held  == {d \in of : g[d].stage > 0}
                 since == {d \in held : g[d].stage < g[c].stage}
             IN  /\ g[c] \in [level : Nat, stage : Nat]
                 /\ WellFormed(x, c)
                 /\ of \subseteq DOMAIN g
                 /\ \A d \in of : g[d].level <= g[c].level
                 /\ c.rw.op = "exclusion" => g[Child(c, 2)].level < g[c].level
                 /\ g[c].stage > 0 => Follows(x, c, since, of \ held)
                 /\ Follows(x, c, held, of \ held) => g[c].stage > 0
  <2>1. /\ WellFormed(x, c) /\ Subclaims(x, c) \subseteq Claims
        /\ \A d \in Subclaims(x, c) : level[d] <= level[c]
        /\ c.rw.op = "exclusion" => Child(c, 2) \in Claims /\ level[Child(c, 2)] < level[c]
    BY <1>1, <1>5, <1>7 DEF Leveled
  <2>2. Justified(x, stage, c) /\ Complete(x, stage, c)
    BY <1>3, <1>4, <1>5, <1>7 DEF StagesBelow
  <2>3. HeldIn(x, stage, c) = {d \in Subclaims(x, c) : g[d].stage > 0}
    BY <1>5, <2>1 DEF HeldIn
  <2>4. SinceIn(x, stage, c) =
          {d \in {d \in Subclaims(x, c) : g[d].stage > 0} : g[d].stage < g[c].stage}
    BY <1>5, <1>7, <2>1, <2>3 DEF SinceIn, HeldIn
  <2> QED
    BY <1>5, <1>7, <2>1, <2>2, <2>3, <2>4 DEF Justified, Complete
<1>8. MeansAll(x, g)
  BY <1>6, <1>7 DEF MeansAll, Accounts
<1> QED
  BY <1>8

LEMMA BuiltKeepsRules ==
  ASSUME BuilderInv, IsBuilt, NEW T \in SUBSET Tuples, NEW s
  PROVE  /\ Rules /\ Asks(Asked(T, s))
         /\ built.schema.rewrites = rewrites /\ built.schema.allowed = allowed
         /\ built.reachable = exclusionReachable
<1>1. built.schema = [rewrites |-> rewrites, allowed |-> allowed] /\ Rules
  BY DEF BuilderInv
<1> QED
  BY <1>1 DEF BuilderInv, Asks, Asked

(* Something is meant whatever is stored and whoever asks. *)
MeansSomething == IsBuilt => \A T \in SUBSET Tuples : \A s : \E g : MeansAll(Asked(T, s), g)

(* checkStratified: "Without it the ... cycle rule has no least fixed      *)
(* point to converge on".  With it there is one for every schema that      *)
(* Build returns, all tuples, every subject and every key: there is always *)
(* a meaning for core/check.go's answers to be held against.               *)
THEOREM BuiltSchemasMean == BuilderSpec => []MeansSomething
<1>1. BuilderInv => MeansSomething
  BY BuiltKeepsRules, RulesGiveMeaning DEF MeansSomething
<1> QED
  BY <1>1, BuilderIsInvariant, PTL

(* The calculation finds a meaning where there is one. *)
Calculates == \A x : (\E g : MeansAll(x, g)) => MeansAll(x, Meaning(x))

(* What is calculated for a built schema is its meaning.                   *)
THEOREM BuiltMeansWhatIsCalculated ==
  ASSUME Calculates
  PROVE  BuilderSpec => []BuiltHasMeaning
<1>1. MeansSomething => BuiltHasMeaning
  BY StoreAssumption DEF MeansSomething, BuiltHasMeaning, Calculates
<1> QED
  BY <1>1, BuiltSchemasMean, PTL

-----------------------------------------------------------------------------
(* Nobody is in a userset by a wildcard. *)

(* What a meaning says of one claim. *)
LEMMA MeansClaim ==
  ASSUME NEW x, NEW g, Accounts(x, g), NEW c \in DOMAIN g
  PROVE  /\ g[c].level \in Nat /\ g[c].stage \in Nat
         /\ Subclaims(x, c) \subseteq DOMAIN g
         /\ \A d \in Subclaims(x, c) : g[d].level <= g[c].level
         /\ c.rw.op = "exclusion" => g[Child(c, 2)].level < g[c].level
         /\ g[c].stage > 0 =>
              Follows(x, c,
                {d \in {d \in Subclaims(x, c) : g[d].stage > 0} : g[d].stage < g[c].stage},
                Subclaims(x, c) \ {d \in Subclaims(x, c) : g[d].stage > 0})
         /\ Follows(x, c, {d \in Subclaims(x, c) : g[d].stage > 0},
                    Subclaims(x, c) \ {d \in Subclaims(x, c) : g[d].stage > 0}) =>
              g[c].stage > 0
  BY DEF Accounts

(* The refs a userset that some relation accepts gets its holders from. *)
Accepting(ref) ==
  \E r \in DOMAIN allowed : \E userset \in Accepts(r) \cap RelationRefs :
    ref \in Reach({userset}, YieldEdges)

LEMMA AcceptingTakesNoWildcard ==
  ASSUME BuilderInv, Rules, NEW ref, Accepting(ref)
  PROVE  Accepts(ref) \cap Wildcards = {}
<1>1. PICK r \in DOMAIN allowed : \E userset \in Accepts(r) \cap RelationRefs :
        ref \in Reach({userset}, YieldEdges)
  BY DEF Accepting
<1>2. r \in DOMAIN rewrites /\ rewrites[r] = This /\ checkAllowed(r)
  BY DEF BuilderInv, BuilderTypeOK, Rules
<1>3. PICK userset \in Accepts(r) \cap RelationRefs :
        ref \in Reach({userset}, YieldEdges) /\ ~reachesWildcard(userset)
  BY <1>1, <1>2 DEF checkAllowed
<1> QED
  BY <1>3 DEF reachesWildcard

(* What such a ref yields is such a ref. *)
LEMMA AcceptingLeads ==
  ASSUME BuilderInv, Rules, NEW x, Asks(x), NEW c \in Claims, Accepting(RefOf(c.key)),
         NEW d \in Subclaims(x, c)
  PROVE  Accepting(RefOf(d.key))
<1> DEFINE ref == RefOf(c.key)
<1>1. CASE d.key = c.key
  BY <1>1
<1>2. CASE \E k \in Reads(x, c) : d.key = k
  <2>1. PICK k \in Reads(x, c) : d.key = k
    BY <1>2
  <2>2. /\ c.rw.op = "this" => RefOf(k) \in Accepts(ref) \cap RelationRefs
        /\ c.rw.op # "this" => RefOf(k) \in Yields(ref.type, c.rw)
    BY ReadsLead
  <2>3. CASE c.rw.op = "this"
    <3>1. ref \in DOMAIN allowed
      BY <2>2, <2>3 DEF Accepts
    <3>2. RefOf(k) \in Reach({RefOf(k)}, YieldEdges)
      BY ReachIs
    <3> QED
      BY <2>1, <2>2, <2>3, <3>1, <3>2 DEF Accepting
  <2>4. CASE c.rw.op # "this"
    <3>1. PICK p \in Walk(rewrites[ref]) : p.rw = c.rw /\ ref \in DOMAIN rewrites
      BY DEF Claims, PartOf
    <3>2. [from |-> ref, to |-> RefOf(k)] \in [from : {ref}, to : Yields(ref.type, p.rw)]
      BY <2>2, <2>4, <3>1
    <3>3. [from |-> ref, to |-> RefOf(k)] \in YieldEdges
      BY <3>1, <3>2 DEF YieldEdges
    <3>4. PICK r \in DOMAIN allowed : \E userset \in Accepts(r) \cap RelationRefs :
            ref \in Reach({userset}, YieldEdges)
      BY DEF Accepting
    <3>5. PICK userset \in Accepts(r) \cap RelationRefs : ref \in Reach({userset}, YieldEdges)
      BY <3>4
    <3>6. Closed(Reach({userset}, YieldEdges), YieldEdges)
      BY ReachIs
    <3>7. RefOf(k) \in Reach({userset}, YieldEdges)
      BY <3>3, <3>5, <3>6 DEF Closed
    <3> QED
      BY <2>1, <3>5, <3>7 DEF Accepting
  <2> QED
    BY <2>3, <2>4
<1> QED
  BY <1>1, <1>2, SubclaimIs

(* No tuple's subject is s: on such a ref, none names its whole type.      *)
LEMMA NobodyNamed ==
  ASSUME BuilderInv, Rules, NEW x, Asks(x), NEW k \in Keys, Accepting(RefOf(k)),
         x.subject \in Objects, \A t \in x.tuples : t.subject # x.subject
  PROVE  ~Named(x.schema, x.tuples, x.subject, k)
<1>1. SUFFICES ASSUME NEW t \in x.tuples, t.key = k,
                      Allows(x.schema, RefOf(k), SubjectTypeOf(t.subject)),
                      t.subject = Everyone(TypeOf[x.subject])
               PROVE  FALSE
  BY DEF Named
<1>2. TypeOf[x.subject] \in Types
  BY ObjectAssumption
<1>3. t.subject \in Wildcards
  BY <1>1, <1>2 DEF Everyone, Wildcards
<1>4. t.subject \notin Objects /\ t.subject \notin Keys
  BY <1>3, ObjectAssumption DEF Wildcards, Keys
<1>5. SubjectTypeOf(t.subject) \in Wildcards
  BY <1>3, <1>4 DEF SubjectTypeOf
<1>6. SubjectTypeOf(t.subject) \in Accepts(RefOf(k))
  BY <1>1 DEF Allows, Accepted, Accepts, Asks
<1> QED
  BY <1>5, <1>6, AcceptingTakesNoWildcard

(* Of such claims that are granted, take one granted first: it would need  *)
(* one granted before it.                                                  *)
LEMMA AcceptingHoldNobody ==
  ASSUME BuilderInv, Rules, NEW x, Asks(x), NEW g, Accounts(x, g),
         x.subject \in Objects, \A t \in x.tuples : t.subject # x.subject,
         NEW c \in Claims \cap DOMAIN g, Accepting(RefOf(c.key))
  PROVE  ~(g[c].stage > 0)
<1> DEFINE Wrong == {d \in Claims \cap DOMAIN g : Accepting(RefOf(d.key)) /\ g[d].stage > 0}
           T     == {g[d].stage : d \in Wrong}
<1>1. SUFFICES ASSUME Wrong # {} PROVE FALSE
  OBVIOUS
<1>2. T \subseteq Nat /\ T # {}
  BY <1>1, MeansClaim
<1>3. PICK m \in T : \A n \in T : m <= n
  <2> HIDE DEF T
  <2> QED
    BY <1>2, LeastNat
<1>4. PICK d \in Wrong : g[d].stage = m
  BY <1>3
<1> DEFINE of    == Subclaims(x, d)
           held  == {e \in of : g[e].stage > 0}
           since == {e \in held : g[e].stage < g[d].stage}
<1>5. \A e \in of : e \in Claims /\ e \in DOMAIN g /\ Accepting(RefOf(e.key))
  BY SubclaimIs, AcceptingLeads, MeansClaim
<1>6. since = {}
  <2>1. SUFFICES ASSUME NEW e \in since PROVE FALSE
    OBVIOUS
  <2>2. g[e].stage \in T /\ g[e].stage < m /\ m \in Nat /\ g[e].stage \in Nat
    BY <1>2, <1>4, <1>5, <2>1
  <2> QED
    BY <1>3, <2>2
<1>7. Follows(x, d, since, of \ held)
  BY <1>4, MeansClaim
<1>8. d.key \in Keys /\ ~Named(x.schema, x.tuples, x.subject, d.key)
  BY <1>4, NobodyNamed DEF Claims
<1>9. d.rw.op = "intersection" => 1 \in DOMAIN d.rw.children
  BY <1>4, ClaimsAreFormed DEF WellFormed, Composite
<1> HIDE DEF of, held, since
<1> QED
  BY <1>6, <1>7, <1>8, <1>9 DEF Follows

(* checkAllowed refuses a userset that reaches a wildcard.  So nobody whom *)
(* no tuple names holds a userset that a relation accepts, through any     *)
(* permissions and arrows.                                                 *)
THEOREM NoWildcardThroughUsersets ==
  ASSUME Calculates
  PROVE  BuilderSpec => []NoUsersetHoldsEveryone
<1>1. BuilderInv => NoUsersetHoldsEveryone
  <2> SUFFICES ASSUME BuilderInv, IsBuilt,
                      NEW r \in DOMAIN built.schema.allowed,
                      NEW userset \in built.schema.allowed[r] \cap RelationRefs,
                      NEW T \in Stores, NEW k \in KeysOf(T, Stranger), RefOf(k) = userset
               PROVE  FALSE
    BY DEF NoUsersetHoldsEveryone
  <2> DEFINE x == Asked(T, Stranger)
             g == Meaning(x)
  <2>1. T \in SUBSET Tuples /\ \A t \in T : t.subject # Stranger
    BY StoreAssumption
  <2>2. /\ Rules /\ Asks(x)
        /\ built.schema.rewrites = rewrites /\ built.schema.allowed = allowed
    BY <2>1, BuiltKeepsRules
  <2>3. x.subject = Stranger /\ x.tuples = T /\ x.schema = built.schema
    BY DEF Asked
  <2>4. MeansAll(x, g)
    BY <2>2, RulesGiveMeaning DEF Calculates
  <2>5. /\ k \in Keys /\ RefOf(k) \in DOMAIN rewrites
        /\ g[Says(x.schema, k)].stage > 0
    BY <2>2, <2>3 DEF KeysOf, Defined
  <2> HIDE DEF x, g
  <2>6. /\ Says(x.schema, k) \in Claims /\ Says(x.schema, k).key = k
        /\ Says(x.schema, k) \in DOMAIN g
    BY <2>2, <2>4, <2>5, <2>3, SaysIsClaim DEF MeansAll, SpeaksOf, Defined
  <2>7. Accepting(RefOf(k))
    BY <2>2, ReachIs DEF Accepting, Accepts
  <2> QED
    BY <2>1, <2>2, <2>3, <2>4, <2>5, <2>6, <2>7, StrangerAssumption, AcceptingHoldNobody
    DEF MeansAll
<1> QED
  BY <1>1, BuilderIsInvariant, PTL

-----------------------------------------------------------------------------
(* A tuple that nothing subtracts takes nothing away. *)

(* The claims that may be subtracted: those on refs that exclusions reach, *)
(* and those below a subtract side.                                        *)
Subtracted ==
  {c \in Claims :
     \/ RefOf(c.key) \in exclusionReachable
     \/ Part(c.rw, TRUE) \in Walk(rewrites[RefOf(c.key)])}

(* What a ref of such a claim depends on is reached. *)
LEMMA SubtractedReaches ==
  ASSUME BuilderInv, Rules, NEW c \in Subtracted
  PROVE  /\ c.rw.op # "this" =>
              DependsOn(RefOf(c.key).type, c.rw) \subseteq exclusionReachable
         /\ c.rw.op = "this" =>
              /\ RefOf(c.key) \in exclusionReachable
              /\ Accepts(RefOf(c.key)) \cap RelationRefs \subseteq exclusionReachable
<1> DEFINE ref  == RefOf(c.key)
           from == {e.to : e \in {d \in Edges : d.negated}}
<1>1. /\ c \in Claims /\ ref \in DOMAIN rewrites /\ rewrites[ref] \in Terms
      /\ \/ c.rw = This /\ rewrites[ref] = This
         \/ c.rw.op # "this" /\ rewrites[ref] # This
  BY ClaimShape DEF Subtracted
<1>2. PICK p \in Walk(rewrites[ref]) : p.rw = c.rw
  BY <1>1 DEF Claims, PartOf
<1>3. from \subseteq exclusionReachable /\ Closed(exclusionReachable, Edges)
  BY ReachIs DEF exclusionReachable
<1>4. CASE c.rw.op = "this"
  <2>1. rewrites[ref] = This /\ This.op \notin Composite
    BY <1>1, <1>4 DEF This, Composite
  <2>2. Walk(rewrites[ref]) = {Part(rewrites[ref], FALSE)}
    BY <1>1, <2>1, WalkStops
  <2>3. ref \in exclusionReachable
    <3>1. Part(c.rw, TRUE).negated # Part(rewrites[ref], FALSE).negated
      BY DEF Part
    <3>2. Part(c.rw, TRUE) \notin Walk(rewrites[ref])
      BY <2>2, <3>1
    <3>3. ref \in exclusionReachable \/ Part(c.rw, TRUE) \in Walk(rewrites[ref])
      BY DEF Subtracted
    <3> QED
      BY <3>2, <3>3
  <2>4. ASSUME NEW to \in Accepts(ref) \cap RelationRefs PROVE to \in exclusionReachable
    <3>1. [from |-> ref, to |-> to, negated |-> FALSE] \in Edges
      BY <1>1, EdgesAre
    <3> QED
      BY <1>3, <2>3, <3>1 DEF Closed
  <2> QED
    BY <1>4, <2>3, <2>4
<1>5. CASE c.rw.op # "this"
  <2>1. CASE ref \in exclusionReachable
    <3>1. ASSUME NEW to \in DependsOn(ref.type, c.rw) PROVE to \in exclusionReachable
      <4>1. [from |-> ref, to |-> to, negated |-> p.negated] \in Edges
        BY <1>1, <1>2, EdgesAre
      <4> QED
        BY <1>3, <2>1, <4>1 DEF Closed
    <3> QED
      BY <1>5, <3>1
  <2>2. CASE Part(c.rw, TRUE) \in Walk(rewrites[ref])
    <3>1. ASSUME NEW to \in DependsOn(ref.type, c.rw) PROVE to \in exclusionReachable
      <4>1. [from |-> ref, to |-> to, negated |-> TRUE] \in Edges
        BY <1>1, <2>2, EdgesAre DEF Part
      <4>2. to \in from
        BY <4>1
      <4> QED
        BY <1>3, <4>2
    <3> QED
      BY <1>5, <3>1
  <2> QED
    BY <2>1, <2>2 DEF Subtracted
<1> QED
  BY <1>4, <1>5

(* Such claims are made of such claims, ... *)
LEMMA SubtractedIsClosed ==
  ASSUME BuilderInv, Rules, NEW x, Asks(x), NEW c \in Subtracted, NEW d \in Subclaims(x, c)
  PROVE  d \in Subtracted
<1> DEFINE ref == RefOf(c.key)
<1>1. c \in Claims /\ d \in Claims /\ rewrites[ref] \in Terms
  BY SubclaimIs, ClaimShape DEF Subtracted
<1>2. CASE \E k \in Reads(x, c) : d = Says(x.schema, k) /\ d.key = k
  <2>1. PICK k \in Reads(x, c) : d.key = k
    BY <1>2
  <2>2. /\ c.rw.op = "this" => RefOf(k) \in Accepts(ref) \cap RelationRefs
        /\ c.rw.op # "this" => RefOf(k) \in DependsOn(ref.type, c.rw)
    BY <1>1, ReadsLead
  <2>3. RefOf(k) \in exclusionReachable
    BY <2>2, SubtractedReaches
  <2> QED
    BY <1>1, <2>1, <2>3 DEF Subtracted
<1>3. CASE c.rw.op \in Composite /\ d.key = c.key /\ \E i \in DOMAIN c.rw.children : d = Child(c, i)
  <2>1. PICK i \in DOMAIN c.rw.children : d = Child(c, i)
    BY <1>3
  <2>2. d.rw = c.rw.children[i]
    BY <1>1, <1>3, <2>1, ChildIsClaim
  <2>3. CASE ref \in exclusionReachable
    BY <1>1, <1>3, <2>3 DEF Subtracted
  <2>4. CASE Part(c.rw, TRUE) \in Walk(rewrites[ref])
    <3> DEFINE p == Part(c.rw, TRUE)
    <3>1. p.rw = c.rw /\ p.negated = TRUE
      BY DEF Part
    <3> HIDE DEF p
    <3>2. Part(c.rw.children[i], p.negated \/ (p.rw.op = "exclusion" /\ i = 2))
            \in Walk(rewrites[ref])
      BY <1>1, <1>3, <2>4, <3>1, WalkGoesOn DEF p
    <3>3. (p.negated \/ (p.rw.op = "exclusion" /\ i = 2)) = TRUE
      BY <3>1
    <3>4. Part(d.rw, TRUE) \in Walk(rewrites[ref])
      BY <2>2, <3>2, <3>3
    <3> QED
      BY <1>1, <1>3, <3>4 DEF Subtracted
  <2> QED
    BY <2>3, <2>4 DEF Subtracted
<1> QED
  BY <1>1, <1>2, <1>3, SubclaimIs

(* ... and every exclusion's subtract side is one. *)
LEMMA SubtractSideIs ==
  ASSUME BuilderInv, Rules, NEW c \in Claims, c.rw.op = "exclusion"
  PROVE  Child(c, 2) \in Subtracted
<1>1. /\ 2 \in DOMAIN c.rw.children /\ c.rw.op \in Composite
      /\ rewrites[RefOf(c.key)] \in Terms /\ PartOf(RefOf(c.key), c.rw)
  BY ExclusionHasSides, ClaimShape DEF Claims
<1>2. PICK p \in Walk(rewrites[RefOf(c.key)]) : p.rw = c.rw
  BY <1>1 DEF PartOf
<1>3. Part(p.rw.children[2], p.negated \/ (p.rw.op = "exclusion" /\ 2 = 2))
        \in Walk(rewrites[RefOf(c.key)])
  BY <1>1, <1>2, WalkGoesOn
<1>4. (p.negated \/ (p.rw.op = "exclusion" /\ 2 = 2)) = TRUE
  BY <1>2
<1>5. /\ Child(c, 2) \in Claims /\ Child(c, 2).key = c.key
      /\ Child(c, 2).rw = c.rw.children[2]
  BY <1>1, ChildIsClaim
<1> QED
  BY <1>2, <1>3, <1>4, <1>5 DEF Subtracted

(* y is what is asked when a tuple is added that exclusions do not reach. *)
Adds(x, y, t) ==
  /\ Asks(x) /\ Asks(y) /\ y.schema = x.schema /\ y.subject = x.subject
  /\ t \in Tuples /\ RefOf(t.key) \notin exclusionReachable
  /\ y.tuples = x.tuples \cup {t}

(* Claims read no less, ... *)
LEMMA AddedReads ==
  ASSUME NEW x, NEW y, NEW t, Adds(x, y, t), NEW c
  PROVE  /\ Reads(x, c) \subseteq Reads(y, c)
         /\ Subclaims(x, c) \subseteq Subclaims(y, c)
         /\ Named(x.schema, x.tuples, x.subject, c.key) =>
              Named(y.schema, y.tuples, y.subject, c.key)
<1>1. x.tuples \subseteq y.tuples /\ y.schema = x.schema /\ y.subject = x.subject
  BY DEF Adds
<1>2. Reads(x, c) \subseteq Reads(y, c)
  BY <1>1 DEF Reads
<1>3. Subclaims(x, c) \subseteq Subclaims(y, c)
  BY <1>1, <1>2 DEF Subclaims
<1>4. Named(x.schema, x.tuples, x.subject, c.key) =>
        Named(y.schema, y.tuples, y.subject, c.key)
  BY <1>1 DEF Named
<1> QED
  BY <1>2, <1>3, <1>4

(* ... and those that may be subtracted read the same. *)
LEMMA SubtractedReadsSame ==
  ASSUME BuilderInv, Rules, NEW x, NEW y, NEW t, Adds(x, y, t), NEW c \in Subtracted
  PROVE  /\ Subclaims(y, c) = Subclaims(x, c)
         /\ c.rw.op = "this" => (Named(y.schema, y.tuples, y.subject, c.key) <=>
                                 Named(x.schema, x.tuples, x.subject, c.key))
<1>1. /\ y.tuples = x.tuples \cup {t} /\ y.schema = x.schema /\ y.subject = x.subject
      /\ RefOf(t.key) \notin exclusionReachable
  BY DEF Adds
<1>2. /\ c \in Claims /\ c.key \in Keys
      /\ c.rw = This \/ (c.rw.op # "this" /\ PartOK(RefOf(c.key).type, c.rw))
  BY ClaimShape DEF Subtracted
<1>3. CASE c.rw.op = "this"
  <2>1. t.key # c.key
    BY <1>1, <1>3, SubtractedReaches
  <2>2. Reads(y, c) = Reads(x, c)
    BY <1>1, <1>3, <2>1 DEF Reads
  <2>3. Named(y.schema, y.tuples, y.subject, c.key) <=>
          Named(x.schema, x.tuples, x.subject, c.key)
    BY <1>1, <2>1 DEF Named
  <2> QED
    BY <1>1, <2>2, <2>3 DEF Subclaims
<1>4. CASE c.rw.op = "tuple_to_userset"
  <2>1. On(RefOf(c.key).type, c.rw.tupleset) \in exclusionReachable
    BY <1>4, SubtractedReaches DEF DependsOn, ArrowReads
  <2>2. t.key # Key(c.key.object, c.rw.tupleset)
    BY <1>1, <1>2, <2>1, KeyIs
  <2>3. Reads(y, c) = Reads(x, c)
    BY <1>1, <1>4, <2>2 DEF Reads
  <2> QED
    BY <1>1, <1>4, <2>3 DEF Subclaims
<1>5. CASE c.rw.op \notin {"this", "tuple_to_userset"}
  <2>1. Reads(y, c) = Reads(x, c)
    BY <1>5 DEF Reads
  <2> QED
    BY <1>1, <1>5, <2>1 DEF Subclaims
<1> QED
  BY <1>3, <1>4, <1>5

(* The same where those stored on its key name the subject still. *)
LEMMA FollowsWhenAdded ==
  ASSUME NEW x, NEW y, NEW c, NEW held, NEW more, NEW others, NEW fewer,
         held \subseteq more,
         c.rw.op = "exclusion" => (Child(c, 2) \in others => Child(c, 2) \in fewer),
         c.rw.op = "this" => (Named(x.schema, x.tuples, x.subject, c.key) =>
                               Named(y.schema, y.tuples, y.subject, c.key)),
         Follows(x, c, held, others)
  PROVE  Follows(y, c, more, fewer)
<1>1. Follows(x, c, more, fewer)
  BY FollowsFromMore
<1>2. CASE c.rw.op = "intersection" \/ c.rw.op = "exclusion"
  BY <1>1, <1>2 DEF Follows
<1>3. CASE c.rw.op # "intersection" /\ c.rw.op # "exclusion"
  <2>1. more # {} \/ (c.rw.op = "this" /\ Named(x.schema, x.tuples, x.subject, c.key))
    BY <1>1, <1>3 DEF Follows
  <2>2. more # {} \/ (c.rw.op = "this" /\ Named(y.schema, y.tuples, y.subject, c.key))
    BY <2>1
  <2> QED
    BY <1>3, <2>2 DEF Follows
<1> QED
  BY <1>2, <1>3

(* Two meanings that may differ elsewhere agree on what may be subtracted. *)
(* Of the claims they would disagree on, take those of the lowest level,   *)
(* and of these one that either grants first: its reasons are agreed on.   *)
LEMMA SubtractedAgree ==
  ASSUME BuilderInv, Rules, NEW x, NEW y, NEW t, Adds(x, y, t),
         NEW g, Accounts(x, g), NEW h, Accounts(y, h),
         NEW c \in Subtracted \cap DOMAIN g \cap DOMAIN h
  PROVE  g[c].stage > 0 <=> h[c].stage > 0
<1> DEFINE Split == {d \in Subtracted \cap DOMAIN g \cap DOMAIN h :
                       ~(g[d].stage > 0 <=> h[d].stage > 0)}
           L     == {g[d].level : d \in Split}
<1>1. SUFFICES ASSUME Split # {} PROVE FALSE
  OBVIOUS
<1>2. /\ \A d \in DOMAIN g : g[d].level \in Nat /\ g[d].stage \in Nat
      /\ \A d \in DOMAIN h : h[d].level \in Nat /\ h[d].stage \in Nat
  BY MeansClaim
<1>3. PICK low \in L : \A n \in L : low <= n
  <2>1. L \subseteq Nat /\ L # {}
    BY <1>1, <1>2
  <2> HIDE DEF L
  <2> QED
    BY <2>1, LeastNat
<1> DEFINE Lowest   == {d \in Split : g[d].level = low}
           First(d) == IF g[d].stage > 0 THEN g[d].stage ELSE h[d].stage
           S        == {First(d) : d \in Lowest}
<1>4. S \subseteq Nat /\ S # {}
  BY <1>2, <1>3
<1>5. PICK early \in S : \A n \in S : early <= n
  <2> HIDE DEF S
  <2> QED
    BY <1>4, LeastNat
<1>6. PICK d \in Lowest : First(d) = early
  BY <1>5
<1>7. low \in Nat /\ \A e \in Split : g[e].level \in Nat /\ low <= g[e].level
  BY <1>2, <1>3
<1>8. \A e \in Lowest : First(e) \in Nat /\ First(d) \in Nat /\ First(d) <= First(e)
  BY <1>4, <1>5, <1>6
<1>9. d \in Subtracted /\ d \in Claims /\ d \in DOMAIN g /\ d \in DOMAIN h /\ g[d].level = low
      /\ ~(g[d].stage > 0 <=> h[d].stage > 0)
  BY DEF Subtracted
<1>10. Asks(x) /\ Asks(y)
  BY DEF Adds
<1>11. /\ Subclaims(y, d) = Subclaims(x, d)
       /\ d.rw.op = "this" => (Named(y.schema, y.tuples, y.subject, d.key) <=>
                                Named(x.schema, x.tuples, x.subject, d.key))
  BY <1>9, SubtractedReadsSame
<1>12. ASSUME NEW e \in Subclaims(x, d)
       PROVE  /\ e \in Subtracted /\ e \in DOMAIN g /\ e \in DOMAIN h
              /\ g[e].level <= low
              /\ g[e].level < low => (g[e].stage > 0 <=> h[e].stage > 0)
              /\ ~(g[e].stage > 0 <=> h[e].stage > 0) => e \in Lowest
  <2>1. e \in Subtracted
    BY <1>9, <1>10, <1>12, SubtractedIsClosed
  <2>2. e \in DOMAIN g /\ e \in DOMAIN h /\ g[e].level <= low
    BY <1>9, <1>11, <1>12, MeansClaim
  <2>3. ~(g[e].stage > 0 <=> h[e].stage > 0) => e \in Split
    BY <2>1, <2>2
  <2>4. ~(g[e].stage > 0 <=> h[e].stage > 0) => g[e].level = low
    BY <1>2, <1>7, <2>2, <2>3
  <2> QED
    BY <1>2, <1>7, <2>1, <2>2, <2>3, <2>4
<1> DEFINE of     == Subclaims(x, d)
           gHeld  == {e \in of : g[e].stage > 0}
           hHeld  == {e \in of : h[e].stage > 0}
           gSince == {e \in gHeld : g[e].stage < g[d].stage}
           hSince == {e \in hHeld : h[e].stage < h[d].stage}
<1>13. /\ g[d].stage > 0 => Follows(x, d, gSince, of \ gHeld)
       /\ Follows(x, d, gHeld, of \ gHeld) => g[d].stage > 0
       /\ h[d].stage > 0 => Follows(y, d, hSince, of \ hHeld)
       /\ Follows(y, d, hHeld, of \ hHeld) => h[d].stage > 0
  BY <1>9, <1>11, MeansClaim
<1>14. d.rw.op = "exclusion" =>
         (Child(d, 2) \in of \ gHeld <=> Child(d, 2) \in of \ hHeld)
  <2>1. SUFFICES ASSUME d.rw.op = "exclusion", Child(d, 2) \in of
                 PROVE  g[Child(d, 2)].stage > 0 <=> h[Child(d, 2)].stage > 0
    OBVIOUS
  <2>2. g[Child(d, 2)].level < low
    BY <1>9, <2>1, MeansClaim
  <2> QED
    BY <1>12, <2>1, <2>2
<1>15. CASE g[d].stage > 0
  <2>1. ~(h[d].stage > 0) /\ First(d) = g[d].stage
    BY <1>9, <1>15
  <2>2. gSince \subseteq hHeld
    <3>1. SUFFICES ASSUME NEW e \in gSince, ~(h[e].stage > 0) PROVE FALSE
      OBVIOUS
    <3>2. e \in Lowest /\ First(e) = g[e].stage /\ g[e].stage < g[d].stage
      BY <1>12, <3>1
    <3>3. First(e) \in Nat /\ First(d) \in Nat /\ First(d) <= First(e)
      BY <1>8, <3>2
    <3> QED
      BY <2>1, <3>2, <3>3
  <2> HIDE DEF gSince, hHeld, gHeld, of, First
  <2>3. Follows(y, d, hHeld, of \ hHeld)
    BY <1>11, <1>13, <1>14, <1>15, <2>2, FollowsWhenAdded
  <2> QED
    BY <1>13, <2>1, <2>3
<1>16. CASE ~(g[d].stage > 0)
  <2>1. h[d].stage > 0 /\ First(d) = h[d].stage
    BY <1>9, <1>16
  <2>2. hSince \subseteq gHeld
    <3>1. SUFFICES ASSUME NEW e \in hSince, ~(g[e].stage > 0) PROVE FALSE
      OBVIOUS
    <3>2. e \in Lowest /\ First(e) = h[e].stage /\ h[e].stage < h[d].stage
      BY <1>12, <3>1
    <3>3. First(e) \in Nat /\ First(d) \in Nat /\ First(d) <= First(e)
      BY <1>8, <3>2
    <3> QED
      BY <2>1, <3>2, <3>3
  <2> HIDE DEF hSince, hHeld, gHeld, of, First
  <2>3. Follows(x, d, gHeld, of \ gHeld)
    BY <1>11, <1>13, <1>14, <2>1, <2>2, FollowsWhenAdded
  <2> QED
    BY <1>13, <1>16, <2>3
<1> QED
  BY <1>15, <1>16

(* Of the claims granted without the tuple and not with it, take one that  *)
(* is granted first without: its reasons are still granted, and what it    *)
(* subtracts is not.                                                       *)
LEMMA AddedTakesNothing ==
  ASSUME BuilderInv, Rules, NEW x, NEW y, NEW t, Adds(x, y, t),
         NEW g, Accounts(x, g), NEW h, Accounts(y, h),
         NEW c \in Claims \cap DOMAIN g \cap DOMAIN h, g[c].stage > 0
  PROVE  h[c].stage > 0
<1> DEFINE Lost == {d \in Claims \cap DOMAIN g \cap DOMAIN h :
                      g[d].stage > 0 /\ ~(h[d].stage > 0)}
           S    == {g[d].stage : d \in Lost}
<1>1. SUFFICES ASSUME Lost # {} PROVE FALSE
  OBVIOUS
<1>2. S \subseteq Nat /\ S # {}
  <2>1. \A d \in Lost : g[d].stage \in Nat
    BY MeansClaim
  <2> QED
    BY <1>1, <2>1
<1>3. PICK early \in S : \A n \in S : early <= n
  <2> HIDE DEF S
  <2> QED
    BY <1>2, LeastNat
<1>4. PICK d \in Lost : g[d].stage = early
  BY <1>3
<1>5. Asks(x) /\ Asks(y)
  BY DEF Adds
<1> DEFINE gHeld  == {e \in Subclaims(x, d) : g[e].stage > 0}
           hHeld  == {e \in Subclaims(y, d) : h[e].stage > 0}
           gSince == {e \in gHeld : g[e].stage < g[d].stage}
<1>6. /\ Follows(x, d, gSince, Subclaims(x, d) \ gHeld)
      /\ Follows(y, d, hHeld, Subclaims(y, d) \ hHeld) => h[d].stage > 0
  BY <1>4, MeansClaim
<1>7. /\ Subclaims(x, d) \subseteq Subclaims(y, d)
      /\ Named(x.schema, x.tuples, x.subject, d.key) =>
           Named(y.schema, y.tuples, y.subject, d.key)
  BY AddedReads
<1>8. \A e \in Subclaims(x, d) : e \in Claims /\ e \in DOMAIN g /\ e \in DOMAIN h
  <2>1. \A e \in Subclaims(x, d) : e \in Claims /\ e \in DOMAIN g
    BY <1>4, <1>5, SubclaimIs, MeansClaim
  <2>2. \A e \in Subclaims(y, d) : e \in DOMAIN h
    BY <1>4, MeansClaim
  <2> QED
    BY <1>7, <2>1, <2>2
<1>9. gSince \subseteq hHeld
  <2>1. SUFFICES ASSUME NEW e \in gSince, ~(h[e].stage > 0) PROVE FALSE
    BY <1>7
  <2>2. g[e].stage \in S /\ g[e].stage < early
    BY <1>4, <1>8, <2>1
  <2> QED
    <3>1. early \in Nat /\ g[e].stage \in Nat /\ early <= g[e].stage
      BY <1>2, <1>3, <2>2
    <3> QED
      BY <2>2, <3>1
<1>10. ASSUME d.rw.op = "exclusion", Child(d, 2) \in Subclaims(x, d) \ gHeld
       PROVE  Child(d, 2) \in Subclaims(y, d) \ hHeld
  <2>1. Child(d, 2) \in Subtracted
    BY <1>4, <1>10, SubtractSideIs
  <2>2. g[Child(d, 2)].stage > 0 <=> h[Child(d, 2)].stage > 0
    BY <1>8, <1>10, <2>1, SubtractedAgree
  <2> QED
    BY <1>7, <1>10, <2>2
<1>11. Follows(y, d, hHeld, Subclaims(y, d) \ hHeld)
  <2> HIDE DEF gSince, hHeld, gHeld
  <2> QED
    BY <1>6, <1>7, <1>9, <1>10, FollowsWhenAdded
<1> QED
  BY <1>4, <1>6, <1>11

(* ExclusionReachable: nothing outside it is ever subtracted.  A tuple     *)
(* added to a ref outside takes nothing from anyone, through any userset,  *)
(* permission or arrow.                                                    *)
THEOREM TuplesOutsideOnlyGrant ==
  ASSUME Calculates
  PROVE  BuilderSpec => []UnreachableOnlyGrants
<1>1. BuilderInv => UnreachableOnlyGrants
  <2> SUFFICES ASSUME BuilderInv, IsBuilt, NEW T \in Stores, NEW s \in Askers, NEW t \in T,
                      RefOf(t.key) \notin built.reachable, NEW k \in KeysOf(T \ {t}, s)
               PROVE  k \in KeysOf(T, s)
    BY DEF UnreachableOnlyGrants
  <2> DEFINE x == Asked(T \ {t}, s)
             y == Asked(T, s)
             g == Meaning(x)
             h == Meaning(y)
             c == Says(built.schema, k)
  <2>1. T \in SUBSET Tuples /\ T \ {t} \in SUBSET Tuples /\ t \in Tuples
    BY StoreAssumption
  <2>2. /\ Rules /\ Asks(x) /\ Asks(y)
        /\ built.schema.rewrites = rewrites /\ built.reachable = exclusionReachable
    BY <2>1, BuiltKeepsRules
  <2>3. /\ x.schema = built.schema /\ x.tuples = T \ {t} /\ x.subject = s
        /\ y.schema = built.schema /\ y.tuples = T /\ y.subject = s
    BY DEF Asked
  <2>4. Adds(x, y, t)
    BY <2>1, <2>2, <2>3 DEF Adds
  <2>5. MeansAll(x, g) /\ MeansAll(y, h)
    BY <2>2, RulesGiveMeaning DEF Calculates
  <2>6. k \in Keys /\ RefOf(k) \in DOMAIN rewrites /\ g[c].stage > 0
    BY <2>2 DEF KeysOf, Defined
  <2> HIDE DEF x, y, g, h, c
  <2>7. c \in Claims /\ c \in DOMAIN g /\ c \in DOMAIN h
    BY <2>2, <2>3, <2>5, <2>6, SaysIsClaim DEF MeansAll, SpeaksOf, Defined, c
  <2>8. h[c].stage > 0
    BY <2>2, <2>4, <2>5, <2>6, <2>7, AddedTakesNothing DEF MeansAll
  <2> QED
    BY <2>2, <2>6, <2>8 DEF KeysOf, Defined, y, h, c
<1> QED
  BY <1>1, BuilderIsInvariant, PTL

=============================================================================
