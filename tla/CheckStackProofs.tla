-------------------------- MODULE CheckStackProofs --------------------------
(***************************************************************************)
(* Proofs about a Check, for any schema, tuples, subject and limits: what  *)
(* the claims of a meaning follow from and what the calls of a rewrite     *)
(* make of it; what is on the call stack, and that Tarjan's stack goes     *)
(* with it; and how far out what a relation reached lies.                  *)
(*                                                                         *)
(* A step is calm if it enters no relation and leaves none: then only the  *)
(* innermost frame moves, and most of the invariant stays as it is.        *)
(*                                                                         *)
(* First the inductive invariants.  An answer false may be too low, but    *)
(* not without an excuse: a key that is granted at an earlier stage and is *)
(* still on Tarjan's stack, no deeper than lowlink or some outer says.  At *)
(* the root of a component the excuses are members of it, and the one      *)
(* granted first can have none.                                            *)
(***************************************************************************)
EXTENDS CheckProps, FiniteSetTheorems, WellFoundedInduction, TLAPS

Said(k)    == Says(case.schema, k)
StageOf(c) == meaning[c].stage
LevelOf(c) == meaning[c].level
Granted(c) == meaning[c].stage > 0

Failing == next.go = "back" /\ next.failed

-----------------------------------------------------------------------------
(* Types. *)

Rewrites == {c.rw : c \in DOMAIN meaning}

RelationCalls == [go : {"relation"}, key : Keys]
RewriteCalls  == [go : {"rewrite"}, rw : Rewrites, key : Keys]
Backs         == [go : {"back"}, failed : BOOLEAN, allowed : BOOLEAN, node : Nat]
Tests         == [go : {"test"}, allowed : BOOLEAN, node : Nat, settled : BOOLEAN]

Memos == [state : {"none", "computing", "true", "false"}, index : Nat]

OperandsFrames ==
  [at : {"operands"}, rw : Rewrites, key : Keys, node : Nat,
   calls : Seq(RelationCalls \cup RewriteCalls), turn : Nat]

RelationFrames ==
  [at : {"relation", "settle"}, key : Keys, index : Nat, pos : Nat, outer : Nat,
   back : Backs, turn : Nat, size : Nat, changed : BOOLEAN]

Frames == OperandsFrames \cup RelationFrames

Operators == {"this", "computed_userset", "tuple_to_userset"} \cup Composite

Outcomes == {"incomplete", "cycle", "allowed", "denied"}

Nodes ==
  [key : Keys, op : Operators, outcome : Outcomes, memoized : BOOLEAN,
   children : Seq(Nat)]

Proofs == [nodes : Seq(Nodes), truncated : BOOLEAN, paused : Int]

Typed ==
  /\ asked \in DOMAIN Cases
  /\ memo \in [Keys -> Memos]
  /\ index \in Nat /\ lowlink \in Nat /\ depth \in Nat
  /\ stack \in Seq(Keys)
  /\ frames \in Seq(Frames)
  /\ next \in RelationCalls \cup RewriteCalls \cup Backs \cup Tests \cup {Turn}
  /\ proof \in Proofs

-----------------------------------------------------------------------------
(* Facts, at every step *)

DepthOK == depth = Cardinality({i \in DOMAIN frames : frames[i].at # "operands"})

MemoKnown ==
  \A k \in Keys :
    /\ memo[k].index <= index
    /\ memo[k].state = "none" => memo[k].index = 0
    /\ memo[k].state # "none" => IsDefined(k) /\ Said(k) \in DOMAIN meaning

FailedForCause ==
  Failing => case.mayFail \/ ~IsDefined(case.key) \/ case.maxDepth < Cardinality(Keys)

-----------------------------------------------------------------------------
(* The call stack *)

Opens(i) == frames[i].at # "operands"

ClaimOf(call) ==
  IF call.go = "relation" THEN Said(call.key) ELSE Claim(call.rw, call.key)

Serves(f) == IF f.at = "operands" THEN Rewrite(f.rw, f.key) ELSE Relation(f.key)

Awaits(f) ==
  CASE f.at = "operands" -> f.calls[f.turn]
    [] f.at = "relation" -> Rewrite(Definition(f.key), f.key)
    [] f.at = "settle"   -> Rewrite(Definition(Member(f)), Member(f))

ClaimAt(i) == ClaimOf(Serves(frames[i]))

Chain ==
  /\ frames # <<>> => Serves(frames[1]) = Relation(case.key)
  /\ \A i \in 1 .. Len(frames) - 1 : Serves(frames[i + 1]) = Awaits(frames[i])
  /\ next.go \in {"relation", "rewrite"} =>
       next = IF frames = <<>> THEN Relation(case.key) ELSE Awaits(Last(frames))
  /\ next.go = "test" => frames # <<>> /\ Last(frames).at = "relation"
  /\ next.go = "turn" => frames # <<>> /\ Last(frames).at = "settle"
  /\ frames = <<>> /\ next.go # "back" => stack = <<>> /\ lowlink = 0

-----------------------------------------------------------------------------
(* The call stack, frame by frame. *)

LastMember(f) == stack[f.pos + f.size]

OperandsShape(f) ==
  /\ f.turn \in DOMAIN f.calls
  /\ f.calls \in Calls(f.rw, f.key)
  /\ ClaimOf(Serves(f)) \in DOMAIN meaning
  /\ f.rw.op = "this" => ~(wildcardGrants(f.key) \/ directGrants(f.key))

RelationShape(i) ==
  LET f == frames[i]
  IN  /\ f.pos + 1 \in DOMAIN stack
      /\ stack[f.pos + 1] = f.key
      /\ memo[f.key].index = f.index
      /\ \A j \in i + 1 .. Len(frames) : Opens(j) => f.index < frames[j].index
      /\ i = 1 => f.outer = 0 /\ f.pos = 0

SettleShape(i) ==
  LET f == frames[i]
  IN  /\ f.turn \in 1 .. f.size + 1
      /\ f.turn = f.size + 1 => i = Len(frames) /\ next.go = "turn"
      /\ f.pos + f.size \in DOMAIN stack
      /\ \A j \in i + 1 .. Len(frames) :
           Opens(j) => memo[LastMember(f)].index < frames[j].index

Shape ==
  /\ Chain
  /\ \A i \in DOMAIN frames :
       /\ ~Opens(i) => OperandsShape(frames[i])
       /\ Opens(i) => RelationShape(i)
       /\ frames[i].at = "settle" => SettleShape(i)

Facts == Typed /\ DepthOK /\ MemoKnown /\ StackInOrder /\ FailedForCause

ShapeInv == Facts /\ (Failing \/ Shape)

-----------------------------------------------------------------------------
(* How far out what was reached lies. *)

(* The keys on the stack from before the frames after i. *)
Visible(i) ==
  {k \in Keys : /\ memo[k].index # 0
                /\ \A j \in i + 1 .. Len(frames) :
                     Opens(j) => memo[k].index < frames[j].index}

Region(i) == {k \in Visible(i) : frames[i].index <= memo[k].index}

(* q is the relation that frame i works for. *)
Under(q, i) == q \in 1 .. i /\ Opens(q) /\ \A j \in q + 1 .. i : ~Opens(j)

Reaches(i, v) ==
  \A q \in 1 .. i : Under(q, i) =>
    /\ v <= frames[q].index
    /\ \E k \in Keys : memo[k].index = v /\ v # 0 /\ LevelOf(Said(k)) <= LevelOf(ClaimAt(q))

Levels ==
  /\ \A i, j \in DOMAIN frames : i <= j => LevelOf(ClaimAt(j)) <= LevelOf(ClaimAt(i))
  /\ \A i \in DOMAIN frames : \A k \in Visible(i) : LevelOf(ClaimAt(i)) <= LevelOf(Said(k))
  /\ \A i \in DOMAIN frames : Opens(i) =>
       \A k \in Region(i) : LevelOf(Said(k)) <= LevelOf(ClaimAt(i))

Reach ==
  /\ Reaches(Len(frames), lowlink)
  /\ \A i \in DOMAIN frames : Opens(i) => Reaches(i - 1, frames[i].outer)
  /\ Levels

ReachInv == Failing \/ Reach

-----------------------------------------------------------------------------
(* Excuses *)

(* lowlink will be no higher than k's index once the frames after i left. *)
Noted(i, k) ==
  \/ lowlink <= memo[k].index
  \/ \E j \in i + 1 .. Len(frames) : Opens(j) /\ frames[j].outer <= memo[k].index

Excuses(i) == {k \in Visible(i) : Granted(Said(k)) /\ Noted(i, k)}

Excused(excuses, c) ==
  Granted(c) =>
    \E k \in excuses : /\ StageOf(Said(k)) < StageOf(c)
                       /\ LevelOf(Said(k)) <= LevelOf(c)

Untrue == {k \in Keys : memo[k].state # "true"}

(* While a component settles, an excuse is no member that is true. *)
Fresh(i) ==
  {k \in Keys :
     \A q \in 1 .. i : Under(q, i) /\ frames[q].at = "settle" =>
       memo[k].state # "true" \/ memo[LastMember(frames[q])].index < memo[k].index}

Usable(i) == Excuses(i) \cap Fresh(i)

-----------------------------------------------------------------------------
(* What the answers so far mean. *)

MemoMeans ==
  \A k \in Keys :
    /\ memo[k].state = "true" => Granted(Said(k))
    /\ memo[k].state \in {"computing", "false"} /\ memo[k].index = 0 => ~Granted(Said(k))

Done(i, d) ==
  LET f == frames[i]
  IN  IF f.rw.op \in {"intersection", "exclusion"} THEN Granted(d)
      ELSE Granted(d) /\ StageOf(d) < StageOf(ClaimAt(i)) => Excused(Usable(i), ClaimAt(i))

OperandsMean(i) ==
  \A j \in 1 .. frames[i].turn - 1 : Done(i, ClaimOf(frames[i].calls[j]))

SettleMeans(i) ==
  LET f == frames[i]
  IN  /\ f.back.allowed => Granted(ClaimAt(i))
      /\ ~f.changed =>
           \A p \in f.pos + 1 .. f.pos + f.turn - 1 :
             stack[p] \in Untrue => Excused(Usable(i), Said(stack[p]))

FalseExcused(i) ==
  \A k \in Region(i) : memo[k].state = "false" => Excused(Excuses(i), Said(k))

FrameMeans(i) ==
  /\ ~Opens(i) => OperandsMean(i)
  /\ frames[i].at = "settle" => SettleMeans(i)
  /\ Opens(i) => FalseExcused(i)

ComputingOpen ==
  \A k \in Keys : memo[k].state = "computing" =>
    \E i \in DOMAIN frames :
      /\ frames[i].at = "relation" /\ frames[i].key = k
      /\ i = Len(frames) => next.go # "test"

(* A relation may be excused by itself only to what called it. *)
BackMeans ==
  next.go = "back" =>
    IF frames = <<>>
    THEN /\ IsDefined(case.key) /\ Said(case.key) \in DOMAIN meaning
         /\ next.allowed <=> Granted(Said(case.key))
    ELSE LET d == ClaimOf(Awaits(Last(frames)))
             n == Len(frames)
         IN  IF next.allowed THEN Granted(d)
             ELSE Granted(d) =>
                    \E k \in Usable(n) :
                      /\ StageOf(Said(k)) <= StageOf(d)
                      /\ LevelOf(Said(k)) <= LevelOf(d)
                      /\ Opens(n) => StageOf(Said(k)) < StageOf(d)

TestMeans ==
  next.go = "test" =>
    LET n == Len(frames)
    IN  /\ next.allowed => Granted(ClaimAt(n))
        /\ next.settled =>
             \A k \in Region(n) \cap Untrue : Excused(Excuses(n) \cap Untrue, Said(k))

Sense ==
  /\ \A i \in DOMAIN frames : FrameMeans(i)
  /\ ComputingOpen /\ BackMeans /\ TestMeans

SenseInv == MemoMeans /\ (Failing \/ Sense)

IInv == ShapeInv /\ ReachInv /\ SenseInv

-----------------------------------------------------------------------------
(* The recorder: every node is held by the call it was recorded for, or is *)
(* the child of one other.                                                 *)

(* The node a call that waits will return. *)
Keeps(f) ==
  CASE f.at = "operands" -> f.node
    [] f.at = "settle"   -> f.back.node
    [] f.at = "relation" -> NoNode

(* The node that what happens next hands on. *)
Carried == IF next.go \in {"back", "test"} THEN next.node ELSE NoNode

InHand(n) == n = Carried \/ \E i \in DOMAIN frames : Keeps(frames[i]) = n

Settling(i) == frames[i].at = "settle"

(* A rewrite without a node: the proof was full, or paused further out. *)
Unrecorded(i) == frames[i].at = "operands" /\ frames[i].node = NoNode

Recording ==
  /\ proof.paused = Cardinality({i \in DOMAIN frames : Settling(i)})
  /\ \A i \in DOMAIN frames : Unrecorded(i) =>
       Len(proof.nodes) >= MaxProofNodes \/ \E j \in 1 .. i - 1 : Settling(j)

Before(i, n) ==
  n # NoNode => Keeps(frames[i]) < n /\ ~Settling(i) /\ ~Unrecorded(i)

(* What the calls hold was recorded in their order, and nothing is held    *)
(* that has nowhere to hang.                                               *)
Holding ==
  /\ Carried \in 0 .. Len(proof.nodes)
  /\ \A i \in DOMAIN frames :
       /\ Keeps(frames[i]) \in 0 .. Len(proof.nodes)
       /\ Before(i, Carried)
       /\ \A j \in i + 1 .. Len(frames) : Before(i, Keeps(frames[j]))

ChildrenOf(n) == proof.nodes[n].children

Linking ==
  \A n \in DOMAIN proof.nodes :
    /\ ChildrenOf(n) \in Seq(DOMAIN proof.nodes)
    /\ IF InHand(n) THEN LinksTo(n) = {}
                    ELSE \E link \in LinksTo(n) : link[1] < n /\ LinksTo(n) = {link}

Incomplete(n) == proof.nodes[n].outcome = "incomplete"

Tells(n, allowed) == proof.nodes[n].outcome = IF allowed THEN "allowed" ELSE "denied"

FrameTells(i) ==
  LET n == Keeps(frames[i])
  IN  n # NoNode =>
        IF Settling(i) THEN Tells(n, frames[i].back.allowed)
        ELSE /\ Incomplete(n)
             /\ \A j \in DOMAIN ChildrenOf(n) : ~Incomplete(ChildrenOf(n)[j])

Working(n) == \E i \in DOMAIN frames : ~Opens(i) /\ Keeps(frames[i]) = n

NodeTells(n) ==
  \A j, k \in DOMAIN ChildrenOf(n) :
    Incomplete(ChildrenOf(n)[j]) =>
      Incomplete(n) /\ (Incomplete(ChildrenOf(n)[k]) => k = j)

(* A cycle answers the rewrite that called, and is never the last answer.  *)
CarriedTells ==
  \/ Tells(Carried, next.allowed)
  \/ /\ proof.nodes[Carried].outcome = "cycle"
     /\ next.go = "back" /\ ~next.allowed
     /\ frames # <<>> /\ ~Opens(Len(frames))

(* Only the rewrites under way are incomplete, and what an error leaves.   *)
Telling ==
  /\ \A i \in DOMAIN frames : FrameTells(i)
  /\ \A n \in DOMAIN proof.nodes :
       /\ NodeTells(n)
       /\ Incomplete(n) => Failing \/ Working(n)
  /\ Carried # NoNode /\ ~Failing => CarriedTells

RecordInv == Recording /\ Holding /\ Linking /\ Telling

-----------------------------------------------------------------------------
(* The orders that a source may yield in. *)

(* Of a relation's order, every key is in some place of it. *)
LEMMA OrdersCover ==
  ASSUME NEW S, IsFiniteSet(S), NEW ks \in SetToSeqs(S)
  PROVE  ks \in Seq(S) /\ \A k \in S : \E i \in DOMAIN ks : ks[i] = k
<1> DEFINE N == Cardinality(S)
<1>1. N \in Nat /\ ks \in [1 .. N -> S] /\ \A i, j \in 1 .. N : i # j => ks[i] # ks[j]
  BY FS_CardinalityType DEF SetToSeqs
<1>2. ks \in Injection(1 .. N, S)
  BY <1>1 DEF Injection, IsInjective
<1>3. Cardinality(1 .. N) = N
  BY <1>1, FS_Interval
<1>4. ks \in Surjection(1 .. N, S)
  BY <1>2, <1>3, FS_Injection
<1> QED
  BY <1>1, <1>4 DEF Surjection

-----------------------------------------------------------------------------
(* What the claims of a case are made of. *)

Simple == {"this", "computed_userset", "tuple_to_userset"}

(* What CaseAssumption and MeaningAssumption say of the case asked. *)
LEMMA CaseFacts ==
  ASSUME asked \in DOMAIN Cases
  PROVE  /\ case.tuples \subseteq Tuples
         /\ case.subject \in Objects \cup Keys
         /\ case.key \in Keys
         /\ case.maxDepth \in Nat \ {0}
         /\ case.mayFail \in BOOLEAN
         /\ IsMeaning(case, meaning)
  BY CaseAssumption, MeaningAssumption DEF case, meaning

(* The parts of IsMeaning, by the shape of the claim. *)
LEMMA ClaimFacts ==
  ASSUME asked \in DOMAIN Cases, NEW c \in DOMAIN meaning
  PROVE  /\ StageOf(c) \in Nat /\ LevelOf(c) \in Nat
         /\ c.key \in Keys
         /\ c.rw.op \in Simple \cup Composite
         /\ c.rw.op \in Composite =>
              /\ DOMAIN c.rw.children = 1 .. Len(c.rw.children)
              /\ Len(c.rw.children) >= 2
         /\ c.rw.op = "exclusion" => Len(c.rw.children) = 2
         /\ \A k \in Reads(case, c) : k \in Keys /\ IsDefined(k)
         /\ Subclaims(case, c) \subseteq DOMAIN meaning
         /\ \A d \in Subclaims(case, c) : LevelOf(d) <= LevelOf(c)
         /\ c.rw.op = "exclusion" => LevelOf(Child(c, 2)) < LevelOf(c)
<1>1. IsMeaning(case, meaning)
  BY CaseFacts
<1>2. /\ meaning[c] \in [level : Nat, stage : Nat]
      /\ WellFormed(case, c)
      /\ Subclaims(case, c) \subseteq DOMAIN meaning
      /\ \A d \in Subclaims(case, c) : meaning[d].level <= meaning[c].level
      /\ c.rw.op = "exclusion" => meaning[Child(c, 2)].level < meaning[c].level
  BY <1>1 DEF IsMeaning, Accounts, SpeaksOf
<1> QED
  BY <1>2 DEF WellFormed, StageOf, LevelOf, Simple, IsDefined

(* A composite rewrite is made of its children. *)
LEMMA ChildIsSubclaim ==
  ASSUME NEW c, c.rw.op \in Composite, NEW i \in DOMAIN c.rw.children
  PROVE  Child(c, i) \in Subclaims(case, c)
  BY DEF Subclaims

(* Why a claim is granted. *)
LEMMA GrantedFor ==
  ASSUME asked \in DOMAIN Cases, NEW c \in DOMAIN meaning, Granted(c)
  PROVE  /\ c.rw.op \notin {"intersection", "exclusion"} =>
              \/ c.rw.op = "this" /\ Named(case.schema, case.tuples, case.subject, c.key)
              \/ \E d \in Subclaims(case, c) : Granted(d) /\ StageOf(d) < StageOf(c)
         /\ c.rw.op = "intersection" =>
              \A i \in DOMAIN c.rw.children :
                Granted(Child(c, i)) /\ StageOf(Child(c, i)) < StageOf(c)
         /\ c.rw.op = "exclusion" =>
              /\ Granted(Child(c, 1)) /\ StageOf(Child(c, 1)) < StageOf(c)
              /\ ~Granted(Child(c, 2))
<1> DEFINE of    == Subclaims(case, c)
           held  == {d \in of : meaning[d].stage > 0}
           since == {d \in held : meaning[d].stage < meaning[c].stage}
<1>1. IsMeaning(case, meaning)
  BY CaseFacts
<1>2. Follows(case, c, since, of \ held)
  BY <1>1 DEF IsMeaning, Accounts, SpeaksOf, Granted
<1>3. c.rw.op \in Simple \cup Composite
  BY ClaimFacts
<1>4. CASE c.rw.op = "intersection"
  BY <1>2, <1>4 DEF Follows, Granted, StageOf
<1>5. CASE c.rw.op = "exclusion"
  BY <1>2, <1>5 DEF Follows, Granted, StageOf
<1>6. CASE c.rw.op \notin {"intersection", "exclusion"}
  <2>1. since # {} \/ (c.rw.op = "this" /\ Named(case.schema, case.tuples, case.subject, c.key))
    BY <1>2, <1>6 DEF Follows
  <2> QED
    BY <2>1, <1>6 DEF Granted, StageOf
<1> QED
  BY <1>4, <1>5, <1>6

(* What is enough to grant it. *)
LEMMA GrantedIf ==
  ASSUME asked \in DOMAIN Cases, NEW c \in DOMAIN meaning,
         \/ /\ c.rw.op \notin {"intersection", "exclusion"}
            /\ \/ c.rw.op = "this" /\ Named(case.schema, case.tuples, case.subject, c.key)
               \/ \E d \in Subclaims(case, c) : Granted(d)
         \/ /\ c.rw.op = "intersection"
            /\ \A i \in DOMAIN c.rw.children : Granted(Child(c, i))
         \/ /\ c.rw.op = "exclusion"
            /\ Granted(Child(c, 1)) /\ ~Granted(Child(c, 2))
            /\ Child(c, 1) \in Subclaims(case, c) /\ Child(c, 2) \in Subclaims(case, c)
  PROVE  Granted(c)
<1> DEFINE of    == Subclaims(case, c)
           held  == {d \in of : meaning[d].stage > 0}
<1>1. IsMeaning(case, meaning)
  BY CaseFacts
<1>2. Follows(case, c, held, of \ held) => Granted(c)
  BY <1>1 DEF IsMeaning, Accounts, SpeaksOf, Granted
<1>4. CASE c.rw.op = "intersection" /\ \A i \in DOMAIN c.rw.children : Granted(Child(c, i))
  <2>1. \A i \in DOMAIN c.rw.children : Child(c, i) \in of
    BY <1>4, ChildIsSubclaim DEF Composite
  <2> QED
    BY <1>2, <1>4, <2>1 DEF Follows, Granted
<1>5. CASE /\ c.rw.op = "exclusion"
           /\ Granted(Child(c, 1)) /\ ~Granted(Child(c, 2))
           /\ Child(c, 1) \in Subclaims(case, c) /\ Child(c, 2) \in Subclaims(case, c)
  BY <1>2, <1>5 DEF Follows, Granted
<1>6. CASE /\ c.rw.op \notin {"intersection", "exclusion"}
           /\ \/ c.rw.op = "this" /\ Named(case.schema, case.tuples, case.subject, c.key)
              \/ \E d \in Subclaims(case, c) : Granted(d)
  <2>1. held # {} \/ (c.rw.op = "this" /\ Named(case.schema, case.tuples, case.subject, c.key))
    BY <1>6 DEF Granted
  <2>2. Follows(case, c, held, of \ held)
    BY <2>1, <1>6 DEF Follows
  <2> QED
    BY <2>2, <1>2
<1> QED
  BY <1>4, <1>5, <1>6

(* The two reads of the tuples find the subject where it is named. *)
LEMMA NamedIsStored ==
  ASSUME asked \in DOMAIN Cases, NEW k \in Keys
  PROVE  wildcardGrants(k) \/ directGrants(k)
           <=> Named(case.schema, case.tuples, case.subject, k)
<1> DEFINE s == case.subject
<1>1. case.tuples \subseteq Tuples /\ s \in Objects \cup Keys
  BY CaseFacts
<1>2. \A t \in Types : Everyone(t) \notin Objects /\ Everyone(t) \notin Keys
  <2>1. \A t \in Types : Everyone(t) \in Wildcards
    BY DEF Everyone, Wildcards
  <2>2. \A t \in Types : "object" \notin DOMAIN Everyone(t)
    BY DEF Everyone
  <2>3. \A x \in Keys : "object" \in DOMAIN x
    BY DEF Keys
  <2> QED
    BY <2>1, <2>2, <2>3, ObjectAssumption
<1>3. \A o \in Objects : TypeOf[o] \in Types
  BY ObjectAssumption
<1>4. \A o \in Objects : SubjectTypeOf(Everyone(TypeOf[o])) = Everyone(TypeOf[o])
  BY <1>2, <1>3 DEF SubjectTypeOf
<1>5. \A x : IsStored(k, x) => \E t \in case.tuples : t.key = k /\ t.subject = x
  BY DEF IsStored
<1>6. \A t \in case.tuples : IsStored(t.key, t.subject)
  BY <1>1 DEF IsStored, Tuples
<1>7. ASSUME wildcardGrants(k) \/ directGrants(k)
      PROVE  Named(case.schema, case.tuples, s, k)
  BY <1>7, <1>4, <1>5 DEF wildcardGrants, directGrants, accepts, Named
<1>8. ASSUME Named(case.schema, case.tuples, s, k)
      PROVE  wildcardGrants(k) \/ directGrants(k)
  BY <1>8, <1>4, <1>6 DEF wildcardGrants, directGrants, accepts, Named
<1> QED
  BY <1>7, <1>8

(* The keys a rewrite reads are those its claim does. *)
LEMMA ReadsFollowable ==
  ASSUME asked \in DOMAIN Cases, NEW c, c.key \in Keys, c.rw.op = "this"
  PROVE  followable(c.key) = Reads(case, c)
<1>1. case.tuples \subseteq Tuples
  BY CaseFacts
<1>2. ASSUME NEW s \in followable(c.key)
      PROVE  s \in Reads(case, c)
  <2>1. s \in Keys /\ [key |-> c.key, subject |-> s] \in case.tuples
        /\ Allows(case.schema, RefOf(c.key), RefOf(s))
    BY DEF followable, IsStored, accepts
  <2>2. PICK t \in case.tuples : t.key = c.key /\ t.subject = s
    BY <2>1
  <2> QED
    BY <2>1, <2>2 DEF Reads
<1>3. ASSUME NEW s \in Reads(case, c)
      PROVE  s \in followable(c.key)
  <2>1. PICK t \in case.tuples : /\ t.key = c.key /\ t.subject = s /\ s \in Keys
                                 /\ Allows(case.schema, RefOf(t.key), RefOf(t.subject))
    BY DEF Reads
  <2>2. t = [key |-> c.key, subject |-> s]
    BY <1>1, <2>1 DEF Tuples
  <2> QED
    BY <2>1, <2>2 DEF followable, IsStored, accepts
<1> QED
  BY <1>2, <1>3

(* arrow follows just the keys that the claim's meaning reads. *)
LEMMA ReadsArrow ==
  ASSUME asked \in DOMAIN Cases, NEW c, c.key \in Keys, c.rw.op = "tuple_to_userset",
         \A k \in Reads(case, c) : k \in Keys
  PROVE  arrow(Key(c.key.object, c.rw.tupleset), c.rw.relation) = Reads(case, c)
<1> DEFINE set == Key(c.key.object, c.rw.tupleset)
<1>1. case.tuples \subseteq Tuples
  BY CaseFacts
<1>2. ASSUME NEW s \in arrow(set, c.rw.relation)
      PROVE  s \in Reads(case, c)
  <2>1. s \in Keys /\ s.relation = c.rw.relation /\ [key |-> set, subject |-> s.object] \in case.tuples
        /\ Allows(case.schema, RefOf(set), TypeOf[s.object]) /\ RefOf(s) \in Defined(case.schema)
    BY DEF arrow, IsStored, accepts, IsDefined
  <2>2. s.object \in Objects /\ s = Key(s.object, c.rw.relation)
    BY <2>1 DEF Keys, Key
  <2>3. PICK t \in case.tuples : t.key = set /\ t.subject = s.object
    BY <2>1
  <2> QED
    BY <2>1, <2>2, <2>3 DEF Reads
<1>3. ASSUME NEW s \in Reads(case, c)
      PROVE  s \in arrow(set, c.rw.relation)
  <2>1. PICK t \in case.tuples : /\ t.key = set /\ t.subject \in Objects
                                 /\ Allows(case.schema, RefOf(t.key), TypeOf[t.subject])
                                 /\ s = Key(t.subject, c.rw.relation)
                                 /\ RefOf(s) \in Defined(case.schema)
    BY DEF Reads
  <2>2. t = [key |-> set, subject |-> t.subject]
    BY <1>1, <2>1 DEF Tuples
  <2>3. s.object = t.subject /\ s.relation = c.rw.relation
    BY <2>1 DEF Key
  <2> QED
    BY <2>1, <2>2, <2>3 DEF arrow, IsStored, accepts, IsDefined
<1> QED
  BY <1>2, <1>3

(* The calls relation makes, one for each key and in some order. *)
LEMMA SeqOfRelations ==
  ASSUME NEW S \in SUBSET Keys, NEW ks \in SetToSeqs(S),
         NEW calls, calls = [i \in DOMAIN ks |-> Relation(ks[i])]
  PROVE  /\ calls \in Seq(RelationCalls)
         /\ \A i \in DOMAIN calls : calls[i] = Relation(ks[i]) /\ ks[i] \in S
         /\ \A k \in S : \E i \in DOMAIN calls : calls[i] = Relation(k)
<1>1. IsFiniteSet(S)
  BY LimitAssumption, FS_Subset
<1>2. ks \in Seq(S) /\ \A k \in S : \E i \in DOMAIN ks : ks[i] = k
  BY <1>1, OrdersCover
<1>3. \A k \in S : Relation(k) \in RelationCalls
  BY DEF Relation, RelationCalls
<1>4. DOMAIN ks = 1 .. Len(ks) /\ Len(ks) \in Nat /\ \A i \in DOMAIN ks : ks[i] \in S
  BY <1>2
<1>5. calls \in [1 .. Len(ks) -> RelationCalls]
  BY <1>3, <1>4
<1> QED
  BY <1>2, <1>4, <1>5

(* What a rewrite calls is what its claim is made of. *)
LEMMA CallsMean ==
  ASSUME asked \in DOMAIN Cases, NEW rw, NEW k, Claim(rw, k) \in DOMAIN meaning,
         NEW calls \in Calls(rw, k)
  PROVE  /\ calls \in Seq(RelationCalls \cup RewriteCalls)
         /\ \A i \in DOMAIN calls : ClaimOf(calls[i]) \in Subclaims(case, Claim(rw, k))
         /\ \A d \in Subclaims(case, Claim(rw, k)) :
              \E i \in DOMAIN calls : ClaimOf(calls[i]) = d
         /\ \A i \in DOMAIN calls :
              calls[i].go = "relation" => IsDefined(calls[i].key)
<1> DEFINE c == Claim(rw, k)
<1>1. c.rw = rw /\ c.key = k
  BY DEF Claim
<1>2. /\ k \in Keys /\ rw.op \in Simple \cup Composite
      /\ \A s \in Reads(case, c) : s \in Keys /\ IsDefined(s)
      /\ Subclaims(case, c) \subseteq DOMAIN meaning
  BY <1>1, ClaimFacts
<1>3. ASSUME rw.op \notin Composite, NEW ks \in SetToSeqs(Reads(case, c)),
             calls = [i \in DOMAIN ks |-> Relation(ks[i])]
      PROVE  /\ calls \in Seq(RelationCalls \cup RewriteCalls)
             /\ \A i \in DOMAIN calls : ClaimOf(calls[i]) \in Subclaims(case, c)
             /\ \A d \in Subclaims(case, c) : \E i \in DOMAIN calls : ClaimOf(calls[i]) = d
             /\ \A i \in DOMAIN calls : calls[i].go = "relation" => IsDefined(calls[i].key)
  <2>1. Reads(case, c) \in SUBSET Keys
    BY <1>2
  <2>2. /\ calls \in Seq(RelationCalls)
        /\ \A i \in DOMAIN calls : calls[i] = Relation(ks[i]) /\ ks[i] \in Reads(case, c)
        /\ \A s \in Reads(case, c) : \E i \in DOMAIN calls : calls[i] = Relation(s)
    BY <1>3, <2>1, SeqOfRelations
  <2>3. \A s : ClaimOf(Relation(s)) = Says(case.schema, s) /\ Relation(s).key = s
    BY DEF ClaimOf, Relation, Said
  <2>4. Subclaims(case, c) = {Says(case.schema, s) : s \in Reads(case, c)}
    BY <1>1, <1>3 DEF Subclaims
  <2>5. \A i \in DOMAIN calls : ClaimOf(calls[i]) \in Subclaims(case, c)
    BY <2>2, <2>3, <2>4
  <2>6. \A d \in Subclaims(case, c) : \E i \in DOMAIN calls : ClaimOf(calls[i]) = d
    BY <2>2, <2>3, <2>4
  <2>7. \A i \in DOMAIN calls : IsDefined(calls[i].key)
    BY <1>2, <2>2, <2>3
  <2>8. calls \in Seq(RelationCalls \cup RewriteCalls)
    BY <2>2
  <2> QED
    BY <2>5, <2>6, <2>7, <2>8
<1>4. CASE rw.op = "this"
  <2>1. PICK ks \in SetToSeqs(followable(k)) : calls = [i \in DOMAIN ks |-> Relation(ks[i])]
    BY <1>4 DEF Calls
  <2>2. followable(k) = Reads(case, c)
    BY <1>1, <1>2, <1>4, ReadsFollowable
  <2> QED
    BY <1>3, <1>4, <2>1, <2>2 DEF Composite
<1>5. CASE rw.op = "tuple_to_userset"
  <2>1. PICK ks \in SetToSeqs(arrow(Key(k.object, rw.tupleset), rw.relation)) :
          calls = [i \in DOMAIN ks |-> Relation(ks[i])]
    BY <1>5 DEF Calls
  <2>2. arrow(Key(k.object, rw.tupleset), rw.relation) = Reads(case, c)
    BY <1>1, <1>2, <1>5, ReadsArrow
  <2> QED
    BY <1>3, <1>5, <2>1, <2>2 DEF Composite
<1>6. CASE rw.op = "computed_userset"
  <2> DEFINE s == Key(k.object, rw.relation)
  <2>1. calls = <<Relation(s)>>
    BY <1>6 DEF Calls
  <2>2. Reads(case, c) = {s}
    BY <1>1, <1>6 DEF Reads
  <2>3. s \in Keys /\ IsDefined(s)
    BY <1>2, <2>2
  <2>4. Subclaims(case, c) = {Says(case.schema, s)}
    BY <1>1, <1>6, <2>2 DEF Subclaims, Composite
  <2>5. /\ Relation(s) \in RelationCalls /\ Relation(s).key = s
        /\ ClaimOf(Relation(s)) = Says(case.schema, s)
    BY <2>3 DEF Relation, RelationCalls, ClaimOf, Said
  <2> QED
    BY <2>1, <2>3, <2>4, <2>5
<1>7. CASE rw.op \in Composite
  <2>1. calls = [i \in DOMAIN rw.children |-> Rewrite(rw.children[i], k)]
    BY <1>7 DEF Calls, Composite
  <2>2. Reads(case, c) = {}
    BY <1>1, <1>7 DEF Reads, Composite
  <2>3. Subclaims(case, c) = {Child(c, i) : i \in DOMAIN rw.children}
    BY <1>1, <1>7, <2>2 DEF Subclaims
  <2>4. \A i \in DOMAIN rw.children : ClaimOf(Rewrite(rw.children[i], k)) = Child(c, i)
    BY <1>1 DEF ClaimOf, Rewrite, Child, Claim
  <2>5. \A i \in DOMAIN rw.children : Rewrite(rw.children[i], k) \in RewriteCalls
    <3>1. \A i \in DOMAIN rw.children : Child(c, i) \in DOMAIN meaning
      BY <1>2, <2>3
    <3>2. \A i \in DOMAIN rw.children : Child(c, i).rw = rw.children[i]
      BY <1>1 DEF Child, Claim
    <3>3. \A i \in DOMAIN rw.children : rw.children[i] \in Rewrites
      BY <3>1, <3>2 DEF Rewrites
    <3> QED
      BY <1>2, <3>3 DEF Rewrite, RewriteCalls
  <2>6. DOMAIN rw.children = 1 .. Len(rw.children)
    BY <1>1, <1>2, <1>7, ClaimFacts
  <2>7. calls \in Seq(RewriteCalls)
    BY <2>1, <2>5, <2>6
  <2>8. \A i \in DOMAIN calls : calls[i].go # "relation"
    BY <2>1 DEF Rewrite
  <2>9. calls \in Seq(RelationCalls \cup RewriteCalls)
    BY <2>7
  <2> QED
    BY <2>1, <2>3, <2>4, <2>8, <2>9
<1> QED
  BY <1>2, <1>4, <1>5, <1>6, <1>7 DEF Simple

-----------------------------------------------------------------------------
(* A case means one thing. *)

(* What one claim of a meaning says of those it is made of.                *)
LEMMA MeaningOfClaim ==
  ASSUME NEW x, NEW g, IsMeaning(x, g), NEW c \in DOMAIN g
  PROVE  LET of == Subclaims(x, c)
             held == {d \in of : g[d].stage > 0}
             since == {d \in held : g[d].stage < g[c].stage}
         IN  /\ g[c].level \in Nat /\ g[c].stage \in Nat
             /\ of \subseteq DOMAIN g
             /\ \A d \in of : g[d].level <= g[c].level
             /\ c.rw.op = "exclusion" =>
                  g[Child(c, 2)].level < g[c].level /\ Child(c, 2) \in of
             /\ g[c].stage > 0 => Follows(x, c, since, of \ held)
             /\ Follows(x, c, held, of \ held) => g[c].stage > 0
<1>1. g[c] \in [level : Nat, stage : Nat] /\ WellFormed(x, c)
  BY DEF IsMeaning, Accounts, SpeaksOf
<1>2. c.rw.op = "exclusion" => Child(c, 2) \in Subclaims(x, c)
  <2>1. SUFFICES ASSUME c.rw.op = "exclusion" PROVE Child(c, 2) \in Subclaims(x, c)
    OBVIOUS
  <2>2. 2 \in DOMAIN c.rw.children /\ c.rw.op \in Composite
    BY <1>1, <2>1 DEF WellFormed, Composite
  <2> QED
    BY <2>2 DEF Subclaims
<1>3. LET of == Subclaims(x, c)
          held == {d \in of : g[d].stage > 0}
          since == {d \in held : g[d].stage < g[c].stage}
      IN  /\ of \subseteq DOMAIN g
          /\ \A d \in of : g[d].level <= g[c].level
          /\ c.rw.op = "exclusion" => g[Child(c, 2)].level < g[c].level
          /\ g[c].stage > 0 => Follows(x, c, since, of \ held)
          /\ Follows(x, c, held, of \ held) => g[c].stage > 0
  BY DEF IsMeaning, Accounts, SpeaksOf
<1> QED
  BY <1>1, <1>2, <1>3

(* A claim granted by g, all of whose reasons by g are granted by h.       *)
LEMMA GrantedByBoth ==
  ASSUME NEW x, NEW g, NEW h, IsMeaning(x, g), IsMeaning(x, h),
         NEW c \in DOMAIN g \cap DOMAIN h, g[c].stage > 0,
         \A d \in Subclaims(x, c) : g[d].stage > 0 /\ g[d].stage < g[c].stage => h[d].stage > 0,
         c.rw.op = "exclusion" => (g[Child(c, 2)].stage > 0 <=> h[Child(c, 2)].stage > 0)
  PROVE  h[c].stage > 0
<1> DEFINE of     == Subclaims(x, c)
           heldG  == {d \in of : g[d].stage > 0}
           heldH  == {d \in of : h[d].stage > 0}
           sinceG == {d \in heldG : g[d].stage < g[c].stage}
<1>1. Follows(x, c, sinceG, of \ heldG)
  BY MeaningOfClaim
<1>2. Follows(x, c, heldH, of \ heldH) => h[c].stage > 0
  BY MeaningOfClaim
<1>3. sinceG \subseteq heldH
  OBVIOUS
<1>4. c.rw.op = "exclusion" => (Child(c, 2) \in of \ heldG => Child(c, 2) \in of \ heldH)
  OBVIOUS
<1> HIDE DEF sinceG, heldH, heldG, of
<1>5. Follows(x, c, heldH, of \ heldH)
  BY <1>1, <1>3, <1>4 DEF Follows
<1> QED
  BY <1>2, <1>5

(* A schema and tuples mean one thing: two meanings of a case grant the    *)
(* same claims, so that what CheckAgrees compares with is the only answer. *)
(* Of the claims they would disagree on, take those of the lowest level,   *)
(* and of these one that either grants first: its reasons are agreed on.   *)
THEOREM MeaningIsUnique ==
  ASSUME NEW x, NEW g, NEW h, IsMeaning(x, g), IsMeaning(x, h)
  PROVE  \A c \in DOMAIN g \cap DOMAIN h : g[c].stage > 0 <=> h[c].stage > 0
<1> DEFINE Split == {c \in DOMAIN g \cap DOMAIN h : ~(g[c].stage > 0 <=> h[c].stage > 0)}
<1>1. SUFFICES ASSUME Split # {} PROVE FALSE
  OBVIOUS
<1>2. \A c \in DOMAIN g : g[c].level \in Nat /\ g[c].stage \in Nat
  BY MeaningOfClaim
<1>3. \A c \in DOMAIN h : h[c].stage \in Nat
  BY MeaningOfClaim
<1>4. PICK low \in Nat : /\ \E c \in Split : g[c].level = low
                         /\ \A c \in Split : ~(g[c].level < low)
  <2> DEFINE T == {g[c].level : c \in Split}
  <2>1. T \subseteq Nat /\ T # {}
    BY <1>1, <1>2
  <2> HIDE DEF T
  <2>2. PICK m \in T : \A t \in T : ~(<<t, m>> \in OpToRel(<, Nat))
    BY <2>1, NatLessThanWellFounded, WFMin, Zenon
  <2>3. \A t \in T : ~(t < m)
    BY <2>1, <2>2 DEF OpToRel
  <2> QED
    BY <2>1, <2>3 DEF T
<1> DEFINE Lowest == {c \in Split : g[c].level = low}
           First(c) == IF g[c].stage > 0 THEN g[c].stage ELSE h[c].stage
<1>5. PICK c \in Lowest : \A d \in Lowest : ~(First(d) < First(c))
  <2> DEFINE T == {First(d) : d \in Lowest}
  <2>1. T \subseteq Nat /\ T # {}
    BY <1>2, <1>3, <1>4
  <2> HIDE DEF T
  <2>2. PICK m \in T : \A t \in T : ~(<<t, m>> \in OpToRel(<, Nat))
    BY <2>1, NatLessThanWellFounded, WFMin, Zenon
  <2>3. \A t \in T : ~(t < m)
    BY <2>1, <2>2 DEF OpToRel
  <2> QED
    BY <2>3 DEF T
<1>6. \A d \in Subclaims(x, c) :
        /\ d \in DOMAIN g \cap DOMAIN h
        /\ d \in Split => d \in Lowest
  <2>1. \A d \in Subclaims(x, c) : d \in DOMAIN g /\ g[d].level <= g[c].level
    BY MeaningOfClaim
  <2>2. \A d \in Subclaims(x, c) : d \in DOMAIN h
    BY MeaningOfClaim
  <2> QED
    BY <1>2, <1>4, <2>1, <2>2
<1>7. c.rw.op = "exclusion" => (g[Child(c, 2)].stage > 0 <=> h[Child(c, 2)].stage > 0)
  <2>1. SUFFICES ASSUME c.rw.op = "exclusion" PROVE Child(c, 2) \notin Split
    BY <1>6, MeaningOfClaim
  <2>2. g[Child(c, 2)].level < g[c].level
    BY <2>1, MeaningOfClaim
  <2> QED
    BY <1>4, <2>2
<1>8. CASE g[c].stage > 0
  <2>1. \A d \in Subclaims(x, c) : g[d].stage > 0 /\ g[d].stage < g[c].stage => h[d].stage > 0
    BY <1>2, <1>3, <1>5, <1>6, <1>8
  <2> QED
    BY <1>7, <1>8, <2>1, GrantedByBoth
<1>9. CASE ~(g[c].stage > 0)
  <2>1. h[c].stage > 0
    BY <1>9
  <2>2. \A d \in Subclaims(x, c) : h[d].stage > 0 /\ h[d].stage < h[c].stage => g[d].stage > 0
    BY <1>2, <1>3, <1>5, <1>6, <1>9
  <2> QED
    BY <1>7, <1>9, <2>1, <2>2, GrantedByBoth
<1> QED
  BY <1>8, <1>9

-----------------------------------------------------------------------------
(* The call stack. *)

-----------------------------------------------------------------------------
(* The call stack as a sequence. *)

(* What Append does to a sequence. *)
LEMMA Pushed ==
  ASSUME NEW S, NEW s \in Seq(S), NEW e \in S
  PROVE  /\ Append(s, e) \in Seq(S)
         /\ Len(Append(s, e)) = Len(s) + 1
         /\ DOMAIN Append(s, e) = 1 .. Len(s) + 1
         /\ \A i \in 1 .. Len(s) : Append(s, e)[i] = s[i]
         /\ Append(s, e)[Len(s) + 1] = e
  OBVIOUS

(* What Front leaves of a sequence. *)
LEMMA Dropped ==
  ASSUME NEW S, NEW s \in Seq(S), s # <<>>
  PROVE  /\ Front(s) \in Seq(S)
         /\ Len(Front(s)) = Len(s) - 1
         /\ DOMAIN Front(s) = 1 .. Len(s) - 1
         /\ \A i \in 1 .. Len(s) - 1 : Front(s)[i] = s[i]
<1>1. Len(s) - 1 \in Nat /\ \A i \in 1 .. Len(s) - 1 : s[i] \in S
  OBVIOUS
<1>2. Front(s) = [i \in 1 .. Len(s) - 1 |-> s[i]]
  BY <1>1 DEF Front
<1> QED
  BY <1>1, <1>2

(* What changing the last of a sequence does. *)
LEMMA Replaced ==
  ASSUME NEW S, NEW s \in Seq(S), s # <<>>, NEW e \in S
  PROVE  /\ [s EXCEPT ![Len(s)] = e] \in Seq(S)
         /\ Len([s EXCEPT ![Len(s)] = e]) = Len(s)
         /\ DOMAIN [s EXCEPT ![Len(s)] = e] = 1 .. Len(s)
         /\ \A i \in 1 .. Len(s) - 1 : [s EXCEPT ![Len(s)] = e][i] = s[i]
         /\ [s EXCEPT ![Len(s)] = e][Len(s)] = e
  OBVIOUS

(* What changing any place of a sequence does. *)
LEMMA Updated ==
  ASSUME NEW S, NEW s \in Seq(S), NEW i, NEW e, i \in DOMAIN s => e \in S
  PROVE  [s EXCEPT ![i] = e] \in Seq(S)
<1>1. CASE i \in DOMAIN s
  BY <1>1
<1>2. CASE i \notin DOMAIN s
  <2>1. [s EXCEPT ![i] = e] = s
    BY <1>2
  <2> QED
    BY <2>1
<1> QED
  BY <1>1, <1>2

(* The last of a sequence that is not empty. *)
LEMMA OnTop ==
  ASSUME NEW S, NEW s \in Seq(S), s # <<>>
  PROVE  /\ Len(s) \in Nat \ {0}
         /\ Len(s) \in DOMAIN s
         /\ Last(s) = s[Len(s)]
         /\ Last(s) \in S
  BY DEF Last

-----------------------------------------------------------------------------
(* What is asked does not change. *)

(* The case asked never changes, and neither does what it means. *)
LEMMA CaseKept ==
  ASSUME asked' = asked
  PROVE  /\ case' = case /\ meaning' = meaning
         /\ \A k : Said(k)' = Said(k)
         /\ \A k : IsDefined(k)' <=> IsDefined(k)
         /\ \A k : Definition(k)' = Definition(k)
         /\ \A c : ClaimOf(c)' = ClaimOf(c)
         /\ \A f : OperandsShape(f)' <=> OperandsShape(f)
         /\ Rewrites' = Rewrites
<1>1. case' = case /\ meaning' = meaning
  BY DEF case, meaning
<1>2. \A k : /\ Said(k)' = Said(k)
             /\ IsDefined(k)' <=> IsDefined(k)
             /\ Definition(k)' = Definition(k)
  BY <1>1 DEF Said, IsDefined, Definition
<1>3. \A c : ClaimOf(c)' = ClaimOf(c)
  BY <1>2 DEF ClaimOf
<1>4. \A rw, k : Calls(rw, k)' = Calls(rw, k)
  BY <1>1, <1>2 DEF Calls, followable, arrow, IsStored, accepts
<1>5. \A k : wildcardGrants(k)' <=> wildcardGrants(k)
  BY <1>1 DEF wildcardGrants, IsStored, accepts
<1>6. \A k : directGrants(k)' <=> directGrants(k)
  BY <1>1 DEF directGrants, IsStored, accepts
<1>7. \A f : OperandsShape(f)' <=> OperandsShape(f)
  BY <1>1, <1>3, <1>4, <1>5, <1>6 DEF OperandsShape
<1>8. Rewrites' = Rewrites
  BY <1>1 DEF Rewrites
<1> QED
  BY <1>1, <1>2, <1>3, <1>7, <1>8

(* The types that speak of the schema do not either. *)
LEMMA TypesKept ==
  ASSUME asked' = asked
  PROVE  Frames' = Frames /\ RewriteCalls' = RewriteCalls
  BY CaseKept DEF Frames, OperandsFrames, RewriteCalls, RelationCalls, RelationFrames, Backs

-----------------------------------------------------------------------------
(* The recorder records proofs. *)

(* open returns a node or none. *)
LEMMA NewNodeType ==
  ASSUME proof \in Proofs
  PROVE  NewNode \in Nat
  BY DEF NewNode, NoNode, Proofs

(* open and leaf keep the recorder's type. *)
LEMMA OpenedType ==
  ASSUME proof \in Proofs, NEW k \in Keys, NEW op \in Operators, NEW outcome \in Outcomes,
         NEW memoized \in BOOLEAN
  PROVE  Opened(k, op, outcome, memoized) \in Proofs
<1> DEFINE node == [key |-> k, op |-> op, outcome |-> outcome, memoized |-> memoized,
                    children |-> <<>>]
<1>1. node \in Nodes
  BY DEF Nodes
<1>2. Append(proof.nodes, node) \in Seq(Nodes)
  BY <1>1 DEF Proofs
<1> HIDE DEF node
<1>3. [proof EXCEPT !.nodes = Append(@, node)] \in Proofs
  BY <1>2 DEF Proofs
<1>4. [proof EXCEPT !.truncated = TRUE] \in Proofs
  BY DEF Proofs
<1> QED
  BY <1>3, <1>4 DEF Opened, node

(* close keeps it. *)
LEMMA ClosedType ==
  ASSUME NEW p \in Proofs, NEW node, NEW allowed
  PROVE  Closed(p, node, allowed) \in Proofs
<1> DEFINE outcome == IF allowed THEN "allowed" ELSE "denied"
           nodes   == [p.nodes EXCEPT ![node] = [p.nodes[node] EXCEPT !.outcome = outcome]]
<1>1. p.nodes \in Seq(Nodes)
  BY DEF Proofs
<1>5. outcome \in Outcomes
  BY DEF Outcomes
<1> HIDE DEF outcome
<1>2. node \in DOMAIN p.nodes => [p.nodes[node] EXCEPT !.outcome = outcome] \in Nodes
  <2>1. node \in DOMAIN p.nodes => p.nodes[node] \in Nodes
    BY <1>1
  <2> QED
    BY <1>5, <2>1 DEF Nodes
<1>3. nodes \in Seq(Nodes)
  BY <1>1, <1>2, Updated
<1>4. [p EXCEPT !.nodes = nodes] \in Proofs
  BY <1>3 DEF Proofs
<1> QED
  BY <1>4 DEF Closed, outcome

(* addChild keeps it. *)
LEMMA AddChildType ==
  ASSUME NEW p \in Proofs, NEW parent, NEW child \in Nat
  PROVE  addChild(p, parent, child) \in Proofs
<1> DEFINE children == Append(p.nodes[parent].children, child)
           nodes    == [p.nodes EXCEPT ![parent] = [p.nodes[parent] EXCEPT !.children = children]]
<1>1. p.nodes \in Seq(Nodes)
  BY DEF Proofs
<1>2. parent \in DOMAIN p.nodes => [p.nodes[parent] EXCEPT !.children = children] \in Nodes
  <2>1. SUFFICES ASSUME parent \in DOMAIN p.nodes
                 PROVE  [p.nodes[parent] EXCEPT !.children = children] \in Nodes
    OBVIOUS
  <2>2. p.nodes[parent] \in Nodes
    BY <1>1, <2>1
  <2>3. children \in Seq(Nat)
    BY <2>2 DEF Nodes
  <2> HIDE DEF children
  <2> QED
    BY <2>2, <2>3 DEF Nodes
<1>3. nodes \in Seq(Nodes)
  BY <1>1, <1>2, Updated
<1>4. [p EXCEPT !.nodes = nodes] \in Proofs
  BY <1>3 DEF Proofs
<1> QED
  BY <1>4 DEF addChild

(* pause and resume keep it. *)
LEMMA PausedType ==
  ASSUME NEW p \in Proofs
  PROVE  pause(p) \in Proofs /\ resume(p) \in Proofs
  BY DEF pause, resume, Proofs

-----------------------------------------------------------------------------
(* Most steps move neither Tarjan's stack nor which relations are open. *)

SameCall(f, g) ==
  /\ f.at = "operands" <=> g.at = "operands"
  /\ f.at = "operands" => f.rw = g.rw /\ f.key = g.key /\ f.calls = g.calls
  /\ f.at # "operands" =>
       f.key = g.key /\ f.index = g.index /\ f.pos = g.pos /\ f.outer = g.outer

Calm ==
  /\ asked' = asked /\ index' = index /\ stack' = stack /\ depth' = depth
  /\ \A k \in Keys : /\ memo'[k].index = memo[k].index
                     /\ memo'[k].state = "none" <=> memo[k].state = "none"
  /\ \A i \in DOMAIN frames \cap DOMAIN frames' :
       /\ SameCall(frames[i], frames'[i])
       /\ i # Len(frames) \/ i # Len(frames') => frames'[i] = frames[i]
  /\ \A i \in DOMAIN frames \ DOMAIN frames' : ~Opens(i)
  /\ \A i \in DOMAIN frames' \ DOMAIN frames : ~Opens(i)'
  /\ Len(frames) - 1 <= Len(frames') /\ Len(frames') <= Len(frames) + 1
  /\ next.go = "turn" => Len(frames') = Len(frames)

(* The two kinds of frames have their own fields. *)
LEMMA FrameTypes ==
  ASSUME Typed, NEW i \in DOMAIN frames
  PROVE  /\ Opens(i) => frames[i] \in RelationFrames
         /\ ~Opens(i) => frames[i] \in OperandsFrames
         /\ DOMAIN frames = 1 .. Len(frames) /\ Len(frames) \in Nat
  BY DEF Typed, Frames, Opens, OperandsFrames, RelationFrames

(* A calm step enters no relation and leaves none. *)
LEMMA CalmOpens ==
  ASSUME Calm, Typed, Typed'
  PROVE  /\ \A i \in DOMAIN frames : Opens(i) => i \in DOMAIN frames' /\ Opens(i)'
         /\ \A i \in DOMAIN frames' : Opens(i)' => i \in DOMAIN frames /\ Opens(i)
         /\ \A i \in DOMAIN frames : Opens(i) =>
              /\ frames'[i].key = frames[i].key /\ frames'[i].index = frames[i].index
              /\ frames'[i].pos = frames[i].pos /\ frames'[i].outer = frames[i].outer
<1>1. \A i \in DOMAIN frames : Opens(i) => i \in DOMAIN frames'
  BY DEF Calm
<1>2. \A i \in DOMAIN frames' : Opens(i)' => i \in DOMAIN frames
  BY DEF Calm
<1>3. \A i \in DOMAIN frames \cap DOMAIN frames' : SameCall(frames[i], frames'[i])
  BY DEF Calm
<1> QED
  BY <1>1, <1>2, <1>3 DEF SameCall, Opens

(* A calm step moves no key onto the stack or off it. *)
LEMMA CalmMemo ==
  ASSUME Calm
  PROVE  /\ asked' = asked /\ index' = index /\ stack' = stack /\ depth' = depth
         /\ \A k \in Keys : /\ memo'[k].index = memo[k].index
                            /\ memo'[k].state = "none" <=> memo[k].state = "none"
  BY DEF Calm

(* A calm step pushes or pops one frame at most, and no one's turn. *)
LEMMA CalmLength ==
  ASSUME Calm
  PROVE  /\ Len(frames) - 1 <= Len(frames') /\ Len(frames') <= Len(frames) + 1
         /\ next.go = "turn" => Len(frames') = Len(frames)
  BY DEF Calm

(* A calm step keeps the facts of depth, memo and stack. *)
LEMMA CalmFacts ==
  ASSUME Calm, Typed, Typed', Facts, FailedForCause'
  PROVE  Facts'
<1>1. DepthOK'
  <2>1. {i \in DOMAIN frames : frames[i].at # "operands"}'
          = {i \in DOMAIN frames : frames[i].at # "operands"}
    BY CalmOpens DEF Opens
  <2> QED
    BY <2>1, CalmMemo DEF Facts, DepthOK
<1>2. MemoKnown'
  BY CaseKept, CalmMemo DEF Facts, MemoKnown
<1>3. StackInOrder'
  <2>1. \A i \in DOMAIN stack : stack[i] \in Keys
    BY DEF Typed
  <2> QED
    BY <2>1, CalmMemo DEF Facts, StackInOrder
<1> QED
  BY <1>1, <1>2, <1>3 DEF Facts

(* The relations that stay open keep their place on Tarjan's stack. *)
LEMMA CalmShape ==
  ASSUME Calm, Typed, Typed', Shape
  PROVE  /\ \A i \in DOMAIN frames' : Opens(i)' => RelationShape(i)'
         /\ \A i \in DOMAIN frames' : i # Len(frames') /\ ~Opens(i)' => OperandsShape(frames[i])'
         /\ \A i \in DOMAIN frames' : i # Len(frames') /\ frames'[i].at = "settle" => SettleShape(i)'
<1>1. DOMAIN frames = 1 .. Len(frames) /\ Len(frames) \in Nat
      /\ DOMAIN frames' = 1 .. Len(frames') /\ Len(frames') \in Nat
  BY DEF Typed
<1>2. ASSUME NEW i \in DOMAIN frames', Opens(i)'
      PROVE  RelationShape(i)'
  <2>1. i \in DOMAIN frames /\ Opens(i)
    BY <1>2, CalmOpens
  <2>2. RelationShape(i)
    BY <2>1 DEF Shape
  <2>3. frames[i].key \in Keys
    BY <2>1, FrameTypes DEF RelationFrames
  <2>4. /\ frames'[i].key = frames[i].key /\ frames'[i].index = frames[i].index
        /\ frames'[i].pos = frames[i].pos /\ frames'[i].outer = frames[i].outer
    BY <2>1, CalmOpens
  <2>5. \A j \in i + 1 .. Len(frames') : Opens(j)' => frames[i].index < frames'[j].index
    <3>1. \A j \in i + 1 .. Len(frames') : j \in DOMAIN frames'
      BY <1>1
    <3>2. \A j \in i + 1 .. Len(frames') : j \in DOMAIN frames => j \in i + 1 .. Len(frames)
      BY <1>1
    <3> QED
      BY <2>2, <3>1, <3>2, CalmOpens DEF RelationShape
  <2>6. memo'[frames[i].key].index = memo[frames[i].key].index /\ stack' = stack
    BY <2>3, CalmMemo
  <2> QED
    BY <2>2, <2>4, <2>5, <2>6 DEF RelationShape
<1>3. ASSUME NEW i \in DOMAIN frames', i # Len(frames'), ~Opens(i)'
      PROVE  OperandsShape(frames[i])'
  <2>1. i \in DOMAIN frames
    <3>1. Len(frames') <= Len(frames) + 1
      BY <1>1, CalmLength
    <3> QED
      BY <1>1, <1>3, <3>1
  <2>2. frames'[i] = frames[i]
    BY <1>3, <2>1 DEF Calm
  <2>3. OperandsShape(frames[i])
    BY <1>3, <2>1, <2>2 DEF Shape, Opens
  <2>4. OperandsShape(frames[i])' <=> OperandsShape(frames'[i])
    BY CalmMemo, CaseKept
  <2> QED
    BY <2>2, <2>3, <2>4
<1>4. ASSUME NEW i \in DOMAIN frames', i # Len(frames'), frames'[i].at = "settle"
      PROVE  SettleShape(i)'
  <2>1. Opens(i)'
    BY <1>4 DEF Opens
  <2>2. i \in DOMAIN frames /\ Opens(i)
    BY <2>1, CalmOpens
  <2>3. frames'[i] = frames[i]
    BY <1>4, <2>2 DEF Calm
  <2>4. SettleShape(i)
    BY <1>4, <2>2, <2>3 DEF Shape
  <2>5. frames[i].turn # frames[i].size + 1
    BY <1>1, <1>4, <2>4 DEF SettleShape, Calm
  <2>6. LastMember(frames[i]) \in Keys
    BY <2>4 DEF SettleShape, LastMember, Typed
  <2>7. memo'[LastMember(frames[i])].index = memo[LastMember(frames[i])].index
        /\ stack' = stack
    BY <2>6, CalmMemo
  <2>8. \A j \in i + 1 .. Len(frames') :
          Opens(j)' => memo[LastMember(frames[i])].index < frames'[j].index
    <3>1. \A j \in i + 1 .. Len(frames') : j \in DOMAIN frames'
      BY <1>1
    <3>2. \A j \in i + 1 .. Len(frames') : j \in DOMAIN frames => j \in i + 1 .. Len(frames)
      BY <1>1
    <3> QED
      BY <2>4, <3>1, <3>2, CalmOpens DEF SettleShape
  <2> QED
    BY <2>3, <2>4, <2>5, <2>7, <2>8 DEF SettleShape, LastMember
<1> QED
  BY <1>2, <1>3, <1>4

(* What happens next has the fields of its kind. *)
LEMMA NextTypes ==
  ASSUME Typed
  PROVE  /\ next.go = "relation" => next \in RelationCalls
         /\ next.go = "rewrite" => next \in RewriteCalls
         /\ next.go = "back" => next \in Backs
         /\ next.go = "test" => next \in Tests
         /\ next.go \in {"relation", "rewrite", "back", "test", "turn"}
  BY DEF Typed, RelationCalls, RewriteCalls, Backs, Tests, Turn

(* Every open relation is on Tarjan's stack. *)
LEMMA OpenOnStack ==
  ASSUME Facts, Shape, NEW i \in DOMAIN frames, Opens(i)
  PROVE  /\ frames[i] \in RelationFrames
         /\ frames[i].key \in Keys
         /\ frames[i].index \in Nat \ {0}
         /\ memo[frames[i].key].index = frames[i].index
         /\ memo[frames[i].key].state # "none"
         /\ IsDefined(frames[i].key) /\ Said(frames[i].key) \in DOMAIN meaning
<1>1. Typed /\ MemoKnown /\ StackInOrder
  BY DEF Facts
<1>2. frames[i] \in RelationFrames /\ frames[i].key \in Keys
  BY <1>1, FrameTypes DEF RelationFrames
<1>3. RelationShape(i)
  BY DEF Shape
<1>4. frames[i].pos + 1 \in DOMAIN stack /\ stack[frames[i].pos + 1] = frames[i].key
      /\ memo[frames[i].key].index = frames[i].index
  BY <1>3 DEF RelationShape
<1>5. memo[frames[i].key].index # 0
  BY <1>1, <1>2, <1>4 DEF StackInOrder
<1>6. memo[frames[i].key] \in Memos
  BY <1>1, <1>2 DEF Typed
<1>7. memo[frames[i].key].index \in Nat
  BY <1>6 DEF Memos
<1> QED
  BY <1>1, <1>2, <1>4, <1>5, <1>7 DEF MemoKnown

(* And so is every member a component settles. *)
LEMMA OnStack ==
  ASSUME Facts, NEW p \in DOMAIN stack
  PROVE  /\ stack[p] \in Keys
         /\ memo[stack[p]].index \in Nat \ {0}
         /\ memo[stack[p]].state # "none"
         /\ IsDefined(stack[p]) /\ Said(stack[p]) \in DOMAIN meaning
<1>1. Typed /\ MemoKnown /\ StackInOrder
  BY DEF Facts
<1>2. stack[p] \in Keys
  BY <1>1 DEF Typed
<1>3. memo[stack[p]].index # 0
  BY <1>1, <1>2 DEF StackInOrder
<1>4. memo[stack[p]] \in Memos
  BY <1>1, <1>2 DEF Typed
<1>5. memo[stack[p]].index \in Nat
  BY <1>4 DEF Memos
<1> QED
  BY <1>1, <1>2, <1>3, <1>5 DEF MemoKnown

(* What a frame waits for, its rewrite or its members ask for. *)
LEMMA AwaitedClaim ==
  ASSUME Facts, Shape, NEW i \in DOMAIN frames,
         frames[i].at = "settle" => frames[i].turn # frames[i].size + 1
  PROVE  /\ Awaits(frames[i]) \in RelationCalls \cup RewriteCalls
         /\ ClaimOf(Awaits(frames[i])) \in DOMAIN meaning
         /\ Awaits(frames[i]).go = "relation" => IsDefined(Awaits(frames[i]).key)
<1> DEFINE f == frames[i]
<1>1. Typed /\ asked \in DOMAIN Cases
  BY DEF Facts, Typed
<1>2. \A k \in Keys : Said(k) \in DOMAIN meaning =>
        /\ Rewrite(Definition(k), k) \in RewriteCalls
        /\ Rewrite(Definition(k), k).go = "rewrite"
        /\ ClaimOf(Rewrite(Definition(k), k)) = Said(k)
  <2>1. \A k : Said(k) = Claim(Definition(k), k) /\ Said(k).rw = Definition(k)
    BY DEF Said, Says, Definition, Claim
  <2> QED
    BY <2>1 DEF Rewrite, RewriteCalls, Rewrites, ClaimOf
<1>3. CASE f.at = "operands"
  <2>1. f \in OperandsFrames /\ OperandsShape(f)
    BY <1>1, <1>3, FrameTypes DEF Shape, Opens
  <2>2. Awaits(f) = f.calls[f.turn]
    BY <1>3 DEF Awaits
  <2>3. ClaimOf(Serves(f)) = Claim(f.rw, f.key)
    BY <1>3 DEF Serves, ClaimOf, Rewrite
  <2>4. /\ f.calls \in Seq(RelationCalls \cup RewriteCalls)
        /\ ClaimOf(f.calls[f.turn]) \in Subclaims(case, Claim(f.rw, f.key))
        /\ f.calls[f.turn].go = "relation" => IsDefined(f.calls[f.turn].key)
    BY <1>1, <2>1, <2>3, CallsMean DEF OperandsShape
  <2>5. Subclaims(case, Claim(f.rw, f.key)) \subseteq DOMAIN meaning
    BY <1>1, <2>1, <2>3, ClaimFacts DEF OperandsShape
  <2> QED
    BY <2>1, <2>2, <2>4, <2>5 DEF OperandsShape
<1>4. CASE f.at = "relation"
  <2>1. f.key \in Keys /\ Said(f.key) \in DOMAIN meaning
    BY <1>4, OpenOnStack DEF Opens
  <2>2. Awaits(f) = Rewrite(Definition(f.key), f.key)
    BY <1>4 DEF Awaits
  <2> QED
    BY <1>2, <2>1, <2>2
<1>5. CASE f.at = "settle"
  <2>1. f \in RelationFrames /\ RelationShape(i) /\ SettleShape(i)
    BY <1>1, <1>5, FrameTypes DEF Shape, Opens
  <2>2. f.pos + f.turn \in DOMAIN stack
    BY <1>1, <1>5, <2>1 DEF SettleShape, RelationFrames, Typed
  <2>3. Member(f) \in Keys /\ Said(Member(f)) \in DOMAIN meaning
    BY <2>2, OnStack DEF Member
  <2>4. Awaits(f) = Rewrite(Definition(Member(f)), Member(f))
    BY <1>5 DEF Awaits
  <2> QED
    BY <1>2, <2>3, <2>4
<1>6. f.at \in {"operands", "relation", "settle"}
  BY <1>1, FrameTypes DEF OperandsFrames, RelationFrames
<1> QED
  BY <1>3, <1>4, <1>5, <1>6

(* What is called is asked for by what called it, or is all that is asked. *)
LEMMA CalledClaim ==
  ASSUME Facts, Shape, next.go \in {"relation", "rewrite"}
  PROVE  /\ next.key \in Keys
         /\ next.go = "rewrite" => Claim(next.rw, next.key) \in DOMAIN meaning /\ frames # <<>>
         /\ next.go = "relation" =>
              /\ ~IsDefined(next.key) => ~IsDefined(case.key)
              /\ IsDefined(next.key) => Said(next.key) \in DOMAIN meaning
<1>1. Typed /\ asked \in DOMAIN Cases
  BY DEF Facts, Typed
<1>2. next.key \in Keys
  BY <1>1, NextTypes DEF RelationCalls, RewriteCalls
<1>3. CASE frames = <<>>
  <2>1. next = Relation(case.key)
    BY <1>3 DEF Shape, Chain
  <2>2. IsDefined(case.key) => Said(case.key) \in DOMAIN meaning
    BY <1>1, CaseFacts DEF IsMeaning, Accounts, SpeaksOf, IsDefined, Said
  <2> QED
    BY <1>2, <2>1, <2>2 DEF Relation
<1>4. CASE frames # <<>>
  <2>1. Len(frames) \in DOMAIN frames /\ Last(frames) = frames[Len(frames)]
    BY <1>1, <1>4, OnTop DEF Typed
  <2>2. next = Awaits(frames[Len(frames)])
    BY <1>4, <2>1 DEF Shape, Chain
  <2>3. frames[Len(frames)].at = "settle" => frames[Len(frames)].turn # frames[Len(frames)].size + 1
    BY <2>1 DEF Shape, SettleShape
  <2>4. /\ ClaimOf(next) \in DOMAIN meaning
        /\ next.go = "relation" => IsDefined(next.key)
    BY <2>1, <2>2, <2>3, AwaitedClaim
  <2> QED
    BY <1>2, <1>4, <2>4 DEF ClaimOf
<1> QED
  BY <1>3, <1>4

(* What a frame waits for is read from itself and the stack alone. *)
LEMMA AwaitsKept ==
  ASSUME asked' = asked, stack' = stack
  PROVE  \A f : Awaits(f)' = Awaits(f)
<1>1. \A k : Definition(k)' = Definition(k)
  BY CaseKept
<1>2. \A f : Member(f)' = Member(f)
  BY DEF Member
<1> QED
  BY <1>1, <1>2 DEF Awaits

(* A calm step keeps the chain of calls up to its last. *)
LEMMA CalmChain ==
  ASSUME Calm, Typed, Typed', Shape,
         Len(frames') > Len(frames) =>
           frames # <<>> /\ Serves(frames'[Len(frames')]) = Awaits(Last(frames)),
         next'.go # "back" => frames' # <<>>,
         next'.go \in {"relation", "rewrite"} => next' = Awaits(frames[Len(frames)])',
         next'.go = "test" => frames'[Len(frames')].at = "relation",
         next'.go = "turn" => frames'[Len(frames')].at = "settle"
  PROVE  Chain'
<1>1. DOMAIN frames = 1 .. Len(frames) /\ Len(frames) \in Nat
      /\ DOMAIN frames' = 1 .. Len(frames') /\ Len(frames') \in Nat
      /\ (frames = <<>> <=> Len(frames) = 0) /\ (frames' = <<>> <=> Len(frames') = 0)
  BY DEF Typed
<1>2. Len(frames) - 1 <= Len(frames') /\ Len(frames') <= Len(frames) + 1
  BY CalmLength
<1>3. asked' = asked /\ stack' = stack /\ case' = case
  BY CalmMemo, CaseKept
<1>4. ASSUME NEW i \in DOMAIN frames' \cap DOMAIN frames
      PROVE  Serves(frames'[i]) = Serves(frames[i])
  <2>1. SameCall(frames[i], frames'[i])
    BY DEF Calm
  <2> QED
    BY <2>1 DEF SameCall, Serves
<1>5. frames' # <<>> => Serves(frames'[1]) = Relation(case.key)
  <2>1. frames' # <<>> => frames # <<>>
    BY <1>1, <1>2
  <2>2. frames # <<>> => Serves(frames[1]) = Relation(case.key)
    BY DEF Shape, Chain
  <2> QED
    BY <1>1, <1>4, <2>1, <2>2
<1>6. ASSUME NEW i \in 1 .. Len(frames') - 1
      PROVE  Serves(frames'[i + 1]) = Awaits(frames[i])'
  <2>1. i \in DOMAIN frames' /\ i \in DOMAIN frames /\ i # Len(frames') /\ i + 1 \in DOMAIN frames'
    BY <1>1, <1>2
  <2>2. frames'[i] = frames[i]
    BY <2>1 DEF Calm
  <2>3. Awaits(frames[i])' = Awaits(frames[i])
    BY <1>3, <2>2, AwaitsKept
  <2>4. CASE i + 1 \in DOMAIN frames
    <3>1. Serves(frames[i + 1]) = Awaits(frames[i])
      BY <1>1, <2>4 DEF Shape, Chain
    <3> QED
      BY <1>4, <2>1, <2>3, <2>4, <3>1
  <2>5. CASE i + 1 \notin DOMAIN frames
    <3>1. i = Len(frames) /\ i + 1 = Len(frames')
      BY <1>1, <1>2, <2>1, <2>5
    <3>2. Last(frames) = frames[i]
      BY <3>1 DEF Last
    <3> QED
      BY <1>1, <2>3, <3>1, <3>2
  <2> QED
    BY <2>4, <2>5
<1>7. \A i \in 1 .. Len(frames') - 1 : (Serves(frames[i + 1]) = Awaits(frames[i]))'
  <2>1. \A i : Serves(frames[i + 1])' = Serves(frames'[i + 1])
    OBVIOUS
  <2> QED
    BY <1>6, <2>1
<1>8. Last(frames)' = frames'[Len(frames')]
  BY DEF Last
<1> QED
  BY <1>3, <1>5, <1>7, <1>8, AwaitsKept DEF Chain

(* What is left to show of a calm step. *)
LEMMA CalmStep ==
  ASSUME Calm, Facts, Typed', Shape, Chain', FailedForCause',
         frames' # <<>> => LET n == Len(frames')
                               f == frames'[n]
                           IN  /\ f.at = "operands" => OperandsShape(f)
                               /\ f.at = "settle" =>
                                    /\ f.turn \in 1 .. f.size + 1
                                    /\ f.turn = f.size + 1 => next'.go = "turn"
                                    /\ f.pos + f.size \in DOMAIN stack
  PROVE  Facts' /\ Shape'
<1>1. Typed
  BY DEF Facts
<1>2. Facts'
  BY <1>1, CalmFacts
<1>3. DOMAIN frames' = 1 .. Len(frames') /\ Len(frames') \in Nat /\ asked' = asked /\ stack' = stack
  BY CalmMemo DEF Typed
<1>4. ASSUME NEW i \in DOMAIN frames'
      PROVE  /\ ~Opens(i)' => OperandsShape(frames[i])'
             /\ Opens(i)' => RelationShape(i)'
             /\ frames'[i].at = "settle" => SettleShape(i)'
  <2>1. CASE i # Len(frames')
    BY <1>1, <2>1, CalmShape
  <2>2. CASE i = Len(frames')
    <3> DEFINE f == frames'[i]
    <3>1. frames' # <<>>
      BY <1>3
    <3>2. Opens(i)' => RelationShape(i)'
      BY <1>1, CalmShape
    <3>3. ~Opens(i)' => OperandsShape(frames[i])'
      BY <1>3, <2>2, <3>1, CaseKept DEF Opens
    <3>4. f.at = "settle" => SettleShape(i)'
      <4>1. \A j \in i + 1 .. Len(frames') : FALSE
        BY <1>3, <2>2
      <4> QED
        BY <1>3, <2>2, <3>1, <4>1 DEF SettleShape, LastMember
    <3> QED
      BY <3>2, <3>3, <3>4
  <2> QED
    BY <2>1, <2>2
<1> QED
  BY <1>2, <1>4 DEF Shape

-----------------------------------------------------------------------------
(* The steps, by what they do to the call stack. *)

(* Types, variable by variable. *)
LEMMA TypedStep ==
  ASSUME Typed, asked' = asked, memo' \in [Keys -> Memos],
         index' \in Nat, lowlink' \in Nat, depth' \in Nat, stack' \in Seq(Keys),
         frames' \in Seq(Frames),
         next' \in RelationCalls \cup RewriteCalls \cup Backs \cup Tests \cup {Turn},
         proof' \in Proofs
  PROVE  Typed'
<1>1. Frames' = Frames /\ RewriteCalls' = RewriteCalls
  BY TypesKept
<1> QED
  BY <1>1 DEF Typed

(* What one interval has and a shorter one does not. *)
LEMMA Beyond ==
  ASSUME NEW n \in Nat, NEW m \in Nat
  PROVE  \A i \in (1 .. n) \ (1 .. m) : i \in 1 .. n /\ m < i
  OBVIOUS

(* How a step is shown to be calm, frame by frame. *)
LEMMA CalmIs ==
  ASSUME Typed, NEW m \in Nat, DOMAIN frames' = 1 .. m, Len(frames') = m,
         Len(frames) - 1 <= m, m <= Len(frames) + 1,
         next.go = "turn" => m = Len(frames),
         asked' = asked, tarjan' = tarjan,
         \A k \in Keys : memo'[k].index = memo[k].index,
         \A k \in Keys : memo'[k].state = "none" <=> memo[k].state = "none",
         \A i \in 1 .. Len(frames) : i <= m => SameCall(frames[i], frames'[i]),
         \A i \in 1 .. Len(frames) : i < m => frames'[i] = frames[i],
         \A i \in 1 .. Len(frames) : i < Len(frames) /\ i <= m => frames'[i] = frames[i],
         \A i \in 1 .. Len(frames) : m < i => ~Opens(i),
         \A i \in 1 .. m : Len(frames) < i => frames'[i].at = "operands"
  PROVE  Calm
<1>1. DOMAIN frames = 1 .. Len(frames) /\ Len(frames) \in Nat
  BY DEF Typed
<1>2. \A i \in DOMAIN frames \cap DOMAIN frames' :
        /\ SameCall(frames[i], frames'[i])
        /\ i # Len(frames) \/ i # Len(frames') => frames'[i] = frames[i]
  BY <1>1
<1>3. \A i \in DOMAIN frames \ DOMAIN frames' : ~Opens(i)
  <2>1. \A i \in DOMAIN frames \ DOMAIN frames' : i \in 1 .. Len(frames) /\ m < i
    BY <1>1, Beyond
  <2> QED
    BY <2>1
<1>4. \A i \in DOMAIN frames' \ DOMAIN frames : ~Opens(i)'
  <2>1. \A i \in DOMAIN frames' \ DOMAIN frames : i \in 1 .. m /\ Len(frames) < i
    BY <1>1, Beyond
  <2> QED
    BY <2>1 DEF Opens
<1>5. asked' = asked /\ index' = index /\ stack' = stack /\ depth' = depth
  BY DEF tarjan
<1> QED
  BY <1>1, <1>2, <1>3, <1>4, <1>5 DEF Calm

(* A step that keeps the frames is calm. *)
LEMMA StillCalm ==
  ASSUME Typed, UNCHANGED <<asked, tarjan, frames>>,
         \A k \in Keys : memo'[k].index = memo[k].index,
         \A k \in Keys : memo'[k].state = "none" <=> memo[k].state = "none"
  PROVE  Calm
<1>1. DOMAIN frames = 1 .. Len(frames) /\ Len(frames) \in Nat /\ frames' = frames
  BY DEF Typed
<1>2. \A i : SameCall(frames[i], frames[i])
  BY DEF SameCall
<1>3. Len(frames) - 1 <= Len(frames) /\ Len(frames) <= Len(frames) + 1
  BY <1>1
<1>4. /\ DOMAIN frames' = 1 .. Len(frames) /\ Len(frames') = Len(frames)
      /\ \A i \in 1 .. Len(frames) : frames'[i] = frames[i]
  BY <1>1
<1>5. \A i \in 1 .. Len(frames) : SameCall(frames[i], frames'[i]) /\ i <= Len(frames)
  BY <1>1, <1>2, <1>4
<1> QED
  BY <1>1, <1>3, <1>4, <1>5, CalmIs

(* A step that pushes a rewrite's frame is calm. *)
LEMMA PushedCalm ==
  ASSUME Typed, UNCHANGED <<asked, memo, tarjan>>, next.go # "turn",
         NEW g \in Frames, frames' = Append(frames, g), g.at = "operands"
  PROVE  Calm
<1>1. /\ DOMAIN frames = 1 .. Len(frames) /\ Len(frames) \in Nat
      /\ DOMAIN frames' = 1 .. Len(frames) + 1 /\ Len(frames') = Len(frames) + 1
      /\ \A i \in 1 .. Len(frames) : frames'[i] = frames[i]
      /\ frames'[Len(frames) + 1] = g
  BY Pushed DEF Typed
<1>2. \A i : SameCall(frames[i], frames[i])
  BY DEF SameCall
<1>3. \A i \in 1 .. Len(frames) : SameCall(frames[i], frames'[i]) /\ i <= Len(frames)
  BY <1>1, <1>2
<1>4. \A i \in 1 .. Len(frames) + 1 : Len(frames) < i => frames'[i].at = "operands"
  BY <1>1
<1> DEFINE m == Len(frames) + 1
<1>5. m \in Nat /\ Len(frames) - 1 <= m /\ m <= Len(frames) + 1
      /\ \A i \in 1 .. Len(frames) : ~(m < i)
  BY <1>1
<1>6. asked' = asked /\ tarjan' = tarjan /\ memo' = memo
  OBVIOUS
<1>7. DOMAIN frames' = 1 .. m /\ Len(frames') = m
  BY <1>1
<1> HIDE DEF m
<1> QED
  BY <1>1, <1>3, <1>4, <1>5, <1>6, <1>7, CalmIs DEF m

(* A step that moves the innermost frame on is calm. *)
LEMMA ReplacedCalm ==
  ASSUME Typed, UNCHANGED <<asked, tarjan>>, frames # <<>>,
         NEW g \in Frames, frames' = [frames EXCEPT ![Len(frames)] = g],
         SameCall(Last(frames), g),
         \A k \in Keys : memo'[k].index = memo[k].index,
         \A k \in Keys : memo'[k].state = "none" <=> memo[k].state = "none"
  PROVE  Calm
<1> DEFINE n == Len(frames)
<1>1. frames \in Seq(Frames)
  BY DEF Typed
<1>2. /\ n \in Nat /\ DOMAIN frames' = 1 .. n /\ Len(frames') = n
      /\ \A i \in 1 .. n - 1 : frames'[i] = frames[i]
      /\ frames'[n] = g
  BY <1>1, Replaced
<1>3. Last(frames) = frames[n]
  BY DEF Last
<1> HIDE DEF n
<1>4. \A i \in 1 .. n : i < n => frames'[i] = frames[i]
  BY <1>2
<1>5. \A i \in 1 .. n : SameCall(frames[i], frames'[i])
  <2>1. \A i : SameCall(frames[i], frames[i])
    BY DEF SameCall
  <2> QED
    BY <1>2, <1>3, <1>4, <2>1
<1>6. n - 1 <= n /\ n <= n + 1 /\ \A i \in 1 .. n : i <= n /\ ~(n < i)
  BY <1>2
<1>7. asked' = asked /\ tarjan' = tarjan
  OBVIOUS
<1> QED
  BY <1>2, <1>4, <1>5, <1>6, <1>7, CalmIs DEF n

(* A step that pops a rewrite's frame is calm. *)
LEMMA DroppedCalm ==
  ASSUME Typed, UNCHANGED <<asked, memo, tarjan>>, next.go # "turn",
         frames # <<>>, frames' = Front(frames), Last(frames).at = "operands"
  PROVE  Calm
<1> DEFINE n == Len(frames)
<1>1. frames \in Seq(Frames)
  BY DEF Typed
<1>2. n \in Nat \ {0} /\ Last(frames) = frames[n]
  BY <1>1, OnTop
<1>3. /\ DOMAIN frames' = 1 .. n - 1 /\ Len(frames') = n - 1
      /\ \A i \in 1 .. n - 1 : frames'[i] = frames[i]
  BY <1>1, Dropped
<1>4. \A i : SameCall(frames[i], frames[i])
  BY DEF SameCall
<1> HIDE DEF n
<1>5. \A i \in 1 .. n : n - 1 < i => ~Opens(i)
  BY <1>2 DEF Opens
<1>6. \A i \in 1 .. n : i <= n - 1 => frames'[i] = frames[i]
  BY <1>2, <1>3
<1>7. n - 1 \in Nat
  BY <1>2
<1>8. \A i \in 1 .. n : i <= n - 1 => SameCall(frames[i], frames'[i])
  BY <1>4, <1>6
<1> QED
  BY <1>2, <1>3, <1>5, <1>6, <1>7, <1>8, CalmIs DEF n

-----------------------------------------------------------------------------
(* The steps that end in an error. *)

(* A call is back with an answer or with an error. *)
LEMMA BackTypes ==
  /\ \A node \in Nat : Failed(node) \in Backs /\ Failed(node).failed
  /\ \A node \in Nat, allowed \in BOOLEAN :
       Back(allowed, node) \in Backs /\ ~Back(allowed, node).failed
  BY DEF Failed, Back, Backs

(* A call that fails where it is made. *)
LEMMA FailedStep ==
  ASSUME Facts, UNCHANGED <<asked, memo, lowlink, tarjan, frames>>,
         NEW node \in Nat, next' = Failed(node), proof' \in Proofs,
         case.mayFail \/ ~IsDefined(case.key) \/ case.maxDepth < Cardinality(Keys)
  PROVE  Calm /\ Facts' /\ Failing'
<1>1. Typed
  BY DEF Facts
<1>2. next' \in Backs /\ next'.failed /\ next'.go = "back"
  BY BackTypes DEF Failed
<1>3. Typed'
  BY <1>1, <1>2, TypedStep DEF Typed, tarjan
<1>4. FailedForCause'
  BY CaseKept DEF FailedForCause
<1>5. Calm
  BY <1>1, StillCalm DEF tarjan
<1> QED
  BY <1>1, <1>2, <1>3, <1>4, <1>5, CalmFacts DEF Failing

(* Cancelled: the caller gave up. *)
LEMMA CancelledShape ==
  ASSUME Facts, Cancelled
  PROVE  Calm /\ Facts' /\ Failing'
  BY FailedStep DEF Cancelled, NoNode, Facts, Typed

(* Undefined: only the relation asked for can be undefined. *)
LEMMA UndefinedShape ==
  ASSUME Facts, Shape, NEW k \in Keys, Undefined(k)
  PROVE  Calm /\ Facts' /\ Failing'
<1>1. ~IsDefined(case.key)
  BY CalledClaim DEF Undefined, Calling
<1> QED
  BY <1>1, FailedStep DEF Undefined, NoNode, Facts, Typed

(* SourceFails: the source may fail in any case that allows it. *)
LEMMA SourceFailsShape ==
  ASSUME Facts, Shape, SourceFails
  PROVE  Calm /\ Facts' /\ Failing'
<1>1. Typed /\ next.key \in Keys /\ next.rw.op \in Operators /\ proof \in Proofs
  BY CalledClaim DEF SourceFails, Rewriting, Facts, Typed, Operators
<1>2. proof' \in Proofs
  BY <1>1, OpenedType DEF SourceFails, Outcomes
<1> QED
  BY <1>1, <1>2, FailedStep, NewNodeType DEF SourceFails

(* Open relations are of different keys, and none is the one called. *)
LEMMA TooDeepShape ==
  ASSUME Facts, Shape, NEW k \in Keys, TooDeep(k)
  PROVE  Calm /\ Facts' /\ Failing'
<1> DEFINE open == {i \in DOMAIN frames : frames[i].at # "operands"}
           keys == {frames[i].key : i \in open}
<1>1. Typed /\ depth = Cardinality(open) /\ depth >= case.maxDepth /\ memo[k] = Unseen
  BY DEF Facts, DepthOK, TooDeep
<1>2. DOMAIN frames = 1 .. Len(frames) /\ Len(frames) \in Nat
  BY <1>1 DEF Typed
<1>3. IsFiniteSet(open)
  <2>1. IsFiniteSet(1 .. Len(frames))
    BY <1>2, FS_Interval
  <2>2. open \in SUBSET (1 .. Len(frames))
    BY <1>2
  <2> QED
    BY <2>1, <2>2, FS_Subset
<1>4. \A i \in open : /\ frames[i].key \in Keys
                      /\ frames[i].index \in Nat \ {0}
                      /\ memo[frames[i].key].index = frames[i].index
  BY OpenOnStack DEF Opens
<1>5. \A i, j \in open : i < j => frames[i].index < frames[j].index
  <2>1. \A i \in open : RelationShape(i)
    BY DEF Shape, Opens
  <2> QED
    BY <1>2, <2>1 DEF RelationShape, Opens
<1>6. \A i, j \in open : i # j => frames[i].key # frames[j].key
  <2>1. \A i, j \in open : i # j => i < j \/ j < i
    BY <1>2
  <2> QED
    BY <1>4, <1>5, <2>1
<1>7. k \notin keys
  BY <1>1, <1>4 DEF Unseen
<1>8. Cardinality(keys) = Cardinality(open)
  <2> DEFINE f == [i \in open |-> frames[i].key]
  <2>1. f \in Surjection(open, keys)
    BY DEF Surjection
  <2>2. f \in Injection(open, keys)
    BY <1>6 DEF Injection, IsInjective
  <2> HIDE DEF f, open, keys
  <2> QED
    BY <1>3, <2>1, <2>2, FS_Surjection
<1>9. keys \subseteq Keys /\ IsFiniteSet(keys) /\ IsFiniteSet(Keys)
  BY <1>4, LimitAssumption, FS_Subset
<1>10. Cardinality(keys \cup {k}) = depth + 1
  BY <1>1, <1>7, <1>8, <1>9, FS_AddElement
<1>11. Cardinality(keys \cup {k}) <= Cardinality(Keys)
  <2>1. keys \cup {k} \in SUBSET Keys
    BY <1>9
  <2> QED
    BY <2>1, <1>9, FS_Subset
<1>12. case.maxDepth < Cardinality(Keys)
  <2>1. case.maxDepth \in Nat
    BY <1>1, CaseFacts DEF Typed
  <2>2. Cardinality(Keys) \in Nat /\ depth \in Nat
    BY <1>1, LimitAssumption, FS_CardinalityType DEF Typed
  <2> QED
    BY <1>1, <1>10, <1>11, <2>1, <2>2
<1> QED
  BY <1>1, <1>12, FailedStep DEF TooDeep, NoNode, Typed

-----------------------------------------------------------------------------
(* The other calm steps. *)

(* The innermost frame. *)
LEMMA TopShape ==
  ASSUME Facts, Shape, frames # <<>>
  PROVE  LET n == Len(frames)
             f == Last(frames)
         IN  /\ n \in Nat \ {0} /\ n \in DOMAIN frames /\ f = frames[n]
             /\ f.at \in {"operands", "relation", "settle"}
             /\ f.at = "operands" => f \in OperandsFrames /\ OperandsShape(f)
             /\ f.at # "operands" =>
                  f \in RelationFrames /\ RelationShape(n) /\ f.pos + 1 \in DOMAIN stack
             /\ f.at = "settle" =>
                  /\ f.turn \in 1 .. f.size + 1
                  /\ f.turn = f.size + 1 => next.go = "turn"
                  /\ f.pos + f.size \in DOMAIN stack
<1> DEFINE n == Len(frames)
           f == Last(frames)
<1>1. Typed
  BY DEF Facts
<1>2. n \in Nat \ {0} /\ n \in DOMAIN frames /\ f = frames[n] /\ f \in Frames
  BY <1>1, OnTop DEF Typed
<1>3. f.at \in {"operands", "relation", "settle"}
  BY <1>2 DEF Frames, OperandsFrames, RelationFrames
<1>4. f.at = "operands" => f \in OperandsFrames /\ OperandsShape(f)
  BY <1>1, <1>2, FrameTypes DEF Shape, Opens
<1>5. f.at # "operands" => f \in RelationFrames /\ RelationShape(n)
  BY <1>1, <1>2, FrameTypes DEF Shape, Opens
<1>6. f.at = "settle" => SettleShape(n)
  BY <1>2 DEF Shape
<1> QED
  BY <1>2, <1>3, <1>4, <1>5, <1>6 DEF SettleShape, RelationShape

(* A call that is answered at once. *)
LEMMA AnsweredStep ==
  ASSUME Facts, Shape, next.go \in {"relation", "rewrite"},
         asked' = asked, memo' = memo, tarjan' = tarjan, frames' = frames, lowlink' \in Nat,
         NEW node \in Nat, NEW allowed \in BOOLEAN, next' = Back(allowed, node),
         proof' \in Proofs
  PROVE  Calm /\ Facts' /\ Shape'
<1>1. Typed
  BY DEF Facts
<1>2. next' \in Backs /\ ~next'.failed /\ next'.go = "back"
  BY BackTypes DEF Back
<1>3. Typed'
  BY <1>1, <1>2, TypedStep DEF Typed, tarjan
<1>4. Calm
  BY <1>1, StillCalm
<1>5. Chain'
  BY <1>1, <1>2, <1>3, <1>4, CalmChain DEF Typed
<1>6. FailedForCause'
  BY <1>2 DEF FailedForCause, Failing
<1>7. frames' # <<>> => LET n == Len(frames')
                            f == frames'[n]
                        IN  /\ f.at = "operands" => OperandsShape(f)
                            /\ f.at = "settle" =>
                                 /\ f.turn \in 1 .. f.size + 1
                                 /\ f.turn = f.size + 1 => next'.go = "turn"
                                 /\ f.pos + f.size \in DOMAIN stack
  BY TopShape
<1> QED
  BY <1>3, <1>4, <1>5, <1>6, <1>7, CalmStep

(* Reuse answers at once. *)
LEMMA ReuseShape ==
  ASSUME Facts, Shape, NEW k \in Keys, Reuse(k)
  PROVE  Calm /\ Facts' /\ Shape'
<1>1. Typed /\ proof \in Proofs /\ asked \in DOMAIN Cases
  BY DEF Facts, Typed
<1>2. next.go = "relation" /\ next.key = k /\ IsDefined(k) /\ memo[k] # Unseen
  BY DEF Reuse, Calling
<1>3. Definition(k).op \in Operators
  <2>1. Said(k) \in DOMAIN meaning /\ Said(k).rw = Definition(k)
    BY <1>2, CalledClaim DEF Said, Says, Claim, Definition
  <2> QED
    BY <1>1, <2>1, ClaimFacts DEF Operators, Simple
<1>4. memo[k] \in Memos
  BY <1>1 DEF Typed
<1>5. memo[k].state \in {"computing", "true", "false"}
  BY <1>2, <1>4 DEF Facts, MemoKnown, Memos, Unseen
<1>6. lowlink' \in Nat
  BY <1>1, <1>4 DEF Reuse, Drawn, Lower, Memos, Typed
<1>7. \A outcome \in Outcomes, memoized \in BOOLEAN :
        Opened(k, Definition(k).op, outcome, memoized) \in Proofs
  BY <1>1, <1>3, OpenedType
<1>8. proof' \in Proofs
  BY <1>5, <1>7 DEF Reuse, Outcomes
<1>9. NewNode \in Nat
  BY <1>1, NewNodeType
<1> QED
  BY <1>2, <1>6, <1>8, <1>9, AnsweredStep DEF Reuse

(* What the rewrite that is called records. *)
LEMMA RewritingTypes ==
  ASSUME Facts, Shape, next.go = "rewrite"
  PROVE  /\ next.key \in Keys /\ next.rw.op \in Operators
         /\ NewNode \in Nat
         /\ Opened(next.key, next.rw.op, "incomplete", FALSE) \in Proofs
         /\ \A allowed \in BOOLEAN :
              Closed(Opened(next.key, next.rw.op, "incomplete", FALSE), NewNode, allowed)
                \in Proofs
<1>1. Typed /\ proof \in Proofs /\ asked \in DOMAIN Cases
  BY DEF Facts, Typed
<1>2. next.key \in Keys /\ Claim(next.rw, next.key) \in DOMAIN meaning
  BY CalledClaim
<1>3. next.rw.op \in Operators
  BY <1>1, <1>2, ClaimFacts DEF Operators, Simple, Claim
<1>4. Opened(next.key, next.rw.op, "incomplete", FALSE) \in Proofs
  BY <1>1, <1>2, <1>3, OpenedType DEF Outcomes
<1> QED
  BY <1>1, <1>2, <1>3, <1>4, NewNodeType, ClosedType

(* Stored answers at once. *)
LEMMA StoredShape ==
  ASSUME Facts, Shape, Stored
  PROVE  Calm /\ Facts' /\ Shape'
<1>1. next.go = "rewrite" /\ next.rw.op = "this"
  BY DEF Stored, Rewriting
<1>2. /\ next' = Back(TRUE, NewNode)
      /\ proof' = Closed(Opened(next.key, next.rw.op, "incomplete", FALSE), NewNode, TRUE)
      /\ asked' = asked /\ memo' = memo /\ tarjan' = tarjan /\ frames' = frames
      /\ lowlink' = lowlink
  BY <1>1 DEF Stored
<1>3. NewNode \in Nat /\ proof' \in Proofs
  BY <1>1, <1>2, RewritingTypes
<1>4. lowlink' \in Nat
  BY <1>2 DEF Facts, Typed
<1> QED
  BY <1>1, <1>2, <1>3, <1>4, AnsweredStep

(* Expand answers at once or pushes the rewrite's frame. *)
LEMMA ExpandShape ==
  ASSUME Facts, Shape, Expand
  PROVE  Calm /\ Facts' /\ Shape'
<1> DEFINE opened == Opened(next.key, next.rw.op, "incomplete", FALSE)
           c      == Claim(next.rw, next.key)
<1>1. Typed /\ proof \in Proofs /\ asked \in DOMAIN Cases /\ frames \in Seq(Frames)
  BY DEF Facts, Typed
<1>2. next.go = "rewrite" /\ next.rw.op \in Operators
      /\ (next.rw.op = "this" => ~(wildcardGrants(next.key) \/ directGrants(next.key)))
  BY RewritingTypes DEF Expand
<1>3. PICK calls \in Calls(next.rw, next.key) :
        IF calls = <<>>
        THEN /\ proof' = Closed(opened, NewNode, FALSE)
             /\ next' = Back(FALSE, NewNode)
             /\ UNCHANGED frames
        ELSE /\ proof' = opened
             /\ frames' = Append(frames,
                  [at |-> "operands", rw |-> next.rw, key |-> next.key,
                   node |-> NewNode, calls |-> calls, turn |-> 1])
             /\ next' = calls[1]
  BY DEF Expand
<1>4. asked' = asked /\ memo' = memo /\ tarjan' = tarjan /\ lowlink' = lowlink /\ lowlink \in Nat
  BY <1>1 DEF Expand, Typed
<1>5. c \in DOMAIN meaning /\ next.rw \in Rewrites /\ next.key \in Keys /\ frames # <<>>
  BY <1>1, <1>2, CalledClaim DEF Rewrites, Claim
<1>6. calls \in Seq(RelationCalls \cup RewriteCalls)
  BY <1>1, <1>5, CallsMean
<1>7. CASE calls = <<>>
  BY <1>2, <1>3, <1>4, <1>7, RewritingTypes, AnsweredStep
<1>8. CASE calls # <<>>
  <2>0. PICK g : g = [at |-> "operands", rw |-> next.rw, key |-> next.key,
                      node |-> NewNode, calls |-> calls, turn |-> 1]
    OBVIOUS
  <2>1. g \in OperandsFrames /\ g \in Frames
    BY <1>2, <1>5, <1>6, <2>0, RewritingTypes DEF OperandsFrames, Frames
  <2>2. /\ g.at = "operands" /\ g.turn = 1 /\ g.calls = calls
        /\ g.rw = next.rw /\ g.key = next.key
    BY <2>0
  <2>3. frames' = Append(frames, g) /\ next' = calls[1] /\ proof' = opened
    BY <1>3, <1>8, <2>0
  <2>4. Serves(g) = next /\ ClaimOf(Serves(g)) = c
    <3>1. next \in RewriteCalls
      BY <1>1, <1>2, NextTypes
    <3> QED
      BY <3>1, <2>2 DEF Serves, Rewrite, RewriteCalls, ClaimOf
  <2>5. 1 \in DOMAIN calls /\ calls[1] \in RelationCalls \cup RewriteCalls
    BY <1>6, <1>8
  <2>6. OperandsShape(g)
    BY <1>2, <1>5, <2>2, <2>4, <2>5 DEF OperandsShape
  <2>7. frames' \in Seq(Frames) /\ Len(frames') = Len(frames) + 1
        /\ frames'[Len(frames')] = g /\ frames' # <<>>
        /\ frames'[Len(frames)] = frames[Len(frames)]
    BY <1>1, <1>5, <2>1, <2>3, Pushed
  <2>8. Typed'
    BY <1>1, <1>2, <1>4, <2>3, <2>5, <2>7, RewritingTypes, TypedStep DEF Typed, tarjan
  <2>9. Calm
    BY <1>1, <1>2, <1>4, <2>1, <2>2, <2>3, PushedCalm
  <2>10. next'.go \in {"relation", "rewrite"}
    BY <2>3, <2>5 DEF RelationCalls, RewriteCalls
  <2>11. Awaits(g)' = calls[1]
    BY <2>2 DEF Awaits
  <2>12. Chain'
    <3>1. next = Awaits(Last(frames))
      BY <1>2, <1>5 DEF Shape, Chain
    <3>2. Awaits(frames[Len(frames)])' = calls[1]
      BY <2>7, <2>11
    <3> QED
      BY <1>1, <1>5, <2>3, <2>4, <2>7, <2>8, <2>9, <2>10, <3>1, <3>2, CalmChain
  <2>13. FailedForCause'
    BY <2>10 DEF FailedForCause, Failing
  <2> QED
    BY <2>2, <2>6, <2>7, <2>8, <2>9, <2>12, <2>13, CalmStep
<1> QED
  BY <1>7, <1>8

(* A step of the innermost call. *)
LEMMA ReplacedStep ==
  ASSUME Facts, Shape, frames # <<>>,
         asked' = asked, tarjan' = tarjan, lowlink' = lowlink,
         memo' \in [Keys -> Memos], proof' \in Proofs,
         \A k \in Keys : memo'[k].index = memo[k].index,
         \A k \in Keys : memo'[k].state = "none" <=> memo[k].state = "none",
         NEW g \in Frames, frames' = [frames EXCEPT ![Len(frames)] = g],
         SameCall(Last(frames), g),
         next' \in RelationCalls \cup RewriteCalls \cup Tests \cup {Turn},
         next'.go \in {"relation", "rewrite"} => next' = Awaits(g),
         next'.go = "test" => g.at = "relation",
         next'.go = "turn" => g.at = "settle",
         g.at = "operands" => g.turn \in DOMAIN g.calls,
         g.at = "settle" =>
           /\ g.turn \in 1 .. g.size + 1
           /\ g.turn = g.size + 1 => next'.go = "turn"
           /\ g.pos + g.size \in DOMAIN stack
  PROVE  Calm /\ Facts' /\ Shape'
<1>1. Typed /\ frames \in Seq(Frames)
  BY DEF Facts, Typed
<1>2. /\ frames' \in Seq(Frames) /\ Len(frames') = Len(frames) /\ frames' # <<>>
      /\ frames'[Len(frames)] = g
  BY <1>1, Replaced, OnTop
<1>3. Typed'
  BY <1>1, <1>2, TypedStep DEF Typed, tarjan
<1>4. Calm
  BY <1>1, ReplacedCalm
<1>5. next'.go # "back"
  BY DEF RelationCalls, RewriteCalls, Tests, Turn
<1>6. Chain'
  <2>1. Awaits(frames[Len(frames)])' = Awaits(g)
    BY <1>2, AwaitsKept DEF tarjan
  <2>2. ~(Len(frames') > Len(frames))
    BY <1>1, <1>2
  <2> QED
    BY <1>1, <1>2, <1>3, <1>4, <2>1, <2>2, CalmChain
<1>7. FailedForCause'
  BY <1>5 DEF FailedForCause, Failing
<1>8. g.at = "operands" => OperandsShape(g)
  <2>1. Last(frames).at = "operands" => OperandsShape(Last(frames))
    BY TopShape
  <2>2. g.at = "operands" => ClaimOf(Serves(g)) = ClaimOf(Serves(Last(frames)))
    BY DEF SameCall, Serves
  <2> QED
    BY <2>1, <2>2 DEF SameCall, OperandsShape
<1> QED
  BY <1>2, <1>3, <1>4, <1>6, <1>7, <1>8, CalmStep

(* Leaving the innermost frame alone moves it to itself. *)
LEMMA SameTop ==
  ASSUME Typed, frames # <<>>
  PROVE  /\ frames = [frames EXCEPT ![Len(frames)] = Last(frames)]
         /\ SameCall(Last(frames), Last(frames)) /\ Last(frames) \in Frames
  BY OnTop DEF Typed, SameCall

(* NextOperand moves the rewrite on to its next call. *)
LEMMA NextOperandShape ==
  ASSUME Facts, Shape, NextOperand
  PROVE  Calm /\ Facts' /\ Shape'
<1>1. Typed /\ asked \in DOMAIN Cases /\ memo \in [Keys -> Memos] /\ proof \in Proofs
  BY DEF Facts, Typed
<1>2. PICK f : f = Last(frames)
  OBVIOUS
<1>3. frames # <<>> /\ f.at = "operands" /\ next \in Backs
  BY <1>1, <1>2, NextTypes DEF NextOperand, Returned
<1>4. f \in OperandsFrames /\ OperandsShape(f) /\ ~Decides(f, next.allowed)
  BY <1>2, <1>3, TopShape DEF NextOperand
<1>5. f.calls \in Seq(RelationCalls \cup RewriteCalls) /\ f.turn \in DOMAIN f.calls
      /\ f.turn # Len(f.calls)
  BY <1>4 DEF OperandsFrames, OperandsShape, Decides
<1>6. f.turn + 1 \in DOMAIN f.calls /\ f.calls[f.turn + 1] \in RelationCalls \cup RewriteCalls
  BY <1>5
<1>7. PICK g : g = [f EXCEPT !.turn = @ + 1]
  OBVIOUS
<1>8. g \in OperandsFrames /\ g \in Frames
  BY <1>4, <1>5, <1>7 DEF OperandsFrames, Frames
<1>9. /\ g.at = "operands" /\ g.rw = f.rw /\ g.key = f.key /\ g.calls = f.calls
      /\ g.turn = f.turn + 1
  BY <1>3, <1>4, <1>7 DEF OperandsFrames
<1>10. /\ frames' = [frames EXCEPT ![Len(frames)] = g]
       /\ next' = f.calls[f.turn + 1]
       /\ proof' = addChild(proof, f.node, next.node)
       /\ asked' = asked /\ tarjan' = tarjan /\ lowlink' = lowlink /\ memo' = memo
  BY <1>2, <1>7, OnTop DEF NextOperand, Last
<1>11. proof' \in Proofs
  BY <1>1, <1>3, <1>10, AddChildType DEF Backs
<1>12. SameCall(Last(frames), g)
  BY <1>2, <1>3, <1>9 DEF SameCall
<1>13. next' = Awaits(g)
  BY <1>9, <1>10 DEF Awaits
<1>14. next'.go \in {"relation", "rewrite"}
  BY <1>6, <1>10 DEF RelationCalls, RewriteCalls
<1> QED
  BY <1>1, <1>3, <1>6, <1>8, <1>9, <1>10, <1>11, <1>12, <1>13, <1>14, ReplacedStep

(* Decided pops the rewrite's frame. *)
LEMMA DecidedShape ==
  ASSUME Facts, Shape, Decided
  PROVE  Calm /\ Facts' /\ Shape'
<1>1. Typed /\ frames \in Seq(Frames) /\ memo \in [Keys -> Memos] /\ proof \in Proofs
  BY DEF Facts, Typed
<1>2. PICK f : f = Last(frames)
  OBVIOUS
<1>3. frames # <<>> /\ f.at = "operands" /\ next \in Backs /\ next.go = "back"
  BY <1>1, <1>2, NextTypes DEF Decided, Returned
<1>4. f \in OperandsFrames
  BY <1>2, <1>3, TopShape
<1>5. PICK allowed : allowed = Verdict(f, next.allowed)
  OBVIOUS
<1>6. allowed \in BOOLEAN
  BY <1>3, <1>5 DEF Verdict, Backs
<1>7. /\ frames' = Front(frames)
      /\ next' = Back(allowed, f.node)
      /\ proof' = Closed(addChild(proof, f.node, next.node), f.node, allowed)
      /\ asked' = asked /\ tarjan' = tarjan /\ lowlink' = lowlink /\ memo' = memo
  BY <1>2, <1>5 DEF Decided
<1>8. proof' \in Proofs
  BY <1>1, <1>3, <1>7, AddChildType, ClosedType DEF Backs
<1>9. f.node \in Nat /\ next' \in Backs /\ ~next'.failed /\ next'.go = "back"
  BY <1>4, <1>6, <1>7, BackTypes DEF OperandsFrames, Back
<1>10. /\ frames' \in Seq(Frames) /\ Len(frames') = Len(frames) - 1
       /\ \A i \in 1 .. Len(frames) - 1 : frames'[i] = frames[i]
       /\ DOMAIN frames' = 1 .. Len(frames) - 1
  BY <1>1, <1>3, <1>7, Dropped
<1>11. Typed'
  BY <1>1, <1>7, <1>8, <1>9, <1>10, TypedStep DEF Typed, tarjan
<1>12. Calm
  BY <1>1, <1>2, <1>3, <1>7, DroppedCalm
<1>13. Len(frames) \in Nat /\ DOMAIN frames = 1 .. Len(frames)
  BY <1>1
<1>14. Chain'
  <2>1. ~(Len(frames') > Len(frames))
    BY <1>10, <1>13
  <2> QED
    BY <1>1, <1>9, <1>11, <1>12, <2>1, CalmChain
<1>15. FailedForCause'
  BY <1>9 DEF FailedForCause, Failing
<1>16. ASSUME frames' # <<>>
       PROVE  LET n == Len(frames')
                  g == frames'[n]
              IN  /\ g.at = "operands" => OperandsShape(g)
                  /\ g.at = "settle" =>
                       /\ g.turn \in 1 .. g.size + 1
                       /\ g.turn = g.size + 1 => next'.go = "turn"
                       /\ g.pos + g.size \in DOMAIN stack
  <2> DEFINE n == Len(frames) - 1
  <2>1. n \in DOMAIN frames /\ n # Len(frames) /\ frames'[n] = frames[n]
    BY <1>10, <1>13, <1>16
  <2>2. frames[n].at = "operands" => OperandsShape(frames[n])
    BY <2>1 DEF Shape, Opens
  <2>3. frames[n].at = "settle" => SettleShape(n)
    BY <2>1 DEF Shape
  <2> QED
    BY <1>10, <2>1, <2>2, <2>3 DEF SettleShape
<1> QED
  BY <1>11, <1>12, <1>14, <1>15, <1>16, CalmStep

(* Answered: the rewrite's answer is the relation's, for now. *)
LEMMA AnsweredShape ==
  ASSUME Facts, Shape, Answered
  PROVE  Calm /\ Facts' /\ Shape'
<1>1. Typed /\ memo \in [Keys -> Memos] /\ proof \in Proofs
  BY DEF Facts, Typed
<1>2. PICK f : f = Last(frames)
  OBVIOUS
<1>3. frames # <<>> /\ f.at = "relation" /\ next \in Backs
  BY <1>1, <1>2, NextTypes DEF Answered, Returned
<1>4. f \in RelationFrames /\ f.key \in Keys
  BY <1>2, <1>3, TopShape DEF RelationFrames
<1>5. memo[f.key].state # "none" /\ memo[f.key] \in Memos
  BY <1>1, <1>2, <1>3, <1>4, TopShape, OpenOnStack DEF Opens
<1>6. /\ frames' = frames
      /\ next' = Test(next.allowed, next.node, FALSE)
      /\ proof' = proof /\ asked' = asked /\ tarjan' = tarjan /\ lowlink' = lowlink
      /\ memo' = [memo EXCEPT ![f.key].state = StateOf(next.allowed)]
  BY <1>2 DEF Answered
<1>7. next' \in Tests /\ next'.go = "test"
  BY <1>3, <1>6 DEF Test, Tests, Backs
<1>8. StateOf(next.allowed) \in {"true", "false"}
  BY DEF StateOf
<1>9. memo' \in [Keys -> Memos]
  BY <1>1, <1>4, <1>5, <1>6, <1>8 DEF Memos
<1>10. \A k \in Keys : memo'[k].index = memo[k].index
  BY <1>1, <1>4, <1>5, <1>6 DEF Memos
<1>11. \A k \in Keys : memo'[k].state = "none" <=> memo[k].state = "none"
  BY <1>1, <1>4, <1>5, <1>6, <1>8 DEF Memos
<1> QED
  BY <1>1, <1>2, <1>3, <1>6, <1>7, <1>9, <1>10, <1>11, SameTop, ReplacedStep

(* Settle begins the rounds of a root. *)
LEMMA SettleShapes ==
  ASSUME Facts, Shape, Settle
  PROVE  Calm /\ Facts' /\ Shape'
<1>1. Typed /\ memo \in [Keys -> Memos] /\ proof \in Proofs /\ stack \in Seq(Keys)
  BY DEF Facts, Typed
<1>2. PICK f : f = Last(frames)
  OBVIOUS
<1>3. frames # <<>> /\ f.at = "relation" /\ next \in Tests
  BY <1>1, <1>2, NextTypes DEF Settle, Shape, Chain
<1>4. f \in RelationFrames /\ f.pos + 1 \in DOMAIN stack
  BY <1>2, <1>3, TopShape
<1>5. PICK g : g = [f EXCEPT !.at = "settle", !.back = Back(next.allowed, next.node),
                             !.turn = 1, !.size = Len(stack) - f.pos, !.changed = FALSE]
  OBVIOUS
<1>6. Back(next.allowed, next.node) \in Backs
  BY <1>3, BackTypes DEF Tests
<1>7. Len(stack) - f.pos \in Nat /\ Len(stack) - f.pos >= 1 /\ f.pos \in Nat
      /\ f.pos + (Len(stack) - f.pos) \in DOMAIN stack
  BY <1>1, <1>4 DEF RelationFrames
<1>8. g \in RelationFrames /\ g \in Frames
  BY <1>4, <1>5, <1>6, <1>7 DEF RelationFrames, Frames
<1>9. /\ g.at = "settle" /\ g.turn = 1 /\ g.size = Len(stack) - f.pos
      /\ g.key = f.key /\ g.index = f.index /\ g.pos = f.pos /\ g.outer = f.outer
  BY <1>4, <1>5 DEF RelationFrames
<1>10. /\ frames' = [frames EXCEPT ![Len(frames)] = g]
       /\ next' = Turn /\ next'.go = "turn"
       /\ proof' = pause(proof)
       /\ asked' = asked /\ tarjan' = tarjan /\ lowlink' = lowlink /\ memo' = memo
  BY <1>2, <1>5 DEF Settle, Turn
<1>11. proof' \in Proofs
  BY <1>1, <1>10, PausedType
<1>12. SameCall(Last(frames), g)
  BY <1>2, <1>3, <1>9 DEF SameCall
<1>13. g.turn \in 1 .. g.size + 1 /\ g.pos + g.size \in DOMAIN stack
  BY <1>7, <1>9
<1> QED
  BY <1>1, <1>3, <1>8, <1>9, <1>10, <1>11, <1>12, <1>13, ReplacedStep

(* A frame whose component settles, and the member whose turn it is. *)
LEMMA SettlingTop ==
  ASSUME Facts, Shape, next.go = "turn" \/ Returned("settle")
  PROVE  LET f == Last(frames)
         IN  /\ frames # <<>> /\ f.at = "settle" /\ f \in RelationFrames
             /\ f.turn \in 1 .. f.size + 1
             /\ f.pos + 1 \in DOMAIN stack /\ f.pos + f.size \in DOMAIN stack
             /\ f.turn = f.size + 1 => next.go = "turn"
             /\ f.turn <= f.size =>
                  /\ f.pos + f.turn \in DOMAIN stack
                  /\ Member(f) \in Keys /\ memo[Member(f)].state # "none"
<1>1. frames # <<>> /\ Last(frames).at = "settle"
  BY DEF Returned, Shape, Chain
<1> DEFINE f == Last(frames)
<1>2. /\ f \in RelationFrames
      /\ f.turn \in 1 .. f.size + 1
      /\ f.pos + 1 \in DOMAIN stack /\ f.pos + f.size \in DOMAIN stack
      /\ f.turn = f.size + 1 => next.go = "turn"
  BY <1>1, TopShape
<1>3. stack \in Seq(Keys)
  BY DEF Facts, Typed
<1>4. f.turn <= f.size => f.pos + f.turn \in DOMAIN stack
  BY <1>2, <1>3 DEF RelationFrames
<1> QED
  BY <1>1, <1>2, <1>4, OnStack DEF Member

(* SkipMember moves on to the next member. *)
LEMMA SkipMemberShape ==
  ASSUME Facts, Shape, SkipMember
  PROVE  Calm /\ Facts' /\ Shape'
<1>1. Typed /\ memo \in [Keys -> Memos] /\ proof \in Proofs
  BY DEF Facts, Typed
<1>2. PICK f : f = Last(frames)
  OBVIOUS
<1>3. /\ frames # <<>> /\ f.at = "settle" /\ f \in RelationFrames /\ next.go = "turn"
      /\ f.turn \in 1 .. f.size + 1 /\ f.turn <= f.size /\ f.pos + f.size \in DOMAIN stack
      /\ next = Turn
  BY <1>1, <1>2, SettlingTop DEF SkipMember, AtTurn, Typed, Turn, RelationCalls, RewriteCalls, Backs, Tests
<1>4. PICK g : g = [f EXCEPT !.turn = @ + 1]
  OBVIOUS
<1>5. g \in RelationFrames /\ g \in Frames
  BY <1>3, <1>4 DEF RelationFrames, Frames
<1>6. /\ g.at = "settle" /\ g.turn = f.turn + 1 /\ g.size = f.size
      /\ g.key = f.key /\ g.index = f.index /\ g.pos = f.pos /\ g.outer = f.outer
  BY <1>3, <1>4 DEF RelationFrames
<1>7. /\ frames' = [frames EXCEPT ![Len(frames)] = g]
      /\ next' = Turn /\ proof' = proof
      /\ asked' = asked /\ tarjan' = tarjan /\ lowlink' = lowlink /\ memo' = memo
  BY <1>2, <1>3, <1>4 DEF SkipMember, Last
<1>8. SameCall(Last(frames), g)
  BY <1>2, <1>3, <1>6 DEF SameCall
<1>9. g.turn \in 1 .. g.size + 1 /\ g.pos + g.size \in DOMAIN stack
  BY <1>3, <1>6 DEF RelationFrames
<1>10. next'.go = "turn"
  BY <1>7 DEF Turn
<1> QED
  BY <1>1, <1>3, <1>5, <1>6, <1>7, <1>8, <1>9, <1>10, ReplacedStep

(* Reevaluate calls the member's rewrite again. *)
LEMMA ReevaluateShape ==
  ASSUME Facts, Shape, Reevaluate
  PROVE  Calm /\ Facts' /\ Shape'
<1>1. Typed /\ memo \in [Keys -> Memos] /\ proof \in Proofs
  BY DEF Facts, Typed
<1>2. PICK f : f = Last(frames)
  OBVIOUS
<1>3. /\ frames # <<>> /\ f.at = "settle" /\ f \in RelationFrames
      /\ f.turn \in 1 .. f.size + 1 /\ f.turn <= f.size /\ f.pos + f.size \in DOMAIN stack
  BY <1>2, SettlingTop DEF Reevaluate, AtTurn
<1>4. /\ frames' = frames /\ proof' = proof
      /\ next' = Rewrite(Definition(Member(f)), Member(f))
      /\ asked' = asked /\ tarjan' = tarjan /\ lowlink' = lowlink /\ memo' = memo
  BY <1>2 DEF Reevaluate
<1>5. next' = Awaits(f)
  BY <1>3, <1>4 DEF Awaits
<1>6. f.turn # f.size + 1
  BY <1>3 DEF RelationFrames
<1>7. next' \in RelationCalls \cup RewriteCalls
  BY <1>2, <1>3, <1>5, <1>6, TopShape, AwaitedClaim
<1>8. next'.go \in {"relation", "rewrite"}
  BY <1>7 DEF RelationCalls, RewriteCalls
<1> QED
  BY <1>1, <1>2, <1>3, <1>4, <1>5, <1>6, <1>7, <1>8, SameTop, ReplacedStep

(* Raise takes the answer and moves on to the next member. *)
LEMMA RaiseShape ==
  ASSUME Facts, Shape, Raise
  PROVE  Calm /\ Facts' /\ Shape'
<1>1. Typed /\ memo \in [Keys -> Memos] /\ proof \in Proofs
  BY DEF Facts, Typed
<1>2. PICK f : f = Last(frames)
  OBVIOUS
<1>3. /\ frames # <<>> /\ f.at = "settle" /\ f \in RelationFrames
      /\ f.turn \in 1 .. f.size + 1 /\ f.turn # f.size + 1 /\ f.pos + f.size \in DOMAIN stack
  BY <1>2, SettlingTop DEF Raise, Returned
<1>4. f.turn <= f.size
  BY <1>3 DEF RelationFrames
<1>5. Member(f) \in Keys /\ memo[Member(f)].state # "none" /\ memo[Member(f)] \in Memos
  BY <1>1, <1>2, <1>4, SettlingTop DEF Raise
<1>6. PICK rises \in BOOLEAN : rises = (next.allowed /\ memo[Member(f)].state # "true")
  OBVIOUS
<1>17. PICK changed \in BOOLEAN : changed = (f.changed \/ rises)
  OBVIOUS
<1>7. PICK g : g = [f EXCEPT !.turn = @ + 1, !.changed = changed]
  OBVIOUS
<1>8. g \in RelationFrames /\ g \in Frames
  <2>1. PICK turn \in Nat : turn = f.turn + 1
    BY <1>3 DEF RelationFrames
  <2>2. f \in RelationFrames /\ g = [f EXCEPT !.turn = turn, !.changed = changed]
    BY <1>3, <1>7, <2>1
  <2> QED
    BY <2>2 DEF RelationFrames, Frames
<1>9. /\ g.at = "settle" /\ g.turn = f.turn + 1 /\ g.size = f.size
      /\ g.key = f.key /\ g.index = f.index /\ g.pos = f.pos /\ g.outer = f.outer
  BY <1>3, <1>7 DEF RelationFrames
<1>10. /\ frames' = [frames EXCEPT ![Len(frames)] = g]
       /\ next' = Turn /\ proof' = proof
       /\ asked' = asked /\ tarjan' = tarjan /\ lowlink' = lowlink
       /\ memo' = IF rises THEN [memo EXCEPT ![Member(f)].state = "true"] ELSE memo
  BY <1>2, <1>6, <1>7, <1>17 DEF Raise
<1>11. SameCall(Last(frames), g)
  BY <1>2, <1>3, <1>9 DEF SameCall
<1>12. g.turn \in 1 .. g.size + 1 /\ g.pos + g.size \in DOMAIN stack
  BY <1>3, <1>4, <1>9 DEF RelationFrames
<1>13. next'.go = "turn"
  BY <1>10 DEF Turn
<1>14. memo' \in [Keys -> Memos]
  BY <1>1, <1>5, <1>6, <1>10 DEF Memos
<1>15. \A k \in Keys : memo'[k].index = memo[k].index
  BY <1>1, <1>5, <1>6, <1>10 DEF Memos
<1>16. \A k \in Keys : memo'[k].state = "none" <=> memo[k].state = "none"
  BY <1>1, <1>5, <1>6, <1>10 DEF Memos
<1> QED
  BY <1>1, <1>3, <1>8, <1>9, <1>10, <1>11, <1>12, <1>13, <1>14, <1>15, <1>16, ReplacedStep

(* EndRound ends the rounds or begins another. *)
LEMMA EndRoundShape ==
  ASSUME Facts, Shape, EndRound
  PROVE  Calm /\ Facts' /\ Shape'
<1>1. Typed /\ memo \in [Keys -> Memos] /\ proof \in Proofs /\ stack \in Seq(Keys)
  BY DEF Facts, Typed
<1>2. PICK f : f = Last(frames)
  OBVIOUS
<1>3. /\ frames # <<>> /\ f.at = "settle" /\ f \in RelationFrames /\ next.go = "turn"
      /\ f.pos + 1 \in DOMAIN stack /\ next = Turn
  BY <1>1, <1>2, SettlingTop DEF EndRound, Typed, Turn, RelationCalls, RewriteCalls, Backs, Tests
<1>4. asked' = asked /\ tarjan' = tarjan /\ lowlink' = lowlink /\ memo' = memo
  BY DEF EndRound
<1>5. CASE LastRound(f)
  <2>1. PICK g : g = [f EXCEPT !.at = "relation"]
    OBVIOUS
  <2>2. g \in RelationFrames /\ g \in Frames
    BY <1>3, <2>1 DEF RelationFrames, Frames
  <2>3. /\ g.at = "relation"
        /\ g.key = f.key /\ g.index = f.index /\ g.pos = f.pos /\ g.outer = f.outer
    BY <1>3, <2>1 DEF RelationFrames
  <2>4. /\ frames' = [frames EXCEPT ![Len(frames)] = g]
        /\ next' = Test(f.back.allowed, f.back.node, TRUE) /\ proof' = resume(proof)
    BY <1>2, <1>5, <2>1 DEF EndRound, Last
  <2>5. next' \in Tests /\ next'.go = "test"
    BY <1>3, <2>4 DEF RelationFrames, Backs, Test, Tests
  <2>6. SameCall(Last(frames), g)
    BY <1>2, <1>3, <2>3 DEF SameCall
  <2>7. proof' \in Proofs
    BY <1>1, <2>4, PausedType
  <2> QED
    BY <1>1, <1>3, <1>4, <2>2, <2>3, <2>4, <2>5, <2>6, <2>7, ReplacedStep
<1>6. CASE ~LastRound(f)
  <2>1. PICK g : g = [f EXCEPT !.turn = 1, !.size = Resliced(f), !.changed = FALSE]
    OBVIOUS
  <2>2. Resliced(f) \in Nat /\ Resliced(f) >= 1 /\ f.pos \in Nat
        /\ f.pos + Resliced(f) \in DOMAIN stack
    BY <1>1, <1>3 DEF RelationFrames, Resliced
  <2>3. g \in RelationFrames /\ g \in Frames
    BY <1>3, <2>1, <2>2 DEF RelationFrames, Frames
  <2>4. /\ g.at = "settle" /\ g.turn = 1 /\ g.size = Resliced(f)
        /\ g.key = f.key /\ g.index = f.index /\ g.pos = f.pos /\ g.outer = f.outer
    BY <1>3, <2>1 DEF RelationFrames
  <2>5. /\ frames' = [frames EXCEPT ![Len(frames)] = g]
        /\ next' = Turn /\ proof' = proof
    BY <1>2, <1>3, <1>6, <2>1 DEF EndRound
  <2>6. SameCall(Last(frames), g)
    BY <1>2, <1>3, <2>4 DEF SameCall
  <2>7. g.turn \in 1 .. g.size + 1 /\ g.pos + g.size \in DOMAIN stack
    BY <2>2, <2>4
  <2>8. next'.go = "turn"
    BY <2>5 DEF Turn
  <2> QED
    BY <1>1, <1>3, <1>4, <2>3, <2>4, <2>5, <2>6, <2>7, <2>8, ReplacedStep
<1> QED
  BY <1>5, <1>6

-----------------------------------------------------------------------------
(* The steps that open and close a relation. *)

(* The relations under way are finitely many. *)
LEMMA OpenFinite ==
  ASSUME Typed
  PROVE  IsFiniteSet({i \in DOMAIN frames : frames[i].at # "operands"})
<1>1. DOMAIN frames = 1 .. Len(frames) /\ Len(frames) \in Nat
  BY DEF Typed
<1>2. IsFiniteSet(1 .. Len(frames))
  BY <1>1, FS_Interval
<1>3. {i \in DOMAIN frames : frames[i].at # "operands"} \in SUBSET (1 .. Len(frames))
  BY <1>1
<1> QED
  BY <1>2, <1>3, FS_Subset

(* depth goes up with a relation that is entered. *)
LEMMA DepthPushed ==
  ASSUME Typed, DepthOK, NEW g \in Frames, g.at # "operands",
         frames' = Append(frames, g), depth' = depth + 1
  PROVE  DepthOK'
<1> DEFINE open == {i \in DOMAIN frames : frames[i].at # "operands"}
           n    == Len(frames)
<1>1. /\ DOMAIN frames = 1 .. n /\ n \in Nat
      /\ DOMAIN frames' = 1 .. n + 1
      /\ \A i \in 1 .. n : frames'[i] = frames[i]
      /\ frames'[n + 1] = g
  BY Pushed DEF Typed
<1>2. {i \in DOMAIN frames' : frames'[i].at # "operands"} = open \cup {n + 1}
  <2> HIDE DEF n
  <2>1. \A i : i \in 1 .. n + 1 <=> i \in 1 .. n \/ i = n + 1
    BY <1>1
  <2> QED
    BY <1>1, <2>1
<1>3. n + 1 \notin open
  BY <1>1
<1>4. Cardinality(open \cup {n + 1}) = Cardinality(open) + 1
  BY <1>3, OpenFinite, FS_AddElement
<1> QED
  BY <1>2, <1>4 DEF DepthOK

(* depth goes down with a relation that is left, and with no other. *)
LEMMA DepthDropped ==
  ASSUME Typed, DepthOK, frames # <<>>, frames' = Front(frames),
         depth' = IF Last(frames).at = "operands" THEN depth ELSE depth - 1
  PROVE  DepthOK' /\ depth' \in Nat
<1> DEFINE open == {i \in DOMAIN frames : frames[i].at # "operands"}
           n    == Len(frames)
<1>1. /\ n \in Nat \ {0} /\ DOMAIN frames = 1 .. n
      /\ DOMAIN frames' = 1 .. n - 1
      /\ \A i \in 1 .. n - 1 : frames'[i] = frames[i]
      /\ Last(frames) = frames[n]
  BY Dropped, OnTop DEF Typed
<1>2. {i \in DOMAIN frames' : frames'[i].at # "operands"} = open \ {n}
  <2> HIDE DEF n
  <2>1. \A i : i \in 1 .. n - 1 <=> i \in 1 .. n /\ i # n
    BY <1>1
  <2> QED
    BY <1>1, <2>1
<1>3. n \in open <=> Last(frames).at # "operands"
  BY <1>1
<1>4. IsFiniteSet(open) /\ IsFiniteSet(open \ {n})
      /\ Cardinality(open \ {n})
           = IF n \in open THEN Cardinality(open) - 1 ELSE Cardinality(open)
  BY OpenFinite, FS_RemoveElement
<1>5. Cardinality(open \ {n}) \in Nat
  BY <1>4, FS_CardinalityType
<1> QED
  BY <1>2, <1>3, <1>4, <1>5 DEF DepthOK

(* The relations below the innermost, and their members, were entered      *)
(* before it.                                                              *)
LEMMA Below ==
  ASSUME Facts, Shape, NEW i \in DOMAIN frames, NEW j \in DOMAIN frames, i < j,
         Opens(i), Opens(j)
  PROVE  /\ frames[i].pos + 1 \in DOMAIN stack
         /\ stack[frames[i].pos + 1] = frames[i].key
         /\ memo[stack[frames[i].pos + 1]].index < frames[j].index
         /\ frames[i].at = "settle" =>
              /\ frames[i].turn <= frames[i].size
              /\ frames[i].pos + frames[i].turn \in DOMAIN stack
              /\ frames[i].pos + frames[i].size \in DOMAIN stack
              /\ memo[stack[frames[i].pos + frames[i].size]].index < frames[j].index
              /\ memo[stack[frames[i].pos + frames[i].turn]].index < frames[j].index
<1>1. DOMAIN frames = 1 .. Len(frames) /\ Len(frames) \in Nat /\ stack \in Seq(Keys)
      /\ memo \in [Keys -> Memos]
  BY DEF Facts, Typed
<1>2. j \in i + 1 .. Len(frames) /\ i # Len(frames)
  BY <1>1
<1>3. RelationShape(i) /\ frames[i] \in RelationFrames
  BY OpenOnStack DEF Shape
<1>4. CASE frames[i].at = "settle"
  <2>1. SettleShape(i)
    BY <1>4 DEF Shape
  <2> DEFINE f == frames[i]
             p == f.pos + f.turn
             l == f.pos + f.size
  <2>2. /\ f.turn <= f.size /\ f.turn \in 1 .. f.size + 1
        /\ l \in DOMAIN stack
        /\ memo[stack[l]].index < frames[j].index
    BY <1>2, <1>3, <2>1 DEF SettleShape, RelationFrames, LastMember
  <2>3. p \in DOMAIN stack /\ (p = l \/ p < l)
    BY <1>1, <1>3, <2>2 DEF RelationFrames
  <2>4. p < l => memo[stack[p]].index < memo[stack[l]].index
    BY <2>2, <2>3 DEF Facts, StackInOrder
  <2>5. memo[stack[p]].index < frames[j].index
    <3>1. memo[stack[p]].index \in Nat /\ memo[stack[l]].index \in Nat /\ frames[j].index \in Nat
      BY <2>2, <2>3, OnStack, OpenOnStack
    <3> QED
      BY <2>2, <2>3, <2>4, <3>1
  <2> QED
    BY <1>2, <1>3, <2>2, <2>3, <2>5 DEF RelationShape
<1> QED
  BY <1>2, <1>3, <1>4 DEF RelationShape

(* What Enter does, variable by variable. *)
LEMMA Entered ==
  ASSUME Facts, Shape, NEW k \in Keys, Enter(k)
  PROVE  LET n == Len(frames)
             g == frames'[n + 1]
         IN  /\ n \in Nat /\ DOMAIN frames = 1 .. n /\ DOMAIN frames' = 1 .. n + 1
             /\ Len(frames') = n + 1
             /\ \A i \in 1 .. n : frames'[i] = frames[i]
             /\ g \in RelationFrames /\ g.at = "relation" /\ g.key = k
             /\ g.index = index + 1 /\ g.pos = Len(stack) /\ g.outer = lowlink
             /\ Len(stack) \in Nat /\ DOMAIN stack' = 1 .. Len(stack) + 1
             /\ Len(stack') = Len(stack) + 1
             /\ DOMAIN stack = 1 .. Len(stack)
             /\ \A p \in DOMAIN stack : stack'[p] = stack[p]
             /\ stack'[Len(stack) + 1] = k
             /\ index \in Nat /\ index' = index + 1 /\ lowlink' = index + 1
             /\ memo[k].state = "none" /\ memo[k].index = 0
             /\ memo'[k].state = "computing" /\ memo'[k].index = index + 1
             /\ \A q \in Keys : q # k => memo'[q] = memo[q]
             /\ \A q \in Keys : memo[q].index \in Nat /\ memo[q].index < index + 1
             /\ IsDefined(k) /\ Said(k) \in DOMAIN meaning
             /\ asked' = asked /\ next.go = "relation" /\ next = Relation(k)
             /\ next' = Rewrite(Definition(k), k) /\ next'.go = "rewrite"
             /\ Typed'
<1>1. /\ Typed /\ memo \in [Keys -> Memos] /\ index \in Nat /\ lowlink \in Nat /\ depth \in Nat
      /\ stack \in Seq(Keys) /\ frames \in Seq(Frames) /\ proof \in Proofs
  BY DEF Facts, Typed
<1>2. /\ next.go = "relation" /\ next.key = k /\ IsDefined(k) /\ memo[k] = Unseen
      /\ depth' = depth + 1 /\ index' = index + 1 /\ stack' = Append(stack, k)
      /\ memo' = [memo EXCEPT ![k] = [state |-> "computing", index |-> index']]
      /\ lowlink' = index' /\ next' = Rewrite(Definition(k), k)
      /\ asked' = asked /\ proof' = proof
  BY DEF Enter, Calling
<1>3. PICK g : g = [at |-> "relation", key |-> k, index |-> index', pos |-> Len(stack),
                    outer |-> lowlink, back |-> Back(FALSE, NoNode), turn |-> 0, size |-> 0,
                    changed |-> FALSE]
  OBVIOUS
<1>4. Back(FALSE, NoNode) \in Backs
  BY BackTypes DEF NoNode
<1>5. Len(stack) \in Nat
  BY <1>1
<1>6. g \in RelationFrames /\ g \in Frames
  <2>1. index' \in Nat
    BY <1>1, <1>2
  <2> HIDE <1>2
  <2> QED
    BY <1>1, <1>3, <1>4, <1>5, <2>1 DEF RelationFrames, Frames
<1>7. /\ g.at = "relation" /\ g.key = k
      /\ g.index = index + 1 /\ g.pos = Len(stack) /\ g.outer = lowlink
  BY <1>2, <1>3
<1>8. frames' = Append(frames, g)
  BY <1>3 DEF Enter
<1>9. /\ frames' \in Seq(Frames) /\ Len(frames') = Len(frames) + 1
      /\ DOMAIN frames' = 1 .. Len(frames) + 1
      /\ \A i \in 1 .. Len(frames) : frames'[i] = frames[i]
      /\ frames'[Len(frames) + 1] = g
  BY <1>1, <1>6, <1>8, Pushed
<1>10. /\ stack' \in Seq(Keys) /\ Len(stack') = Len(stack) + 1
       /\ DOMAIN stack' = 1 .. Len(stack) + 1 /\ DOMAIN stack = 1 .. Len(stack)
       /\ \A p \in 1 .. Len(stack) : stack'[p] = stack[p]
       /\ stack'[Len(stack) + 1] = k
  BY <1>1, <1>2, Pushed
<1>11. memo[k].state = "none" /\ memo[k].index = 0
  BY <1>2 DEF Unseen
<1>12. /\ memo'[k].state = "computing" /\ memo'[k].index = index + 1
       /\ \A q \in Keys : q # k => memo'[q] = memo[q]
  BY <1>1, <1>2
<1>13. memo' \in [Keys -> Memos]
  BY <1>1, <1>2 DEF Memos
<1>14. \A q \in Keys : memo[q].index \in Nat /\ memo[q].index < index + 1
  <2>1. \A q \in Keys : memo[q].index <= index
    BY DEF Facts, MemoKnown
  <2>2. \A q \in Keys : memo[q].index \in Nat
    BY <1>1 DEF Memos
  <2> QED
    BY <1>1, <2>1, <2>2
<1>15. Said(k) \in DOMAIN meaning
  BY <1>2, CalledClaim
<1>16. next' \in RewriteCalls /\ next'.go = "rewrite"
  <2>1. Said(k).rw = Definition(k)
    BY DEF Said, Says, Claim, Definition
  <2>2. Definition(k) \in Rewrites
    BY <1>15, <2>1 DEF Rewrites
  <2> QED
    BY <1>2, <2>2 DEF Rewrite, RewriteCalls
<1>17. Typed'
  BY <1>1, <1>2, <1>9, <1>10, <1>13, <1>16, TypedStep
<1>18. next = Relation(k)
  BY <1>1, <1>2, NextTypes DEF RelationCalls, Relation
<1> QED
  BY <1>1, <1>2, <1>5, <1>6, <1>7, <1>9, <1>10, <1>11, <1>12, <1>14, <1>15, <1>16, <1>17, <1>18

(* Enter: the key that is entered is the last on the stack. *)
LEMMA EnterShape ==
  ASSUME Facts, Shape, NEW k \in Keys, Enter(k)
  PROVE  Facts' /\ Shape'
<1>n. PICK n : n = Len(frames)
  OBVIOUS
<1>g. PICK g : g = frames'[n + 1]
  OBVIOUS
<1>1. /\ n \in Nat /\ DOMAIN frames = 1 .. n /\ DOMAIN frames' = 1 .. n + 1
      /\ Len(frames') = n + 1
      /\ \A i \in 1 .. n : frames'[i] = frames[i]
  BY <1>n, <1>g, Entered
<1>2. /\ g \in RelationFrames /\ g.at = "relation" /\ g.key = k
      /\ g.index = index + 1 /\ g.pos = Len(stack) /\ g.outer = lowlink
  BY <1>n, <1>g, Entered
<1>3. /\ Len(stack) \in Nat /\ DOMAIN stack' = 1 .. Len(stack) + 1
      /\ DOMAIN stack = 1 .. Len(stack)
      /\ \A p \in DOMAIN stack : stack'[p] = stack[p]
      /\ stack'[Len(stack) + 1] = k
  BY <1>n, <1>g, Entered
<1>4. /\ index \in Nat /\ index' = index + 1 /\ lowlink' = index + 1
      /\ memo[k].state = "none" /\ memo[k].index = 0
      /\ memo'[k].state = "computing" /\ memo'[k].index = index + 1
      /\ \A q \in Keys : q # k => memo'[q] = memo[q]
      /\ \A q \in Keys : memo[q].index \in Nat /\ memo[q].index < index + 1
  BY <1>n, <1>g, Entered
<1>5. /\ IsDefined(k) /\ Said(k) \in DOMAIN meaning
      /\ asked' = asked /\ next.go = "relation" /\ next = Relation(k)
      /\ next' = Rewrite(Definition(k), k) /\ next'.go = "rewrite"
      /\ Typed'
  BY <1>n, <1>g, Entered
<1>6. Typed /\ DepthOK /\ MemoKnown /\ StackInOrder
  BY DEF Facts
<1>7. DepthOK'
  <2>1. PICK e \in Frames : e.at # "operands" /\ frames' = Append(frames, e)
    <3>1. PICK e : e = [at |-> "relation", key |-> k, index |-> index', pos |-> Len(stack),
                        outer |-> lowlink, back |-> Back(FALSE, NoNode), turn |-> 0, size |-> 0,
                        changed |-> FALSE]
      OBVIOUS
    <3>2. frames' = Append(frames, e) /\ e.at = "relation"
      BY <3>1 DEF Enter
    <3>3. frames'[n + 1] = e
      <4>1. frames \in Seq(Frames)
        BY <1>6 DEF Typed
      <4> QED
        BY <1>n, <3>2, <4>1
    <3> QED
      BY <1>2, <1>g, <3>2, <3>3 DEF Frames
  <2> QED
    BY <1>6, <2>1, DepthPushed DEF Enter
<1>8. MemoKnown'
  <2>1. \A q \in Keys : q # k =>
          /\ memo[q].index <= index + 1
          /\ memo[q].state = "none" => memo[q].index = 0
          /\ memo[q].state # "none" => IsDefined(q) /\ Said(q) \in DOMAIN meaning
    BY <1>4, <1>6 DEF MemoKnown
  <2>2. \A q \in Keys : /\ memo'[q].index <= index'
                        /\ memo'[q].state = "none" => memo'[q].index = 0
                        /\ memo'[q].state # "none" => IsDefined(q) /\ Said(q) \in DOMAIN meaning
    BY <1>4, <1>5, <2>1
  <2> QED
    BY <1>5, <2>2, CaseKept DEF MemoKnown
<1>9. \A p \in DOMAIN stack : /\ stack[p] \in Keys /\ stack[p] # k
                              /\ memo[stack[p]].index # 0
                              /\ memo'[stack[p]] = memo[stack[p]]
  <2>1. \A p \in DOMAIN stack : stack[p] \in Keys /\ memo[stack[p]].index # 0
    BY OnStack
  <2> QED
    BY <1>4, <2>1
<1>10. StackInOrder'
  <2>1. ASSUME NEW i \in DOMAIN stack', NEW j \in DOMAIN stack', i < j
        PROVE  memo'[stack'[i]].index < memo'[stack'[j]].index
    <3>1. i \in DOMAIN stack
      BY <1>3, <2>1
    <3>2. CASE j \in DOMAIN stack
      BY <1>3, <1>6, <1>9, <2>1, <3>1, <3>2 DEF StackInOrder
    <3>3. CASE j = Len(stack) + 1
      BY <1>3, <1>4, <1>9, <3>1, <3>3
    <3> QED
      BY <1>3, <3>2, <3>3
  <2>2. ASSUME NEW q \in Keys
        PROVE  memo'[q].index # 0 <=> \E i \in DOMAIN stack' : stack'[i] = q
    <3>1. CASE q = k
      BY <1>3, <1>4, <3>1
    <3>2. CASE q # k
      <4>1. memo'[q].index # 0 <=> \E i \in DOMAIN stack : stack[i] = q
        BY <1>4, <1>6, <3>2 DEF StackInOrder
      <4>2. \A i : i \in DOMAIN stack' <=> i \in DOMAIN stack \/ i = Len(stack) + 1
        BY <1>3
      <4> QED
        BY <1>3, <3>2, <4>1, <4>2
    <3> QED
      BY <3>1, <3>2
  <2> QED
    BY <2>1, <2>2 DEF StackInOrder
<1>11. Facts'
  <2>1. FailedForCause'
    BY <1>5 DEF FailedForCause, Failing
  <2> QED
    BY <1>5, <1>7, <1>8, <1>10, <2>1 DEF Facts
<1>12. ASSUME NEW i \in 1 .. n, frames[i].at = "settle"
       PROVE  /\ frames[i].turn \in 1 .. frames[i].size + 1
              /\ frames[i].turn # frames[i].size + 1
              /\ frames[i].pos + frames[i].turn \in DOMAIN stack
              /\ frames[i].pos + frames[i].size \in DOMAIN stack
  <2>1. SettleShape(i) /\ RelationShape(i) /\ frames[i] \in RelationFrames
    BY <1>1, <1>6, <1>12, FrameTypes DEF Shape, Opens
  <2>2. frames[i].turn # frames[i].size + 1
    BY <1>5, <2>1 DEF SettleShape
  <2>3. frames[i].pos \in Nat /\ frames[i].size \in Nat /\ frames[i].turn \in Nat
    BY <2>1 DEF RelationFrames
  <2>4. frames[i].turn \in 1 .. frames[i].size + 1 /\ frames[i].pos + frames[i].size \in DOMAIN stack
    BY <2>1 DEF SettleShape
  <2>5. frames[i].turn >= 1 /\ frames[i].turn <= frames[i].size
    BY <2>2, <2>3, <2>4
  <2> QED
    BY <1>3, <2>2, <2>3, <2>4, <2>5
<1>13. ASSUME NEW i \in 1 .. n
       PROVE  Awaits(frames[i])' = Awaits(frames[i])
  <2>1. \A q : Definition(q)' = Definition(q)
    BY <1>5, CaseKept
  <2>2. frames[i].at = "settle" => Member(frames[i])' = Member(frames[i])
    BY <1>1, <1>3, <1>12 DEF Member
  <2>3. frames'[i] = frames[i]
    BY <1>1
  <2> QED
    BY <2>1, <2>2, <2>3 DEF Awaits
<1>e. frames = <<>> <=> n = 0
  BY <1>6, <1>n DEF Typed
<1>14. Chain'
  <2>1. Serves(g) = next
    BY <1>2, <1>5 DEF Serves
  <2>2. next = IF frames = <<>> THEN Relation(case.key) ELSE Awaits(frames[n])
    BY <1>5, <1>n DEF Shape, Chain, Last
  <2>4. Serves(frames'[1]) = Relation(case.key)
    <3>1. CASE n = 0
      BY <1>g, <2>1, <2>2, <1>e, <3>1
    <3>2. CASE n # 0
      BY <1>1, <1>e, <3>2 DEF Shape, Chain
    <3> QED
      BY <3>1, <3>2
  <2>5. ASSUME NEW i \in 1 .. n
        PROVE  Serves(frames'[i + 1]) = Awaits(frames[i])'
    <3>1. CASE i = n
      BY <1>1, <1>13, <1>g, <2>1, <2>2, <1>e, <3>1
    <3>2. CASE i # n
      <4>1. i \in 1 .. n - 1 /\ i + 1 \in 1 .. n
        BY <1>1, <3>2
      <4>2. Serves(frames[i + 1]) = Awaits(frames[i])
        BY <1>n, <4>1 DEF Shape, Chain
      <4> QED
        BY <1>1, <1>13, <4>1, <4>2
    <3> QED
      BY <3>1, <3>2
  <2>6. \A i \in 1 .. Len(frames') - 1 : (Serves(frames[i + 1]) = Awaits(frames[i]))'
    <3>1. \A i : Serves(frames[i + 1])' = Serves(frames'[i + 1])
      OBVIOUS
    <3>2. Len(frames') - 1 = n
      BY <1>1
    <3> QED
      BY <2>5, <3>1, <3>2
  <2>7. frames' # <<>> /\ Last(frames)' = g /\ case' = case
    BY <1>1, <1>5, <1>g, CaseKept DEF Last
  <2>8. next' = Awaits(Last(frames))'
    <3>2. Awaits(Last(frames))' = Rewrite(Definition(k), k)
      <4>1. Awaits(Last(frames))' = Rewrite(Definition(k)', k)
        BY <1>2, <2>7 DEF Awaits, Rewrite
      <4> QED
        BY <1>5, <4>1, CaseKept
    <3> QED
      BY <1>5, <3>2
  <2> QED
    BY <1>5, <2>4, <2>6, <2>7, <2>8 DEF Chain
<1>15. ASSUME NEW i \in 1 .. n
       PROVE  /\ ~Opens(i)' => OperandsShape(frames[i])'
              /\ Opens(i)' => RelationShape(i)'
              /\ frames'[i].at = "settle" => SettleShape(i)'
  <2>1. frames'[i] = frames[i] /\ i \in DOMAIN frames
    BY <1>1
  <2>2. ~Opens(i)' => OperandsShape(frames[i])'
    <3>1. ~Opens(i) => OperandsShape(frames[i])
      BY <2>1 DEF Shape
    <3>2. OperandsShape(frames[i])' <=> OperandsShape(frames'[i])
      BY <1>5, CaseKept
    <3> QED
      BY <2>1, <3>1, <3>2 DEF Opens
  <2>3. \A j \in i + 1 .. n + 1 : j # n + 1 => j \in i + 1 .. n /\ frames'[j] = frames[j]
    BY <1>1
  <2>4. ASSUME Opens(i)
        PROVE  RelationShape(i)'
    <3>1. RelationShape(i)
      BY <2>1, <2>4 DEF Shape
    <3>2. frames[i].key \in Keys /\ frames[i].index \in Nat \ {0}
          /\ memo[frames[i].key].index = frames[i].index
      BY <2>1, <2>4, OpenOnStack
    <3>3. frames[i].key # k /\ frames[i].index < index + 1
      BY <1>4, <3>2
    <3>4. \A j \in i + 1 .. n + 1 : Opens(j)' => frames[i].index < frames'[j].index
      BY <1>2, <1>n, <1>g, <2>3, <3>1, <3>3 DEF RelationShape, Opens
    <3>5. frames[i].pos + 1 \in DOMAIN stack' /\ stack'[frames[i].pos + 1] = frames[i].key
      BY <1>3, <3>1 DEF RelationShape
    <3> QED
      BY <1>1, <1>4, <2>1, <3>1, <3>2, <3>3, <3>4, <3>5 DEF RelationShape
  <2>5. ASSUME frames[i].at = "settle"
        PROVE  SettleShape(i)'
    <3>1. SettleShape(i)
      BY <2>1, <2>5 DEF Shape
    <3> DEFINE l == frames[i].pos + frames[i].size
    <3>2. l \in DOMAIN stack /\ l \in DOMAIN stack' /\ stack'[l] = stack[l]
          /\ memo'[stack[l]] = memo[stack[l]]
      BY <1>3, <1>9, <1>12, <2>5
    <3>3. memo[stack[l]].index < index + 1
      BY <1>4, <1>9, <3>2
    <3>4. \A j \in i + 1 .. n + 1 : Opens(j)' => memo[stack[l]].index < frames'[j].index
      BY <1>2, <1>n, <1>g, <2>3, <3>1, <3>3 DEF SettleShape, LastMember, Opens
    <3> QED
      BY <1>1, <1>12, <2>1, <2>5, <3>2, <3>4 DEF SettleShape, LastMember
  <2> QED
    BY <2>1, <2>2, <2>4, <2>5 DEF Opens
<1>16. Opens(n + 1)' /\ frames'[n + 1].at # "settle" /\ RelationShape(n + 1)'
  <2>1. \A j \in n + 1 + 1 .. n + 1 : FALSE
    BY <1>1
  <2>2. n + 1 = 1 => lowlink = 0 /\ Len(stack) = 0
    <3>1. n = 0 => frames = <<>>
      BY <1>e
    <3>2. n = 0 => stack = <<>> /\ lowlink = 0
      BY <1>5, <3>1 DEF Shape, Chain
    <3> QED
      BY <1>1, <3>2
  <2> QED
    BY <1>1, <1>2, <1>3, <1>4, <1>g, <2>1, <2>2 DEF RelationShape, Opens
<1>17. \A i \in DOMAIN frames' : i \in 1 .. n \/ i = n + 1
  BY <1>1
<1> QED
  BY <1>11, <1>14, <1>15, <1>16, <1>17 DEF Shape

(* The innermost relation returns: what was entered before it stays.       *)
LEMMA LeaveShape ==
  ASSUME Facts, Shape, frames # <<>>, Last(frames).at # "operands",
         frames' = Front(frames), depth' = depth - 1, asked' = asked,
         next'.go = "back", ~next'.failed, Typed', MemoKnown', StackInOrder',
         \A p \in DOMAIN stack : memo[stack[p]].index < Last(frames).index =>
           /\ p \in DOMAIN stack' /\ stack'[p] = stack[p]
           /\ memo'[stack[p]].index = memo[stack[p]].index
  PROVE  Facts' /\ Shape'
<1>n. PICK n : n = Len(frames)
  OBVIOUS
<1>1. Typed /\ DepthOK /\ frames \in Seq(Frames)
  BY DEF Facts, Typed
<1>2. n \in Nat \ {0} /\ n \in DOMAIN frames /\ DOMAIN frames = 1 .. n /\ Last(frames) = frames[n]
      /\ Opens(n)
  BY <1>1, <1>n, OnTop DEF Opens
<1>3. /\ DOMAIN frames' = 1 .. n - 1 /\ Len(frames') = n - 1
      /\ \A i \in 1 .. n - 1 : frames'[i] = frames[i]
  BY <1>1, <1>n, Dropped
<1>4. \A i \in 1 .. n - 1 : i \in 1 .. n /\ i \in DOMAIN frames /\ i < n /\ i # n
  BY <1>2
<1>5. ASSUME NEW i \in 1 .. n - 1, Opens(i)
      PROVE  /\ RelationShape(i)
             /\ frames[i].pos + 1 \in DOMAIN stack'
             /\ stack'[frames[i].pos + 1] = frames[i].key
             /\ memo'[frames[i].key].index = frames[i].index
             /\ frames[i].at = "settle" =>
                  /\ SettleShape(i) /\ frames[i].turn <= frames[i].size
                  /\ stack'[frames[i].pos + frames[i].turn]
                       = stack[frames[i].pos + frames[i].turn]
                  /\ frames[i].pos + frames[i].size \in DOMAIN stack'
                  /\ stack'[frames[i].pos + frames[i].size]
                       = stack[frames[i].pos + frames[i].size]
                  /\ memo'[stack[frames[i].pos + frames[i].size]].index
                       = memo[stack[frames[i].pos + frames[i].size]].index
  <2>1. i \in DOMAIN frames /\ i < n
    BY <1>4
  <2>2. /\ frames[i].pos + 1 \in DOMAIN stack
        /\ stack[frames[i].pos + 1] = frames[i].key
        /\ memo[stack[frames[i].pos + 1]].index < frames[n].index
        /\ frames[i].at = "settle" =>
             /\ frames[i].turn <= frames[i].size
             /\ frames[i].pos + frames[i].turn \in DOMAIN stack
             /\ frames[i].pos + frames[i].size \in DOMAIN stack
             /\ memo[stack[frames[i].pos + frames[i].size]].index < frames[n].index
             /\ memo[stack[frames[i].pos + frames[i].turn]].index < frames[n].index
    BY <1>2, <1>5, <2>1, Below
  <2>3. RelationShape(i) /\ (frames[i].at = "settle" => SettleShape(i))
    BY <1>5, <2>1 DEF Shape
  <2>4. memo[frames[i].key].index = frames[i].index
    BY <2>3 DEF RelationShape
  <2> QED
    BY <1>2, <2>2, <2>3, <2>4
<1>6. ASSUME NEW i \in 1 .. n - 1
      PROVE  Awaits(frames[i])' = Awaits(frames[i])
  <2>1. \A q : Definition(q)' = Definition(q)
    BY CaseKept
  <2>2. frames[i].at = "settle" => Member(frames[i])' = Member(frames[i])
    BY <1>3, <1>5 DEF Member, Opens
  <2>3. frames'[i] = frames[i]
    BY <1>3
  <2> QED
    BY <2>1, <2>2, <2>3 DEF Awaits
<1>7. Chain'
  <2>1. frames' # <<>> => Serves(frames'[1]) = Relation(case.key)
    <3>1. frames' # <<>> => 1 \in 1 .. n - 1
      <4>1. frames' \in Seq(Frames')
        BY DEF Typed
      <4> QED
        BY <1>2, <1>3, <4>1
    <3> QED
      BY <1>3, <3>1 DEF Shape, Chain
  <2>2. \A i \in 1 .. Len(frames') - 1 : (Serves(frames[i + 1]) = Awaits(frames[i]))'
    <3>1. ASSUME NEW i \in 1 .. Len(frames') - 1
          PROVE  Serves(frames'[i + 1]) = Awaits(frames[i])'
      <4>1. i \in 1 .. n - 1 /\ i + 1 \in 1 .. n - 1
        BY <1>2, <1>3
      <4>2. Serves(frames[i + 1]) = Awaits(frames[i])
        BY <1>n, <4>1 DEF Shape, Chain
      <4> QED
        BY <1>3, <1>6, <4>1, <4>2
    <3>2. \A i : Serves(frames[i + 1])' = Serves(frames'[i + 1])
      OBVIOUS
    <3> QED
      BY <3>1, <3>2
  <2>3. case' = case
    BY CaseKept
  <2> QED
    BY <2>1, <2>2, <2>3 DEF Chain
<1>8. ASSUME NEW i \in 1 .. n - 1
      PROVE  /\ ~Opens(i)' => OperandsShape(frames[i])'
             /\ Opens(i)' => RelationShape(i)'
             /\ frames'[i].at = "settle" => SettleShape(i)'
  <2>1. frames'[i] = frames[i] /\ i \in DOMAIN frames /\ i # n
    BY <1>3, <1>4
  <2>2. \A j \in i + 1 .. n - 1 : j \in i + 1 .. n /\ frames'[j] = frames[j]
    BY <1>2, <1>3
  <2>3. ~Opens(i)' => OperandsShape(frames[i])'
    <3>1. ~Opens(i) => OperandsShape(frames[i])
      BY <2>1 DEF Shape
    <3>2. OperandsShape(frames[i])' <=> OperandsShape(frames'[i])
      BY CaseKept
    <3> QED
      BY <2>1, <3>1, <3>2 DEF Opens
  <2>4. Opens(i) => RelationShape(i)'
    BY <1>3, <1>5, <1>n, <2>1, <2>2 DEF RelationShape, Opens
  <2>5. ASSUME frames[i].at = "settle"
        PROVE  SettleShape(i)'
    <3>1. Opens(i)
      BY <2>5 DEF Opens
    <3>2. SettleShape(i) /\ frames[i].turn # frames[i].size + 1
      BY <1>5, <1>n, <2>1, <2>5, <3>1 DEF SettleShape
    <3> QED
      BY <1>3, <1>5, <1>n, <2>1, <2>2, <2>5, <3>1, <3>2 DEF SettleShape, LastMember, Opens
  <2> QED
    BY <2>1, <2>3, <2>4, <2>5 DEF Opens
<1>9. Facts'
  <2>1. DepthOK'
    BY <1>1, DepthDropped
  <2>2. FailedForCause'
    BY DEF FailedForCause, Failing
  <2> QED
    BY <2>1, <2>2 DEF Facts
<1> QED
  BY <1>3, <1>7, <1>8, <1>9 DEF Shape

(* The members of the innermost component are what was entered from its    *)
(* root on.                                                                *)
LEMMA MembersAre ==
  ASSUME Facts, Shape, frames # <<>>, Last(frames).at # "operands"
  PROVE  LET f == Last(frames)
         IN  /\ f.pos + 1 \in DOMAIN stack /\ f.pos \in Nat /\ f.index \in Nat \ {0}
             /\ \A p \in DOMAIN stack : p >= f.pos + 1 <=> f.index <= memo[stack[p]].index
             /\ \A k \in Keys : k \in Members(f) <=> f.index <= memo[k].index
<1> DEFINE f == Last(frames)
<1>1. /\ stack \in Seq(Keys) /\ StackInOrder
  BY DEF Facts, Typed
<1>2. /\ f \in RelationFrames /\ RelationShape(Len(frames)) /\ f.pos + 1 \in DOMAIN stack
      /\ f = frames[Len(frames)] /\ Len(frames) \in DOMAIN frames
  BY TopShape
<1>3. f.index \in Nat \ {0} /\ f.pos \in Nat /\ f.key \in Keys
  BY <1>2, OpenOnStack DEF Opens, RelationFrames
<1>4. stack[f.pos + 1] = f.key /\ memo[f.key].index = f.index
  BY <1>2 DEF RelationShape
<1> HIDE DEF f
<1>5. ASSUME NEW p \in DOMAIN stack
      PROVE  p >= f.pos + 1 <=> f.index <= memo[stack[p]].index
  <2>1. memo[stack[p]].index \in Nat /\ p \in Nat
    BY <1>1, OnStack
  <2>2. p < f.pos + 1 => memo[stack[p]].index < f.index
    BY <1>1, <1>2, <1>4 DEF StackInOrder
  <2>3. p > f.pos + 1 => f.index < memo[stack[p]].index
    BY <1>1, <1>2, <1>4 DEF StackInOrder
  <2> QED
    BY <1>3, <1>4, <2>1, <2>2, <2>3
<1>6. ASSUME NEW k \in Keys
      PROVE  k \in Members(f) <=> f.index <= memo[k].index
  <2>1. ASSUME k \in Members(f)
        PROVE  f.index <= memo[k].index
    <3>1. PICK p \in f.pos + 1 .. Len(stack) : k = stack[p]
      BY <2>1 DEF Members
    <3>2. p \in DOMAIN stack /\ p >= f.pos + 1
      BY <1>1, <1>3, <3>1
    <3> QED
      BY <1>5, <3>1, <3>2
  <2>2. ASSUME f.index <= memo[k].index
        PROVE  k \in Members(f)
    <3>1. memo[k].index # 0
      BY <1>3, <2>2
    <3>2. PICK p \in DOMAIN stack : stack[p] = k
      BY <1>1, <3>1 DEF StackInOrder
    <3>3. p >= f.pos + 1
      BY <1>5, <2>2, <3>2
    <3> QED
      BY <1>1, <1>3, <3>2, <3>3 DEF Members
  <2> QED
    BY <2>1, <2>2
<1> QED
  BY <1>2, <1>3, <1>5, <1>6 DEF f

(* Pop: what stays on the stack was entered before the root. *)
LEMMA PopShape ==
  ASSUME Facts, Shape, Pop
  PROVE  Facts' /\ Shape'
<1>f. PICK f : f = Last(frames)
  OBVIOUS
<1>1. /\ Typed /\ memo \in [Keys -> Memos] /\ lowlink \in Nat /\ stack \in Seq(Keys)
      /\ proof \in Proofs /\ DepthOK /\ MemoKnown /\ StackInOrder /\ index \in Nat
      /\ frames \in Seq(Frames) /\ depth \in Nat
  BY DEF Facts, Typed
<1>2. next.go = "test" /\ next \in Tests /\ frames # <<>> /\ f.at = "relation"
  BY <1>1, <1>f, NextTypes DEF Pop, Shape, Chain
<1>3. f \in RelationFrames /\ f.outer \in Nat
  BY <1>2, <1>f, TopShape DEF RelationFrames
<1>4. /\ f.pos + 1 \in DOMAIN stack /\ f.pos \in Nat /\ f.index \in Nat \ {0}
      /\ \A p \in DOMAIN stack : p >= f.pos + 1 <=> f.index <= memo[stack[p]].index
      /\ \A k \in Keys : k \in Members(f) <=> f.index <= memo[k].index
  BY <1>2, <1>f, MembersAre
<1>5. PICK allowed : allowed = Final(f)
  OBVIOUS
<1>6. /\ memo' = [k \in Keys |-> IF k \in Members(f)
                                THEN [memo[k] EXCEPT !.index = 0] ELSE memo[k]]
      /\ stack' = SubSeq(stack, 1, f.pos)
      /\ proof' = Closed(proof, next.node, allowed)
      /\ next' = Back(allowed, next.node)
      /\ frames' = Front(frames) /\ depth' = depth - 1 /\ lowlink' = Lower(f.outer, lowlink)
      /\ asked' = asked /\ index' = index
  BY <1>5, <1>f DEF Pop, Leave, Revised
<1>7. allowed \in BOOLEAN /\ next.node \in Nat
  BY <1>2, <1>5 DEF Final, Tests
<1>8. next' \in Backs /\ ~next'.failed /\ next'.go = "back"
  BY <1>6, <1>7, BackTypes DEF Back
<1>9. proof' \in Proofs
  BY <1>1, <1>6, ClosedType
<1>10. \A k \in Keys : /\ k \in Members(f) => memo'[k].index = 0
                       /\ k \notin Members(f) => memo'[k] = memo[k]
                       /\ memo'[k].state = memo[k].state
                       /\ memo'[k] \in Memos
  <2>1. ASSUME NEW k \in Keys
        PROVE  /\ k \in Members(f) => memo'[k].index = 0
               /\ k \notin Members(f) => memo'[k] = memo[k]
               /\ memo'[k].state = memo[k].state
               /\ memo'[k] \in Memos
    <3>1. memo[k] \in Memos
      BY <1>1
    <3>2. memo'[k] = IF k \in Members(f) THEN [memo[k] EXCEPT !.index = 0] ELSE memo[k]
      BY <1>6
    <3> QED
      BY <3>1, <3>2 DEF Memos
  <2> QED
    BY <2>1
<1>11. memo' \in [Keys -> Memos]
  BY <1>6, <1>10
<1>12. f.pos <= Len(stack) /\ Len(stack) \in Nat /\ DOMAIN stack = 1 .. Len(stack)
  BY <1>1, <1>4
<1>13. /\ stack' \in Seq(Keys) /\ DOMAIN stack' = 1 .. f.pos
       /\ \A p \in 1 .. f.pos : stack'[p] = stack[p] /\ p \in DOMAIN stack
  BY <1>1, <1>4, <1>6, <1>12
<1>14. lowlink' \in Nat
  BY <1>1, <1>3, <1>6 DEF Lower
<1>15. frames' \in Seq(Frames)
  BY <1>1, <1>2, <1>6, Dropped
<1>16. depth' \in Nat
  BY <1>1, <1>2, <1>6, <1>f, DepthDropped
<1>17. Typed'
  BY <1>1, <1>6, <1>8, <1>9, <1>11, <1>13, <1>14, <1>15, <1>16, TypedStep
<1>18. \A p \in DOMAIN stack : p \in 1 .. f.pos <=> memo[stack[p]].index < f.index
  <2>1. \A p \in DOMAIN stack : memo[stack[p]].index \in Nat
    BY OnStack
  <2>2. \A p \in DOMAIN stack : p \in 1 .. f.pos <=> ~(p >= f.pos + 1)
    BY <1>4, <1>12
  <2> QED
    BY <1>4, <2>1, <2>2
<1>19. \A p \in 1 .. f.pos : stack[p] \in Keys /\ memo'[stack[p]] = memo[stack[p]]
  <2>1. \A p \in 1 .. f.pos : stack[p] \in Keys
    BY <1>1, <1>13
  <2>2. \A p \in 1 .. f.pos : ~(f.index <= memo[stack[p]].index)
    <3>1. \A p \in DOMAIN stack : memo[stack[p]].index \in Nat
      BY OnStack
    <3> QED
      BY <1>4, <1>13, <1>18, <3>1
  <2> QED
    BY <1>4, <1>10, <2>1, <2>2
<1>20. MemoKnown'
  <2>1. \A k \in Keys : /\ memo'[k].index <= index
                        /\ memo'[k].state = "none" => memo'[k].index = 0
    BY <1>1, <1>10 DEF MemoKnown
  <2> QED
    BY <1>1, <1>6, <1>10, <2>1, CaseKept DEF MemoKnown
<1>21. StackInOrder'
  <2>1. \A i, j \in DOMAIN stack' : i < j => memo'[stack'[i]].index < memo'[stack'[j]].index
    BY <1>1, <1>13, <1>19 DEF StackInOrder
  <2>2. ASSUME NEW k \in Keys
        PROVE  memo'[k].index # 0 <=> \E i \in DOMAIN stack' : stack'[i] = k
    <3>1. CASE k \in Members(f)
      <4>1. \A i \in 1 .. f.pos : stack[i] # k
        <5>1. memo[k].index \in Nat
          BY <1>1 DEF Memos
        <5> QED
          BY <1>4, <1>13, <1>18, <3>1, <5>1
      <4> QED
        BY <1>10, <1>13, <3>1, <4>1
    <3>2. CASE k \notin Members(f)
      <4>1. memo'[k] = memo[k] /\ (memo[k].index # 0 <=> \E i \in DOMAIN stack : stack[i] = k)
        BY <1>1, <1>10, <3>2 DEF StackInOrder
      <4>2. \A i \in DOMAIN stack : stack[i] = k => i \in 1 .. f.pos
        <5>1. memo[k].index \in Nat /\ ~(f.index <= memo[k].index)
          BY <1>1, <1>4, <3>2 DEF Memos
        <5> QED
          BY <1>4, <1>18, <5>1
      <4> QED
        BY <1>13, <4>1, <4>2
    <3> QED
      BY <3>1, <3>2
  <2> QED
    BY <2>1, <2>2 DEF StackInOrder
<1> QED
  BY <1>2, <1>6, <1>8, <1>13, <1>17, <1>18, <1>19, <1>20, <1>21, <1>f, LeaveShape

(* Stay pops the frame and leaves its key on the stack. *)
LEMMA StayShape ==
  ASSUME Facts, Shape, Stay
  PROVE  Facts' /\ Shape'
<1>f. PICK f : f = Last(frames)
  OBVIOUS
<1>1. /\ Typed /\ memo \in [Keys -> Memos] /\ lowlink \in Nat /\ stack \in Seq(Keys)
      /\ proof \in Proofs /\ DepthOK /\ index \in Nat
      /\ frames \in Seq(Frames) /\ depth \in Nat
  BY DEF Facts, Typed
<1>2. next.go = "test" /\ next \in Tests /\ frames # <<>> /\ f.at = "relation"
  BY <1>1, <1>f, NextTypes DEF Stay, Shape, Chain
<1>3. f \in RelationFrames /\ f.outer \in Nat
  BY <1>2, <1>f, TopShape DEF RelationFrames
<1>4. /\ memo' = memo /\ stack' = stack /\ proof' = proof
      /\ next' = Back(next.allowed, next.node)
      /\ frames' = Front(frames) /\ depth' = depth - 1 /\ lowlink' = Lower(f.outer, lowlink)
      /\ asked' = asked /\ index' = index
  BY <1>f DEF Stay, Leave
<1>5. next' \in Backs /\ ~next'.failed /\ next'.go = "back"
  BY <1>2, <1>4, BackTypes DEF Back, Tests
<1>6. lowlink' \in Nat
  BY <1>1, <1>3, <1>4 DEF Lower
<1>7. frames' \in Seq(Frames)
  BY <1>1, <1>2, <1>4, Dropped
<1>8. depth' \in Nat
  BY <1>1, <1>2, <1>4, <1>f, DepthDropped
<1>9. Typed'
  BY <1>1, <1>4, <1>5, <1>6, <1>7, <1>8, TypedStep
<1>10. MemoKnown' /\ StackInOrder'
  BY <1>4, CaseKept DEF Facts, MemoKnown, StackInOrder
<1> QED
  BY <1>2, <1>4, <1>5, <1>9, <1>10, <1>f, LeaveShape

(* An error unwinds the call stack, whatever is on it.                     *)
LEMMA UnwindShape ==
  ASSUME Facts, Unwind
  PROVE  Facts' /\ Failing'
<1>f. PICK f : f = Last(frames)
  OBVIOUS
<1>1. /\ Typed /\ memo \in [Keys -> Memos] /\ lowlink \in Nat /\ stack \in Seq(Keys)
      /\ proof \in Proofs /\ DepthOK /\ index \in Nat
      /\ frames \in Seq(Frames) /\ depth \in Nat
  BY DEF Facts, Typed
<1>2. /\ next.go = "back" /\ next.failed /\ frames # <<>> /\ frames' = Front(frames)
      /\ asked' = asked /\ memo' = memo /\ lowlink' = lowlink /\ index' = index /\ stack' = stack
  BY DEF Unwind
<1>3. next \in Backs /\ next.node \in Nat
  BY <1>1, <1>2, NextTypes DEF Backs
<1>4. f \in Frames /\ f.at \in {"operands", "relation", "settle"}
  BY <1>1, <1>2, <1>f, OnTop DEF Frames, OperandsFrames, RelationFrames
<1>5. CASE f.at = "operands"
  <2>1. f.node \in Nat
    BY <1>4, <1>5 DEF Frames, OperandsFrames, RelationFrames
  <2>2. depth' = depth /\ next' = Failed(f.node) /\ proof' = addChild(proof, f.node, next.node)
    BY <1>5, <1>f DEF Unwind, Linked
  <2>3. next' \in Backs /\ next'.failed /\ next'.go = "back"
    BY <2>1, <2>2, BackTypes DEF Failed
  <2>4. proof' \in Proofs /\ frames' \in Seq(Frames)
    BY <1>1, <1>2, <1>3, <2>2, AddChildType, Dropped
  <2>5. DepthOK'
    BY <1>1, <1>2, <1>5, <1>f, <2>2, DepthDropped
  <2>6. Typed'
    BY <1>1, <1>2, <2>2, <2>3, <2>4, TypedStep
  <2> QED
    BY <1>2, <2>3, <2>5, <2>6, CaseKept DEF Facts, MemoKnown, StackInOrder, FailedForCause, Failing
<1>6. CASE f.at \in {"relation", "settle"}
  <2>1. f.back \in Backs
    BY <1>4, <1>6 DEF Frames, OperandsFrames, RelationFrames
  <2>2. /\ depth' = depth - 1
        /\ next' = next \/ next' = Failed(f.back.node)
        /\ proof' = proof \/ proof' = resume(proof)
    BY <1>6, <1>f DEF Unwind
  <2>3. next' \in Backs /\ next'.failed /\ next'.go = "back"
    <3>1. f.back.node \in Nat
      BY <2>1 DEF Backs
    <3> QED
      BY <1>2, <1>3, <2>2, <3>1, BackTypes DEF Failed
  <2>4. proof' \in Proofs /\ frames' \in Seq(Frames)
    BY <1>1, <1>2, <2>2, PausedType, Dropped
  <2>5. DepthOK' /\ depth' \in Nat
    BY <1>1, <1>2, <1>6, <1>f, <2>2, DepthDropped
  <2>6. Typed'
    BY <1>1, <1>2, <2>3, <2>4, <2>5, TypedStep
  <2> QED
    BY <1>2, <2>3, <2>5, <2>6, CaseKept DEF Facts, MemoKnown, StackInOrder, FailedForCause, Failing
<1> QED
  BY <1>4, <1>5, <1>6

-----------------------------------------------------------------------------

(* A Check begins with nothing on either stack. *)
LEMMA InitShape ==
  EvalInit => Facts /\ Shape /\ ~Failing
<1> SUFFICES ASSUME EvalInit
             PROVE  Facts /\ Shape /\ ~Failing
  OBVIOUS
<1>1. /\ asked \in DOMAIN Cases /\ memo = [k \in Keys |-> Unseen]
      /\ index = 0 /\ lowlink = 0 /\ stack = <<>> /\ depth = 0 /\ frames = <<>>
      /\ next = Relation(case.key)
      /\ proof = [nodes |-> <<>>, truncated |-> FALSE, paused |-> 0]
  BY DEF EvalInit
<1>2. case.key \in Keys
  BY <1>1, CaseFacts
<1>3. next \in RelationCalls /\ next.go = "relation"
  BY <1>1, <1>2 DEF Relation, RelationCalls
<1>4. Typed
  <2>1. memo \in [Keys -> Memos]
    BY <1>1 DEF Memos, Unseen
  <2>2. proof \in Proofs
    <3>1. <<>> \in Seq(Nodes) /\ 0 \in Int
      OBVIOUS
    <3> QED
      BY <1>1, <3>1 DEF Proofs
  <2> QED
    BY <1>1, <1>3, <2>1, <2>2 DEF Typed
<1>5. DepthOK
  <2>1. {i \in DOMAIN frames : frames[i].at # "operands"} = {}
    BY <1>1
  <2> QED
    BY <1>1, <2>1, FS_EmptySet DEF DepthOK
<1>6. MemoKnown
  BY <1>1 DEF MemoKnown, Unseen
<1>7. StackInOrder
  BY <1>1 DEF StackInOrder, Unseen
<1>8. ~Failing
  BY <1>3 DEF Failing
<1>9. Shape
  BY <1>1, <1>3 DEF Shape, Chain
<1> QED
  BY <1>4, <1>5, <1>6, <1>7, <1>8, <1>9 DEF Facts, FailedForCause

(* An error is followed by nothing but its unwinding.                      *)
LEMMA FailingStep ==
  ASSUME Facts, Failing, [EvalNext]_evalVars
  PROVE  Facts' /\ Failing'
<1>1. next.go = "back" /\ next.failed
  BY DEF Failing
<1>2. ~Cancelled /\ \A k \in Keys : ~(Undefined(k) \/ Reuse(k) \/ TooDeep(k) \/ Enter(k))
  BY <1>1 DEF Cancelled, Undefined, Reuse, TooDeep, Enter, Calling
<1>3. ~(SourceFails \/ Stored \/ Expand \/ NextOperand \/ Decided \/ Answered)
  BY <1>1 DEF SourceFails, Stored, Expand, NextOperand, Decided, Answered, Rewriting, Returned
<1>4. ~(Settle \/ SkipMember \/ Reevaluate \/ Raise \/ EndRound \/ Pop \/ Stay)
  BY <1>1 DEF Settle, SkipMember, Reevaluate, Raise, EndRound, Pop, Stay, AtTurn, Returned
<1>5. CASE Unwind
  BY <1>5, UnwindShape
<1>6. CASE UNCHANGED evalVars
  BY <1>6, CaseKept, TypesKept
     DEF evalVars, Facts, Typed, DepthOK, MemoKnown, StackInOrder, FailedForCause, Failing
<1> QED
  BY <1>2, <1>3, <1>4, <1>5, <1>6 DEF EvalNext

(* Every step keeps the stacks in shape, or fails. *)
LEMMA ShapeStep ==
  ASSUME Facts, Shape, EvalNext
  PROVE  Facts' /\ (Failing' \/ Shape')
<1>1. CASE Cancelled
  BY <1>1, CancelledShape
<1>2. CASE \E k \in Keys : Undefined(k) \/ Reuse(k) \/ TooDeep(k) \/ Enter(k)
  BY <1>2, UndefinedShape, ReuseShape, TooDeepShape, EnterShape
<1>3. CASE SourceFails \/ Stored \/ Expand
  BY <1>3, SourceFailsShape, StoredShape, ExpandShape
<1>4. CASE NextOperand \/ Decided \/ Answered
  BY <1>4, NextOperandShape, DecidedShape, AnsweredShape
<1>5. CASE Settle \/ SkipMember \/ Reevaluate \/ Raise \/ EndRound
  BY <1>5, SettleShapes, SkipMemberShape, ReevaluateShape, RaiseShape, EndRoundShape
<1>6. CASE Pop \/ Stay \/ Unwind
  BY <1>6, PopShape, StayShape, UnwindShape
<1> QED
  BY <1>1, <1>2, <1>3, <1>4, <1>5, <1>6 DEF EvalNext

(* The stacks' part of the invariant is inductive by itself. *)
LEMMA ShapeKept ==
  ShapeInv /\ [EvalNext]_evalVars => ShapeInv'
<1> SUFFICES ASSUME ShapeInv, [EvalNext]_evalVars
             PROVE  ShapeInv'
  OBVIOUS
<1>1. CASE Failing
  BY <1>1, FailingStep DEF ShapeInv
<1>2. CASE ~Failing /\ EvalNext
  BY <1>2, ShapeStep DEF ShapeInv
<1>3. CASE ~Failing /\ UNCHANGED evalVars
  <2>1. Facts /\ Shape
    BY <1>3 DEF ShapeInv
  <2>2. UNCHANGED <<asked, memo, index, lowlink, stack, depth, frames, next, proof>>
    BY <1>3 DEF evalVars
  <2>3. Facts'
    BY <2>1, <2>2, CaseKept, TypesKept
       DEF Facts, Typed, DepthOK, MemoKnown, StackInOrder, FailedForCause, Failing
  <2>4. Shape'
    BY <2>1, <2>2, CaseKept, AwaitsKept
       DEF Shape, Chain, RelationShape, SettleShape, LastMember, Opens
  <2> QED
    BY <2>3, <2>4 DEF ShapeInv
<1> QED
  BY <1>1, <1>2, <1>3

-----------------------------------------------------------------------------
(* How far out what was reached lies. *)

(* What the frames stand for. *)
LEMMA ClaimAtIs ==
  ASSUME Facts, Shape, NEW i \in DOMAIN frames
  PROVE  /\ ClaimAt(i) \in DOMAIN meaning
         /\ LevelOf(ClaimAt(i)) \in Nat /\ StageOf(ClaimAt(i)) \in Nat
         /\ Opens(i) => ClaimAt(i) = Said(frames[i].key)
         /\ ~Opens(i) => ClaimAt(i) = Claim(frames[i].rw, frames[i].key)
<1>1. asked \in DOMAIN Cases
  BY DEF Facts, Typed
<1>2. Opens(i) => ClaimAt(i) = Said(frames[i].key) /\ Said(frames[i].key) \in DOMAIN meaning
  BY OpenOnStack DEF ClaimAt, ClaimOf, Serves, Relation, Opens
<1>3. ~Opens(i) => /\ ClaimAt(i) = Claim(frames[i].rw, frames[i].key)
                   /\ ClaimOf(Serves(frames[i])) \in DOMAIN meaning
  BY DEF ClaimAt, ClaimOf, Serves, Rewrite, Opens, Shape, OperandsShape
<1>4. ClaimAt(i) \in DOMAIN meaning
  BY <1>2, <1>3 DEF ClaimAt
<1> QED
  BY <1>1, <1>2, <1>3, <1>4, ClaimFacts

(* A key on the stack is defined and has a meaning. *)
LEMMA Indexed ==
  ASSUME Facts, NEW k \in Keys, memo[k].index # 0
  PROVE  /\ memo[k].index \in Nat \ {0}
         /\ memo[k].state # "none"
         /\ IsDefined(k) /\ Said(k) \in DOMAIN meaning
         /\ LevelOf(Said(k)) \in Nat /\ StageOf(Said(k)) \in Nat
<1>1. PICK p \in DOMAIN stack : stack[p] = k
  BY DEF Facts, StackInOrder
<1>2. asked \in DOMAIN Cases
  BY DEF Facts, Typed
<1> QED
  BY <1>1, <1>2, OnStack, ClaimFacts

(* The frames are a sequence. *)
LEMMA FramesAre ==
  ASSUME Facts
  PROVE  /\ DOMAIN frames = 1 .. Len(frames) /\ Len(frames) \in Nat
         /\ (frames = <<>>) <=> Len(frames) = 0
         /\ lowlink \in Nat
  BY DEF Facts, Typed

(* What the innermost call waits for lies no higher than what it serves.   *)
LEMMA AwaitedLevel ==
  ASSUME Facts, Shape, Levels, frames # <<>>,
         Last(frames).at = "settle" => Last(frames).turn # Last(frames).size + 1
  PROVE  /\ ClaimOf(Awaits(Last(frames))) \in DOMAIN meaning
         /\ LevelOf(ClaimOf(Awaits(Last(frames)))) \in Nat
         /\ StageOf(ClaimOf(Awaits(Last(frames)))) \in Nat
         /\ LevelOf(ClaimOf(Awaits(Last(frames)))) <= LevelOf(ClaimAt(Len(frames)))
         /\ ~Opens(Len(frames)) =>
              ClaimOf(Awaits(Last(frames))) \in Subclaims(case, ClaimAt(Len(frames)))
<1>f. PICK f : f = Last(frames)
  OBVIOUS
<1>n. PICK n : n = Len(frames)
  OBVIOUS
<1>1. asked \in DOMAIN Cases /\ Typed
  BY DEF Facts, Typed
<1>2. n \in DOMAIN frames /\ f = frames[n] /\ f.at \in {"operands", "relation", "settle"}
  BY <1>f, <1>n, TopShape
<1>3. ClaimOf(Awaits(f)) \in DOMAIN meaning
  BY <1>2, <1>f, AwaitedClaim
<1>4. LevelOf(ClaimOf(Awaits(f))) \in Nat /\ StageOf(ClaimOf(Awaits(f))) \in Nat
  BY <1>1, <1>3, ClaimFacts
<1>5. /\ ClaimAt(n) \in DOMAIN meaning /\ LevelOf(ClaimAt(n)) \in Nat
      /\ Opens(n) => ClaimAt(n) = Said(f.key)
      /\ ~Opens(n) => ClaimAt(n) = Claim(f.rw, f.key)
  BY <1>2, ClaimAtIs
<1>6. CASE f.at = "operands"
  <2>1. f \in OperandsFrames /\ OperandsShape(f)
    BY <1>6, <1>f, TopShape
  <2>2. ClaimOf(f.calls[f.turn]) \in Subclaims(case, Claim(f.rw, f.key))
    BY <1>1, <1>2, <1>5, <1>6, <2>1, CallsMean DEF OperandsShape, Opens
  <2>3. Awaits(f) = f.calls[f.turn]
    BY <1>6 DEF Awaits
  <2>4. ClaimOf(Awaits(f)) \in Subclaims(case, ClaimAt(n))
    BY <1>2, <1>5, <1>6, <2>2, <2>3 DEF Opens
  <2>5. LevelOf(ClaimOf(Awaits(f))) <= LevelOf(ClaimAt(n))
    BY <1>1, <1>5, <2>4, ClaimFacts
  <2> QED
    BY <1>3, <1>4, <1>f, <1>n, <2>4, <2>5
<1>7. CASE f.at = "relation"
  <2>1. ClaimOf(Awaits(f)) = Said(f.key)
    BY <1>7 DEF Awaits, ClaimOf, Rewrite, Said, Says, Definition
  <2>2. Opens(n)
    BY <1>2, <1>7 DEF Opens
  <2>3. ClaimAt(n) = ClaimOf(Awaits(f))
    BY <1>5, <2>1, <2>2
  <2>4. LevelOf(ClaimOf(Awaits(f))) <= LevelOf(ClaimAt(n))
    BY <1>5, <2>3
  <2> QED
    BY <1>3, <1>4, <1>f, <1>n, <2>2, <2>4
<1>8. CASE f.at = "settle"
  <2>1. /\ f \in RelationFrames /\ f.turn \in 1 .. f.size + 1 /\ f.pos + f.size \in DOMAIN stack
        /\ f.turn # f.size + 1
    BY <1>8, <1>f, TopShape
  <2>2. f.pos + f.turn \in DOMAIN stack /\ f.pos + f.turn >= f.pos + 1
    BY <1>1, <2>1 DEF RelationFrames, Typed
  <2>3. Member(f) \in Keys /\ memo[Member(f)].index # 0
        /\ f.index <= memo[Member(f)].index
    BY <1>8, <1>f, <2>2, OnStack, MembersAre DEF Member
  <2>4. Member(f) \in Region(n)
    <3>1. \A j \in n + 1 .. Len(frames) : FALSE
      BY <1>n, FramesAre
    <3> QED
      BY <1>2, <2>3, <3>1 DEF Region, Visible
  <2>5. ClaimOf(Awaits(f)) = Said(Member(f))
    BY <1>8 DEF Awaits, ClaimOf, Rewrite, Said, Says, Definition
  <2> QED
    BY <1>2, <1>3, <1>4, <1>8, <1>f, <1>n, <2>4, <2>5 DEF Levels, Opens
<1> QED
  BY <1>2, <1>6, <1>7, <1>8

-----------------------------------------------------------------------------
(* Calm steps. *)

(* A calm step changes nothing that frames can see of the stack. *)
LEMMA CalmVisible ==
  ASSUME Calm, Facts, Facts'
  PROVE  /\ \A i \in Nat : Visible(i)' = Visible(i)
         /\ \A i \in DOMAIN frames' : i \in DOMAIN frames => ClaimAt(i)' = ClaimAt(i)
         /\ \A i \in DOMAIN frames' : Opens(i)' => Region(i)' = Region(i)
         /\ \A c : LevelOf(c)' = LevelOf(c) /\ StageOf(c)' = StageOf(c)
         /\ \A k : Said(k)' = Said(k)
<1>1. /\ DOMAIN frames = 1 .. Len(frames) /\ Len(frames) \in Nat
      /\ DOMAIN frames' = 1 .. Len(frames') /\ Len(frames') \in Nat
      /\ Typed /\ Typed'
  BY FramesAre DEF Facts, Typed
<1>2. asked' = asked /\ \A k \in Keys : memo'[k].index = memo[k].index
  BY CalmMemo
<1>3. /\ \A i \in 1 .. Len(frames) : Opens(i) =>
           i \in 1 .. Len(frames') /\ Opens(i)' /\ frames'[i].index = frames[i].index
      /\ \A i \in 1 .. Len(frames') : Opens(i)' => i \in 1 .. Len(frames) /\ Opens(i)
  BY <1>1, CalmOpens
<1>4. ASSUME NEW i \in Nat
      PROVE  Visible(i)' = Visible(i)
  <2>1. \A j \in i + 1 .. Len(frames) : Opens(j) =>
          j \in i + 1 .. Len(frames') /\ Opens(j)' /\ frames'[j].index = frames[j].index
    BY <1>1, <1>3
  <2>2. \A j \in i + 1 .. Len(frames') : Opens(j)' => j \in i + 1 .. Len(frames) /\ Opens(j)
    BY <1>1, <1>3
  <2> QED
    BY <1>2, <2>1, <2>2 DEF Visible
<1>5. /\ \A c : LevelOf(c)' = LevelOf(c) /\ StageOf(c)' = StageOf(c)
      /\ \A k : Said(k)' = Said(k)
      /\ \A c : ClaimOf(c)' = ClaimOf(c)
  BY <1>2, CaseKept DEF LevelOf, StageOf
<1>6. ASSUME NEW i \in DOMAIN frames', i \in DOMAIN frames
      PROVE  ClaimAt(i)' = ClaimAt(i)
  <2>1. SameCall(frames[i], frames'[i])
    BY <1>6 DEF Calm
  <2>2. Serves(frames'[i]) = Serves(frames[i])
    BY <2>1 DEF SameCall, Serves
  <2> QED
    BY <1>5, <2>2 DEF ClaimAt
<1>7. ASSUME NEW i \in DOMAIN frames', Opens(i)'
      PROVE  Region(i)' = Region(i)
  <2>1. i \in Nat /\ frames'[i].index = frames[i].index
    BY <1>1, <1>3, <1>7
  <2>2. Visible(i)' = Visible(i) /\ Visible(i) \subseteq Keys
    BY <1>4, <2>1 DEF Visible
  <2> QED
    BY <1>2, <2>1, <2>2 DEF Region
<1> QED
  BY <1>4, <1>5, <1>6, <1>7

(* A calm step keeps what was reached, unless it lowers lowlink. *)
LEMMA CalmReaches ==
  ASSUME Calm, Facts, Facts', Reach
  PROVE  /\ \A i \in DOMAIN frames' : Opens(i)' => Reaches(i - 1, frames[i].outer)'
         /\ lowlink' = lowlink => Reaches(Len(frames), lowlink)'
<1>1. /\ DOMAIN frames = 1 .. Len(frames) /\ Len(frames) \in Nat
      /\ DOMAIN frames' = 1 .. Len(frames') /\ Len(frames') \in Nat
      /\ Typed /\ Typed'
  BY FramesAre DEF Facts, Typed
<1>2. asked' = asked /\ \A k \in Keys : memo'[k].index = memo[k].index
  BY CalmMemo
<1>3. /\ \A i \in 1 .. Len(frames) : Opens(i) =>
           /\ i \in 1 .. Len(frames') /\ Opens(i)'
           /\ frames'[i].index = frames[i].index /\ frames'[i].outer = frames[i].outer
      /\ \A i \in 1 .. Len(frames') : Opens(i)' => i \in 1 .. Len(frames) /\ Opens(i)
  BY <1>1, CalmOpens
<1>4. /\ \A i \in 1 .. Len(frames') : i \in 1 .. Len(frames) => ClaimAt(i)' = ClaimAt(i)
      /\ \A c : LevelOf(c)' = LevelOf(c)
      /\ \A k : Said(k)' = Said(k)
  BY <1>1, CalmVisible
<1>5. ASSUME NEW i \in 0 .. Len(frames), NEW m \in 0 .. Len(frames'), NEW q \in 1 .. m,
             i = m \/ (i = Len(frames) /\ m = Len(frames')),
             Under(q, m)'
      PROVE  /\ Under(q, i) /\ q \in 1 .. i
             /\ frames'[q].index = frames[q].index /\ ClaimAt(q)' = ClaimAt(q)
  <2>0. i \in Nat /\ m \in Nat /\ i <= Len(frames) /\ m <= Len(frames') /\ q \in Nat /\ q <= m
        /\ 1 <= q
    BY <1>1
  <2>5. Opens(q)' /\ \A j \in q + 1 .. m : ~Opens(j)'
    BY <1>5 DEF Under
  <2>1. q \in 1 .. Len(frames') /\ Opens(q)' /\ \A j \in q + 1 .. m : ~Opens(j)'
    BY <1>1, <2>0, <2>5
  <2>2. q \in 1 .. Len(frames) /\ Opens(q)
    BY <1>3, <2>1
  <2>3. q \in 1 .. i
    BY <1>1, <1>5, <2>0, <2>2
  <2>4. ASSUME NEW j \in q + 1 .. i, Opens(j)
        PROVE  FALSE
    <3>1. j \in 1 .. Len(frames)
      BY <1>1, <2>1
    <3>2. j \in 1 .. Len(frames') /\ Opens(j)'
      BY <1>3, <2>4, <3>1
    <3>4. j \in Nat /\ q + 1 <= j /\ j <= i /\ j <= Len(frames')
      BY <1>1, <2>0, <3>2
    <3>5. j <= m
      BY <1>5, <3>4
    <3>3. j \in q + 1 .. m
      BY <2>0, <3>4, <3>5
    <3> QED
      BY <2>1, <3>2, <3>3
  <2> QED
    BY <1>3, <1>4, <2>1, <2>2, <2>3, <2>4 DEF Under
<1>6. ASSUME NEW i \in DOMAIN frames', Opens(i)'
      PROVE  Reaches(i - 1, frames[i].outer)'
  <2>1. i \in DOMAIN frames /\ Opens(i) /\ frames'[i].outer = frames[i].outer
    BY <1>1, <1>3, <1>6
  <2>2. Reaches(i - 1, frames[i].outer)
    BY <2>1 DEF Reach
  <2>3. i - 1 \in 0 .. Len(frames) /\ i - 1 \in 0 .. Len(frames')
    BY <1>1, <2>1
  <2> QED
    BY <1>2, <1>4, <1>5, <2>1, <2>2, <2>3 DEF Reaches
<1>7. ASSUME lowlink' = lowlink
      PROVE  Reaches(Len(frames), lowlink)'
  <2>1. Reaches(Len(frames), lowlink)
    BY DEF Reach
  <2>2. Len(frames) \in 0 .. Len(frames) /\ Len(frames') \in 0 .. Len(frames')
    BY <1>1
  <2> QED
    BY <1>2, <1>4, <1>5, <1>7, <2>1, <2>2 DEF Reaches
<1> QED
  BY <1>6, <1>7

(* What a call pushes lies no higher than the call. *)
LEMMA CalmLevels ==
  ASSUME Calm, Facts, Shape, Facts', Shape', Levels,
         Len(frames') > Len(frames) =>
           /\ frames # <<>>
           /\ LevelOf(ClaimAt(Len(frames)))' \in Nat
           /\ LevelOf(ClaimAt(Len(frames)))' <= LevelOf(ClaimAt(Len(frames)))
  PROVE  Levels'
<1>n. PICK n : n = Len(frames)
  OBVIOUS
<1>m. PICK m : m = Len(frames')
  OBVIOUS
<1>1. /\ DOMAIN frames = 1 .. n /\ n \in Nat
      /\ DOMAIN frames' = 1 .. m /\ m \in Nat /\ m <= n + 1
      /\ m > n => n \in 1 .. n /\ m = n + 1
  <2>1. frames # <<>> => n \in 1 .. n
    BY <1>n, FramesAre
  <2> QED
    BY <1>n, <1>m, <2>1, FramesAre, CalmLength DEF Facts, Typed
<1>2. /\ \A i \in Nat : Visible(i)' = Visible(i)
      /\ \A i \in 1 .. m : i \in 1 .. n => ClaimAt(i)' = ClaimAt(i)
      /\ \A i \in 1 .. m : Opens(i)' => i \in 1 .. n /\ Opens(i) /\ Region(i)' = Region(i)
      /\ \A c : LevelOf(c)' = LevelOf(c)
      /\ \A k : Said(k)' = Said(k)
  BY <1>1, CalmVisible, CalmOpens DEF Facts
<1>3. PICK level : level = [i \in 1 .. m |-> LevelOf(ClaimAt(i))']
  OBVIOUS
<1>4. \A i \in 1 .. n : LevelOf(ClaimAt(i)) \in Nat
  BY <1>1, ClaimAtIs
<1>5. /\ \A i \in 1 .. m : i \in 1 .. n => level[i] = LevelOf(ClaimAt(i))
      /\ m > n => level[m] \in Nat /\ level[m] <= LevelOf(ClaimAt(n))
  <2>1. \A i \in 1 .. m : i \in 1 .. n => LevelOf(ClaimAt(i))' = LevelOf(ClaimAt(i))
    BY <1>2
  <2>2. m > n => LevelOf(ClaimAt(m))' \in Nat /\ LevelOf(ClaimAt(m))' <= LevelOf(ClaimAt(n))
    BY <1>n, <1>m
  <2>3. m > n => m \in 1 .. m
    BY <1>1
  <2> QED
    BY <1>3, <2>1, <2>2, <2>3
<1>6. /\ \A i, j \in 1 .. n : i <= j => LevelOf(ClaimAt(j)) <= LevelOf(ClaimAt(i))
      /\ \A i \in 1 .. n : \A k \in Visible(i) : LevelOf(ClaimAt(i)) <= LevelOf(Said(k))
      /\ \A i \in 1 .. n : Opens(i) =>
           \A k \in Region(i) : LevelOf(Said(k)) <= LevelOf(ClaimAt(i))
  BY <1>1 DEF Levels
<1>7. ASSUME NEW i \in 1 .. m, NEW j \in 1 .. m, i <= j
      PROVE  level[j] <= level[i]
  <2>1. CASE j \in 1 .. n
    <3>1. i \in 1 .. n
      BY <1>1, <1>7, <2>1
    <3> QED
      BY <1>5, <1>6, <1>7, <2>1, <3>1
  <2>2. CASE j \notin 1 .. n /\ i \in 1 .. n
    <3>1. j = m /\ m > n /\ m = n + 1 /\ n \in 1 .. n /\ i <= n
      BY <1>1, <2>2
    <3>2. LevelOf(ClaimAt(n)) <= LevelOf(ClaimAt(i))
      BY <1>6, <2>2, <3>1
    <3>3. level[j] \in Nat /\ level[j] <= LevelOf(ClaimAt(n)) /\ level[i] = LevelOf(ClaimAt(i))
      BY <1>5, <2>2, <3>1
    <3>4. LevelOf(ClaimAt(n)) \in Nat /\ LevelOf(ClaimAt(i)) \in Nat
      BY <1>4, <2>2, <3>1
    <3> QED
      BY <3>2, <3>3, <3>4
  <2>3. CASE i \notin 1 .. n
    <3>1. i = m /\ j = m /\ m > n
      BY <1>1, <1>7, <2>3
    <3> QED
      BY <1>5, <3>1
  <2> QED
    BY <2>1, <2>2, <2>3
<1>8. ASSUME NEW i \in 1 .. m, NEW k \in Visible(i)
      PROVE  level[i] <= LevelOf(Said(k))
  <2>1. CASE i \in 1 .. n
    BY <1>5, <1>6, <2>1
  <2>2. CASE i \notin 1 .. n
    <3>1. i = m /\ m > n /\ m = n + 1 /\ n \in 1 .. n /\ n \in Nat
      BY <1>1, <2>2
    <3>2. k \in Visible(n) /\ k \in Keys /\ memo[k].index # 0
      <4>1. \A j \in n + 1 .. n : FALSE
        BY <1>1
      <4> QED
        BY <1>n, <4>1 DEF Visible
    <3>3. LevelOf(ClaimAt(n)) <= LevelOf(Said(k))
      BY <1>6, <3>1, <3>2
    <3>4. LevelOf(ClaimAt(n)) \in Nat /\ LevelOf(Said(k)) \in Nat
      BY <1>4, <3>1, <3>2, Indexed
    <3> QED
      BY <1>5, <3>1, <3>3, <3>4
  <2> QED
    BY <2>1, <2>2
<1>9. ASSUME NEW i \in 1 .. m, Opens(i)', NEW k \in Region(i)
      PROVE  LevelOf(Said(k)) <= level[i]
  BY <1>2, <1>5, <1>6, <1>9
<1>10. \A i \in 1 .. m : LevelOf(ClaimAt(i))' = level[i]
  BY <1>3
<1>11. \A i, j \in 1 .. m : i <= j => LevelOf(ClaimAt(j))' <= LevelOf(ClaimAt(i))'
  BY <1>7, <1>10
<1>12. \A i \in 1 .. m : \A k \in Visible(i)' : LevelOf(ClaimAt(i))' <= LevelOf(Said(k))'
  BY <1>1, <1>2, <1>8, <1>10
<1>13. \A i \in 1 .. m : Opens(i)' =>
         \A k \in Region(i)' : LevelOf(Said(k))' <= LevelOf(ClaimAt(i))'
  BY <1>2, <1>9, <1>10
<1> QED
  BY <1>1, <1>11, <1>12, <1>13 DEF Levels

(* Steps that neither enter, leave nor reach anything. *)
LEMMA QuietReach ==
  ASSUME Calm, Facts, Shape, Facts', Shape', Reach, lowlink' = lowlink,
         ~(Len(frames') > Len(frames))
  PROVE  Reach'
<1>1. Levels'
  BY CalmLevels DEF Reach
<1> QED
  BY <1>1, CalmReaches DEF Reach

(* Expand: an operand's level is no higher than its rewrite's. *)
LEMMA ExpandReach ==
  ASSUME Facts, Shape, Reach, Expand
  PROVE  Reach'
<1>1. Calm /\ Facts' /\ Shape'
  BY ExpandShape
<1>2. lowlink' = lowlink /\ next.go = "rewrite" /\ frames # <<>>
  BY CalledClaim DEF Expand
<1>3. Typed /\ frames \in Seq(Frames)
  BY DEF Facts, Typed
<1>4. CASE frames' = frames
  <2>1. ~(Len(frames') > Len(frames))
    BY <1>3, <1>4
  <2> QED
    BY <1>1, <1>2, <2>1, QuietReach
<1>5. CASE frames' # frames
  <2>n. PICK n : n = Len(frames)
    OBVIOUS
  <2>1. PICK calls, node : frames' = Append(frames,
                 [at |-> "operands", rw |-> next.rw, key |-> next.key,
                  node |-> node, calls |-> calls, turn |-> 1])
    BY <1>5 DEF Expand
  <2>2. PICK g : g = [at |-> "operands", rw |-> next.rw, key |-> next.key,
                      node |-> node, calls |-> calls, turn |-> 1]
    OBVIOUS
  <2>3. frames'[n + 1] = g /\ Len(frames') = n + 1
    BY <1>3, <2>1, <2>2, <2>n
  <2>4. Serves(frames'[n + 1]) = Rewrite(next.rw, next.key)
    BY <2>2, <2>3 DEF Serves
  <2>5. next = Awaits(Last(frames))
    BY <1>2 DEF Shape, Chain
  <2>6. ClaimAt(n + 1)' = ClaimOf(Awaits(Last(frames)))
    <3>1. ClaimOf(Rewrite(next.rw, next.key)) = ClaimOf(next)
      BY <1>2 DEF ClaimOf, Rewrite
    <3>3. PICK call : call = Rewrite(next.rw, next.key)
      OBVIOUS
    <3>4. ClaimAt(n + 1)' = ClaimOf(call)'
      BY <2>4, <3>3 DEF ClaimAt
    <3>5. ClaimOf(call)' = ClaimOf(call)
      BY <1>1, CalmMemo, CaseKept
    <3> QED
      BY <2>5, <3>1, <3>3, <3>4, <3>5
  <2>7. Last(frames).at = "settle" => Last(frames).turn # Last(frames).size + 1
    BY <1>2, TopShape
  <2>8. /\ LevelOf(ClaimOf(Awaits(Last(frames)))) \in Nat
        /\ LevelOf(ClaimOf(Awaits(Last(frames)))) <= LevelOf(ClaimAt(n))
    BY <1>2, <2>7, <2>n, AwaitedLevel DEF Reach
  <2>9. /\ LevelOf(ClaimAt(Len(frames)))' \in Nat
        /\ LevelOf(ClaimAt(Len(frames)))' <= LevelOf(ClaimAt(Len(frames)))
    <3>1. PICK c : c = ClaimOf(Awaits(Last(frames)))
      OBVIOUS
    <3>2. LevelOf(ClaimAt(Len(frames)))' = LevelOf(c)'
      BY <2>3, <2>6, <3>1
    <3>3. LevelOf(c)' = LevelOf(c)
      BY <1>1, CalmVisible
    <3> QED
      BY <2>8, <2>n, <3>1, <3>2, <3>3
  <2>10. Levels'
    BY <1>1, <1>2, <2>9, CalmLevels DEF Reach
  <2> QED
    BY <1>1, <1>2, <2>10, CalmReaches DEF Reach
<1> QED
  BY <1>4, <1>5

(* A key on the stack that is read again lies as low as the relations      *)
(* being worked on since.                                                  *)
LEMMA ReuseReach ==
  ASSUME Facts, Shape, Reach, NEW k \in Keys, Reuse(k)
  PROVE  Reach'
<1>1. Calm /\ Facts' /\ Shape'
  BY ReuseShape
<1>n. PICK n : n = Len(frames)
  OBVIOUS
<1>2. /\ next.go = "relation" /\ next.key = k /\ lowlink' = Drawn(k) /\ frames' = frames
      /\ asked' = asked /\ memo' = memo
  BY DEF Reuse, Calling
<1>3. DOMAIN frames = 1 .. n /\ n \in Nat /\ (frames = <<>> <=> n = 0) /\ lowlink \in Nat
  BY <1>n, FramesAre
<1>4. Levels'
  <2>1. ~(Len(frames') > Len(frames))
    BY <1>2, <1>3, <1>n
  <2> QED
    BY <1>1, <2>1, CalmLevels DEF Reach
<1>5. CASE lowlink' = lowlink
  BY <1>1, <1>4, <1>5, CalmReaches DEF Reach
<1>6. CASE lowlink' # lowlink
  <2>1. memo[k].index # 0 /\ lowlink' = memo[k].index /\ memo[k].index <= lowlink
    <3>1. memo[k].index # 0
      BY <1>2, <1>6 DEF Drawn
    <3>2. memo[k].index \in Nat
      BY <3>1, Indexed
    <3> QED
      BY <1>2, <1>3, <1>6, <3>1, <3>2 DEF Drawn, Lower
  <2>2. ASSUME NEW q \in 1 .. n, Under(q, n)
        PROVE  lowlink' <= frames[q].index /\ LevelOf(Said(k)) <= LevelOf(ClaimAt(q))
    <3>1. frames # <<>> /\ n \in DOMAIN frames /\ q \in DOMAIN frames /\ q <= n
      BY <1>3, <2>2
    <3>2. lowlink <= frames[q].index
      BY <1>n, <2>2 DEF Reach, Reaches
    <3>3. memo[k].index \in Nat /\ frames[q].index \in Nat
      BY <2>1, <2>2, <3>1, Indexed, OpenOnStack DEF Under
    <3>4. next = Awaits(Last(frames))
      BY <1>2, <3>1 DEF Shape, Chain
    <3>5. ClaimOf(next) = Said(k)
      BY <1>2 DEF ClaimOf
    <3>6. Last(frames).at = "settle" => Last(frames).turn # Last(frames).size + 1
      BY <1>2, <3>1, TopShape
    <3>7. LevelOf(Said(k)) \in Nat /\ LevelOf(Said(k)) <= LevelOf(ClaimAt(n))
      BY <1>n, <3>1, <3>4, <3>5, <3>6, AwaitedLevel DEF Reach
    <3>8. LevelOf(ClaimAt(n)) <= LevelOf(ClaimAt(q))
      BY <3>1 DEF Reach, Levels
    <3>9. LevelOf(ClaimAt(n)) \in Nat /\ LevelOf(ClaimAt(q)) \in Nat
      BY <3>1, ClaimAtIs
    <3> QED
      BY <1>3, <2>1, <3>2, <3>3, <3>7, <3>8, <3>9
  <2>3. /\ \A i \in 1 .. n : ClaimAt(i)' = ClaimAt(i)
        /\ \A c : LevelOf(c)' = LevelOf(c)
        /\ \A q : Said(q)' = Said(q)
    BY <1>1, <1>2, <1>3, CalmVisible
  <2>4. Reaches(Len(frames), lowlink)'
    <3>1. ASSUME NEW q \in 1 .. n, Under(q, n)
          PROVE  /\ lowlink' <= frames'[q].index
                 /\ \E j \in Keys : /\ memo'[j].index = lowlink' /\ lowlink' # 0
                                    /\ LevelOf(Said(j))' <= LevelOf(ClaimAt(q))'
      BY <1>2, <2>1, <2>2, <2>3, <3>1
    <3>2. \A q \in 1 .. n : Under(q, n)' => Under(q, n)
      BY <1>2 DEF Under, Opens
    <3>3. Len(frames') = n
      BY <1>2, <1>n
    <3> QED
      BY <3>1, <3>2, <3>3 DEF Reaches
  <2> QED
    BY <1>1, <1>4, <2>4, CalmReaches DEF Reach
<1> QED
  BY <1>5, <1>6

(* The relation entered is seen from its own frame only.                   *)
LEMMA EnterVisible ==
  ASSUME Facts, Shape, NEW k \in Keys, Enter(k), NEW n, n = Len(frames)
  PROVE  /\ \A i \in 1 .. n : Visible(i)' = Visible(i) /\ ClaimAt(i)' = ClaimAt(i)
         /\ \A i \in 1 .. n : Opens(i) => Region(i)' = Region(i)
         /\ Visible(n + 1)' = Visible(n) \cup {k}
         /\ n = 0 => Visible(n) = {}
         /\ Region(n + 1)' = {k}
         /\ ClaimAt(n + 1)' = Said(k)
         /\ \A i \in 1 .. n : Opens(i)' <=> Opens(i)
         /\ Opens(n + 1)'
         /\ k \notin Visible(n)
         /\ \A c : LevelOf(c)' = LevelOf(c) /\ StageOf(c)' = StageOf(c)
         /\ \A q : Said(q)' = Said(q)
<1>n. n = Len(frames)
  OBVIOUS
<1>g. PICK g : g = frames'[n + 1]
  OBVIOUS
<1>1. /\ n \in Nat /\ DOMAIN frames = 1 .. n /\ DOMAIN frames' = 1 .. n + 1
      /\ Len(frames') = n + 1
      /\ \A i \in 1 .. n : frames'[i] = frames[i]
      /\ g \in RelationFrames /\ g.at = "relation" /\ g.key = k
      /\ g.index = index + 1
  BY <1>n, <1>g, Entered
<1>2. /\ index \in Nat /\ asked' = asked /\ next.go = "relation"
      /\ memo[k].index = 0 /\ memo'[k].index = index + 1
      /\ \A q \in Keys : q # k => memo'[q] = memo[q]
      /\ \A q \in Keys : memo[q].index \in Nat /\ memo[q].index < index + 1
  BY Entered
<1>3. /\ \A c : LevelOf(c)' = LevelOf(c) /\ StageOf(c)' = StageOf(c)
      /\ \A q : Said(q)' = Said(q)
      /\ \A c : ClaimOf(c)' = ClaimOf(c)
  BY <1>2, CaseKept DEF LevelOf, StageOf
<1>4. (\A i \in 1 .. n : Opens(i)' <=> Opens(i)) /\ Opens(n + 1)'
  BY <1>1, <1>g DEF Opens
<1>5. ASSUME NEW i \in 1 .. n
      PROVE  Visible(i)' = Visible(i)
  <2>1. ASSUME NEW q \in Visible(i)'
        PROVE  q \in Visible(i)
    <3>1. q \in Keys /\ memo'[q].index # 0 /\ \A j \in i + 1 .. n + 1 : Opens(j)' => memo'[q].index < frames'[j].index
      BY <1>1 DEF Visible
    <3>2. n + 1 \in i + 1 .. n + 1 /\ \A j \in i + 1 .. n : j \in i + 1 .. n + 1 /\ j \in 1 .. n
      BY <1>1
    <3>3. memo'[q].index < index + 1
      BY <1>1, <1>4, <1>g, <3>1, <3>2
    <3>4. q # k
      BY <1>2, <3>3
    <3> QED
      BY <1>1, <1>2, <1>4, <1>n, <3>1, <3>2, <3>4 DEF Visible
  <2>2. ASSUME NEW q \in Visible(i)
        PROVE  q \in Visible(i)'
    <3>1. q \in Keys /\ memo[q].index # 0 /\ \A j \in i + 1 .. n : Opens(j) => memo[q].index < frames[j].index
      BY <1>n DEF Visible
    <3>2. q # k /\ memo'[q] = memo[q]
      BY <1>2, <3>1
    <3>3. \A j \in i + 1 .. n + 1 : (j \in i + 1 .. n /\ j \in 1 .. n) \/ j = n + 1
      BY <1>1
    <3>4. \A j \in i + 1 .. n + 1 : Opens(j)' => memo'[q].index < frames'[j].index
      BY <1>1, <1>2, <1>4, <1>g, <3>1, <3>2, <3>3
    <3> QED
      BY <1>1, <3>1, <3>2, <3>4 DEF Visible
  <2> QED
    BY <2>1, <2>2
<1>6. ASSUME NEW i \in 1 .. n
      PROVE  ClaimAt(i)' = ClaimAt(i)
  BY <1>1, <1>3 DEF ClaimAt
<1>7. k \notin Visible(n)
  BY <1>2 DEF Visible
<1>8. ASSUME NEW i \in 1 .. n, Opens(i)
      PROVE  Region(i)' = Region(i)
  <2>1. \A q \in Visible(i) : q \in Keys /\ memo'[q] = memo[q]
    BY <1>2 DEF Visible
  <2>2. frames'[i] = frames[i] /\ Visible(i)' = Visible(i)
    BY <1>1, <1>5
  <2> QED
    BY <2>1, <2>2 DEF Region
<1>9. \A q : q \in Visible(n) <=> q \in Keys /\ memo[q].index # 0
  <2>1. \A j \in n + 1 .. n : FALSE
    BY <1>1
  <2> QED
    BY <1>n, <2>1 DEF Visible
<1>10. \A q : q \in Visible(n + 1)' <=> q \in Keys /\ memo'[q].index # 0
  <2>1. \A j \in n + 1 + 1 .. n + 1 : FALSE
    BY <1>1
  <2> QED
    BY <1>1, <2>1 DEF Visible
<1>11. Visible(n + 1)' = Visible(n) \cup {k}
  <2>1. \A q : q \in Visible(n + 1)' <=> q \in Visible(n) \/ q = k
    BY <1>2, <1>9, <1>10
  <2> QED
    BY <2>1
<1>12. Region(n + 1)' = {k}
  <2>1. \A q \in Visible(n) : q \in Keys /\ q # k /\ memo'[q].index < index + 1
                              /\ memo'[q].index \in Nat
    BY <1>2, <1>7, <1>9
  <2>2. \A q : q \in Region(n + 1)' <=> q \in Visible(n + 1)' /\ index + 1 <= memo'[q].index
    BY <1>1, <1>g DEF Region
  <2>3. \A q : q \in Region(n + 1)' <=> q = k
    BY <1>2, <1>11, <2>1, <2>2
  <2> QED
    BY <2>3
<1>13. ClaimAt(n + 1)' = Said(k)
  <2>1. Serves(g) = Relation(k) /\ Relation(k).go = "relation" /\ Relation(k).key = k
    BY <1>1 DEF Serves, Relation
  <2>2. ClaimOf(Relation(k))' = ClaimOf(Relation(k))
    BY <1>3 DEF Relation
  <2>3. ClaimAt(n + 1)' = ClaimOf(Serves(g))'
    BY <1>g DEF ClaimAt, Serves
  <2> QED
    BY <1>3, <2>1, <2>2, <2>3 DEF ClaimOf
<1>14. n = 0 => Visible(n) = {}
  <2>1. n = 0 => stack = <<>>
    BY <1>2, <1>n, FramesAre DEF Shape, Chain
  <2>2. stack = <<>> => \A q \in Keys : memo[q].index = 0
    BY DEF Facts, StackInOrder
  <2> QED
    BY <1>9, <2>1, <2>2
<1> QED
  BY <1>3, <1>4, <1>5, <1>6, <1>7, <1>8, <1>11, <1>12, <1>13, <1>14, <1>n

(* What is called lies no higher than its caller, nor than all of those.   *)
LEMMA CalledLevel ==
  ASSUME Facts, Shape, Reach, NEW k \in Keys, next.go = "relation", next.key = k,
         frames # <<>>
  PROVE  /\ LevelOf(Said(k)) \in Nat
         /\ \A i \in DOMAIN frames : LevelOf(Said(k)) <= LevelOf(ClaimAt(i))
<1>n. PICK n : n = Len(frames)
  OBVIOUS
<1>1. DOMAIN frames = 1 .. n /\ n \in DOMAIN frames
  BY <1>n, TopShape
<1>2. next = Awaits(Last(frames)) /\ ClaimOf(next) = Said(k)
  BY DEF Shape, Chain, ClaimOf
<1>3. Last(frames).at = "settle" => Last(frames).turn # Last(frames).size + 1
  BY TopShape
<1>4. LevelOf(Said(k)) \in Nat /\ LevelOf(Said(k)) <= LevelOf(ClaimAt(n))
  BY <1>2, <1>3, <1>n, AwaitedLevel DEF Reach
<1>5. \A i \in DOMAIN frames : /\ LevelOf(ClaimAt(n)) <= LevelOf(ClaimAt(i))
                               /\ LevelOf(ClaimAt(i)) \in Nat
  BY <1>1, ClaimAtIs DEF Reach, Levels
<1> QED
  BY <1>1, <1>4, <1>5

(* Enter: a relation reaches itself, and starts above the stack. *)
LEMMA EnterReach ==
  ASSUME Facts, Shape, Reach, NEW k \in Keys, Enter(k)
  PROVE  Reach'
<1>n. PICK n : n = Len(frames)
  OBVIOUS
<1>g. PICK g : g = frames'[n + 1]
  OBVIOUS
<1>1. /\ n \in Nat /\ DOMAIN frames = 1 .. n /\ DOMAIN frames' = 1 .. n + 1
      /\ Len(frames') = n + 1 /\ (frames = <<>> <=> n = 0)
      /\ \A i \in 1 .. n : frames'[i] = frames[i]
      /\ g.index = index + 1 /\ g.outer = lowlink
  BY <1>n, <1>g, Entered, FramesAre
<1>2. /\ index \in Nat /\ asked' = asked /\ next.go = "relation" /\ next.key = k
      /\ memo[k].index = 0 /\ memo'[k].index = index + 1 /\ lowlink' = index + 1
      /\ \A q \in Keys : q # k => memo'[q] = memo[q]
      /\ \A q \in Keys : memo[q].index \in Nat /\ memo[q].index < index + 1
      /\ IsDefined(k) /\ Said(k) \in DOMAIN meaning
  BY Entered DEF Enter, Calling
<1>3. /\ \A i \in 1 .. n : Visible(i)' = Visible(i) /\ ClaimAt(i)' = ClaimAt(i)
      /\ \A i \in 1 .. n : Opens(i) => Region(i)' = Region(i)
      /\ Visible(n + 1)' = Visible(n) \cup {k}
      /\ n = 0 => Visible(n) = {}
      /\ Region(n + 1)' = {k}
      /\ ClaimAt(n + 1)' = Said(k)
      /\ \A i \in 1 .. n : Opens(i)' <=> Opens(i)
      /\ Opens(n + 1)'
      /\ \A c : LevelOf(c)' = LevelOf(c)
      /\ \A q : Said(q)' = Said(q)
  BY <1>n, EnterVisible
<1>4. /\ LevelOf(Said(k)) \in Nat
      /\ \A i \in 1 .. n : LevelOf(Said(k)) <= LevelOf(ClaimAt(i))
      /\ \A i \in 1 .. n : LevelOf(ClaimAt(i)) \in Nat
  <2>1. LevelOf(Said(k)) \in Nat
    BY <1>2, ClaimFacts DEF Facts, Typed
  <2>2. \A i \in 1 .. n : frames # <<>> /\ i \in DOMAIN frames
    BY <1>1
  <2>3. \A i \in 1 .. n : LevelOf(Said(k)) <= LevelOf(ClaimAt(i))
    BY <1>2, <2>2, CalledLevel
  <2> QED
    BY <2>1, <2>2, <2>3, ClaimAtIs
<1>5. \A i \in 1 .. n + 1 : i \in 1 .. n \/ i = n + 1
  BY <1>1
<1>6. Levels'
  <2>1. ASSUME NEW i \in 1 .. n + 1, NEW j \in 1 .. n + 1, i <= j
        PROVE  LevelOf(ClaimAt(j))' <= LevelOf(ClaimAt(i))'
    <3>1. CASE j \in 1 .. n
      <4>1. i \in 1 .. n
        BY <1>1, <2>1, <3>1
      <4> QED
        BY <1>1, <1>3, <2>1, <3>1, <4>1 DEF Reach, Levels
    <3>2. CASE j = n + 1 /\ i \in 1 .. n
      BY <1>3, <1>4, <3>2
    <3>3. CASE i = n + 1
      <4>1. j = n + 1
        BY <1>1, <2>1, <3>3
      <4> QED
        BY <1>3, <1>4, <3>3, <4>1
    <3> QED
      BY <1>5, <3>1, <3>2, <3>3
  <2>2. ASSUME NEW i \in 1 .. n + 1, NEW q \in Visible(i)'
        PROVE  LevelOf(ClaimAt(i))' <= LevelOf(Said(q))'
    <3>1. CASE i \in 1 .. n
      BY <1>1, <1>3, <2>2, <3>1 DEF Reach, Levels
    <3>2. CASE i = n + 1 /\ q = k
      BY <1>3, <1>4, <3>2
    <3>3. CASE i = n + 1 /\ q # k
      <4>1. q \in Visible(n) /\ n \in 1 .. n /\ q \in Keys /\ memo[q].index # 0
        BY <1>1, <1>3, <2>2, <3>3 DEF Visible
      <4>2. LevelOf(ClaimAt(n)) <= LevelOf(Said(q))
        BY <1>1, <4>1 DEF Reach, Levels
      <4>3. LevelOf(Said(q)) \in Nat
        BY <4>1, Indexed
      <4> QED
        BY <1>3, <1>4, <3>3, <4>1, <4>2, <4>3
    <3> QED
      BY <1>5, <3>1, <3>2, <3>3
  <2>3. ASSUME NEW i \in 1 .. n + 1, Opens(i)', NEW q \in Region(i)'
        PROVE  LevelOf(Said(q))' <= LevelOf(ClaimAt(i))'
    <3>1. CASE i \in 1 .. n
      BY <1>1, <1>3, <2>3, <3>1 DEF Reach, Levels
    <3>2. CASE i = n + 1
      BY <1>3, <1>4, <2>3, <3>2
    <3> QED
      BY <1>5, <3>1, <3>2
  <2> QED
    BY <1>1, <2>1, <2>2, <2>3 DEF Levels
<1>7. Reaches(Len(frames), lowlink)'
  <2>1. ASSUME NEW q \in 1 .. n + 1, Under(q, n + 1)'
        PROVE  q = n + 1
    <3>1. \A j \in q + 1 .. n + 1 : ~Opens(j)'
      BY <2>1 DEF Under
    <3> QED
      BY <1>1, <1>3, <3>1
  <2>2. lowlink' <= frames'[n + 1].index
    BY <1>1, <1>2, <1>g
  <2>3. memo'[k].index = lowlink' /\ lowlink' # 0 /\ LevelOf(Said(k))' <= LevelOf(ClaimAt(n + 1))'
    BY <1>2, <1>3, <1>4
  <2> QED
    BY <1>1, <2>1, <2>2, <2>3 DEF Reaches
<1>8. ASSUME NEW i \in 0 .. n, NEW v \in Nat, Reaches(i, v)
      PROVE  Reaches(i, v)'
  <2>1. ASSUME NEW q \in 1 .. i, Under(q, i)'
        PROVE  /\ Under(q, i) /\ frames'[q] = frames[q] /\ q \in 1 .. n
    <3>1. q \in 1 .. n /\ \A j \in q + 1 .. i : j \in 1 .. n
      BY <1>1
    <3> QED
      BY <1>1, <1>3, <2>1, <3>1 DEF Under
  <2>2. ASSUME NEW q \in 1 .. i, Under(q, i)'
        PROVE  /\ v <= frames'[q].index
               /\ \E j \in Keys : /\ memo'[j].index = v /\ v # 0
                                  /\ LevelOf(Said(j))' <= LevelOf(ClaimAt(q))'
    <3>1. v <= frames[q].index
      BY <1>8, <2>1, <2>2 DEF Reaches
    <3>2. PICK j \in Keys : memo[j].index = v /\ v # 0 /\ LevelOf(Said(j)) <= LevelOf(ClaimAt(q))
      BY <1>8, <2>1, <2>2 DEF Reaches
    <3>3. memo'[j].index = v
      BY <1>2, <3>2
    <3> QED
      BY <1>3, <2>1, <2>2, <3>1, <3>2, <3>3
  <2> QED
    BY <2>2 DEF Reaches
<1>9. ASSUME NEW i \in 1 .. n + 1, Opens(i)'
      PROVE  Reaches(i - 1, frames[i].outer)'
  <2>1. i - 1 \in 0 .. n
    BY <1>1
  <2>2. CASE i \in 1 .. n
    <3>1. PICK v : v = frames[i].outer
      OBVIOUS
    <3>2. Reaches(i - 1, v) /\ v \in Nat
      BY <1>1, <1>3, <1>9, <2>2, <3>1, OpenOnStack DEF Reach, RelationFrames
    <3>3. Reaches(i - 1, v)'
      BY <1>8, <2>1, <3>2
    <3>4. v = frames'[i].outer
      BY <1>1, <2>2, <3>1
    <3> QED
      BY <3>3, <3>4 DEF Reaches
  <2>3. CASE i = n + 1
    <3>1. PICK v : v = lowlink
      OBVIOUS
    <3>2. Reaches(n, v) /\ v \in Nat
      BY <1>n, <3>1, FramesAre DEF Reach
    <3>3. Reaches(i - 1, v)' /\ v = frames'[i].outer
      BY <1>1, <1>8, <1>g, <2>1, <2>3, <3>1, <3>2
    <3> QED
      BY <3>3 DEF Reaches
  <2> QED
    BY <1>5, <2>2, <2>3
<1> QED
  BY <1>1, <1>6, <1>7, <1>9 DEF Reach

-----------------------------------------------------------------------------
(* A relation returns. *)

(* What is left when the innermost relation is. *)
LEMMA Left ==
  ASSUME Facts, Shape, next.go = "test", frames' = Front(frames), asked' = asked,
         NEW n, n = Len(frames)
  PROVE  /\ n \in Nat \ {0} /\ DOMAIN frames = 1 .. n /\ DOMAIN frames' = 1 .. n - 1
         /\ Len(frames') = n - 1 /\ n - 1 \in Nat
         /\ \A i \in 1 .. n - 1 : i \in 1 .. n /\ frames'[i] = frames[i]
         /\ Last(frames) = frames[n] /\ frames[n].at = "relation" /\ Opens(n)
         /\ frames[n] \in RelationFrames /\ frames[n].key \in Keys
         /\ frames[n].index \in Nat \ {0} /\ frames[n].outer \in Nat
         /\ memo[frames[n].key].index = frames[n].index
         /\ \A i \in 1 .. n - 1 : Opens(i) => frames[i].index < frames[n].index
         /\ \A i \in 1 .. n - 1 : Opens(i)' <=> Opens(i)
         /\ \A i \in 1 .. n - 1 : ClaimAt(i)' = ClaimAt(i)
         /\ ClaimAt(n) = Said(frames[n].key)
         /\ \A c : LevelOf(c)' = LevelOf(c) /\ StageOf(c)' = StageOf(c)
         /\ \A q : Said(q)' = Said(q)
         /\ \A q : q \in Region(n) <=> q \in Keys /\ frames[n].index <= memo[q].index
         /\ Members(frames[n]) = Region(n)
<1>1. Typed /\ frames \in Seq(Frames) /\ frames # <<>> /\ Last(frames).at = "relation"
  BY DEF Facts, Typed, Shape, Chain
<1>2. /\ n \in Nat \ {0} /\ n \in DOMAIN frames /\ DOMAIN frames = 1 .. n /\ n - 1 \in Nat
      /\ Last(frames) = frames[n] /\ frames[n].at = "relation" /\ Opens(n)
  BY <1>1, OnTop DEF Opens
<1>3. /\ DOMAIN frames' = 1 .. n - 1 /\ Len(frames') = n - 1
      /\ \A i \in 1 .. n - 1 : i \in 1 .. n /\ frames'[i] = frames[i]
  BY <1>1, <1>2, Dropped
<1>4. /\ frames[n] \in RelationFrames /\ frames[n].key \in Keys
      /\ frames[n].index \in Nat \ {0}
      /\ memo[frames[n].key].index = frames[n].index
  BY <1>2, OpenOnStack
<1>5. frames[n].outer \in Nat
  BY <1>4 DEF RelationFrames
<1>6. \A i \in 1 .. n - 1 : Opens(i) => frames[i].index < frames[n].index
  <2>1. \A i \in 1 .. n - 1 : n \in i + 1 .. Len(frames) /\ i \in DOMAIN frames
    BY <1>2
  <2> QED
    BY <1>2, <2>1 DEF Shape, RelationShape
<1>7. /\ \A c : LevelOf(c)' = LevelOf(c) /\ StageOf(c)' = StageOf(c)
      /\ \A q : Said(q)' = Said(q)
      /\ \A c : ClaimOf(c)' = ClaimOf(c)
  BY CaseKept DEF LevelOf, StageOf
<1>8. \A i \in 1 .. n - 1 : Opens(i)' <=> Opens(i)
  BY <1>3 DEF Opens
<1>9. \A i \in 1 .. n - 1 : ClaimAt(i)' = ClaimAt(i)
  BY <1>3, <1>7 DEF ClaimAt
<1>10. ClaimAt(n) = Said(frames[n].key)
  BY <1>2, ClaimAtIs
<1>11. \A q : q \in Region(n) <=> q \in Keys /\ frames[n].index <= memo[q].index
  <2>1. \A j \in n + 1 .. n : FALSE
    BY <1>2
  <2>2. \A q \in Keys : frames[n].index <= memo[q].index => memo[q].index # 0
    BY <1>4
  <2> QED
    BY <2>1, <2>2 DEF Region, Visible
<1>12. Members(frames[n]) = Region(n)
  <2>1. \A q \in Keys : q \in Members(frames[n]) <=> frames[n].index <= memo[q].index
    BY <1>1, <1>2, MembersAre
  <2>2. Members(frames[n]) \subseteq Keys
    <3>1. stack \in Seq(Keys) /\ frames[n].pos \in Nat
      BY <1>4 DEF Facts, Typed, RelationFrames
    <3>2. \A p \in frames[n].pos + 1 .. Len(stack) : p \in DOMAIN stack
      BY <3>1
    <3> QED
      BY <3>1, <3>2 DEF Members
  <2> QED
    BY <1>11, <2>1, <2>2
<1> QED
  BY <1>2, <1>3, <1>4, <1>5, <1>6, <1>7, <1>8, <1>9, <1>10, <1>11, <1>12

(* What Pop does, and what the frames below see of it. *)
LEMMA PopVisible ==
  ASSUME Facts, Shape, Pop, NEW n, n = Len(frames)
  PROVE  /\ next.go = "test" /\ frames' = Front(frames) /\ asked' = asked
         /\ lowlink = frames[n].index /\ lowlink' = Lower(frames[n].outer, lowlink)
         /\ next' = Back(memo[frames[n].key].state = "true", next.node)
         /\ next.settled \/ ~NeedsSettling(frames[n])
         /\ stack' = SubSeq(stack, 1, frames[n].pos)
         /\ \A q \in Keys : /\ memo'[q].state = memo[q].state
                            /\ q \in Region(n) => memo'[q].index = 0
                            /\ q \notin Region(n) => memo'[q] = memo[q]
         /\ \A i \in 1 .. n - 1 : Visible(i)' = Visible(i)
         /\ \A i \in 1 .. n - 1 : Opens(i) => Region(i)' = Region(i)
         /\ \A i \in 1 .. n - 1 : \A q \in Visible(i) :
              /\ memo[q].index < frames[n].index
              /\ q \notin Region(n) /\ memo'[q] = memo[q] /\ q \in Keys
<1>1. next.go = "test" /\ frames' = Front(frames) /\ asked' = asked
  BY DEF Pop, Leave
<1>2. /\ n \in Nat \ {0} /\ DOMAIN frames = 1 .. n /\ DOMAIN frames' = 1 .. n - 1
      /\ Len(frames') = n - 1 /\ n - 1 \in Nat
      /\ \A i \in 1 .. n - 1 : i \in 1 .. n /\ frames'[i] = frames[i]
      /\ Last(frames) = frames[n] /\ Opens(n)
      /\ frames[n].index \in Nat \ {0}
      /\ \A i \in 1 .. n - 1 : Opens(i)' <=> Opens(i)
      /\ \A q : q \in Region(n) <=> q \in Keys /\ frames[n].index <= memo[q].index
      /\ Members(frames[n]) = Region(n)
  BY <1>1, Left
<1>3. /\ lowlink = frames[n].index /\ lowlink' = Lower(frames[n].outer, lowlink)
      /\ next' = Back(memo[frames[n].key].state = "true", next.node)
      /\ next.settled \/ ~NeedsSettling(frames[n])
      /\ stack' = SubSeq(stack, 1, frames[n].pos)
      /\ memo' = [k \in Keys |-> IF k \in Region(n)
                                 THEN [memo[k] EXCEPT !.index = 0] ELSE memo[k]]
  BY <1>2 DEF Pop, IsRoot, Leave, Final
<1>4. memo \in [Keys -> Memos]
  BY DEF Facts, Typed
<1>5. ASSUME NEW q \in Keys
      PROVE  /\ memo'[q].state = memo[q].state
             /\ q \in Region(n) => memo'[q].index = 0
             /\ q \notin Region(n) => memo'[q] = memo[q]
             /\ memo[q].index \in Nat
  <2>1. memo[q] \in Memos
    BY <1>4
  <2>2. memo'[q] = IF q \in Region(n) THEN [memo[q] EXCEPT !.index = 0] ELSE memo[q]
    BY <1>3
  <2> QED
    BY <2>1, <2>2 DEF Memos
<1>6. ASSUME NEW i \in 1 .. n - 1, NEW q \in Visible(i)
      PROVE  /\ memo[q].index < frames[n].index
             /\ q \notin Region(n) /\ memo'[q] = memo[q] /\ q \in Keys
  <2>1. n \in i + 1 .. Len(frames)
    BY <1>2
  <2>2. q \in Keys /\ memo[q].index < frames[n].index
    BY <1>2, <2>1 DEF Visible
  <2>3. q \notin Region(n)
    BY <1>2, <1>5, <2>2
  <2> QED
    BY <1>5, <2>2, <2>3
<1>7. ASSUME NEW i \in 1 .. n - 1
      PROVE  Visible(i)' = Visible(i)
  <2>1. ASSUME NEW q \in Visible(i)
        PROVE  q \in Visible(i)'
    <3>1. memo'[q] = memo[q] /\ q \in Keys /\ memo[q].index # 0
          /\ \A j \in i + 1 .. n : Opens(j) => memo[q].index < frames[j].index
      BY <1>6, <2>1 DEF Visible
    <3>2. \A j \in i + 1 .. n - 1 : j \in i + 1 .. n /\ j \in 1 .. n - 1
      BY <1>2
    <3> QED
      BY <1>2, <3>1, <3>2 DEF Visible
  <2>2. ASSUME NEW q \in Visible(i)'
        PROVE  q \in Visible(i)
    <3>1. q \in Keys /\ memo'[q].index # 0
          /\ \A j \in i + 1 .. n - 1 : Opens(j)' => memo'[q].index < frames'[j].index
      BY <1>2 DEF Visible
    <3>2. q \notin Region(n) /\ memo'[q] = memo[q] /\ memo[q].index \in Nat
      BY <1>5, <3>1
    <3>3. memo[q].index < frames[n].index
      BY <1>2, <3>1, <3>2
    <3>4. \A j \in i + 1 .. n : j = n \/ (j \in i + 1 .. n - 1 /\ j \in 1 .. n - 1)
      BY <1>2
    <3> QED
      BY <1>2, <3>1, <3>2, <3>3, <3>4 DEF Visible
  <2> QED
    BY <2>1, <2>2
<1>8. ASSUME NEW i \in 1 .. n - 1, Opens(i)
      PROVE  Region(i)' = Region(i)
  BY <1>2, <1>6, <1>7, <1>8 DEF Region
<1> QED
  BY <1>1, <1>3, <1>5, <1>6, <1>7, <1>8

(* What the relation kept on the stack is its caller's now.                *)
LEMMA StayVisible ==
  ASSUME Facts, Shape, Reach, Stay, NEW n, n = Len(frames)
  PROVE  /\ next.go = "test" /\ frames' = Front(frames) /\ asked' = asked /\ memo' = memo
         /\ lowlink' = Lower(frames[n].outer, lowlink)
         /\ next' = Back(next.allowed, next.node) /\ stack' = stack
         /\ lowlink < frames[n].index /\ lowlink # 0 /\ n > 1
         /\ \E k \in Keys : /\ memo[k].index = lowlink
                            /\ LevelOf(Said(k)) <= LevelOf(ClaimAt(n))
         /\ \A i \in 1 .. n - 1 : \A q : q \in Visible(i)' <=>
              q \in Visible(i) \/ (q \in Region(n) /\ \A j \in i + 1 .. n - 1 : ~Opens(j))
         /\ \A i \in 1 .. n - 1 : Opens(i) => \A q : q \in Region(i)' <=>
              q \in Region(i) \/ (q \in Region(n) /\ \A j \in i + 1 .. n - 1 : ~Opens(j))
<1>1. /\ next.go = "test" /\ frames' = Front(frames) /\ asked' = asked /\ memo' = memo
      /\ lowlink' = Lower(Last(frames).outer, lowlink)
      /\ next' = Back(next.allowed, next.node) /\ stack' = stack
      /\ lowlink # Last(frames).index
  BY DEF Stay, Leave, IsRoot
<1>2. /\ n \in Nat \ {0} /\ DOMAIN frames = 1 .. n /\ DOMAIN frames' = 1 .. n - 1
      /\ Len(frames') = n - 1 /\ n - 1 \in Nat
      /\ \A i \in 1 .. n - 1 : i \in 1 .. n /\ frames'[i] = frames[i]
      /\ Last(frames) = frames[n] /\ Opens(n)
      /\ frames[n].index \in Nat \ {0}
      /\ \A i \in 1 .. n - 1 : Opens(i) => frames[i].index < frames[n].index
      /\ \A i \in 1 .. n - 1 : Opens(i)' <=> Opens(i)
      /\ \A q : q \in Region(n) <=> q \in Keys /\ frames[n].index <= memo[q].index
  BY <1>1, Left
<1>3. \A q \in Keys : memo[q].index \in Nat
  BY DEF Facts, Typed, Memos
<1>4. Under(n, n)
  <2>1. \A j \in n + 1 .. n : FALSE
    BY <1>2
  <2> QED
    BY <1>2, <2>1 DEF Under
<1>5. lowlink <= frames[n].index /\ lowlink \in Nat
  BY <1>2, <1>4, FramesAre DEF Reach, Reaches
<1>6. PICK k \in Keys : memo[k].index = lowlink /\ lowlink # 0
                        /\ LevelOf(Said(k)) <= LevelOf(ClaimAt(n))
  BY <1>2, <1>4 DEF Reach, Reaches
<1>7. lowlink < frames[n].index
  BY <1>1, <1>2, <1>5
<1>8. n > 1
  <2>1. SUFFICES ASSUME n = 1 PROVE FALSE
    BY <1>2
  <2>2. frames[n].pos = 0 /\ stack[1] = frames[n].key /\ memo[frames[n].key].index = frames[n].index
    BY <1>2, <2>1 DEF Shape, RelationShape
  <2>3. PICK p \in DOMAIN stack : stack[p] = k
    BY <1>6 DEF Facts, StackInOrder
  <2>4. p >= 1
    BY <2>3 DEF Facts, Typed
  <2>5. p \in DOMAIN stack /\ p >= frames[n].pos + 1
    BY <2>2, <2>3, <2>4 DEF Facts, Typed
  <2>6. frames # <<>> /\ Last(frames).at # "operands"
    BY <1>2, FramesAre DEF Opens
  <2>7. frames[n].index <= memo[k].index
    BY <1>2, <2>3, <2>5, <2>6, MembersAre
  <2> QED
    BY <1>2, <1>5, <1>6, <1>7, <2>7
<1>9. ASSUME NEW i \in 1 .. n - 1, NEW q
      PROVE  q \in Visible(i)' <=>
              q \in Visible(i) \/ (q \in Region(n) /\ \A j \in i + 1 .. n - 1 : ~Opens(j))
  <2>1. q \in Visible(i)' <=>
          q \in Keys /\ memo[q].index # 0
          /\ \A j \in i + 1 .. n - 1 : Opens(j) => memo[q].index < frames[j].index
    <3>1. \A j \in i + 1 .. n - 1 : j \in 1 .. n - 1
      BY <1>2
    <3> QED
      BY <1>1, <1>2, <3>1 DEF Visible
  <2>2. q \in Visible(i) <=>
          q \in Keys /\ memo[q].index # 0
          /\ \A j \in i + 1 .. n : Opens(j) => memo[q].index < frames[j].index
    BY DEF Visible
  <2>3. \A j : j \in i + 1 .. n <=> j \in i + 1 .. n - 1 \/ j = n
    BY <1>2
  <2>4. q \in Visible(i) <=> q \in Visible(i)' /\ memo[q].index < frames[n].index
    BY <1>2, <2>1, <2>2, <2>3
  <2>5. q \in Region(n) <=> q \in Keys /\ memo[q].index # 0 /\ ~(memo[q].index < frames[n].index)
    BY <1>2, <1>3
  <2>6. \A j \in i + 1 .. n - 1 : Opens(j) => frames[j].index < frames[n].index /\ frames[j].index \in Nat
    <3>1. \A j \in i + 1 .. n - 1 : j \in 1 .. n - 1 /\ j \in DOMAIN frames
      BY <1>2
    <3> QED
      BY <1>2, <3>1, OpenOnStack
  <2>7. q \in Region(n) =>
          (q \in Visible(i)' <=> \A j \in i + 1 .. n - 1 : ~Opens(j))
    <3>1. SUFFICES ASSUME q \in Region(n)
                   PROVE  q \in Visible(i)' <=> \A j \in i + 1 .. n - 1 : ~Opens(j)
      OBVIOUS
    <3>2. q \in Keys /\ memo[q].index # 0 /\ memo[q].index \in Nat
          /\ frames[n].index <= memo[q].index
      BY <1>2, <1>3, <2>5, <3>1
    <3>3. \A j \in i + 1 .. n - 1 : Opens(j) => ~(memo[q].index < frames[j].index)
      BY <1>2, <2>6, <3>2
    <3> QED
      BY <2>1, <3>2, <3>3
  <2> QED
    BY <2>1, <2>4, <2>5, <2>7
<1>10. ASSUME NEW i \in 1 .. n - 1, Opens(i), NEW q
       PROVE  q \in Region(i)' <=>
              q \in Region(i) \/ (q \in Region(n) /\ \A j \in i + 1 .. n - 1 : ~Opens(j))
  <2>1. q \in Region(n) => frames[i].index <= memo[q].index
    <3>1. frames[i].index < frames[n].index /\ frames[i].index \in Nat
      BY <1>2, <1>10, OpenOnStack
    <3> QED
      BY <1>2, <1>3, <3>1
  <2> QED
    BY <1>1, <1>2, <1>9, <2>1 DEF Region
<1> QED
  BY <1>1, <1>2, <1>6, <1>7, <1>8, <1>9, <1>10

(* A frame's reach, when the frames below it and what it saw are kept.     *)
LEMMA LeftReaches ==
  ASSUME Facts, Shape, next.go = "test", frames' = Front(frames), asked' = asked,
         NEW n, n = Len(frames),
         \A q \in Keys : memo[q].index < frames[n].index => memo'[q] = memo[q],
         NEW i \in 0 .. n - 1, NEW v \in Nat, Reaches(i, v)
  PROVE  Reaches(i, v)'
<1>1. /\ n \in Nat \ {0} /\ DOMAIN frames = 1 .. n /\ DOMAIN frames' = 1 .. n - 1
      /\ n - 1 \in Nat
      /\ \A j \in 1 .. n - 1 : j \in 1 .. n /\ frames'[j] = frames[j]
      /\ Opens(n) /\ frames[n].index \in Nat \ {0}
      /\ \A j \in 1 .. n - 1 : Opens(j) => frames[j].index < frames[n].index
      /\ \A j \in 1 .. n - 1 : Opens(j)' <=> Opens(j)
      /\ \A j \in 1 .. n - 1 : ClaimAt(j)' = ClaimAt(j)
      /\ \A c : LevelOf(c)' = LevelOf(c)
      /\ \A q : Said(q)' = Said(q)
  BY Left
<1>2. ASSUME NEW q \in 1 .. i, Under(q, i)'
      PROVE  /\ v <= frames'[q].index
             /\ \E j \in Keys : /\ memo'[j].index = v /\ v # 0
                                /\ LevelOf(Said(j))' <= LevelOf(ClaimAt(q))'
  <2>1. q \in 1 .. n - 1 /\ \A j \in q + 1 .. i : j \in 1 .. n - 1
    BY <1>1
  <2>2. Under(q, i) /\ Opens(q)
    BY <1>1, <1>2, <2>1 DEF Under
  <2>3. v <= frames[q].index
    BY <2>2 DEF Reaches
  <2>4. PICK j \in Keys : memo[j].index = v /\ v # 0 /\ LevelOf(Said(j)) <= LevelOf(ClaimAt(q))
    BY <2>2 DEF Reaches
  <2>5. frames[q].index < frames[n].index /\ frames[q].index \in Nat
    BY <1>1, <2>1, <2>2, OpenOnStack
  <2>6. memo'[j] = memo[j]
    BY <1>1, <2>3, <2>4, <2>5
  <2> QED
    BY <1>1, <2>1, <2>3, <2>4, <2>6
<1> QED
  BY <1>2 DEF Reaches

(* Pop: what the component reached lies outside of it, or is nothing. *)
LEMMA PopReach ==
  ASSUME Facts, Shape, Reach, Pop
  PROVE  Reach'
<1>n. PICK n : n = Len(frames)
  OBVIOUS
<1>1. /\ next.go = "test" /\ frames' = Front(frames) /\ asked' = asked
      /\ lowlink = frames[n].index /\ lowlink' = Lower(frames[n].outer, lowlink)
      /\ \A q \in Keys : q \notin Region(n) => memo'[q] = memo[q]
      /\ \A i \in 1 .. n - 1 : Visible(i)' = Visible(i)
      /\ \A i \in 1 .. n - 1 : Opens(i) => Region(i)' = Region(i)
  BY <1>n, PopVisible
<1>2. /\ n \in Nat \ {0} /\ DOMAIN frames = 1 .. n /\ DOMAIN frames' = 1 .. n - 1
      /\ Len(frames') = n - 1 /\ n - 1 \in Nat
      /\ \A i \in 1 .. n - 1 : i \in 1 .. n /\ frames'[i] = frames[i]
      /\ Opens(n) /\ frames[n].index \in Nat \ {0} /\ frames[n].outer \in Nat
      /\ \A i \in 1 .. n - 1 : Opens(i) => frames[i].index < frames[n].index
      /\ \A i \in 1 .. n - 1 : Opens(i)' <=> Opens(i)
      /\ \A i \in 1 .. n - 1 : ClaimAt(i)' = ClaimAt(i)
      /\ \A c : LevelOf(c)' = LevelOf(c)
      /\ \A q : Said(q)' = Said(q)
      /\ \A q : q \in Region(n) <=> q \in Keys /\ frames[n].index <= memo[q].index
  BY <1>1, <1>n, Left
<1>3. \A q \in Keys : memo[q].index < frames[n].index => memo'[q] = memo[q]
  <2>1. \A q \in Keys : memo[q].index \in Nat
    BY DEF Facts, Typed, Memos
  <2> QED
    BY <1>1, <1>2, <2>1
<1>4. Levels'
  <2>1. \A i \in 1 .. n - 1 : \A q \in Visible(i) : LevelOf(ClaimAt(i)) <= LevelOf(Said(q))
    BY <1>2 DEF Reach, Levels
  <2>2. \A i \in 1 .. n - 1 : Opens(i) =>
          \A q \in Region(i) : LevelOf(Said(q)) <= LevelOf(ClaimAt(i))
    BY <1>2 DEF Reach, Levels
  <2>3. \A i, j \in 1 .. n - 1 : i <= j => LevelOf(ClaimAt(j)) <= LevelOf(ClaimAt(i))
    BY <1>2 DEF Reach, Levels
  <2> QED
    BY <1>1, <1>2, <2>1, <2>2, <2>3 DEF Levels
<1>5. ASSUME NEW i \in 1 .. n - 1, Opens(i)'
      PROVE  Reaches(i - 1, frames[i].outer)'
  <2>1. PICK v : v = frames[i].outer
    OBVIOUS
  <2>2. Reaches(i - 1, v) /\ v \in Nat
    BY <1>2, <1>5, <2>1, OpenOnStack DEF Reach, RelationFrames
  <2>3. i - 1 \in 0 .. n - 1
    BY <1>2
  <2>4. Reaches(i - 1, v)' /\ v = frames'[i].outer
    BY <1>1, <1>2, <1>3, <1>n, <2>1, <2>2, <2>3, LeftReaches
  <2> QED
    BY <2>4 DEF Reaches
<1>6. Reaches(Len(frames), lowlink)'
  <2>1. PICK v : v = frames[n].outer
    OBVIOUS
  <2>2. Reaches(n - 1, v)
    BY <1>2, <2>1 DEF Reach
  <2>3. n - 1 \in 0 .. n - 1
    BY <1>2
  <2>4. Reaches(n - 1, v)'
    BY <1>1, <1>2, <1>3, <1>n, <2>1, <2>2, <2>3, LeftReaches
  <2>5. ASSUME NEW q \in 1 .. n - 1, Under(q, n - 1)'
        PROVE  lowlink' = v
    <3>1. v <= frames[q].index /\ Opens(q)
      BY <1>2, <2>4, <2>5 DEF Reaches, Under
    <3>2. frames[q].index < frames[n].index /\ frames[q].index \in Nat
      BY <1>2, <3>1, OpenOnStack
    <3> QED
      BY <1>1, <1>2, <2>1, <3>1, <3>2 DEF Lower
  <2> QED
    BY <1>2, <2>4, <2>5 DEF Reaches
<1> QED
  BY <1>2, <1>4, <1>5, <1>6 DEF Reach

(* Stay: what was reached is passed outwards. *)
LEMMA StayReach ==
  ASSUME Facts, Shape, Reach, Stay
  PROVE  Reach'
<1>n. PICK n : n = Len(frames)
  OBVIOUS
<1>1. /\ next.go = "test" /\ frames' = Front(frames) /\ asked' = asked /\ memo' = memo
      /\ lowlink' = Lower(frames[n].outer, lowlink)
      /\ lowlink < frames[n].index /\ lowlink # 0 /\ n > 1
      /\ \A i \in 1 .. n - 1 : \A q : q \in Visible(i)' <=>
           q \in Visible(i) \/ (q \in Region(n) /\ \A j \in i + 1 .. n - 1 : ~Opens(j))
      /\ \A i \in 1 .. n - 1 : Opens(i) => \A q : q \in Region(i)' <=>
           q \in Region(i) \/ (q \in Region(n) /\ \A j \in i + 1 .. n - 1 : ~Opens(j))
  BY <1>n, StayVisible
<1>w. PICK w \in Keys : memo[w].index = lowlink /\ LevelOf(Said(w)) <= LevelOf(ClaimAt(n))
  BY <1>n, StayVisible
<1>2. /\ n \in Nat \ {0} /\ DOMAIN frames = 1 .. n /\ DOMAIN frames' = 1 .. n - 1
      /\ Len(frames') = n - 1 /\ n - 1 \in Nat
      /\ \A i \in 1 .. n - 1 : i \in 1 .. n /\ frames'[i] = frames[i]
      /\ Opens(n) /\ frames[n].index \in Nat \ {0} /\ frames[n].outer \in Nat
      /\ \A i \in 1 .. n - 1 : Opens(i) => frames[i].index < frames[n].index
      /\ \A i \in 1 .. n - 1 : Opens(i)' <=> Opens(i)
      /\ \A i \in 1 .. n - 1 : ClaimAt(i)' = ClaimAt(i)
      /\ \A c : LevelOf(c)' = LevelOf(c)
      /\ \A q : Said(q)' = Said(q)
      /\ \A q : q \in Region(n) <=> q \in Keys /\ frames[n].index <= memo[q].index
  BY <1>1, <1>n, Left
<1>3. lowlink \in Nat
  BY FramesAre
<1>4. /\ \A i \in 1 .. n : LevelOf(ClaimAt(i)) \in Nat
      /\ \A i \in 1 .. n : LevelOf(ClaimAt(n)) <= LevelOf(ClaimAt(i))
      /\ \A q \in Region(n) : LevelOf(Said(q)) \in Nat
      /\ LevelOf(Said(w)) \in Nat
  <2>1. \A i \in 1 .. n : LevelOf(ClaimAt(i)) \in Nat
    BY <1>2, ClaimAtIs
  <2>2. \A i \in 1 .. n : i <= n /\ n \in DOMAIN frames
    BY <1>2
  <2>3. \A i \in 1 .. n : LevelOf(ClaimAt(n)) <= LevelOf(ClaimAt(i))
    BY <1>2, <2>2 DEF Reach, Levels
  <2>4. \A q \in Region(n) : q \in Keys /\ memo[q].index # 0
    BY DEF Region, Visible
  <2> QED
    BY <1>1, <1>w, <2>1, <2>3, <2>4, Indexed
<1>5. \A q \in Region(n) : /\ LevelOf(ClaimAt(n)) <= LevelOf(Said(q))
                           /\ LevelOf(Said(q)) <= LevelOf(ClaimAt(n))
  BY <1>2 DEF Reach, Levels, Region
<1>6. Levels'
  <2>1. ASSUME NEW i \in 1 .. n - 1, NEW q \in Visible(i)'
        PROVE  LevelOf(ClaimAt(i)) <= LevelOf(Said(q))
    <3>1. CASE q \in Visible(i)
      BY <1>2, <3>1 DEF Reach, Levels
    <3>2. CASE q \notin Visible(i)
      <4>1. q \in Region(n) /\ \A j \in i + 1 .. n - 1 : ~Opens(j)
        BY <1>1, <2>1, <3>2
      <4>2. w \in Visible(i)
        <5>1. \A j \in i + 1 .. n : j = n \/ j \in i + 1 .. n - 1
          BY <1>2
        <5> QED
          BY <1>1, <1>n, <1>w, <4>1, <5>1 DEF Visible
      <4>3. LevelOf(ClaimAt(i)) <= LevelOf(Said(w))
        BY <1>2, <4>2 DEF Reach, Levels
      <4>4. LevelOf(ClaimAt(n)) <= LevelOf(Said(q))
        BY <1>5, <4>1
      <4>5. /\ LevelOf(ClaimAt(i)) \in Nat /\ LevelOf(ClaimAt(n)) \in Nat
            /\ LevelOf(Said(w)) \in Nat /\ LevelOf(Said(q)) \in Nat
        BY <1>2, <1>4, <4>1
      <4> QED
        BY <1>w, <4>3, <4>4, <4>5
    <3> QED
      BY <3>1, <3>2
  <2>2. ASSUME NEW i \in 1 .. n - 1, Opens(i), NEW q \in Region(i)'
        PROVE  LevelOf(Said(q)) <= LevelOf(ClaimAt(i))
    <3>1. CASE q \in Region(i)
      BY <1>2, <2>2, <3>1 DEF Reach, Levels
    <3>2. CASE q \notin Region(i)
      <4>1. q \in Region(n)
        BY <1>1, <2>2, <3>2
      <4>2. /\ LevelOf(ClaimAt(i)) \in Nat /\ LevelOf(ClaimAt(n)) \in Nat
            /\ LevelOf(Said(q)) \in Nat
            /\ LevelOf(ClaimAt(n)) <= LevelOf(ClaimAt(i))
        BY <1>2, <1>4, <4>1
      <4> QED
        BY <1>5, <4>1, <4>2
    <3> QED
      BY <3>1, <3>2
  <2>3. \A i, j \in 1 .. n - 1 : i <= j => LevelOf(ClaimAt(j)) <= LevelOf(ClaimAt(i))
    BY <1>2 DEF Reach, Levels
  <2> QED
    BY <1>2, <2>1, <2>2, <2>3 DEF Levels
<1>7. \A q \in Keys : memo[q].index < frames[n].index => memo'[q] = memo[q]
  BY <1>1
<1>8. ASSUME NEW i \in 1 .. n - 1, Opens(i)'
      PROVE  Reaches(i - 1, frames[i].outer)'
  <2>1. PICK v : v = frames[i].outer
    OBVIOUS
  <2>2. Reaches(i - 1, v) /\ v \in Nat
    BY <1>2, <1>8, <2>1, OpenOnStack DEF Reach, RelationFrames
  <2>3. i - 1 \in 0 .. n - 1
    BY <1>2
  <2>4. Reaches(i - 1, v)' /\ v = frames'[i].outer
    BY <1>1, <1>2, <1>7, <1>n, <2>1, <2>2, <2>3, LeftReaches
  <2> QED
    BY <2>4 DEF Reaches
<1>9. Reaches(Len(frames), lowlink)'
  <2>1. PICK v : v = frames[n].outer
    OBVIOUS
  <2>2. Reaches(n - 1, v)
    BY <1>2, <2>1 DEF Reach
  <2>3. n - 1 \in 0 .. n - 1
    BY <1>2
  <2>4. Reaches(n - 1, v)'
    BY <1>1, <1>2, <1>7, <1>n, <2>1, <2>2, <2>3, LeftReaches
  <2>5. ASSUME NEW q \in 1 .. n - 1, Under(q, n - 1)'
        PROVE  /\ lowlink' <= frames'[q].index
               /\ \E j \in Keys : /\ memo'[j].index = lowlink' /\ lowlink' # 0
                                  /\ LevelOf(Said(j))' <= LevelOf(ClaimAt(q))'
    <3>1. v <= frames'[q].index
      BY <2>4, <2>5 DEF Reaches
    <3>2. PICK j \in Keys : memo'[j].index = v /\ v # 0 /\ LevelOf(Said(j))' <= LevelOf(ClaimAt(q))'
      BY <2>4, <2>5 DEF Reaches
    <3>3. CASE lowlink' = v
      BY <3>1, <3>2, <3>3
    <3>4. CASE lowlink' # v
      <4>1. lowlink' = lowlink /\ lowlink <= v
        BY <1>1, <1>2, <1>3, <2>1, <3>4 DEF Lower
      <4>2. q \in 1 .. n /\ frames'[q] = frames[q] /\ Opens(q)
        BY <1>2, <2>5 DEF Under
      <4>3. frames[q].index \in Nat
        BY <1>2, <4>2, OpenOnStack
      <4>4. lowlink' <= frames'[q].index
        BY <1>2, <1>3, <2>1, <3>1, <4>1, <4>2, <4>3
      <4>5. LevelOf(Said(w)) <= LevelOf(ClaimAt(q))
        BY <1>2, <1>4, <1>w, <4>2
      <4>6. LevelOf(Said(w))' <= LevelOf(ClaimAt(q))'
        BY <1>2, <2>5, <4>5
      <4> QED
        BY <1>1, <1>w, <4>1, <4>4, <4>6
    <3> QED
      BY <3>3, <3>4
  <2> QED
    BY <1>2, <2>5 DEF Reaches
<1> QED
  BY <1>2, <1>6, <1>8, <1>9 DEF Reach

(* Every step keeps how far out what was reached lies, or fails. *)
LEMMA ReachStep ==
  ASSUME Facts, Shape, Reach, EvalNext
  PROVE  Failing' \/ Reach'
<1>1. CASE Cancelled \/ SourceFails \/ Unwind
  BY <1>1, CancelledShape, SourceFailsShape, UnwindShape
<1>2. CASE \E k \in Keys : Undefined(k) \/ Reuse(k) \/ TooDeep(k) \/ Enter(k)
  BY <1>2, UndefinedShape, ReuseReach, TooDeepShape, EnterReach
<1>3. CASE Stored \/ NextOperand \/ Decided \/ Answered
  <2>1. Calm /\ Facts' /\ Shape'
    BY <1>3, StoredShape, NextOperandShape, DecidedShape, AnsweredShape
  <2>2. lowlink' = lowlink
    BY <1>3 DEF Stored, NextOperand, Decided, Answered
  <2>3. ~(Len(frames') > Len(frames))
    <3>1. frames \in Seq(Frames) /\ Len(frames) \in Nat
      BY DEF Facts, Typed
    <3>2. CASE Stored \/ Answered
      <4>1. frames' = frames
        BY <3>2 DEF Stored, Answered
      <4> QED
        BY <3>1, <4>1
    <3>3. CASE NextOperand
      <4>1. Len(frames') = Len(frames)
        <5>1. DOMAIN frames' = DOMAIN frames
          BY <3>3 DEF NextOperand
        <5>2. DOMAIN frames = 1 .. Len(frames) /\ DOMAIN frames' = 1 .. Len(frames')
              /\ Len(frames') \in Nat
          BY <2>1, <3>1, FramesAre DEF Facts, Typed
        <5> QED
          BY <3>1, <5>1, <5>2
      <4> QED
        BY <3>1, <4>1
    <3>4. CASE Decided
      <4>1. Len(frames') = Len(frames) - 1
        BY <3>1, <3>4, Dropped DEF Decided, Returned
      <4> QED
        BY <3>1, <4>1
    <3> QED
      BY <1>3, <3>2, <3>3, <3>4
  <2> QED
    BY <2>1, <2>2, <2>3, QuietReach
<1>4. CASE Settle \/ SkipMember \/ Reevaluate \/ Raise \/ EndRound
  <2>1. Calm /\ Facts' /\ Shape'
    BY <1>4, SettleShapes, SkipMemberShape, ReevaluateShape, RaiseShape, EndRoundShape
  <2>2. lowlink' = lowlink
    BY <1>4 DEF Settle, SkipMember, Reevaluate, Raise, EndRound
  <2>3. ~(Len(frames') > Len(frames))
    <3>1. DOMAIN frames' = DOMAIN frames
      BY <1>4 DEF Settle, SkipMember, Reevaluate, Raise, EndRound
    <3>2. DOMAIN frames = 1 .. Len(frames) /\ DOMAIN frames' = 1 .. Len(frames')
          /\ Len(frames') \in Nat /\ Len(frames) \in Nat
      BY <2>1 DEF Facts, Typed
    <3>3. Len(frames') = Len(frames)
      BY <3>1, <3>2
    <3> QED
      BY <3>2, <3>3
  <2> QED
    BY <2>1, <2>2, <2>3, QuietReach
<1>5. CASE Expand \/ Pop \/ Stay
  BY <1>5, ExpandReach, PopReach, StayReach
<1> QED
  BY <1>1, <1>2, <1>3, <1>4, <1>5 DEF EvalNext

=============================================================================
