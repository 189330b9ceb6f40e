----------------------------- MODULE Evaluator ------------------------------
(***************************************************************************)
(* core/check.go and core/proof.go: one Check, step by step.               *)
(*                                                                         *)
(* frames is the call stack, innermost last, and next what happens in it:  *)
(* relation or rewrite is called, or a call is back with its answer.  A    *)
(* relation is evaluated once.  Inside a cycle its answer may be too low,  *)
(* so a component of relations that reach one another is kept on Tarjan's  *)
(* stack, and settle raises its answers before they count as final.        *)
(*                                                                         *)
(* Operators and arities that Build refuses are left out.                  *)
(***************************************************************************)
EXTENDS SchemaData, SequencesExt

CONSTANTS
  Cases,          \* what may be asked: schema, tuples, subject and key; maxDepth
                  \* (WithMaxDepth), and mayFail, whether the source may fail
                  \* and the caller give up
  MaxProofNodes

ASSUME CaseAssumption ==
  \A i \in DOMAIN Cases :
    /\ Cases[i].tuples \subseteq Tuples
    /\ Cases[i].subject \in Objects \cup Keys
    /\ Cases[i].key \in Keys
    /\ Cases[i].maxDepth \in Nat \ {0}
    /\ Cases[i].mayFail \in BOOLEAN

ASSUME LimitAssumption == IsFiniteSet(Keys) /\ MaxProofNodes \in Nat

VARIABLES
  asked,     \* which of the Cases this Check is
  memo,      \* each key's answer so far, and its index while on the stack
  index, lowlink, stack, depth,
  frames, next,
  proof      \* the recorder

evalVars == <<asked, memo, index, lowlink, stack, depth, frames, next, proof>>

case == Cases[asked]

tarjan == <<index, stack, depth>>

Unseen == [state |-> "none", index |-> 0]

StateOf(allowed) == IF allowed THEN "true" ELSE "false"

Lower(m, n) == IF m < n THEN m ELSE n

Relation(k)    == [go |-> "relation", key |-> k]
Rewrite(rw, k) == [go |-> "rewrite", rw |-> rw, key |-> k]

Back(allowed, node) ==
  [go |-> "back", failed |-> FALSE, allowed |-> allowed, node |-> node]
Failed(node) ==
  [go |-> "back", failed |-> TRUE, allowed |-> FALSE, node |-> node]

(* A relation has its answer, and may be the root of its component. *)
Test(allowed, node, settled) ==
  [go |-> "test", allowed |-> allowed, node |-> node, settled |-> settled]

Turn == [go |-> "turn"]

Finished == next.go = "back" /\ frames = <<>>

-----------------------------------------------------------------------------
(* The recorder. *)

NoNode == 0

(* The node open returns. *)
NewNode ==
  IF proof.paused = 0 /\ Len(proof.nodes) < MaxProofNodes
  THEN Len(proof.nodes) + 1 ELSE NoNode

(* open and leaf. *)
Opened(k, op, outcome, memoized) ==
  IF proof.paused > 0 THEN proof
  ELSE IF NewNode = NoNode THEN [proof EXCEPT !.truncated = TRUE]
  ELSE [proof EXCEPT !.nodes = Append(@,
          [key |-> k, op |-> op, outcome |-> outcome, memoized |-> memoized,
           children |-> <<>>])]

Closed(p, node, allowed) ==
  IF node = NoNode THEN p
  ELSE [p EXCEPT !.nodes[node].outcome = IF allowed THEN "allowed" ELSE "denied"]

pause(p) == [p EXCEPT !.paused = @ + 1]

resume(p) == [p EXCEPT !.paused = @ - 1]

addChild(p, parent, child) ==
  IF parent = NoNode \/ child = NoNode THEN p
  ELSE [p EXCEPT !.nodes[parent].children = Append(@, child)]

-----------------------------------------------------------------------------
(* Calling relation. *)

Calling(k) == next.go = "relation" /\ next.key = k

Definition(k) == case.schema.rewrites[RefOf(k)]

IsDefined(k) == RefOf(k) \in Defined(case.schema)

(* ctx.Err(). *)
Cancelled ==
  /\ case.mayFail
  /\ next.go = "relation"
  /\ next' = Failed(NoNode)
  /\ UNCHANGED <<asked, memo, lowlink, tarjan, frames, proof>>

Undefined(k) ==
  /\ Calling(k)
  /\ ~IsDefined(k)
  /\ next' = Failed(NoNode)
  /\ UNCHANGED <<asked, memo, lowlink, tarjan, frames, proof>>

(* Reading a key that is on the stack draws the reader into its component. *)
Drawn(k) == IF memo[k].index = 0 THEN lowlink ELSE Lower(lowlink, memo[k].index)

(* A key seen before.  One still being computed is a cycle. *)
Reuse(k) ==
  /\ Calling(k)
  /\ IsDefined(k)
  /\ memo[k] # Unseen
  /\ lowlink' = Drawn(k)
  /\ proof' = CASE memo[k].state = "computing" -> Opened(k, Definition(k).op, "cycle", FALSE)
                [] memo[k].state = "true"  -> Opened(k, Definition(k).op, "allowed", TRUE)
                [] memo[k].state = "false" -> Opened(k, Definition(k).op, "denied", TRUE)
  /\ next' = Back(memo[k].state = "true", NewNode)
  /\ UNCHANGED <<asked, memo, tarjan, frames>>

TooDeep(k) ==
  /\ Calling(k)
  /\ IsDefined(k)
  /\ memo[k] = Unseen
  /\ depth >= case.maxDepth
  /\ next' = Failed(NoNode)
  /\ UNCHANGED <<asked, memo, lowlink, tarjan, frames, proof>>

Enter(k) ==
  /\ Calling(k)
  /\ IsDefined(k)
  /\ memo[k] = Unseen
  /\ depth < case.maxDepth
  /\ depth' = depth + 1
  /\ index' = index + 1
  /\ stack' = Append(stack, k)
  /\ memo' = [memo EXCEPT ![k] = [state |-> "computing", index |-> index']]
  /\ lowlink' = index'
  /\ frames' = Append(frames,
       [at |-> "relation", key |-> k, index |-> index', pos |-> Len(stack),
        outer |-> lowlink, back |-> Back(FALSE, NoNode), turn |-> 0, size |-> 0,
        changed |-> FALSE])
  /\ next' = Rewrite(Definition(k), k)
  /\ UNCHANGED <<asked, proof>>

-----------------------------------------------------------------------------
(* Calling rewrite. *)

Rewriting(ops) == next.go = "rewrite" /\ next.rw.op \in ops

accepts(k, st) == Allows(case.schema, RefOf(k), st)

IsStored(k, s) == [key |-> k, subject |-> s] \in case.tuples

(* A wildcard names every object of a type, which a userset is not. *)
wildcardGrants(k) ==
  /\ case.subject \in Objects
  /\ accepts(k, Everyone(TypeOf[case.subject]))
  /\ IsStored(k, Everyone(TypeOf[case.subject]))

directGrants(k) ==
  IsStored(k, case.subject) /\ accepts(k, SubjectTypeOf(case.subject))

(* The usersets stored on k to descend into. *)
followable(k) == {s \in Keys : IsStored(k, s) /\ accepts(k, RefOf(s))}

(* rel on the objects stored on the tupleset k, where their type has it. *)
arrow(k, rel) ==
  {t \in Keys : /\ t.relation = rel
                /\ IsStored(k, t.object) /\ accepts(k, TypeOf[t.object])
                /\ IsDefined(t)}

(* The calls rw makes on k, in each order the source may answer in. *)
Calls(rw, k) ==
  CASE rw.op = "this" ->
         {[i \in DOMAIN ks |-> Relation(ks[i])] : ks \in SetToSeqs(followable(k))}
    [] rw.op = "tuple_to_userset" ->
         {[i \in DOMAIN ks |-> Relation(ks[i])] :
            ks \in SetToSeqs(arrow(Key(k.object, rw.tupleset), rw.relation))}
    [] rw.op = "computed_userset" -> {<<Relation(Key(k.object, rw.relation))>>}
    [] OTHER -> {[i \in DOMAIN rw.children |-> Rewrite(rw.children[i], k)]}

(* Fault: a source that failed is taken to hold no tuples. *)
SourceUnheard ==
  /\ case.mayFail
  /\ Rewriting({"this", "tuple_to_userset"})
  /\ proof' = Closed(Opened(next.key, next.rw.op, "incomplete", FALSE), NewNode, FALSE)
  /\ next' = Back(FALSE, NewNode)
  /\ UNCHANGED <<asked, memo, lowlink, tarjan, frames>>

SourceFails ==
  /\ case.mayFail
  /\ Rewriting({"this", "tuple_to_userset"})
  /\ proof' = Opened(next.key, next.rw.op, "incomplete", FALSE)
  /\ next' = Failed(NewNode)
  /\ UNCHANGED <<asked, memo, lowlink, tarjan, frames>>

(* The subject is itself named on the relation. *)
Stored ==
  /\ Rewriting({"this"})
  /\ wildcardGrants(next.key) \/ directGrants(next.key)
  /\ proof' = Closed(Opened(next.key, "this", "incomplete", FALSE), NewNode, TRUE)
  /\ next' = Back(TRUE, NewNode)
  /\ UNCHANGED <<asked, memo, lowlink, tarjan, frames>>

(* Any other rewrite is answered by its calls, false if there are none. *)
Expand ==
  /\ next.go = "rewrite"
  /\ next.rw.op = "this" => ~(wildcardGrants(next.key) \/ directGrants(next.key))
  /\ \E calls \in Calls(next.rw, next.key) :
       LET opened == Opened(next.key, next.rw.op, "incomplete", FALSE)
       IN  IF calls = <<>>
           THEN /\ proof' = Closed(opened, NewNode, FALSE)
                /\ next' = Back(FALSE, NewNode)
                /\ UNCHANGED frames
           ELSE /\ proof' = opened
                /\ frames' = Append(frames,
                     [at |-> "operands", rw |-> next.rw, key |-> next.key,
                      node |-> NewNode, calls |-> calls, turn |-> 1])
                /\ next' = calls[1]
  /\ UNCHANGED <<asked, memo, lowlink, tarjan>>

-----------------------------------------------------------------------------
(* A call is back, without an error. *)

Returned(at) ==
  next.go = "back" /\ ~next.failed /\ frames # <<>> /\ Last(frames).at = at

(* Whether an operand's answer decides the rewrite, more to call or not. *)
Decides(f, allowed) ==
  \/ f.turn = Len(f.calls)
  \/ f.rw.op \in {"intersection", "exclusion"} <=> ~allowed

Verdict(f, allowed) ==
  IF f.rw.op = "exclusion" THEN f.turn = Len(f.calls) /\ ~allowed ELSE allowed

NextOperand ==
  LET f == Last(frames)
  IN  /\ Returned("operands")
      /\ ~Decides(f, next.allowed)
      /\ proof' = addChild(proof, f.node, next.node)
      /\ frames' = [frames EXCEPT ![Len(frames)].turn = @ + 1]
      /\ next' = f.calls[f.turn + 1]
      /\ UNCHANGED <<asked, memo, lowlink, tarjan>>

Decided ==
  LET f == Last(frames)
  IN  /\ Returned("operands")
      /\ Decides(f, next.allowed)
      /\ proof' = Closed(addChild(proof, f.node, next.node), f.node,
                         Verdict(f, next.allowed))
      /\ next' = Back(Verdict(f, next.allowed), f.node)
      /\ frames' = Front(frames)
      /\ UNCHANGED <<asked, memo, lowlink, tarjan>>

(* A relation's rewrite is back: its answer, for now. *)
Answered ==
  /\ Returned("relation")
  /\ memo' = [memo EXCEPT ![Last(frames).key].state = StateOf(next.allowed)]
  /\ next' = Test(next.allowed, next.node, FALSE)
  /\ UNCHANGED <<asked, lowlink, tarjan, frames, proof>>

-----------------------------------------------------------------------------
(* The root of a component settles it and takes it off the stack. *)

(* Fault: the component is sliced from behind its root. *)
MembersAfter(f) == {stack[i] : i \in f.pos + 2 .. Len(stack)}

Members(f) == {stack[i] : i \in f.pos + 1 .. Len(stack)}

(* Whether any answer of the component may be too low. *)
NeedsSettling(f) ==
  /\ Len(stack) - f.pos >= 2
  /\ \E k \in Members(f) : memo[k].state = "true"

(* Nothing the relation's subtree reached was entered before it. *)
IsRoot(f) == lowlink = f.index

Settle ==
  LET f == Last(frames)
  IN  /\ next.go = "test" /\ ~next.settled
      /\ IsRoot(f)
      /\ NeedsSettling(f)
      /\ frames' = [frames EXCEPT ![Len(frames)] =
           [f EXCEPT !.at = "settle", !.back = Back(next.allowed, next.node),
                     !.turn = 1, !.size = Len(stack) - f.pos, !.changed = FALSE]]
      /\ proof' = pause(proof)
      /\ next' = Turn
      /\ UNCHANGED <<asked, memo, lowlink, tarjan>>

Member(f) == stack[f.pos + f.turn]

AtTurn(f) == next.go = "turn" /\ f.turn <= f.size

(* true cannot move. *)
SkipMember ==
  LET f == Last(frames)
  IN  /\ AtTurn(f)
      /\ memo[Member(f)].state = "true"
      /\ frames' = [frames EXCEPT ![Len(frames)].turn = @ + 1]
      /\ UNCHANGED <<asked, memo, lowlink, tarjan, next, proof>>

Reevaluate ==
  LET f == Last(frames)
  IN  /\ AtTurn(f)
      /\ memo[Member(f)].state # "true"
      /\ next' = Rewrite(Definition(Member(f)), Member(f))
      /\ UNCHANGED <<asked, memo, lowlink, tarjan, frames, proof>>

(* An answer only ever rises. *)
Raise ==
  LET f == Last(frames)
      rises == next.allowed /\ memo[Member(f)].state # "true"
  IN  /\ Returned("settle")
      /\ memo' = IF rises THEN [memo EXCEPT ![Member(f)].state = "true"] ELSE memo
      /\ frames' = [frames EXCEPT ![Len(frames)] =
           [f EXCEPT !.turn = @ + 1, !.changed = @ \/ rises]]
      /\ next' = Turn
      /\ UNCHANGED <<asked, lowlink, tarjan, proof>>

(* Fault: members that a round pulled in get no round of their own. *)
RoundDone(f) == ~f.changed

(* A round that changed nothing and met no new member is the last. *)
LastRound(f) == ~f.changed /\ Len(stack) - f.pos = f.size

(* Fault: the members are sliced once, before the rounds. *)
SlicedOnce(f) == f.size

(* How many members the next round has. *)
Resliced(f) == Len(stack) - f.pos

EndRound ==
  LET f == Last(frames)
  IN  /\ next.go = "turn"
      /\ f.turn > f.size
      /\ IF LastRound(f)
         THEN /\ frames' = [frames EXCEPT ![Len(frames)].at = "relation"]
              /\ proof' = resume(proof)
              /\ next' = Test(f.back.allowed, f.back.node, TRUE)
         ELSE /\ frames' = [frames EXCEPT ![Len(frames)] =
                   [f EXCEPT !.turn = 1, !.size = Resliced(f), !.changed = FALSE]]
              /\ UNCHANGED <<next, proof>>
      /\ UNCHANGED <<asked, memo, lowlink, tarjan>>

(* Fault: leaving gives no depth back. *)
LeaveDeeper(f) ==
  /\ frames' = Front(frames)
  /\ UNCHANGED depth
  /\ lowlink' = Lower(f.outer, lowlink)

(* Fault: what the subtree reached is not passed outwards. *)
LeaveForgetting(f) ==
  /\ frames' = Front(frames)
  /\ depth' = depth - 1
  /\ lowlink' = f.outer

Leave(f) ==
  /\ frames' = Front(frames)
  /\ depth' = depth - 1
  /\ lowlink' = Lower(f.outer, lowlink)

(* What settling left the root with. *)
Final(f) == memo[f.key].state = "true"

(* Fault: the root's node keeps the outcome the traversal recorded. *)
Unrevised(f) == proof

Revised(f) == Closed(proof, next.node, Final(f))

(* The component is final, and its root's answer may have risen. *)
Pop ==
  LET f == Last(frames)
  IN  /\ next.go = "test"
      /\ IsRoot(f)
      /\ next.settled \/ ~NeedsSettling(f)
      /\ memo' = [k \in Keys |-> IF k \in Members(f)
                                 THEN [memo[k] EXCEPT !.index = 0] ELSE memo[k]]
      /\ stack' = SubSeq(stack, 1, f.pos)
      /\ proof' = Revised(f)
      /\ next' = Back(Final(f), next.node)
      /\ Leave(f)
      /\ UNCHANGED <<asked, index>>

(* Not a root, or no more since it settled: its component is further out. *)
Stay ==
  LET f == Last(frames)
  IN  /\ next.go = "test"
      /\ ~IsRoot(f)
      /\ next' = Back(next.allowed, next.node)
      /\ Leave(f)
      /\ UNCHANGED <<asked, memo, index, stack, proof>>

-----------------------------------------------------------------------------

(* Fault: an error is returned before the child is linked. *)
Unlinked(f) == proof

(* Fault: an error closes the node it passes. *)
Denied(f) == Closed(addChild(proof, f.node, next.node), f.node, FALSE)

Linked(f) == addChild(proof, f.node, next.node)

(* An error ends every call under way, and links what was recorded. *)
Unwind ==
  LET f == Last(frames)
  IN  /\ next.go = "back" /\ next.failed /\ frames # <<>>
      /\ frames' = Front(frames)
      /\ CASE f.at = "operands" ->
                /\ proof' = Linked(f)
                /\ next' = Failed(f.node)
                /\ UNCHANGED depth
           [] f.at = "relation" ->
                /\ depth' = depth - 1
                /\ UNCHANGED <<next, proof>>
           [] f.at = "settle" ->
                /\ proof' = resume(proof)
                /\ next' = Failed(f.back.node)
                /\ depth' = depth - 1
      /\ UNCHANGED <<asked, memo, lowlink, index, stack>>

EvalInit ==
  /\ asked \in DOMAIN Cases
  /\ memo = [k \in Keys |-> Unseen]
  /\ index = 0
  /\ lowlink = 0
  /\ stack = <<>>
  /\ depth = 0
  /\ frames = <<>>
  /\ next = Relation(case.key)
  /\ proof = [nodes |-> <<>>, truncated |-> FALSE, paused |-> 0]

EvalNext ==
  \/ Cancelled
  \/ \E k \in Keys : Undefined(k) \/ Reuse(k) \/ TooDeep(k) \/ Enter(k)
  \/ SourceFails \/ Stored \/ Expand
  \/ NextOperand \/ Decided \/ Answered
  \/ Settle \/ SkipMember \/ Reevaluate \/ Raise \/ EndRound
  \/ Pop \/ Stay \/ Unwind

EvalSpec == EvalInit /\ [][EvalNext]_evalVars

=============================================================================
