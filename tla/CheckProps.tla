----------------------------- MODULE CheckProps -----------------------------
(***************************************************************************)
(* What a Check must say, against what schema and tuples mean.             *)
(***************************************************************************)
EXTENDS Evaluator, CheckMeaning

CONSTANT
  Meanings   \* what each of the Cases means

ASSUME MeaningAssumption ==
  LET cases == Cases
      meanings == Meanings
  IN /\ DOMAIN meanings = DOMAIN cases
     /\ \A i \in DOMAIN cases : IsMeaning(cases[i], meanings[i])
meaning == Meanings[asked]

(* The keys the subject holds. *)
Truth ==
  {k \in Keys : /\ IsDefined(k)
                /\ LET said == Says(case.schema, k)
                   IN  said \in DOMAIN meaning /\ meaning[said].stage > 0}

EvalTypeOK ==
  /\ asked \in DOMAIN Cases
  /\ memo \in [Keys -> [state : {"none", "computing", "true", "false"}, index : Nat]]
  /\ index \in Nat /\ lowlink \in Nat
  /\ stack \in Seq(Keys)
  /\ depth = Cardinality({i \in DOMAIN frames : frames[i].at # "operands"})
  /\ next.go \in {"relation", "rewrite", "back", "test", "turn"}

(* An answer taken from inside a cycle, raised or reused, is never above   *)
(* what the tuples grant, at any step and under any failure.               *)
NothingInvented ==
  \A k \in Keys : memo[k].state = "true" => k \in Truth

(* A denial off the stack can be reused: nothing read later will grant it. *)
PoppedIsFinal ==
  \A k \in Keys : memo[k].state = "false" /\ memo[k].index = 0 => k \notin Truth

(* Tarjan's stack holds the keys whose answers are open, in the order they *)
(* were entered; that is what slicing it from a root's position rests on.  *)
StackInOrder ==
  /\ \A i, j \in DOMAIN stack : i < j => memo[stack[i]].index < memo[stack[j]].index
  /\ \A k \in Keys : memo[k].index # 0 <=> \E i \in DOMAIN stack : stack[i] = k

(* With depth for every key and a source that answers, a Check on a schema *)
(* Build accepts does not fail; and what a Check answers is what the fixed *)
(* point says, whatever order the source yields in.                        *)
CheckAgrees ==
  Finished =>
    IF next.failed
    THEN case.mayFail \/ ~IsDefined(case.key) \/ case.maxDepth < Cardinality(Keys)
    ELSE next.allowed <=> case.key \in Truth

(* The links from n's parents, by parent and place among its children. *)
LinksTo(n) ==
  UNION {{<<i, j>> : j \in {j \in DOMAIN proof.nodes[i].children :
                             proof.nodes[i].children[j] = n}} :
         i \in DOMAIN proof.nodes}

(* "Children always point backwards", and settling or an error or a full   *)
(* proof leaves no node that nothing points at.                            *)
ProofIsATree ==
  Finished =>
    \A n \in (DOMAIN proof.nodes) \ {1} :
      \E link \in LinksTo(n) : link[1] < n /\ LinksTo(n) = {link}

(* The answer and the node it is read from cannot disagree, and only an    *)
(* error leaves a node without an outcome.                                 *)
RootSaysTheAnswer ==
  Finished /\ ~next.failed /\ proof.nodes # <<>> =>
    /\ proof.nodes[1].outcome = IF next.allowed THEN "allowed" ELSE "denied"
    /\ \A n \in DOMAIN proof.nodes : proof.nodes[n].outcome # "incomplete"

(* An error stops the proof on one path from the root: what is incomplete  *)
(* hangs under what is incomplete, and nothing beside it is.               *)
StopsOnOnePath ==
  Finished =>
    LET open == {n \in DOMAIN proof.nodes : proof.nodes[n].outcome = "incomplete"}
    IN  /\ \A n \in open \ {1} : \A link \in LinksTo(n) : link[1] \in open
        /\ \A n, o \in open : n # o =>
             ~\E l \in LinksTo(n), k \in LinksTo(o) : l[1] = k[1]

(* proof.go: ProofJustify records "what justifies the outcome".  What is   *)
(* allowed by its operands has one recorded as allowed, and what needs     *)
(* them all has none recorded otherwise.                                   *)
AllowedIsJustified ==
  Finished /\ ~next.failed /\ ~proof.truncated =>
    \A n \in DOMAIN proof.nodes :
      LET node        == proof.nodes[n]
          Granting(j) == proof.nodes[node.children[j]].outcome = "allowed"
      IN  node.outcome = "allowed" /\ ~node.memoized =>
            CASE node.op \in {"union", "computed_userset", "tuple_to_userset"} ->
                   \E j \in DOMAIN node.children : Granting(j)
              [] node.op = "intersection" -> \A j \in DOMAIN node.children : Granting(j)
              [] OTHER -> TRUE

(* Every Check ends, on any schema and tuples. *)
Ends == <>Finished

FairEvalSpec == EvalSpec /\ WF_evalVars(EvalNext)

=============================================================================
