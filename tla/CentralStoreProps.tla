------------------------- MODULE CentralStoreProps --------------------------
(***************************************************************************)
(* What the write side of the central store must keep true, whatever its   *)
(* requests, their interleaving and their failures.                        *)
(***************************************************************************)
EXTENDS CentralStore

(* Every variable has its type. *)
TypeOK ==
  /\ tuples \subseteq Tuples
  /\ versions \subseteq Versions
  /\ log \subseteq LogRows
  /\ marks \subseteq Marks
  /\ nextXid \in Xids
  /\ latest \in Nat
  /\ nextVersion \in Nat
  /\ now \in Nat
  /\ req \in [Sessions -> Requests \cup {NoRequest}]
  /\ pc \in [Sessions -> Steps]
  /\ want \in [Sessions -> SUBSET Locks]
  /\ holds \in [Sessions -> SUBSET Locks]
  /\ xid \in [Sessions -> Nat]
  /\ done \in [Sessions -> Nat]
  /\ probes \in [Sessions -> SUBSET Filters]
  /\ start \in [Sessions -> Nat]
  /\ pending \in [Sessions -> Changes]

(* The request a transaction serves fits the statement it is at. *)
StepOK ==
  \A s \in Sessions :
    /\ pc[s] = "idle" <=> req[s] = NoRequest
    /\ pc[s] = "precheck" => req[s].kind \in {"write", "delete"}
    /\ pc[s] = "check" => req[s].kind \in {"write", "schema"}
    /\ pc[s] = "sweep" => req[s].kind = "delete"
    /\ pc[s] \in {"probe", "insert"} => req[s].kind = "schema"
    /\ pc[s] \in {"mark", "cutLog", "cutMarks"} => req[s].kind = "prune"
    /\ pc[s] = "update" => /\ req[s].kind = "write"
                           /\ done[s] < Len(req[s].updates)
    /\ pc[s] \in {"idle", "precheck", "lock", "check"} => done[s] = 0

(* What a transaction has yet to lock and what it holds make up what its   *)
(* request needs, in the one order, and past the lock step it holds all.   *)
LocksOK ==
  \A s \in Sessions :
    /\ pc[s] = "idle" => holds[s] = {}
    /\ pc[s] # "idle" => want[s] \cup holds[s] = LocksFor(req[s])
    /\ pc[s] \notin {"precheck", "lock"} => want[s] = {}
    /\ \A l \in holds[s], m \in want[s] : NameRank[l.name] < NameRank[m.name]

(* No two transactions hold conflicting locks. *)
LockMutex ==
  \A s, r \in Sessions : s # r =>
    \A l \in holds[s], m \in holds[r] : ~Conflicts(l, m)

(* The rows a request may change. *)
Scope(r) ==
  CASE r.kind = "write"  -> {r.updates[i].tuple : i \in 1..Len(r.updates)}
    [] r.kind = "delete" -> {t \in Tuples : Matches(r.filter, t)}
    [] OTHER             -> {}

(* A transaction has changed only rows in its scope, and only once it has  *)
(* its locks; what it deletes is stored and what it inserts is not; only a *)
(* write inserts any, and only a schema has a version.                     *)
RowsOf(s) ==
  /\ pending[s].ins \cup pending[s].del \subseteq Scope(req[s])
  /\ pending[s].del \subseteq tuples
  /\ pending[s].ins \cap tuples = {}
  /\ pc[s] \notin {"update", "commit"} =>
       pending[s].ins = {} /\ pending[s].del = {}
  /\ pending[s].ins # {} => req[s].kind = "write"
  /\ pc[s] # "commit" \/ req[s].kind # "schema" => pending[s].version = {}
  /\ pc[s] = "commit" /\ req[s].kind = "schema" =>
       \E v \in pending[s].version :
         pending[s].version = {v} /\ v.schema = req[s].schema

PendingOK == \A s \in Sessions : RowsOf(s)

(* The newest schema takes every stored tuple: a write checked against an  *)
(* older schema never lands beside a schema that drops what it uses.       *)
SchemaConform ==
  \A t \in tuples :
    latestSchema # NoSchema /\ checkFilter(latestSchema, FilterOf(t))

(* What SchemaConform rests on.  A write past its check holds the schema   *)
(* that took it; every tuple a schema about to be written refuses is one a *)
(* probe yet to come will find.                                            *)
CheckStands(s) ==
  /\ pc[s] \in {"update", "commit"} /\ req[s].kind = "write" =>
       checkUpdates(latestSchema, req[s].updates)
  /\ pc[s] \in {"probe", "insert", "commit"} /\ req[s].kind = "schema" =>
       \A t \in tuples :
         \/ checkFilter(req[s].schema, FilterOf(t))
         \/ pc[s] = "probe" /\ \E f \in probes[s] : Matches(f, t)

SchemaOK == \A s \in Sessions : CheckStands(s)

(* A schema is numbered and takes its transaction's id in one statement.   *)
VersionsOK ==
  /\ \A s \in Sessions :
       /\ xid[s] < nextXid
       /\ pc[s] \in {"idle", "precheck", "lock", "check", "probe", "insert"} =>
            xid[s] = 0
  /\ \A v \in versions \cup UNION {pending[s].version : s \in Sessions} :
       v.version < nextVersion /\ v.xid < nextXid

(* The rows the next statement of s changes or waits for. *)
Reach(s) ==
  CASE pc[s] = "update" -> {req[s].updates[done[s] + 1].tuple}
    [] pc[s] = "sweep"  -> {t \in Tuples : Matches(req[s].filter, t)}
    [] OTHER            -> {}

(* No statement ever waits for a row: the advisory locks a request takes   *)
(* first keep apart all that touch one tuple, small writes, large ones and *)
(* deletes by filter.  A row wait would be outside the one lock order.     *)
NoRowWait == \A s \in Sessions : \A t \in Reach(s) : RowFree(s, t)

(* s cannot go on before r ends. *)
WaitsFor(s, r) ==
  /\ s # r
  /\ \/ /\ pc[s] = "lock"
        /\ \E l \in want[s] : /\ Frontmost(want[s], l)
                              /\ \E m \in holds[r] : Conflicts(l, m)
     \/ \E t \in Reach(s) : t \in pending[r].ins \cup pending[r].del

(* lock.go: every request takes its locks in one order, "so none waits on  *)
(* another in a cycle".                                                    *)
NoWaitCycle ==
  \A S \in (SUBSET Sessions) \ {{}} :
    \E s \in S : \A r \in S : ~WaitsFor(s, r)

(* DeleteMatching checks its filter before it locks and never again.  When *)
(* it has deleted something, the newest schema still accepts the filter.   *)
StaleFilterHarmless ==
  \A s \in Sessions :
    pc[s] = "commit" /\ req[s].kind = "delete" /\ pending[s].del # {}
      => Accepted(s)

(* Schema versions commit in the order they are numbered and take their    *)
(* transaction ids, so "newest by version" and "newest a reader has not    *)
(* seen" are the same schema for Changes.                                  *)
VersionsCommitInOrder ==
  \A s \in Sessions : \A v \in pending[s].version :
    /\ \A w \in versions : w.version < v.version /\ w.xid < v.xid
    /\ \A r \in Sessions \ {s} : pending[r].version = {}

(* Every request is one step of the abstract store, taken at its commit.   *)
Abstract == INSTANCE AtomicStore
  WITH content <- tuples, schema <- latestSchema, Asked <- Requests

Atomic == Abstract!Spec

(* Every request ends: the locks, once waited for, come. *)
EveryRequestEnds == \A s \in Sessions : pc[s] # "idle" ~> pc[s] = "idle"

(* A session runs its statements, and Postgres grants a lock in the order  *)
(* it was asked for, so no waiter is overtaken forever.                    *)
Fairness == \A s \in Sessions : WF_vars(Step(s)) /\ SF_vars(Acquire(s))

FairSpec == Spec /\ Fairness

=============================================================================
