---------------------------- MODULE CentralStore ----------------------------
(***************************************************************************)
(* The write side of internal/datastore/postgres: Write, DeleteMatching,   *)
(* WriteSchema and Prune as transactions of concurrent sessions.           *)
(*                                                                         *)
(* A session is a pooled connection serving one request at a time.  Every  *)
(* statement of a request is a step and reads the newest commit, as        *)
(* writeTx's ReadCommitted has it.  What a transaction changes is pending  *)
(* until Commit, and Fail ends it at any step with nothing done: a         *)
(* statement error, a cancelled context, a lost connection, a crash of the *)
(* process or of the database.                                             *)
(***************************************************************************)
EXTENDS StoreData, PgSnapshot

CONSTANTS
  Sessions,   \* the connections of the pool, of every process
  Requests,   \* the requests callers make
  MaxXid,     \* bound: transaction ids given out
  MaxTime     \* bound: readings of the database clock

WriteRequests  == [kind : {"write"}, updates : Seq(Updates)]
DeleteRequests == [kind : {"delete"}, filter : Filters]
SchemaRequests == [kind : {"schema"}, schema : Schemas]
PruneRequests  == [kind : {"prune"}, keep : Nat]

AllRequests ==
  WriteRequests \cup DeleteRequests \cup SchemaRequests \cup PruneRequests

NoRequest == [kind |-> "none"]

ASSUME RequestAssumption == Requests \subseteq AllRequests

ASSUME BoundAssumption == MaxXid \in Nat /\ MaxTime \in Nat

VARIABLES
  \* The committed tables of 0001_init.sql.
  tuples, versions, log, marks,
  \* The database's counters: next transaction id, newest ended one, the
  \* identity of schema_versions, the clock.
  nextXid, latest, nextVersion, now,
  \* The transaction of each session: request, next statement, locks to take
  \* and held, id once it has one, updates executed, filters to probe, start
  \* time, and the rows it has changed.
  req, pc, want, holds, xid, done, probes, start, pending

db     == <<tuples, versions, log, marks>>
clocks == <<nextXid, latest, nextVersion, now>>
work   == <<req, pc, want, holds, xid, done, probes, start, pending>>
vars   == <<tuples, versions, log, marks, nextXid, latest, nextVersion, now,
            req, pc, want, holds, xid, done, probes, start, pending>>

Steps == {"idle", "precheck", "lock", "check", "update", "sweep", "probe",
          "insert", "mark", "cutLog", "cutMarks", "commit"}

Versions == [version : Nat, xid : Xids, schema : Schemas]
LogRows  == [xid : Xids, tuple : Tuples]
Marks    == [xid : Nat, at : Nat \cup {-1}]

(* '-infinity' of the first mark: older than any cut asks. *)
Epoch == -1

Nothing == [ins |-> {}, del |-> {}, rows |-> {}, version |-> {},
            mark |-> {}, cutRows |-> {}, cutMarks |-> {}]

Changes == [ins : SUBSET Tuples, del : SUBSET Tuples, rows : SUBSET LogRows,
            version : SUBSET Versions, mark : SUBSET Marks,
            cutRows : SUBSET LogRows, cutMarks : SUBSET Marks]

-----------------------------------------------------------------------------
(* What the database answers. *)

Active == {xid[s] : s \in Sessions} \ {0}

Current == TakeSnapshot(Active, latest)

(* The newest of a set of schema versions. *)
Newest(vs) ==
  IF vs = {} THEN NoSchema
  ELSE (CHOOSE v \in vs : \A w \in vs : w.version <= v.version).schema

latestSchema == Newest(versions)

(* Fault: a row is logged under an id its transaction has not taken. *)
XidUnassigned(s) == xid[s]

(* pg_current_xact_id(): the id a transaction has or takes now. *)
XidOf(s) == IF xid[s] = 0 THEN nextXid ELSE xid[s]

(* A transaction takes its id at the first row it changes. *)
AssignXid(s) ==
  /\ xid' = [xid EXCEPT ![s] = XidOf(s)]
  /\ nextXid' = IF xid[s] = 0 THEN nextXid + 1 ELSE nextXid

(* Postgres makes a statement wait for a row another transaction changed. *)
RowFree(s, t) ==
  \A r \in Sessions \ {s} : t \notin pending[r].ins \cup pending[r].del

-----------------------------------------------------------------------------
(* A transaction from its request to its locks. *)

(* Fault: a delete by filter shares its relation with writes. *)
LocksForSharedSweep(r) ==
  CASE r.kind = "write"  -> writeLocks(r.updates)
    [] r.kind = "delete" -> {lock(r.filter.rel, FALSE)}
    [] r.kind = "schema" -> {lock("schema", TRUE)}
    [] r.kind = "prune"  -> {lock("prune", TRUE)}

(* Fault: two schemas may be written at once. *)
LocksForSharedSchema(r) ==
  CASE r.kind = "write"  -> writeLocks(r.updates)
    [] r.kind = "delete" -> {lock(r.filter.rel, TRUE)}
    [] r.kind = "schema" -> {lock("schema", FALSE)}
    [] r.kind = "prune"  -> {lock("prune", TRUE)}

LocksFor(r) ==
  CASE r.kind = "write"  -> writeLocks(r.updates)
    [] r.kind = "delete" -> {lock(r.filter.rel, TRUE)}
    [] r.kind = "schema" -> {lock("schema", TRUE)}
    [] r.kind = "prune"  -> {lock("prune", TRUE)}

(* DeleteMatching checks before it locks, and so does a Write that locks   *)
(* whole relations.                                                        *)
FirstStep(r) ==
  IF r.kind = "delete" \/ (r.kind = "write" /\ large(r.updates))
  THEN "precheck" ELSE "lock"

LockedStep(r) ==
  CASE r.kind = "write"  -> "check"
    [] r.kind = "delete" -> "sweep"
    [] r.kind = "schema" -> "check"
    [] r.kind = "prune"  -> "mark"

(* Transactions that may still take an id. *)
Unnumbered == {s \in Sessions : pc[s] # "idle" /\ xid[s] = 0}

Begin(s, r) ==
  /\ pc[s] = "idle"
  /\ nextXid + Cardinality(Unnumbered) <= MaxXid
  /\ req' = [req EXCEPT ![s] = r]
  /\ pc' = [pc EXCEPT ![s] = FirstStep(r)]
  /\ want' = [want EXCEPT ![s] = LocksFor(r)]
  /\ start' = [start EXCEPT ![s] = now]
  /\ UNCHANGED <<db, clocks, holds, xid, done, probes, pending>>

(* Fault: locks of the session, not of the transaction, outlive it. *)
EndHolding(s) ==
  /\ req' = [req EXCEPT ![s] = NoRequest]
  /\ pc' = [pc EXCEPT ![s] = "idle"]
  /\ want' = [want EXCEPT ![s] = {}]
  /\ xid' = [xid EXCEPT ![s] = 0]
  /\ done' = [done EXCEPT ![s] = 0]
  /\ probes' = [probes EXCEPT ![s] = {}]
  /\ start' = [start EXCEPT ![s] = 0]
  /\ pending' = [pending EXCEPT ![s] = Nothing]
  /\ latest' = IF xid[s] > latest THEN xid[s] ELSE latest
  /\ UNCHANGED holds

(* The end of a transaction, which releases its locks. *)
End(s) ==
  /\ req' = [req EXCEPT ![s] = NoRequest]
  /\ pc' = [pc EXCEPT ![s] = "idle"]
  /\ want' = [want EXCEPT ![s] = {}]
  /\ holds' = [holds EXCEPT ![s] = {}]
  /\ xid' = [xid EXCEPT ![s] = 0]
  /\ done' = [done EXCEPT ![s] = 0]
  /\ probes' = [probes EXCEPT ![s] = {}]
  /\ start' = [start EXCEPT ![s] = 0]
  /\ pending' = [pending EXCEPT ![s] = Nothing]
  /\ latest' = IF xid[s] > latest THEN xid[s] ELSE latest

Rollback(s) ==
  /\ End(s)
  /\ UNCHANGED <<db, nextXid, nextVersion, now>>

Goto(s, step) == pc' = [pc EXCEPT ![s] = step]

(* Whether the newest schema takes session s's request. *)
Accepted(s) ==
  IF req[s].kind = "write"
  THEN checkUpdates(latestSchema, req[s].updates)
  ELSE latestSchema # NoSchema /\ checkFilter(latestSchema, req[s].filter)

Precheck(s) ==
  /\ pc[s] = "precheck"
  /\ IF Accepted(s)
     THEN /\ Goto(s, "lock")
          /\ UNCHANGED <<db, clocks, req, want, holds, xid, done, probes, start, pending>>
     ELSE Rollback(s)

(* No other transaction holds a lock that conflicts with l. *)
Grantable(s, l) ==
  \A r \in Sessions \ {s} : \A m \in holds[r] : ~Conflicts(l, m)

(* acquire takes the wanted locks one by one, waiting for each. *)
Acquire(s) ==
  /\ pc[s] = "lock"
  /\ \E l \in want[s] :
       /\ Frontmost(want[s], l)
       /\ Grantable(s, l)
       /\ want' = [want EXCEPT ![s] = @ \ {l}]
       /\ holds' = [holds EXCEPT ![s] = @ \cup {l}]
       /\ Goto(s, IF want[s] = {l} THEN LockedStep(req[s]) ELSE "lock")
  /\ UNCHANGED <<db, clocks, req, xid, done, probes, start, pending>>

-----------------------------------------------------------------------------
(* Write and DeleteMatching. *)

(* The checks Write repeats under its locks. *)
CheckWrite(s) ==
  /\ pc[s] = "check"
  /\ req[s].kind = "write"
  /\ IF Accepted(s)
     THEN /\ Goto(s, IF req[s].updates = <<>> THEN "commit" ELSE "update")
          /\ UNCHANGED <<db, clocks, req, want, holds, xid, done, probes, start, pending>>
     ELSE Rollback(s)

(* touchSQL: insert the tuple and log it, unless it is stored. *)
Touch(s, t) ==
  /\ RowFree(s, t)
  /\ IF t \in tuples
     THEN UNCHANGED <<xid, nextXid, pending>>
     ELSE /\ AssignXid(s)
          /\ pending' = [pending EXCEPT ![s] = [pending[s] EXCEPT
               !.ins = @ \cup {t},
               !.rows = @ \cup {[xid |-> XidOf(s), tuple |-> t]}]]

(* deleteSQL and DeleteMatching's statement: delete the stored tuples of   *)
(* gone and log them.  Rows others have only inserted are not seen.        *)
DeleteRows(s, gone) ==
  LET rows == gone \cap tuples
  IN  /\ \A t \in rows : RowFree(s, t)
      /\ IF rows = {}
         THEN UNCHANGED <<xid, nextXid, pending>>
         ELSE /\ AssignXid(s)
              /\ pending' = [pending EXCEPT ![s] = [pending[s] EXCEPT
                   !.del = @ \cup rows,
                   !.rows = @ \cup [xid : {XidOf(s)}, tuple : rows]]]

(* The statement of one update, the next of the request. *)
Update(s) ==
  /\ pc[s] = "update"
  /\ LET u == req[s].updates[done[s] + 1]
     IN  IF u.op = "touch" THEN Touch(s, u.tuple) ELSE DeleteRows(s, {u.tuple})
  /\ done' = [done EXCEPT ![s] = @ + 1]
  /\ Goto(s, IF done[s] + 1 = Len(req[s].updates) THEN "commit" ELSE "update")
  /\ UNCHANGED <<db, latest, nextVersion, now, req, want, holds, probes, start>>

Sweep(s) ==
  /\ pc[s] = "sweep"
  /\ DeleteRows(s, {t \in Tuples : Matches(req[s].filter, t)})
  /\ Goto(s, "commit")
  /\ UNCHANGED <<db, latest, nextVersion, now, req, want, holds, done, probes, start>>

-----------------------------------------------------------------------------
(* WriteSchema. *)

(* Reads the newest schema and finds what the next one drops of it. *)
ReadSchema(s) ==
  /\ pc[s] = "check"
  /\ req[s].kind = "schema"
  /\ probes' = [probes EXCEPT ![s] =
       IF latestSchema = NoSchema THEN {} ELSE dropped(latestSchema, req[s].schema)]
  /\ Goto(s, IF probes'[s] = {} THEN "insert" ELSE "probe")
  /\ UNCHANGED <<db, clocks, req, want, holds, xid, done, start, pending>>

(* One EXISTS query.  A hit refuses the schema: the later queries only     *)
(* lengthen the error.                                                     *)
Probe(s) ==
  /\ pc[s] = "probe"
  /\ \E f \in probes[s] :
       IF \E t \in tuples : Matches(f, t)
       THEN Rollback(s)
       ELSE /\ probes' = [probes EXCEPT ![s] = @ \ {f}]
            /\ Goto(s, IF probes[s] = {f} THEN "insert" ELSE "probe")
            /\ UNCHANGED <<db, clocks, req, want, holds, xid, done, start, pending>>

InsertVersion(s) ==
  /\ pc[s] = "insert"
  /\ AssignXid(s)
  /\ nextVersion' = nextVersion + 1
  /\ pending' = [pending EXCEPT ![s].version =
       {[version |-> nextVersion, xid |-> XidOf(s), schema |-> req[s].schema]}]
  /\ Goto(s, "commit")
  /\ UNCHANGED <<db, latest, now, req, want, holds, done, probes, start>>

-----------------------------------------------------------------------------
(* Prune. *)

(* Fault: the mark is past the newest transaction done. *)
NewestEnded == Current.xmax

(* pg_snapshot_xmin(pg_current_snapshot()). *)
OldestRunning == Current.xmin

(* markSQL: note the oldest running transaction, dated by now(), which is  *)
(* when this transaction began.                                            *)
Mark(s) ==
  /\ pc[s] = "mark"
  /\ LET m == [xid |-> OldestRunning, at |-> start[s]]
     IN  IF \E n \in marks : n.xid = m.xid
         THEN UNCHANGED <<xid, nextXid, pending>>
         ELSE /\ AssignXid(s)
              /\ pending' = [pending EXCEPT ![s].mark = {m}]
  /\ Goto(s, "cutLog")
  /\ UNCHANGED <<db, latest, nextVersion, now, req, want, holds, done, probes, start>>

(* cutSQL: the newest mark at least keep old, of those s sees, its own     *)
(* included; 0, which cuts nothing, if there is none.                      *)
Cut(s) ==
  LET old == {m \in marks \cup pending[s].mark :
                m.at = Epoch \/ m.at <= start[s] - req[s].keep}
  IN  IF old = {} THEN 0
      ELSE (CHOOSE m \in old : \A n \in old : n.xid <= m.xid).xid

(* Fault: the cut takes the changes of the transaction it is named after. *)
LoggedThroughCut(s) == {r \in log : r.xid <= Cut(s)}

LoggedBeforeCut(s) == {r \in log : r.xid < Cut(s)}

(* Fault: the cut takes the mark it was found by. *)
MarkedThroughCut(s) == {m \in marks \cup pending[s].mark : m.xid <= Cut(s)}

MarkedBeforeCut(s) == {m \in marks \cup pending[s].mark : m.xid < Cut(s)}

CutLog(s) ==
  /\ pc[s] = "cutLog"
  /\ LET rows == LoggedBeforeCut(s)
     IN  IF rows = {} THEN UNCHANGED <<xid, nextXid, pending>>
         ELSE /\ AssignXid(s)
              /\ pending' = [pending EXCEPT ![s].cutRows = rows]
  /\ Goto(s, "cutMarks")
  /\ UNCHANGED <<db, latest, nextVersion, now, req, want, holds, done, probes, start>>

CutMarks(s) ==
  /\ pc[s] = "cutMarks"
  /\ LET rows == MarkedBeforeCut(s)
     IN  IF rows = {} THEN UNCHANGED <<xid, nextXid, pending>>
         ELSE /\ AssignXid(s)
              /\ pending' = [pending EXCEPT ![s].cutMarks = rows]
  /\ Goto(s, "commit")
  /\ UNCHANGED <<db, latest, nextVersion, now, req, want, holds, done, probes, start>>

-----------------------------------------------------------------------------

(* Commit makes every change of the transaction visible at once. *)
Commit(s) ==
  /\ pc[s] = "commit"
  /\ tuples' = (tuples \ pending[s].del) \cup pending[s].ins
  /\ versions' = versions \cup pending[s].version
  /\ log' = (log \ pending[s].cutRows) \cup pending[s].rows
  /\ marks' = (marks \cup pending[s].mark) \ pending[s].cutMarks
  /\ End(s)
  /\ UNCHANGED <<nextXid, nextVersion, now>>

Fail(s) ==
  /\ pc[s] # "idle"
  /\ Rollback(s)

Tick ==
  /\ now < MaxTime
  /\ now' = now + 1
  /\ UNCHANGED <<db, nextXid, latest, nextVersion, work>>

(* Not a step of the program: where the bound on ids stops the model. *)
AtBound ==
  /\ Unnumbered = {}
  /\ nextXid > MaxXid
  /\ UNCHANGED vars

Init ==
  /\ tuples = {}
  /\ versions = {}
  /\ log = {}
  /\ marks = {[xid |-> 0, at |-> Epoch]}
  /\ nextXid = 1
  /\ latest = 0
  /\ nextVersion = 1
  /\ now = 0
  /\ req = [s \in Sessions |-> NoRequest]
  /\ pc = [s \in Sessions |-> "idle"]
  /\ want = [s \in Sessions |-> {}]
  /\ holds = [s \in Sessions |-> {}]
  /\ xid = [s \in Sessions |-> 0]
  /\ done = [s \in Sessions |-> 0]
  /\ probes = [s \in Sessions |-> {}]
  /\ start = [s \in Sessions |-> 0]
  /\ pending = [s \in Sessions |-> Nothing]

(* A step of s's transaction that moves it toward its end. *)
Step(s) ==
  \/ Precheck(s) \/ CheckWrite(s) \/ Update(s) \/ Sweep(s)
  \/ ReadSchema(s) \/ Probe(s) \/ InsertVersion(s)
  \/ Mark(s) \/ CutLog(s) \/ CutMarks(s)
  \/ Commit(s)

Next ==
  \/ \E s \in Sessions :
       \/ \E r \in Requests : Begin(s, r)
       \/ Acquire(s)
       \/ Step(s)
       \/ Fail(s)
  \/ Tick
  \/ AtBound

Spec == Init /\ [][Next]_vars

=============================================================================
