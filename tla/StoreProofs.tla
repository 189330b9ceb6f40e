----------------------------- MODULE StoreProofs -----------------------------
(***************************************************************************)
(* That the central store's requests keep out of each other's way, what    *)
(* they keep true, and what its followers get to see of them, for any      *)
(* tuples, relations, sessions, requests and followers.                    *)
(*                                                                         *)
(* First the types.  A type alone is not inductive: the statement a        *)
(* transaction is at says which request it serves (StepOK), and so what    *)
(* the statement reads of it.                                              *)
(*                                                                         *)
(* Then the locks.  Those a transaction holds are those its request needs, *)
(* taken in one order, and exclude each other (LockInv); so no two have    *)
(* changed one tuple (RowInv); so none waits for a row, and none waits for *)
(* a lock in a cycle.                                                      *)
(*                                                                         *)
(* Then the schema.  Versions commit in the order they are numbered        *)
(* (VersionInv); so what a write or a schema was checked against is still  *)
(* the newest when it commits (SchemaInv); so every request is one step of *)
(* the abstract store (AtomicInv).                                         *)
(*                                                                         *)
(* Then what Changes may rely on in the log and its marks, however the     *)
(* requests interleave with Prune: ids are given out once and in order     *)
(* (XidsOK), every row a transaction changes it logs under its own id      *)
(* (Logged), no mark is past a transaction that still runs (MarksOK), and  *)
(* a Prune leaves a mark, and cuts only what is older than every mark it   *)
(* leaves (Cutting).                                                       *)
(*                                                                         *)
(* Last that a follower which keeps a copy through Snapshot and Changes    *)
(* loses no change and gets none twice, for any number of followers and    *)
(* however Prune cuts the log beside them.  What carries it is what the    *)
(* store knows of a revision a follower holds (Knows): the transactions    *)
(* that still run are none it has seen, and each tuple that has changed    *)
(* since is in the log, at an id the revision makes Changes look for, or   *)
(* every mark is past the revision.                                        *)
(***************************************************************************)
EXTENDS ChangeFeed, WellFoundedInduction, TLAPS

(* A non-empty set of naturals has a least member. *)
LEMMA LeastIsLeast ==
  ASSUME NEW S \in SUBSET Nat, S # {}
  PROVE  Least(S) \in S /\ \A n \in S : Least(S) <= n
<1>1. PICK m \in S : \A n \in S : ~(<<n, m>> \in OpToRel(<, Nat))
  BY NatLessThanWellFounded, WFMin, Zenon
<1>2. ASSUME NEW n \in S
      PROVE  m <= n
  <2>1. n < m => <<n, m>> \in OpToRel(<, Nat)
    BY DEF OpToRel
  <2>2. ~(n < m)
    BY <1>1, <2>1, Zenon
  <2> QED
    BY <2>2
<1> QED
  BY <1>2 DEF Least

(* A snapshot has the bounds Postgres gives it: xmin is the oldest of the  *)
(* transactions it does not see and of its xmax.                           *)
LEMMA SnapshotBounds ==
  ASSUME NEW active \in SUBSET Xids, NEW l \in Nat
  PROVE  LET s == TakeSnapshot(active, l)
         IN  /\ s \in Snapshots
             /\ s.xmax = l + 1
             /\ s.xip = {x \in active : x <= l}
             /\ s.xmin <= s.xmax
             /\ \A x \in active : s.xmin <= x
             /\ s.xmin \in s.xip \cup {s.xmax}
<1> DEFINE xip == {x \in active : x <= l}
           s   == TakeSnapshot(active, l)
           S   == xip \cup {l + 1}
<1>1. S \in SUBSET Xids /\ S \in SUBSET Nat /\ S # {}
  <2>1. l + 1 \in Xids
    BY DEF Xids
  <2> QED
    BY <2>1 DEF Xids
<1>2. Least(S) \in S /\ \A n \in S : Least(S) <= n
  <2> HIDE DEF S
  <2> QED BY <1>1, LeastIsLeast
<1>3. s = [xmin |-> Least(S), xmax |-> l + 1, xip |-> xip]
  BY DEF TakeSnapshot
<1>4. \A x \in active : Least(S) <= x
  <2> SUFFICES ASSUME NEW x \in active PROVE Least(S) <= x
    OBVIOUS
  <2>1. x \in Nat /\ Least(S) \in Nat
    BY <1>1, <1>2 DEF Xids
  <2>2. CASE x <= l
    BY <2>2, <1>2
  <2>3. CASE ~(x <= l)
    <3>1. Least(S) <= l + 1
      BY <1>2
    <3> HIDE DEF S
    <3> QED BY <3>1, <2>1, <2>3
  <2> QED BY <2>2, <2>3
<1>5. s \in Snapshots
  <2>1. Least(S) \in Xids
    BY <1>1, <1>2
  <2>2. xip \in SUBSET Xids /\ l + 1 \in Xids
    BY <1>1
  <2> HIDE DEF S, xip
  <2> QED BY <1>3, <2>1, <2>2 DEF Snapshots
<1> HIDE DEF S, s
<1>6. s.xmin \in xip \cup {l + 1}
  BY <1>2, <1>3 DEF S
<1>7. s.xmin <= l + 1
  BY <1>2, <1>3 DEF S
<1> QED
  BY <1>3, <1>4, <1>5, <1>6, <1>7 DEF s

-----------------------------------------------------------------------------
(* Type correctness. *)

LEMMA OrderedTyped ==
  ASSUME NEW locks \in SUBSET Locks
  PROVE  ordered(locks) \in SUBSET Locks
<1>1. ASSUME NEW l \in locks
      PROVE  lock(l.name, \E m \in locks : m.name = l.name /\ m.exclusive) \in Locks
  <2> DEFINE alone == \E m \in locks : m.name = l.name /\ m.exclusive
  <2>1. alone \in BOOLEAN
    OBVIOUS
  <2>2. l.name \in LockNames
    BY DEF Locks
  <2> HIDE DEF alone
  <2>3. lock(l.name, alone) \in Locks
    BY <2>1, <2>2 DEF lock, Locks
  <2> QED
    BY <2>3 DEF alone
<1> QED
  BY <1>1, Zenon DEF ordered

LEMMA RequestTyped ==
  ASSUME NEW r \in Requests
  PROVE  /\ r.kind \in {"write", "delete", "schema", "prune"}
         /\ r.kind = "write" => r.updates \in Seq(Updates)
         /\ r.kind = "delete" => r.filter \in Filters
         /\ r.kind = "schema" => r.schema \in Schemas
         /\ r.kind = "prune" => r.keep \in Nat
<1>1. r \in AllRequests
  BY RequestAssumption
<1> QED
  BY <1>1 DEF AllRequests, WriteRequests, DeleteRequests, SchemaRequests, PruneRequests

LEMMA WriteLocksTyped ==
  ASSUME NEW updates \in Seq(Updates)
  PROVE  writeLocks(updates) \in SUBSET Locks
<1> DEFINE tuples_ == {updates[i].tuple : i \in 1..Len(updates)}
<1>1. tuples_ \in SUBSET Tuples
  <2>1. ASSUME NEW i \in 1..Len(updates)
        PROVE  updates[i].tuple \in Tuples
    <3>1. updates[i] \in Updates
      OBVIOUS
    <3> QED
      BY <3>1 DEF Updates
  <2> QED
    BY <2>1
<1>2. \A t \in Tuples : RelOf[t] \in Relations
  BY TupleAssumption
<1> DEFINE asked == {lock("schema", FALSE)}
                    \cup {lock(RelOf[t], large(updates)) : t \in tuples_}
                    \cup {lock(t, TRUE) : t \in IF large(updates) THEN {} ELSE tuples_}
<1>3. asked \in SUBSET Locks
  <2>1. lock("schema", FALSE) \in Locks
    BY DEF lock, Locks, LockNames
  <2>2. large(updates) \in BOOLEAN
    BY DEF large
  <2>3. \A t \in tuples_ : lock(RelOf[t], large(updates)) \in Locks
    BY <1>1, <1>2, <2>2 DEF lock, Locks, LockNames
  <2>4. \A t \in tuples_ : lock(t, TRUE) \in Locks
    BY <1>1 DEF lock, Locks, LockNames
  <2> HIDE DEF tuples_
  <2> QED
    BY <2>1, <2>3, <2>4
<1>4. writeLocks(updates) = ordered(asked)
  BY DEF writeLocks
<1> HIDE DEF asked
<1> QED
  BY <1>3, <1>4, OrderedTyped

LEMMA LocksForTyped ==
  ASSUME NEW r \in Requests
  PROVE  LocksFor(r) \in SUBSET Locks
<1>1. CASE r.kind = "write"
  BY <1>1, RequestTyped, WriteLocksTyped DEF LocksFor
<1>2. CASE r.kind = "delete"
  BY <1>2, RequestTyped DEF LocksFor, lock, Locks, LockNames, Filters
<1>3. CASE r.kind = "schema"
  BY <1>3 DEF LocksFor, lock, Locks, LockNames
<1>4. CASE r.kind = "prune"
  BY <1>4 DEF LocksFor, lock, Locks, LockNames
<1> QED
  BY <1>1, <1>2, <1>3, <1>4, RequestTyped

(* The oldest running transaction is one that may be. *)
LEMMA CurrentTyped ==
  ASSUME TypeOK
  PROVE  Active \in SUBSET Xids /\ Current \in Snapshots
<1>1. Active \in SUBSET Xids
  BY DEF TypeOK, Active, Xids
<1> QED
  BY <1>1, SnapshotBounds DEF Current, TypeOK

(* What is proved of every step. *)
TypeInv == TypeOK /\ StepOK

LEMMA InitTyped == Init => TypeInv
<1> SUFFICES ASSUME Init PROVE TypeInv
  OBVIOUS
<1>1. TypeOK
  BY DEF Init, TypeOK, Nothing, Changes, Marks, Epoch, Xids, NoRequest, Steps
<1>2. StepOK
  BY DEF Init, StepOK
<1> QED
  BY <1>1, <1>2 DEF TypeInv

LEMMA EndTyped ==
  ASSUME TypeInv, NEW s \in Sessions, Rollback(s)
  PROVE  TypeInv'
<1>1. TypeOK'
  BY DEF TypeInv, TypeOK, Rollback, End, db, Steps, Nothing, Changes
<1>2. StepOK'
  BY DEF TypeInv, TypeOK, StepOK, Rollback, End
<1> QED
  BY <1>1, <1>2 DEF TypeInv

(* A request is not the record of an idle session. *)
LEMMA RequestIsSome ==
  ASSUME NEW r \in Requests
  PROVE  r # NoRequest
BY RequestTyped DEF NoRequest

LEMMA BeginTyped ==
  ASSUME TypeInv, NEW s \in Sessions, NEW r \in Requests, Begin(s, r)
  PROVE  TypeInv'
<1>1. TypeOK'
  BY LocksForTyped DEF TypeInv, TypeOK, Begin, FirstStep, Steps, db, clocks
<1>2. FirstStep(r) \in {"precheck", "lock"}
      /\ (FirstStep(r) = "precheck" => r.kind \in {"write", "delete"})
  BY DEF FirstStep
<1>3. StepOK'
  BY <1>2, RequestIsSome DEF TypeInv, TypeOK, StepOK, Begin
<1> QED
  BY <1>1, <1>3 DEF TypeInv

LEMMA AcquireTyped ==
  ASSUME TypeInv, NEW s \in Sessions, Acquire(s)
  PROVE  TypeInv'
<1>1. PICK l \in want[s] :
        /\ want' = [want EXCEPT ![s] = @ \ {l}]
        /\ holds' = [holds EXCEPT ![s] = @ \cup {l}]
        /\ Goto(s, IF want[s] = {l} THEN LockedStep(req[s]) ELSE "lock")
  BY DEF Acquire
<1>2. l \in Locks
  BY DEF TypeInv, TypeOK
<1>3. req[s] \in Requests /\ pc[s] = "lock"
  BY DEF TypeInv, TypeOK, StepOK, Acquire
<1>4. LET next == LockedStep(req[s])
      IN  \/ next = "check" /\ req[s].kind \in {"write", "schema"}
          \/ next = "sweep" /\ req[s].kind = "delete"
          \/ next = "mark" /\ req[s].kind = "prune"
  BY <1>3, RequestTyped DEF LockedStep
<1>5. TypeOK'
  BY <1>1, <1>2, <1>4 DEF Acquire, Goto, TypeInv, TypeOK, Steps, db, clocks
<1>6. StepOK'
  BY <1>1, <1>3, <1>4 DEF Acquire, Goto, TypeInv, TypeOK, StepOK
<1> QED
  BY <1>5, <1>6 DEF TypeInv

LEMMA PrecheckTyped ==
  ASSUME TypeInv, NEW s \in Sessions, Precheck(s)
  PROVE  TypeInv'
<1>1. CASE Rollback(s)
  BY <1>1, EndTyped
<1>2. CASE ~Rollback(s)
  <2>1. TypeOK'
    BY <1>2 DEF Precheck, Goto, TypeInv, TypeOK, Steps, db, clocks
  <2>2. StepOK'
    BY <1>2 DEF Precheck, Goto, TypeInv, TypeOK, StepOK
  <2> QED
    BY <2>1, <2>2 DEF TypeInv
<1> QED
  BY <1>1, <1>2

LEMMA CheckWriteTyped ==
  ASSUME TypeInv, NEW s \in Sessions, CheckWrite(s)
  PROVE  TypeInv'
<1>1. CASE Rollback(s)
  BY <1>1, EndTyped
<1>2. CASE ~Rollback(s)
  <2>1. TypeOK'
    BY <1>2 DEF CheckWrite, Goto, TypeInv, TypeOK, Steps, db, clocks
  <2>2. req[s] \in Requests
    BY DEF CheckWrite, TypeInv, TypeOK, StepOK
  <2>3. req[s].updates # <<>> => 0 < Len(req[s].updates)
    BY <2>2, RequestTyped DEF CheckWrite
  <2>4. StepOK'
    BY <1>2, <2>3 DEF CheckWrite, Goto, TypeInv, TypeOK, StepOK
  <2> QED
    BY <2>1, <2>4 DEF TypeInv
<1> QED
  BY <1>1, <1>2

(* What a statement that changes rows does to the transaction's id. *)
LEMMA AssignTyped ==
  ASSUME TypeOK, NEW s \in Sessions
  PROVE  /\ XidOf(s) \in Xids
         /\ AssignXid(s) => xid' \in [Sessions -> Nat] /\ nextXid' \in Xids
BY DEF TypeOK, AssignXid, XidOf, Xids

LEMMA DeleteRowsTyped ==
  ASSUME TypeOK, NEW s \in Sessions, NEW gone, DeleteRows(s, gone)
  PROVE  /\ xid' \in [Sessions -> Nat]
         /\ nextXid' \in Xids
         /\ pending' \in [Sessions -> Changes]
<1> DEFINE rows == gone \cap tuples
<1>1. CASE rows = {}
  BY <1>1 DEF DeleteRows, TypeOK
<1>2. CASE rows # {}
  <2>1. rows \in SUBSET Tuples
    BY DEF TypeOK
  <2>2. [xid : {XidOf(s)}, tuple : rows] \in SUBSET LogRows
    BY <2>1, AssignTyped DEF LogRows
  <2>3. /\ AssignXid(s)
        /\ pending' = [pending EXCEPT ![s] = [pending[s] EXCEPT
             !.del = @ \cup rows,
             !.rows = @ \cup [xid : {XidOf(s)}, tuple : rows]]]
    BY <1>2 DEF DeleteRows
  <2> DEFINE old == pending[s]
             new == [old EXCEPT !.del = @ \cup rows,
                                !.rows = @ \cup [xid : {XidOf(s)}, tuple : rows]]
  <2>4. old \in Changes
    BY DEF TypeOK
  <2>5. new \in Changes
    <3> HIDE DEF rows, old
    <3> QED
      BY <2>1, <2>2, <2>4 DEF Changes
  <2>6. pending' = [pending EXCEPT ![s] = new]
    BY <2>3
  <2>7. pending' \in [Sessions -> Changes]
    <3> HIDE DEF new
    <3> QED
      BY <2>5, <2>6 DEF TypeOK
  <2> QED
    BY <2>3, <2>7, AssignTyped
<1> QED
  BY <1>1, <1>2

LEMMA TouchTyped ==
  ASSUME TypeOK, NEW s \in Sessions, NEW t \in Tuples, Touch(s, t)
  PROVE  /\ xid' \in [Sessions -> Nat]
         /\ nextXid' \in Xids
         /\ pending' \in [Sessions -> Changes]
<1>1. CASE t \in tuples
  BY <1>1 DEF Touch, TypeOK
<1>2. CASE t \notin tuples
  <2>1. [xid |-> XidOf(s), tuple |-> t] \in LogRows
    BY AssignTyped DEF LogRows
  <2> DEFINE old == pending[s]
             row == [xid |-> XidOf(s), tuple |-> t]
             new == [old EXCEPT !.ins = @ \cup {t}, !.rows = @ \cup {row}]
  <2>2. old \in Changes
    BY DEF TypeOK
  <2>3. new \in Changes
    <3> HIDE DEF row, old
    <3> QED
      BY <2>1, <2>2 DEF Changes, row
  <2>4. AssignXid(s) /\ pending' = [pending EXCEPT ![s] = new]
    BY <1>2 DEF Touch
  <2>5. pending' \in [Sessions -> Changes]
    <3> HIDE DEF new
    <3> QED
      BY <2>3, <2>4 DEF TypeOK
  <2> QED
    BY <2>4, <2>5, AssignTyped
<1> QED
  BY <1>1, <1>2

(* A write that is executing updates has one left. *)
LEMMA NextUpdateTyped ==
  ASSUME TypeInv, NEW s \in Sessions, pc[s] = "update"
  PROVE  /\ req[s] \in Requests
         /\ req[s].kind = "write"
         /\ req[s].updates \in Seq(Updates)
         /\ done[s] + 1 \in 1..Len(req[s].updates)
         /\ req[s].updates[done[s] + 1] \in Updates
<1>1. req[s] \in Requests /\ req[s].kind = "write" /\ done[s] < Len(req[s].updates)
  BY DEF TypeInv, TypeOK, StepOK
<1>2. req[s].updates \in Seq(Updates)
  BY <1>1, RequestTyped
<1>3. done[s] + 1 \in 1..Len(req[s].updates)
  BY <1>1, <1>2 DEF TypeInv, TypeOK
<1> QED
  BY <1>1, <1>2, <1>3

LEMMA UpdateTyped ==
  ASSUME TypeInv, NEW s \in Sessions, Update(s)
  PROVE  TypeInv'
<1> DEFINE u == req[s].updates[done[s] + 1]
<1>1. u \in Updates
  BY NextUpdateTyped DEF Update
<1>2. u.tuple \in Tuples
  BY <1>1 DEF Updates
<1>3. IF u.op = "touch" THEN Touch(s, u.tuple) ELSE DeleteRows(s, {u.tuple})
  BY DEF Update
<1>4. /\ xid' \in [Sessions -> Nat]
      /\ nextXid' \in Xids
      /\ pending' \in [Sessions -> Changes]
  <2> HIDE DEF u
  <2> QED
    BY <1>2, <1>3, TouchTyped, DeleteRowsTyped DEF TypeInv
<1>5. done' \in [Sessions -> Nat] /\ pc' \in [Sessions -> Steps]
  BY DEF Update, Goto, TypeInv, TypeOK, Steps
<1>6. UNCHANGED <<tuples, versions, log, marks, latest, nextVersion, now, req,
                  want, holds, probes, start>>
  BY DEF Update, db
<1>7. TypeOK'
  BY <1>4, <1>5, <1>6 DEF TypeInv, TypeOK
<1>8. done[s] + 1 # Len(req[s].updates) => done[s] + 1 < Len(req[s].updates)
  BY NextUpdateTyped DEF Update
<1>9. StepOK'
  BY <1>8 DEF Update, Goto, TypeInv, TypeOK, StepOK
<1> QED
  BY <1>7, <1>9 DEF TypeInv

LEMMA SweepTyped ==
  ASSUME TypeInv, NEW s \in Sessions, Sweep(s)
  PROVE  TypeInv'
<1>1. TypeOK'
  BY DeleteRowsTyped DEF Sweep, Goto, TypeInv, TypeOK, Steps, db
<1>2. StepOK'
  BY DEF Sweep, Goto, TypeInv, TypeOK, StepOK
<1> QED
  BY <1>1, <1>2 DEF TypeInv

LEMMA ReadSchemaTyped ==
  ASSUME TypeInv, NEW s \in Sessions, ReadSchema(s)
  PROVE  TypeInv'
<1>1. dropped(latestSchema, req[s].schema) \in SUBSET Filters
  BY DEF dropped
<1>2. probes' \in [Sessions -> SUBSET Filters]
  BY <1>1 DEF ReadSchema, TypeInv, TypeOK
<1>3. TypeOK'
  BY <1>2 DEF ReadSchema, Goto, TypeInv, TypeOK, Steps, db, clocks
<1>4. StepOK'
  BY DEF ReadSchema, Goto, TypeInv, TypeOK, StepOK
<1> QED
  BY <1>3, <1>4 DEF TypeInv

LEMMA ProbeTyped ==
  ASSUME TypeInv, NEW s \in Sessions, Probe(s)
  PROVE  TypeInv'
<1>1. CASE Rollback(s)
  BY <1>1, EndTyped
<1>2. CASE ~Rollback(s)
  <2>1. PICK f \in probes[s] :
          /\ probes' = [probes EXCEPT ![s] = @ \ {f}]
          /\ Goto(s, IF probes[s] = {f} THEN "insert" ELSE "probe")
          /\ UNCHANGED <<db, clocks, req, want, holds, xid, done, start, pending>>
    BY <1>2 DEF Probe
  <2>2. TypeOK'
    BY <2>1 DEF Goto, TypeInv, TypeOK, Steps, db, clocks
  <2>3. StepOK'
    BY <2>1 DEF Probe, Goto, TypeInv, TypeOK, StepOK
  <2> QED
    BY <2>2, <2>3 DEF TypeInv
<1> QED
  BY <1>1, <1>2

LEMMA InsertVersionTyped ==
  ASSUME TypeInv, NEW s \in Sessions, InsertVersion(s)
  PROVE  TypeInv'
<1> DEFINE v == [version |-> nextVersion, xid |-> XidOf(s), schema |-> req[s].schema]
<1>1. req[s] \in Requests /\ req[s].kind = "schema"
  BY DEF InsertVersion, TypeInv, TypeOK, StepOK
<1>2. v \in Versions
  BY <1>1, RequestTyped, AssignTyped DEF Versions, TypeInv, TypeOK
<1>3. pending' = [pending EXCEPT ![s].version = {v}]
  BY DEF InsertVersion
<1>4. pending' \in [Sessions -> Changes]
  <2> HIDE DEF v
  <2>1. pending \in [Sessions -> Changes] /\ {v} \in SUBSET Versions
    BY <1>2 DEF TypeInv, TypeOK
  <2>2. [pending[s] EXCEPT !.version = {v}] \in Changes
    BY <2>1 DEF Changes
  <2> QED
    BY <1>3, <2>1, <2>2
<1>5. TypeOK'
  BY <1>4, AssignTyped DEF InsertVersion, Goto, TypeInv, TypeOK, Steps, db
<1>6. StepOK'
  BY DEF InsertVersion, Goto, TypeInv, TypeOK, StepOK
<1> QED
  BY <1>5, <1>6 DEF TypeInv

LEMMA PruneTyped ==
  ASSUME TypeInv, NEW s \in Sessions, Mark(s) \/ CutLog(s) \/ CutMarks(s)
  PROVE  TypeInv'
<1>1. [xid |-> OldestRunning, at |-> start[s]] \in Marks
  BY CurrentTyped DEF OldestRunning, Snapshots, Marks, Xids, TypeInv, TypeOK
<1>2. LoggedBeforeCut(s) \in SUBSET LogRows
  BY DEF LoggedBeforeCut, TypeInv, TypeOK
<1>3. MarkedBeforeCut(s) \in SUBSET Marks
  BY DEF MarkedBeforeCut, TypeInv, TypeOK, Changes
<1> DEFINE m == [xid |-> OldestRunning, at |-> start[s]]
<1>4. pending' \in [Sessions -> Changes]
  <2> DEFINE cl == LoggedBeforeCut(s)
             cm == MarkedBeforeCut(s)
  <2>1. \/ pending' = pending
        \/ pending' = [pending EXCEPT ![s].mark = {m}]
        \/ pending' = [pending EXCEPT ![s].cutRows = cl]
        \/ pending' = [pending EXCEPT ![s].cutMarks = cm]
    BY DEF Mark, CutLog, CutMarks
  <2> HIDE DEF m, cl, cm
  <2>2. m \in Marks /\ cl \in SUBSET LogRows /\ cm \in SUBSET Marks
    BY <1>1, <1>2, <1>3 DEF m, cl, cm
  <2>3. pending \in [Sessions -> Changes]
    BY DEF TypeInv, TypeOK
  <2>4. CASE pending' = [pending EXCEPT ![s].mark = {m}]
    BY <2>2, <2>3, <2>4 DEF Changes
  <2>5. CASE pending' = [pending EXCEPT ![s].cutRows = cl]
    BY <2>2, <2>3, <2>5 DEF Changes
  <2>6. CASE pending' = [pending EXCEPT ![s].cutMarks = cm]
    BY <2>2, <2>3, <2>6 DEF Changes
  <2> QED
    BY <2>1, <2>3, <2>4, <2>5, <2>6
<1>5. xid' \in [Sessions -> Nat] /\ nextXid' \in Xids
  BY AssignTyped DEF Mark, CutLog, CutMarks, TypeInv, TypeOK
<1>6. TypeOK'
  BY <1>4, <1>5 DEF Mark, CutLog, CutMarks, Goto, TypeInv, TypeOK, Steps, db
<1>7. StepOK'
  BY DEF Mark, CutLog, CutMarks, Goto, TypeInv, TypeOK, StepOK
<1> QED
  BY <1>6, <1>7 DEF TypeInv

LEMMA CommitTyped ==
  ASSUME TypeInv, NEW s \in Sessions, Commit(s)
  PROVE  TypeInv'
<1>1. pending[s] \in Changes
  BY DEF TypeInv, TypeOK
<1>2. /\ tuples' \subseteq Tuples
      /\ versions' \subseteq Versions
      /\ log' \subseteq LogRows
      /\ marks' \subseteq Marks
  BY <1>1 DEF Commit, TypeInv, TypeOK, Changes
<1>3. TypeOK'
  BY <1>2 DEF Commit, End, TypeInv, TypeOK, Steps, Nothing, Changes
<1>4. StepOK'
  BY DEF Commit, End, TypeInv, TypeOK, StepOK
<1> QED
  BY <1>3, <1>4 DEF TypeInv

LEMMA NextTyped == TypeInv /\ [Next]_vars => TypeInv'
<1> SUFFICES ASSUME TypeInv, [Next]_vars PROVE TypeInv'
  OBVIOUS
<1>1. ASSUME NEW s \in Sessions, NEW r \in Requests, Begin(s, r)
      PROVE  TypeInv'
  BY <1>1, BeginTyped
<1>2. ASSUME NEW s \in Sessions, Acquire(s)
      PROVE  TypeInv'
  BY <1>2, AcquireTyped
<1>3. ASSUME NEW s \in Sessions, Step(s)
      PROVE  TypeInv'
  BY <1>3, PrecheckTyped, CheckWriteTyped, UpdateTyped, SweepTyped, ReadSchemaTyped,
     ProbeTyped, InsertVersionTyped, PruneTyped, CommitTyped DEF Step
<1>4. ASSUME NEW s \in Sessions, Fail(s)
      PROVE  TypeInv'
  BY <1>4, EndTyped DEF Fail
<1>5. CASE Tick
  BY <1>5 DEF Tick, TypeInv, TypeOK, StepOK, db, work
<1>6. CASE UNCHANGED vars
  BY <1>6 DEF vars, TypeInv, TypeOK, StepOK
<1> QED
  BY <1>1, <1>2, <1>3, <1>4, <1>5, <1>6 DEF Next, AtBound

(* Every variable always has its type: no statement is reached by a        *)
(* request of another kind, and none runs past the end of its updates.     *)
THEOREM TypesHold == Spec => []TypeInv
<1> QED
  BY InitTyped, NextTyped, PTL DEF Spec

(* TypeOK, which the runs check, is part of it. *)
THEOREM TypeCorrect == Spec => []TypeOK
<1>1. TypeInv => TypeOK
  BY DEF TypeInv
<1> QED
  BY <1>1, TypesHold, PTL

-----------------------------------------------------------------------------
(* What locks requests take. *)

(* Where a transaction is once it has its locks. *)
LockedSteps == Steps \ {"idle", "precheck", "lock"}

LEMMA OrderedNames ==
  ASSUME NEW locks
  PROVE  /\ \A l, m \in ordered(locks) : l.name = m.name => l = m
         /\ \A l \in locks :
              \E m \in ordered(locks) : m.name = l.name /\ (l.exclusive => m.exclusive)
<1> DEFINE Alone(n) == \E m \in locks : m.name = n /\ m.exclusive
<1>1. ordered(locks) = {lock(l.name, Alone(l.name)) : l \in locks}
  BY DEF ordered
<1> HIDE DEF Alone
<1>2. \A n, e : lock(n, e).name = n /\ lock(n, e).exclusive = e
  BY DEF lock
<1>3. \A l, m \in ordered(locks) : l.name = m.name => l = m
  BY <1>1, <1>2
<1>4. ASSUME NEW l \in locks
      PROVE  \E m \in ordered(locks) : m.name = l.name /\ (l.exclusive => m.exclusive)
  <2>1. lock(l.name, Alone(l.name)) \in ordered(locks)
    BY <1>1
  <2>2. l.exclusive => Alone(l.name)
    BY DEF Alone
  <2> QED
    BY <2>1, <2>2, <1>2
<1> QED
  BY <1>3, <1>4

(* A write names the schema and the relation of each tuple, the tuples     *)
(* alone when it is small and the relations alone when it is large.        *)
LEMMA WriteLocksCover ==
  ASSUME NEW updates \in Seq(Updates)
  PROVE  /\ \E l \in writeLocks(updates) : l.name = "schema"
         /\ \A i \in 1..Len(updates) :
              /\ \E l \in writeLocks(updates) :
                   /\ l.name = RelOf[updates[i].tuple]
                   /\ large(updates) => l.exclusive
              /\ ~large(updates) =>
                   \E l \in writeLocks(updates) :
                     l.name = updates[i].tuple /\ l.exclusive
<1> DEFINE named == {updates[i].tuple : i \in 1..Len(updates)}
           asked == {lock("schema", FALSE)}
                    \cup {lock(RelOf[t], large(updates)) : t \in named}
                    \cup {lock(t, TRUE) : t \in IF large(updates) THEN {} ELSE named}
<1>1. writeLocks(updates) = ordered(asked)
  BY DEF writeLocks
<1>2. \A n, e : lock(n, e).name = n /\ lock(n, e).exclusive = e
  BY DEF lock
<1>3. lock("schema", FALSE) \in asked
  OBVIOUS
<1>4. \A t \in named : lock(RelOf[t], large(updates)) \in asked
  OBVIOUS
<1>5. ~large(updates) => \A t \in named : lock(t, TRUE) \in asked
  OBVIOUS
<1>6. \A i \in 1..Len(updates) : updates[i].tuple \in named
  OBVIOUS
<1>7. \A l \in asked :
        \E m \in writeLocks(updates) : m.name = l.name /\ (l.exclusive => m.exclusive)
  <2> HIDE DEF asked
  <2> QED
    BY <1>1, OrderedNames
<1> HIDE DEF asked, named
<1>8. \E l \in writeLocks(updates) : l.name = "schema"
  BY <1>2, <1>3, <1>7
<1>9. ASSUME NEW i \in 1..Len(updates)
      PROVE  \E l \in writeLocks(updates) :
               l.name = RelOf[updates[i].tuple] /\ (large(updates) => l.exclusive)
  BY <1>2, <1>4, <1>6, <1>7
<1>10. ASSUME NEW i \in 1..Len(updates), ~large(updates)
       PROVE  \E l \in writeLocks(updates) : l.name = updates[i].tuple /\ l.exclusive
  <2> DEFINE t == updates[i].tuple
  <2>1. lock(t, TRUE) \in asked
    BY <1>5, <1>6, <1>10
  <2>2. lock(t, TRUE).name = t /\ lock(t, TRUE).exclusive = TRUE
    BY <1>2
  <2> HIDE DEF t
  <2> QED
    BY <2>1, <2>2, <1>7 DEF t
<1> QED
  BY <1>8, <1>9, <1>10

LEMMA LocksForUnique ==
  ASSUME NEW r \in Requests
  PROVE  \A l, m \in LocksFor(r) : l.name = m.name => l = m
BY RequestTyped, OrderedNames DEF LocksFor, writeLocks

(* Two requests that may change one tuple need conflicting locks. *)
LEMMA ScopesConflict ==
  ASSUME NEW q \in Requests, NEW r \in Requests, NEW t \in Scope(q) \cap Scope(r)
  PROVE  \E l \in LocksFor(q), m \in LocksFor(r) : Conflicts(l, m)
<1> DEFINE Whole(p) == p.kind = "delete" \/ large(p.updates)
<1>1. ASSUME NEW p \in Requests, t \in Scope(p)
      PROVE  /\ \E l \in LocksFor(p) : l.name = RelOf[t] /\ (Whole(p) => l.exclusive)
             /\ ~Whole(p) => \E l \in LocksFor(p) : l.name = t /\ l.exclusive
  <2>1. p.kind \in {"write", "delete"}
    BY <1>1 DEF Scope
  <2>2. CASE p.kind = "write"
    <3>1. PICK i \in 1..Len(p.updates) : t = p.updates[i].tuple
      BY <1>1, <2>2 DEF Scope
    <3>2. p.updates \in Seq(Updates) /\ LocksFor(p) = writeLocks(p.updates)
      BY <2>2, RequestTyped DEF LocksFor
    <3> QED
      BY <2>2, <3>1, <3>2, WriteLocksCover
  <2>3. CASE p.kind = "delete"
    <3>1. LocksFor(p) = {lock(p.filter.rel, TRUE)} /\ RelOf[t] = p.filter.rel
      BY <1>1, <2>3 DEF Scope, Matches, LocksFor
    <3>2. lock(p.filter.rel, TRUE).name = RelOf[t] /\ lock(p.filter.rel, TRUE).exclusive
      BY <3>1 DEF lock
    <3> QED
      BY <2>3, <3>1, <3>2
  <2> QED
    BY <2>1, <2>2, <2>3
<1> HIDE DEF Whole
<1>2. CASE Whole(q) \/ Whole(r)
  BY <1>1, <1>2 DEF Conflicts
<1>3. CASE ~Whole(q) /\ ~Whole(r)
  BY <1>1, <1>3 DEF Conflicts
<1> QED
  BY <1>2, <1>3

(* A write and a schema, and two schemas, need conflicting locks. *)
LEMMA SchemaConflicts ==
  ASSUME NEW q \in Requests, NEW r \in Requests,
         q.kind = "schema", r.kind \in {"write", "schema"}
  PROVE  \E l \in LocksFor(q), m \in LocksFor(r) : Conflicts(l, m)
<1>1. LocksFor(q) = {lock("schema", TRUE)}
  BY DEF LocksFor
<1>2. \E m \in LocksFor(r) : m.name = "schema"
  <2>1. CASE r.kind = "write"
    BY <2>1, RequestTyped, WriteLocksCover DEF LocksFor
  <2>2. CASE r.kind = "schema"
    BY <2>2 DEF LocksFor, lock
  <2> QED
    BY <2>1, <2>2
<1> QED
  BY <1>1, <1>2 DEF Conflicts, lock

-----------------------------------------------------------------------------
(* Locks. *)

LockInv == TypeInv /\ LocksOK /\ LockMutex

(* A session at a step other than idle serves a request. *)
LEMMA Serving ==
  ASSUME TypeInv, NEW s \in Sessions, pc[s] # "idle"
  PROVE  req[s] \in Requests
BY DEF TypeInv, TypeOK, StepOK

(* The statements after the locks only move on to one another. *)
MovesOn(s) ==
  /\ UNCHANGED <<req, want, holds>>
  /\ \E p \in Steps :
       /\ pc' = [pc EXCEPT ![s] = p]
       /\ \/ pc[s] = "precheck" /\ p = "lock"
          \/ pc[s] \in LockedSteps /\ p \in LockedSteps

LEMMA StepShape ==
  ASSUME TypeInv, NEW s \in Sessions, Step(s)
  PROVE  End(s) \/ MovesOn(s)
<1>1. CASE End(s)
  BY <1>1
<1>2. CASE ~End(s)
  <2>1. ~Commit(s)
    BY <1>2 DEF Commit
  <2>2. \E p \in Steps :
          /\ pc' = [pc EXCEPT ![s] = p]
          /\ \/ pc[s] = "precheck" /\ p = "lock"
             \/ pc[s] \in LockedSteps /\ p \in LockedSteps
    BY <1>2, <2>1 DEF Step, Precheck, CheckWrite, Update, Sweep, ReadSchema, Probe,
      InsertVersion, Mark, CutLog, CutMarks, Rollback, Goto, Steps, LockedSteps
  <2>3. UNCHANGED <<req, want, holds>>
    BY <1>2, <2>1 DEF Step, Precheck, CheckWrite, Update, Sweep, ReadSchema, Probe,
      InsertVersion, Mark, CutLog, CutMarks, Rollback
  <2> QED
    BY <2>2, <2>3 DEF MovesOn
<1> QED
  BY <1>1, <1>2

LEMMA MovesOnLocks ==
  ASSUME LockInv, NEW s \in Sessions, MovesOn(s)
  PROVE  LocksOK' /\ LockMutex'
<1>1. PICK p \in Steps :
        /\ pc' = [pc EXCEPT ![s] = p]
        /\ \/ pc[s] = "precheck" /\ p = "lock"
           \/ pc[s] \in LockedSteps /\ p \in LockedSteps
  BY DEF MovesOn
<1>2. UNCHANGED <<req, want, holds>>
  BY DEF MovesOn
<1>3. LocksOK'
  BY <1>1, <1>2 DEF LockInv, LocksOK, LockedSteps, TypeInv, TypeOK
<1>4. LockMutex'
  BY <1>2 DEF LockInv, LockMutex
<1> QED
  BY <1>3, <1>4

LEMMA EndLocks ==
  ASSUME LockInv, NEW s \in Sessions, End(s)
  PROVE  LocksOK' /\ LockMutex'
<1>1. LocksOK'
  BY DEF End, LockInv, LocksOK, TypeInv, TypeOK
<1>2. LockMutex'
  BY DEF End, LockInv, LockMutex, TypeInv, TypeOK
<1> QED
  BY <1>1, <1>2

LEMMA BeginLocks ==
  ASSUME LockInv, NEW s \in Sessions, NEW r \in Requests, Begin(s, r)
  PROVE  LocksOK' /\ LockMutex'
<1>1. LocksOK'
  BY RequestIsSome DEF Begin, FirstStep, LockInv, LocksOK, TypeInv, TypeOK
<1>2. LockMutex'
  BY DEF Begin, LockInv, LockMutex
<1> QED
  BY <1>1, <1>2

LEMMA AcquireLocks ==
  ASSUME LockInv, NEW s \in Sessions, Acquire(s)
  PROVE  LocksOK' /\ LockMutex'
<1>1. PICK l \in want[s] :
        /\ Frontmost(want[s], l)
        /\ Grantable(s, l)
        /\ want' = [want EXCEPT ![s] = @ \ {l}]
        /\ holds' = [holds EXCEPT ![s] = @ \cup {l}]
        /\ Goto(s, IF want[s] = {l} THEN LockedStep(req[s]) ELSE "lock")
  BY DEF Acquire
<1>2. req[s] \in Requests /\ pc[s] = "lock" /\ req' = req
  BY Serving DEF Acquire, LockInv
<1>3. want[s] \cup holds[s] = LocksFor(req[s]) /\ LocksFor(req[s]) \subseteq Locks
  BY <1>2, LocksForTyped DEF LockInv, LocksOK
<1>4. ASSUME NEW m \in want[s], m # l
      PROVE  NameRank[l.name] < NameRank[m.name]
  <2>1. l.name # m.name
    BY <1>2, <1>3, <1>4, LocksForUnique
  <2>2. l.name \in LockNames /\ m.name \in LockNames
    BY <1>3 DEF Locks
  <2>3. NameRank[l.name] # NameRank[m.name]
        /\ NameRank[l.name] \in Nat /\ NameRank[m.name] \in Nat
    BY <2>1, <2>2, LockNameAssumption
  <2>4. NameRank[l.name] <= NameRank[m.name]
    BY <1>1 DEF Frontmost
  <2> QED
    BY <2>3, <2>4
<1>5. LockedStep(req[s]) \notin {"idle", "precheck", "lock"}
  BY <1>2, RequestTyped DEF LockedStep
<1>6. LocksOK'
  <2> SUFFICES ASSUME NEW r \in Sessions
               PROVE  /\ pc'[r] = "idle" => holds'[r] = {}
                      /\ pc'[r] # "idle" => want'[r] \cup holds'[r] = LocksFor(req'[r])
                      /\ pc'[r] \notin {"precheck", "lock"} => want'[r] = {}
                      /\ \A k \in holds'[r], m \in want'[r] :
                           NameRank[k.name] < NameRank[m.name]
    BY DEF LocksOK
  <2>1. CASE r # s
    BY <1>1, <1>2, <2>1 DEF Goto, LockInv, LocksOK, TypeInv, TypeOK
  <2>2. CASE r = s
    <3>1. want'[s] = want[s] \ {l} /\ holds'[s] = holds[s] \cup {l}
      BY <1>1 DEF LockInv, TypeInv, TypeOK
    <3>2. pc'[s] = IF want[s] = {l} THEN LockedStep(req[s]) ELSE "lock"
      BY <1>1 DEF Goto, LockInv, TypeInv, TypeOK
    <3>3. \A k \in holds[s], m \in want[s] : NameRank[k.name] < NameRank[m.name]
      BY DEF LockInv, LocksOK
    <3> QED
      BY <1>2, <1>3, <1>4, <1>5, <2>2, <3>1, <3>2, <3>3
  <2> QED
    BY <2>1, <2>2
<1>7. LockMutex'
  <2>1. \A r \in Sessions \ {s} : \A m \in holds[r] :
          ~Conflicts(l, m) /\ ~Conflicts(m, l)
    BY <1>1 DEF Grantable, Conflicts
  <2>2. \A r \in Sessions : holds'[r] = IF r = s THEN holds[s] \cup {l} ELSE holds[r]
    BY <1>1 DEF LockInv, TypeInv, TypeOK
  <2> QED
    BY <2>1, <2>2 DEF LockInv, LockMutex
<1> QED
  BY <1>6, <1>7

LEMMA NextLocks == LockInv /\ [Next]_vars => LockInv'
<1> SUFFICES ASSUME LockInv, [Next]_vars PROVE LocksOK' /\ LockMutex'
  BY NextTyped DEF LockInv
<1>1. ASSUME NEW s \in Sessions, NEW r \in Requests, Begin(s, r)
      PROVE  LocksOK' /\ LockMutex'
  BY <1>1, BeginLocks
<1>2. ASSUME NEW s \in Sessions, Acquire(s)
      PROVE  LocksOK' /\ LockMutex'
  BY <1>2, AcquireLocks
<1>3. ASSUME NEW s \in Sessions, Step(s)
      PROVE  LocksOK' /\ LockMutex'
  BY <1>3, StepShape, MovesOnLocks, EndLocks DEF LockInv
<1>4. ASSUME NEW s \in Sessions, Fail(s)
      PROVE  LocksOK' /\ LockMutex'
  BY <1>4, EndLocks DEF Fail, Rollback
<1>5. CASE UNCHANGED work
  BY <1>5 DEF work, LockInv, LocksOK, LockMutex
<1> QED
  BY <1>1, <1>2, <1>3, <1>4, <1>5 DEF Next, Tick, AtBound, vars, work

LEMMA InitLocks == Init => LocksOK /\ LockMutex
BY DEF Init, LocksOK, LockMutex

(* A transaction's locks are the ones its request needs, taken in the one  *)
(* order, and no two transactions hold conflicting ones.                   *)
THEOREM LocksHold == Spec => []LockInv
<1>1. Init => LockInv
  BY InitTyped, InitLocks DEF LockInv
<1> QED
  BY <1>1, NextLocks, PTL DEF Spec

(* Two transactions that both have their locks do not need conflicting     *)
(* ones.                                                                   *)
LEMMA LockedApart ==
  ASSUME LockInv, NEW s \in Sessions, NEW r \in Sessions, s # r,
         pc[s] \in LockedSteps, pc[r] \in LockedSteps
  PROVE  \A l \in LocksFor(req[s]), m \in LocksFor(req[r]) : ~Conflicts(l, m)
<1>1. holds[s] = LocksFor(req[s]) /\ holds[r] = LocksFor(req[r])
  BY DEF LockInv, LocksOK, LockedSteps
<1> QED
  BY <1>1 DEF LockInv, LockMutex

-----------------------------------------------------------------------------
(* Rows. *)

RowInv == LockInv /\ PendingOK

(* A step of one session leaves every other transaction as it is. *)
OthersStay(s) ==
  \A r \in Sessions \ {s} :
    /\ req'[r] = req[r] /\ pc'[r] = pc[r] /\ done'[r] = done[r]
    /\ xid'[r] = xid[r] /\ probes'[r] = probes[r] /\ pending'[r] = pending[r]

LEMMA OneSessionSteps ==
  ASSUME TypeInv, NEW s \in Sessions,
         \/ \E r \in Requests : Begin(s, r)
         \/ Acquire(s) \/ Step(s) \/ Fail(s)
  PROVE  OthersStay(s)
<1> USE DEF OthersStay, TypeInv, TypeOK
<1>1. CASE \E r \in Requests : Begin(s, r)
  BY <1>1 DEF Begin
<1>2. CASE Acquire(s)
  BY <1>2 DEF Acquire, Goto
<1>3. ASSUME End(s)
      PROVE  OthersStay(s)
  BY <1>3 DEF End
<1>4. CASE Precheck(s) \/ CheckWrite(s)
  BY <1>3, <1>4 DEF Precheck, CheckWrite, Goto, Rollback
<1>5. CASE Update(s) \/ Sweep(s)
  <2> DEFINE Same == \A r \in Sessions \ {s} : pending'[r] = pending[r] /\ xid'[r] = xid[r]
  <2>1. ASSUME NEW gone, DeleteRows(s, gone)
        PROVE  Same
    BY <2>1 DEF DeleteRows, AssignXid
  <2>2. ASSUME NEW t, Touch(s, t)
        PROVE  Same
    BY <2>2 DEF Touch, AssignXid
  <2>3. Same
    BY <1>5, <2>1, <2>2 DEF Update, Sweep
  <2> QED
    BY <1>5, <2>3 DEF Update, Sweep, Goto
<1>6. CASE ReadSchema(s) \/ InsertVersion(s)
  BY <1>6 DEF ReadSchema, InsertVersion, Goto, AssignXid
<1>7. CASE Probe(s)
  BY <1>3, <1>7 DEF Probe, Goto, Rollback
<1>8. CASE Mark(s) \/ CutLog(s) \/ CutMarks(s)
  BY <1>8 DEF Mark, CutLog, CutMarks, Goto, AssignXid
<1>9. CASE Commit(s) \/ Fail(s)
  BY <1>3, <1>9 DEF Commit, Fail, Rollback
<1> QED
  BY <1>1, <1>2, <1>4, <1>5, <1>6, <1>7, <1>8, <1>9 DEF Step

(* What the statements that change rows add to a transaction. *)
LEMMA TouchAdds ==
  ASSUME TypeOK, NEW s \in Sessions, NEW t, Touch(s, t)
  PROVE  /\ pending'[s].del = pending[s].del
         /\ pending'[s].version = pending[s].version
         /\ pending'[s].ins = pending[s].ins \cup ({t} \ tuples)
<1>1. CASE t \in tuples
  BY <1>1 DEF Touch
<1>2. CASE t \notin tuples
  <2> DEFINE old == pending[s]
             row == [xid |-> XidOf(s), tuple |-> t]
             new == [old EXCEPT !.ins = @ \cup {t}, !.rows = @ \cup {row}]
  <2>1. old \in Changes
    BY DEF TypeOK
  <2>2. pending'[s] = new
    BY <1>2 DEF Touch, TypeOK
  <2>3. new.del = old.del /\ new.version = old.version /\ new.ins = old.ins \cup {t}
    <3> HIDE DEF old, row
    <3> QED
      BY <2>1 DEF Changes
  <2> QED
    BY <1>2, <2>2, <2>3
<1> QED
  BY <1>1, <1>2

LEMMA DeleteRowsAdds ==
  ASSUME TypeOK, NEW s \in Sessions, NEW gone, DeleteRows(s, gone)
  PROVE  /\ pending'[s].ins = pending[s].ins
         /\ pending'[s].version = pending[s].version
         /\ pending'[s].del = pending[s].del \cup (gone \cap tuples)
<1> DEFINE rows == gone \cap tuples
<1>1. CASE rows = {}
  BY <1>1 DEF DeleteRows
<1>2. CASE rows # {}
  <2> DEFINE old == pending[s]
             added == [xid : {XidOf(s)}, tuple : rows]
             new == [old EXCEPT !.del = @ \cup rows, !.rows = @ \cup added]
  <2>1. old \in Changes
    BY DEF TypeOK
  <2>2. pending'[s] = new
    BY <1>2 DEF DeleteRows, TypeOK
  <2>3. new.ins = old.ins /\ new.version = old.version /\ new.del = old.del \cup rows
    <3> HIDE DEF old, rows, added
    <3> QED
      BY <2>1 DEF Changes
  <2> QED
    BY <2>2, <2>3
<1> QED
  BY <1>1, <1>2

(* Once both have their locks, no tuple is in the scope of two requests. *)
LEMMA ScopesApart ==
  ASSUME LockInv, NEW s \in Sessions, NEW r \in Sessions, s # r,
         pc[s] \in LockedSteps, pc[r] \in LockedSteps
  PROVE  Scope(req[s]) \cap Scope(req[r]) = {}
BY LockedApart, ScopesConflict, Serving DEF LockInv, LockedSteps

(* Another transaction's rows stay as they are while the stored tuples do, *)
(* and when a transaction commits, which shares no tuple with it.          *)
LEMMA OthersRows ==
  ASSUME TypeInv, PendingOK, NEW s \in Sessions, OthersStay(s), UNCHANGED tuples
  PROVE  \A r \in Sessions \ {s} : RowsOf(r)'
BY DEF OthersStay, PendingOK, RowsOf, Scope

LEMMA EndRows ==
  ASSUME TypeInv, NEW s \in Sessions, End(s)
  PROVE  RowsOf(s)'
<1>1. pending'[s] = Nothing /\ req'[s] = NoRequest /\ pc'[s] = "idle"
  BY DEF End, TypeInv, TypeOK
<1> QED
  BY <1>1 DEF RowsOf, Nothing, NoRequest

(* A step that leaves the rows and the version of its transaction alone    *)
(* and does not reach the commit of a schema.                              *)
LEMMA SameRows ==
  ASSUME RowInv, NEW s \in Sessions,
         UNCHANGED <<tuples, pending>>,
         pc[s] # "idle" => req'[s] = req[s],
         pc[s] \notin {"update", "commit"},
         pc'[s] = "commit" => req'[s].kind = "write"
  PROVE  RowsOf(s)'
<1>1. RowsOf(s)
  BY DEF RowInv, PendingOK
<1>2. pending[s].ins = {} /\ pending[s].del = {} /\ pending[s].version = {}
  BY <1>1 DEF RowsOf
<1> QED
  BY <1>2 DEF RowsOf

LEMMA UpdateRows ==
  ASSUME RowInv, NEW s \in Sessions, Update(s)
  PROVE  RowsOf(s)'
<1> DEFINE u == req[s].updates[done[s] + 1]
<1>1. RowsOf(s) /\ pc[s] = "update" /\ req[s].kind = "write" /\ u.tuple \in Scope(req[s])
  BY NextUpdateTyped DEF RowInv, LockInv, PendingOK, Update, Scope
<1>2. req' = req /\ tuples' = tuples /\ pc'[s] \in {"update", "commit"}
  BY DEF Update, db, Goto, RowInv, LockInv, TypeInv, TypeOK
<1>3. /\ pending'[s].version = pending[s].version
      /\ \/ /\ pending'[s].del = pending[s].del
            /\ pending'[s].ins = pending[s].ins \cup ({u.tuple} \ tuples)
         \/ /\ pending'[s].ins = pending[s].ins
            /\ pending'[s].del = pending[s].del \cup ({u.tuple} \cap tuples)
  <2>1. IF u.op = "touch" THEN Touch(s, u.tuple) ELSE DeleteRows(s, {u.tuple})
    BY DEF Update
  <2> HIDE DEF u
  <2> QED
    BY <2>1, TouchAdds, DeleteRowsAdds DEF RowInv, LockInv, TypeInv
<1> HIDE DEF u
<1> QED
  BY <1>1, <1>2, <1>3 DEF RowsOf

LEMMA SweepRows ==
  ASSUME RowInv, NEW s \in Sessions, Sweep(s)
  PROVE  RowsOf(s)'
<1> DEFINE gone == {t \in Tuples : Matches(req[s].filter, t)}
<1>1. RowsOf(s) /\ pc[s] = "sweep" /\ req[s].kind = "delete" /\ gone = Scope(req[s])
  BY DEF RowInv, LockInv, TypeInv, StepOK, PendingOK, Sweep, Scope
<1>2. req' = req /\ tuples' = tuples /\ pc'[s] = "commit"
  BY DEF Sweep, db, Goto, RowInv, LockInv, TypeInv, TypeOK
<1>3. /\ pending'[s].version = pending[s].version
      /\ pending'[s].ins = pending[s].ins
      /\ pending'[s].del = pending[s].del \cup (gone \cap tuples)
  BY DeleteRowsAdds DEF Sweep, RowInv, LockInv, TypeInv
<1> HIDE DEF gone
<1> QED
  BY <1>1, <1>2, <1>3 DEF RowsOf

LEMMA InsertVersionRows ==
  ASSUME RowInv, NEW s \in Sessions, InsertVersion(s)
  PROVE  RowsOf(s)'
<1> DEFINE v == [version |-> nextVersion, xid |-> XidOf(s), schema |-> req[s].schema]
<1>1. RowsOf(s) /\ pc[s] = "insert" /\ req[s].kind = "schema"
  BY DEF RowInv, LockInv, TypeInv, StepOK, PendingOK, InsertVersion
<1>2. req' = req /\ tuples' = tuples /\ pc'[s] = "commit"
  BY DEF InsertVersion, db, Goto, RowInv, LockInv, TypeInv, TypeOK
<1>3. pending' = [pending EXCEPT ![s].version = {v}]
  BY DEF InsertVersion
<1>4. v.schema = req[s].schema
  OBVIOUS
<1> HIDE DEF v
<1>5. /\ pending'[s].version = {v}
      /\ pending'[s].ins = pending[s].ins
      /\ pending'[s].del = pending[s].del
  BY <1>3 DEF RowInv, LockInv, TypeInv, TypeOK, Changes
<1> QED
  BY <1>1, <1>2, <1>4, <1>5 DEF RowsOf

LEMMA PruneAdds ==
  ASSUME TypeOK, NEW s \in Sessions, Mark(s) \/ CutLog(s) \/ CutMarks(s)
  PROVE  /\ pending'[s].version = pending[s].version
         /\ pending'[s].ins = pending[s].ins
         /\ pending'[s].del = pending[s].del
<1> DEFINE m  == [xid |-> OldestRunning, at |-> start[s]]
           cl == LoggedBeforeCut(s)
           cm == MarkedBeforeCut(s)
<1>1. \/ pending' = pending
      \/ pending' = [pending EXCEPT ![s].mark = {m}]
      \/ pending' = [pending EXCEPT ![s].cutRows = cl]
      \/ pending' = [pending EXCEPT ![s].cutMarks = cm]
  BY DEF Mark, CutLog, CutMarks
<1> HIDE DEF m, cl, cm
<1> QED
  BY <1>1 DEF TypeOK, Changes

LEMMA PruneRows ==
  ASSUME RowInv, NEW s \in Sessions, Mark(s) \/ CutLog(s) \/ CutMarks(s)
  PROVE  RowsOf(s)'
<1>1. RowsOf(s) /\ pc[s] \in {"mark", "cutLog", "cutMarks"} /\ req[s].kind = "prune"
  BY DEF RowInv, LockInv, TypeInv, StepOK, PendingOK, Mark, CutLog, CutMarks
<1>2. req' = req /\ tuples' = tuples
  BY DEF Mark, CutLog, CutMarks, db
<1> QED
  BY <1>1, <1>2, PruneAdds DEF RowsOf, RowInv, LockInv, TypeInv

LEMMA CommitOthersRows ==
  ASSUME RowInv, NEW s \in Sessions, Commit(s), OthersStay(s)
  PROVE  \A r \in Sessions \ {s} : RowsOf(r)'
<1> SUFFICES ASSUME NEW r \in Sessions, r # s PROVE RowsOf(r)'
  OBVIOUS
<1>1. RowsOf(s) /\ RowsOf(r) /\ pc[s] = "commit"
  BY DEF RowInv, PendingOK, Commit
<1>2. pc'[r] = pc[r] /\ req'[r] = req[r] /\ pending'[r] = pending[r]
  BY DEF OthersStay
<1>3. tuples' = (tuples \ pending[s].del) \cup pending[s].ins
  BY DEF Commit
<1>4. CASE pc[r] \notin {"update", "commit"}
  BY <1>1, <1>2, <1>4 DEF RowsOf, Scope
<1>5. CASE pc[r] \in {"update", "commit"}
  <2>1. Scope(req[s]) \cap Scope(req[r]) = {}
    BY <1>1, <1>5, ScopesApart DEF RowInv, LockedSteps, Steps
  <2>2. pending[r].del \subseteq tuples' /\ pending[r].ins \cap tuples' = {}
    BY <1>1, <1>3, <2>1 DEF RowsOf
  <2> QED
    BY <1>1, <1>2, <2>2 DEF RowsOf, Scope
<1> QED
  BY <1>4, <1>5

LEMMA StepRows ==
  ASSUME RowInv, NEW s \in Sessions, Step(s)
  PROVE  RowsOf(s)'
<1>1. ASSUME End(s) PROVE RowsOf(s)'
  BY <1>1, EndRows DEF RowInv, LockInv
<1>2. CASE Precheck(s) \/ CheckWrite(s) \/ ReadSchema(s) \/ Probe(s)
  <2>1. CASE End(s)
    BY <1>1, <2>1
  <2>2. CASE ~End(s)
    <3>1. UNCHANGED <<tuples, pending, req>>
      BY <1>2, <2>2 DEF Precheck, CheckWrite, ReadSchema, Probe, Rollback, db
    <3>2. pc[s] \in {"precheck", "check", "probe"}
      BY <1>2 DEF Precheck, CheckWrite, ReadSchema, Probe
    <3>3. pc'[s] = "commit" => req[s].kind = "write"
      BY <1>2, <2>2 DEF Precheck, CheckWrite, ReadSchema, Probe, Rollback, Goto,
        RowInv, LockInv, TypeInv, TypeOK
    <3> QED
      BY <3>1, <3>2, <3>3, SameRows
  <2> QED
    BY <2>1, <2>2
<1>3. CASE Commit(s)
  BY <1>1, <1>3 DEF Commit
<1> QED
  BY <1>2, <1>3, UpdateRows, SweepRows, InsertVersionRows, PruneRows DEF Step

LEMMA NextRows == RowInv /\ [Next]_vars => RowInv'
<1> SUFFICES ASSUME RowInv, [Next]_vars PROVE PendingOK'
  BY NextLocks DEF RowInv
<1> USE DEF RowInv, LockInv
<1>1. ASSUME NEW s \in Sessions, RowsOf(s)', OthersStay(s),
             UNCHANGED tuples \/ Commit(s)
      PROVE  PendingOK'
  <2>1. \A r \in Sessions \ {s} : RowsOf(r)'
    BY <1>1, OthersRows, CommitOthersRows
  <2> QED
    BY <1>1, <2>1 DEF PendingOK
<1>2. ASSUME NEW s \in Sessions, NEW r \in Requests, Begin(s, r)
      PROVE  PendingOK'
  <2>1. pc[s] = "idle" /\ pc'[s] # "commit" /\ UNCHANGED <<tuples, pending>>
    BY <1>2 DEF Begin, FirstStep, db, TypeInv, TypeOK
  <2>2. RowsOf(s)'
    BY <2>1, SameRows
  <2> QED
    BY <1>1, <1>2, <2>1, <2>2, OneSessionSteps
<1>3. ASSUME NEW s \in Sessions, Acquire(s)
      PROVE  PendingOK'
  <2>1. /\ pc[s] = "lock" /\ pc'[s] # "commit" /\ UNCHANGED <<tuples, pending>>
        /\ req' = req
    <3>1. LockedStep(req[s]) # "commit"
      BY <1>3, Serving, RequestTyped DEF LockedStep, Acquire
    <3> QED
      BY <1>3, <3>1 DEF Acquire, Goto, db, TypeInv, TypeOK
  <2>2. RowsOf(s)'
    BY <2>1, SameRows
  <2> QED
    BY <1>1, <1>3, <2>1, <2>2, OneSessionSteps
<1>4. ASSUME NEW s \in Sessions, Step(s)
      PROVE  PendingOK'
  <2>1. UNCHANGED tuples \/ Commit(s)
    BY <1>4 DEF Step, Precheck, CheckWrite, Update, Sweep, ReadSchema, Probe,
      InsertVersion, Mark, CutLog, CutMarks, Rollback, db
  <2> QED
    BY <1>1, <1>4, <2>1, StepRows, OneSessionSteps
<1>5. ASSUME NEW s \in Sessions, Fail(s)
      PROVE  PendingOK'
  BY <1>1, <1>5, EndRows, OneSessionSteps DEF Fail, Rollback, db
<1>6. CASE UNCHANGED <<work, db>>
  BY <1>6 DEF work, db, PendingOK, RowsOf, Scope
<1> QED
  BY <1>2, <1>3, <1>4, <1>5, <1>6 DEF Next, Tick, AtBound, vars, work, db

LEMMA InitRows == Init => PendingOK
BY DEF Init, PendingOK, RowsOf, Nothing, NoRequest

(* What a transaction has changed lies in the scope of its request, and is *)
(* not yet so in the store.                                                *)
THEOREM RowsHold == Spec => []RowInv
<1>1. Init => RowInv
  BY InitTyped, InitLocks, InitRows DEF RowInv, LockInv
<1> QED
  BY <1>1, NextRows, PTL DEF Spec

(* A statement that changes or waits for a row is in its request's scope.  *)
LEMMA ReachInScope ==
  ASSUME TypeInv, NEW s \in Sessions, NEW t \in Reach(s)
  PROVE  pc[s] \in LockedSteps /\ t \in Scope(req[s])
<1>1. pc[s] \in {"update", "sweep"}
  BY DEF Reach
<1>2. CASE pc[s] = "update"
  BY <1>2, NextUpdateTyped DEF Reach, Scope, LockedSteps, Steps
<1>3. CASE pc[s] = "sweep"
  BY <1>3 DEF Reach, Scope, LockedSteps, Steps, TypeInv, StepOK
<1> QED
  BY <1>1, <1>2, <1>3

LEMMA RowsFree == RowInv => NoRowWait
<1> SUFFICES ASSUME RowInv, NEW s \in Sessions, NEW t \in Reach(s),
                    NEW r \in Sessions \ {s}
             PROVE  t \notin pending[r].ins \cup pending[r].del
  BY DEF NoRowWait, RowFree
<1>1. SUFFICES ASSUME t \in pending[r].ins \cup pending[r].del
               PROVE  FALSE
  OBVIOUS
<1>2. RowsOf(r)
  BY DEF RowInv, PendingOK
<1>3. t \in Scope(req[r]) /\ pc[r] \in LockedSteps
  BY <1>1, <1>2 DEF RowsOf, LockedSteps, Steps
<1>4. t \in Scope(req[s]) /\ pc[s] \in LockedSteps
  BY ReachInScope DEF RowInv, LockInv
<1> QED
  BY <1>3, <1>4, ScopesApart DEF RowInv

(* The advisory locks of lock.go keep any two transactions that touch one  *)
(* tuple apart: no touchSQL or deleteSQL ever waits for a row, where it    *)
(* would be outside the one lock order.                                    *)
THEOREM NoStatementWaits == Spec => []NoRowWait
<1> QED
  BY RowsHold, RowsFree, PTL

(* A lock a transaction waits for sorts after every lock it holds, and so  *)
(* after any that others wait for it to release.  The names have a last    *)
(* one, so of the locks waited for in a cycle one would sort last.         *)
LEMMA NoCycle == RowInv => NoWaitCycle
<1> SUFFICES ASSUME RowInv, NEW S \in (SUBSET Sessions) \ {{}}
             PROVE  \E s \in S : \A r \in S : ~WaitsFor(s, r)
  BY DEF NoWaitCycle
<1> SUFFICES ASSUME ~\E s \in S : \A r \in S : ~WaitsFor(s, r)
             PROVE  FALSE
  OBVIOUS
<1>1. ASSUME NEW s \in S
      PROVE  \E r \in S, l \in want[s] :
               Frontmost(want[s], l) /\ \E m \in holds[r] : l.name = m.name
  BY RowsFree DEF WaitsFor, NoRowWait, RowFree, Conflicts
<1>2. PICK last \in LockNames : \A n \in LockNames : NameRank[n] <= NameRank[last]
  BY LockNameAssumption
<1>3. \A n \in LockNames : NameRank[n] \in Nat
  BY LockNameAssumption
<1>4. \A s \in S : \A l \in want[s] \cup holds[s] : l.name \in LockNames
  BY DEF RowInv, LockInv, TypeInv, TypeOK, Locks
<1> DEFINE Gap(l) == NameRank[last] - NameRank[l.name]
           Gaps == {n \in Nat : \E s \in S : \E l \in want[s] :
                      Frontmost(want[s], l) /\ n = Gap(l)}
<1>5. ASSUME NEW s \in S, NEW l \in want[s], Frontmost(want[s], l)
      PROVE  Gap(l) \in Gaps
  <2>1. Gap(l) \in Nat
    BY <1>2, <1>3, <1>4
  <2> QED
    BY <1>5, <2>1
<1>6. Gaps # {}
  BY <1>1, <1>5
<1>7. Least(Gaps) \in Gaps /\ \A n \in Gaps : Least(Gaps) <= n
  <2>1. Gaps \in SUBSET Nat
    OBVIOUS
  <2> HIDE DEF Gaps
  <2> QED
    BY <1>6, <2>1, LeastIsLeast
<1>8. PICK s \in S : \E l \in want[s] :
        Frontmost(want[s], l) /\ Least(Gaps) = Gap(l)
  BY <1>7
<1>9. PICK l \in want[s] : Frontmost(want[s], l) /\ Least(Gaps) = Gap(l)
  BY <1>8
<1>10. PICK r \in S, k \in want[s] :
         Frontmost(want[s], k) /\ \E m \in holds[r] : k.name = m.name
  BY <1>1
<1>11. PICK m \in holds[r] : k.name = m.name
  BY <1>10
<1>12. PICK j \in want[r] : Frontmost(want[r], j)
  BY <1>1
<1>13. NameRank[m.name] < NameRank[j.name]
  BY DEF RowInv, LockInv, LocksOK
<1>14. NameRank[l.name] <= NameRank[k.name]
  BY <1>9 DEF Frontmost
<1>15. Least(Gaps) <= Gap(j)
  BY <1>5, <1>7, <1>12
<1>16. Gap(l) <= Gap(j)
  BY <1>9, <1>15
<1>17. /\ NameRank[l.name] \in Nat /\ NameRank[j.name] \in Nat
       /\ NameRank[m.name] \in Nat /\ NameRank[last] \in Nat
  BY <1>2, <1>3, <1>4
<1> HIDE DEF Gaps
<1> QED
  BY <1>11, <1>13, <1>14, <1>16, <1>17

(* lock.go: "Every request takes its locks in that one order, so none      *)
(* waits on another in a cycle."                                           *)
THEOREM NoneWaitsInACycle == Spec => []NoWaitCycle
<1> QED
  BY RowsHold, NoCycle, PTL

-----------------------------------------------------------------------------
(* Schema versions. *)

VersionInv == RowInv /\ VersionsOK /\ VersionsCommitInOrder

(* The statements that number a row, and what they do to the id. *)
LEMMA Numbering ==
  ASSUME TypeInv, NEW s \in Sessions,
         (\E r \in Requests : Begin(s, r)) \/ Acquire(s) \/ Step(s) \/ Fail(s)
  PROVE  \/ nextXid' = nextXid /\ xid' = xid
         \/ /\ AssignXid(s)
            /\ pc'[s] \in {"update", "cutLog", "cutMarks", "commit"}
         \/ End(s) /\ nextXid' = nextXid
<1>1. CASE Update(s) \/ Sweep(s)
  <2>1. pc'[s] \in {"update", "commit"}
    BY <1>1 DEF Update, Sweep, Goto, TypeInv, TypeOK
  <2>2. UNCHANGED <<xid, nextXid>> \/ AssignXid(s)
    BY <1>1 DEF Update, Sweep, Touch, DeleteRows
  <2> QED
    BY <2>1, <2>2
<1>2. CASE Mark(s) \/ CutLog(s) \/ CutMarks(s) \/ InsertVersion(s)
  BY <1>2 DEF Mark, CutLog, CutMarks, InsertVersion, Goto, TypeInv, TypeOK
<1>3. CASE Precheck(s) \/ CheckWrite(s) \/ ReadSchema(s) \/ Probe(s)
  BY <1>3 DEF Precheck, CheckWrite, ReadSchema, Probe, Rollback, clocks
<1>4. CASE Commit(s) \/ Fail(s)
  BY <1>4 DEF Commit, Fail, Rollback
<1>5. CASE (\E r \in Requests : Begin(s, r)) \/ Acquire(s)
  BY <1>5 DEF Begin, Acquire, clocks
<1> QED
  BY <1>1, <1>2, <1>3, <1>4, <1>5 DEF Step

(* The ids transactions have are given out, and a transaction has none     *)
(* before it has changed a row.                                            *)
LEMMA IdsGivenOut ==
  ASSUME VersionInv, NEW s \in Sessions, OthersStay(s),
         (\E r \in Requests : Begin(s, r)) \/ Acquire(s) \/ Step(s) \/ Fail(s)
  PROVE  /\ nextXid <= nextXid'
         /\ \A r \in Sessions :
              /\ xid'[r] < nextXid'
              /\ pc'[r] \in {"idle", "precheck", "lock", "check", "probe", "insert"} =>
                   xid'[r] = 0
<1> USE DEF VersionInv, RowInv, LockInv, TypeInv
<1>1. nextXid \in Nat /\ \A r \in Sessions : xid[r] \in Nat /\ xid[r] < nextXid
  BY DEF TypeOK, Xids, VersionsOK
<1>2. CASE nextXid' = nextXid /\ xid' = xid /\ ~End(s)
  <2>1. pc'[s] \in {"idle", "precheck", "lock", "check", "probe", "insert"} =>
          pc[s] \in {"idle", "precheck", "lock", "check", "probe", "insert"}
    <3>1. CASE (\E r \in Requests : Begin(s, r)) \/ Acquire(s)
      BY <3>1 DEF Begin, Acquire
    <3>2. CASE Step(s) \/ Fail(s)
      BY <1>2, <3>2 DEF Step, Fail, Precheck, CheckWrite, Update, Sweep, ReadSchema, Probe,
        InsertVersion, Mark, CutLog, CutMarks, Commit, Rollback, Goto, TypeOK
    <3> QED
      BY <3>1, <3>2
  <2> QED
    BY <1>1, <1>2, <2>1 DEF VersionsOK, OthersStay
<1>3. CASE AssignXid(s) /\ pc'[s] \in {"update", "cutLog", "cutMarks", "commit"}
  <2>1. nextXid <= nextXid' /\ xid'[s] < nextXid' /\ nextXid' \in Nat
    BY <1>1, <1>3 DEF AssignXid, XidOf, TypeOK
  <2> QED
    BY <1>1, <1>3, <2>1 DEF VersionsOK, OthersStay
<1>4. CASE End(s) /\ nextXid' = nextXid
  BY <1>1, <1>4 DEF End, TypeOK, VersionsOK, OthersStay, Xids
<1> QED
  BY <1>2, <1>3, <1>4, Numbering

LEMMA InsertVersionAdds ==
  ASSUME TypeOK, NEW s \in Sessions, InsertVersion(s)
  PROVE  LET v == [version |-> nextVersion, xid |-> XidOf(s), schema |-> req[s].schema]
         IN  /\ pending'[s].version = {v}
             /\ pending'[s].ins = pending[s].ins
             /\ pending'[s].del = pending[s].del
<1> DEFINE v == [version |-> nextVersion, xid |-> XidOf(s), schema |-> req[s].schema]
<1>1. pending' = [pending EXCEPT ![s].version = {v}]
  BY DEF InsertVersion
<1> HIDE DEF v
<1>2. /\ pending'[s].version = {v}
      /\ pending'[s].ins = pending[s].ins
      /\ pending'[s].del = pending[s].del
  BY <1>1 DEF TypeOK, Changes
<1> QED
  BY <1>2 DEF v

(* Apart from its insert and its commit no statement touches a version.    *)
LEMMA VersionEffect ==
  ASSUME TypeInv, NEW s \in Sessions,
         (\E r \in Requests : Begin(s, r)) \/ Acquire(s) \/ Step(s) \/ Fail(s)
  PROVE  \/ InsertVersion(s)
         \/ Commit(s)
         \/ /\ versions' = versions /\ nextVersion' = nextVersion
            /\ pending'[s].version \subseteq pending[s].version
<1> USE DEF TypeInv
<1>1. CASE Update(s)
  <2>1. PICK t : Touch(s, t) \/ DeleteRows(s, {t})
    BY <1>1 DEF Update
  <2> QED
    BY <1>1, <2>1, TouchAdds, DeleteRowsAdds DEF Update, db
<1>2. CASE Sweep(s)
  BY <1>2, DeleteRowsAdds DEF Sweep, db
<1>3. CASE Mark(s) \/ CutLog(s) \/ CutMarks(s)
  BY <1>3, PruneAdds DEF Mark, CutLog, CutMarks, db
<1>4. ASSUME Rollback(s)
      PROVE  /\ versions' = versions /\ nextVersion' = nextVersion
             /\ pending'[s].version \subseteq pending[s].version
  BY <1>4 DEF Rollback, End, db, Nothing, TypeOK
<1>5. CASE Precheck(s) \/ CheckWrite(s) \/ Probe(s) \/ Fail(s)
  BY <1>4, <1>5 DEF Precheck, CheckWrite, Probe, Fail, db, clocks
<1>6. CASE ReadSchema(s) \/ (\E r \in Requests : Begin(s, r)) \/ Acquire(s)
  BY <1>6 DEF ReadSchema, Begin, Acquire, db, clocks
<1> QED
  BY <1>1, <1>2, <1>3, <1>5, <1>6 DEF Step

(* At most one transaction has a schema to commit.                         *)
LEMMA OneVersion ==
  ASSUME RowInv, NEW s \in Sessions, NEW r \in Sessions, s # r,
         pending[s].version # {}
  PROVE  /\ pc[s] = "commit" /\ req[s].kind = "schema"
         /\ pending[r].version = {}
         /\ pc[r] \in LockedSteps => req[r].kind \notin {"schema", "write"}
<1>1. pc[s] = "commit" /\ req[s].kind = "schema"
  BY DEF RowInv, PendingOK, RowsOf
<1>2. pc[r] \in LockedSteps => req[r].kind \notin {"schema", "write"}
  BY <1>1, LockedApart, SchemaConflicts, Serving DEF RowInv, LockInv, LockedSteps, Steps
<1>3. pending[r].version = {}
  BY <1>2 DEF RowInv, PendingOK, RowsOf, LockedSteps, Steps
<1> QED
  BY <1>1, <1>2, <1>3

LEMMA StepVersions ==
  ASSUME VersionInv, NEW s \in Sessions,
         (\E r \in Requests : Begin(s, r)) \/ Acquire(s) \/ Step(s) \/ Fail(s)
  PROVE  VersionsOK' /\ VersionsCommitInOrder'
<1> USE DEF VersionInv, RowInv, LockInv, TypeInv
<1>1. OthersStay(s)
  BY OneSessionSteps
<1>2. /\ nextXid <= nextXid'
      /\ \A r \in Sessions :
           /\ xid'[r] < nextXid'
           /\ pc'[r] \in {"idle", "precheck", "lock", "check", "probe", "insert"} =>
                xid'[r] = 0
  BY <1>1, IdsGivenOut
<1>3. /\ nextXid \in Nat /\ nextXid' \in Nat /\ nextVersion \in Nat
      /\ \A v \in versions : v.version \in Nat /\ v.xid \in Nat
      /\ \A r \in Sessions : \A v \in pending[r].version :
           v.version \in Nat /\ v.xid \in Nat
  <2>1. TypeOK'
    BY NextTyped DEF Next
  <2>2. \A r \in Sessions : pending[r].version \subseteq Versions
    BY DEF TypeOK, Changes
  <2> QED
    BY <2>1, <2>2 DEF TypeOK, Xids, Versions
<1>4. /\ \A v \in versions : v.version < nextVersion /\ v.xid < nextXid
      /\ \A r \in Sessions : \A v \in pending[r].version :
           v.version < nextVersion /\ v.xid < nextXid
  BY DEF VersionsOK
<1>5. SUFFICES
        /\ \A v \in versions' : v.version < nextVersion' /\ v.xid < nextXid'
        /\ \A r \in Sessions : \A v \in pending'[r].version :
             v.version < nextVersion' /\ v.xid < nextXid'
        /\ VersionsCommitInOrder'
  BY <1>2 DEF VersionsOK
<1>6. CASE InsertVersion(s)
  <2> DEFINE v == [version |-> nextVersion, xid |-> XidOf(s), schema |-> req[s].schema]
  <2>1. pending'[s].version = {v} /\ versions' = versions /\ nextVersion' = nextVersion + 1
    BY <1>6, InsertVersionAdds DEF InsertVersion, db
  <2>2. xid[s] = 0 /\ nextXid' = nextXid + 1
    BY <1>6 DEF InsertVersion, AssignXid, VersionsOK
  <2>3. v.version = nextVersion /\ v.xid = nextXid
    BY <2>2 DEF XidOf
  <2>4. pc[s] \in LockedSteps /\ req[s].kind = "schema"
    BY <1>6 DEF InsertVersion, LockedSteps, Steps, StepOK
  <2>5. \A r \in Sessions \ {s} : pending[r].version = {}
    BY <2>4, OneVersion
  <2> HIDE DEF v
  <2> QED
    BY <1>1, <1>3, <1>4, <2>1, <2>2, <2>3, <2>5 DEF OthersStay, VersionsCommitInOrder
<1>7. CASE Commit(s)
  <2>1. /\ versions' = versions \cup pending[s].version
        /\ pending'[s].version = {} /\ nextVersion' = nextVersion
    BY <1>7 DEF Commit, End, Nothing, TypeOK
  <2>2. ASSUME NEW r \in Sessions \ {s}, pending[r].version # {}
        PROVE  pending[s].version = {}
    BY <2>2, OneVersion
  <2> QED
    BY <1>1, <1>2, <1>3, <1>4, <2>1, <2>2 DEF OthersStay, VersionsCommitInOrder
<1>8. CASE /\ versions' = versions /\ nextVersion' = nextVersion
           /\ pending'[s].version \subseteq pending[s].version
  BY <1>1, <1>2, <1>3, <1>4, <1>8 DEF OthersStay, VersionsCommitInOrder
<1> QED
  BY <1>6, <1>7, <1>8, VersionEffect

LEMMA NextVersions == VersionInv /\ [Next]_vars => VersionInv'
<1> SUFFICES ASSUME VersionInv, [Next]_vars PROVE VersionsOK' /\ VersionsCommitInOrder'
  BY NextRows DEF VersionInv
<1>1. CASE UNCHANGED <<versions, pending, xid, pc, nextXid, nextVersion>>
  BY <1>1 DEF VersionInv, VersionsOK, VersionsCommitInOrder
<1>2. CASE Tick \/ AtBound \/ UNCHANGED vars
  BY <1>1, <1>2 DEF Tick, AtBound, vars, db, work
<1> QED
  BY <1>2, StepVersions DEF Next

LEMMA InitVersions == Init => VersionsOK /\ VersionsCommitInOrder
<1> SUFFICES ASSUME Init PROVE VersionsOK /\ VersionsCommitInOrder
  OBVIOUS
<1>1. versions = {} /\ \A s \in Sessions : pending[s].version = {}
  BY DEF Init, Nothing
<1>2. \A s \in Sessions : xid[s] = 0 /\ 0 < nextXid
  BY DEF Init
<1> QED
  BY <1>1, <1>2 DEF VersionsOK, VersionsCommitInOrder

(* Versions are numbered, take their transaction ids and commit in one     *)
(* order.                                                                  *)
THEOREM VersionsHold == Spec => []VersionInv
<1>1. Init => VersionInv
  BY InitTyped, InitLocks, InitRows, InitVersions DEF VersionInv, RowInv, LockInv
<1> QED
  BY <1>1, NextVersions, PTL DEF Spec

(* Changes may take the newest version a reader has not seen for the       *)
(* newest there is: no later commit is of a version numbered earlier.      *)
THEOREM VersionOrder == Spec => []VersionsCommitInOrder
<1>1. VersionInv => VersionsCommitInOrder
  BY DEF VersionInv
<1> QED
  BY <1>1, VersionsHold, PTL

-----------------------------------------------------------------------------
(* The schema and the tuples. *)

SchemaInv == VersionInv /\ SchemaOK /\ SchemaConform

(* Every tuple the next schema refuses and the last one took matches a     *)
(* filter a probe asks for.                                                *)
LEMMA DroppedCatches ==
  ASSUME NEW prev, NEW next, NEW t \in Tuples,
         checkFilter(prev, FilterOf(t)), ~checkFilter(next, FilterOf(t))
  PROVE  \E f \in dropped(prev, next) : Matches(f, t)
<1> DEFINE r == RelOf[t]
           k == KindOf[t]
           any == [rel |-> r, kind |-> AnyKind]
<1>1. r \in Relations /\ k \in Kinds /\ k # AnyKind
  BY TupleAssumption, KindAssumption
<1>2. prev[r] # {} /\ k \in prev[r]
  BY <1>1 DEF checkFilter, FilterOf
<1>3. next[r] = {} \/ k \notin next[r]
  BY <1>1 DEF checkFilter, FilterOf
<1>4. CASE next[r] = {}
  <2>1. any \in Filters
    BY <1>1 DEF Filters
  <2>2. any \in dropped(prev, next)
    BY <1>2, <1>4, <2>1 DEF dropped
  <2> QED
    BY <2>2 DEF Matches
<1>5. CASE next[r] # {}
  <2>1. FilterOf(t) \in Filters
    BY <1>1 DEF Filters, FilterOf
  <2>2. FilterOf(t) \in dropped(prev, next)
    BY <1>2, <1>3, <1>5, <2>1 DEF dropped, FilterOf
  <2> QED
    BY <2>2 DEF Matches, FilterOf
<1> QED
  BY <1>4, <1>5

(* The newest of versions is the one numbered last. *)
LEMMA NewestIsLast ==
  ASSUME NEW vs, NEW v \in vs, v.version \in Nat,
         \A w \in vs \ {v} : w.version < v.version /\ w.version \in Nat
  PROVE  Newest(vs) = v.schema
<1>1. \A w \in vs : w.version <= v.version
  OBVIOUS
<1>2. \A u \in vs : (\A w \in vs : w.version <= u.version) => u = v
  OBVIOUS
<1>3. (CHOOSE u \in vs : \A w \in vs : w.version <= u.version) = v
  BY <1>1, <1>2
<1> QED
  BY <1>3 DEF Newest

(* What a commit does to the stored tuples and the newest schema.          *)
LEMMA CommitEffect ==
  ASSUME VersionInv, NEW s \in Sessions, Commit(s)
  PROVE  /\ tuples' = (tuples \ pending[s].del) \cup pending[s].ins
         /\ req[s].kind = "write" => latestSchema' = latestSchema
         /\ req[s].kind # "write" => tuples' \subseteq tuples
         /\ req[s].kind # "schema" => latestSchema' = latestSchema
         /\ req[s].kind = "schema" =>
              tuples' = tuples /\ latestSchema' = req[s].schema
<1>1. RowsOf(s) /\ pc[s] = "commit"
  BY DEF VersionInv, RowInv, PendingOK, Commit
<1>2. /\ tuples' = (tuples \ pending[s].del) \cup pending[s].ins
      /\ versions' = versions \cup pending[s].version
  BY DEF Commit
<1>3. req[s].kind # "schema" => versions' = versions
  BY <1>1, <1>2 DEF RowsOf
<1>4. req[s].kind # "write" => pending[s].ins = {}
  BY <1>1 DEF RowsOf
<1>5. req[s].kind = "schema" => pending[s].del = {}
  BY <1>1 DEF RowsOf, Scope
<1>6. ASSUME req[s].kind = "schema"
      PROVE  Newest(versions') = req[s].schema
  <2>1. PICK v \in pending[s].version :
          pending[s].version = {v} /\ v.schema = req[s].schema
    BY <1>1, <1>6 DEF RowsOf
  <2>2. \A w \in versions : w.version < v.version
    BY DEF VersionInv, VersionsCommitInOrder
  <2>3. \A w \in versions \cup {v} : w.version \in Nat
    <3>1. pending[s].version \subseteq Versions /\ versions \subseteq Versions
      BY DEF VersionInv, RowInv, LockInv, TypeInv, TypeOK, Changes
    <3> QED
      BY <2>1, <3>1 DEF Versions
  <2>4. Newest(versions \cup {v}) = v.schema
    BY <2>2, <2>3, NewestIsLast
  <2> QED
    BY <1>2, <2>1, <2>4
<1> QED
  BY <1>2, <1>3, <1>4, <1>5, <1>6 DEF latestSchema

(* While a transaction is past its check, no commit of another takes the   *)
(* ground from under it.                                                   *)
LEMMA OthersStand ==
  ASSUME SchemaInv, NEW s \in Sessions, OthersStay(s),
         Commit(s) \/ UNCHANGED <<tuples, versions>>
  PROVE  \A r \in Sessions \ {s} : CheckStands(r)'
<1> SUFFICES ASSUME NEW r \in Sessions, r # s PROVE CheckStands(r)'
  OBVIOUS
<1>1. CheckStands(r)
  BY DEF SchemaInv, SchemaOK
<1>2. pc'[r] = pc[r] /\ req'[r] = req[r] /\ probes'[r] = probes[r]
  BY DEF OthersStay
<1>3. CASE UNCHANGED <<tuples, versions>>
  BY <1>1, <1>2, <1>3 DEF CheckStands, latestSchema
<1>4. CASE Commit(s)
  <2>1. pc[s] = "commit" /\ pc[s] \in LockedSteps /\ req[s] \in Requests
    BY <1>4, Serving DEF Commit, LockedSteps, Steps, SchemaInv, VersionInv, RowInv, LockInv
  <2>2. ASSUME pc[r] \in {"update", "commit"}, req[r].kind = "write"
        PROVE  latestSchema' = latestSchema
    <3>1. pc[r] \in LockedSteps /\ req[r] \in Requests
      BY <2>2, Serving DEF LockedSteps, Steps, SchemaInv, VersionInv, RowInv, LockInv
    <3>2. req[s].kind # "schema"
      BY <2>1, <2>2, <3>1, LockedApart, SchemaConflicts DEF SchemaInv, VersionInv, RowInv
    <3> QED
      BY <1>4, <3>2, CommitEffect DEF SchemaInv
  <2>3. ASSUME pc[r] \in {"probe", "insert", "commit"}, req[r].kind = "schema"
        PROVE  tuples' \subseteq tuples
    <3>1. pc[r] \in LockedSteps /\ req[r] \in Requests
      BY <2>3, Serving DEF LockedSteps, Steps, SchemaInv, VersionInv, RowInv, LockInv
    <3>2. req[s].kind # "write"
      <4>1. SUFFICES ASSUME req[s].kind = "write" PROVE FALSE
        OBVIOUS
      <4>2. PICK l \in LocksFor(req[r]), m \in LocksFor(req[s]) : Conflicts(l, m)
        BY <2>1, <2>3, <3>1, <4>1, SchemaConflicts
      <4> QED
        BY <2>1, <3>1, <4>2, LockedApart DEF SchemaInv, VersionInv, RowInv
    <3> QED
      BY <1>4, <3>2, CommitEffect DEF SchemaInv
  <2> QED
    BY <1>1, <1>2, <2>2, <2>3 DEF CheckStands
<1> QED
  BY <1>3, <1>4

(* A transaction's own steps check before they rely on it.                 *)
LEMMA OwnStands ==
  ASSUME SchemaInv, NEW s \in Sessions,
         (\E r \in Requests : Begin(s, r)) \/ Acquire(s) \/ Step(s) \/ Fail(s)
  PROVE  CheckStands(s)'
<1> USE DEF SchemaInv, VersionInv, RowInv, LockInv, TypeInv
<1>1. CheckStands(s)
  BY DEF SchemaOK
<1>2. ASSUME End(s) PROVE CheckStands(s)'
  BY <1>2 DEF End, TypeOK, CheckStands
<1>3. CASE (\E r \in Requests : Begin(s, r)) \/ Acquire(s)
  <2>1. pc'[s] \notin {"update", "probe", "insert", "commit"}
    <3>1. CASE \E r \in Requests : Begin(s, r)
      BY <3>1 DEF Begin, FirstStep, TypeOK
    <3>2. CASE Acquire(s)
      <4>1. LockedStep(req[s]) \in {"check", "sweep", "mark"}
        BY <3>2, Serving, RequestTyped DEF LockedStep, Acquire
      <4> QED
        BY <3>2, <4>1 DEF Acquire, Goto, TypeOK
    <3> QED
      BY <1>3, <3>1, <3>2
  <2> QED
    BY <2>1 DEF CheckStands
<1>4. CASE Precheck(s) \/ CheckWrite(s)
  <2>1. CASE End(s)
    BY <1>2, <2>1
  <2>2. CASE Precheck(s) /\ ~End(s)
    <3>1. pc'[s] = "lock"
      BY <2>2 DEF Precheck, Rollback, Goto, TypeOK
    <3> QED
      BY <3>1 DEF CheckStands
  <2>3. CASE CheckWrite(s) /\ ~End(s)
    <3>1. /\ checkUpdates(latestSchema, req[s].updates)
          /\ pc'[s] \in {"update", "commit"} /\ req[s].kind = "write"
      BY <2>3 DEF CheckWrite, Rollback, Goto, Accepted, TypeOK
    <3>2. UNCHANGED <<versions, req>>
      BY <2>3 DEF CheckWrite, Rollback, db
    <3> QED
      BY <3>1, <3>2 DEF CheckStands, latestSchema
  <2> QED
    BY <1>4, <2>1, <2>2, <2>3
<1>5. CASE Update(s)
  <2>1. pc[s] = "update" /\ req[s].kind = "write" /\ UNCHANGED <<versions, req>>
    BY <1>5, NextUpdateTyped DEF Update, db
  <2> QED
    BY <1>1, <2>1 DEF CheckStands, latestSchema
<1>6. CASE Sweep(s)
  <2>1. req[s].kind = "delete" /\ req' = req
    BY <1>6 DEF Sweep, StepOK
  <2> QED
    BY <2>1 DEF CheckStands
<1>7. CASE ReadSchema(s)
  <2>1. /\ req[s].kind = "schema" /\ UNCHANGED <<tuples, req>>
        /\ probes'[s] = IF latestSchema = NoSchema THEN {}
                        ELSE dropped(latestSchema, req[s].schema)
        /\ pc'[s] = IF probes'[s] = {} THEN "insert" ELSE "probe"
    BY <1>7 DEF ReadSchema, Goto, db, TypeOK
  <2>2. ASSUME NEW t \in tuples, ~checkFilter(req[s].schema, FilterOf(t))
        PROVE  \E f \in probes'[s] : Matches(f, t)
    <3>1. t \in Tuples /\ latestSchema # NoSchema /\ checkFilter(latestSchema, FilterOf(t))
      BY DEF SchemaConform, TypeOK
    <3> QED
      BY <2>1, <2>2, <3>1, DroppedCatches
  <2> QED
    BY <2>1, <2>2 DEF CheckStands
<1>8. CASE Probe(s) /\ ~End(s)
  <2>1. PICK f \in probes[s] :
          /\ ~\E t \in tuples : Matches(f, t)
          /\ probes' = [probes EXCEPT ![s] = @ \ {f}]
          /\ Goto(s, IF probes[s] = {f} THEN "insert" ELSE "probe")
          /\ UNCHANGED <<db, req>>
    BY <1>8 DEF Probe, Rollback
  <2>2. /\ pc[s] = "probe" /\ req[s].kind = "schema" /\ UNCHANGED <<tuples, req>>
        /\ probes'[s] = probes[s] \ {f}
        /\ pc'[s] = IF probes[s] = {f} THEN "insert" ELSE "probe"
    BY <1>8, <2>1 DEF Probe, Goto, db, TypeOK, StepOK
  <2> QED
    BY <1>1, <2>1, <2>2 DEF CheckStands
<1>9. CASE InsertVersion(s)
  <2>1. /\ pc[s] = "insert" /\ req[s].kind = "schema" /\ UNCHANGED <<tuples, req>>
        /\ pc'[s] = "commit"
    BY <1>9 DEF InsertVersion, Goto, db, TypeOK, StepOK
  <2> QED
    BY <1>1, <2>1 DEF CheckStands
<1>10. CASE Mark(s) \/ CutLog(s) \/ CutMarks(s)
  <2>1. req[s].kind = "prune" /\ req' = req
    BY <1>10 DEF Mark, CutLog, CutMarks, StepOK
  <2> QED
    BY <2>1 DEF CheckStands
<1>11. CASE Commit(s) \/ Fail(s)
  BY <1>2, <1>11 DEF Commit, Fail, Rollback
<1> QED
  BY <1>2, <1>3, <1>4, <1>5, <1>6, <1>7, <1>8, <1>9, <1>10, <1>11 DEF Step

LEMMA CommitConforms ==
  ASSUME SchemaInv, NEW s \in Sessions, Commit(s)
  PROVE  SchemaConform'
<1> USE DEF SchemaInv, VersionInv, RowInv, LockInv
<1>1. pc[s] = "commit" /\ CheckStands(s) /\ RowsOf(s) /\ req[s] \in Requests
  BY Serving DEF Commit, SchemaOK, PendingOK
<1>2. tuples' = (tuples \ pending[s].del) \cup pending[s].ins
  BY CommitEffect
<1>3. CASE req[s].kind = "write"
  <2>1. checkUpdates(latestSchema, req[s].updates) /\ latestSchema' = latestSchema
    BY <1>1, <1>3, CommitEffect DEF CheckStands
  <2>2. \A t \in pending[s].ins : \E i \in 1..Len(req[s].updates) :
          t = req[s].updates[i].tuple
    BY <1>1, <1>3 DEF RowsOf, Scope
  <2>3. \A t \in pending[s].ins :
          latestSchema # NoSchema /\ checkFilter(latestSchema, FilterOf(t))
    BY <2>1, <2>2 DEF checkUpdates
  <2> QED
    BY <1>2, <2>1, <2>3 DEF SchemaConform
<1>4. CASE req[s].kind = "schema"
  <2>1. tuples' = tuples /\ latestSchema' = req[s].schema
    BY <1>4, CommitEffect
  <2>2. req[s].schema # NoSchema
    BY <1>1, <1>4, RequestTyped, SchemaAssumption
  <2> QED
    BY <1>1, <1>4, <2>1, <2>2 DEF CheckStands, SchemaConform
<1>5. CASE req[s].kind \notin {"write", "schema"}
  <2>1. tuples' \subseteq tuples /\ latestSchema' = latestSchema
    BY <1>5, CommitEffect
  <2> QED
    BY <2>1 DEF SchemaConform
<1> QED
  BY <1>3, <1>4, <1>5

LEMMA NextSchemas == SchemaInv /\ [Next]_vars => SchemaInv'
<1> SUFFICES ASSUME SchemaInv, [Next]_vars PROVE SchemaOK' /\ SchemaConform'
  BY NextVersions DEF SchemaInv
<1>1. ASSUME NEW s \in Sessions,
             (\E r \in Requests : Begin(s, r)) \/ Acquire(s) \/ Step(s) \/ Fail(s)
      PROVE  SchemaOK' /\ SchemaConform'
  <2>1. Commit(s) \/ UNCHANGED <<tuples, versions>>
    BY <1>1 DEF Begin, Acquire, Step, Fail, Precheck, CheckWrite, Update, Sweep,
      ReadSchema, Probe, InsertVersion, Mark, CutLog, CutMarks, Rollback, db
  <2>2. OthersStay(s)
    BY <1>1, OneSessionSteps DEF SchemaInv, VersionInv, RowInv, LockInv
  <2>3. SchemaOK'
    BY <1>1, <2>1, <2>2, OthersStand, OwnStands DEF SchemaOK
  <2>4. SchemaConform'
    BY <2>1, CommitConforms DEF SchemaInv, SchemaConform, latestSchema
  <2> QED
    BY <2>3, <2>4
<1>2. CASE Tick \/ AtBound \/ UNCHANGED vars
  <2>1. UNCHANGED <<tuples, versions, pc, req, probes>>
    BY <1>2 DEF Tick, AtBound, vars, db, work
  <2> QED
    BY <2>1 DEF SchemaInv, SchemaOK, SchemaConform, CheckStands, latestSchema
<1> QED
  BY <1>1, <1>2 DEF Next

LEMMA InitSchemas == Init => SchemaOK /\ SchemaConform
BY DEF Init, SchemaOK, CheckStands, SchemaConform

(* What write.go, delete.go and schema.go checked a request against under  *)
(* its locks still stands at its commit.                                   *)
THEOREM SchemasHold == Spec => []SchemaInv
<1>1. Init => SchemaInv
  BY InitTyped, InitLocks, InitRows, InitVersions, InitSchemas
    DEF SchemaInv, VersionInv, RowInv, LockInv
<1> QED
  BY <1>1, NextSchemas, PTL DEF Spec

(* schema.go: a schema that drops what a stored tuple uses is refused, and *)
(* write.go: a tuple the schema does not take is.  Whatever runs between   *)
(* those checks and their commits, no stored tuple is ever outside the     *)
(* newest schema.                                                          *)
THEOREM StoreConforms == Spec => []SchemaConform
<1>1. SchemaInv => SchemaConform
  BY DEF SchemaInv
<1> QED
  BY <1>1, SchemasHold, PTL

(* What a delete by filter is about to remove is still stored, and so in   *)
(* the newest schema.                                                      *)
LEMMA StaleFilter == SchemaInv => StaleFilterHarmless
<1> SUFFICES ASSUME SchemaInv, NEW s \in Sessions, pc[s] = "commit",
                    req[s].kind = "delete", NEW t \in pending[s].del
             PROVE  Accepted(s)
  BY DEF StaleFilterHarmless
<1>1. RowsOf(s)
  BY DEF SchemaInv, VersionInv, RowInv, PendingOK
<1>2. t \in tuples /\ Matches(req[s].filter, t)
  BY <1>1 DEF RowsOf, Scope
<1>3. latestSchema # NoSchema /\ checkFilter(latestSchema, FilterOf(t))
  BY <1>2 DEF SchemaInv, SchemaConform
<1>4. checkFilter(latestSchema, req[s].filter)
  BY <1>2, <1>3 DEF Matches, checkFilter, FilterOf
<1> QED
  BY <1>3, <1>4 DEF Accepted

(* DeleteMatching never looks at the schema again once it has its locks,   *)
(* and need not.                                                           *)
THEOREM StaleFilterIsHarmless == Spec => []StaleFilterHarmless
<1> QED
  BY SchemasHold, StaleFilter, PTL

-----------------------------------------------------------------------------
(* The abstract store. *)

(* Only the end of a transaction moves the newest ended one, and only a    *)
(* commit the tables.                                                      *)
LEMMA TablesStay ==
  ASSUME NEW s \in Sessions,
         (\E r \in Requests : Begin(s, r)) \/ Acquire(s) \/ Step(s) \/ Fail(s)
  PROVE  /\ End(s) \/ latest' = latest
         /\ Commit(s) \/ UNCHANGED db
<1>1. CASE (\E r \in Requests : Begin(s, r)) \/ Acquire(s)
  BY <1>1 DEF Begin, Acquire, clocks
<1>2. CASE Commit(s) \/ Fail(s)
  BY <1>2 DEF Commit, Fail, Rollback
<1>3. CASE Step(s) /\ ~Commit(s)
  BY <1>3 DEF Step, Precheck, CheckWrite, Update, Sweep, ReadSchema, Probe,
    InsertVersion, Mark, CutLog, CutMarks, Rollback, clocks
<1> QED
  BY <1>1, <1>2, <1>3

(* What a transaction has pending is all that its request has asked for so *)
(* far, in a store whose tuples in its scope have not moved since.         *)
Executed(s) ==
  /\ req[s].kind = "write" /\ pc[s] \in {"update", "commit"} =>
       /\ \A t \in pending[s].ins : \E i \in 1..done[s] :
            req[s].updates[i].op = "touch" /\ req[s].updates[i].tuple = t
       /\ \A t \in pending[s].del : \E i \in 1..done[s] :
            req[s].updates[i].op = "delete" /\ req[s].updates[i].tuple = t
       /\ \A i \in 1..done[s] :
            IF req[s].updates[i].op = "touch"
            THEN req[s].updates[i].tuple \in tuples \cup pending[s].ins
            ELSE req[s].updates[i].tuple \notin tuples \ pending[s].del
       /\ done[s] <= Len(req[s].updates)
       /\ pc[s] = "commit" => done[s] = Len(req[s].updates)
  /\ req[s].kind = "delete" /\ pc[s] = "commit" =>
       \A t \in tuples : Matches(req[s].filter, t) => t \in pending[s].del

AtomicInv == SchemaInv /\ \A s \in Sessions : Executed(s)

LEMMA UpdateExecuted ==
  ASSUME SchemaInv, NEW s \in Sessions, Executed(s), Update(s)
  PROVE  Executed(s)'
<1> USE DEF SchemaInv, VersionInv, RowInv, LockInv
<1> DEFINE u == req[s].updates
           n == done[s] + 1
<1>1. /\ pc[s] = "update" /\ req[s].kind = "write" /\ u \in Seq(Updates)
      /\ done[s] \in Nat /\ n \in 1..Len(u) /\ u[n] \in Updates
  BY NextUpdateTyped DEF Update, TypeInv, TypeOK
<1>2. /\ req' = req /\ tuples' = tuples /\ done'[s] = n
      /\ pc'[s] = IF n = Len(u) THEN "commit" ELSE "update"
  BY DEF Update, db, Goto, TypeInv, TypeOK
<1>3. \/ /\ u[n].op = "touch" /\ pending'[s].del = pending[s].del
         /\ pending'[s].ins = pending[s].ins \cup ({u[n].tuple} \ tuples)
      \/ /\ u[n].op = "delete" /\ pending'[s].ins = pending[s].ins
         /\ pending'[s].del = pending[s].del \cup ({u[n].tuple} \cap tuples)
  <2>1. IF u[n].op = "touch" THEN Touch(s, u[n].tuple) ELSE DeleteRows(s, {u[n].tuple})
    BY DEF Update
  <2>2. u[n].op \in {"touch", "delete"}
    BY <1>1 DEF Updates
  <2> HIDE DEF u, n
  <2> QED
    BY <2>1, <2>2, TouchAdds, DeleteRowsAdds DEF TypeInv
<1>4. \A i \in 1..n : i \in 1..done[s] \/ i = n
  BY <1>1
<1>5. 1..done[s] \subseteq 1..n /\ n \in 1..n
  BY <1>1
<1>6. /\ \A t \in pending[s].ins : \E i \in 1..done[s] : u[i].op = "touch" /\ u[i].tuple = t
      /\ \A t \in pending[s].del : \E i \in 1..done[s] : u[i].op = "delete" /\ u[i].tuple = t
      /\ \A i \in 1..done[s] :
           IF u[i].op = "touch" THEN u[i].tuple \in tuples \cup pending[s].ins
                                ELSE u[i].tuple \notin tuples \ pending[s].del
  BY <1>1 DEF Executed
<1>7. n <= Len(u) /\ (pc'[s] = "commit" => n = Len(u)) /\ req'[s].kind = "write"
  BY <1>1, <1>2
<1>8. u = req'[s].updates
  BY <1>2
<1> HIDE DEF u, n
<1>9. \A t \in pending'[s].ins : \E i \in 1..n : u[i].op = "touch" /\ u[i].tuple = t
  BY <1>3, <1>5, <1>6
<1>10. \A t \in pending'[s].del : \E i \in 1..n : u[i].op = "delete" /\ u[i].tuple = t
  BY <1>3, <1>5, <1>6
<1>11. \A i \in 1..n :
         IF u[i].op = "touch" THEN u[i].tuple \in tuples' \cup pending'[s].ins
                              ELSE u[i].tuple \notin tuples' \ pending'[s].del
  BY <1>2, <1>3, <1>4, <1>6
<1> QED
  BY <1>2, <1>7, <1>8, <1>9, <1>10, <1>11 DEF Executed

LEMMA OwnExecuted ==
  ASSUME SchemaInv, NEW s \in Sessions, Executed(s),
         (\E r \in Requests : Begin(s, r)) \/ Acquire(s) \/ Step(s) \/ Fail(s)
  PROVE  Executed(s)'
<1> USE DEF SchemaInv, VersionInv, RowInv, LockInv, TypeInv
<1>1. ASSUME pc'[s] \notin {"update", "commit"}
      PROVE  Executed(s)'
  BY <1>1 DEF Executed
<1>2. CASE \E r \in Requests : Begin(s, r)
  BY <1>1, <1>2 DEF Begin, FirstStep, TypeOK
<1>3. CASE Acquire(s)
  <2>1. LockedStep(req[s]) \notin {"update", "commit"}
    BY <1>3, Serving, RequestTyped DEF LockedStep, Acquire
  <2> QED
    BY <1>1, <1>3, <2>1 DEF Acquire, Goto, TypeOK
<1>4. CASE End(s)
  BY <1>1, <1>4 DEF End, TypeOK
<1>5. CASE (Precheck(s) \/ ReadSchema(s) \/ Probe(s) \/ Mark(s) \/ CutLog(s)) /\ ~End(s)
  BY <1>1, <1>5 DEF Precheck, ReadSchema, Probe, Mark, CutLog, Rollback, Goto, TypeOK
<1>6. CASE CheckWrite(s) /\ ~End(s)
  <2>1. /\ pc[s] = "check" /\ done[s] = 0 /\ req[s].kind = "write"
        /\ pending[s].ins = {} /\ pending[s].del = {}
        /\ req[s].updates \in Seq(Updates)
    BY <1>6, Serving, RequestTyped DEF CheckWrite, StepOK, PendingOK, RowsOf
  <2>2. /\ UNCHANGED <<req, done, pending, tuples>>
        /\ pc'[s] = "commit" => req[s].updates = <<>>
    BY <1>6 DEF CheckWrite, Rollback, Goto, db, TypeOK
  <2> QED
    BY <2>1, <2>2 DEF Executed
<1>7. CASE Sweep(s)
  <2>1. /\ pending'[s].del = pending[s].del \cup ({t \in Tuples : Matches(req[s].filter, t)} \cap tuples)
        /\ req' = req /\ tuples' = tuples /\ req[s].kind = "delete"
    BY <1>7, DeleteRowsAdds DEF Sweep, db, StepOK
  <2> QED
    BY <2>1 DEF Executed, TypeOK
<1>8. CASE InsertVersion(s) \/ CutMarks(s)
  <2>1. req'[s].kind \in {"schema", "prune"}
    BY <1>8 DEF InsertVersion, CutMarks, StepOK
  <2> QED
    BY <2>1 DEF Executed
<1>9. CASE Commit(s) \/ Fail(s)
  BY <1>4, <1>9 DEF Commit, Fail, Rollback
<1> QED
  BY <1>2, <1>3, <1>4, <1>5, <1>6, <1>7, <1>8, <1>9, UpdateExecuted DEF Step

LEMMA OthersExecuted ==
  ASSUME SchemaInv, NEW s \in Sessions, NEW r \in Sessions, r # s, Executed(r),
         (\E q \in Requests : Begin(s, q)) \/ Acquire(s) \/ Step(s) \/ Fail(s)
  PROVE  Executed(r)'
<1> USE DEF SchemaInv, VersionInv, RowInv, LockInv, TypeInv
<1>1. /\ pc'[r] = pc[r] /\ req'[r] = req[r] /\ pending'[r] = pending[r]
      /\ done'[r] = done[r]
  BY OneSessionSteps DEF OthersStay
<1>2. CASE ~Commit(s)
  <2>1. tuples' = tuples
    BY <1>2, TablesStay DEF db
  <2> QED
    BY <1>1, <2>1 DEF Executed
<1>3. CASE Commit(s) /\ pc[r] \in {"update", "commit"}
  <2>1. Scope(req[s]) \cap Scope(req[r]) = {}
    BY <1>3, ScopesApart DEF Commit, LockedSteps, Steps
  <2>2. pending[s].ins \cup pending[s].del \subseteq Scope(req[s])
    BY DEF PendingOK, RowsOf
  <2>3. \A t \in Scope(req[r]) : t \in tuples' <=> t \in tuples
    BY <1>3, <2>1, <2>2 DEF Commit
  <2>4. CASE req[r].kind = "write"
    <3>1. done[r] \in Nat /\ req[r].updates \in Seq(Updates)
      BY <1>3, <2>4, Serving, RequestTyped DEF TypeOK
    <3>2. \A i \in 1..done[r] : req[r].updates[i].tuple \in Scope(req[r])
      BY <1>3, <2>4, <3>1 DEF Executed, Scope
    <3> QED
      BY <1>1, <2>3, <2>4, <3>2 DEF Executed
  <2>5. CASE req[r].kind = "delete"
    <3>1. \A t \in tuples' : Matches(req[r].filter, t) => t \in Scope(req[r])
      <4>1. tuples' \subseteq Tuples
        BY NextTyped DEF Next, TypeOK
      <4> QED
        BY <2>5, <4>1 DEF Scope
    <3> QED
      BY <1>1, <2>3, <2>5, <3>1 DEF Executed
  <2> QED
    BY <1>1, <2>4, <2>5 DEF Executed
<1>4. CASE pc[r] \notin {"update", "commit"}
  BY <1>1, <1>4 DEF Executed
<1> QED
  BY <1>2, <1>3, <1>4

LEMMA NextAtomic == AtomicInv /\ [Next]_vars => AtomicInv'
<1> SUFFICES ASSUME AtomicInv, [Next]_vars PROVE \A s \in Sessions : Executed(s)'
  BY NextSchemas DEF AtomicInv
<1>1. ASSUME NEW s \in Sessions,
             (\E r \in Requests : Begin(s, r)) \/ Acquire(s) \/ Step(s) \/ Fail(s)
      PROVE  \A r \in Sessions : Executed(r)'
  BY <1>1, OwnExecuted, OthersExecuted DEF AtomicInv
<1>2. CASE Tick \/ AtBound \/ UNCHANGED vars
  <2>1. UNCHANGED <<tuples, pc, req, done, pending>>
    BY <1>2 DEF Tick, AtBound, vars, db, work
  <2> QED
    BY <2>1 DEF AtomicInv, Executed
<1> QED
  BY <1>1, <1>2 DEF Next

LEMMA InitAtomic == Init => AtomicInv
<1> SUFFICES ASSUME Init PROVE AtomicInv
  OBVIOUS
<1>1. SchemaInv
  BY InitTyped, InitLocks, InitRows, InitVersions, InitSchemas
    DEF SchemaInv, VersionInv, RowInv, LockInv
<1>2. \A s \in Sessions : Executed(s)
  BY DEF Init, Executed
<1> QED
  BY <1>1, <1>2 DEF AtomicInv

(* The abstract store reads schemas and filters as the central one does.   *)
LEMMA SameChecks ==
  /\ \A m, f : Abstract!checkFilter(m, f) <=> checkFilter(m, f)
  /\ \A m, u : Abstract!checkUpdates(m, u) <=> checkUpdates(m, u)
  /\ \A f, t : Abstract!Matches(f, t) <=> Matches(f, t)
BY DEF Abstract!checkFilter, checkFilter, Abstract!checkUpdates, checkUpdates,
  Abstract!Matches, Matches, Abstract!FilterOf, FilterOf

(* A commit is the one step of the abstract store that its request is, or  *)
(* changes nothing there.                                                  *)
LEMMA CommitIsAbstract ==
  ASSUME AtomicInv, NEW s \in Sessions, Commit(s)
  PROVE  Abstract!Next \/ UNCHANGED <<tuples, latestSchema>>
<1> USE DEF AtomicInv, SchemaInv, VersionInv, RowInv, LockInv, TypeInv
<1>1. /\ pc[s] = "commit" /\ req[s] \in Requests /\ RowsOf(s) /\ CheckStands(s)
      /\ Executed(s)
  BY Serving DEF Commit, PendingOK, SchemaOK
<1>2. tuples' = (tuples \ pending[s].del) \cup pending[s].ins
  BY CommitEffect
<1>3. CASE req[s].kind = "write"
  <2> DEFINE u == req[s].updates
  <2>1. checkUpdates(latestSchema, u) /\ latestSchema' = latestSchema
    BY <1>1, <1>3, CommitEffect DEF CheckStands
  <2>2. u \in Seq(Updates) /\ done[s] = Len(u)
    BY <1>1, <1>3, RequestTyped DEF Executed
  <2>3. /\ \A t \in pending[s].ins : \E i \in 1..Len(u) : u[i].op = "touch" /\ u[i].tuple = t
        /\ \A t \in pending[s].del : \E i \in 1..Len(u) : u[i].op = "delete" /\ u[i].tuple = t
        /\ \A i \in 1..Len(u) :
             IF u[i].op = "touch" THEN u[i].tuple \in tuples \cup pending[s].ins
                                  ELSE u[i].tuple \notin tuples \ pending[s].del
    BY <1>1, <1>3, <2>2 DEF Executed
  <2>4. \A i, j \in 1..Len(u) : u[i].tuple = u[j].tuple => i = j
    BY <2>1 DEF checkUpdates
  <2>5. /\ \A t : t \in Abstract!Touched(u) <=>
             \E i \in 1..Len(u) : u[i].op = "touch" /\ u[i].tuple = t
        /\ \A t : t \in Abstract!Deleted(u) <=>
             \E i \in 1..Len(u) : u[i].op = "delete" /\ u[i].tuple = t
    BY DEF Abstract!Touched, Abstract!Deleted
  <2>6. tuples' = (tuples \ Abstract!Deleted(u)) \cup Abstract!Touched(u)
    <3> HIDE DEF u
    <3>1. \A t \in Abstract!Touched(u) : t \in tuples'
      BY <1>2, <2>3, <2>4, <2>5
    <3>2. \A t \in Abstract!Deleted(u) \ Abstract!Touched(u) : t \notin tuples'
      BY <1>2, <2>3, <2>5
    <3>3. \A t : t \notin Abstract!Deleted(u) \cup Abstract!Touched(u) =>
            (t \in tuples' <=> t \in tuples)
      BY <1>2, <2>3, <2>5
    <3> QED
      BY <3>1, <3>2, <3>3
  <2>7. Abstract!Write(u)
    BY <2>1, <2>6, SameChecks DEF Abstract!Write
  <2> QED
    BY <1>1, <1>3, <2>7 DEF Abstract!Next
<1>4. CASE req[s].kind = "delete"
  <2>1. latestSchema' = latestSchema /\ pending[s].ins = {}
    BY <1>1, <1>4, CommitEffect DEF RowsOf
  <2>2. CASE pending[s].del = {}
    BY <1>2, <2>1, <2>2
  <2>3. CASE pending[s].del # {}
    <3>1. Accepted(s)
      BY <1>1, <1>4, <2>3, StaleFilter DEF StaleFilterHarmless
    <3>2. latestSchema # NoSchema /\ checkFilter(latestSchema, req[s].filter)
      BY <1>4, <3>1 DEF Accepted
    <3>3. \A t \in pending[s].del : Matches(req[s].filter, t)
      BY <1>1, <1>4 DEF RowsOf, Scope
    <3>4. tuples' = {t \in tuples : ~Matches(req[s].filter, t)}
      BY <1>1, <1>2, <1>4, <2>1, <3>3 DEF Executed
    <3>5. Abstract!DeleteMatching(req[s].filter)
      BY <2>1, <3>2, <3>4, SameChecks DEF Abstract!DeleteMatching
    <3> QED
      BY <1>1, <1>4, <3>5 DEF Abstract!Next
  <2> QED
    BY <2>2, <2>3
<1>5. CASE req[s].kind = "schema"
  <2>1. tuples' = tuples /\ latestSchema' = req[s].schema
    BY <1>5, CommitEffect
  <2>2. \A t \in tuples : checkFilter(req[s].schema, FilterOf(t))
    BY <1>1, <1>5 DEF CheckStands
  <2>3. Abstract!WriteSchema(req[s].schema)
    BY <2>1, <2>2, SameChecks DEF Abstract!WriteSchema, Abstract!Keeps,
      Abstract!FilterOf, FilterOf
  <2> QED
    BY <1>1, <1>5, <2>3 DEF Abstract!Next
<1>6. CASE req[s].kind = "prune"
  <2>1. pending[s].ins = {} /\ pending[s].del = {}
    BY <1>1, <1>6 DEF RowsOf, Scope
  <2> QED
    BY <1>2, <1>6, <2>1, CommitEffect
<1> QED
  BY <1>1, <1>3, <1>4, <1>5, <1>6, RequestTyped

(* Every request is one step of the abstract store, taken at its commit,   *)
(* or none: nobody ever reads a part of a Write, a DeleteMatching or a     *)
(* WriteSchema, and each is decided on the store it changes.               *)
THEOREM RequestsAreAtomic == Spec => Atomic
<1>1. Init => Abstract!Init
  BY DEF Init, Abstract!Init, latestSchema, Newest
<1>2. AtomicInv /\ [Next]_vars => [Abstract!Next]_<<tuples, latestSchema>>
  <2> SUFFICES ASSUME AtomicInv, [Next]_vars
               PROVE  Abstract!Next \/ UNCHANGED <<tuples, latestSchema>>
    OBVIOUS
  <2>1. ASSUME NEW s \in Sessions,
               (\E r \in Requests : Begin(s, r)) \/ Acquire(s) \/ Step(s) \/ Fail(s)
        PROVE  Abstract!Next \/ UNCHANGED <<tuples, latestSchema>>
    BY <2>1, TablesStay, CommitIsAbstract DEF db, latestSchema
  <2>2. CASE Tick \/ AtBound \/ UNCHANGED vars
    BY <2>2 DEF Tick, AtBound, vars, db, latestSchema
  <2> QED
    BY <2>1, <2>2 DEF Next
<1>3. Spec => []AtomicInv
  BY InitAtomic, NextAtomic, PTL DEF Spec
<1> QED
  BY <1>1, <1>2, <1>3, PTL DEF Spec, Atomic, Abstract!Spec

-----------------------------------------------------------------------------
(* The log and its marks. *)

(* An id belongs to one transaction, which has ended when its version is   *)
(* in the store; no two versions share a number.                           *)
XidsOK ==
  /\ latest < nextXid
  /\ \A s, r \in Sessions : s # r /\ xid[s] # 0 => xid[s] # xid[r]
  /\ \A v \in versions : v.xid <= latest /\ \A s \in Sessions : v.xid # xid[s]
  /\ \A v, w \in versions : v.version = w.version => v = w
  /\ \A s \in Sessions : \A v \in pending[s].version : xid[s] # 0 /\ v.xid = xid[s]

(* What a transaction has changed, it has logged as its own. *)
Logged(s) ==
  /\ \A t \in pending[s].ins \cup pending[s].del :
       \E r \in pending[s].rows : r.tuple = t
  /\ \A r \in pending[s].rows : xid[s] # 0 /\ r.xid = xid[s]

MarksOK ==
  /\ marks # {}
  /\ \A m \in marks \cup UNION {pending[s].mark : s \in Sessions} :
       /\ m.xid <= latest + 1
       /\ \A s \in Sessions : xid[s] # 0 => m.xid <= xid[s]

(* The marks there are once s commits. *)
Left(s) == (marks \cup pending[s].mark) \ pending[s].cutMarks

Cutting(s) ==
  /\ pc[s] \notin {"cutLog", "cutMarks", "commit"} \/ req[s].kind # "prune" =>
       pending[s].mark = {}
  /\ pc[s] \notin {"cutMarks", "commit"} \/ req[s].kind # "prune" =>
       pending[s].cutRows = {}
  /\ pc[s] # "commit" \/ req[s].kind # "prune" => pending[s].cutMarks = {}
  /\ pc[s] = "cutMarks" => \A r \in pending[s].cutRows : r.xid < Cut(s)
  /\ pc[s] = "commit" =>
       Left(s) # {} /\ \A r \in pending[s].cutRows, m \in Left(s) : r.xid < m.xid

LogInv ==
  /\ SchemaInv /\ XidsOK /\ MarksOK
  /\ \A s \in Sessions : Logged(s) /\ Cutting(s)

-----------------------------------------------------------------------------
(* Ids. *)

LEMMA StepXids ==
  ASSUME VersionInv, XidsOK, NEW s \in Sessions,
         (\E r \in Requests : Begin(s, r)) \/ Acquire(s) \/ Step(s) \/ Fail(s)
  PROVE  XidsOK'
<1> USE DEF VersionInv, RowInv, LockInv, TypeInv
<1>1. OthersStay(s) /\ nextXid <= nextXid'
  BY OneSessionSteps, IdsGivenOut
<1>2. /\ latest \in Nat /\ nextXid \in Nat
      /\ \A r \in Sessions : xid[r] \in Nat /\ xid[r] < nextXid
      /\ \A v \in versions : v.version \in Nat /\ v.xid \in Nat /\ v.xid # 0
      /\ \A r \in Sessions : \A v \in pending[r].version : v.version \in Nat
  <2>1. \A r \in Sessions : pending[r].version \subseteq Versions
    BY DEF TypeOK, Changes
  <2> QED
    BY <2>1 DEF TypeOK, Xids, Versions, VersionsOK
<1>3. \A v \in versions : \A w \in pending[s].version : v.version < w.version
  BY DEF VersionsCommitInOrder
<1>4. \A v, w \in pending[s].version : v = w
  <2>1. RowsOf(s)
    BY DEF PendingOK
  <2> QED
    BY <2>1 DEF RowsOf
<1>5. CASE End(s)
  <2>1. /\ xid'[s] = 0 /\ pending'[s].version = {}
        /\ latest' \in Nat /\ latest <= latest' /\ xid[s] <= latest'
        /\ latest' < nextXid'
    <3>1. nextXid' = nextXid \/ AssignXid(s)
      BY Numbering
    <3>2. nextXid' \in Nat
      BY <3>1, <1>2, AssignTyped DEF Xids
    <3>3. xid'[s] = 0 /\ pending'[s].version = {}
      BY <1>5 DEF End, TypeOK, Nothing
    <3>4. latest' = IF xid[s] > latest THEN xid[s] ELSE latest
      BY <1>5 DEF End
    <3>5. latest < nextXid
      BY DEF XidsOK
    <3> QED
      BY <1>1, <1>2, <3>2, <3>3, <3>4, <3>5
  <2>2. versions' = versions \/ versions' = versions \cup pending[s].version
    BY TablesStay DEF Commit, db
  <2>3. ASSUME NEW v \in versions'
        PROVE  v.xid <= latest' /\ \A r \in Sessions : v.xid # xid'[r]
    <3>1. CASE v \in versions
      BY <1>1, <1>2, <2>1, <3>1 DEF XidsOK, OthersStay
    <3>2. CASE v \in pending[s].version
      BY <1>1, <1>2, <2>1, <3>2 DEF XidsOK, OthersStay
    <3> QED
      BY <2>2, <2>3, <3>1, <3>2
  <2>4. ASSUME NEW v \in versions', NEW w \in versions', v.version = w.version
        PROVE  v = w
    BY <1>2, <1>3, <1>4, <2>2, <2>4 DEF XidsOK
  <2> QED
    BY <1>1, <1>2, <2>1, <2>3, <2>4 DEF XidsOK, OthersStay
<1>6. CASE ~End(s)
  <2>1. latest' = latest /\ versions' = versions
    BY <1>6, TablesStay DEF Commit, db
  <2>2. \/ nextXid' = nextXid /\ xid'[s] = xid[s]
        \/ xid[s] = 0 /\ xid'[s] = nextXid /\ nextXid' = nextXid + 1
    BY <1>6, Numbering DEF AssignXid, XidOf, TypeOK
  <2>3. ASSUME NEW v \in pending'[s].version
        PROVE  xid'[s] # 0 /\ v.xid = xid'[s]
    <3>1. CASE InsertVersion(s)
      <4>1. v.xid = XidOf(s) /\ xid'[s] = XidOf(s)
        BY <2>3, <3>1, InsertVersionAdds DEF InsertVersion, AssignXid, TypeOK
      <4>2. XidOf(s) # 0
        BY AssignTyped DEF Xids
      <4> QED
        BY <4>1, <4>2
    <3>2. CASE ~InsertVersion(s)
      <4>1. v \in pending[s].version
        BY <1>6, <2>3, <3>2, VersionEffect DEF Commit
      <4> QED
        BY <2>2, <4>1 DEF XidsOK
    <3> QED
      BY <3>1, <3>2
  <2> QED
    BY <1>1, <1>2, <2>1, <2>2, <2>3 DEF XidsOK, OthersStay
<1> QED
  BY <1>5, <1>6

-----------------------------------------------------------------------------
(* The log. *)

(* What the statements that change rows do to the log and the prune parts. *)
Rows(s, ins, del) ==
  /\ AssignXid(s)
  /\ pending'[s].ins = pending[s].ins \cup ins
  /\ pending'[s].del = pending[s].del \cup del
  /\ \A t \in ins \cup del : [xid |-> XidOf(s), tuple |-> t] \in pending'[s].rows
  /\ pending[s].rows \subseteq pending'[s].rows
  /\ \A r \in pending'[s].rows \ pending[s].rows : r.xid = XidOf(s)
  /\ pending'[s].mark = pending[s].mark
  /\ pending'[s].cutRows = pending[s].cutRows
  /\ pending'[s].cutMarks = pending[s].cutMarks

LEMMA TouchLogs ==
  ASSUME TypeOK, NEW s \in Sessions, NEW t, Touch(s, t)
  PROVE  (pending' = pending /\ xid' = xid) \/ Rows(s, {t}, {})
<1>1. CASE t \in tuples
  BY <1>1 DEF Touch
<1>2. CASE t \notin tuples
  <2> DEFINE old == pending[s]
             row == [xid |-> XidOf(s), tuple |-> t]
             new == [old EXCEPT !.ins = @ \cup {t}, !.rows = @ \cup {row}]
  <2>1. old \in Changes
    BY DEF TypeOK
  <2>2. AssignXid(s) /\ pending'[s] = new
    BY <1>2 DEF Touch, TypeOK
  <2>3. row = [xid |-> XidOf(s), tuple |-> t] /\ row.xid = XidOf(s)
    OBVIOUS
  <2>4. /\ new.ins = old.ins \cup {t} /\ new.del = old.del
        /\ new.rows = old.rows \cup {row} /\ new.mark = old.mark
        /\ new.cutRows = old.cutRows /\ new.cutMarks = old.cutMarks
    <3> HIDE DEF old, row
    <3> QED
      BY <2>1 DEF Changes
  <2> HIDE DEF new, row
  <2> QED
    BY <2>2, <2>3, <2>4 DEF Rows
<1> QED
  BY <1>1, <1>2

LEMMA DeleteRowsLogs ==
  ASSUME TypeOK, NEW s \in Sessions, NEW gone, DeleteRows(s, gone)
  PROVE  (pending' = pending /\ xid' = xid) \/ Rows(s, {}, gone \cap tuples)
<1> DEFINE rows == gone \cap tuples
<1>1. CASE rows = {}
  BY <1>1 DEF DeleteRows
<1>2. CASE rows # {}
  <2> DEFINE old == pending[s]
             added == [xid : {XidOf(s)}, tuple : rows]
             new == [old EXCEPT !.del = @ \cup rows, !.rows = @ \cup added]
  <2>1. old \in Changes
    BY DEF TypeOK
  <2>2. AssignXid(s) /\ pending'[s] = new
    BY <1>2 DEF DeleteRows, TypeOK
  <2>3. /\ \A t \in rows : [xid |-> XidOf(s), tuple |-> t] \in added
        /\ \A r \in added : r.xid = XidOf(s)
    OBVIOUS
  <2>4. /\ new.ins = old.ins /\ new.del = old.del \cup rows
        /\ new.rows = old.rows \cup added /\ new.mark = old.mark
        /\ new.cutRows = old.cutRows /\ new.cutMarks = old.cutMarks
    <3> HIDE DEF old, rows, added
    <3> QED
      BY <2>1 DEF Changes
  <2> HIDE DEF new, added, rows
  <2> QED
    BY <2>2, <2>3, <2>4 DEF Rows, rows
<1> QED
  BY <1>1, <1>2

(* Each statement of Prune changes one part of what it has pending. *)
LEMMA MarkParts ==
  ASSUME TypeOK, NEW s \in Sessions, Mark(s)
  PROVE  /\ xid' = xid \/ AssignXid(s)
         /\ pending'[s].rows = pending[s].rows
         /\ \/ pending'[s].mark = pending[s].mark
            \/ pending'[s].mark = {[xid |-> OldestRunning, at |-> start[s]]}
         /\ pending'[s].cutRows = pending[s].cutRows
         /\ pending'[s].cutMarks = pending[s].cutMarks
<1> DEFINE m == [xid |-> OldestRunning, at |-> start[s]]
<1>1. \/ xid' = xid /\ pending' = pending
      \/ AssignXid(s) /\ pending' = [pending EXCEPT ![s].mark = {m}]
  BY DEF Mark
<1> SUFFICES
      /\ pending'[s].rows = pending[s].rows
      /\ pending'[s].mark = pending[s].mark \/ pending'[s].mark = {m}
      /\ pending'[s].cutRows = pending[s].cutRows
      /\ pending'[s].cutMarks = pending[s].cutMarks
  BY <1>1
<1> HIDE DEF m
<1> QED
  BY <1>1 DEF TypeOK, Changes

LEMMA CutLogParts ==
  ASSUME TypeOK, NEW s \in Sessions, CutLog(s), pending[s].cutRows = {}
  PROVE  /\ xid' = xid \/ AssignXid(s)
         /\ pending'[s].rows = pending[s].rows
         /\ pending'[s].mark = pending[s].mark
         /\ pending'[s].cutRows = LoggedBeforeCut(s)
         /\ pending'[s].cutMarks = pending[s].cutMarks
<1> DEFINE cl == LoggedBeforeCut(s)
<1>1. IF cl = {} THEN xid' = xid /\ pending' = pending
      ELSE AssignXid(s) /\ pending' = [pending EXCEPT ![s].cutRows = cl]
  BY DEF CutLog
<1> HIDE DEF cl
<1>2. /\ xid' = xid \/ AssignXid(s)
      /\ pending'[s].rows = pending[s].rows
      /\ pending'[s].mark = pending[s].mark
      /\ pending'[s].cutRows = cl
      /\ pending'[s].cutMarks = pending[s].cutMarks
  <2>1. CASE cl = {}
    BY <1>1, <2>1
  <2>2. CASE cl # {}
    <3>1. pending' = [pending EXCEPT ![s].cutRows = cl] /\ AssignXid(s)
      BY <1>1, <2>2
    <3> QED
      BY <3>1 DEF TypeOK, Changes
  <2> QED
    BY <2>1, <2>2
<1> QED
  BY <1>2 DEF cl

LEMMA CutMarksParts ==
  ASSUME TypeOK, NEW s \in Sessions, CutMarks(s), pending[s].cutMarks = {}
  PROVE  /\ xid' = xid \/ AssignXid(s)
         /\ pending'[s].rows = pending[s].rows
         /\ pending'[s].mark = pending[s].mark
         /\ pending'[s].cutRows = pending[s].cutRows
         /\ pending'[s].cutMarks = MarkedBeforeCut(s)
<1> DEFINE cm == MarkedBeforeCut(s)
<1>1. IF cm = {} THEN xid' = xid /\ pending' = pending
      ELSE AssignXid(s) /\ pending' = [pending EXCEPT ![s].cutMarks = cm]
  BY DEF CutMarks
<1> HIDE DEF cm
<1>2. /\ xid' = xid \/ AssignXid(s)
      /\ pending'[s].rows = pending[s].rows
      /\ pending'[s].mark = pending[s].mark
      /\ pending'[s].cutRows = pending[s].cutRows
      /\ pending'[s].cutMarks = cm
  <2>1. CASE cm = {}
    BY <1>1, <2>1
  <2>2. CASE cm # {}
    <3>1. pending' = [pending EXCEPT ![s].cutMarks = cm] /\ AssignXid(s)
      BY <1>1, <2>2
    <3> QED
      BY <3>1 DEF TypeOK, Changes
  <2> QED
    BY <2>1, <2>2
<1> QED
  BY <1>2 DEF cm

LEMMA InsertVersionParts ==
  ASSUME TypeOK, NEW s \in Sessions, InsertVersion(s)
  PROVE  /\ pending'[s].rows = pending[s].rows
         /\ pending'[s].mark = pending[s].mark
         /\ pending'[s].cutRows = pending[s].cutRows
         /\ pending'[s].cutMarks = pending[s].cutMarks
<1> DEFINE v == [version |-> nextVersion, xid |-> XidOf(s), schema |-> req[s].schema]
<1>1. pending' = [pending EXCEPT ![s].version = {v}]
  BY DEF InsertVersion
<1> HIDE DEF v
<1> QED
  BY <1>1 DEF TypeOK, Changes

(* The four things a step may do to its transaction's changes. *)
LEMMA StepParts ==
  ASSUME TypeInv, NEW s \in Sessions,
         (\E r \in Requests : Begin(s, r)) \/ Acquire(s) \/ Step(s) \/ Fail(s)
  PROVE  \/ pending'[s] = pending[s] /\ xid'[s] = xid[s] /\ ~End(s)
         \/ \E ins, del : Rows(s, ins, del)
         \/ InsertVersion(s)
         \/ Mark(s) \/ CutLog(s) \/ CutMarks(s)
         \/ End(s)
<1>1. CASE (\E r \in Requests : Begin(s, r)) \/ Acquire(s)
  <2>1. pc'[s] # "idle"
    <3>1. CASE \E r \in Requests : Begin(s, r)
      BY <3>1 DEF Begin, FirstStep, TypeInv, TypeOK
    <3>2. CASE Acquire(s)
      <4>1. LockedStep(req[s]) # "idle"
        BY <3>2, Serving, RequestTyped DEF LockedStep, Acquire
      <4> QED
        BY <3>2, <4>1 DEF Acquire, Goto, TypeInv, TypeOK
    <3> QED
      BY <1>1, <3>1, <3>2
  <2> QED
    BY <1>1, <2>1 DEF Begin, Acquire, End, TypeInv, TypeOK
<1>2. CASE Precheck(s) \/ CheckWrite(s) \/ ReadSchema(s) \/ Probe(s)
  BY <1>2 DEF Precheck, CheckWrite, ReadSchema, Probe, Rollback
<1>3. CASE Update(s) \/ Sweep(s)
  <2>1. (pending' = pending /\ xid' = xid) \/ \E ins, del : Rows(s, ins, del)
    BY <1>3, TouchLogs, DeleteRowsLogs DEF Update, Sweep, TypeInv
  <2>2. pc'[s] # "idle"
    BY <1>3 DEF Update, Sweep, Goto, TypeInv, TypeOK
  <2>3. ~End(s)
    BY <2>2 DEF End, TypeInv, TypeOK
  <2> QED
    BY <2>1, <2>3
<1>4. CASE Commit(s) \/ Fail(s)
  BY <1>4 DEF Commit, Fail, Rollback
<1> QED
  BY <1>1, <1>2, <1>3, <1>4 DEF Step

LEMMA StepLogged ==
  ASSUME TypeInv, NEW s \in Sessions,
         \A r \in Sessions : Logged(r) /\ Cutting(r),
         (\E r \in Requests : Begin(s, r)) \/ Acquire(s) \/ Step(s) \/ Fail(s)
  PROVE  \A r \in Sessions : Logged(r)'
<1>1. OthersStay(s) /\ Logged(s)
  BY OneSessionSteps
<1> SUFFICES Logged(s)'
  <2>1. \A r \in Sessions \ {s} : Logged(r)'
    BY <1>1 DEF OthersStay, Logged
  <2> QED
    BY <2>1
<1>2. ASSUME pending'[s].ins = pending[s].ins, pending'[s].del = pending[s].del,
             pending'[s].rows = pending[s].rows, xid[s] # 0 => xid'[s] = xid[s]
      PROVE  Logged(s)'
  BY <1>1, <1>2 DEF Logged
<1>3. /\ XidOf(s) # 0 /\ (xid[s] # 0 => XidOf(s) = xid[s])
      /\ AssignXid(s) => xid'[s] = XidOf(s)
  BY AssignTyped DEF AssignXid, XidOf, TypeInv, TypeOK, Xids
<1>4. ASSUME NEW ins, NEW del, Rows(s, ins, del)
      PROVE  Logged(s)'
  <2>1. ASSUME NEW t \in ins \cup del
        PROVE  \E r \in pending'[s].rows : r.tuple = t
    <3>1. [xid |-> XidOf(s), tuple |-> t] \in pending'[s].rows
      BY <1>4 DEF Rows
    <3> QED
      BY <3>1
  <2>2. \A r \in pending'[s].rows : r \in pending[s].rows \/ r.xid = XidOf(s)
    BY <1>4 DEF Rows
  <2>3. /\ pending'[s].ins = pending[s].ins \cup ins
        /\ pending'[s].del = pending[s].del \cup del
        /\ pending[s].rows \subseteq pending'[s].rows
        /\ xid'[s] = XidOf(s)
    BY <1>3, <1>4 DEF Rows
  <2> QED
    BY <1>1, <1>3, <2>1, <2>2, <2>3 DEF Logged
<1>5. CASE InsertVersion(s)
  BY <1>2, <1>3, <1>5, InsertVersionAdds, InsertVersionParts DEF InsertVersion, TypeInv
<1>6. CASE Mark(s) \/ CutLog(s) \/ CutMarks(s)
  <2>1. /\ pending'[s].rows = pending[s].rows
        /\ xid' = xid \/ AssignXid(s)
    BY <1>6, MarkParts, CutLogParts, CutMarksParts DEF CutLog, CutMarks, Cutting, TypeInv
  <2> QED
    BY <1>2, <1>3, <1>6, <2>1, PruneAdds DEF TypeInv
<1>7. CASE End(s)
  <2>1. pending'[s] = Nothing
    BY <1>7 DEF End, TypeInv, TypeOK
  <2> QED
    BY <2>1 DEF Logged, Nothing
<1> QED
  BY <1>2, <1>4, <1>5, <1>6, <1>7, StepParts

-----------------------------------------------------------------------------
(* The marks and the cut. *)

(* A bounded set of naturals has a greatest member. *)
LEMMA Greatest ==
  ASSUME NEW S \in SUBSET Nat, S # {}, NEW bound \in Nat, \A n \in S : n <= bound
  PROVE  \E m \in S : \A n \in S : n <= m
<1> DEFINE gaps == {n \in Nat : \E m \in S : n = bound - m}
<1>1. \A m \in S : bound - m \in gaps
  OBVIOUS
<1>2. gaps \in SUBSET Nat /\ gaps # {}
  BY <1>1
<1>3. Least(gaps) \in gaps /\ \A n \in gaps : Least(gaps) <= n
  <2> HIDE DEF gaps
  <2> QED
    BY <1>2, LeastIsLeast
<1>4. PICK m \in S : Least(gaps) = bound - m
  BY <1>3
<1>5. \A n \in S : bound - m <= bound - n
  BY <1>1, <1>3, <1>4
<1> QED
  BY <1>5

(* A cut is of a mark there is, which the cut spares. *)
LEMMA CutFound ==
  ASSUME TypeOK, MarksOK, NEW s \in Sessions
  PROVE  Cut(s) \in Nat /\ \E m \in marks \cup pending[s].mark : m.xid >= Cut(s)
<1> DEFINE all == marks \cup pending[s].mark
           old == {m \in all : m.at = Epoch \/ m.at <= start[s] - req[s].keep}
           newest == CHOOSE m \in old : \A n \in old : n.xid <= m.xid
<1>1. all # {} /\ \A m \in all : m.xid \in Nat /\ m.xid <= latest + 1 /\ latest \in Nat
  BY DEF MarksOK, TypeOK, Changes, Marks
<1>2. Cut(s) = IF old = {} THEN 0 ELSE newest.xid
  BY DEF Cut
<1>3. old \subseteq all
  OBVIOUS
<1> HIDE DEF all, old
<1>4. CASE old = {}
  BY <1>1, <1>2, <1>4 DEF all
<1>5. CASE old # {}
  <2> DEFINE ids == {m.xid : m \in old}
  <2>1. ids \in SUBSET Nat /\ ids # {} /\ latest + 1 \in Nat /\ \A n \in ids : n <= latest + 1
    BY <1>1, <1>3, <1>5
  <2>2. PICK n \in ids : \A k \in ids : k <= n
    <3> HIDE DEF ids
    <3> QED
      BY <2>1, Greatest
  <2>3. \E m \in old : \A k \in old : k.xid <= m.xid
    BY <2>2
  <2>4. newest \in old
    BY <2>3
  <2> HIDE DEF newest
  <2> QED
    BY <1>1, <1>2, <1>3, <1>5, <2>4 DEF all
<1> QED
  BY <1>4, <1>5

(* What the current snapshot says of the transactions that run. *)
LEMMA CurrentBounds ==
  ASSUME TypeOK
  PROVE  /\ Current.xmin \in Xids /\ Current.xmax = latest + 1
         /\ Current.xip = {x \in Active : x <= latest}
         /\ Current.xmin <= Current.xmax
         /\ \A s \in Sessions : xid[s] # 0 => Current.xmin <= xid[s]
         /\ Current.xmin = latest + 1
            \/ \E s \in Sessions : xid[s] # 0 /\ Current.xmin = xid[s]
<1>1. Active \in SUBSET Xids /\ Current \in Snapshots /\ latest \in Nat
  BY CurrentTyped DEF TypeOK
<1>2. Current.xmax = latest + 1
  BY <1>1, SnapshotBounds DEF Current
<1>3. Current.xip = {x \in Active : x <= latest}
  BY DEF Current, TakeSnapshot
<1>4. Current.xmin <= Current.xmax /\ \A x \in Active : Current.xmin <= x
  BY <1>1, SnapshotBounds DEF Current
<1>5. Current.xmin \in Current.xip \cup {Current.xmax}
  BY <1>1, SnapshotBounds DEF Current
<1>6. \A s \in Sessions : xid[s] # 0 => xid[s] \in Active
  BY DEF Active
<1>7. \A x \in Active : \E s \in Sessions : xid[s] # 0 /\ x = xid[s]
  BY DEF Active
<1>8. Current.xmin \in Xids
  BY <1>1 DEF Snapshots
<1> QED
  BY <1>2, <1>3, <1>4, <1>5, <1>6, <1>7, <1>8

(* No mark is past the oldest transaction still running. *)
LEMMA MarksBehind ==
  ASSUME TypeOK, MarksOK
  PROVE  /\ Current.xmin \in Nat /\ Current.xmin <= latest + 1
         /\ \A s \in Sessions : xid[s] # 0 => Current.xmin <= xid[s]
         /\ \A m \in marks \cup UNION {pending[s].mark : s \in Sessions} :
              m.xid <= Current.xmin
BY CurrentBounds DEF MarksOK, Xids

(* Only Mark adds a mark to those a transaction has pending. *)
LEMMA MarkAdds ==
  ASSUME TypeInv, NEW s \in Sessions, Cutting(s),
         (\E r \in Requests : Begin(s, r)) \/ Acquire(s) \/ Step(s) \/ Fail(s)
  PROVE  \A m \in pending'[s].mark : m \in pending[s].mark \/ m.xid = Current.xmin
<1>1. CASE End(s)
  BY <1>1 DEF End, Nothing, TypeInv, TypeOK
<1>2. CASE \E ins, del : Rows(s, ins, del)
  BY <1>2 DEF Rows
<1>3. CASE InsertVersion(s)
  BY <1>3, InsertVersionParts DEF TypeInv
<1>4. CASE Mark(s)
  BY <1>4, MarkParts DEF TypeInv, OldestRunning
<1>5. CASE CutLog(s) \/ CutMarks(s)
  BY <1>5, CutLogParts, CutMarksParts DEF TypeInv, CutLog, CutMarks, Cutting
<1> QED
  BY <1>1, <1>2, <1>3, <1>4, <1>5, StepParts

(* Ids and marks only move forward. *)
LEMMA Forward ==
  ASSUME LogInv, NEW s \in Sessions,
         (\E r \in Requests : Begin(s, r)) \/ Acquire(s) \/ Step(s) \/ Fail(s)
  PROVE  /\ latest' \in Nat /\ latest <= latest' /\ latest < nextXid
         /\ \A r \in Sessions : xid'[r] \in {0, xid[r], nextXid}
         /\ \A m \in marks' \cup UNION {pending'[r].mark : r \in Sessions} :
              \/ m \in marks \cup UNION {pending[r].mark : r \in Sessions}
              \/ m.xid = Current.xmin
<1> USE DEF LogInv, SchemaInv, VersionInv, RowInv, LockInv, TypeInv
<1>1. OthersStay(s)
  BY OneSessionSteps
<1>2. latest \in Nat /\ latest < nextXid /\ \A r \in Sessions : xid[r] \in Nat
  BY DEF TypeOK, XidsOK
<1>3. latest' \in Nat /\ latest <= latest'
  BY <1>2, TablesStay DEF End
<1>4. \A r \in Sessions : xid'[r] \in {0, xid[r], nextXid}
  <2>1. xid'[s] \in {0, xid[s], nextXid}
    BY Numbering DEF AssignXid, XidOf, End, TypeOK
  <2> QED
    BY <1>1, <2>1 DEF OthersStay
<1>5. marks' \subseteq marks \cup pending[s].mark
  BY TablesStay DEF Commit, db
<1>6. \A m \in UNION {pending'[r].mark : r \in Sessions} :
        m \in UNION {pending[r].mark : r \in Sessions} \/ m.xid = Current.xmin
  BY <1>1, MarkAdds DEF OthersStay
<1> QED
  BY <1>2, <1>3, <1>4, <1>5, <1>6

LEMMA StepMarks ==
  ASSUME LogInv, NEW s \in Sessions,
         (\E r \in Requests : Begin(s, r)) \/ Acquire(s) \/ Step(s) \/ Fail(s)
  PROVE  MarksOK'
<1> USE DEF LogInv, SchemaInv, VersionInv, RowInv, LockInv, TypeInv
<1> DEFINE all == marks \cup UNION {pending[r].mark : r \in Sessions}
<1>1. /\ latest \in Nat /\ nextXid \in Nat
      /\ \A r \in Sessions : xid[r] \in Nat
      /\ \A m \in all : m.xid \in Nat
  <2>1. \A r \in Sessions : pending[r].mark \subseteq Marks
    BY DEF TypeOK, Changes
  <2> QED
    BY <2>1 DEF TypeOK, Xids, Marks
<1>2. ASSUME NEW n \in Nat, n <= latest + 1, \A r \in Sessions : xid[r] # 0 => n <= xid[r]
      PROVE  n <= latest' + 1 /\ \A r \in Sessions : xid'[r] # 0 => n <= xid'[r]
  BY <1>1, <1>2, Forward
<1>3. marks' # {}
  BY TablesStay DEF Commit, db, Cutting, Left, MarksOK
<1>4. \A m \in marks' \cup UNION {pending'[r].mark : r \in Sessions} :
        /\ m.xid \in Nat /\ m.xid <= latest + 1
        /\ \A r \in Sessions : xid[r] # 0 => m.xid <= xid[r]
  BY <1>1, Forward, MarksBehind DEF MarksOK
<1> QED
  BY <1>2, <1>3, <1>4 DEF MarksOK

(* At most one Prune is past its lock. *)
LEMMA OnePrune ==
  ASSUME LockInv, NEW s \in Sessions, NEW r \in Sessions, s # r,
         pc[s] \in LockedSteps, pc[r] \in LockedSteps, req[s].kind = "prune"
  PROVE  req[r].kind # "prune"
<1> SUFFICES ASSUME req[r].kind = "prune" PROVE FALSE
  OBVIOUS
<1>1. LocksFor(req[s]) = {lock("prune", TRUE)} /\ LocksFor(req[r]) = {lock("prune", TRUE)}
  BY DEF LocksFor
<1>2. Conflicts(lock("prune", TRUE), lock("prune", TRUE))
  BY DEF Conflicts, lock
<1> QED
  BY <1>1, <1>2, LockedApart

LEMMA PlainCutting ==
  ASSUME NEW s \in Sessions, marks' # {}, pending'[s].mark = {},
         pending'[s].cutRows = {}, pending'[s].cutMarks = {}
  PROVE  Cutting(s)'
BY DEF Cutting, Left

LEMMA OwnCutting ==
  ASSUME LogInv, NEW s \in Sessions,
         (\E r \in Requests : Begin(s, r)) \/ Acquire(s) \/ Step(s) \/ Fail(s)
  PROVE  Cutting(s)'
<1> USE DEF LogInv, SchemaInv, VersionInv, RowInv, LockInv, TypeInv
<1>1. marks' # {} /\ Cutting(s)
  BY StepMarks DEF MarksOK
<1>2. CASE End(s)
  <2>1. pending'[s] = Nothing
    BY <1>2 DEF End, TypeOK
  <2> QED
    BY <1>1, <2>1, PlainCutting DEF Nothing
<1>3. CASE /\ ~End(s) /\ ~Mark(s) /\ ~CutLog(s) /\ ~CutMarks(s)
  <2>1. /\ pending'[s].mark = pending[s].mark
        /\ pending'[s].cutRows = pending[s].cutRows
        /\ pending'[s].cutMarks = pending[s].cutMarks
    BY <1>3, StepParts, InsertVersionParts DEF Rows
  <2>2. pc[s] \notin {"cutLog", "cutMarks", "commit"} \/ req[s].kind # "prune"
    BY <1>3 DEF Begin, Acquire, Step, Fail, Precheck, CheckWrite, Update, Sweep,
      ReadSchema, Probe, InsertVersion, Commit, Rollback
  <2> QED
    BY <1>1, <2>1, <2>2, PlainCutting DEF Cutting
<1>4. CASE Mark(s)
  <2>1. /\ pending'[s].cutRows = {} /\ pending'[s].cutMarks = {}
        /\ pc'[s] = "cutLog" /\ req'[s].kind = "prune"
    BY <1>1, <1>4, MarkParts DEF Mark, Goto, Cutting, TypeOK, StepOK
  <2> QED
    BY <2>1 DEF Cutting
<1>5. CASE CutLog(s)
  <2>1. pending[s].cutRows = {} /\ pending[s].cutMarks = {}
    BY <1>1, <1>5 DEF CutLog, Cutting
  <2>2. /\ pending'[s].mark = pending[s].mark
        /\ pending'[s].cutRows = LoggedBeforeCut(s) /\ pending'[s].cutMarks = {}
        /\ pc'[s] = "cutMarks" /\ req'[s].kind = "prune"
    BY <1>5, <2>1, CutLogParts DEF CutLog, Goto, TypeOK, StepOK
  <2>3. Cut(s)' = Cut(s)
    BY <1>5, <2>2 DEF CutLog, Cut, db
  <2> QED
    BY <2>2, <2>3 DEF Cutting, LoggedBeforeCut
<1>6. CASE CutMarks(s)
  <2>1. pending[s].cutMarks = {} /\ \A r \in pending[s].cutRows : r.xid < Cut(s)
    BY <1>1, <1>6 DEF CutMarks, Cutting
  <2>2. /\ pending'[s].mark = pending[s].mark
        /\ pending'[s].cutRows = pending[s].cutRows
        /\ pending'[s].cutMarks = MarkedBeforeCut(s)
        /\ pc'[s] = "commit" /\ req'[s].kind = "prune" /\ marks' = marks
    BY <1>6, <2>1, CutMarksParts DEF CutMarks, Goto, TypeOK, StepOK, db
  <2>3. /\ Cut(s) \in Nat
        /\ \A m \in marks \cup pending[s].mark : m.xid \in Nat
        /\ \A r \in pending[s].cutRows : r.xid \in Nat
    BY CutFound DEF TypeOK, Changes, Marks, LogRows, Xids
  <2>4. Left(s)' = {m \in marks \cup pending[s].mark : ~(m.xid < Cut(s))}
    BY <2>2 DEF Left, MarkedBeforeCut
  <2>5. Left(s)' # {} /\ \A r \in pending[s].cutRows, m \in Left(s)' : r.xid < m.xid
    BY <2>1, <2>3, <2>4, CutFound
  <2> QED
    BY <2>2, <2>5 DEF Cutting
<1> QED
  BY <1>2, <1>3, <1>4, <1>5, <1>6

(* What a Prune is about to cut stands: no other changes the marks.        *)
LEMMA OthersCutting ==
  ASSUME LogInv, NEW s \in Sessions, NEW r \in Sessions, r # s,
         (\E q \in Requests : Begin(s, q)) \/ Acquire(s) \/ Step(s) \/ Fail(s)
  PROVE  Cutting(r)'
<1> USE DEF LogInv, SchemaInv, VersionInv, RowInv, LockInv, TypeInv
<1>1. /\ pc'[r] = pc[r] /\ req'[r] = req[r] /\ pending'[r] = pending[r]
      /\ marks' # {} /\ Cutting(r)
  BY OneSessionSteps, StepMarks DEF OthersStay, MarksOK
<1>2. start'[r] = start[r]
  BY DEF Begin, Acquire, Step, Fail, Precheck, CheckWrite, Update, Sweep,
    ReadSchema, Probe, InsertVersion, Mark, CutLog, CutMarks, Commit, Rollback, End, TypeOK
<1>3. CASE marks' = marks
  <2>1. Cut(r)' = Cut(r) /\ Left(r)' = Left(r)
    BY <1>1, <1>2, <1>3 DEF Cut, Left
  <2> QED
    BY <1>1, <2>1 DEF Cutting
<1>4. CASE marks' # marks
  <2>1. Commit(s)
    BY <1>4, TablesStay DEF db
  <2>2. req[s].kind = "prune" /\ pc[s] \in LockedSteps
    BY <1>4, <2>1 DEF Commit, Cutting, LockedSteps, Steps
  <2>3. pc[r] \notin LockedSteps \/ req[r].kind # "prune"
    BY <2>2, OnePrune
  <2>4. pending[r].mark = {} /\ pending[r].cutRows = {} /\ pending[r].cutMarks = {}
    BY <1>1, <2>3 DEF Cutting, LockedSteps, Steps
  <2> QED
    BY <1>1, <2>4, PlainCutting
<1> QED
  BY <1>3, <1>4

LEMMA NextLog == LogInv /\ [Next]_vars => LogInv'
<1> SUFFICES ASSUME LogInv, [Next]_vars
             PROVE  XidsOK' /\ MarksOK' /\ \A s \in Sessions : Logged(s)' /\ Cutting(s)'
  BY NextSchemas DEF LogInv
<1>1. ASSUME NEW s \in Sessions,
             (\E r \in Requests : Begin(s, r)) \/ Acquire(s) \/ Step(s) \/ Fail(s)
      PROVE  XidsOK' /\ MarksOK' /\ \A r \in Sessions : Logged(r)' /\ Cutting(r)'
  <2>1. XidsOK' /\ MarksOK'
    BY <1>1, StepXids, StepMarks DEF LogInv, SchemaInv
  <2>2. \A r \in Sessions : Logged(r)'
    BY <1>1, StepLogged DEF LogInv, SchemaInv, VersionInv, RowInv, LockInv
  <2>3. \A r \in Sessions : Cutting(r)'
    BY <1>1, OwnCutting, OthersCutting
  <2> QED
    BY <2>1, <2>2, <2>3
<1>2. CASE Tick \/ AtBound \/ UNCHANGED vars
  <2>1. UNCHANGED <<versions, marks, log, nextXid, latest, pc, req, xid, start, pending>>
    BY <1>2 DEF Tick, AtBound, vars, db, work
  <2> QED
    BY <2>1 DEF LogInv, XidsOK, MarksOK, Logged, Cutting, Left, Cut
<1> QED
  BY <1>1, <1>2 DEF Next

LEMMA InitLog == Init => LogInv
<1> SUFFICES ASSUME Init PROVE LogInv
  OBVIOUS
<1>1. SchemaInv
  BY InitTyped, InitLocks, InitRows, InitVersions, InitSchemas
    DEF SchemaInv, VersionInv, RowInv, LockInv
<1>2. /\ versions = {} /\ latest = 0 /\ nextXid = 1
      /\ marks = {[xid |-> 0, at |-> Epoch]}
      /\ \A s \in Sessions : xid[s] = 0 /\ pc[s] = "idle" /\ pending[s] = Nothing
  BY DEF Init
<1>3. XidsOK
  BY <1>2 DEF XidsOK, Nothing
<1>4. MarksOK
  BY <1>2 DEF MarksOK, Nothing
<1>5. \A s \in Sessions : Logged(s) /\ Cutting(s)
  BY <1>2 DEF Logged, Cutting, Nothing
<1> QED
  BY <1>1, <1>3, <1>4, <1>5 DEF LogInv

(* The log holds every change of a transaction it keeps, and Prune cuts    *)
(* only what is older than every transaction still running and than every  *)
(* mark it leaves.                                                         *)
THEOREM LogHolds == Spec => []LogInv
<1> QED
  BY InitLog, NextLog, PTL DEF Spec

-----------------------------------------------------------------------------
(* Followers. *)

(* A follower leaves the store alone. *)
LEMMA StoreSteps == [FeedNext]_feedVars => [Next]_vars
BY DEF FeedNext, feedVars, Ask, Answer, CallSnapshot, CallChanges, startOver,
  advance, AnswerPruned, LoseAnswer

(* So all that is proved of the store alone holds beside followers.        *)
LEMMA StoreRuns == FeedSpec => Spec
<1>1. FeedInit => Init
  BY DEF FeedInit
<1> QED
  BY <1>1, StoreSteps, PTL DEF FeedSpec, Spec

-----------------------------------------------------------------------------
(* What the store knows of a revision. *)

AllMarks == marks \cup UNION {pending[s].mark : s \in Sessions}

(* No transaction that runs, or is yet to, is one R has seen or looks past. *)
Precedes(R) ==
  /\ R.xmin \in Nat /\ R.xmax \in Nat /\ R.xmin <= R.xmax /\ R.xmax <= latest + 1
  /\ \A s \in Sessions :
       xid[s] # 0 => R.xmin <= xid[s] /\ ~Visible(xid[s], R)

(* Whoever held these tuples at R can learn what has changed since. *)
Tracked(R, held) ==
  \/ \A m \in AllMarks : R.xmin < m.xid
  \/ \A t \in Tuples : (t \in tuples) # (t \in held) =>
       \E l \in log : l.tuple = t /\ R.xmin <= l.xid /\ ~Visible(l.xid, R)

Seen(vs, R) == {w \in vs : Visible(w.xid, R)}

(* The schemas written since R are numbered after those it has seen. *)
InOrder(vs, R) ==
  \A v, w \in vs : Visible(v.xid, R) /\ ~Visible(w.xid, R) => v.version < w.version

Knows(R, held, schema) ==
  /\ Precedes(R)
  /\ Tracked(R, held)
  /\ schema = Newest(Seen(versions, R))
  /\ InOrder(versions, R)

LEMMA PrecedesKept ==
  ASSUME LogInv, NEW s \in Sessions,
         (\E r \in Requests : Begin(s, r)) \/ Acquire(s) \/ Step(s) \/ Fail(s),
         NEW R, Precedes(R)
  PROVE  /\ R.xmax <= latest' + 1
         /\ \A r \in Sessions :
              xid'[r] # 0 => R.xmin <= xid'[r] /\ ~Visible(xid'[r], R)
<1>1. /\ latest' \in Nat /\ latest \in Nat /\ latest <= latest' /\ latest < nextXid
      /\ nextXid \in Nat
      /\ \A r \in Sessions : xid'[r] \in {0, xid[r], nextXid}
  BY Forward DEF LogInv, SchemaInv, VersionInv, RowInv, LockInv, TypeInv, TypeOK, Xids
<1>2. R.xmin <= nextXid /\ ~Visible(nextXid, R)
  BY <1>1 DEF Precedes, Visible
<1> QED
  BY <1>1, <1>2 DEF Precedes

LEMMA TrackedKept ==
  ASSUME LogInv, NEW s \in Sessions,
         (\E r \in Requests : Begin(s, r)) \/ Acquire(s) \/ Step(s) \/ Fail(s),
         NEW R, NEW held, Precedes(R), Tracked(R, held)
  PROVE  \/ \A m \in marks' \cup UNION {pending'[r].mark : r \in Sessions} : R.xmin < m.xid
         \/ \A t \in Tuples : (t \in tuples') # (t \in held) =>
              \E l \in log' : l.tuple = t /\ R.xmin <= l.xid /\ ~Visible(l.xid, R)
<1> USE DEF LogInv, SchemaInv, VersionInv, RowInv, LockInv, TypeInv
<1>1. /\ R.xmin \in Nat /\ Current.xmin \in Nat
      /\ \A m \in AllMarks : m.xid \in Nat
      /\ \A l \in log : l.xid \in Nat
  <2>1. \A r \in Sessions : pending[r].mark \subseteq Marks
    BY DEF TypeOK, Changes
  <2> QED
    BY <2>1, MarksBehind DEF TypeOK, Marks, LogRows, Xids, AllMarks, Precedes
<1>2. CASE \A m \in AllMarks : R.xmin < m.xid
  <2>1. PICK m \in marks : m.xid <= Current.xmin
    BY MarksBehind DEF MarksOK
  <2>2. R.xmin < Current.xmin
    BY <1>1, <1>2, <2>1 DEF AllMarks
  <2> QED
    BY <1>2, <2>2, Forward DEF AllMarks
<1>3. CASE \A t \in Tuples : (t \in tuples) # (t \in held) =>
             \E l \in log : l.tuple = t /\ R.xmin <= l.xid /\ ~Visible(l.xid, R)
  <2>1. CASE ~Commit(s)
    BY <1>3, <2>1, TablesStay DEF db
  <2>2. CASE Commit(s)
    <3>1. /\ tuples' = (tuples \ pending[s].del) \cup pending[s].ins
          /\ log' = (log \ pending[s].cutRows) \cup pending[s].rows
          /\ marks' = Left(s) /\ pc[s] = "commit"
          /\ pending'[s].mark = {}
      BY <2>2 DEF Commit, Left, End, Nothing, TypeOK
    <3>2. ASSUME NEW t \in pending[s].ins \cup pending[s].del
          PROVE  \E l \in log' : l.tuple = t /\ R.xmin <= l.xid /\ ~Visible(l.xid, R)
      <4>1. PICK l \in pending[s].rows : l.tuple = t
        BY DEF Logged
      <4>2. xid[s] # 0 /\ l.xid = xid[s]
        BY DEF Logged
      <4> QED
        BY <3>1, <4>1, <4>2 DEF Precedes
    <3>3. ASSUME \A l \in pending[s].cutRows : l.xid < R.xmin
          PROVE  \A t \in Tuples : (t \in tuples') # (t \in held) =>
                   \E l \in log' : l.tuple = t /\ R.xmin <= l.xid /\ ~Visible(l.xid, R)
      <4> SUFFICES ASSUME NEW t \in Tuples, (t \in tuples') # (t \in held)
                   PROVE  \E l \in log' : l.tuple = t /\ R.xmin <= l.xid /\ ~Visible(l.xid, R)
        OBVIOUS
      <4>1. CASE t \in pending[s].ins \cup pending[s].del
        BY <3>2, <4>1
      <4>2. CASE t \notin pending[s].ins \cup pending[s].del
        <5>1. (t \in tuples) # (t \in held)
          BY <3>1, <4>2
        <5>2. PICK l \in log : l.tuple = t /\ R.xmin <= l.xid /\ ~Visible(l.xid, R)
          BY <1>3, <5>1
        <5>3. l \in log'
          BY <1>1, <3>1, <3>3, <5>2
        <5> QED
          BY <5>2, <5>3
      <4> QED
        BY <4>1, <4>2
    <3>4. CASE req[s].kind # "prune"
      BY <3>3, <3>4 DEF Cutting
    <3>5. CASE req[s].kind = "prune" /\ \E m \in Left(s) : m.xid <= R.xmin
      <4>1. PICK m \in Left(s) : m.xid <= R.xmin
        BY <3>5
      <4>2. m.xid \in Nat /\ \A l \in pending[s].cutRows : l.xid < m.xid /\ l.xid \in Nat
        <5>1. m \in AllMarks
          BY DEF Left, AllMarks
        <5>2. pending[s].cutRows \subseteq LogRows
          BY DEF TypeOK, Changes
        <5> QED
          BY <1>1, <3>1, <5>1, <5>2 DEF Cutting, LogRows, Xids
      <4>3. \A l \in pending[s].cutRows : l.xid < R.xmin
        BY <1>1, <4>1, <4>2
      <4> QED
        BY <3>3, <4>3
    <3>6. CASE req[s].kind = "prune" /\ ~\E m \in Left(s) : m.xid <= R.xmin
      <4>1. \A m \in marks' : R.xmin < m.xid
        BY <1>1, <3>1, <3>6 DEF Left, AllMarks
      <4>2. ASSUME NEW r \in Sessions
            PROVE  pending'[r].mark = {}
        <5>1. CASE r = s
          BY <3>1, <5>1
        <5>2. CASE r # s
          <6>1. pending'[r] = pending[r]
            BY <5>2, OneSessionSteps DEF OthersStay
          <6>2. pc[r] \notin LockedSteps \/ req[r].kind # "prune"
            BY <3>1, <3>6, <5>2, OnePrune DEF LockedSteps, Steps
          <6> QED
            BY <6>1, <6>2 DEF Cutting, LockedSteps, Steps
        <5> QED
          BY <5>1, <5>2
      <4> QED
        BY <4>1, <4>2
    <3> QED
      BY <3>4, <3>5, <3>6
  <2> QED
    BY <2>1, <2>2
<1> QED
  BY <1>2, <1>3 DEF Tracked

LEMMA VersionsKept ==
  ASSUME LogInv, NEW s \in Sessions,
         (\E r \in Requests : Begin(s, r)) \/ Acquire(s) \/ Step(s) \/ Fail(s),
         NEW R, Precedes(R), InOrder(versions, R)
  PROVE  Seen(versions', R) = Seen(versions, R) /\ InOrder(versions', R)
<1> USE DEF LogInv, SchemaInv, VersionInv, RowInv, LockInv, TypeInv
<1>1. CASE ~Commit(s)
  BY <1>1, TablesStay DEF db
<1>2. CASE Commit(s)
  <2>1. versions' = versions \cup pending[s].version
    BY <1>2 DEF Commit
  <2>2. \A v \in pending[s].version : ~Visible(v.xid, R)
    BY DEF XidsOK, Precedes
  <2>3. \A v \in pending[s].version : \A w \in versions : w.version < v.version
    BY DEF VersionsCommitInOrder
  <2> QED
    BY <2>1, <2>2, <2>3 DEF Seen, InOrder
<1> QED
  BY <1>1, <1>2

(* Whatever the store does, it still knows of R. *)
LEMMA KnowsKept ==
  ASSUME LogInv, [Next]_vars, NEW R, NEW held, NEW schema, Knows(R, held, schema)
  PROVE  Knows(R, held, schema)'
<1>1. ASSUME NEW s \in Sessions,
             (\E r \in Requests : Begin(s, r)) \/ Acquire(s) \/ Step(s) \/ Fail(s)
      PROVE  Knows(R, held, schema)'
  <2>1. Precedes(R)'
    BY <1>1, PrecedesKept DEF Knows, Precedes
  <2>2. Tracked(R, held)'
    BY <1>1, TrackedKept DEF Knows, Tracked, AllMarks
  <2>3. Seen(versions', R) = Seen(versions, R) /\ InOrder(versions', R)
    BY <1>1, VersionsKept DEF Knows
  <2> QED
    BY <2>1, <2>2, <2>3 DEF Knows
<1>2. CASE Tick \/ AtBound \/ UNCHANGED vars
  <2>1. UNCHANGED <<tuples, versions, log, marks, latest, xid, pending>>
    BY <1>2 DEF Tick, AtBound, vars, db, work
  <2> QED
    BY <2>1 DEF Knows, Precedes, Tracked, AllMarks
<1> QED
  BY <1>1, <1>2 DEF Next

-----------------------------------------------------------------------------
(* What a read sees, and what an answer does with it. *)

(* Versions that could be a table's: numbered once each, and not past all  *)
(* bounds.                                                                 *)
Numbered(vs) ==
  /\ \A v, w \in vs : v.version = w.version => v = w
  /\ \E bound \in Nat : \A v \in vs : v.version <= bound

LEMMA NewestOne ==
  ASSUME NEW vs \in SUBSET Versions, vs # {}, Numbered(vs)
  PROVE  \E v \in vs : /\ \A w \in vs \ {v} : w.version < v.version
                       /\ Newest(vs) = v.schema
<1>1. \A v \in vs : v.version \in Nat
  BY DEF Versions
<1> DEFINE numbers == {v.version : v \in vs}
<1>2. numbers \in SUBSET Nat /\ numbers # {}
  BY <1>1
<1>3. PICK bound \in Nat : \A n \in numbers : n <= bound
  BY DEF Numbered
<1>4. PICK n \in numbers : \A k \in numbers : k <= n
  <2> HIDE DEF numbers
  <2> QED
    BY <1>2, <1>3, Greatest
<1>5. PICK v \in vs : n = v.version
  BY <1>4
<1>6. \A w \in vs \ {v} : w.version < v.version /\ w.version \in Nat
  BY <1>1, <1>4, <1>5 DEF Numbered
<1>7. Newest(vs) = v.schema
  BY <1>1, <1>6, NewestIsLast
<1> QED
  BY <1>6, <1>7

(* What a Delta from v does for a follower that holds these at R. *)
Applies(v, R, held, schema) ==
  /\ Covers(v, R, held)
  /\ schema = Newest(Seen(v.versions, R))
  /\ InOrder(v.versions, R)

LEMMA TuplesExact ==
  ASSUME NEW v, v.tuples \in SUBSET Tuples, NEW R, NEW held \in SUBSET Tuples,
         Covers(v, R, held), ~Pruned(v, R)
  PROVE  (held \cup Present(v, R)) \ Absent(v, R) = v.tuples
<1> DEFINE touched == TouchedSince(v, R)
<1>1. \A t \in Tuples : (t \in v.tuples) # (t \in held) => t \in touched
  BY DEF Covers
<1>2. Present(v, R) = touched \cap v.tuples /\ Absent(v, R) = touched \ v.tuples
  BY DEF Present, Absent
<1> HIDE DEF touched
<1> QED
  BY <1>1, <1>2

LEMMA SchemaExact ==
  ASSUME NEW v, v.versions \in SUBSET Versions, Numbered(v.versions), NEW R,
         InOrder(v.versions, R)
  PROVE  Newest(v.versions) = IF SchemaSince(v, R) = NoSchema
                              THEN Newest(Seen(v.versions, R)) ELSE SchemaSince(v, R)
<1> DEFINE vs == v.versions
           unseen == {w \in vs : ~Visible(w.xid, R)}
<1>1. SchemaSince(v, R) = Newest(unseen)
  BY DEF SchemaSince
<1>2. CASE unseen = {}
  <2>1. Seen(vs, R) = vs
    BY <1>2 DEF Seen
  <2> QED
    BY <1>1, <1>2, <2>1 DEF Newest
<1>3. CASE unseen # {}
  <2>1. unseen \in SUBSET Versions /\ Numbered(unseen)
    BY DEF Numbered
  <2>2. PICK w \in unseen : /\ \A u \in unseen \ {w} : u.version < w.version
                            /\ Newest(unseen) = w.schema
    <3> HIDE DEF unseen
    <3> QED
      BY <1>3, <2>1, NewestOne
  <2>3. \A u \in vs \ {w} : u.version < w.version /\ u.version \in Nat
    BY <2>2 DEF InOrder, Versions
  <2>4. w \in vs /\ w.version \in Nat /\ w.schema \in Schemas
    BY <2>2 DEF Versions
  <2>5. Newest(vs) = w.schema
    <3> HIDE DEF vs
    <3> QED
      BY <2>3, <2>4, NewestIsLast
  <2> QED
    BY <1>1, <2>2, <2>4, <2>5, SchemaAssumption
<1> QED
  BY <1>2, <1>3

(* A read sees no more than has happened, and all of that. *)
LEMMA CaptureKnown ==
  ASSUME LogInv
  PROVE  /\ Knows(Current, tuples, Newest(versions))
         /\ Current \in Snapshots /\ Current # NoRevision
         /\ Numbered(versions)
<1> USE DEF LogInv, SchemaInv, VersionInv, RowInv, LockInv, TypeInv
<1>1. /\ Current.xmin \in Xids /\ Current.xmax = latest + 1
      /\ Current.xip = {x \in Active : x <= latest}
      /\ Current.xmin <= Current.xmax
      /\ \A s \in Sessions : xid[s] # 0 => Current.xmin <= xid[s]
  BY CurrentBounds
<1>2. latest \in Nat /\ \A s \in Sessions : xid[s] \in Nat
  BY DEF TypeOK
<1>3. \A s \in Sessions : xid[s] # 0 => ~Visible(xid[s], Current)
  BY <1>1, <1>2 DEF Visible, Active
<1>4. Precedes(Current)
  BY <1>1, <1>2, <1>3 DEF Precedes, Xids
<1>5. Tracked(Current, tuples)
  BY DEF Tracked
<1>6. ASSUME NEW w \in versions
      PROVE  Visible(w.xid, Current)
  <2>1. w.xid \in Nat /\ w.xid <= latest /\ w.xid \notin Active
    BY DEF XidsOK, Active, TypeOK, Versions, Xids
  <2> QED
    BY <1>1, <1>2, <2>1 DEF Visible
<1>7. Seen(versions, Current) = versions /\ InOrder(versions, Current)
  BY <1>6 DEF Seen, InOrder
<1>8. Current \in Snapshots
  BY CurrentTyped
<1>9. Current # NoRevision
  BY <1>1 DEF NoRevision, Xids
<1>10. Numbered(versions)
  <2>1. nextVersion \in Nat /\ \A v \in versions : v.version <= nextVersion
    BY DEF VersionsOK, TypeOK, Versions
  <2> QED
    BY <2>1 DEF Numbered, XidsOK
<1> QED
  BY <1>4, <1>5, <1>7, <1>8, <1>9, <1>10 DEF Knows

(* What the store knows of R is what Changes, asked now, makes good on.    *)
LEMMA KnownCovered ==
  ASSUME LogInv, NEW R, NEW held, Knows(R, held, Newest(Seen(versions, R)))
  PROVE  Applies(Capture, R, held, Newest(Seen(versions, R)))
<1>1. /\ Capture.tuples = tuples /\ Capture.versions = versions
      /\ Capture.log = log /\ Capture.marks = marks
  BY DEF Capture
<1>2. \A m \in marks : m.xid \in Nat
  BY DEF LogInv, SchemaInv, VersionInv, RowInv, LockInv, TypeInv, TypeOK, Marks
<1>3. \A l \in log : l.xid \in Nat
  BY DEF LogInv, SchemaInv, VersionInv, RowInv, LockInv, TypeInv, TypeOK, LogRows, Xids
<1>4. R.xmin \in Nat
  BY DEF Knows, Precedes
<1>5. Covers(Capture, R, held)
  <2>1. CASE \A m \in AllMarks : R.xmin < m.xid
    BY <1>1, <1>2, <1>4, <2>1 DEF AllMarks, Covers, Pruned
  <2>2. CASE \A t \in Tuples : (t \in tuples) # (t \in held) =>
               \E l \in log : l.tuple = t /\ R.xmin <= l.xid /\ ~Visible(l.xid, R)
    <3>1. TouchedSince(Capture, R) =
            {l.tuple : l \in {k \in log : k.xid >= R.xmin /\ ~Visible(k.xid, R)}}
      BY <1>1 DEF TouchedSince
    <3>2. \A t \in Tuples : (t \in tuples) # (t \in held) => t \in TouchedSince(Capture, R)
      BY <1>3, <1>4, <2>2, <3>1
    <3> QED
      BY <1>1, <3>2 DEF Covers
  <2> QED
    BY <2>1, <2>2 DEF Knows, Tracked
<1> QED
  BY <1>1, <1>5 DEF Applies, Knows

-----------------------------------------------------------------------------
(* The followers. *)

Conforms(held, schema) ==
  \A t \in held : schema # NoSchema /\ checkFilter(schema, FilterOf(t))

(* A follower that holds these, and whose read, if one is under way, sees  *)
(* v.                                                                      *)
Follows(R, held, schema, c, v) ==
  /\ R # NoRevision => Knows(R, held, schema)
  /\ Conforms(held, schema)
  /\ Numbered(v.versions)
  /\ c \in {"snapshot", "changes"} =>
       /\ Knows(v.rev, v.tuples, Newest(v.versions))
       /\ Conforms(v.tuples, Newest(v.versions))
  /\ c = "changes" => R # NoRevision /\ Applies(v, R, held, schema)

Following(f) == Follows(rev[f], copy[f], inForce[f], call[f], view[f])

FeedInv == LogInv /\ FeedTypeOK /\ \A f \in Followers : Following(f)

LEMMA FollowsKept ==
  ASSUME LogInv, [Next]_vars, NEW R, NEW held, NEW schema, NEW c, NEW v,
         Follows(R, held, schema, c, v)
  PROVE  Follows(R, held, schema, c, v)'
<1>1. R # NoRevision => Knows(R, held, schema)'
  BY KnowsKept DEF Follows
<1>2. c \in {"snapshot", "changes"} => Knows(v.rev, v.tuples, Newest(v.versions))'
  <2> DEFINE vrev == v.rev
             vtuples == v.tuples
             newest == Newest(v.versions)
  <2>1. Knows(vrev, vtuples, newest) => Knows(vrev, vtuples, newest)'
    <3> HIDE DEF vrev, vtuples, newest
    <3> QED
      BY KnowsKept
  <2> QED
    BY <2>1 DEF Follows
<1> QED
  BY <1>1, <1>2 DEF Follows

(* The newest schema is one, or there is none. *)
LEMMA NewestTyped ==
  ASSUME NEW vs \in SUBSET Versions, Numbered(vs)
  PROVE  Newest(vs) \in Schemas \cup {NoSchema}
<1>1. CASE vs = {}
  BY <1>1 DEF Newest
<1>2. CASE vs # {}
  BY <1>2, NewestOne DEF Versions
<1> QED
  BY <1>1, <1>2

LEMMA SnapshotTaken ==
  ASSUME FeedInv, NEW f \in Followers, startOver(f)
  PROVE  /\ Follows(view[f].rev, view[f].tuples, Newest(view[f].versions), "idle", NoView)
         /\ rev'[f] = view[f].rev /\ copy'[f] = view[f].tuples
         /\ inForce'[f] = Newest(view[f].versions)
<1>1. call[f] = "snapshot" /\ Follows(rev[f], copy[f], inForce[f], call[f], view[f])
  BY DEF FeedInv, Following, startOver
<1>2. Numbered(NoView.versions)
  BY DEF Numbered, NoView
<1>3. /\ rev'[f] = view[f].rev /\ copy'[f] = view[f].tuples
      /\ inForce'[f] = Newest(view[f].versions)
  BY DEF startOver, Moves, FeedInv, FeedTypeOK
<1> QED
  BY <1>1, <1>2, <1>3 DEF Follows

LEMMA DeltaTaken ==
  ASSUME FeedInv, NEW f \in Followers, advance(f)
  PROVE  /\ Follows(view[f].rev, view[f].tuples, Newest(view[f].versions), "idle", NoView)
         /\ rev'[f] = view[f].rev /\ copy'[f] = view[f].tuples
         /\ inForce'[f] = Newest(view[f].versions)
<1>1. /\ call[f] = "changes" /\ ~Pruned(view[f], rev[f])
      /\ Follows(rev[f], copy[f], inForce[f], call[f], view[f])
  BY DEF FeedInv, Following, advance
<1>2. Numbered(NoView.versions)
  BY DEF Numbered, NoView
<1>3. view[f].tuples \in SUBSET Tuples /\ view[f].versions \in SUBSET Versions
      /\ copy[f] \in SUBSET Tuples
  BY DEF FeedInv, FeedTypeOK, Views
<1>4. Applies(view[f], rev[f], copy[f], inForce[f]) /\ Numbered(view[f].versions)
  BY <1>1 DEF Follows
<1>5. (copy[f] \cup Present(view[f], rev[f])) \ Absent(view[f], rev[f]) = view[f].tuples
  BY <1>1, <1>3, <1>4, TuplesExact DEF Applies
<1>6. Newest(view[f].versions) =
        IF SchemaSince(view[f], rev[f]) = NoSchema
        THEN Newest(Seen(view[f].versions, rev[f])) ELSE SchemaSince(view[f], rev[f])
  BY <1>3, <1>4, SchemaExact DEF Applies
<1>7. inForce[f] = Newest(Seen(view[f].versions, rev[f]))
  BY <1>4 DEF Applies
<1>8. /\ rev'[f] = view[f].rev
      /\ copy'[f] = (copy[f] \cup Present(view[f], rev[f])) \ Absent(view[f], rev[f])
      /\ inForce'[f] = IF SchemaSince(view[f], rev[f]) = NoSchema THEN inForce[f]
                       ELSE SchemaSince(view[f], rev[f])
  BY DEF advance, Moves, FeedInv, FeedTypeOK
<1> QED
  BY <1>1, <1>2, <1>5, <1>6, <1>7, <1>8 DEF Follows

(* A call captures the store, which its follower can go on from. *)
LEMMA Called ==
  ASSUME FeedInv, NEW f \in Followers, Ask(f)
  PROVE  Follows(rev[f], copy[f], inForce[f], call'[f], Capture) /\ view'[f] = Capture
<1>1. /\ Capture.rev = Current /\ Capture.tuples = tuples
      /\ Capture.versions = versions
  BY DEF Capture
<1>2. Follows(rev[f], copy[f], inForce[f], call[f], view[f])
  BY DEF FeedInv, Following
<1>3. /\ Knows(Current, tuples, Newest(versions))
      /\ Numbered(versions)
  BY CaptureKnown DEF FeedInv
<1>4. Conforms(tuples, Newest(versions))
  BY DEF FeedInv, LogInv, SchemaInv, SchemaConform, Conforms, latestSchema
<1>5. view'[f] = Capture
  BY DEF Ask, CallSnapshot, CallChanges, FeedInv, FeedTypeOK
<1>6. CASE CallSnapshot(f)
  <2>1. call'[f] = "snapshot"
    BY <1>6 DEF CallSnapshot, FeedInv, FeedTypeOK
  <2> QED
    BY <1>1, <1>2, <1>3, <1>4, <1>5, <2>1 DEF Follows
<1>7. CASE CallChanges(f)
  <2>1. rev[f] # NoRevision /\ call'[f] = "changes"
    BY <1>7 DEF CallChanges, FeedInv, FeedTypeOK
  <2>2. Knows(rev[f], copy[f], inForce[f])
    BY <1>2, <2>1 DEF Follows
  <2>3. inForce[f] = Newest(Seen(versions, rev[f]))
    BY <2>2 DEF Knows
  <2>4. Applies(Capture, rev[f], copy[f], inForce[f])
    BY <2>2, <2>3, KnownCovered DEF FeedInv
  <2> QED
    BY <1>1, <1>2, <1>3, <1>4, <1>5, <2>1, <2>4 DEF Follows
<1> QED
  BY <1>6, <1>7 DEF Ask

LEMMA AskTyped ==
  ASSUME FeedInv, NEW f \in Followers, Ask(f)
  PROVE  call' \in [Followers -> Calls] /\ view' \in [Followers -> Views]
<1>1. Capture \in Views
  <2>1. Current \in Revisions
    BY CaptureKnown DEF FeedInv, Revisions
  <2>2. /\ tuples \in SUBSET Tuples /\ versions \in SUBSET Versions
        /\ log \in SUBSET LogRows /\ marks \in SUBSET Marks /\ now \in Nat
    BY DEF FeedInv, FeedTypeOK, TypeOK
  <2> QED
    BY <2>1, <2>2 DEF Capture, Views
<1>2. view' = [view EXCEPT ![f] = Capture]
  BY DEF Ask, CallSnapshot, CallChanges
<1> HIDE DEF Capture
<1>3. view' \in [Followers -> Views]
  BY <1>1, <1>2 DEF FeedInv, FeedTypeOK
<1> QED
  BY <1>3 DEF Ask, CallSnapshot, CallChanges, FeedInv, FeedTypeOK, Calls

LEMMA FeedTyped == FeedInv /\ [FeedNext]_feedVars => FeedTypeOK'
<1> SUFFICES ASSUME FeedInv, [FeedNext]_feedVars PROVE FeedTypeOK'
  OBVIOUS
<1>1. TypeOK'
  BY StoreSteps, NextTyped DEF FeedInv, LogInv, SchemaInv, VersionInv, RowInv, LockInv, TypeInv
<1>2. CASE UNCHANGED feed
  BY <1>1, <1>2 DEF feed, FeedInv, FeedTypeOK
<1>3. ASSUME NEW f \in Followers, Ask(f)
      PROVE  FeedTypeOK'
  <2>1. UNCHANGED <<rev, copy, inForce, readAt>>
    BY <1>3 DEF Ask, CallSnapshot, CallChanges
  <2> QED
    BY <1>1, <1>3, <2>1, AskTyped DEF FeedInv, FeedTypeOK
<1>4. NoView \in Views
  BY DEF NoView, Views, Revisions
<1>5. ASSUME NEW f \in Followers, NEW next \in Calls, Hangup(f, next)
      PROVE  call' \in [Followers -> Calls] /\ view' \in [Followers -> Views]
  <2>1. view' = [view EXCEPT ![f] = NoView]
    BY <1>5 DEF Hangup
  <2>2. view' \in [Followers -> Views]
    <3> HIDE DEF NoView
    <3> QED
      BY <1>4, <2>1 DEF FeedInv, FeedTypeOK
  <2> QED
    BY <1>5, <2>2 DEF Hangup, FeedInv, FeedTypeOK
<1>6. ASSUME NEW f \in Followers, AnswerPruned(f) \/ LoseAnswer(f)
      PROVE  FeedTypeOK'
  <2>1. UNCHANGED <<rev, copy, inForce, readAt>>
    BY <1>6 DEF AnswerPruned, LoseAnswer
  <2>2. call' \in [Followers -> Calls] /\ view' \in [Followers -> Views]
    BY <1>5, <1>6 DEF AnswerPruned, LoseAnswer, Calls
  <2> QED
    BY <1>1, <2>1, <2>2 DEF FeedInv, FeedTypeOK
<1>7. ASSUME NEW f \in Followers, startOver(f) \/ advance(f)
      PROVE  FeedTypeOK'
  <2>1. view[f] \in Views /\ Numbered(view[f].versions)
    BY DEF FeedInv, FeedTypeOK, Following, Follows
  <2>2. /\ view[f].rev \in Revisions /\ view[f].tuples \in SUBSET Tuples
        /\ view[f].versions \in SUBSET Versions /\ view[f].time \in Nat
    BY <2>1 DEF Views
  <2>3. Newest(view[f].versions) \in Schemas \cup {NoSchema}
    BY <2>1, <2>2, NewestTyped
  <2>4. call' \in [Followers -> Calls] /\ view' \in [Followers -> Views]
    BY <1>5, <1>7 DEF startOver, advance, Calls
  <2>5. \A g \in Followers \ {f} : copy'[g] = copy[g] /\ inForce'[g] = inForce[g]
    BY <1>7 DEF startOver, advance, FeedInv, FeedTypeOK
  <2>6. copy'[f] = view[f].tuples /\ inForce'[f] = Newest(view[f].versions)
    BY <1>7, SnapshotTaken, DeltaTaken
  <2>7. /\ \E u : copy' = [copy EXCEPT ![f] = u]
        /\ \E u : inForce' = [inForce EXCEPT ![f] = u]
    BY <1>7 DEF startOver, advance
  <2>8. /\ copy' \in [Followers -> SUBSET Tuples]
        /\ inForce' \in [Followers -> Schemas \cup {NoSchema}]
    BY <2>2, <2>3, <2>6, <2>7 DEF FeedInv, FeedTypeOK
  <2>9. rev' \in [Followers -> Revisions] /\ readAt' \in [Followers -> Nat]
    BY <1>7, <2>2 DEF startOver, advance, Moves, FeedInv, FeedTypeOK
  <2> QED
    BY <1>1, <2>4, <2>8, <2>9 DEF FeedTypeOK
<1> QED
  BY <1>2, <1>3, <1>6, <1>7 DEF FeedNext, Answer, feedVars, feed

(* Where a step leaves a follower, the store still knows of. *)
LEMMA NextFollowing ==
  ASSUME FeedInv, [FeedNext]_feedVars, NEW g \in Followers
  PROVE  Following(g)'
<1>1. \E R, held, schema, c, v :
        /\ Follows(R, held, schema, c, v)
        /\ rev'[g] = R /\ copy'[g] = held /\ inForce'[g] = schema
        /\ call'[g] = c /\ view'[g] = v
  <2>1. Follows(rev[g], copy[g], inForce[g], call[g], view[g])
    BY DEF FeedInv, Following
  <2>2. CASE UNCHANGED <<rev[g], copy[g], inForce[g], call[g], view[g]>>
    BY <2>1, <2>2
  <2>3. CASE UNCHANGED feed
    BY <2>2, <2>3 DEF feed
  <2>4. ASSUME NEW f \in Followers, f # g, Ask(f) \/ Answer(f) \/ LoseAnswer(f)
        PROVE  UNCHANGED <<rev[g], copy[g], inForce[g], call[g], view[g]>>
    <3> USE DEF FeedInv, FeedTypeOK
    <3>1. CASE Ask(f)
      BY <2>4, <3>1 DEF Ask, CallSnapshot, CallChanges
    <3>2. CASE startOver(f) \/ advance(f)
      BY <2>4, <3>2 DEF startOver, advance, Moves, Hangup
    <3>3. CASE AnswerPruned(f) \/ LoseAnswer(f)
      BY <2>4, <3>3 DEF AnswerPruned, LoseAnswer, Hangup
    <3> QED
      BY <2>4, <3>1, <3>2, <3>3 DEF Answer
  <2>5. CASE Ask(g)
    <3>1. rev'[g] = rev[g] /\ copy'[g] = copy[g] /\ inForce'[g] = inForce[g]
      BY <2>5 DEF Ask, CallSnapshot, CallChanges
    <3> QED
      BY <2>5, <3>1, Called
  <2>6. CASE startOver(g) \/ advance(g)
    <3>1. call'[g] = "idle" /\ view'[g] = NoView
      BY <2>6 DEF startOver, advance, Hangup, FeedInv, FeedTypeOK
    <3> QED
      BY <2>6, <3>1, SnapshotTaken, DeltaTaken
  <2>7. CASE AnswerPruned(g) \/ LoseAnswer(g)
    <3>1. /\ rev'[g] = rev[g] /\ copy'[g] = copy[g] /\ inForce'[g] = inForce[g]
          /\ call'[g] \in {"idle", "pruned"} /\ view'[g] = NoView
      BY <2>7 DEF AnswerPruned, LoseAnswer, Hangup, FeedInv, FeedTypeOK
    <3>2. Numbered(NoView.versions)
      BY DEF Numbered, NoView
    <3>3. Follows(rev[g], copy[g], inForce[g], call'[g], NoView)
      BY <2>1, <3>1, <3>2 DEF Follows
    <3> QED
      BY <3>1, <3>3
  <2> QED
    BY <2>2, <2>3, <2>4, <2>5, <2>6, <2>7 DEF FeedNext, Answer, feedVars, feed
<1>2. ASSUME NEW R, NEW held, NEW schema, NEW c, NEW v,
             Follows(R, held, schema, c, v),
             rev'[g] = R, copy'[g] = held, inForce'[g] = schema,
             call'[g] = c, view'[g] = v
      PROVE  Following(g)'
  <2>1. Follows(R, held, schema, c, v)'
    BY <1>2, StoreSteps, FollowsKept DEF FeedInv
  <2> QED
    BY <1>2, <2>1 DEF Following
<1> QED
  BY <1>1, <1>2

LEMMA InitFollowing == FeedInit => FeedInv
<1> SUFFICES ASSUME FeedInit PROVE FeedInv
  OBVIOUS
<1>1. LogInv
  BY InitLog DEF FeedInit
<1>2. NoView \in Views
  BY DEF NoView, Views, Revisions
<1>3. FeedTypeOK
  <2> HIDE DEF NoView
  <2> QED
    BY <1>1, <1>2 DEF FeedInit, FeedTypeOK, LogInv, SchemaInv, VersionInv, RowInv,
      LockInv, TypeInv, Revisions, Calls
<1>4. ASSUME NEW f \in Followers
      PROVE  Following(f)
  <2>1. Numbered(NoView.versions)
    BY DEF Numbered, NoView
  <2> QED
    BY <2>1 DEF FeedInit, Following, Follows, Conforms
<1> QED
  BY <1>1, <1>3, <1>4 DEF FeedInv

LEMMA NextFeed == FeedInv /\ [FeedNext]_feedVars => FeedInv'
<1> SUFFICES ASSUME FeedInv, [FeedNext]_feedVars PROVE FeedInv'
  OBVIOUS
<1>1. LogInv'
  BY StoreSteps, NextLog DEF FeedInv
<1> QED
  BY <1>1, FeedTyped, NextFollowing DEF FeedInv

(* Every variable of the store and of its followers always has its type,   *)
(* and the store always knows of every revision a follower holds or reads. *)
THEOREM FollowersHold == FeedSpec => []FeedInv
<1> QED
  BY InitFollowing, NextFeed, PTL DEF FeedSpec

(* Type correctness of the followers of read.go, whose reads may overlap   *)
(* any requests and prunes.                                                *)
THEOREM FeedTypes == FeedSpec => []FeedTypeOK
<1>1. FeedInv => FeedTypeOK
  BY DEF FeedInv
<1> QED
  BY <1>1, FollowersHold, PTL

LEMMA StepExact ==
  ASSUME FeedInv, [FeedNext]_feedVars, NEW g \in Followers, rev'[g] # rev[g]
  PROVE  copy'[g] = view[g].tuples /\ inForce'[g] = Newest(view[g].versions)
<1>1. ASSUME NEW f \in Followers, startOver(f) \/ advance(f)
      PROVE  f = g
  BY <1>1 DEF startOver, advance, Moves, FeedInv, FeedTypeOK
<1>2. \E f \in Followers : startOver(f) \/ advance(f)
  BY DEF FeedNext, feedVars, feed, Ask, Answer, CallSnapshot, CallChanges,
    AnswerPruned, LoseAnswer
<1> QED
  BY <1>1, <1>2, SnapshotTaken, DeltaTaken

(* read.go: a Delta, applied, leaves the reader with the store as it stood *)
(* at the revision the Delta names.  No change of a transaction that ran   *)
(* while the reader last read is lost, or cut from under it.               *)
THEOREM CopiesExact == FeedSpec => CopyExact
<1>1. FeedInv /\ [FeedNext]_feedVars =>
        [\A f \in Followers : rev'[f] # rev[f] =>
           /\ copy'[f] = view[f].tuples
           /\ inForce'[f] = Newest(view[f].versions)]_feedVars
  BY StepExact
<1> QED
  BY <1>1, FollowersHold, PTL DEF FeedSpec, CopyExact

(* contract_test.go: at every revision it reaches, a follower's schema     *)
(* takes every tuple it holds.                                             *)
THEOREM CopiesConform == FeedSpec => []CopyConforms
<1>1. FeedInv => CopyConforms
  BY DEF FeedInv, Following, Follows, Conforms, CopyConforms
<1> QED
  BY <1>1, FollowersHold, PTL

(* prune.go: what a follower has yet to learn of is in the log, or the     *)
(* marks tell it to start over.                                            *)
THEOREM LogReaches == FeedSpec => []LogCovers
<1>1. FeedInv => LogCovers
  <2> SUFFICES ASSUME FeedInv, NEW f \in Followers, rev[f] # NoRevision
               PROVE  Covers(Capture, rev[f], copy[f])
    BY DEF LogCovers
  <2>1. Knows(rev[f], copy[f], inForce[f])
    BY DEF FeedInv, Following, Follows
  <2>2. inForce[f] = Newest(Seen(versions, rev[f]))
    BY <2>1 DEF Knows
  <2>3. Applies(Capture, rev[f], copy[f], inForce[f])
    BY <2>1, <2>2, KnownCovered DEF FeedInv
  <2> QED
    BY <2>3 DEF Applies
<1> QED
  BY <1>1, FollowersHold, PTL

(* A revision just read is one Changes takes: starting over never fails.   *)
THEOREM FreshIsReadable == Spec => []FreshRevisionReadable
<1>1. LogInv => FreshRevisionReadable
  <2> SUFFICES ASSUME LogInv PROVE \E m \in marks : m.xid <= Current.xmin
    BY DEF FreshRevisionReadable, Pruned, Capture
  <2>1. \A m \in marks : m.xid <= Current.xmin
    BY MarksBehind DEF LogInv, SchemaInv, VersionInv, RowInv, LockInv, TypeInv
  <2> QED
    BY <2>1 DEF LogInv, MarksOK
<1> QED
  BY <1>1, LogHolds, PTL

(* prune.go: a mark, and so a cut, is never past a transaction that runs.  *)
THEOREM MarksStayBehind == Spec => []MarksBehindRunning
<1>1. LogInv => MarksBehindRunning
  BY MarksBehind
    DEF LogInv, SchemaInv, VersionInv, RowInv, LockInv, TypeInv, MarksBehindRunning
<1> QED
  BY <1>1, LogHolds, PTL

=============================================================================
