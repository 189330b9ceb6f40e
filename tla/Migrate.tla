------------------------------ MODULE Migrate -------------------------------
(***************************************************************************)
(* internal/datastore/postgres/migrate.go: servers of several builds bring *)
(* one database up to their tables as they start, in transactions that may *)
(* fail, or whose process may die, at any statement.                       *)
(*                                                                         *)
(* The database is external: its advisory lock, what a statement of a      *)
(* ReadCommitted transaction sees, and that it refuses to create what is   *)
(* there or to store one key twice, waiting for whoever may have done so   *)
(* and not committed.                                                      *)
(***************************************************************************)
EXTENDS Integers, Sequences, SequencesExt

CONSTANTS
  Servers,
  Files,      \* the versions of the files each server's build embeds
  Nobody,     \* holds no lock
  MaxFaults   \* bound on the failures and deaths

ASSUME MigrateAssumption ==
  /\ Nobody \notin Servers /\ MaxFaults \in Nat
  /\ \A s \in Servers : Files[s] \subseteq Nat \ {0}

(* Builds of one history: none lacks a file that is older than one it has. *)
ASSUME BuildAssumption ==
  \A s, other \in Servers : \A v \in Files[s], w \in Files[other] : w < v => w \in Files[s]

VARIABLES
  db,       \* what is committed
  tx,       \* what each server's transaction has added to it
  view,     \* what its statement sees
  holder,   \* who holds the advisory lock
  pc,       \* where each server is in Migrate
  left,     \* the files its loop is still to run
  faults    \* how many failures there were

migrateVars == <<db, tx, view, holder, pc, left, faults>>

(* The migrations table, the versions in it, and the files that ran. *)
Empty == [created |-> FALSE, versions |-> {}, ran |-> <<>>]

Running == {"lock", "create", "read", "files", "record"}

(* Whether another transaction, still open, did what Did says. *)
OpenElsewhere(s, Did(_)) == \E other \in Servers \ {s} : Did(tx[other])

-----------------------------------------------------------------------------

(* Fault: the transaction sees what its first statement saw. *)
FirstView(s) == view[s]

(* ReadCommitted: a statement sees what is committed when it starts. *)
StatementView(s) == db

(* The loop's skip.  What is applied is 0 if nothing is, and no file is. *)
Pending(s, applied) == {v \in Files[s] : \A w \in applied : v > w}

(* Fault: the files in the order they happen to be in. *)
NextFileUnsorted(s) == CHOOSE v \in left[s] : \A w \in left[s] : v >= w

(* loadMigrations sorts the files. *)
NextFile(s) == CHOOSE v \in left[s] : \A w \in left[s] : v <= w

(* Fault: the lock is the session's, which a rollback leaves. *)
EndHolding(s, next) ==
  /\ tx' = [tx EXCEPT ![s] = Empty]
  /\ holder' = IF holder = s /\ next = "ready" THEN Nobody ELSE holder
  /\ view' = [view EXCEPT ![s] = Empty]
  /\ left' = [left EXCEPT ![s] = {}]
  /\ pc' = [pc EXCEPT ![s] = next]

(* The transaction is over, and the lock let go. *)
End(s, next) ==
  /\ tx' = [tx EXCEPT ![s] = Empty]
  /\ holder' = IF holder = s THEN Nobody ELSE holder
  /\ view' = [view EXCEPT ![s] = Empty]
  /\ left' = [left EXCEPT ![s] = {}]
  /\ pc' = [pc EXCEPT ![s] = next]

(* A statement the database refuses. *)
Refuse(s) == End(s, "refused") /\ UNCHANGED <<db, faults>>

(* A statement done: the next one starts. *)
Then(s, next) ==
  /\ pc' = [pc EXCEPT ![s] = next]
  /\ view' = [view EXCEPT ![s] = StatementView(s)]
  /\ UNCHANGED <<db, faults>>

-----------------------------------------------------------------------------

(* Begin, and the statement that waits for the lock. *)
Start(s) ==
  /\ pc[s] \in {"down", "failed", "refused"}
  /\ pc' = [pc EXCEPT ![s] = "lock"]
  /\ view' = [view EXCEPT ![s] = db]
  /\ UNCHANGED <<db, tx, holder, left, faults>>

Acquire(s) ==
  /\ pc[s] = "lock" /\ holder = Nobody
  /\ holder' = s
  /\ Then(s, "create")
  /\ UNCHANGED <<tx, left>>

(* IF NOT EXISTS looks, then creates: two that do so at once collide. *)
CreateTable(s) ==
  /\ pc[s] = "create"
  /\ IF ~db.created /\ OpenElsewhere(s, LAMBDA t : t.created) THEN Refuse(s)
     ELSE /\ tx' = [tx EXCEPT ![s].created = ~db.created]
          /\ Then(s, "read")
          /\ UNCHANGED <<holder, left>>

ReadApplied(s) ==
  /\ pc[s] = "read"
  /\ left' = [left EXCEPT ![s] = Pending(s, view[s].versions)]
  /\ Then(s, "files")
  /\ UNCHANGED <<tx, holder>>

RunFile(s) ==
  /\ pc[s] = "files" /\ left[s] # {}
  /\ LET v == NextFile(s)
     IN  /\ ~OpenElsewhere(s, LAMBDA t : Contains(t.ran, v))
         /\ IF Contains(db.ran, v) THEN Refuse(s)
            ELSE /\ tx' = [tx EXCEPT ![s].ran = Append(@, v)]
                 /\ Then(s, "record")
                 /\ UNCHANGED <<holder, left>>

Record(s) ==
  /\ pc[s] = "record"
  /\ LET v == NextFile(s)
     IN  /\ ~OpenElsewhere(s, LAMBDA t : v \in t.versions)
         /\ IF v \in db.versions THEN Refuse(s)
            ELSE /\ tx' = [tx EXCEPT ![s].versions = @ \cup {v}]
                 /\ left' = [left EXCEPT ![s] = @ \ {v}]
                 /\ Then(s, "files")
                 /\ UNCHANGED holder

Committed(s) ==
  [created  |-> db.created \/ tx[s].created,
   versions |-> db.versions \cup tx[s].versions,
   ran      |-> db.ran \o tx[s].ran]

AtCommit(s) == pc[s] = "files" /\ left[s] = {}

Commit(s) ==
  /\ AtCommit(s)
  /\ db' = Committed(s)
  /\ End(s, "ready")
  /\ UNCHANGED faults

MayFault == faults < MaxFaults /\ faults' = faults + 1

(* The answer to the commit is lost: the server takes it for a failure. *)
LoseCommit(s) ==
  /\ AtCommit(s) /\ MayFault
  /\ db' = Committed(s)
  /\ End(s, "failed")

(* A statement fails, or the process dies: the deferred Rollback, or the   *)
(* database's own.                                                         *)
Fail(s) ==
  /\ pc[s] \in Running /\ MayFault
  /\ End(s, "failed")
  /\ UNCHANGED db

(* A server that was up dies, and is to start again. *)
Die(s) ==
  /\ pc[s] = "ready" /\ MayFault
  /\ pc' = [pc EXCEPT ![s] = "down"]
  /\ UNCHANGED <<db, tx, view, holder, left>>

Step(s) ==
  Acquire(s) \/ CreateTable(s) \/ ReadApplied(s) \/ RunFile(s) \/ Record(s) \/ Commit(s)

MigrateInit ==
  /\ db = Empty
  /\ tx = [s \in Servers |-> Empty]
  /\ view = [s \in Servers |-> Empty]
  /\ holder = Nobody
  /\ pc = [s \in Servers |-> "down"]
  /\ left = [s \in Servers |-> {}]
  /\ faults = 0

MigrateNext ==
  \E s \in Servers : Start(s) \/ Step(s) \/ LoseCommit(s) \/ Fail(s) \/ Die(s)

MigrateSpec == MigrateInit /\ [][MigrateNext]_migrateVars

(* Servers that are down are started, and a statement that can end does.   *)
(* Each server takes the lock once for each start, so none is passed over  *)
(* for ever.                                                               *)
FairMigrateSpec ==
  MigrateSpec /\ \A s \in Servers : WF_migrateVars(Start(s)) /\ WF_migrateVars(Step(s))

-----------------------------------------------------------------------------

(* Each file ran once, whole and in order, and what is recorded is what    *)
(* ran, whoever ran it and whatever died on the way.                       *)
RanOnceInOrder ==
  /\ \A i, j \in DOMAIN db.ran : i < j => db.ran[i] < db.ran[j]
  /\ db.versions = ToSet(db.ran)
  /\ \A v \in db.versions, s \in Servers : \A w \in Files[s] : w < v => w \in db.versions

(* "Callers that race run one at a time, so every server may call it on    *)
(* start": none fails for another's sake.                                  *)
RacingIsNoError == \A s \in Servers : pc[s] # "refused"

(* Every server comes up, with all of its files run. *)
EveryServerReady ==
  \A s \in Servers : <>[](pc[s] = "ready" /\ Files[s] \subseteq db.versions)

=============================================================================
