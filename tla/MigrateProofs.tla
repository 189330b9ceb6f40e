---------------------------- MODULE MigrateProofs ----------------------------
(***************************************************************************)
(* That servers of any number and any builds may migrate one database as   *)
(* they start: none is refused for another's sake, and each file runs      *)
(* once, in order.  Only who holds the lock has work that is not           *)
(* committed (WorkInv), and what it has to run is what none ever ran       *)
(* (LoopInv).                                                              *)
(***************************************************************************)
EXTENDS Migrate, WellFoundedInduction, TLAPS

States == [created : BOOLEAN, versions : SUBSET Nat, ran : Seq(Nat)]

Working == {"create", "read", "files", "record"}

MigrateTypeOK ==
  /\ db \in States
  /\ tx \in [Servers -> States]
  /\ view \in [Servers -> States]
  /\ holder \in Servers \cup {Nobody}
  /\ pc \in [Servers -> Working \cup {"down", "lock", "ready", "failed", "refused"}]
  /\ left \in [Servers -> SUBSET Nat]
  /\ faults \in Nat

(* Who works holds the lock, has the newest view, and nobody else has done *)
(* anything.                                                               *)
WorkInv ==
  /\ MigrateTypeOK
  /\ \A s \in Servers : pc[s] \in Working <=> holder = s
  /\ \A s \in Servers : pc[s] \in Working => view[s] = db
  /\ \A s \in Servers : pc[s] \notin Working => tx[s] = Empty
  /\ \A s \in Servers : pc[s] \in {"create", "read"} => tx[s].versions = {} /\ tx[s].ran = <<>>
  /\ \A s \in Servers : pc[s] = "record" => left[s] # {}

InOrder(ran) == \A i, j \in DOMAIN ran : i < j => ran[i] < ran[j]

(* Every file older than one of done is one of done. *)
Closed(done) == \A v \in done, s \in Servers : \A w \in Files[s] : w < v => w \in done

(* What s has run and recorded since it read what was applied, and what it *)
(* is still to run, are the files newer than that.                         *)
LoopOK(s) ==
  LET run == IF pc[s] = "record" THEN tx[s].versions \cup {NextFile(s)} ELSE tx[s].versions
  IN  /\ tx[s].versions \cup left[s] = Pending(s, db.versions)
      /\ \A v \in tx[s].versions, w \in left[s] : v < w
      /\ ToSet(tx[s].ran) = run
      /\ InOrder(tx[s].ran)

LoopInv ==
  /\ WorkInv
  /\ db.versions = ToSet(db.ran) /\ InOrder(db.ran) /\ Closed(db.versions)
  /\ \A s \in Servers : pc[s] \in {"files", "record"} => LoopOK(s)

-----------------------------------------------------------------------------

LEMMA EmptyIsState == Empty \in States
<1>1. <<>> \in Seq(Nat)
  OBVIOUS
<1> QED
  BY <1>1 DEF Empty, States

(* NextFile is the oldest of what is left. *)
LEMMA NextIsOldest ==
  ASSUME NEW s \in Servers, left[s] \in SUBSET Nat, left[s] # {}
  PROVE  NextFile(s) \in left[s] /\ \A w \in left[s] : NextFile(s) <= w
<1>1. PICK m \in left[s] : \A n \in left[s] : ~(<<n, m>> \in OpToRel(<, Nat))
  BY NatLessThanWellFounded, WFMin, Zenon
<1>2. ASSUME NEW n \in left[s]
      PROVE  m <= n
  <2>1. n < m => <<n, m>> \in OpToRel(<, Nat)
    BY DEF OpToRel
  <2>2. ~(n < m)
    BY <1>1, <2>1, Zenon
  <2> QED
    BY <2>2
<1> QED
  BY <1>2 DEF NextFile

(* While one works, no other does, nor has any work open. *)
LEMMA WorksAlone ==
  ASSUME WorkInv, NEW s \in Servers, pc[s] \in Working, NEW r \in Servers \ {s}
  PROVE  pc[r] \notin Working /\ tx[r] = Empty
BY DEF WorkInv

(* The end of a transaction, committed or not. *)
LEMMA EndWorks ==
  ASSUME WorkInv, NEW s \in Servers, NEW next \in {"ready", "failed", "refused"},
         End(s, next), faults' \in Nat, db' \in States,
         db' = db \/ pc[s] \in Working
  PROVE  WorkInv'
<1>1. MigrateTypeOK'
  BY EmptyIsState DEF WorkInv, MigrateTypeOK, End
<1>2. \A r \in Servers : pc'[r] \in Working <=> holder' = r
  BY MigrateAssumption DEF WorkInv, MigrateTypeOK, End, Working
<1>3. \A r \in Servers : pc'[r] \in Working => view'[r] = db'
  BY WorksAlone DEF WorkInv, MigrateTypeOK, End, Working
<1>4. \A r \in Servers : pc'[r] \notin Working => tx'[r] = Empty
  BY DEF WorkInv, MigrateTypeOK, End, Working
<1>5. \A r \in Servers : pc'[r] \in {"create", "read"} =>
        tx'[r].versions = {} /\ tx'[r].ran = <<>>
  BY DEF WorkInv, MigrateTypeOK, End
<1> QED
  BY <1>1, <1>2, <1>3, <1>4, <1>5 DEF WorkInv, MigrateTypeOK, End

(* A statement of the one who holds the lock, followed by its next. *)
LEMMA StatementWorks ==
  ASSUME WorkInv, NEW s \in Servers, NEW next \in Working, Then(s, next),
         \/ pc[s] \in Working /\ holder' = holder
         \/ pc[s] = "lock" /\ holder = Nobody /\ holder' = s,
         tx' \in [Servers -> States], left' \in [Servers -> SUBSET Nat],
         \A r \in Servers \ {s} : tx'[r] = tx[r],
         \A r \in Servers \ {s} : left'[r] = left[r],
         next \in {"create", "read"} => tx'[s].versions = {} /\ tx'[s].ran = <<>>,
         next = "record" => left'[s] # {}
  PROVE  WorkInv'
<1>1. MigrateTypeOK'
  BY DEF WorkInv, MigrateTypeOK, Then, StatementView
<1>2. \A r \in Servers : pc'[r] \in Working <=> holder' = r
  BY MigrateAssumption DEF WorkInv, MigrateTypeOK, Then
<1>3. \A r \in Servers : pc'[r] \in Working => view'[r] = db'
  BY DEF WorkInv, MigrateTypeOK, Then, StatementView
<1>4. \A r \in Servers : pc'[r] \notin Working => tx'[r] = Empty
  BY DEF WorkInv, MigrateTypeOK, Then
<1>5. \A r \in Servers : pc'[r] \in {"create", "read"} =>
        tx'[r].versions = {} /\ tx'[r].ran = <<>>
  BY DEF WorkInv, MigrateTypeOK, Then, Working, Empty
<1> QED
  BY <1>1, <1>2, <1>3, <1>4, <1>5 DEF WorkInv, MigrateTypeOK, Then

LEMMA CommittedTyped ==
  ASSUME MigrateTypeOK, NEW s \in Servers
  PROVE  Committed(s) \in States
BY DEF MigrateTypeOK, Committed, States

LEMMA InitWorks == MigrateInit => WorkInv
<1> SUFFICES ASSUME MigrateInit PROVE WorkInv
  OBVIOUS
<1>1. MigrateTypeOK
  BY EmptyIsState DEF MigrateInit, MigrateTypeOK
<1> QED
  BY <1>1, MigrateAssumption DEF MigrateInit, WorkInv, Working

LEMMA NextWorks == WorkInv /\ [MigrateNext]_migrateVars => WorkInv'
<1> SUFFICES ASSUME WorkInv, [MigrateNext]_migrateVars PROVE WorkInv'
  OBVIOUS
<1> USE DEF WorkInv, MigrateTypeOK
<1>1. CASE UNCHANGED migrateVars
  BY <1>1 DEF migrateVars
<1>2. ASSUME NEW s \in Servers, Start(s) \/ Die(s)
      PROVE  WorkInv'
  BY <1>2 DEF Start, Die, Working, MayFault
<1>3. ASSUME NEW s \in Servers, Acquire(s)
      PROVE  WorkInv'
  BY <1>3, StatementWorks DEF Acquire, Working, Empty
<1>4. ASSUME NEW s \in Servers, Refuse(s)
      PROVE  WorkInv'
  BY <1>4, EndWorks DEF Refuse
<1>5. ASSUME NEW s \in Servers, CreateTable(s)
      PROVE  WorkInv'
  <2>1. CASE Refuse(s)
    BY <1>4, <2>1
  <2>2. CASE ~Refuse(s)
    <3>1. /\ pc[s] = "create" /\ Then(s, "read") /\ UNCHANGED <<holder, left>>
          /\ tx' = [tx EXCEPT ![s].created = ~db.created]
      BY <1>5, <2>2 DEF CreateTable
    <3>2. tx' \in [Servers -> States]
      BY <3>1 DEF States
    <3>3. tx'[s].versions = {} /\ tx'[s].ran = <<>>
      BY <3>1 DEF States
    <3> QED
      BY <3>1, <3>2, <3>3, StatementWorks DEF Working
  <2> QED
    BY <2>1, <2>2
<1>6. ASSUME NEW s \in Servers, ReadApplied(s)
      PROVE  WorkInv'
  <2>1. Pending(s, view[s].versions) \in SUBSET Nat
    BY MigrateAssumption DEF Pending
  <2> QED
    BY <1>6, <2>1, StatementWorks DEF ReadApplied, Working
<1>7. ASSUME NEW s \in Servers, RunFile(s)
      PROVE  WorkInv'
  <2>1. CASE Refuse(s)
    BY <1>4, <2>1
  <2>2. CASE ~Refuse(s)
    <3>1. /\ pc[s] = "files" /\ left[s] # {} /\ Then(s, "record") /\ UNCHANGED <<holder, left>>
          /\ tx' = [tx EXCEPT ![s].ran = Append(@, NextFile(s))]
      BY <1>7, <2>2 DEF RunFile
    <3>2. NextFile(s) \in Nat
      BY <3>1, NextIsOldest
    <3>3. Append(tx[s].ran, NextFile(s)) \in Seq(Nat)
      BY <3>2 DEF States
    <3>4. tx' \in [Servers -> States]
      BY <3>1, <3>3 DEF States
    <3> QED
      BY <3>1, <3>4, StatementWorks DEF Working
  <2> QED
    BY <2>1, <2>2
<1>8. ASSUME NEW s \in Servers, Record(s)
      PROVE  WorkInv'
  <2>1. CASE Refuse(s)
    BY <1>4, <2>1
  <2>2. CASE ~Refuse(s)
    <3>1. /\ pc[s] = "record" /\ Then(s, "files") /\ UNCHANGED holder
          /\ tx' = [tx EXCEPT ![s].versions = @ \cup {NextFile(s)}]
          /\ left' = [left EXCEPT ![s] = @ \ {NextFile(s)}]
      BY <1>8, <2>2 DEF Record
    <3>2. NextFile(s) \in Nat
      BY <1>8, NextIsOldest DEF Record
    <3>3. tx' \in [Servers -> States]
      BY <3>1, <3>2 DEF States
    <3> QED
      BY <3>1, <3>3, StatementWorks DEF Working
  <2> QED
    BY <2>1, <2>2
<1>9. ASSUME NEW s \in Servers, Commit(s) \/ LoseCommit(s) \/ Fail(s)
      PROVE  WorkInv'
  <2>1. faults' \in Nat
    BY <1>9 DEF Commit, LoseCommit, Fail, MayFault
  <2>2. db' = db \/ (db' = Committed(s) /\ pc[s] \in Working)
    BY <1>9 DEF Commit, LoseCommit, Fail, AtCommit, Working
  <2>3. \E next \in {"ready", "failed", "refused"} : End(s, next)
    BY <1>9 DEF Commit, LoseCommit, Fail
  <2> QED
    BY <2>1, <2>2, <2>3, CommittedTyped, EndWorks
<1> QED
  BY <1>1, <1>2, <1>3, <1>5, <1>6, <1>7, <1>8, <1>9 DEF MigrateNext, Step

-----------------------------------------------------------------------------
(* What runs, and in which order. *)

(* A step of one who does not work leaves the loops of the others alone.   *)
LEMMA OthersLoop ==
  ASSUME LoopInv, NEW s \in Servers, db' = db,
         \A r \in Servers \ {s} : tx'[r] = tx[r] /\ left'[r] = left[r] /\ pc'[r] = pc[r],
         pc'[s] \in {"files", "record"} => LoopOK(s)',
         WorkInv'
  PROVE  LoopInv'
<1>1. ASSUME NEW r \in Servers \ {s}, pc'[r] \in {"files", "record"}
      PROVE  LoopOK(r)'
  <2>1. LoopOK(r)
    BY <1>1 DEF LoopInv
  <2> QED
    BY <1>1, <2>1 DEF LoopOK, NextFile, Pending
<1> QED
  BY <1>1 DEF LoopInv

LEMMA AppendInOrder ==
  ASSUME NEW ran \in Seq(Nat), NEW v \in Nat, InOrder(ran), \A w \in ToSet(ran) : w < v
  PROVE  InOrder(Append(ran, v)) /\ ToSet(Append(ran, v)) = ToSet(ran) \cup {v}
<1>1. /\ DOMAIN Append(ran, v) = 1..(Len(ran) + 1) /\ DOMAIN ran = 1..Len(ran)
      /\ \A i \in DOMAIN ran : Append(ran, v)[i] = ran[i]
      /\ Append(ran, v)[Len(ran) + 1] = v
  OBVIOUS
<1>2. InOrder(Append(ran, v))
  BY <1>1 DEF InOrder, ToSet
<1>3. ToSet(Append(ran, v)) \subseteq ToSet(ran) \cup {v}
  BY <1>1 DEF ToSet
<1>4. ToSet(ran) \subseteq ToSet(Append(ran, v)) /\ v \in ToSet(Append(ran, v))
  BY <1>1 DEF ToSet
<1> QED
  BY <1>2, <1>3, <1>4

LEMMA JoinInOrder ==
  ASSUME NEW ran \in Seq(Nat), NEW more \in Seq(Nat), InOrder(ran), InOrder(more),
         \A v \in ToSet(ran), w \in ToSet(more) : v < w
  PROVE  InOrder(ran \o more) /\ ToSet(ran \o more) = ToSet(ran) \cup ToSet(more)
<1>1. \A i \in DOMAIN (ran \o more) :
        \/ i \in DOMAIN ran /\ (ran \o more)[i] = ran[i]
        \/ i - Len(ran) \in DOMAIN more /\ (ran \o more)[i] = more[i - Len(ran)]
  OBVIOUS
<1>2. \A i \in DOMAIN ran : i \in DOMAIN (ran \o more) /\ (ran \o more)[i] = ran[i]
  OBVIOUS
<1>3. \A i \in DOMAIN more :
        i + Len(ran) \in DOMAIN (ran \o more) /\ (ran \o more)[i + Len(ran)] = more[i]
  OBVIOUS
<1>4. InOrder(ran \o more)
  BY DEF InOrder, ToSet
<1>5. ToSet(ran \o more) \subseteq ToSet(ran) \cup ToSet(more)
  BY <1>1 DEF ToSet
<1>6. ToSet(ran) \cup ToSet(more) \subseteq ToSet(ran \o more)
  BY <1>2, <1>3 DEF ToSet
<1> QED
  BY <1>4, <1>5, <1>6

(* No statement is refused: nobody else's work is open, and a file still   *)
(* to run, or to be recorded, is newer than all that ran.                  *)
LEMMA NoneRefused ==
  ASSUME LoopInv, NEW s \in Servers
  PROVE  /\ CreateTable(s) =>
              /\ pc[s] = "create" /\ Then(s, "read") /\ UNCHANGED <<holder, left>>
              /\ tx' = [tx EXCEPT ![s].created = ~db.created]
         /\ RunFile(s) =>
              /\ pc[s] = "files" /\ left[s] # {} /\ Then(s, "record") /\ UNCHANGED <<holder, left>>
              /\ tx' = [tx EXCEPT ![s].ran = Append(@, NextFile(s))]
         /\ Record(s) =>
              /\ pc[s] = "record" /\ left[s] # {} /\ Then(s, "files") /\ UNCHANGED holder
              /\ tx' = [tx EXCEPT ![s].versions = @ \cup {NextFile(s)}]
              /\ left' = [left EXCEPT ![s] = @ \ {NextFile(s)}]
<1>1. ASSUME pc[s] = "create"
      PROVE  ~OpenElsewhere(s, LAMBDA t : t.created)
  BY <1>1, WorksAlone DEF LoopInv, Working, OpenElsewhere, Empty
<1>2. ASSUME pc[s] \in {"files", "record"}, left[s] # {}
      PROVE  NextFile(s) \notin db.versions /\ ~Contains(db.ran, NextFile(s))
  <2>1. NextFile(s) \in Pending(s, db.versions)
    BY <1>2, NextIsOldest DEF LoopInv, LoopOK, WorkInv, MigrateTypeOK
  <2>2. NextFile(s) \notin db.versions
    BY <2>1, MigrateAssumption DEF Pending
  <2>3. db.ran \in Seq(Nat)
    BY DEF LoopInv, WorkInv, MigrateTypeOK, States
  <2> QED
    BY <2>2, <2>3 DEF LoopInv, Contains, ToSet
<1>3. pc[s] = "record" => left[s] # {}
  BY DEF LoopInv, WorkInv
<1> QED
  BY <1>1, <1>2, <1>3 DEF CreateTable, RunFile, Record

(* What s ran and recorded joins what is committed. *)
LEMMA CommitLoops ==
  ASSUME LoopInv, NEW s \in Servers, AtCommit(s)
  PROVE  LET done == Committed(s)
         IN  done.versions = ToSet(done.ran) /\ InOrder(done.ran) /\ Closed(done.versions)
<1>1. /\ tx[s].versions = Pending(s, db.versions)
      /\ ToSet(tx[s].ran) = tx[s].versions /\ InOrder(tx[s].ran)
      /\ db.versions = ToSet(db.ran) /\ InOrder(db.ran) /\ Closed(db.versions)
  BY DEF LoopInv, LoopOK, AtCommit
<1>2. db.ran \in Seq(Nat) /\ tx[s].ran \in Seq(Nat)
  BY DEF LoopInv, WorkInv, MigrateTypeOK, States
<1>3. \A v \in ToSet(db.ran), w \in ToSet(tx[s].ran) : v < w
  <2>1. db.versions \subseteq Nat /\ Files[s] \subseteq Nat
    BY MigrateAssumption DEF LoopInv, WorkInv, MigrateTypeOK, States
  <2> QED
    BY <1>1, <2>1 DEF Pending
<1>4. /\ InOrder(db.ran \o tx[s].ran)
      /\ ToSet(db.ran \o tx[s].ran) = db.versions \cup tx[s].versions
  BY <1>1, <1>2, <1>3, JoinInOrder
<1>5. Closed(db.versions \cup tx[s].versions)
  <2> SUFFICES ASSUME NEW v \in tx[s].versions, NEW r \in Servers, NEW w \in Files[r], w < v,
                      w \notin db.versions
               PROVE  w \in tx[s].versions
    BY <1>1 DEF Closed
  <2>1. v \in Files[s]
    BY <1>1 DEF Pending
  <2>2. w \in Files[s]
    BY <2>1, BuildAssumption
  <2>3. ASSUME NEW x \in db.versions
        PROVE  w > x
    <3>1. w \in Nat /\ x \in Nat
      BY <2>2, MigrateAssumption DEF LoopInv, WorkInv, MigrateTypeOK, States
    <3>2. ~(w < x)
      BY <1>1 DEF Closed
    <3> QED
      BY <3>1, <3>2
  <2> QED
    BY <1>1, <2>2, <2>3 DEF Pending
<1> QED
  BY <1>4, <1>5 DEF Committed

MigrateInv == LoopInv /\ RacingIsNoError

LEMMA InitMigrates == MigrateInit => MigrateInv
<1> SUFFICES ASSUME MigrateInit PROVE MigrateInv
  OBVIOUS
<1>1. db.versions = {} /\ db.ran = <<>>
  BY DEF MigrateInit, Empty
<1>2. ToSet(db.ran) = {} /\ InOrder(db.ran) /\ Closed(db.versions)
  BY <1>1 DEF ToSet, InOrder, Closed
<1>3. \A s \in Servers : pc[s] = "down"
  BY DEF MigrateInit
<1> QED
  BY <1>1, <1>2, <1>3, InitWorks DEF MigrateInv, LoopInv, RacingIsNoError

LEMMA NextMigrates == MigrateInv /\ [MigrateNext]_migrateVars => MigrateInv'
<1> SUFFICES ASSUME MigrateInv, [MigrateNext]_migrateVars PROVE MigrateInv'
  OBVIOUS
<1> USE DEF MigrateInv
<1>1. WorkInv /\ WorkInv' /\ MigrateTypeOK
  BY NextWorks DEF LoopInv, WorkInv
<1>2. CASE UNCHANGED migrateVars
  BY <1>2 DEF migrateVars, LoopInv, LoopOK, NextFile, Pending, RacingIsNoError,
    WorkInv, MigrateTypeOK
<1>3. ASSUME NEW s \in Servers, Start(s) \/ Die(s) \/ Fail(s)
      PROVE  MigrateInv'
  <2>1. /\ db' = db /\ pc'[s] \in {"lock", "down", "failed"}
        /\ \A r \in Servers \ {s} : tx'[r] = tx[r] /\ left'[r] = left[r] /\ pc'[r] = pc[r]
    BY <1>1, <1>3 DEF Start, Die, Fail, End, MigrateTypeOK
  <2>2. LoopInv'
    BY <1>1, <2>1, OthersLoop
  <2> QED
    BY <2>1, <2>2 DEF RacingIsNoError
<1>4. ASSUME NEW s \in Servers, Acquire(s) \/ CreateTable(s)
      PROVE  MigrateInv'
  <2>1. /\ db' = db /\ pc'[s] \in {"create", "read"}
        /\ \A r \in Servers \ {s} : tx'[r] = tx[r] /\ left'[r] = left[r] /\ pc'[r] = pc[r]
    BY <1>1, <1>4, NoneRefused DEF Acquire, Then, MigrateTypeOK
  <2>2. LoopInv'
    BY <1>1, <2>1, OthersLoop
  <2> QED
    BY <2>1, <2>2 DEF RacingIsNoError
<1>5. ASSUME NEW s \in Servers, ReadApplied(s)
      PROVE  MigrateInv'
  <2>1. /\ db' = db /\ pc'[s] = "files" /\ tx' = tx
        /\ \A r \in Servers \ {s} : tx'[r] = tx[r] /\ left'[r] = left[r] /\ pc'[r] = pc[r]
        /\ left'[s] = Pending(s, db.versions)
    BY <1>1, <1>5 DEF ReadApplied, Then, WorkInv, MigrateTypeOK, Working
  <2>2. tx[s].versions = {} /\ tx[s].ran = <<>>
    BY <1>1, <1>5 DEF ReadApplied, WorkInv
  <2>3. LoopOK(s)'
    BY <2>1, <2>2 DEF LoopOK, Pending, ToSet, InOrder
  <2>4. LoopInv'
    BY <1>1, <2>1, <2>3, OthersLoop
  <2> QED
    BY <2>1, <2>4 DEF RacingIsNoError
<1>6. ASSUME NEW s \in Servers, RunFile(s)
      PROVE  MigrateInv'
  <2> DEFINE v == NextFile(s)
  <2>1. /\ pc[s] = "files" /\ left[s] # {} /\ db' = db /\ left' = left
        /\ tx' = [tx EXCEPT ![s].ran = Append(@, v)]
        /\ pc'[s] = "record"
        /\ \A r \in Servers \ {s} : tx'[r] = tx[r] /\ pc'[r] = pc[r]
    BY <1>1, <1>6, NoneRefused DEF Then, MigrateTypeOK
  <2>2. /\ tx[s].ran \in Seq(Nat) /\ v \in left[s] /\ v \in Nat
        /\ tx'[s].ran = Append(tx[s].ran, v) /\ tx'[s].versions = tx[s].versions
    BY <1>1, <2>1, NextIsOldest DEF MigrateTypeOK, States
  <2>3. LoopOK(s)
    BY <2>1 DEF LoopInv
  <2>4. InOrder(Append(tx[s].ran, v)) /\ ToSet(Append(tx[s].ran, v)) = ToSet(tx[s].ran) \cup {v}
    BY <2>1, <2>2, <2>3, AppendInOrder DEF LoopOK
  <2>5. NextFile(s)' = v
    BY <2>1 DEF NextFile
  <2> HIDE DEF v
  <2>6. LoopOK(s)'
    BY <2>1, <2>2, <2>3, <2>4, <2>5 DEF LoopOK, Pending
  <2>7. LoopInv'
    BY <1>1, <2>1, <2>6, OthersLoop
  <2> QED
    BY <2>1, <2>7 DEF RacingIsNoError
<1>7. ASSUME NEW s \in Servers, Record(s)
      PROVE  MigrateInv'
  <2> DEFINE v == NextFile(s)
  <2>1. /\ pc[s] = "record" /\ left[s] # {} /\ db' = db
        /\ left' = [left EXCEPT ![s] = @ \ {v}]
        /\ tx' = [tx EXCEPT ![s].versions = @ \cup {v}]
        /\ pc'[s] = "files"
        /\ \A r \in Servers \ {s} : tx'[r] = tx[r] /\ pc'[r] = pc[r] /\ left'[r] = left[r]
    BY <1>1, <1>7, NoneRefused DEF Then, MigrateTypeOK
  <2>2. /\ v \in left[s] /\ \A w \in left[s] : v <= w
        /\ left[s] \subseteq Nat
        /\ left'[s] = left[s] \ {v}
        /\ tx'[s].ran = tx[s].ran /\ tx'[s].versions = tx[s].versions \cup {v}
    BY <1>1, <2>1, NextIsOldest DEF MigrateTypeOK, States
  <2>3. LoopOK(s)
    BY <2>1 DEF LoopInv
  <2> HIDE DEF v
  <2>4. \A w \in left[s] \ {v} : v < w
    BY <2>2
  <2>5. ToSet(tx[s].ran) = tx[s].versions \cup {v} /\ InOrder(tx[s].ran)
    BY <2>1, <2>3 DEF LoopOK, v
  <2>6. LoopOK(s)'
    BY <2>1, <2>2, <2>3, <2>4, <2>5 DEF LoopOK, Pending
  <2>7. LoopInv'
    BY <1>1, <2>1, <2>6, OthersLoop
  <2> QED
    BY <2>1, <2>7 DEF RacingIsNoError
<1>8. ASSUME NEW s \in Servers, Commit(s) \/ LoseCommit(s)
      PROVE  MigrateInv'
  <2>1. /\ AtCommit(s) /\ db' = Committed(s) /\ pc'[s] \in {"ready", "failed"}
        /\ \A r \in Servers \ {s} : pc'[r] = pc[r]
    BY <1>1, <1>8 DEF Commit, LoseCommit, End, MigrateTypeOK
  <2>2. \A r \in Servers \ {s} : pc[r] \notin Working
    BY <1>1, <2>1, WorksAlone DEF AtCommit, Working
  <2>3. LoopInv'
    BY <1>1, <2>1, <2>2, CommitLoops DEF LoopInv, Working
  <2> QED
    BY <2>1, <2>3 DEF RacingIsNoError
<1> QED
  BY <1>2, <1>3, <1>4, <1>5, <1>6, <1>7, <1>8 DEF MigrateNext, Step

(* Whoever holds the lock, and no one else, has work that is not committed, *)
(* and what it has to run is newer than all that ran.                       *)
THEOREM MigrationsHold == MigrateSpec => []MigrateInv
BY InitMigrates, NextMigrates, PTL DEF MigrateSpec

(* migrate.go: "callers that race run one at a time": no server's start    *)
(* fails for another's sake, however many there are and whatever dies.     *)
THEOREM RacingServersStart == MigrateSpec => []RacingIsNoError
<1>1. MigrateInv => RacingIsNoError
  BY DEF MigrateInv
<1> QED
  BY <1>1, MigrationsHold, PTL

(* Each file runs once and in order, and what is recorded is what ran.     *)
THEOREM FilesRunInOrder == MigrateSpec => []RanOnceInOrder
<1>1. MigrateInv => RanOnceInOrder
  BY DEF MigrateInv, LoopInv, RanOnceInOrder, InOrder, Closed
<1> QED
  BY <1>1, MigrationsHold, PTL

=============================================================================
