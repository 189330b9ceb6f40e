----------------------------- MODULE ChangeFeed -----------------------------
(***************************************************************************)
(* The read side of internal/datastore/postgres beside its writers:        *)
(* followers keep copies of the store through Snapshot and Changes alone,  *)
(* as the follower of read_test.go does, while requests commit and Prune   *)
(* cuts the log.                                                           *)
(*                                                                         *)
(* A read is a RepeatableRead transaction.  All of its statements see the  *)
(* database as its first one did, so the tables are captured when it       *)
(* begins, and its answer, which arrives later, is a function of them.     *)
(***************************************************************************)
EXTENDS CentralStoreProps

CONSTANT Followers

VARIABLES
  rev,      \* the revision each follower holds
  copy,     \* the tuples it holds
  inForce,  \* the schema it holds
  readAt,   \* when its revision was read; no code reads it
  call,     \* the read under way
  view      \* what that read sees

feed     == <<rev, copy, inForce, readAt, call, view>>
feedVars == <<vars, feed>>

(* What a follower has before its first Snapshot: it has seen nothing. *)
NoRevision == [xmin |-> 0, xmax |-> 0, xip |-> {}]

NoView == [rev |-> NoRevision, tuples |-> {}, versions |-> {}, log |-> {},
           marks |-> {}, time |-> 0]

Revisions == Snapshots \cup {NoRevision}

Views == [rev : Revisions, tuples : SUBSET Tuples, versions : SUBSET Versions,
          log : SUBSET LogRows, marks : SUBSET Marks, time : Nat]

Calls == {"idle", "snapshot", "changes", "pruned"}

FeedTypeOK ==
  /\ TypeOK
  /\ rev \in [Followers -> Revisions]
  /\ copy \in [Followers -> SUBSET Tuples]
  /\ inForce \in [Followers -> Schemas \cup {NoSchema}]
  /\ readAt \in [Followers -> Nat]
  /\ call \in [Followers -> Calls]
  /\ view \in [Followers -> Views]

-----------------------------------------------------------------------------
(* What Changes answers to a follower at since, from what its transaction  *)
(* sees.                                                                   *)

(* Faults: a reader at since is taken to need only what began after it,    *)
(* and not what was still running when it read.                            *)
SchemaStartedSince(v, since) == Newest({w \in v.versions : w.xid >= since.xmax})
StartedSince(v, since) == {r.tuple : r \in {l \in v.log : l.xid >= since.xmax}}

(* The log no longer holds every change since: it is said to hold those of *)
(* its oldest mark on, and since needs them from its xmin on.              *)
Pruned(v, since) == ~\E m \in v.marks : m.xid <= since.xmin

(* The newest schema written since, if any was. *)
SchemaSince(v, since) ==
  Newest({w \in v.versions : ~Visible(w.xid, since)})

(* Every tuple a transaction since touched ... *)
TouchedSince(v, since) ==
  {r.tuple : r \in {l \in v.log : l.xid >= since.xmin /\ ~Visible(l.xid, since)}}

(* ... goes out as it stands now. *)
Present(v, since) == TouchedSince(v, since) \cap v.tuples
Absent(v, since)  == TouchedSince(v, since) \ v.tuples

-----------------------------------------------------------------------------

(* The first statement of a read fixes what all of it sees. *)
Capture == [rev |-> Current, tuples |-> tuples, versions |-> versions,
            log |-> log, marks |-> marks, time |-> now]

CallSnapshot(f) ==
  /\ \/ call[f] = "idle" /\ rev[f] = NoRevision
     \/ call[f] = "pruned"
  /\ call' = [call EXCEPT ![f] = "snapshot"]
  /\ view' = [view EXCEPT ![f] = Capture]
  /\ UNCHANGED <<vars, rev, copy, inForce, readAt>>

CallChanges(f) ==
  /\ call[f] = "idle"
  /\ rev[f] # NoRevision
  /\ call' = [call EXCEPT ![f] = "changes"]
  /\ view' = [view EXCEPT ![f] = Capture]
  /\ UNCHANGED <<vars, rev, copy, inForce, readAt>>

(* The read is over, with or without an answer. *)
Hangup(f, next) ==
  /\ call' = [call EXCEPT ![f] = next]
  /\ view' = [view EXCEPT ![f] = NoView]

Moves(f) ==
  /\ rev' = [rev EXCEPT ![f] = view[f].rev]
  /\ readAt' = [readAt EXCEPT ![f] = view[f].time]

(* A Snapshot replaces the copy. *)
startOver(f) ==
  /\ call[f] = "snapshot"
  /\ Moves(f)
  /\ copy' = [copy EXCEPT ![f] = view[f].tuples]
  /\ inForce' = [inForce EXCEPT ![f] = Newest(view[f].versions)]
  /\ Hangup(f, "idle")
  /\ UNCHANGED vars

(* A Delta moves it: tuples put in and taken out, the schema if there is   *)
(* one.                                                                    *)
advance(f) ==
  /\ call[f] = "changes"
  /\ ~Pruned(view[f], rev[f])
  /\ Moves(f)
  /\ copy' = [copy EXCEPT ![f] =
       (@ \cup Present(view[f], rev[f])) \ Absent(view[f], rev[f])]
  /\ inForce' = [inForce EXCEPT ![f] =
       LET since == SchemaSince(view[f], rev[f])
       IN  IF since = NoSchema THEN @ ELSE since]
  /\ Hangup(f, "idle")
  /\ UNCHANGED vars

(* Fault: the follower asks for the same changes again. *)
AnswerPrunedAgain(f) ==
  /\ call[f] = "changes"
  /\ Pruned(view[f], rev[f])
  /\ Hangup(f, "idle")
  /\ UNCHANGED <<vars, rev, copy, inForce, readAt>>

(* ErrPruned: the follower calls Snapshot next. *)
AnswerPruned(f) ==
  /\ call[f] = "changes"
  /\ Pruned(view[f], rev[f])
  /\ Hangup(f, "pruned")
  /\ UNCHANGED <<vars, rev, copy, inForce, readAt>>

(* A read that fails, or whose answer is lost, leaves the copy as it was. *)
LoseAnswer(f) ==
  /\ call[f] \in {"snapshot", "changes"}
  /\ Hangup(f, "idle")
  /\ UNCHANGED <<vars, rev, copy, inForce, readAt>>

FeedInit ==
  /\ Init
  /\ rev = [f \in Followers |-> NoRevision]
  /\ copy = [f \in Followers |-> {}]
  /\ inForce = [f \in Followers |-> NoSchema]
  /\ readAt = [f \in Followers |-> 0]
  /\ call = [f \in Followers |-> "idle"]
  /\ view = [f \in Followers |-> NoView]

Answer(f) == startOver(f) \/ advance(f) \/ AnswerPruned(f)

Ask(f) == CallSnapshot(f) \/ CallChanges(f)

FeedNext ==
  \/ Next /\ UNCHANGED feed
  \/ \E f \in Followers : Ask(f) \/ Answer(f) \/ LoseAnswer(f)

FeedSpec == FeedInit /\ [][FeedNext]_feedVars

-----------------------------------------------------------------------------

(* A follower that moves to a revision then holds the tuples and the       *)
(* schema that were in force at it, whichever transactions began, ended or *)
(* were pruned in between: no change is lost and none comes too early.     *)
CopyExact ==
  [][\A f \in Followers : rev'[f] # rev[f] =>
       /\ copy'[f] = view[f].tuples
       /\ inForce'[f] = Newest(view[f].versions)]_feedVars

(* The contract of contract_test.go's violation: at every revision it      *)
(* reaches, the follower's schema takes every tuple it holds.              *)
CopyConforms ==
  \A f \in Followers : \A t \in copy[f] :
    inForce[f] # NoSchema /\ checkFilter(inForce[f], FilterOf(t))

(* What table contents owe a reader at since: where they differ from what  *)
(* it holds, the log says so, or the marks tell it to start over.          *)
Covers(v, since, held) ==
  Pruned(v, since)
  \/ \A t \in Tuples : (t \in v.tuples) # (t \in held) => t \in TouchedSince(v, since)

(* Prune never cuts a change a follower it will not refuse still needs,    *)
(* nor what a transaction still running will have logged.                  *)
LogCovers ==
  \A f \in Followers : rev[f] # NoRevision => Covers(Capture, rev[f], copy[f])

(* A revision just read can be read from: the log reaches back to every    *)
(* transaction still running, so starting over never fails at once.        *)
FreshRevisionReadable == ~Pruned(Capture, Current)

(* No mark, so no cut, is past a transaction still running. *)
MarksBehindRunning ==
  \A m \in marks \cup UNION {pending[s].mark : s \in Sessions} :
    m.xid <= Current.xmin

(* prune.go: "Prune drops the changes that only a reader more than keep    *)
(* behind still needs", so a follower less than keep behind, and one that  *)
(* has a change to learn of, is not refused.                               *)
KeepHonoured ==
  \A f \in Followers : \A r \in Requests :
    /\ call[f] = "changes"
    /\ Pruned(view[f], rev[f])
    /\ view[f].tuples # copy[f]
    /\ r.kind = "prune"
    => view[f].time - readAt[f] >= r.keep

(* Once requests stop, every follower holds what the store does and stays  *)
(* there, however many of its reads were lost or refused before.           *)
Quiet == \A s \in Sessions : pc[s] = "idle"

Converges ==
  <>[]Quiet => \A f \in Followers :
                 <>[](copy[f] = tuples /\ inForce[f] = latestSchema)

(* A follower keeps reading, and of neither call is every answer lost. *)
FeedFairness ==
  \A f \in Followers :
    /\ WF_feedVars(Ask(f))
    /\ SF_feedVars(startOver(f))
    /\ SF_feedVars(advance(f) \/ AnswerPruned(f))

FairFeedSpec == FeedSpec /\ Fairness /\ FeedFairness

=============================================================================
