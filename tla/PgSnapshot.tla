----------------------------- MODULE PgSnapshot -----------------------------
(***************************************************************************)
(* Transaction ids and snapshots as Postgres defines them, external to the *)
(* repository: pg_current_snapshot(), pg_snapshot_xmin() and               *)
(* pg_visible_in_snapshot(), which markSQL (prune.go) and Changes          *)
(* (read.go) are built from.  A Revision of the store is the text of such  *)
(* a snapshot.                                                             *)
(*                                                                         *)
(* Transactions take increasing ids, and end in any order.  A snapshot     *)
(* sees the transactions that had ended when it was taken:                 *)
(*   xmax  one past the newest id that had ended,                          *)
(*   xip   the ids below xmax that were still running,                     *)
(*   xmin  the oldest id that was still running, xmax when none was.       *)
(***************************************************************************)
EXTENDS Integers

Xids == Nat \ {0}

Snapshots == [xmin : Xids, xmax : Xids, xip : SUBSET Xids]

(* The least member of a non-empty set of naturals. *)
Least(S) == CHOOSE m \in S : \A n \in S : m <= n

(* The snapshot of a database whose running transactions are active and    *)
(* whose newest ended transaction is latest.                               *)
TakeSnapshot(active, latest) ==
  LET xip == {x \in active : x <= latest}
  IN  [xmin |-> Least(xip \cup {latest + 1}), xmax |-> latest + 1, xip |-> xip]

(* Whether snapshot s sees what the transaction x did. *)
Visible(x, s) == x < s.xmax /\ x \notin s.xip

=============================================================================
