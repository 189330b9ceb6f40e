------------------------------ MODULE MCStore -------------------------------
(* Instances of CentralStore for TLC. *)
EXTENDS CentralStoreProps, TLC

CONSTANTS s1, s2, s3, t1, t2, t3, r1, r2, k1, k2

MCTuples == {t1, t2, t3}
MCRelations == {r1, r2}
MCKinds == {k1, k2}
MCRelOf == t1 :> r1 @@ t2 :> r1 @@ t3 :> r2
MCKindOf == t1 :> k1 @@ t2 :> k2 @@ t3 :> k1

(* prune < relation:... < schema < tuple:..., as the names of lock.go sort. *)
MCNameRank ==
  "prune" :> 0 @@ r1 :> 1 @@ r2 :> 2 @@ "schema" :> 3
  @@ t1 :> 4 @@ t2 :> 5 @@ t3 :> 6

TwoSessions == {s1, s2}
ThreeSessions == {s1, s2, s3}
SessionSymmetry == Permutations(Sessions)

Put(t) == [op |-> "touch", tuple |-> t]
Cancel(t) == [op |-> "delete", tuple |-> t]
WriteOf(updates) == [kind |-> "write", updates |-> updates]
DeleteOf(rel, kind) == [kind |-> "delete", filter |-> [rel |-> rel, kind |-> kind]]
SchemaOf(a, b) == [kind |-> "schema", schema |-> (r1 :> a @@ r2 :> b)]

Full == SchemaOf({k1, k2}, {k1})

(* Small and large writes and deletes by filter over the same rows, against *)
(* schemas that drop a subject type or a whole relation.                    *)
RaceRequests ==
  { Full,
    SchemaOf({k2}, {k1}),
    SchemaOf({}, {k1}),
    WriteOf(<<Put(t1)>>),
    WriteOf(<<Cancel(t1)>>),
    WriteOf(<<Put(t1), Put(t2)>>),
    WriteOf(<<Cancel(t2), Cancel(t1)>>),
    DeleteOf(r1, AnyKind),
    DeleteOf(r1, k1) }

(* Requests over two relations, with tuples named in opposite orders, and  *)
(* the log being cut beside them.                                          *)
CrossingRequests ==
  { Full,
    WriteOf(<<Put(t1), Put(t3)>>),
    WriteOf(<<Cancel(t3), Cancel(t1)>>),
    WriteOf(<<Put(t3), Put(t2), Cancel(t1)>>),
    WriteOf(<<Put(t1), Cancel(t1)>>),
    WriteOf(<<>>),
    DeleteOf(r2, k1),
    SchemaOf({k1}, {}),
    [kind |-> "prune", keep |-> 1] }
=============================================================================
