------------------------------- MODULE MCFeed -------------------------------
(* Instances of ChangeFeed for TLC. *)
EXTENDS ChangeFeed, TLC

CONSTANTS s1, s2, s3, f1, t1, t2, r1, k1, k2

MCTuples == {t1, t2}
MCRelations == {r1}
MCKinds == {k1, k2}
MCRelOf == t1 :> r1 @@ t2 :> r1
MCKindOf == t1 :> k1 @@ t2 :> k2
MCNameRank == "prune" :> 0 @@ r1 :> 1 @@ "schema" :> 2 @@ t1 :> 3 @@ t2 :> 4

OneSession == {s1}
TwoSessions == {s1, s2}
ThreeSessions == {s1, s2, s3}
OneFollower == {f1}
SessionSymmetry == Permutations(Sessions)

Put(t) == [op |-> "touch", tuple |-> t]
WriteOf(updates) == [kind |-> "write", updates |-> updates]
DeleteOf(rel, kind) == [kind |-> "delete", filter |-> [rel |-> rel, kind |-> kind]]
SchemaOf(a) == [kind |-> "schema", schema |-> r1 :> a]

(* Writes and deletes that overlap in time, and schemas among them. *)
OrderRequests ==
  { SchemaOf({k1, k2}),
    SchemaOf({k1}),
    WriteOf(<<Put(t1)>>),
    WriteOf(<<Put(t2)>>),
    DeleteOf(r1, AnyKind) }

(* Writes that overlap in time with the log being cut at once. *)
CutRequests ==
  { SchemaOf({k1, k2}),
    WriteOf(<<Put(t1)>>),
    WriteOf(<<Put(t2)>>),
    [kind |-> "prune", keep |-> 0] }

(* The log being cut by age. *)
KeepRequests ==
  { SchemaOf({k1, k2}), WriteOf(<<Put(t1)>>), [kind |-> "prune", keep |-> 1] }

(* A little of everything, for liveness: small writes share the relation's *)
(* lock, which large ones and deletes by filter wait to have alone.        *)
FairRequests ==
  { SchemaOf({k1, k2}),
    WriteOf(<<Put(t1)>>),
    WriteOf(<<Put(t1), Put(t2)>>),
    DeleteOf(r1, k1),
    [kind |-> "prune", keep |-> 0] }
=============================================================================
