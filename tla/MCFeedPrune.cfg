SPECIFICATION FeedSpec
CONSTANTS
  t1 = t1
  t2 = t2
  r1 = r1
  k1 = k1
  k2 = k2
  s1 = s1
  s2 = s2
  s3 = s3
  AnyKind = AnyKind
  NoSchema = NoSchema
  Tuples <- MCTuples
  Relations <- MCRelations
  Kinds <- MCKinds
  RelOf <- MCRelOf
  KindOf <- MCKindOf
  NameRank <- MCNameRank
  f1 = f1
  Followers <- OneFollower
  Sessions <- TwoSessions
  Requests <- CutRequests
  MaxTupleLocks = 2
  MaxXid = 5
  MaxTime = 0
SYMMETRY SessionSymmetry
INVARIANTS LogCovers FreshRevisionReadable MarksBehindRunning
