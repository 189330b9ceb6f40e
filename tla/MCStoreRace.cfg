SPECIFICATION Spec
CONSTANTS
  t1 = t1
  t2 = t2
  r1 = r1
  k1 = k1
  k2 = k2
  s1 = s1
  s2 = s2
  s3 = s3
  AnyKind = AnyKind
  NoSchema = NoSchema
  Tuples <- MCTuples
  Relations <- MCRelations
  Kinds <- MCKinds
  RelOf <- MCRelOf
  KindOf <- MCKindOf
  NameRank <- MCNameRank
  t3 = t3
  r2 = r2
  Sessions <- ThreeSessions
  Requests <- RaceRequests
  MaxTupleLocks = 1
  MaxXid = 6
  MaxTime = 0
SYMMETRY SessionSymmetry
INVARIANTS TypeOK SchemaConform NoRowWait StaleFilterHarmless VersionsCommitInOrder
PROPERTY Atomic
