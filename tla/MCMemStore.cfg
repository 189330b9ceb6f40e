SPECIFICATION FairMemSpec
CONSTANTS
  user = user
  team = team
  a = a
  b = b
  u = u
  v = v
  w = w
  m = m
  p = p
  none = none
  any = any
  c1 = c1
  c2 = c2
  r1 = r1
  r2 = r2
  Names <- MCNames
  NoName = none
  WildcardMarker = any
  Limit = 4
  Nil = Nil
  Checkers <- TwoCheckers
  Refs <- TwoRefs
  Tuples <- MCTuples
  History <- MCHistory
  Questions <- MCQuestions
  MaxReads = 2
  MaxIdle = 1
INVARIANTS MemTypeOK NeverBothLive HeldWhole AnswersOneRevision
PROPERTY EveryCallEnds
