SPECIFICATION EvalSpec
CONSTANTS
  user = user
  team = team
  u = u
  a = a
  b = b
  c = c
  m = m
  up = up
  p = p
  q = q
  r = r
  s = s
  Types <- MCTypes
  Relations <- MCRelations
  Objects <- MCObjects
  TypeOf <- MCTypeOf
  Cases <- MCCases
  Meanings <- MCMeanings
  MaxProofNodes = 256
INVARIANT AllowedIsJustified
CHECK_DEADLOCK FALSE
