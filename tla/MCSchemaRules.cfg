SPECIFICATION BuilderSpec
CONSTANTS
  user = user
  team = team
  u = u
  x = x
  a = a
  b = b
  m = m
  up = up
  p = p
  q = q
  Types <- MCTypes
  Relations <- MCRelations
  Objects <- MCObjects
  TypeOf <- MCTypeOf
  Definitions <- MCDefinitions
  Terms <- MCTerms
  Walk <- PartsOf
  Stores <- MCStores
  Askers <- MCAskers
  Stranger = x
  Meaning <- MeaningOfAll
INVARIANTS BuilderTypeOK BuiltHasMeaning UnreachableOnlyGrants NoUsersetHoldsEveryone RefusesOnlyLoops
CHECK_DEADLOCK FALSE
