SPECIFICATION CompilerSpec
CONSTANTS
  type0 = type0
  type1 = type1
  type2 = type2
  type3 = type3
  Types <- MCTypes
  Relations = {1, 2, 3}
  Objects = {}
  TypeOf <- MCTypeOf
  Names <- MCNames
  NoName = ""
  WildcardMarker = "*"
  Limit = 3
  Definitions = {}
  Terms = {}
  Walk <- PartsOf
  ValidNames <- MCValid
  Starts <- MCStarts
  Later <- MCLater
  Pieces <- MCPieces
  TypeAt <- MCTypeAt
INVARIANTS ParsesAsWritten BothReadingsParse SchemaSaysItsSource
CHECK_DEADLOCK FALSE
