SPECIFICATION Spec
CONSTANTS
  Templates <- MCTemplates
  Memories <- MCMemories
  Structures <- MCStructures
  Parameters <- MCParameters
  MaxAddr = 9
  MaxNew = 1
  NoName = NoName
  Null = Null
CHECK_DEADLOCK FALSE
INVARIANTS
  BookkeepingExact
  FoundExact
