SPECIFICATION Spec
CONSTANTS
  Slots = 4
  Given = 3
  PerArc = 2
  MaxNew = 1
  MaxFree = 2
  V = V
  W = W
  E = E
  Null = Null
CHECK_DEADLOCK FALSE
INVARIANTS
  RefsAccounted
  AllReturned
  KeepsToList
PROPERTIES
  WalkEnds
