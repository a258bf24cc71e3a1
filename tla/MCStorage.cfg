SPECIFICATION Spec
CONSTANTS
  Addr = {a1, a2, a3, a4}
  NoAddr = NoAddr
  Levels = {0, 1}
  MaxRefs = 2
  MaxHeld = 1
SYMMETRY SlotSymmetry
CONSTRAINT RaisedOrHeld
INVARIANTS
  ListsExact
  RefsExact
PROPERTIES
  GraphSpec
  RightsButLast
CHECK_DEADLOCK FALSE
