SPECIFICATION Spec
CONSTANTS
  c1 = c1
  c2 = c2
  Conn <- MCConn
  Sends <- MCSends
  Garbage <- MCGarbage
  MaxCmds <- MCCmds
  MaxEvents = 2
  MaxEmits = 1
  Null = Null
CHECK_DEADLOCK FALSE
INVARIANTS
  NoDanglingCommand
  InOrder
  ExactlyOnce
PROPERTIES
  BusyEnds
