SPECIFICATION Spec
CONSTANTS
  Quest <- MCQuest
  Op <- MCOp
  Var <- MCVar
  Systems <- MCSystems
  Roots = {"main"}
  MaxArcs = 2
CHECK_DEADLOCK FALSE
INVARIANTS
  JoinWaits
  OneControl
  ErasesOwn
PROPERTIES
  NoLostAnswer
  ReliableEnds
  ReturnedEnds
