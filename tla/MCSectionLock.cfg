SPECIFICATION FairSpec
CONSTANTS
  Threads = {t1, t2}
  NoThread = NoThread
  MaxAttempts = 2
  MaxDepth = 2
INVARIANTS
  IInv
  MutualExclusion
  OwnerAssertion
PROPERTIES
  TryReturns
  AbstractSpec
CHECK_DEADLOCK TRUE
