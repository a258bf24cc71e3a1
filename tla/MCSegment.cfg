SPECIFICATION FairSpec
CONSTANTS
  ElementsCount = 5
  Level = 2
  Nums = {0, 1}
  t1 = t1
  t2 = t2
  Threads = {t1, t2}
  Id <- TwoIds
  None = None
INVARIANTS
  IInv
  ElementsCounted
PROPERTIES
  NeverOverwrites
  CallReturns
