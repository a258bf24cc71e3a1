SPECIFICATION FairSpec
CONSTANTS
  Clients = {c1, c2}
  Workers = {w1}
  Subs = {e1}
  x1 = x1
  x2 = x2
  Elements = {x1}
  Element <- OneElement
  NoThread = NoThread
  NoSub = NoSub
  MaxEmits = 2
  CanStop = FALSE
  CallbacksEmit = FALSE
PROPERTY DestroyReturns
CHECK_DEADLOCK FALSE
