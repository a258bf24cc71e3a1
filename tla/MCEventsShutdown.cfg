SPECIFICATION FairSpec
CONSTANTS
  Clients = {c1}
  Workers = {w1, w2}
  Subs = {e1, e2}
  x1 = x1
  x2 = x2
  Elements = {x1}
  Element <- OneElement
  NoThread = NoThread
  NoSub = NoSub
  MaxEmits = 3
  CanStop = TRUE
  CallbacksEmit = FALSE
PROPERTIES
  DestroyReturns
  Delivered
CHECK_DEADLOCK FALSE
