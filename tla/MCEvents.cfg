SPECIFICATION Spec
CONSTANTS
  Clients = {c1, c2}
  Workers = {w1}
  Subs = {e1, e2, e3}
  x1 = x1
  x2 = x2
  Elements = {x1, x2}
  Element <- TwoElements
  NoThread = NoThread
  NoSub = NoSub
  MaxEmits = 2
  CanStop = FALSE
  CallbacksEmit = TRUE
SYMMETRY ThreadSymmetry
INVARIANTS
  NoUseAfterFree
  RefsAccounted
  EmissionsSeeLive
CHECK_DEADLOCK FALSE
