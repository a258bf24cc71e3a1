SPECIFICATION Spec
CONSTANTS
  p1 = p1
  p2 = p2
  l1 = l1
  l2 = l2
  s = s
  b = b
  e = e
  Null = Null
  Proc <- MCProc
  Link <- MCLink
  Short <- MCShort
  Long <- MCLong
  Empty = e
  Given <- MCLink
  MaxOps = 3
  MaxSaves = 1
  MaxStarts = 1
CHECK_DEADLOCK FALSE
INVARIANTS
  BackLinksExact
  SavedExact
  ReadsBack
PROPERTIES
  FoundExact
  CallsEnd
