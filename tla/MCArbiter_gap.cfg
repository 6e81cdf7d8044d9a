SPECIFICATION Spec
CONSTANTS
  t0 = t0
  t1 = t1
  t2 = t2
  Root = t0
  Task <- MCTask2
  Labels <- Secrecy
  Owns <- Secrecy
  Sizes <- SizesGap
  Calls <- MemoryCalls
  NSLOT = 2
  NCAT = 4
  NPAGE = 2
  SCALE = 1
  MaxCreate = 1
INVARIANTS
  ProtMatchesLabels
CHECK_DEADLOCK FALSE
