SPECIFICATION Spec
CONSTANTS
  t0 = t0
  t1 = t1
  t2 = t2
  Root = t0
  Task <- MCTask3
  Labels <- OneLabel
  Owns <- OneLabel
  Sizes <- Small
  Calls <- MemoryCalls
  NSLOT = 2
  NCAT = 4
  NPAGE = 2
  SCALE = 1
  MaxCreate = 0
INVARIANTS
  MappingUpdated
CHECK_DEADLOCK FALSE
