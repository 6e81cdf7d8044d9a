SPECIFICATION Spec
CONSTANTS
  t0 = t0
  t1 = t1
  t2 = t2
  Root = t0
  Task <- MCTask2
  Labels <- OneLabel
  Owns <- OneLabel
  Sizes <- Large
  Calls <- MemoryCalls
  NSLOT = 2
  NCAT = 4
  NPAGE = 3
  SCALE = 1
  MaxCreate = 0
INVARIANTS
  UnitsDisjoint
CHECK_DEADLOCK FALSE
