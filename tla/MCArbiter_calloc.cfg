SPECIFICATION Spec
CONSTANTS
  t0 = t0
  t1 = t1
  t2 = t2
  Root = t0
  Task <- MCTask2
  Labels <- OneLabel
  Owns <- OneLabel
  Sizes <- Large
  Calls <- CallocCalls
  NSLOT = 2
  NCAT = 2
  NPAGE = 2
  SCALE = 1
  MaxCreate = 0
PROPERTIES
  CallocClean
CHECK_DEADLOCK FALSE
