SPECIFICATION Spec
CONSTANTS
  t0 = t0
  t1 = t1
  t2 = t2
  Root = t0
  Task <- MCTask2
  Labels <- OneLabel
  Owns <- OneLabel
  Sizes <- SizeClass
  Calls <- HeapCalls
  NSLOT = 2
  NCAT = 4
  NPAGE = 5
  SCALE = 1
  MaxCreate = 0
INVARIANTS
  HeapConsistent
CHECK_DEADLOCK FALSE
