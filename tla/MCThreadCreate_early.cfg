SPECIFICATION Spec
CONSTANTS
  t0 = t0
  t1 = t1
  t2 = t2
  t3 = t3
  Root = t0
  Task <- MCTask4
  Creators <- Two
INVARIANTS
  JoinedBeforeFork
CHECK_DEADLOCK FALSE
