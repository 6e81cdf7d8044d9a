SPECIFICATION FairSpec
CONSTANTS
  t0 = t0
  t1 = t1
  t2 = t2
  t3 = t3
  Root = t0
  Task <- MCTask4
  Creators <- One
INVARIANTS
  TypeOK
  JoinedBeforeFork
  MutualExclusion
PROPERTIES
  CreateReturns
CHECK_DEADLOCK FALSE
