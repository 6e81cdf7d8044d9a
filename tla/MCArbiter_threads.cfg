SPECIFICATION FairSpec
CONSTANTS
  t0 = t0
  t1 = t1
  t2 = t2
  Root = t0
  Task <- MCTask3
  Labels <- Integrity
  Owns <- OneLabel
  Sizes <- Small
  Calls <- ThreadCalls
  NSLOT = 2
  NCAT = 4
  NPAGE = 2
  SCALE = 1
  MaxCreate = 1
INVARIANTS
  WriteFlow
  ProtMatchesLabels
PROPERTIES
  RegisteredServed
CHECK_DEADLOCK FALSE
