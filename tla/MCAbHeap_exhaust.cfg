SPECIFICATION Spec
CONSTANTS
  Label = {"a"}
  UNIT_SIZE = 80
  MaxUnits = 2
  MXFAST = 16
  MIN_LARGE_SIZE = 32
  LOG_PER = 0
  NBINS = 6
  WIDTH = 8
  Requests = {12, 20, 36}
  Elements = {2, 127}
  MaxLive <- MCMaxLive
PROPERTY BlocksSpec
CHECK_DEADLOCK FALSE
