SPECIFICATION Spec
CONSTANTS
  Label = {"a", "b"}
  UNIT_SIZE = 104
  MaxUnits = 2
  MXFAST = 24
  MIN_LARGE_SIZE = 32
  LOG_PER = 0
  NBINS = 6
  WIDTH = 8
  Requests = {0, 17, 28, 240}
  Elements = {2, 127}
  MaxLive <- MCMaxLive
CONSTRAINT BeforeExhaustion
INVARIANTS TypeOK Tiled BoundaryTags NeverCorrupt ListsRight HeapInv
PROPERTIES UnitWhenNeeded BlocksSpec
CHECK_DEADLOCK FALSE
