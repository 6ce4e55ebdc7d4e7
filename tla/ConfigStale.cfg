SPECIFICATION FairSpec
CONSTANTS
  Pullers <- MCPullers
  MaxVersion = 2
  ServerFloors <- MCFloors
  FloorMin <- MCFloorMin
  FloorMax <- MCFloorMax
  NaN = NaN
  NoConfig = NoConfig
  NoFile = NoFile
  Empty = Empty
  Broken = Broken
  MaxQueued = 1
  MaxRestarts = 0
  DiskCanFail = FALSE
  NetworkCanFail = TRUE
PROPERTY
  PublishedAlwaysApplied
