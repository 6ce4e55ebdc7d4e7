SPECIFICATION FairSpec
CONSTANTS
  Pullers <- MCPullers
  MaxVersion = 3
  ServerFloors <- MCFloors
  FloorMin <- MCFloorMin
  FloorMax <- MCFloorMax
  NaN = NaN
  NoConfig = NoConfig
  NoFile = NoFile
  Empty = Empty
  Broken = Broken
  MaxQueued = 1
  MaxRestarts = 1
  DiskCanFail = TRUE
  NetworkCanFail = TRUE
INVARIANTS
  FloorsEnforced
  CacheWhole
PROPERTIES
  NeverOlder
  PublishedIsApplied
