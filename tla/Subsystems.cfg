SPECIFICATION SubSpec
CONSTANTS
  Components <- MCAll
  MaxWire = 1
  MaxStarts = 2
  MaxCommands = 3
  MaxWaypoints = 3
  GearMax = 3
  StreamCallers = {c1, c2}
  MaxStreams = 3
  NumUnits = 2
  NoZone = NoZone
  NoUnit = NoUnit
  MaxTokens = 4
  MaxTrouble = 3
  NoToken = NoToken
  NumCommands = 2
  MaxDelivered = 2
  MaxSessions = 2
  MaxDeaths = 1
  QueueMax = 3
  BatchMax = 3
  MaxBuilt = 7
  MaxLedWire = 2
  MaxFlows = 2
  MaxAtOnce = 2
  MaxCameras = 1
  BufferMax = 3
  MaxCollected = 6
  Grid = 2
  Starts <- MCStarts
  Reloads <- MCReloads
  MaxHalfDeck = 2
  MaxBoxWidth = 9
  FaultCodes = {OBSTACLE, OTHER}
  ObstacleCode = OBSTACLE
  OtherCodes = {OTHER}
  NumNetworks = 3
INVARIANTS
  TypeOK
  RelaysAgree
  ExitCutsRelays
  MovingHasDeadline
  PathIsFaithful
  GearAgreesAtRest
  OrphanNeedsOverlap
  SharedZoneLeftOut
  TokenSurvives
  CommandsRunOnce
  OrphanSessionExplained
  EverySnapshotAccounted
  NoStaleLights
  MenuWorks
  LostOnlyAfterItsWriteFailed
  DockedSawMarker
  BreachIsTrue
  GapOnlyAtFarEdge
  StopsAndFaultsAreTold
  GivesUpOnlyWithoutNetwork
PROPERTIES
  ShutdownEnds
  SilenceCutsRelays
  ClaimRecovers
  ImplementsLossyStore
CHECK_DEADLOCK FALSE
