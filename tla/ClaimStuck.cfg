SPECIFICATION SubSpec
CONSTANTS
  Components <- MCClaimOnly
  MaxWire = 2
  MaxStarts = 1
  MaxCommands = 3
  MaxWaypoints = 3
  GearMax = 3
  StreamCallers = {c1, c2}
  MaxStreams = 3
  NumUnits = 2
  NoZone = NoZone
  NoUnit = NoUnit
  MaxTokens = 2
  MaxTrouble = 1
  NoToken = NoToken
  NumCommands = 2
  MaxDelivered = 2
  MaxSessions = 2
  MaxDeaths = 1
  QueueMax = 3
  BatchMax = 3
  MaxBuilt = 7
  MaxLedWire = 2
  MaxFlows = 2
  MaxAtOnce = 2
  MaxCameras = 1
  BufferMax = 3
  MaxCollected = 6
  Grid = 2
  Starts <- MCStarts
  Reloads <- MCReloads
  MaxHalfDeck = 2
  MaxBoxWidth = 9
  FaultCodes = {OBSTACLE, OTHER}
  ObstacleCode = OBSTACLE
  OtherCodes = {OTHER}
  NumNetworks = 3
PROPERTY
  RefusedIsUnclaimed
CHECK_DEADLOCK FALSE
