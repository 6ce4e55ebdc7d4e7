CONSTANTS
  FaultCodes <- MCCodes
  Commands <- StopCommands
  VerifyOutcomes <- PassOutcomes
  Slopes <- NoSlope
  PicoCanFail = TRUE
  MainCanHang = TRUE
  HomeConfigured = TRUE
  SwitchWired = TRUE
  AuthCanFail = FALSE
  CanTerminate = FALSE
SPECIFICATION Spec
PROPERTIES
  UnsafeAutoIsLeft
  SilentPicoBlocks
  HungMainIsStopped
