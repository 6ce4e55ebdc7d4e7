CONSTANTS
  FaultCodes <- MCCodes
  Commands <- NoCommands
  VerifyOutcomes <- PassOutcomes
  Slopes <- NoSlope
  PicoCanFail = FALSE
  MainCanHang = TRUE
  HomeConfigured = TRUE
  SwitchWired = FALSE
  AuthCanFail = FALSE
  CanTerminate = FALSE
SPECIFICATION Spec
PROPERTY
  HungMainFaultHolds
