CONSTANTS
  FaultCodes <- MCCodes
  Commands <- StartOnly
  VerifyOutcomes <- PassOutcomes
  Slopes <- NoSlope
  PicoCanFail = TRUE
  MainCanHang = FALSE
  HomeConfigured = TRUE
  SwitchWired = TRUE
  AuthCanFail = FALSE
  CanTerminate = FALSE
SPECIFICATION LiveMainSpec
PROPERTY
  EStopModeHaltsBlades
