CONSTANTS
  FaultCodes <- MCCodes
  Commands <- StartOnly
  VerifyOutcomes <- PassOutcomes
  Slopes <- NoSlope
  PicoCanFail = FALSE
  MainCanHang = FALSE
  HomeConfigured = TRUE
  SwitchWired = TRUE
  AuthCanFail = FALSE
  CanTerminate = FALSE
SPECIFICATION LiveMainSpec
PROPERTY
  SwitchOverridesAuto
