CONSTANTS
  FaultCodes <- MCCodes
  Commands <- AllCommands
  VerifyOutcomes <- AllOutcomes
  Slopes <- AllSlopes
  PicoCanFail = FALSE
  MainCanHang = FALSE
  HomeConfigured = FALSE
  SwitchWired = TRUE
  AuthCanFail = TRUE
  CanTerminate = TRUE
SPECIFICATION Spec
INVARIANTS
  TypeOK
  PtoDiscipline
  SteepAutoNeedsHeldLevel
  ShutdownSafe
PROPERTIES
  SessionNeverRevives
  GpsFaultLocksOutAuto
CHECK_DEADLOCK FALSE
