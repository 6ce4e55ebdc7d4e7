CONSTANTS
  main = main
  watchdog = watchdog
  caller1 = caller1
  caller2 = caller2
  NoThread = NoThread
  Threads <- MCThreads
  Resetters <- MCResetters
  FaultCodes <- MCFaultCodes
SPECIFICATION Spec
INVARIANTS
  TypeOK
  DisagreementNeedsOverlap
