---------------------------- MODULE MCSafetyCore ----------------------------
(* TLC instances of SafetyCore.  Each .cfg turns on the part of the        *)
(* environment its question needs; the threads are always all there.       *)
EXTENDS SafetyCore, TLC

MCCodes == {"ESTOP_TRIGGERED", "PICO_TIMEOUT", "GPS_SIGNAL_LOST", "GPS_ACCURACY_LOW"}

AllCommands == {"mow_start", "mow_stop", "return_home", "estop", "estop_reset"}
StopCommands == {"mow_start", "estop", "estop_reset"}
StartOnly == {"mow_start"}
NoCommands == {}

AllOutcomes == {"pass", "refuse", "no_fix", "inaccurate"}
PassOutcomes == {"pass", "refuse"}

NoSlope == {"unknown"}
AllSlopes == SlopeBands
=============================================================================
