--------------------------- MODULE MCEStopCallers ---------------------------
(* TLC instance of EStopCallers: the main loop, which triggers and resets, *)
(* and three threads that only trigger.                                    *)
EXTENDS EStopCallers, TLC

CONSTANTS main, watchdog, caller1, caller2

MCThreads == {main, watchdog, caller1, caller2}
MCResetters == {main}
MCFaultCodes == {"ESTOP_TRIGGERED"}
=============================================================================
