-------------------------------- MODULE EStop --------------------------------
(***************************************************************************)
(* The emergency-stop latch of safety/estop.py.  trigger() and reset()     *)
(* each take the lock for the flag, release it, and only then call the     *)
(* fault manager: two atomic steps, with every other thread free to run in *)
(* between.  A thread that uses the latch keeps its own program counter;   *)
(* this module gives the steps, the modules that extend it sequence them.  *)
(* No shutdown callback is registered anywhere in the program, so the      *)
(* callback loop of trigger() does nothing.                                *)
(***************************************************************************)
EXTENDS FaultManager

VARIABLE triggered         \* EStop._triggered

ASSUME EStopCodeAssumption == "ESTOP_TRIGGERED" \in FaultCodes

LatchTypeOK == triggered \in BOOLEAN

LatchInit == triggered = FALSE

\* trigger(), under the lock: the first caller sets the flag ...
SetLatch == ~triggered /\ triggered' = TRUE

\* ... and reports the fault after the lock is released.
ReportLatchFault == ReportFault("ESTOP_TRIGGERED", "FATAL")

\* reset(), under the lock: the flag is cleared ...
UnsetLatch == triggered /\ triggered' = FALSE

\* ... and the fault is cleared after the lock is released.
ClearLatchFault == ClearFault("ESTOP_TRIGGERED")

LatchFaultActive == Active("ESTOP_TRIGGERED")
=============================================================================
