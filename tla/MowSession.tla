----------------------------- MODULE MowSession -----------------------------
(***************************************************************************)
(* A mowing session (autonomy/mow_session.py) and the relays it drives     *)
(* (hardware/relays.py).  start() sleeps between its relay commands, for   *)
(* about seven seconds in all, and each sleep is a point where other       *)
(* threads run; so start() is one step per relay command.  The relay       *)
(* state is the copy RelayManager keeps; what the Pico does with the       *)
(* commands is not part of this module.  main.py builds the session        *)
(* without an ActuatorManager, so the throttle and brake calls guarded by  *)
(* "if self._actuators" do not happen.  pause() and resume() have no       *)
(* caller, and the states PAUSED_*, COMPLETING (left within complete())    *)
(* and DONE are never seen by another thread.                              *)
(***************************************************************************)

VARIABLES session,         \* MowSession._state
          relays           \* RelayManager._state and _engine_running

sessionVars == <<session, relays>>

SessionState ==
  {"IDLE", "STARTING_ENGINE", "ENGAGING_PTO", "MOWING", "RETURNING_HOME",
   "ABORTED"}

RelayState ==
  [ignition : BOOLEAN, starter : BOOLEAN, pto : BOOLEAN, engine : BOOLEAN]

SessionTypeOK == session \in SessionState /\ relays \in RelayState

AllOff ==
  [ignition |-> FALSE, starter |-> FALSE, pto |-> FALSE, engine |-> FALSE]

SessionInit == session = "IDLE" /\ relays = AllOff

IsActive == session = "MOWING"

\* _abort: PTO off, then ABORTED.
AbortSession ==
  /\ relays' = [relays EXCEPT !.pto = FALSE]
  /\ session' = "ABORTED"

AbortIfActive == IF IsActive THEN AbortSession ELSE UNCHANGED sessionVars

\* Mutant of CompleteSession: the blades are left engaged for the drive home.
CompleteWithBladesOn ==
  /\ relays' = relays
  /\ session' = "RETURNING_HOME"

\* complete: PTO off, and the session waits for the unit to be home.
CompleteSession ==
  /\ relays' = [relays EXCEPT !.pto = FALSE]
  /\ session' = "RETURNING_HOME"

\* Mutant of StartAllowed: a finished session object may be started again.
StartUnlessActive == ~IsActive

\* start(): refused unless the session object is fresh.
StartAllowed == session = "IDLE"

\* start(): the fuel check fails and the session is aborted.
StartWithLowFuel == StartAllowed /\ AbortSession

\* _start_engine: ignition on ...
IgnitionOn ==
  /\ StartAllowed
  /\ session' = "STARTING_ENGINE"
  /\ relays' = [relays EXCEPT !.ignition = TRUE]

\* ... the starter is pulsed ...
StarterOn ==
  /\ relays.ignition
  /\ relays' = [relays EXCEPT !.starter = TRUE]
  /\ UNCHANGED session

\* ... and the engine is taken to be running.
StarterOff ==
  /\ relays' = [relays EXCEPT !.starter = FALSE, !.engine = TRUE]
  /\ session' = "ENGAGING_PTO"

\* _engage_pto: pto_on() requires a running engine.
EngagePto ==
  /\ relays.engine
  /\ relays' = [relays EXCEPT !.pto = TRUE]
  /\ UNCHANGED session

BeginMowing == session' = "MOWING" /\ UNCHANGED relays

\* Mutant of EmergencyOff: the PTO relay is forgotten.
EmergencyOffExceptPto ==
  relays' = [relays EXCEPT !.ignition = FALSE, !.starter = FALSE, !.engine = FALSE]

\* RelayManager.emergency_off.
EmergencyOff == relays' = AllOff
=============================================================================
