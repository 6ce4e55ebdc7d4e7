-------------------------- MODULE ShiftController --------------------------
(***************************************************************************)
(* autonomy/shift_controller.py over hardware/actuators.py: the sequence   *)
(* of one shift, any step of which raises when the brake is on or the      *)
(* actuators are disabled, and the shifts through the gears in between.    *)
(* The brake and enable() and disable() come from other threads.  Nothing  *)
(* reads the lever's position, at start-up or later.                       *)
(***************************************************************************)
EXTENDS Naturals

CONSTANT GearMax

ASSUME GearAssumption == GearMax \in Nat

Gears == 0..GearMax

VARIABLES
  gear,                    \* _current_gear
  targetGear,              \* the argument of shift_to() in progress
  lever,                   \* where the last CMD_SHIFT to arrive put the lever
  shiftAt,                 \* the next step of _execute_single_shift
  throttleOn,              \* ActuatorState.throttle_pct > 0
  preThrottle,             \* pre_throttle > 0
  clutchOut,               \* the clutch as last commanded
  braking,                 \* ActuatorState.is_braking
  enabled,                 \* ActuatorManager._enabled
  lastShift                \* how the last single shift ended: "ok", "lost"
                           \* (CMD_SHIFT did not arrive), "failed"

shiftVars == <<gear, targetGear, lever, shiftAt, throttleOn, preThrottle,
               clutchOut, braking, enabled, lastShift>>

ShiftTypeOK ==
  /\ gear \in Gears /\ targetGear \in Gears /\ lever \in Gears
  /\ shiftAt \in {"idle", "cut", "clutch", "lever", "moved", "notMoved",
                  "restore", "restoreLost", "recover"}
  /\ throttleOn \in BOOLEAN /\ preThrottle \in BOOLEAN /\ clutchOut \in BOOLEAN
  /\ braking \in BOOLEAN /\ enabled \in BOOLEAN
  /\ lastShift \in {"none", "ok", "lost", "failed"}

\* The lever is where the last process left it.
ShiftInit ==
  /\ gear = 0 /\ targetGear = 0 /\ lever \in Gears /\ shiftAt = "idle"
  /\ throttleOn = FALSE /\ preThrottle = FALSE /\ clutchOut = FALSE
  /\ braking = TRUE /\ enabled = FALSE /\ lastShift = "none"

-----------------------------------------------------------------------------
(* ActuatorManager                                                         *)

Enable ==
  /\ enabled' = TRUE /\ braking' = FALSE
  /\ UNCHANGED <<gear, targetGear, lever, shiftAt, throttleOn, preThrottle,
                 clutchOut, lastShift>>

\* disable(), emergency_stop(), and set_brake() above its threshold.
BrakeOn(stillEnabled) ==
  /\ throttleOn' = FALSE /\ braking' = TRUE /\ enabled' = (enabled /\ stillEnabled)
  /\ UNCHANGED <<gear, targetGear, lever, shiftAt, preThrottle, clutchOut,
                 lastShift>>

BrakeOff ==
  /\ braking' = FALSE
  /\ UNCHANGED <<gear, targetGear, lever, shiftAt, throttleOn, preThrottle,
                 clutchOut, enabled, lastShift>>

ThrottleAllowed == enabled /\ ~braking

DriverThrottle(on) ==
  /\ ThrottleAllowed /\ throttleOn' = on /\ shiftAt = "idle"
  /\ UNCHANGED <<gear, targetGear, lever, shiftAt, preThrottle, clutchOut, braking,
                 enabled, lastShift>>

-----------------------------------------------------------------------------
(* shift_to() and _execute_single_shift()                                  *)

ShiftTo(t) ==
  /\ shiftAt = "idle" /\ targetGear = gear /\ t # gear
  /\ targetGear' = t
  /\ UNCHANGED <<gear, lever, shiftAt, throttleOn, preThrottle, clutchOut, braking,
                 enabled, lastShift>>

NextGear == IF targetGear > gear THEN gear + 1 ELSE gear - 1

SingleShift ==
  /\ shiftAt = "idle" /\ targetGear # gear
  /\ shiftAt' = "cut" /\ preThrottle' = throttleOn
  /\ UNCHANGED <<gear, targetGear, lever, throttleOn, clutchOut, braking, enabled,
                 lastShift>>

CutThrottle ==
  /\ shiftAt = "cut" /\ ThrottleAllowed
  /\ shiftAt' = "clutch" /\ throttleOn' = FALSE
  /\ UNCHANGED <<gear, targetGear, lever, preThrottle, clutchOut, braking, enabled,
                 lastShift>>

SetClutch(from, out, to) ==
  /\ shiftAt = from /\ enabled
  /\ shiftAt' = to /\ clutchOut' = out
  /\ UNCHANGED <<gear, targetGear, lever, throttleOn, preThrottle, braking, enabled,
                 lastShift>>

\* _send_shift_command: goes round the actuators' own checks; the result of
\* send() is not looked at.
MoveLever ==
  /\ shiftAt = "lever"
  /\ \/ lever' = NextGear /\ shiftAt' = "moved"
     \/ shiftAt' = "notMoved" /\ UNCHANGED lever
  /\ UNCHANGED <<gear, targetGear, throttleOn, preThrottle, clutchOut, braking,
                 enabled, lastShift>>

RestoreThrottle ==
  /\ shiftAt \in {"restore", "restoreLost"} /\ ThrottleAllowed
  /\ shiftAt' = "idle" /\ throttleOn' = preThrottle
  /\ gear' = NextGear
  /\ lastShift' = IF shiftAt = "restore" THEN "ok" ELSE "lost"
  /\ UNCHANGED <<targetGear, lever, preThrottle, clutchOut, braking, enabled>>

\* Mutant of ShiftRaises: the gear is recorded as soon as the lever moves.
ShiftRaisesRecorded ==
  /\ \/ shiftAt \in {"cut", "restore", "restoreLost"} /\ ~ThrottleAllowed
     \/ shiftAt \in {"clutch", "moved", "notMoved"} /\ ~enabled
  /\ shiftAt' = "recover" /\ gear' = NextGear /\ lastShift' = "ok"
  /\ UNCHANGED <<targetGear, lever, throttleOn, preThrottle, clutchOut, braking,
                 enabled>>

\* An ActuatorError: SHIFT_FAILURE is reported; the gear keeps its old value.
ShiftRaises ==
  /\ \/ shiftAt \in {"cut", "restore", "restoreLost"} /\ ~ThrottleAllowed
     \/ shiftAt \in {"clutch", "moved", "notMoved"} /\ ~enabled
  /\ shiftAt' = "recover" /\ lastShift' = "failed"
  /\ UNCHANGED <<gear, targetGear, lever, throttleOn, preThrottle, clutchOut,
                 braking, enabled>>

\* The recovery raises as well while the brake is on, and the clutch is left as
\* it is; the rest of shift_to() is given up.
Recover ==
  /\ shiftAt = "recover" /\ shiftAt' = "idle" /\ targetGear' = gear
  /\ IF ThrottleAllowed
     THEN throttleOn' = FALSE /\ clutchOut' = TRUE
     ELSE UNCHANGED <<throttleOn, clutchOut>>
  /\ UNCHANGED <<gear, lever, preThrottle, braking, enabled, lastShift>>

ShiftNext ==
  \/ Enable \/ BrakeOff
  \/ \E still \in BOOLEAN : BrakeOn(still)
  \/ \E on \in BOOLEAN : DriverThrottle(on)
  \/ \E t \in Gears : ShiftTo(t)
  \/ SingleShift \/ CutThrottle \/ MoveLever
  \/ SetClutch("clutch", TRUE, "lever")
  \/ SetClutch("moved", FALSE, "restore")
  \/ SetClutch("notMoved", FALSE, "restoreLost")
  \/ RestoreThrottle \/ ShiftRaises \/ Recover

ShiftSpec == ShiftInit /\ [][ShiftNext]_shiftVars

-----------------------------------------------------------------------------
\* After a shift that ended well the recorded gear is the lever's; a brake
\* pressed half way through a shift leaves them apart (shift_controller.py:189),
\* and so does the start of the process with the lever in gear.
GearAgreesAtRest == shiftAt = "idle" /\ lastShift = "ok" => lever = gear

\* "Enforces sequential shifting": the lever passes over a gear only in the
\* first shift of a process or in the first one after a shift that went wrong.
LeverStepsByOne ==
  [][lastShift = "ok" => lever' \in {lever - 1, lever, lever + 1}]_shiftVars
=============================================================================
