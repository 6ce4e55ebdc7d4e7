----------------------------- MODULE ModeManager -----------------------------
(***************************************************************************)
(* The operating mode of autonomy/mode_manager.py.  Only the assignment    *)
(* inside _transition_to() is under the lock; every method that first      *)
(* looks (at the mode, the switch, the faults) and then transitions is at  *)
(* least two steps, and another thread may run in between.  No mode        *)
(* callback is registered anywhere in the program.                         *)
(***************************************************************************)

VARIABLES mode,            \* ModeManager._mode
          switchInAuto     \* ModeManager._switch_in_auto

modeVars == <<mode, switchInAuto>>

OperatingMode ==
  {"UNCLAIMED", "CLAIMING", "SETUP_PENDING", "IDLE", "MANUAL", "AUTO",
   "RETURNING_HOME", "HOLD", "ESTOP", "FAULT", "OFFLINE_REPLAY", "TEACH",
   "SHUTDOWN"}

ModeTypeOK == mode \in OperatingMode /\ switchInAuto \in BOOLEAN

\* _transition_to: under the lock, no guard on the mode it replaces.
TransitionTo(newMode) == mode' = newMode

\* update_switch_state, first half: the flag is stored without the lock.
StoreSwitchState(inAuto) == switchInAuto' = inAuto
=============================================================================
