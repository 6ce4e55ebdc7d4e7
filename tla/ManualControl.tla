--------------------------- MODULE ManualControl ---------------------------
(***************************************************************************)
(* autonomy/manual_control.py: commands from the operator's screen against *)
(* the watchdog that brakes when they stop coming.  Both take the lock for *)
(* the time of the last command only, not for the drive.                   *)
(*                                                                         *)
(* The drive is one that has the methods called: none of the drivers in    *)
(* hardware/drivers has, and with those the commands move nothing.         *)
(***************************************************************************)
EXTENDS Naturals

CONSTANT MaxCommands       \* bound on the manual commands

ASSUME ManualAssumption == MaxCommands \in Nat

VARIABLES
  manualMode,              \* what is_manual_mode() answers
  lastCommand,             \* _last_command_at: 0, or recent, or timed out
  moving,                  \* the throttle last given to the drive
  handleAt,                \* where the caller of handle() is
  watchAt,                 \* where the watchdog thread is
  manualRunning,           \* _running
  commands,                \* commands sent so far
  manualHistory            \* "crossed": a command was stamped between the
                           \* watchdog's look and its clear, or its handler
                           \* drove after the look; "failed": the drive's
                           \* stop() raised

manualVars == <<manualMode, lastCommand, moving, handleAt, watchAt,
                manualRunning, commands, manualHistory>>

ManualTypeOK ==
  /\ manualMode \in BOOLEAN
  /\ lastCommand \in {"none", "recent", "timedOut"}
  /\ moving \in BOOLEAN
  /\ handleAt \in {"idle", "checked", "stamped"}
  /\ watchAt \in {"look", "stop", "clear"}
  /\ manualRunning \in BOOLEAN
  /\ commands \in 0..MaxCommands
  /\ manualHistory \in SUBSET {"crossed", "failed"}

ManualInit ==
  /\ manualMode = FALSE /\ lastCommand = "none" /\ moving = FALSE
  /\ handleAt = "idle" /\ watchAt = "look" /\ manualRunning = FALSE
  /\ commands = 0 /\ manualHistory = {}

ManualStart ==
  /\ ~manualRunning /\ commands = 0
  /\ manualRunning' = TRUE
  /\ UNCHANGED <<manualMode, lastCommand, moving, handleAt, watchAt, commands,
                 manualHistory>>

\* stop() waits two seconds for a watchdog that looks at _running every half of
\* the time-out; what it does meanwhile it still does.
ManualStop ==
  /\ manualRunning /\ handleAt = "idle"
  /\ manualRunning' = FALSE /\ commands' = MaxCommands
  /\ UNCHANGED <<manualMode, lastCommand, moving, handleAt, watchAt,
                 manualHistory>>

\* The mode manager enters or leaves MANUAL at any time.
ManualModeChanges ==
  /\ manualMode' = ~manualMode
  /\ UNCHANGED <<lastCommand, moving, handleAt, watchAt, manualRunning, commands,
                 manualHistory>>

-----------------------------------------------------------------------------
(* handle()                                                                *)

Crossing ==
  manualHistory' = IF watchAt # "look" \/ (handleAt = "stamped" /\ lastCommand = "none")
                   THEN manualHistory \cup {"crossed"} ELSE manualHistory

\* The mode is tested once; outside MANUAL the command is refused.
HandleChecks ==
  /\ handleAt = "idle" /\ manualMode /\ commands < MaxCommands
  /\ handleAt' = "checked" /\ commands' = commands + 1
  /\ UNCHANGED <<manualMode, lastCommand, moving, watchAt, manualRunning,
                 manualHistory>>

HandleStamps ==
  /\ handleAt = "checked" /\ handleAt' = "stamped"
  /\ lastCommand' = "recent"
  /\ Crossing
  /\ UNCHANGED <<manualMode, moving, watchAt, manualRunning, commands>>

\* The handler drives, brakes, or raises (parameters, operator presence) and
\* leaves the drive as it is.
HandleDrives ==
  /\ handleAt = "stamped" /\ handleAt' = "idle"
  /\ moving' \in BOOLEAN
  /\ Crossing
  /\ UNCHANGED <<manualMode, lastCommand, watchAt, manualRunning, commands>>

-----------------------------------------------------------------------------
(* _watchdog_loop()                                                        *)

CommandTimesOut ==
  /\ lastCommand = "recent" /\ lastCommand' = "timedOut"
  /\ UNCHANGED <<manualMode, moving, handleAt, watchAt, manualRunning, commands,
                 manualHistory>>

WatchdogLooks ==
  /\ manualRunning /\ watchAt = "look"
  /\ manualMode /\ lastCommand = "timedOut"
  /\ watchAt' = "stop"
  /\ UNCHANGED <<manualMode, lastCommand, moving, handleAt, manualRunning,
                 commands, manualHistory>>

\* Mutant of WatchdogStops: the stop is left to the next round.
WatchdogLogs ==
  /\ watchAt = "stop" /\ watchAt' = "clear"
  /\ UNCHANGED <<manualMode, lastCommand, moving, handleAt, manualRunning,
                 commands, manualHistory>>

\* _safe_stop(): an exception of the drive is logged.
WatchdogStops ==
  /\ watchAt = "stop" /\ watchAt' = "clear"
  /\ \/ moving' = FALSE /\ UNCHANGED manualHistory
     \/ manualHistory' = manualHistory \cup {"failed"} /\ UNCHANGED moving
  /\ UNCHANGED <<manualMode, lastCommand, handleAt, manualRunning, commands>>

WatchdogClears ==
  /\ watchAt = "clear" /\ watchAt' = "look"
  /\ lastCommand' = "none"
  /\ UNCHANGED <<manualMode, moving, handleAt, manualRunning, commands,
                 manualHistory>>

HandleStep == HandleStamps \/ HandleDrives
WatchdogStep == WatchdogLooks \/ WatchdogStops \/ WatchdogClears

ManualNext ==
  \/ ManualStart \/ ManualStop \/ ManualModeChanges
  \/ HandleChecks \/ HandleStep \/ CommandTimesOut \/ WatchdogStep

ManualSpec == ManualInit /\ [][ManualNext]_manualVars

-----------------------------------------------------------------------------
\* A drive that moves has a deadline, the time of a command the watchdog will
\* find too old, unless a command crossed the watchdog or the stop failed.
MovingHasDeadline ==
  moving => lastCommand # "none" \/ manualHistory # {}
=============================================================================
