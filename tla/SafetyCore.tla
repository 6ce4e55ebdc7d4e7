----------------------------- MODULE SafetyCore -----------------------------
(***************************************************************************)
(* The control process of core/main.py from the last step of boot() to the *)
(* end of shutdown(): the threads that share the mode, the emergency stop, *)
(* the fault registry, the mowing session and the relays.                  *)
(*                                                                         *)
(*   main      boot(), run() and shutdown(); dispatches server commands    *)
(*   watchdog  safety/watchdog.py, Pico heartbeat and main-loop deadline   *)
(*   poll      ModeManager._poll_loop                                      *)
(*   switch    whoever delivers the physical mode switch                   *)
(*   stream    CommandStream, of which only the auth failure matters here  *)
(*                                                                         *)
(* A step ends where a thread releases a lock or reads or writes state     *)
(* that another thread uses.  The unit modelled has GPS and a Pico (so the *)
(* session, return_home, terrain and relay objects exist).                 *)
(***************************************************************************)
EXTENDS EStop, ModeManager, MowSession, SlopeInterlock

CONSTANTS
  Commands,                \* server commands the queue may deliver
  VerifyOutcomes,          \* what Interlocks.verify() may find in the sensors
  Slopes,                  \* slope bands the terrain monitor may report
  PicoCanFail,             \* the Pico heartbeat may come and go
  MainCanHang,             \* the main loop may miss its watchdog deadline
  HomeConfigured,          \* the pulled config has a home position
  SwitchWired,             \* the mode switch is delivered to ModeManager
  AuthCanFail,             \* the server may reject the unit's token
  CanTerminate             \* SIGTERM or SIGINT may arrive

ASSUME CodesAssumption ==
  {"PICO_TIMEOUT", "GPS_SIGNAL_LOST", "GPS_ACCURACY_LOW"} \subseteq FaultCodes
ASSUME CommandsAssumption ==
  Commands \subseteq {"mow_start", "mow_stop", "return_home", "estop", "estop_reset"}
ASSUME VerifyAssumption ==
  VerifyOutcomes \subseteq {"pass", "refuse", "no_fix", "inaccurate"}
ASSUME SlopesAssumption == Slopes \subseteq SlopeBands /\ "unknown" \in Slopes
ASSUME SwitchesAssumption ==
  {PicoCanFail, MainCanHang, HomeConfigured, SwitchWired, AuthCanFail,
   CanTerminate} \subseteq BOOLEAN

VARIABLES
  pc,                      \* where each thread is
  running,                 \* RiverVectorSystem._running
  daemons,                 \* _running of the mode poll and the watchdog
  kickStale,               \* kick_age_sec exceeds twice the watchdog timeout
  picoAlive,               \* PicoBridge.is_alive
  slope,                   \* TerrainMonitor.slope_pct
  slopeLevel,              \* Interlocks._slope_level
  sessionOpen,             \* _current_session_id is set
  claimed                  \* Identity.is_claimed

coreVars == <<running, daemons, kickStale, picoAlive, slope, slopeLevel,
              sessionOpen, claimed>>

vars == <<records, triggered, modeVars, sessionVars, pc, coreVars>>

Threads == {"main", "watchdog", "poll", "switch", "stream"}

MainLabels ==
  {"boot", "run", "top", "slope", "slope_latch", "slope_report", "slope_mode",
   "slope_hold", "drain", "estop_latch", "estop_report", "estop_end",
   "reset_unlatch", "reset_clear", "reset_mode", "reset_idle", "stop_session",
   "stop_manual", "stop_idle", "home_session", "home_mode", "home_execute",
   "home_idle", "start_switch", "start_safe", "start_verify", "start_auto",
   "start_session", "start_mow", "start_starter", "start_engine", "start_pto",
   "start_mowing", "shutdown", "shutdown_stop", "shutdown_off", "dead"}

Labels ==
  [main     : MainLabels,
   watchdog : {"idle", "pico_latch", "pico_report", "compute",
               "compute_latch", "compute_report"},
   poll     : {"idle", "faults", "estop"},
   switch   : {"idle", "check", "manual"},
   stream   : {"live", "unclaim", "stop", "ended"}]

TypeOK ==
  /\ FaultTypeOK
  /\ LatchTypeOK
  /\ ModeTypeOK
  /\ SessionTypeOK
  /\ pc \in Labels
  /\ running \in BOOLEAN /\ daemons \in BOOLEAN
  /\ kickStale \in BOOLEAN /\ picoAlive \in BOOLEAN
  /\ slope \in SlopeBands /\ slopeLevel \in SlopeLevels
  /\ sessionOpen \in BOOLEAN /\ claimed \in BOOLEAN

\* boot() has started every thread (lines 369-375) and is about to set IDLE.
\* The Pico has answered; a slower one is a PicoLinkChange.
Init ==
  /\ FaultInit
  /\ LatchInit
  /\ SessionInit
  /\ mode = "SETUP_PENDING" /\ switchInAuto = FALSE
  /\ pc = [main |-> "boot", watchdog |-> "idle", poll |-> "idle",
           switch |-> "idle", stream |-> "live"]
  /\ running = FALSE /\ daemons = TRUE
  /\ kickStale = FALSE /\ picoAlive = TRUE
  /\ slope = "unknown" /\ slopeLevel = 0
  /\ sessionOpen = FALSE /\ claimed = TRUE

At(t, label) == pc[t] = label

GoTo(t, label) == pc' = [pc EXCEPT ![t] = label]

Step(t, from, to) == At(t, from) /\ GoTo(t, to)

-----------------------------------------------------------------------------
(* EStop.trigger() and EStop.reset(), called from any thread.              *)

\* The flag, under the lock; an e-stop already latched returns at once.
CallTrigger(t, from, report, return) ==
  /\ At(t, from)
  /\ \/ SetLatch /\ GoTo(t, report)
     \/ triggered /\ UNCHANGED triggered /\ GoTo(t, return)
  /\ UNCHANGED <<records, modeVars, sessionVars, coreVars>>

CallReport(t, from, return) ==
  /\ Step(t, from, return)
  /\ ReportLatchFault
  /\ UNCHANGED <<triggered, modeVars, sessionVars, coreVars>>

\* A step of a thread that only moves the mode.
SetMode(t, from, newMode, to) ==
  /\ Step(t, from, to)
  /\ TransitionTo(newMode)
  /\ UNCHANGED <<records, triggered, switchInAuto, sessionVars, coreVars>>

\* A step of a thread that only decides where to go.
Branch(t, from, condition, then, else) ==
  /\ At(t, from)
  /\ GoTo(t, IF condition THEN then ELSE else)
  /\ UNCHANGED <<records, triggered, modeVars, sessionVars, coreVars>>

-----------------------------------------------------------------------------
(* Main loop: boot, run and the per-iteration checks.                      *)

BootIdle == SetMode("main", "boot", "IDLE", "run")

\* run() sets _running, whatever a thread started by boot() made of it.
RunStarts ==
  /\ Step("main", "run", "top")
  /\ running' = TRUE
  /\ UNCHANGED <<records, triggered, modeVars, sessionVars, daemons, kickStale,
                 picoAlive, slope, slopeLevel, sessionOpen, claimed>>

\* One iteration: the watchdog is kicked first.
LoopTop ==
  /\ At("main", "top")
  /\ running
  /\ GoTo("main", "slope")
  /\ kickStale' = FALSE
  /\ UNCHANGED <<records, triggered, modeVars, sessionVars, running, daemons,
                 picoAlive, slope, slopeLevel, sessionOpen, claimed>>

\* run() returns and main()'s finally clause calls shutdown().
LoopEnds ==
  /\ At("main", "top")
  /\ ~running
  /\ GoTo("main", "shutdown")
  /\ UNCHANGED <<records, triggered, modeVars, sessionVars, coreVars>>

\* The terrain monitor takes a fix (once known, the slope never becomes
\* unknown again) and enforce_slope() decides on the mode read just before.
UpdateSlope ==
  /\ At("main", "slope")
  /\ \E band \in Slopes :
       LET result == EnforceSlope(slopeLevel, band, mode)
       IN  /\ slope # "unknown" => band # "unknown"
           /\ slope' = band
           /\ slopeLevel' = result.level
           /\ GoTo("main", CASE result.action = "NONE"  -> "drain"
                              [] result.action = "HOLD"  -> "slope_hold"
                              [] result.action = "ESTOP" -> "slope_latch")
  /\ UNCHANGED <<records, triggered, modeVars, sessionVars, running, daemons,
                 kickStale, picoAlive, sessionOpen, claimed>>

\* The action is applied to whatever the mode is by now.
SlopeLatch == CallTrigger("main", "slope_latch", "slope_report", "slope_mode")
SlopeReport == CallReport("main", "slope_report", "slope_mode")
SlopeEStop == SetMode("main", "slope_mode", "ESTOP", "drain")
SlopeHold == SetMode("main", "slope_hold", "HOLD", "drain")

MainLoop ==
  \/ BootIdle \/ RunStarts \/ LoopTop \/ LoopEnds
  \/ UpdateSlope \/ SlopeLatch \/ SlopeReport \/ SlopeEStop \/ SlopeHold

-----------------------------------------------------------------------------
(* Main loop: command dispatch.                                            *)

FirstLabel ==
  [mow_start |-> "start_switch", mow_stop |-> "stop_session",
   return_home |-> "home_session", estop |-> "estop_latch",
   estop_reset |-> "reset_unlatch"]

\* _drain_command_queue: the next queued command, or the end of the iteration.
TakeCommand ==
  /\ At("main", "drain")
  /\ \E c \in Commands : GoTo("main", FirstLabel[c])
  /\ UNCHANGED <<records, triggered, modeVars, sessionVars, coreVars>>

QueueEmpty ==
  /\ Step("main", "drain", "top")
  /\ UNCHANGED <<records, triggered, modeVars, sessionVars, coreVars>>

\* _handle_estop: the latch, then the session record; neither the mode nor the
\* mowing session is touched.
EStopLatch == CallTrigger("main", "estop_latch", "estop_report", "estop_end")
EStopReport == CallReport("main", "estop_report", "estop_end")
EStopEndSession ==
  /\ Step("main", "estop_end", "drain")
  /\ sessionOpen' = FALSE
  /\ UNCHANGED <<records, triggered, modeVars, sessionVars, running, daemons,
                 kickStale, picoAlive, slope, slopeLevel, claimed>>

\* _handle_estop_reset: EStop.reset() ...
ResetUnlatch ==
  /\ At("main", "reset_unlatch")
  /\ \/ UnsetLatch /\ GoTo("main", "reset_clear")
     \/ ~triggered /\ UNCHANGED triggered /\ GoTo("main", "reset_mode")
  /\ UNCHANGED <<records, modeVars, sessionVars, coreVars>>

ResetClear ==
  /\ Step("main", "reset_clear", "reset_mode")
  /\ ClearLatchFault
  /\ UNCHANGED <<triggered, modeVars, sessionVars, coreVars>>

\* ... then ModeManager.reset_estop(), which releases the lock between its
\* test and the transition.
ResetMode == Branch("main", "reset_mode", mode = "ESTOP", "reset_idle", "drain")
ResetIdle == SetMode("main", "reset_idle", "IDLE", "drain")

\* _handle_mow_stop: abort, _end_session, then MANUAL and IDLE in turn.
StopSession ==
  /\ Step("main", "stop_session", "stop_manual")
  /\ AbortIfActive
  /\ sessionOpen' = FALSE
  /\ UNCHANGED <<records, triggered, modeVars, running, daemons, kickStale,
                 picoAlive, slope, slopeLevel, claimed>>
StopManual == SetMode("main", "stop_manual", "MANUAL", "stop_idle")
StopIdle == SetMode("main", "stop_idle", "IDLE", "drain")

\* _handle_return_home: complete() and _end_session() if a session is active.
HomeSession ==
  /\ Step("main", "home_session", "home_mode")
  /\ IF IsActive
     THEN CompleteSession /\ sessionOpen' = FALSE
     ELSE UNCHANGED <<sessionVars, sessionOpen>>
  /\ UNCHANGED <<records, triggered, modeVars, running, daemons, kickStale,
                 picoAlive, slope, slopeLevel, claimed>>
HomeMode == SetMode("main", "home_mode", "RETURNING_HOME", "home_execute")

\* ReturnHome.execute(): with no home position it reports GPS_SIGNAL_LOST; the
\* result is ignored either way.
HomeExecute ==
  /\ Step("main", "home_execute", "home_idle")
  /\ IF HomeConfigured
     THEN UNCHANGED records
     ELSE ReportFault("GPS_SIGNAL_LOST", "CRITICAL")
  /\ UNCHANGED <<triggered, modeVars, sessionVars, coreVars>>
HomeIdle == SetMode("main", "home_idle", "IDLE", "drain")

\* _handle_mow_start: ModeManager.request_auto() looks at the switch, ...
StartSwitch == Branch("main", "start_switch", switchInAuto, "start_safe", "drain")

\* Mutant of StartSafe: request_auto() leaves the fault check to the interlocks
\* and the interlocks to request_auto().
StartUnchecked == Step("main", "start_safe", "start_auto")
                  /\ UNCHANGED <<records, triggered, modeVars, sessionVars, coreVars>>

\* ... then at the faults, ...
StartSafe == Branch("main", "start_safe", IsSafeToOperate, "start_verify", "drain")

\* ... then runs the interlocks, which look at the faults again and then at the
\* sensors; a GPS check that fails leaves a CRITICAL fault behind.
VerifyFinds(outcome) ==
  CASE outcome = "pass"       -> ~SlopeRefusesAuto(slope) /\ UNCHANGED records
    [] outcome = "refuse"     -> UNCHANGED records
    [] outcome = "no_fix"     -> ReportFault("GPS_SIGNAL_LOST", "CRITICAL")
    [] outcome = "inaccurate" -> ReportFault("GPS_ACCURACY_LOW", "CRITICAL")

StartVerify ==
  /\ At("main", "start_verify")
  /\ IF IsSafeToOperate
     THEN \E outcome \in VerifyOutcomes \cup {"refuse"} :
            /\ VerifyFinds(outcome)
            /\ GoTo("main", IF outcome = "pass" THEN "start_auto" ELSE "drain")
     ELSE GoTo("main", "drain") /\ UNCHANGED records
  /\ UNCHANGED <<triggered, modeVars, sessionVars, coreVars>>

\* ... and transitions, whatever has changed since it looked.
StartAuto == SetMode("main", "start_auto", "AUTO", "start_session")

\* session_start(): the server's session id, or None when the call fails; an id
\* already held is overwritten.
StartSession ==
  /\ Step("main", "start_session", "start_mow")
  /\ sessionOpen' \in BOOLEAN
  /\ UNCHANGED <<records, triggered, modeVars, sessionVars, running, daemons,
                 kickStale, picoAlive, slope, slopeLevel, claimed>>

\* A step of MowSession.start() on the main thread.
SessionStep(from, to, step) ==
  /\ Step("main", from, to)
  /\ step
  /\ UNCHANGED <<records, triggered, modeVars, coreVars>>

\* MowSession.start(): its result is ignored by _handle_mow_start.
StartRefused ==
  SessionStep("start_mow", "drain", ~StartAllowed /\ UNCHANGED sessionVars)
StartLowFuel == SessionStep("start_mow", "drain", StartWithLowFuel)
StartIgnition == SessionStep("start_mow", "start_starter", IgnitionOn)
StartStarter == SessionStep("start_starter", "start_engine", StarterOn)
StartEngine == SessionStep("start_engine", "start_pto", StarterOff)
StartPto == SessionStep("start_pto", "start_mowing", EngagePto)
StartMowing == SessionStep("start_mowing", "drain", BeginMowing)

Dispatch ==
  \/ TakeCommand \/ QueueEmpty
  \/ EStopLatch \/ EStopReport \/ EStopEndSession
  \/ ResetUnlatch \/ ResetClear \/ ResetMode \/ ResetIdle
  \/ StopSession \/ StopManual \/ StopIdle
  \/ HomeSession \/ HomeMode \/ HomeExecute \/ HomeIdle
  \/ StartSwitch \/ StartSafe \/ StartVerify \/ StartAuto \/ StartSession
  \/ StartRefused \/ StartLowFuel \/ StartIgnition \/ StartStarter
  \/ StartEngine \/ StartPto \/ StartMowing

-----------------------------------------------------------------------------
(* Shutdown, from the end of run() or from a signal handler.               *)

\* The handler runs on the main thread between two of its steps and does not
\* return to it.
Signal ==
  /\ CanTerminate
  /\ pc["main"] \notin {"shutdown", "shutdown_stop", "shutdown_off", "dead"}
  /\ GoTo("main", "shutdown")
  /\ UNCHANGED <<records, triggered, modeVars, sessionVars, coreVars>>

ShutdownAbort ==
  /\ Step("main", "shutdown", "shutdown_stop")
  /\ running' = FALSE
  /\ AbortIfActive
  /\ UNCHANGED <<records, triggered, modeVars, daemons, kickStale, picoAlive,
                 slope, slopeLevel, sessionOpen, claimed>>

\* The stoppers clear _running of every thread; their joins are bounded, so a
\* thread may still be in its last round afterwards.
ShutdownStop ==
  /\ Step("main", "shutdown_stop", "shutdown_off")
  /\ daemons' = FALSE
  /\ UNCHANGED <<records, triggered, modeVars, sessionVars, running, kickStale,
                 picoAlive, slope, slopeLevel, sessionOpen, claimed>>

ShutdownOff ==
  /\ Step("main", "shutdown_off", "dead")
  /\ EmergencyOff
  /\ UNCHANGED <<records, triggered, modeVars, session, coreVars>>

-----------------------------------------------------------------------------
(* Watchdog thread.                                                        *)

\* _check_pico: a silent Pico is reported once, a Pico heard again clears the
\* code; only this thread writes PICO_TIMEOUT.
CheckPico ==
  /\ At("watchdog", "idle")
  /\ daemons
  /\ \/ /\ ~picoAlive /\ ~Active("PICO_TIMEOUT")
        /\ ReportFault("PICO_TIMEOUT", "FATAL")
        /\ GoTo("watchdog", "pico_latch")
     \/ /\ picoAlive /\ Active("PICO_TIMEOUT")
        /\ ClearFault("PICO_TIMEOUT")
        /\ GoTo("watchdog", "compute")
     \/ /\ picoAlive <=> ~Active("PICO_TIMEOUT")
        /\ UNCHANGED records
        /\ GoTo("watchdog", "compute")
  /\ UNCHANGED <<triggered, modeVars, sessionVars, coreVars>>

\* The registered callback, main.py _on_watchdog_timeout.
PicoLatch == CallTrigger("watchdog", "pico_latch", "pico_report", "compute")
PicoReport == CallReport("watchdog", "pico_report", "compute")

\* Mutant of CheckCompute: the late loop is reported, the callbacks are not run.
CheckComputeSilently ==
  /\ At("watchdog", "compute")
  /\ IF kickStale
     THEN ReportFault("PICO_TIMEOUT", "FATAL")
     ELSE UNCHANGED records
  /\ GoTo("watchdog", "idle")
  /\ UNCHANGED <<triggered, modeVars, sessionVars, coreVars>>

\* _check_compute: a late main loop is reported under the same code, unless the
\* code is active already.
CheckCompute ==
  /\ At("watchdog", "compute")
  /\ IF kickStale /\ ~Active("PICO_TIMEOUT")
     THEN ReportFault("PICO_TIMEOUT", "FATAL") /\ GoTo("watchdog", "compute_latch")
     ELSE UNCHANGED records /\ GoTo("watchdog", "idle")
  /\ UNCHANGED <<triggered, modeVars, sessionVars, coreVars>>

ComputeLatch == CallTrigger("watchdog", "compute_latch", "compute_report", "idle")
ComputeReport == CallReport("watchdog", "compute_report", "idle")

Watchdog ==
  \/ CheckPico \/ PicoLatch \/ PicoReport
  \/ CheckCompute \/ ComputeLatch \/ ComputeReport

-----------------------------------------------------------------------------
(* Mode poll thread: mode, then faults, then the transition.               *)

PollMode ==
  /\ daemons
  /\ mode = "AUTO"
  /\ Step("poll", "idle", "faults")
  /\ UNCHANGED <<records, triggered, modeVars, sessionVars, coreVars>>

\* Mutant of PollFaults: the poll trusts the latch and does not ask the fault
\* manager.
PollLatchOnly == Branch("poll", "faults", ~triggered, "idle", "estop")

PollFaults == Branch("poll", "faults", IsSafeToOperate, "idle", "estop")
PollEStop == SetMode("poll", "estop", "ESTOP", "idle")

Poll == PollMode \/ PollFaults \/ PollEStop

(* Switch thread: update_switch_state().                                   *)

SwitchMoves ==
  /\ SwitchWired
  /\ At("switch", "idle")
  /\ StoreSwitchState(~switchInAuto)
  /\ GoTo("switch", IF switchInAuto THEN "check" ELSE "idle")
  /\ UNCHANGED <<records, triggered, mode, sessionVars, coreVars>>
SwitchCheck == Branch("switch", "check", mode = "AUTO", "manual", "idle")
SwitchManual == SetMode("switch", "manual", "MANUAL", "idle")

Switch == SwitchMoves \/ SwitchCheck \/ SwitchManual

(* Stream thread: _on_auth_failure(), once.                                *)

AuthFails ==
  /\ AuthCanFail
  /\ Step("stream", "live", "unclaim")
  /\ claimed' = FALSE
  /\ UNCHANGED <<records, triggered, modeVars, sessionVars, running, daemons,
                 kickStale, picoAlive, slope, slopeLevel, sessionOpen>>
Unclaim == SetMode("stream", "unclaim", "UNCLAIMED", "stop")
StopMain ==
  /\ Step("stream", "stop", "ended")
  /\ running' = FALSE
  /\ UNCHANGED <<records, triggered, modeVars, sessionVars, daemons, kickStale,
                 picoAlive, slope, slopeLevel, sessionOpen, claimed>>

Stream == AuthFails \/ Unclaim \/ StopMain

-----------------------------------------------------------------------------
(* Environment.                                                            *)

PicoLinkChange ==
  /\ PicoCanFail
  /\ picoAlive' = ~picoAlive
  /\ UNCHANGED <<records, triggered, modeVars, sessionVars, pc, running, daemons,
                 kickStale, slope, slopeLevel, sessionOpen, claimed>>

\* Twice the timeout passes without a kick: between two kicks the main thread
\* may be in a server call, a relay sleep or the docking search.
KickAges ==
  /\ MainCanHang
  /\ ~kickStale
  /\ kickStale' = TRUE
  /\ UNCHANGED <<records, triggered, modeVars, sessionVars, pc, running, daemons,
                 picoAlive, slope, slopeLevel, sessionOpen, claimed>>

Environment == PicoLinkChange \/ KickAges

Main == MainLoop \/ Dispatch \/ ShutdownAbort \/ ShutdownStop \/ ShutdownOff

Next == Main \/ Signal \/ Watchdog \/ Poll \/ Switch \/ Stream \/ Environment

\* The daemon threads are loops that sleep and run again; a call once begun is
\* straight-line code.  The main thread may hang and the environment owes nothing.
Fairness ==
  /\ WF_vars(Poll)
  /\ WF_vars(Watchdog)
  /\ WF_vars(SwitchCheck \/ SwitchManual)
  /\ WF_vars(Unclaim \/ StopMain)

Spec == Init /\ [][Next]_vars /\ Fairness

\* A main thread that does not hang either.
LiveMainSpec == Spec /\ WF_vars(Main)

-----------------------------------------------------------------------------
(* Properties the program has.                                             *)

\* Between two handlers: no call is half done on the main thread.
MainAtRest == pc["main"] \in {"top", "slope", "drain"}

(***************************************************************************)
(* The blades turn only under a running engine with ignition, and between  *)
(* two handlers only in a session that is mowing: whatever the order of    *)
(* starts, aborts, completions and watchdog stops, no path leaves the PTO  *)
(* relay behind a session that has ended.                                  *)
(***************************************************************************)
PtoDiscipline ==
  /\ relays.pto => relays.engine /\ relays.ignition
  /\ MainAtRest /\ relays.pto => IsActive

(***************************************************************************)
(* A session that was aborted, or completed and sent home, stays so: no    *)
(* command of any kind starts it again in the life of the process.         *)
(***************************************************************************)
SessionNeverRevives ==
  [][(session \in {"ABORTED", "RETURNING_HOME"}) => UNCHANGED session]_vars

(***************************************************************************)
(* A GPS fault keeps the unit out of AUTO for good: nothing in the program *)
(* acknowledges or clears one, the two checks before AUTO are the main     *)
(* thread's own, and only the main thread reports one.                     *)
(***************************************************************************)
GpsFaultLocksOutAuto ==
  [][ /\ Active("GPS_SIGNAL_LOST") \/ Active("GPS_ACCURACY_LOW")
      /\ mode # "AUTO"
      => mode' # "AUTO" ]_vars

(***************************************************************************)
(* AUTO over a blocking fault does not last: the poll thread takes the     *)
(* unit out of it, or the fault goes, even if the main thread hangs and    *)
(* however AUTO was entered.                                               *)
(***************************************************************************)
UnsafeAutoIsLeft ==
  mode = "AUTO" /\ ~IsSafeToOperate
    ~> (mode # "AUTO" \/ IsSafeToOperate \/ ~daemons)

(***************************************************************************)
(* A Pico that falls silent for good closes the gate for good, whatever    *)
(* the resets and the main loop's own timeouts do to the shared code.      *)
(***************************************************************************)
SilentPicoBlocks ==
  <>[](~picoAlive /\ daemons) => <>[]~IsSafeToOperate

(***************************************************************************)
(* A main loop that hangs for good ends with the e-stop latched or the     *)
(* gate closed, although the watchdog takes back its own fault at every    *)
(* round in which the Pico is alive.                                       *)
(***************************************************************************)
HungMainIsStopped ==
  <>[](kickStale /\ daemons) /\ <>[][UNCHANGED pc["main"]]_vars
    => <>[](triggered \/ ~IsSafeToOperate)

(***************************************************************************)
(* However the process ends (a signal in the middle of an engine start, an *)
(* auth failure, a signal while a handler runs), the relays are off and no *)
(* session claims to be mowing.                                            *)
(***************************************************************************)
ShutdownSafe == At("main", "dead") => relays = AllOff /\ ~IsActive

(***************************************************************************)
(* AUTO on ground over the limit is a hysteresis matter only: the level    *)
(* that silences the next hold or e-stop is then at least the one the      *)
(* slope calls for, so that the call for it was made earlier.              *)
(***************************************************************************)
SteepAutoNeedsHeldLevel ==
  mode = "AUTO" /\ slope \in {"over", "severe"} => slopeLevel >= Desired(slope)

(***************************************************************************)
(* Nothing in the program calls update_switch_state().  Until something    *)
(* does, no command enters AUTO, starts a session or moves a relay.        *)
(***************************************************************************)
UnwiredNeverMows ==
  ~SwitchWired => mode # "AUTO" /\ session = "IDLE" /\ relays = AllOff

-----------------------------------------------------------------------------
(* What the documents say and the program does not do.                     *)

(***************************************************************************)
(* README and mode_manager.py: in ESTOP all motion is halted.              *)
(***************************************************************************)
EStopModeHaltsBlades ==
  mode = "ESTOP" ~> (mode # "ESTOP" \/ ~relays.pto)

(***************************************************************************)
(* mode_manager.py: the switch returning to MANUAL immediately overrides   *)
(* any autonomous operation.                                               *)
(***************************************************************************)
SwitchOverridesAuto == ~switchInAuto ~> (switchInAuto \/ mode # "AUTO")

(***************************************************************************)
(* fault_manager.py: a FATAL fault requires manual reset.  The fault of a  *)
(* main loop that has missed its deadline stays until the loop runs again. *)
(***************************************************************************)
HungMainFaultHolds ==
  [][ Active("PICO_TIMEOUT") /\ kickStale /\ kickStale' /\ picoAlive /\ picoAlive'
      => Active("PICO_TIMEOUT")' ]_vars
=============================================================================
