----------------------------- MODULE Detectors -----------------------------
(***************************************************************************)
(* navigation/obstacle.py and telemetry/alerts.py on the fault registry:   *)
(* the navigation loop classifies the distances the sensor thread leaves   *)
(* in the snapshot and reports or clears the obstacle; the registry calls  *)
(* the alert monitor in the thread that reports, after its lock is free;   *)
(* the thread of the monitor alerts again what stays active.               *)
(***************************************************************************)
EXTENDS FaultManager

CONSTANTS
  ObstacleCode,            \* FaultCode.OBSTACLE_DETECTED
  OtherCodes               \* codes other components report and clear

ASSUME DetectorAssumption ==
  ObstacleCode \in FaultCodes /\ OtherCodes \subseteq FaultCodes \ {ObstacleCode}

VARIABLES
  distance,                \* front and rear ultrasonic readings of the snapshot
  response,                \* ObstacleDetector._state.response
  reporting,               \* codes whose callbacks a reporter still has to call
  alerted,                 \* code |-> age of the last alert: "never", "recent", "old"
  monitorQueue,            \* codes the monitor has still to look at in this round
  unalerted                \* codes reported anew and not alerted since (history)

detectorVars == <<records, distance, response, reporting, alerted, monitorQueue, unalerted>>

Reading == {"none", "stop", "slow", "far"}
Responses == {"CLEAR", "SLOW", "STOP"}

DetectorTypeOK ==
  /\ FaultTypeOK
  /\ distance \in [{"front", "rear"} -> Reading]
  /\ response \in Responses
  /\ reporting \subseteq FaultCodes
  /\ alerted \in [FaultCodes -> {"never", "recent", "old"}]
  /\ monitorQueue \subseteq FaultCodes /\ unalerted \subseteq FaultCodes

DetectorInit ==
  /\ FaultInit
  /\ distance = [s \in {"front", "rear"} |-> "none"]
  /\ response = "CLEAR"
  /\ reporting = {}
  /\ alerted = [c \in FaultCodes |-> "never"]
  /\ monitorQueue = {} /\ unalerted = {}

-----------------------------------------------------------------------------
\* _classify: the nearer of the readings there are decides.
Classify(d) ==
  IF \E s \in DOMAIN d : d[s] = "stop" THEN "STOP"
  ELSE IF \E s \in DOMAIN d : d[s] = "slow" THEN "SLOW"
  ELSE "CLEAR"

\* _handle_ultrasonic: both readings in one message.
SensorsReport ==
  /\ distance' \in [{"front", "rear"} -> Reading]
  /\ UNCHANGED <<records, response, reporting, alerted, monitorQueue, unalerted>>

\* report_fault up to its callbacks: only a new record has them called.
Reports(c) ==
  /\ ReportFault(c, "CRITICAL")
  /\ reporting' = IF Active(c) THEN reporting ELSE reporting \cup {c}
  /\ unalerted' = IF Active(c) THEN unalerted ELSE unalerted \cup {c}

Clears(c) ==
  /\ ClearFault(c)
  /\ unalerted' = unalerted \ {c}
  /\ UNCHANGED reporting

\* Mutant of ObstacleUpdate: only the response is kept, the fault is reported
\* when the way was clear before.
ObstacleUpdateFromClear ==
  /\ ObstacleCode \notin reporting
  /\ response' = Classify(distance)
  /\ CASE response' = "STOP" /\ response = "CLEAR" -> Reports(ObstacleCode)
       [] response' = "CLEAR" /\ response = "STOP" -> Clears(ObstacleCode)
       [] OTHER -> UNCHANGED <<records, reporting, unalerted>>
  /\ UNCHANGED <<distance, alerted, monitorQueue>>

\* update(): on entering STOP the fault is reported; only straight from STOP to
\* CLEAR it is cleared.
ObstacleUpdate ==
  /\ ObstacleCode \notin reporting
  /\ response' = Classify(distance)
  /\ CASE response' = "STOP" /\ response # "STOP" -> Reports(ObstacleCode)
       [] response' = "CLEAR" /\ response = "STOP" -> Clears(ObstacleCode)
       [] OTHER -> UNCHANGED <<records, reporting, unalerted>>
  /\ UNCHANGED <<distance, alerted, monitorQueue>>

\* Any other component, in the main thread; any thread clears.
OthersReport ==
  /\ OtherCodes \cap reporting = {}
  /\ \E c \in OtherCodes : Reports(c)
  /\ UNCHANGED <<distance, response, alerted, monitorQueue>>

OthersClear ==
  /\ \E c \in OtherCodes : Active(c) /\ Clears(c)
  /\ UNCHANGED <<distance, response, alerted, monitorQueue>>

-----------------------------------------------------------------------------
\* _dispatch: the time of the alert is kept, handlers and server are told.
Dispatch(c) ==
  /\ alerted' = [alerted EXCEPT ![c] = "recent"]
  /\ unalerted' = unalerted \ {c}

\* _on_fault, called by the reporter.
CallbackRuns ==
  /\ \E c \in reporting : Dispatch(c) /\ reporting' = reporting \ {c}
  /\ UNCHANGED <<records, distance, response, monitorQueue>>

\* _monitor_loop: the active faults are listed once ...
MonitorLists ==
  /\ monitorQueue = {}
  /\ monitorQueue' = {c \in FaultCodes : Active(c)}
  /\ UNCHANGED <<records, distance, response, reporting, alerted, unalerted>>

\* ... and alerted in turn if the interval is over, active or not by then.
MonitorAlerts ==
  /\ \E c \in monitorQueue :
       /\ monitorQueue' = monitorQueue \ {c}
       /\ IF alerted[c] = "recent" THEN UNCHANGED <<alerted, unalerted>>
                                   ELSE Dispatch(c)
  /\ UNCHANGED <<records, distance, response, reporting>>

IntervalPasses ==
  /\ \E c \in FaultCodes :
       alerted[c] = "recent" /\ alerted' = [alerted EXCEPT ![c] = "old"]
  /\ UNCHANGED <<records, distance, response, reporting, monitorQueue, unalerted>>

DetectorNext ==
  \/ SensorsReport \/ ObstacleUpdate \/ OthersReport \/ OthersClear
  \/ CallbackRuns \/ MonitorLists \/ MonitorAlerts \/ IntervalPasses

DetectorSpec == DetectorInit /\ [][DetectorNext]_detectorVars

-----------------------------------------------------------------------------
(***************************************************************************)
(* While the response is STOP the obstacle is an active fault, however the *)
(* readings went before; and outside report_fault no fault is active       *)
(* without an alert of its own since it was reported, even if the same     *)
(* fault was alerted and cleared a moment ago.                             *)
(***************************************************************************)
StopsAndFaultsAreTold ==
  /\ response = "STOP" => Active(ObstacleCode)
  /\ unalerted \subseteq reporting
=============================================================================
