------------------------- MODULE Peripherals_proofs -------------------------
(***************************************************************************)
(* Proofs about components around the mower: StreamManager, for any        *)
(* callers and any number of streams, the beacon thread of                 *)
(* MeshtasticBeacon, Detectors, for any set of fault codes, Uplink, for    *)
(* any number of networks, Vision, for every compute profile,              *)
(* StatusLights, for any number of lines under way, FleetCoordinator, for  *)
(* any number of units, CalibrationMenu, for any number of flows and       *)
(* cameras, and StripePlan, for any width of box and deck.                 *)
(***************************************************************************)
EXTENDS StreamManager, MeshtasticBeacon, Detectors, Uplink, Vision, StatusLights,
        FleetCoordinator, CalibrationMenu, StripePlan, SequenceTheorems,
        FiniteSetTheorems, WellFoundedInduction, TLAPS
-----------------------------------------------------------------------------
(***************************************************************************)
(* Streams.  Without an overlap a caller on its way to record a stream is  *)
(* the only one, and nothing else is recorded, so that what it replaces is *)
(* nothing.                                                                *)
(***************************************************************************)
NoOverlap ==
  \A c \in StreamCallers : callerAt[c] # "idle" =>
    active = 0 /\ \A d \in StreamCallers : d # c => callerAt[d] = "idle"

HoldsLaunched == \A c \in StreamCallers : callerAt[c] # "launched" => holds[c] = 0

NoOrphan == \A p \in live : p = active \/ \E c \in StreamCallers : p = holds[c]

StreamInv ==
  /\ StreamTypeOK /\ HoldsLaunched
  /\ ~overlap => NoOverlap /\ NoOrphan

\* Every step keeps the type of the streams.
LEMMA StreamTypeKept ==
  ASSUME StreamTypeOK, [StreamNext]_streamVars
  PROVE  StreamTypeOK'
<1>. USE StreamsAssumption DEF StreamTypeOK
<1>0. 0 \in 0..MaxStreams
  OBVIOUS
<1>1. ASSUME NEW c \in StreamCallers, StartChecks(c) PROVE StreamTypeOK'
  BY <1>1 DEF StartChecks
<1>2. ASSUME NEW c \in StreamCallers, StartLaunches(c) PROVE StreamTypeOK'
  <2>1. CASE launched < MaxStreams /\ launched' = launched + 1
    <3>1. launched' \in 0..MaxStreams /\ launched' \in Streams
      BY <2>1 DEF Streams
    <3>2. CASE callerAt' = [callerAt EXCEPT ![c] = "launched"]
      BY <1>2, <2>1, <3>1, <3>2 DEF StartLaunches
    <3>3. CASE callerAt' = [callerAt EXCEPT ![c] = "idle"]
      BY <1>2, <2>1, <3>1, <3>3 DEF StartLaunches
    <3>. QED BY <1>2, <3>2, <3>3 DEF StartLaunches
  <2>2. CASE ~(launched < MaxStreams /\ launched' = launched + 1)
    BY <1>2, <2>2 DEF StartLaunches
  <2>. QED BY <2>1, <2>2
<1>3. ASSUME NEW c \in StreamCallers, StartRecords(c) PROVE StreamTypeOK'
  <2>1. holds[c] \in 0..MaxStreams
    OBVIOUS
  <2>. QED BY <1>0, <1>3, <2>1 DEF StartRecords
<1>4. CASE StreamsStart \/ StreamAges \/ WatchLists \/ UNCHANGED streamVars
  BY <1>4 DEF StreamsStart, StreamAges, WatchLists, streamVars
<1>5. CASE StopStream \/ StopAll \/ WatchStops
  <2>1. active' = 0 /\ streamOld' = FALSE /\ live' = live \ {active}
    BY <1>5 DEF StopStream, StopAll, WatchStops, StopEffect
  <2>2. active' \in 0..MaxStreams /\ live' \in SUBSET Streams
    BY <1>0, <2>1
  <2>. QED BY <1>5, <2>1, <2>2 DEF StopStream, StopAll, WatchStops
<1>. QED BY <1>1, <1>2, <1>3, <1>4, <1>5 DEF StreamNext

\* Every step keeps the processes accounted for while no two callers overlap.
LEMMA StreamKeeps ==
  ASSUME StreamInv, [StreamNext]_streamVars
  PROVE  StreamInv'
<1>0. StreamTypeOK /\ StreamTypeOK'
  BY StreamTypeKept DEF StreamInv
<1>. USE DEF StreamInv, HoldsLaunched, NoOverlap, NoOrphan
<1>1. ASSUME NEW c \in StreamCallers, StartChecks(c) PROVE StreamInv'
  <2>1. UNCHANGED <<live, active, holds>> /\ active = 0
    BY <1>1 DEF StartChecks
  <2>2. HoldsLaunched'
    BY <1>0, <1>1, <2>1 DEF StartChecks, StreamTypeOK
  <2>3. ASSUME ~overlap' PROVE NoOverlap' /\ NoOrphan'
    <3>1. ~overlap /\ \A d \in StreamCallers : callerAt[d] = "idle"
      BY <1>1, <2>3 DEF StartChecks
    <3>2. \A d \in StreamCallers \ {c} : callerAt'[d] = "idle"
      BY <1>0, <1>1, <3>1 DEF StartChecks, StreamTypeOK
    <3>. QED BY <2>1, <3>1, <3>2
  <2>. QED BY <1>0, <2>2, <2>3
<1>2. ASSUME NEW c \in StreamCallers, StartLaunches(c) PROVE StreamInv'
  <2>1. CASE /\ live' = live \cup {launched + 1}
             /\ callerAt' = [callerAt EXCEPT ![c] = "launched"]
             /\ holds' = [holds EXCEPT ![c] = launched + 1]
    <3>1. /\ holds[c] = 0 /\ 0 \notin live
          /\ holds'[c] = launched + 1 /\ \A d \in StreamCallers \ {c} : holds'[d] = holds[d]
      BY <1>0, <1>2, <2>1 DEF StartLaunches, StreamTypeOK, Streams
    <3>2. HoldsLaunched'
      BY <1>0, <2>1, <3>1 DEF StreamTypeOK
    <3>3. ASSUME ~overlap' PROVE NoOverlap' /\ NoOrphan'
      BY <1>0, <1>2, <2>1, <3>1, <3>3 DEF StartLaunches, StreamTypeOK
    <3>. QED BY <1>0, <3>2, <3>3
  <2>2. CASE /\ callerAt' = [callerAt EXCEPT ![c] = "idle"]
             /\ UNCHANGED <<launched, live, holds>>
    BY <1>0, <1>2, <2>2 DEF StartLaunches, StreamTypeOK
  <2>. QED BY <1>2, <2>1, <2>2 DEF StartLaunches
<1>3. ASSUME NEW c \in StreamCallers, StartRecords(c) PROVE StreamInv'
  <2>1. 0 \notin live
    BY <1>0 DEF StreamTypeOK, Streams
  <2>. QED BY <1>0, <1>3, <2>1 DEF StartRecords, StreamTypeOK
<1>4. CASE StreamsStart \/ StreamAges \/ WatchLists \/ UNCHANGED streamVars
  BY <1>0, <1>4 DEF StreamsStart, StreamAges, WatchLists, streamVars
<1>5. CASE StopStream \/ StopAll \/ WatchStops
  BY <1>0, <1>5 DEF StopStream, StopAll, WatchStops, StopEffect, StreamTypeOK
<1>. QED BY <1>1, <1>2, <1>3, <1>4, <1>5 DEF StreamNext

(***************************************************************************)
(* The inductive invariant holds, for any number of callers and processes. *)
(***************************************************************************)
THEOREM StreamInvariant == StreamSpec => []StreamInv
<1>1. StreamInit => StreamInv
  <2>1. 0 \in 0..MaxStreams
    BY StreamsAssumption
  <2>. QED BY <2>1 DEF StreamInit, StreamInv, StreamTypeOK, HoldsLaunched, NoOverlap, NoOrphan
<1>2. StreamInv /\ [StreamNext]_streamVars => StreamInv'
  BY StreamKeeps
<1>. QED BY <1>1, <1>2, PTL DEF StreamSpec

(***************************************************************************)
(* Only when two starts, or a start and stop(), overlapped is a streaming  *)
(* process left behind that nobody will ever stop (stream_manager.py,      *)
(* start_stream).                                                          *)
(***************************************************************************)
THEOREM OrphanTheorem == StreamSpec => []OrphanNeedsOverlap
<1>1. StreamInv => OrphanNeedsOverlap
  BY DEF StreamInv, NoOrphan, OrphanNeedsOverlap
<1>. QED BY <1>1, StreamInvariant, PTL

-----------------------------------------------------------------------------
(***************************************************************************)
(* Beacon: with its type the property is inductive.                        *)
(***************************************************************************)
THEOREM BeaconInvariant == BeaconSpec => [](BeaconTypeOK /\ RequestIsSeen)
<1>1. BeaconInit => BeaconTypeOK /\ RequestIsSeen
  BY DEF BeaconInit, BeaconTypeOK, RequestIsSeen
<1>2. ASSUME BeaconTypeOK, RequestIsSeen, [BeaconNext]_beaconVars
      PROVE  BeaconTypeOK' /\ RequestIsSeen'
  <2>. USE <1>2 DEF BeaconTypeOK, RequestIsSeen
  <2>1. CASE BeaconStart \/ BeaconRequested \/ BeaconStop
    BY <2>1 DEF BeaconStart, BeaconRequested, BeaconStop
  <2>2. CASE BeaconComposes
    BY <2>2 DEF BeaconComposes
  <2>3. CASE BeaconTransmits
    BY <2>3 DEF BeaconTransmits
  <2>4. CASE BeaconWakes
    BY <2>4 DEF BeaconWakes
  <2>5. CASE BeaconClears
    BY <2>5 DEF BeaconClears
  <2>6. CASE UNCHANGED beaconVars
    BY <2>6 DEF beaconVars
  <2>. QED BY <2>1, <2>2, <2>3, <2>4, <2>5, <2>6 DEF BeaconNext, BeaconThread
<1>. QED BY <1>1, <1>2, PTL DEF BeaconSpec

(***************************************************************************)
(* A request for a beacon never has to wait for the interval, even one     *)
(* that comes between the thread's wait and its clear and is cleared       *)
(* unseen (meshtastic_beacon.py, _run_loop).                               *)
(***************************************************************************)
THEOREM RequestTheorem == BeaconSpec => []RequestIsSeen
BY BeaconInvariant, PTL

-----------------------------------------------------------------------------
(***************************************************************************)
(* Detectors: the operations of the registry, as far as a code is active.  *)
(***************************************************************************)
LEMMA ReportFacts ==
  ASSUME FaultTypeOK, NEW c \in FaultCodes, ReportFault(c, "CRITICAL")
  PROVE  /\ FaultTypeOK'
         /\ \A x \in FaultCodes : Active(x)' <=> x = c \/ Active(x)
<1>. DEFINE new == [active |-> TRUE, severity |-> "CRITICAL", acknowledged |-> FALSE]
<1>1. new \in FaultRecord /\ new.active
  BY DEF FaultRecord, Severities
<1>. HIDE DEF new
<1>2. records' = IF Active(c) THEN records ELSE [records EXCEPT ![c] = new]
  BY DEF ReportFault, new
<1>. QED BY <1>1, <1>2 DEF FaultTypeOK, Active

\* A clear takes the code away and no other.
LEMMA ClearFacts ==
  ASSUME FaultTypeOK, NEW c \in FaultCodes, ClearFault(c)
  PROVE  /\ FaultTypeOK'
         /\ \A x \in FaultCodes : Active(x)' <=> x # c /\ Active(x)
<1>1. NoFault \in FaultRecord /\ ~NoFault.active
  BY DEF FaultRecord, NoFault
<1>. QED BY <1>1 DEF FaultTypeOK, Active, ClearFault

\* Every step keeps the type of detectors, registry and alerts.
LEMMA DetectorTypeKept ==
  ASSUME DetectorTypeOK, [DetectorNext]_detectorVars
  PROVE  DetectorTypeOK'
<1>. USE DetectorAssumption DEF DetectorTypeOK
<1>1. \A c \in FaultCodes : Reports(c) =>
        FaultTypeOK' /\ reporting' \subseteq FaultCodes /\ unalerted' \subseteq FaultCodes
  BY ReportFacts DEF Reports
<1>2. \A c \in FaultCodes : Clears(c) =>
        FaultTypeOK' /\ reporting' \subseteq FaultCodes /\ unalerted' \subseteq FaultCodes
  BY ClearFacts DEF Clears
<1>3. CASE SensorsReport
  BY <1>3 DEF SensorsReport, FaultTypeOK
<1>4. CASE ObstacleUpdate
  <2>1. response' \in Responses
    BY <1>4 DEF ObstacleUpdate, Classify, Responses
  <2>2. \/ Reports(ObstacleCode) \/ Clears(ObstacleCode)
        \/ UNCHANGED <<records, reporting, unalerted>>
    BY <1>4 DEF ObstacleUpdate
  <2>3. FaultTypeOK' /\ reporting' \subseteq FaultCodes /\ unalerted' \subseteq FaultCodes
    BY <1>1, <1>2, <2>2 DEF FaultTypeOK
  <2>. QED BY <1>4, <2>1, <2>3 DEF ObstacleUpdate
<1>5. CASE OthersReport
  BY <1>1, <1>5 DEF OthersReport
<1>6. CASE OthersClear
  BY <1>2, <1>6 DEF OthersClear
<1>7. CASE CallbackRuns
  BY <1>7 DEF CallbackRuns, Dispatch, FaultTypeOK
<1>8. CASE MonitorLists
  BY <1>8 DEF MonitorLists, FaultTypeOK
<1>9. CASE MonitorAlerts
  BY <1>9 DEF MonitorAlerts, Dispatch, FaultTypeOK
<1>10. CASE IntervalPasses
  BY <1>10 DEF IntervalPasses, FaultTypeOK
<1>11. CASE UNCHANGED detectorVars
  BY <1>11 DEF detectorVars, FaultTypeOK
<1>. QED BY <1>3, <1>4, <1>5, <1>6, <1>7, <1>8, <1>9, <1>10, <1>11 DEF DetectorNext

\* Every step keeps stops and faults told.
LEMMA ToldKept ==
  ASSUME DetectorTypeOK, StopsAndFaultsAreTold, [DetectorNext]_detectorVars
  PROVE  StopsAndFaultsAreTold'
<1>. USE DetectorAssumption DEF DetectorTypeOK, StopsAndFaultsAreTold
<1>1. ASSUME NEW c \in FaultCodes, Reports(c)
      PROVE  /\ \A x \in FaultCodes : Active(x)' <=> x = c \/ Active(x)
             /\ unalerted' \subseteq reporting'
  BY <1>1, ReportFacts DEF Reports
<1>3. ASSUME NEW c \in FaultCodes, Clears(c)
      PROVE  /\ \A x \in FaultCodes : Active(x)' <=> x # c /\ Active(x)
             /\ unalerted' \subseteq reporting'
  BY <1>3, ClearFacts DEF Clears
<1>4. CASE ObstacleUpdate
  <2>1. CASE response' = "STOP" /\ response # "STOP"
    BY <1>1, <1>4, <2>1 DEF ObstacleUpdate
  <2>2. CASE response' = "CLEAR" /\ response = "STOP"
    BY <1>3, <1>4, <2>2 DEF ObstacleUpdate
  <2>3. CASE /\ ~(response' = "STOP" /\ response # "STOP")
             /\ ~(response' = "CLEAR" /\ response = "STOP")
    BY <1>4, <2>3 DEF ObstacleUpdate, Active
  <2>. QED BY <2>1, <2>2, <2>3
<1>5. CASE OthersReport
  BY <1>1, <1>5 DEF OthersReport
<1>6. CASE OthersClear
  BY <1>3, <1>6 DEF OthersClear
<1>7. CASE CallbackRuns
  BY <1>7 DEF CallbackRuns, Dispatch, Active
<1>8. CASE MonitorAlerts
  BY <1>8 DEF MonitorAlerts, Dispatch, Active
<1>9. CASE SensorsReport \/ MonitorLists \/ IntervalPasses \/ UNCHANGED detectorVars
  BY <1>9 DEF SensorsReport, MonitorLists, IntervalPasses, detectorVars, Active
<1>. QED BY <1>4, <1>5, <1>6, <1>7, <1>8, <1>9 DEF DetectorNext

(***************************************************************************)
(* With the type the property is inductive, for any detectors and alerts.  *)
(***************************************************************************)
THEOREM DetectorInvariant == DetectorSpec => [](DetectorTypeOK /\ StopsAndFaultsAreTold)
<1>1. DetectorInit => DetectorTypeOK /\ StopsAndFaultsAreTold
  <2>1. ASSUME DetectorInit PROVE FaultTypeOK
    BY <2>1 DEF DetectorInit, FaultInit, FaultTypeOK, FaultRecord
  <2>. QED BY <2>1 DEF DetectorInit, DetectorTypeOK, Reading, Responses, StopsAndFaultsAreTold
<1>2. DetectorTypeOK /\ StopsAndFaultsAreTold /\ [DetectorNext]_detectorVars
        => DetectorTypeOK' /\ StopsAndFaultsAreTold'
  BY DetectorTypeKept, ToldKept
<1>. QED BY <1>1, <1>2, PTL DEF DetectorSpec

(***************************************************************************)
(* However readings, reports, clears and rounds of the monitor interleave, *)
(* STOP means an active obstacle fault, and only a report in progress has  *)
(* an alert outstanding (obstacle.py, update; alerts.py, _on_fault).       *)
(***************************************************************************)
THEOREM ToldTheorem == DetectorSpec => []StopsAndFaultsAreTold
BY DetectorInvariant, PTL

-----------------------------------------------------------------------------
(***************************************************************************)
(* Uplink: the networks in range have a best one, which wpa_supplicant     *)
(* goes for.                                                               *)
(***************************************************************************)
LEMMA LeastExists ==
  ASSUME NEW S \in SUBSET Nat, S # {}
  PROVE  \E n \in S : \A m \in S : n <= m
<1>1. PICK n \in S : \A m \in S : ~ (<<m, n>> \in OpToRel(<, Nat))
  BY NatLessThanWellFounded, WFMin
<1>2. ASSUME NEW m \in S PROVE n <= m
  <2>1. ~ (m < n)
    BY <1>1 DEF OpToRel
  <2>. QED BY <2>1
<1>. QED BY <1>2

\* The best network in range, and that none in range is better.
LEMMA BestFacts ==
  ASSUME inRange \subseteq Known, inRange # {}
  PROVE  Best \in inRange /\ \A m \in inRange : Best <= m
<1>1. inRange \in SUBSET Nat
  BY DEF Known
<1>2. \E n \in inRange : \A m \in inRange : n <= m
  BY <1>1, LeastExists
<1>. QED BY <1>2 DEF Best

(***************************************************************************)
(* While connect() tries, nothing has changed or been refused, and         *)
(* wpa_supplicant has not gone astray, the best network has not been       *)
(* passed over: it is the one wpa_supplicant sits on, so that it is joined *)
(* when its turn comes.                                                    *)
(***************************************************************************)
NotPassedOver ==
  wifiAt \in {"trying", "raised"} /\ inRange # {} =>
    \/ rangeChanged \/ wifiRefused \/ astray
    \/ wifiAt = "trying" /\ trying <= Best /\ association \in {0, Best}

UplinkInv == UplinkTypeOK /\ NotPassedOver

\* Every step keeps the type of the uplink.
LEMMA UplinkTypeKept ==
  ASSUME UplinkTypeOK, [UplinkNext]_uplinkVars
  PROVE  UplinkTypeOK'
<1>. USE UplinkAssumption DEF UplinkTypeOK
<1>0. 1 \in Known /\ \A n \in Known : n < NumNetworks => n + 1 \in Known
  BY DEF Known
<1>1. CASE SupplicantAssociates
  BY <1>1 DEF SupplicantAssociates, probeVars
<1>2. CASE RangeChanges
  BY <1>2 DEF RangeChanges, probeVars
<1>3. CASE ConnectBegins
  BY <1>0, <1>3 DEF ConnectBegins, probeVars
<1>4. ASSUME NextNetwork PROVE /\ wifiAt' \in {"start", "trying", "joined", "raised"}
                               /\ trying' \in Known /\ association' \in inRange \cup {0}
  BY <1>0, <1>4 DEF NextNetwork, Known
<1>5. CASE ConfigRefused
  BY <1>4, <1>5 DEF ConfigRefused, probeVars
<1>6. CASE Joined
  BY <1>6 DEF Joined, probeVars
<1>7. CASE AssociationTimesOut
  BY <1>4, <1>7 DEF AssociationTimesOut, probeVars
<1>8. CASE BootFails
  BY <1>8 DEF BootFails, probeVars
<1>9. CASE ServersChange \/ ProbeBegins \/ ProbeAnswered \/ ProbeUnanswered
  BY <1>9 DEF ServersChange, ProbeBegins, ProbeAnswered, ProbeUnanswered, wifiVars, Urls
<1>10. CASE UNCHANGED uplinkVars
  BY <1>10 DEF uplinkVars, wifiVars, probeVars
<1>. QED BY <1>1, <1>2, <1>3, <1>5, <1>6, <1>7, <1>8, <1>9, <1>10 DEF UplinkNext

\* Every step keeps the networks that were passed over accounted for.
LEMMA NotPassedOverKept ==
  ASSUME UplinkInv, [UplinkNext]_uplinkVars
  PROVE  NotPassedOver'
<1>0. /\ inRange \subseteq Known /\ trying \in Known /\ Known \subseteq Nat /\ NumNetworks \in Nat
      /\ inRange # {} => Best \in Known /\ \A m \in inRange : Best <= m
  <2>1. inRange \subseteq Known /\ trying \in Known
    BY DEF UplinkInv, UplinkTypeOK
  <2>2. inRange # {} => Best \in inRange /\ \A m \in inRange : Best <= m
    BY <2>1, BestFacts
  <2>3. inRange # {} => Best \in Known
    BY <2>1, <2>2
  <2>4. Known \subseteq Nat /\ NumNetworks \in Nat
    BY UplinkAssumption DEF Known
  <2>. QED BY <2>1, <2>2, <2>3, <2>4
<1>b. inRange' = inRange => Best' = Best
  BY DEF Best
<1>. USE DEF UplinkInv, NotPassedOver
<1>1. CASE SupplicantAssociates
  BY <1>1, <1>b DEF SupplicantAssociates
<1>2. CASE RangeChanges
  BY <1>2 DEF RangeChanges
<1>3. CASE ConnectBegins
  <2>1. inRange # {} => 1 <= Best
    BY <1>0 DEF Known
  <2>. QED BY <1>3, <1>b, <2>1 DEF ConnectBegins
<1>4. CASE ConfigRefused
  BY <1>4 DEF ConfigRefused
<1>5. CASE Joined
  BY <1>5 DEF Joined
<1>6. CASE AssociationTimesOut
  <2>. SUFFICES ASSUME inRange # {}, ~rangeChanged, ~wifiRefused, ~astray'
                PROVE  NotPassedOver'
    BY <1>6 DEF AssociationTimesOut
  <2>0. ~astray /\ association # 0
    BY <1>6 DEF AssociationTimesOut
  <2>1. trying <= Best /\ association = Best /\ association # trying
    BY <1>6, <2>0 DEF AssociationTimesOut
  <2>2. trying < NumNetworks /\ trying + 1 <= Best
    BY <1>0, <2>1 DEF Known
  <2>3. trying' = trying + 1 /\ association' = 0 /\ wifiAt' = "trying" /\ inRange' = inRange
    BY <1>6, <2>2 DEF AssociationTimesOut, NextNetwork
  <2>. QED BY <1>b, <2>2, <2>3
<1>7. CASE BootFails
  BY <1>7 DEF BootFails
<1>8. CASE \/ ServersChange \/ ProbeBegins \/ ProbeAnswered \/ ProbeUnanswered
           \/ UNCHANGED uplinkVars
  BY <1>8, <1>b DEF ServersChange, ProbeBegins, ProbeAnswered, ProbeUnanswered,
     uplinkVars, wifiVars
<1>. QED BY <1>1, <1>2, <1>3, <1>4, <1>5, <1>6, <1>7, <1>8 DEF UplinkNext

(***************************************************************************)
(* The inductive invariant holds, for any number of networks.              *)
(***************************************************************************)
THEOREM UplinkInvariant == UplinkSpec => []UplinkInv
<1>1. UplinkInit => UplinkInv
  <2>1. 1 \in Known
    BY UplinkAssumption DEF Known
  <2>. QED BY <2>1 DEF UplinkInit, UplinkInv, UplinkTypeOK, NotPassedOver
<1>2. UplinkInv /\ [UplinkNext]_uplinkVars => UplinkInv'
  BY UplinkTypeKept, NotPassedOverKept DEF UplinkInv
<1>. QED BY <1>1, <1>2, PTL DEF UplinkSpec

(***************************************************************************)
(* For any number of networks connect() gives up only when none was in     *)
(* range, or they changed, or wpa_supplicant was not told, was slow or     *)
(* took another than the best (wifi_manager.py, connect and _associate).   *)
(***************************************************************************)
THEOREM NetworksTheorem == UplinkSpec => []GivesUpOnlyWithoutNetwork
<1>1. UplinkInv => GivesUpOnlyWithoutNetwork
  BY DEF UplinkInv, NotPassedOver, GivesUpOnlyWithoutNetwork
<1>. QED BY <1>1, UplinkInvariant, PTL

-----------------------------------------------------------------------------
(***************************************************************************)
(* Vision: a look is under way only during a search, and an answer that    *)
(* says "seen" is of this attempt.                                         *)
(***************************************************************************)
DockingInv ==
  /\ look # "none" => docking = "SEARCHING_MARKER"
  /\ look = "seen" => sawMarker
  /\ DockedSawMarker

(***************************************************************************)
(* The type of the cameras and of the docking.                             *)
(***************************************************************************)
LEMMA VisionTypeKept ==
  ASSUME VisionTypeOK, [VisionNext]_visionVars
  PROVE  VisionTypeOK'
<1>. USE DEF VisionTypeOK, Docked, ReturnStates, equipment
<1>1. CASE MarkerMoves \/ NodeStopsOrStarts \/ SearchTimesOut
  BY <1>1 DEF MarkerMoves, NodeStopsOrStarts, SearchTimesOut
<1>2. CASE ReturnBegins
  BY <1>2 DEF ReturnBegins
<1>3. CASE ReturnArrives \/ LookBegins \/ SearchFails \/ DockApproach
  BY <1>3 DEF ReturnArrives, LookBegins, SearchFails, DockApproach
<1>4. CASE LookTakes
  BY <1>4 DEF LookTakes, Detects
<1>5. CASE LookReturns
  BY <1>5 DEF LookReturns
<1>6. CASE UNCHANGED visionVars
  BY <1>6 DEF visionVars
<1>. QED BY <1>1, <1>2, <1>3, <1>4, <1>5, <1>6 DEF VisionNext, ReturnStep

(***************************************************************************)
(* The invariant of the docking holds, with the type.                      *)
(***************************************************************************)
THEOREM VisionInvariant == VisionSpec => [](VisionTypeOK /\ DockingInv)
<1>1. VisionInit => VisionTypeOK /\ DockingInv
  <2>1. VisionInit => DockingInv
    BY DEF VisionInit, DockingInv, DockedSawMarker
  <2>2. VisionInit => camKind \in {"sim", "local", "remote"}
    BY DEF VisionInit, CameraKinds
  <2>3. VisionInit => VisionTypeOK
    BY <2>2 DEF VisionInit, VisionTypeOK, ReturnStates, Docked
  <2>. QED BY <2>1, <2>3
<1>2. ASSUME DockingInv, [VisionNext]_visionVars PROVE DockingInv'
  <2>. USE <1>2 DEF DockingInv, DockedSawMarker
  <2>1. CASE MarkerMoves \/ NodeStopsOrStarts \/ SearchTimesOut
    BY <2>1 DEF MarkerMoves, NodeStopsOrStarts, SearchTimesOut
  <2>2. CASE ReturnBegins
    BY <2>2 DEF ReturnBegins, Docked
  <2>3. CASE ReturnArrives \/ LookBegins \/ SearchFails \/ DockApproach
    BY <2>3 DEF ReturnArrives, LookBegins, SearchFails, DockApproach
  <2>4. CASE LookTakes
    BY <2>4 DEF LookTakes, Detects
  <2>5. CASE LookReturns
    BY <2>5 DEF LookReturns
  <2>6. CASE UNCHANGED visionVars
    BY <2>6 DEF visionVars
  <2>. QED BY <2>1, <2>2, <2>3, <2>4, <2>5, <2>6 DEF VisionNext, ReturnStep
<1>. QED BY <1>1, <1>2, VisionTypeKept, PTL DEF VisionSpec

(***************************************************************************)
(* Wherever the cameras are and however the marker, the vision node and    *)
(* the deadline change meanwhile, only a real frame of this attempt docks  *)
(* the unit (return_home.py, _search_marker; cameras.py, detect_aruco).    *)
(***************************************************************************)
THEOREM DockTheorem == VisionSpec => []DockedSawMarker
<1>1. DockingInv => DockedSawMarker
  BY DEF DockingInv
<1>. QED BY <1>1, VisionInvariant, PTL

-----------------------------------------------------------------------------
(***************************************************************************)
(* StatusLights: the last line of an indication is the one the firmware    *)
(* renders as dark, so that is what stands at the end of what is under way.*)
(***************************************************************************)
Beacon == Pattern("beacon")
EndsDark(s) == s # <<>> => s[Len(s)] = Beacon

LightsInv ==
  /\ LightsTypeOK
  /\ ~piUp => ledTodo = <<>>
  /\ piUp /\ ~ledLost =>
       /\ EndsDark(ledTodo)
       /\ ledTodo = <<>> => EndsDark(ledWire)
       /\ ledTodo = <<>> /\ ledWire = <<>> => strip \in {"dark", "BOOT", "ESTOP"}

\* A line taken from the front leaves the last one at the end.
LEMMA TailEndsDark ==
  ASSUME NEW s \in Seq(LedLine), s # <<>>, EndsDark(s)
  PROVE  /\ EndsDark(Tail(s)) /\ Tail(s) \in Seq(LedLine) /\ Head(s) \in LedLine
         /\ Tail(s) = <<>> => Head(s) = Beacon
<1>. DEFINE n == Len(s)
<1>1. n \in Nat \ {0} /\ \A i \in 1..n : s[i] \in LedLine
  BY LenProperties
<1>2. /\ Tail(s) \in Seq(LedLine) /\ Len(Tail(s)) = n - 1
      /\ \A i \in 1..(n - 1) : Tail(s)[i] = s[i + 1]
  OBVIOUS
<1>3. Head(s) = s[1] /\ Head(s) \in LedLine
  BY <1>1
<1>4. s[n] = Beacon
  BY DEF EndsDark
<1>5. EndsDark(Tail(s))
  <2>1. ASSUME Tail(s) # <<>> PROVE n - 1 \in 1..(n - 1)
    BY <1>1, <1>2, <2>1, EmptySeq
  <2>. QED BY <1>1, <1>2, <1>4, <2>1 DEF EndsDark
<1>6. Tail(s) = <<>> => n = 1
  BY <1>1, <1>2, EmptySeq
<1>. QED BY <1>2, <1>3, <1>4, <1>5, <1>6

\* Every step keeps the type of the lights.
LEMMA LightsTypeKept ==
  ASSUME LightsTypeOK, [LightsNext]_lightsVars
  PROVE  LightsTypeOK'
<1>. USE DEF LightsTypeOK
<1>0. \A s \in Seq(LedLine) : s # <<>> => Head(s) \in LedLine /\ Tail(s) \in Seq(LedLine)
  OBVIOUS
<1>1. ASSUME NEW i \in Asked, Indicate(i) PROVE LightsTypeOK'
  <2>1. i \in Indications
    BY <1>1 DEF Asked, Indications, SolidIndications, PatternOf
  <2>2. Indication(i) \in Seq(LedLine)
    <3>1. Pattern("beacon") \in LedLine
      BY DEF Pattern, LedLine
    <3>2. CASE i \in SolidIndications
      <4>1. Solid(i) \in LedLine
        BY <3>2 DEF Solid, LedLine
      <4>. QED BY <3>1, <3>2, <4>1 DEF Indication
    <3>3. CASE i \notin SolidIndications
      <4>1. Pattern(PatternOf[i]) \in LedLine
        BY <2>1, <3>3 DEF Pattern, LedLine, Indications
      <4>. QED BY <3>1, <3>3, <4>1 DEF Indication
    <3>. QED BY <3>2, <3>3
  <2>. QED BY <1>1, <2>1, <2>2 DEF Indicate
<1>2. CASE LedSend
  <2>1. Head(ledTodo) \in LedLine /\ ledTodo' \in Seq(LedLine)
    BY <1>0, <1>2 DEF LedSend
  <2>2. ASSUME NEW l \in LedLine PROVE Append(ledWire, l) \in Seq(LedLine)
    OBVIOUS
  <2>3. ledWire' \in Seq(LedLine)
    BY <1>2, <2>1, <2>2 DEF LedSend
  <2>4. ledLost' \in BOOLEAN
    BY <1>2 DEF LedSend
  <2>. QED BY <1>2, <2>1, <2>3, <2>4 DEF LedSend
<1>3. CASE LedDispatched
  <2>1. Head(ledWire) \in LedLine /\ ledWire' \in Seq(LedLine)
    BY <1>0, <1>3 DEF LedDispatched
  <2>2. strip' \in {"dark", "BOOT", "ESTOP"} \cup Indications
    BY <1>3, <2>1 DEF LedDispatched, Rendered, LedLine, Indications
  <2>. QED BY <1>3, <2>1, <2>2 DEF LedDispatched
<1>4. CASE FwShowsStop
  BY <1>4 DEF FwShowsStop
<1>6. CASE LightsDie
  <2>1. <<>> \in Seq(LedLine)
    OBVIOUS
  <2>. QED BY <1>6, <2>1 DEF LightsDie
<1>7. CASE UNCHANGED lightsVars
  BY <1>7 DEF lightsVars
<1>5. CASE LightsRestart
  BY <1>5 DEF LightsRestart, Indications, SolidIndications
<1>. QED BY <1>1, <1>2, <1>3, <1>4, <1>5, <1>6, <1>7 DEF LightsNext

\* Every step keeps the last line dark.
LEMMA LightsKept ==
  ASSUME LightsInv, [LightsNext]_lightsVars
  PROVE  LightsInv'
<1>0. /\ LightsTypeOK /\ LightsTypeOK'
      /\ ledTodo \in Seq(LedLine) /\ ledWire \in Seq(LedLine)
  BY LightsTypeKept DEF LightsInv, LightsTypeOK
<1>e. EndsDark(<<>>)
  BY DEF EndsDark
<1>1. ASSUME NEW i \in Asked, Indicate(i) PROVE LightsInv'
  <2>1. /\ ledTodo' = Indication(i) /\ Indication(i) # <<>> /\ EndsDark(Indication(i))
        /\ UNCHANGED <<piUp, ledWire, strip, ledLost>> /\ piUp
    BY <1>1 DEF Indicate, Indication, EndsDark, Beacon
  <2>. QED BY <1>0, <2>1 DEF LightsInv
<1>2. CASE LedSend
  <2>1. /\ ledTodo # <<>> /\ ledTodo' = Tail(ledTodo) /\ UNCHANGED <<piUp, strip>>
        /\ \/ ledWire' = Append(ledWire, Head(ledTodo)) /\ ledLost' = ledLost
           \/ ledLost' = TRUE
    BY <1>2 DEF LedSend
  <2>2. piUp
    BY <2>1 DEF LightsInv
  <2>. SUFFICES ASSUME ~ledLost' PROVE LightsInv'
    BY <1>0, <2>1, <2>2 DEF LightsInv
  <2>3. ~ledLost /\ ledWire' = Append(ledWire, Head(ledTodo)) /\ EndsDark(ledTodo)
    BY <2>1, <2>2 DEF LightsInv
  <2>4. /\ EndsDark(ledTodo') /\ Head(ledTodo) \in LedLine
        /\ ledTodo' = <<>> => Head(ledTodo) = Beacon
    BY <1>0, <2>1, <2>3, TailEndsDark
  <2>5. ledWire' # <<>> /\ ledWire'[Len(ledWire')] = Head(ledTodo)
    BY <1>0, <2>3, <2>4
  <2>6. ledTodo' = <<>> => EndsDark(ledWire')
    BY <2>4, <2>5 DEF EndsDark
  <2>. QED BY <1>0, <2>1, <2>2, <2>4, <2>5, <2>6 DEF LightsInv
<1>3. CASE LedDispatched
  <2>1. /\ ledWire # <<>> /\ ledWire' = Tail(ledWire) /\ strip' = Rendered(Head(ledWire), strip)
        /\ UNCHANGED <<piUp, ledTodo, ledLost>>
    BY <1>3 DEF LedDispatched
  <2>2. ASSUME piUp, ~ledLost, ledTodo = <<>>
        PROVE  /\ EndsDark(ledWire')
               /\ ledWire' = <<>> => strip' = "dark"
    <3>1. EndsDark(ledWire)
      BY <2>2 DEF LightsInv
    <3>2. EndsDark(Tail(ledWire)) /\ (Tail(ledWire) = <<>> => Head(ledWire) = Beacon)
      BY <1>0, <2>1, <3>1, TailEndsDark
    <3>3. Rendered(Beacon, strip) = "dark"
      BY DEF Rendered, Beacon, Pattern
    <3>. QED BY <2>1, <3>2, <3>3
  <2>. QED BY <1>0, <2>1, <2>2 DEF LightsInv
<1>4. CASE FwShowsStop \/ LightsDie \/ LightsRestart
  BY <1>0, <1>4, <1>e DEF FwShowsStop, LightsDie, LightsRestart, LightsInv
<1>5. CASE UNCHANGED lightsVars
  BY <1>0, <1>5 DEF lightsVars, LightsInv
<1>. QED BY <1>1, <1>2, <1>3, <1>4, <1>5 DEF LightsNext

(***************************************************************************)
(* The inductive invariant holds, however many lines are under way.        *)
(***************************************************************************)
THEOREM LightsInvariant == LightsSpec => []LightsInv
<1>1. LightsInit => LightsInv
  <2>1. <<>> \in Seq(LedLine) /\ EndsDark(<<>>)
    BY DEF EndsDark
  <2>2. "idle" \in Indications
    BY DEF Indications, SolidIndications
  <2>. QED BY <2>1, <2>2 DEF LightsInit, LightsInv, LightsTypeOK
<1>2. LightsInv /\ [LightsNext]_lightsVars => LightsInv'
  BY LightsKept
<1>. QED BY <1>1, <1>2, PTL DEF LightsSpec

(***************************************************************************)
(* However many lines are under way and whatever dies in between, with     *)
(* nothing under way and nothing lost the strip shows no status the unit   *)
(* has left (lights.py, indicate_*; led_control.py, _render).              *)
(***************************************************************************)
THEOREM LightsTheorem == LightsSpec => []NoStaleLights
<1>1. LightsInv => NoStaleLights
  BY DEF LightsInv, NoStaleLights
<1>. QED BY <1>1, LightsInvariant, PTL

-----------------------------------------------------------------------------
(***************************************************************************)
(* The inductive invariant of an assignment.  What is left of the zip has  *)
(* no unit and no zone twice, and none that this assignment has dealt with *)
(* already; and a unit it has dealt with has a zone of the table that      *)
(* names it.                                                               *)
(***************************************************************************)
UnitAt(k) == toAssign[k][1]
ZoneAt(k) == toAssign[k][2]

LeftDistinct ==
  \A k, l \in 1..Len(toAssign) :
    k # l => UnitAt(k) # UnitAt(l) /\ ZoneAt(k) # ZoneAt(l)

LeftIsNew ==
  \A k \in 1..Len(toAssign), u \in zoned :
    UnitAt(k) # u /\ ZoneAt(k) # unitZone[u]

ZonedHaveOwn ==
  /\ \A u \in zoned : unitZone[u] \in Zones /\ zoneUnit[unitZone[u]] = u
  /\ \A u, v \in zoned : u # v => unitZone[u] # unitZone[v]

FleetIInv == FleetTypeOK /\ LeftDistinct /\ LeftIsNew /\ ZonedHaveOwn

(***************************************************************************)
(* The zip of the units that are ready with the strips of a partition.     *)
(***************************************************************************)
LEMMA AscendingFacts ==
  ASSUME NEW S, S \subseteq Nat, IsFiniteSet(S), NEW s \in InAscending(S)
  PROVE  /\ s \in Seq(S) /\ Len(s) \in Nat
         /\ \A i, j \in 1..Len(s) : i # j => s[i] # s[j]
<1>1. Cardinality(S) \in Nat
  BY FS_CardinalityType
<1>2. s \in [1..Cardinality(S) -> S]
  BY DEF InAscending
<1>3. s \in Seq(S) /\ Len(s) = Cardinality(S)
  BY <1>1, <1>2
<1>4. ASSUME NEW i \in 1..Len(s), NEW j \in 1..Len(s), i < j
      PROVE  s[i] # s[j]
  <2>1. s[i] < s[j]
    BY <1>2, <1>3, <1>4 DEF InAscending
  <2>2. s[i] \in Nat /\ s[j] \in Nat
    BY <1>2, <1>3
  <2>. QED BY <2>1, <2>2
<1>5. ASSUME NEW i \in 1..Len(s), NEW j \in 1..Len(s), i # j
      PROVE  s[i] # s[j]
  <2>1. CASE i < j
    BY <1>4, <2>1
  <2>2. CASE j < i
    BY <1>4, <2>2
  <2>. QED BY <1>1, <1>3, <1>5, <2>1, <2>2
<1>. QED BY <1>1, <1>3, <1>5

\* The strips of a partition are zones, each of them once.
LEMMA PartitionFacts ==
  ASSUME NEW n \in 1..NumUnits, NEW s \in Partitions(n)
  PROVE  /\ s \in Seq(Zones) /\ Len(s) \in Nat
         /\ \A i, j \in 1..Len(s) : i # j => s[i] # s[j]
<1>. USE FleetAssumption
<1>1. CASE n = 1
  <2>1. s = <<0>> /\ 0 \in Zones
    BY <1>1 DEF Partitions, Zones
  <2>. QED BY <2>1
<1>2. CASE n # 1
  <2>1. PICK S \in SUBSET (0..(n - 1)) : s \in InAscending(S)
    BY <1>2 DEF Partitions
  <2>2. IsFiniteSet(0..(n - 1))
    BY FS_Interval
  <2>a. IsFiniteSet(S)
    <3>1. S \subseteq 0..(n - 1)
      BY <2>1
    <3>. QED BY <2>2, <3>1, FS_Subset, Zenon
  <2>b. n \in Nat /\ NumUnits \in Nat /\ n <= NumUnits
    OBVIOUS
  <2>c. S \subseteq Nat
    BY <2>1, <2>b
  <2>d. \A z \in S : z \in Zones
    BY <2>1, <2>b DEF Zones
  <2>4. /\ s \in Seq(S) /\ Len(s) \in Nat
        /\ \A i, j \in 1..Len(s) : i # j => s[i] # s[j]
    BY <2>1, <2>a, <2>c, AscendingFacts
  <2>5. s \in Seq(Zones)
    <3>1. s \in [1..Len(s) -> S]
      BY <2>4
    <3>2. s \in [1..Len(s) -> Zones]
      BY <3>1, <2>d, Zenon
    <3>. QED BY <3>2, <2>4
  <2>. QED BY <2>4, <2>5
<1>. QED BY <1>1, <1>2

\* A zip of two sequences without repetition has none in either column.
LEMMA ZippedFacts ==
  ASSUME NEW S, NEW T, NEW s \in Seq(S), NEW t \in Seq(T),
         \A i, j \in 1..Len(s) : i # j => s[i] # s[j],
         \A i, j \in 1..Len(t) : i # j => t[i] # t[j],
         NEW z, z = Zipped(s, t)
  PROVE  /\ z \in Seq(S \X T)
         /\ \A k, l \in 1..Len(z) : k # l => z[k][1] # z[l][1] /\ z[k][2] # z[l][2]
<1>. DEFINE n == IF Len(s) < Len(t) THEN Len(s) ELSE Len(t)
<1>1. n \in Nat /\ n <= Len(s) /\ n <= Len(t) /\ Len(s) \in Nat /\ Len(t) \in Nat
  OBVIOUS
<1>2. z = [i \in 1..n |-> <<s[i], t[i]>>]
  BY DEF Zipped
<1>. HIDE DEF n
<1>3. \A i \in 1..n : i \in 1..Len(s) /\ i \in 1..Len(t) /\ s[i] \in S /\ t[i] \in T
  BY <1>1
<1>4. z \in Seq(S \X T) /\ Len(z) = n
  BY <1>1, <1>2, <1>3
<1>5. \A i \in 1..n : z[i][1] = s[i] /\ z[i][2] = t[i]
  BY <1>2
<1>6. ASSUME NEW k \in 1..n, NEW l \in 1..n, k # l
      PROVE  z[k][1] # z[l][1] /\ z[k][2] # z[l][2]
  <2>1. s[k] # s[l] /\ t[k] # t[l]
    BY <1>3, <1>6
  <2>. QED BY <1>5, <2>1
<1>. QED BY <1>4, <1>6

(***************************************************************************)
(* Every step keeps the invariant.                                         *)
(***************************************************************************)
LEMMA AssignZonesKeeps ==
  ASSUME FleetIInv, AssignZones
  PROVE  FleetIInv'
<1>. USE DEF FleetIInv, FleetTypeOK
<1>1. PICK units \in InAscending(ready), zones \in Partitions(Cardinality(ready)) :
        toAssign' = Zipped(units, zones)
  BY DEF AssignZones
<1>2. IsFiniteSet(Units) /\ Cardinality(Units) = NumUnits /\ ready \subseteq Units
  BY FS_Interval, FleetAssumption DEF Units
<1>3. IsFiniteSet(ready) /\ Cardinality(ready) \in 1..NumUnits
  <2>1. IsFiniteSet(ready) /\ Cardinality(ready) <= NumUnits
    BY <1>2, FS_Subset
  <2>2. Cardinality(ready) \in Nat /\ Cardinality(ready) # 0
    BY <2>1, FS_CardinalityType, FS_EmptySet DEF AssignZones
  <2>. QED BY <2>1, <2>2, FleetAssumption
<1>4. ready \subseteq Nat
  BY <1>2 DEF Units
<1>5. /\ units \in Seq(ready)
      /\ \A i, j \in 1..Len(units) : i # j => units[i] # units[j]
  BY <1>3, <1>4, AscendingFacts
<1>6. units \in Seq(Units)
  BY <1>2, <1>5
<1>7. /\ zones \in Seq(Zones)
      /\ \A i, j \in 1..Len(zones) : i # j => zones[i] # zones[j]
  BY <1>3, PartitionFacts
<1>8. /\ toAssign' \in Seq(Units \X Zones)
      /\ \A k, l \in 1..Len(toAssign') :
           k # l => toAssign'[k][1] # toAssign'[l][1] /\ toAssign'[k][2] # toAssign'[l][2]
  BY <1>1, <1>5, <1>6, <1>7, ZippedFacts
<1>9. zoned' = {} /\ UNCHANGED <<ready, unitZone, zoneUnit>>
  BY DEF AssignZones
<1>. QED BY <1>8, <1>9 DEF LeftDistinct, LeftIsNew, ZonedHaveOwn, UnitAt, ZoneAt

\* Giving one unit its zone.
LEMMA AssignNextKeeps ==
  ASSUME FleetIInv, AssignNext
  PROVE  FleetIInv'
<1>. USE DEF FleetIInv, FleetTypeOK
<1>. DEFINE u == UnitAt(1)
            z == ZoneAt(1)
<1>1. /\ toAssign \in Seq(Units \X Zones) /\ toAssign # <<>>
      /\ toAssign' = Tail(toAssign) /\ Head(toAssign) = toAssign[1]
  BY DEF AssignNext
<1>2. /\ 1 \in 1..Len(toAssign) /\ u \in Units /\ z \in Zones
      /\ toAssign' \in Seq(Units \X Zones)
      /\ \A k \in 1..Len(toAssign') : /\ k + 1 \in 1..Len(toAssign) /\ k + 1 # 1
                                      /\ toAssign'[k] = toAssign[k + 1]
  BY <1>1 DEF UnitAt, ZoneAt
<1>3. /\ zoneUnit' = [zoneUnit EXCEPT ![z] = u] /\ unitZone' = [unitZone EXCEPT ![u] = z]
      /\ zoned' = zoned \cup {u} /\ ready' = ready
  BY <1>1 DEF AssignNext, UnitAt, ZoneAt
<1>4. u \notin zoned /\ \A v \in zoned : unitZone[v] # z /\ v # u
  BY <1>2 DEF LeftIsNew
<1>5. \A k \in 1..Len(toAssign') : /\ UnitAt(k)' = UnitAt(k + 1) /\ ZoneAt(k)' = ZoneAt(k + 1)
                                   /\ UnitAt(k)' # u /\ ZoneAt(k)' # z
  <2>1. \A k \in 1..Len(toAssign') : UnitAt(k)' = UnitAt(k + 1) /\ ZoneAt(k)' = ZoneAt(k + 1)
    BY <1>2 DEF UnitAt, ZoneAt
  <2>. QED BY <1>2, <2>1 DEF LeftDistinct
<1>. HIDE DEF u, z
<1>6. \A v \in zoned : unitZone'[v] = unitZone[v]
  BY <1>3, <1>4
<1>7. unitZone'[u] = z /\ zoneUnit'[z] = u
  BY <1>2, <1>3
<1>8. FleetTypeOK'
  BY <1>2, <1>3
<1>9. LeftDistinct'
  <2> SUFFICES ASSUME NEW k \in 1..Len(toAssign'), NEW l \in 1..Len(toAssign'), k # l
               PROVE  UnitAt(k)' # UnitAt(l)' /\ ZoneAt(k)' # ZoneAt(l)'
    BY DEF LeftDistinct
  <2>1. k + 1 \in 1..Len(toAssign) /\ l + 1 \in 1..Len(toAssign) /\ k + 1 # l + 1
    BY <1>2
  <2>. QED BY <1>5, <2>1 DEF LeftDistinct
<1>10. LeftIsNew'
  <2> SUFFICES ASSUME NEW k \in 1..Len(toAssign'), NEW v \in zoned'
               PROVE  UnitAt(k)' # v /\ ZoneAt(k)' # unitZone'[v]
    BY DEF LeftIsNew
  <2>1. CASE v = u
    BY <1>5, <1>7, <2>1
  <2>2. CASE v \in zoned
    BY <1>2, <1>5, <1>6, <2>2 DEF LeftIsNew
  <2>. QED BY <1>3, <2>1, <2>2
<1>11. ZonedHaveOwn'
  <2>1. \A v \in zoned' : unitZone'[v] \in Zones /\ zoneUnit'[unitZone'[v]] = v
    <3> SUFFICES ASSUME NEW v \in zoned'
                 PROVE  unitZone'[v] \in Zones /\ zoneUnit'[unitZone'[v]] = v
      OBVIOUS
    <3>1. CASE v = u
      BY <1>2, <1>7, <3>1
    <3>2. CASE v \in zoned
      BY <1>3, <1>4, <1>6, <3>2 DEF ZonedHaveOwn
    <3>. QED BY <1>3, <3>1, <3>2
  <2>2. \A v, w \in zoned' : v # w => unitZone'[v] # unitZone'[w]
    BY <1>3, <1>4, <1>6, <1>7 DEF ZonedHaveOwn
  <2>. QED BY <2>1, <2>2 DEF ZonedHaveOwn
<1>. QED BY <1>8, <1>9, <1>10, <1>11

\* A unit that reports: with the zone it had it stays among the zoned, with
\* another it leaves them.
LEMMA UnitChangesKeeps ==
  ASSUME FleetIInv, NEW u \in Units, UnitChanges(u)
  PROVE  FleetIInv'
<1>. USE DEF FleetIInv, FleetTypeOK
<1>1. PICK z \in Zones \cup {unitZone[u]} :
        /\ unitZone' = [unitZone EXCEPT ![u] = z]
        /\ zoned' = IF z = unitZone[u] THEN zoned ELSE zoned \ {u}
  BY DEF UnitChanges
<1>2. ready' \in SUBSET Units /\ UNCHANGED <<zoneUnit, toAssign>>
  BY DEF UnitChanges
<1>3. FleetTypeOK'
  BY <1>1, <1>2
<1>4. zoned' \subseteq zoned /\ \A v \in zoned' : unitZone'[v] = unitZone[v]
  <2>1. CASE z = unitZone[u]
    BY <1>1, <2>1
  <2>2. CASE z # unitZone[u]
    BY <1>1, <2>2
  <2>. QED BY <2>1, <2>2
<1>5. LeftDistinct' /\ LeftIsNew'
  BY <1>2, <1>4 DEF LeftDistinct, LeftIsNew, UnitAt, ZoneAt
<1>6. ZonedHaveOwn'
  BY <1>2, <1>4 DEF ZonedHaveOwn
<1>. QED BY <1>3, <1>5, <1>6

(***************************************************************************)
(* The invariant holds, for any number of units.                           *)
(***************************************************************************)
THEOREM FleetInvariant == FleetSpec => []FleetIInv
<1>1. FleetInit => FleetIInv
  <2> SUFFICES ASSUME FleetInit PROVE FleetIInv
    OBVIOUS
  <2>1. FleetTypeOK
    BY DEF FleetInit, FleetTypeOK
  <2>2. 1..Len(toAssign) = {}
    BY DEF FleetInit
  <2>. QED BY <2>1, <2>2 DEF FleetInit, FleetIInv, LeftDistinct, LeftIsNew, ZonedHaveOwn
<1>2. FleetIInv /\ [FleetNext]_fleetVars => FleetIInv'
  <2> SUFFICES ASSUME FleetIInv, [FleetNext]_fleetVars PROVE FleetIInv'
    OBVIOUS
  <2>1. CASE AssignZones
    BY <2>1, AssignZonesKeeps
  <2>2. CASE AssignNext
    BY <2>2, AssignNextKeeps
  <2>3. CASE ready' \in SUBSET Units /\ UNCHANGED <<unitZone, zoneUnit, toAssign, zoned>>
    BY <2>3 DEF FleetIInv, FleetTypeOK, LeftDistinct, LeftIsNew, ZonedHaveOwn, UnitAt, ZoneAt
  <2>4. CASE (\E stale \in SUBSET ready : StaleGoOffline(stale)) \/ UNCHANGED fleetVars
    BY <2>3, <2>4 DEF StaleGoOffline, fleetVars, FleetIInv, FleetTypeOK
  <2>5. ASSUME NEW u \in Units, UnitChanges(u) PROVE FleetIInv'
    BY <2>5, UnitChangesKeeps
  <2>. QED BY <2>1, <2>2, <2>4, <2>5 DEF FleetNext
<1>. QED BY <1>1, <1>2, PTL DEF FleetSpec

(***************************************************************************)
(* The property of fleet/coordinator.py's assign_zones(): two units share  *)
(* a zone only if one of them has it from elsewhere, an earlier partition  *)
(* or its own report, and the table names the unit of each zone it gave.   *)
(***************************************************************************)
THEOREM ZonesTheorem == FleetSpec => []SharedZoneLeftOut
<1>1. FleetIInv => SharedZoneLeftOut
  BY DEF FleetIInv, ZonedHaveOwn, SharedZoneLeftOut
<1>. QED BY <1>1, FleetInvariant, PTL

-----------------------------------------------------------------------------
(***************************************************************************)
(* The calibration menu.  What is under way alone is on its course: what   *)
(* it has written so far, and has still to write, add up to a menu, or a   *)
(* main page, whose state, page and handlers fit, or to a flow with CANCEL *)
(* wired.  Only one thread is then at work, and a flow that runs leaves    *)
(* the handlers alone.                                                     *)
(***************************************************************************)
MenuWired == touch = {"flows", "exit"}

EnterOnCourse(todo) ==
  \/ todo = EnterSteps
  \/ todo = <<"clear", "flows", "exit", "menu", "MAIN_MENU">>
  \/ todo = <<"flows", "exit", "menu", "MAIN_MENU">> /\ touch = {}
  \/ todo = <<"exit", "menu", "MAIN_MENU">> /\ touch = {"flows"}
  \/ todo = <<"menu", "MAIN_MENU">> /\ MenuWired
  \/ todo = <<"MAIN_MENU">> /\ MenuWired /\ page = "menu"

ExitOnCourse(todo) ==
  \/ todo = ExitSteps
  \/ todo = <<"EXITING", "clear", "main", "IDLE">>
  \/ todo = <<"clear", "main", "IDLE">>
  \/ todo = <<"main", "IDLE">> /\ touch = {}
  \/ todo = <<"IDLE">> /\ touch = {} /\ page = "main"

ReturnOnCourse(todo) ==
  \/ todo = ReturnSteps
  \/ todo = <<"clear", "flows", "exit", "menu">> /\ calState = "MAIN_MENU"
  \/ todo = <<"flows", "exit", "menu">> /\ calState = "MAIN_MENU" /\ touch = {}
  \/ todo = <<"exit", "menu">> /\ calState = "MAIN_MENU" /\ touch = {"flows"}
  \/ todo = <<"menu">> /\ calState = "MAIN_MENU" /\ MenuWired

UnavailableOnCourse(todo) ==
  \/ todo = UnavailableSteps /\ MenuFits
  \/ todo = <<"progress", "wait", "MAIN_MENU", "clear", "flows", "exit", "menu">>
  \/ todo = <<"wait", "MAIN_MENU", "clear", "flows", "exit", "menu">>

HandlerOnCourse(todo) ==
  \/ todo \in {IntrinsicSteps, AutoSteps, StatusSteps} /\ MenuFits
  \/ todo = <<"SELECT_CAMERA", "lower", "clear", "cancel", "intrinsic">>
  \/ todo = <<"AUTO_EXTRINSIC", "lower", "clear", "cancel", "auto">>
  \/ todo = <<"STATUS", "clear", "cancel", "status">>
  \/ \E kind \in Kinds :
       \/ todo = <<"lower", "clear", "cancel", kind>>
       \/ todo = <<"clear", "cancel", kind>>
       \/ todo = <<"cancel", kind>> /\ touch = {}
       \/ todo = <<kind>> /\ touch = {"cancel"}

OnCourse(todo) ==
  \/ EnterOnCourse(todo) \/ ExitOnCourse(todo) \/ ReturnOnCourse(todo)
  \/ UnavailableOnCourse(todo) \/ HandlerOnCourse(todo)

Fits == MenuFits \/ MainFits

Lone ==
  /\ \A t, u \in CalThreads : AtWork(t) /\ AtWork(u) => t = u
  /\ (\A t \in CalThreads : ~AtWork(t)) => Fits
  /\ \A t \in CalThreads : calTodo[t] # <<>> => OnCourse(calTodo[t])
  /\ \A f \in Flows : calFlow[f].at # "over" => touch = {"cancel"}

FlowShape ==
  \A f \in Flows :
    /\ calFlow[f].at # "over" => calTodo[f] = <<>>
    /\ FlowIs(f, "intrinsic", {"collect", "compute"}) => calFlow[f].cam <= MaxCameras

CalIInv == CalTypeOK /\ FlowShape /\ (~calCrossed => Lone)

\* The first of some writes, and the others.
LEMMA TailFacts ==
  ASSUME NEW a, NEW b, NEW c, NEW d, NEW e, NEW f, NEW g, NEW h
  PROVE  /\ Head(<<a>>) = a /\ Tail(<<a>>) = <<>>
         /\ Head(<<a, b>>) = a /\ Tail(<<a, b>>) = <<b>>
         /\ Head(<<a, b, c>>) = a /\ Tail(<<a, b, c>>) = <<b, c>>
         /\ Head(<<a, b, c, d>>) = a /\ Tail(<<a, b, c, d>>) = <<b, c, d>>
         /\ Head(<<a, b, c, d, e>>) = a /\ Tail(<<a, b, c, d, e>>) = <<b, c, d, e>>
         /\ Head(<<a, b, c, d, e, f>>) = a /\ Tail(<<a, b, c, d, e, f>>) = <<b, c, d, e, f>>
         /\ Head(<<a, b, c, d, e, f, g>>) = a
         /\ Tail(<<a, b, c, d, e, f, g>>) = <<b, c, d, e, f, g>>
         /\ Head(<<a, b, c, d, e, f, g, h>>) = a
         /\ Tail(<<a, b, c, d, e, f, g, h>>) = <<b, c, d, e, f, g, h>>
OBVIOUS

\* What a write changes, by what it writes.
LEMMA WrittenFacts ==
  ASSUME NEW w, Written(w)
  PROVE  /\ w \in CalStates => calState' = w /\ UNCHANGED <<page, touch, calFlow>>
         /\ w \in Pages => page' = w /\ UNCHANGED <<calState, touch, calFlow>>
         /\ w = "clear" => touch' = {} /\ UNCHANGED <<calState, page, calFlow>>
         /\ w \in Buttons => touch' = touch \cup {w} /\ UNCHANGED <<calState, page, calFlow>>
         /\ w \in {"raise", "lower", "check", "wait"} =>
              UNCHANGED <<calState, page, touch, calFlow>>
         /\ w \in Kinds => StartFlow(w) /\ UNCHANGED <<calState, page, touch>>
BY DEF Written, CalStates, Pages, Buttons, Kinds

\* A routine that goes on by one write.
LEMMA GoesOnBy ==
  ASSUME CalTypeOK, NEW t \in CalThreads, RoutineGoesOn(t), NEW w, NEW rest,
         Head(calTodo[t]) = w, Tail(calTodo[t]) = rest, w = "check" => calState = "MAIN_MENU"
  PROVE  Written(w) /\ calTodo'[t] = rest
BY DEF CalTypeOK, RoutineGoesOn

\* enter() leads to the menu.
LEMMA EnterOnCourseGoesOn ==
  ASSUME CalTypeOK, NEW t \in CalThreads, RoutineGoesOn(t), EnterOnCourse(calTodo[t])
  PROVE  \/ calTodo'[t] # <<>> /\ OnCourse(calTodo[t])' /\ UNCHANGED calFlow
         \/ calTodo'[t] = <<>> /\ Fits' /\ UNCHANGED calFlow
         \/ calTodo'[t] = <<>> /\ touch' = {"cancel"} /\ \E kind \in Kinds : StartFlow(kind)
<1>. USE DEF CalStates, Pages, Buttons, Kinds

<1>1. CASE calTodo[t] = EnterSteps
  <2>1. /\ Head(calTodo[t]) = "lower"
        /\ Tail(calTodo[t]) = <<"clear", "flows", "exit", "menu", "MAIN_MENU">>
    BY <1>1, TailFacts DEF EnterSteps
  <2>2. Written("lower") /\ calTodo'[t] = <<"clear", "flows", "exit", "menu", "MAIN_MENU">>
    BY <1>1, <2>1, GoesOnBy
  <2>. QED BY <1>1, <2>2, WrittenFacts
           DEF OnCourse, EnterOnCourse, MenuWired, Fits, MenuFits
<1>2. CASE calTodo[t] = <<"clear", "flows", "exit", "menu", "MAIN_MENU">>
  <2>1. /\ Head(calTodo[t]) = "clear"
        /\ Tail(calTodo[t]) = <<"flows", "exit", "menu", "MAIN_MENU">>
    BY <1>2, TailFacts
  <2>2. Written("clear") /\ calTodo'[t] = <<"flows", "exit", "menu", "MAIN_MENU">>
    BY <1>2, <2>1, GoesOnBy
  <2>. QED BY <1>2, <2>2, WrittenFacts
           DEF OnCourse, EnterOnCourse, MenuWired, Fits, MenuFits
<1>3. CASE calTodo[t] = <<"flows", "exit", "menu", "MAIN_MENU">> /\ touch = {}
  <2>1. Head(calTodo[t]) = "flows" /\ Tail(calTodo[t]) = <<"exit", "menu", "MAIN_MENU">>
    BY <1>3, TailFacts
  <2>2. Written("flows") /\ calTodo'[t] = <<"exit", "menu", "MAIN_MENU">>
    BY <1>3, <2>1, GoesOnBy
  <2>. QED BY <1>3, <2>2, WrittenFacts
           DEF OnCourse, EnterOnCourse, MenuWired, Fits, MenuFits
<1>4. CASE calTodo[t] = <<"exit", "menu", "MAIN_MENU">> /\ touch = {"flows"}
  <2>1. Head(calTodo[t]) = "exit" /\ Tail(calTodo[t]) = <<"menu", "MAIN_MENU">>
    BY <1>4, TailFacts
  <2>2. Written("exit") /\ calTodo'[t] = <<"menu", "MAIN_MENU">>
    BY <1>4, <2>1, GoesOnBy
  <2>. QED BY <1>4, <2>2, WrittenFacts
           DEF OnCourse, EnterOnCourse, MenuWired, Fits, MenuFits
<1>5. CASE calTodo[t] = <<"menu", "MAIN_MENU">> /\ MenuWired
  <2>1. Head(calTodo[t]) = "menu" /\ Tail(calTodo[t]) = <<"MAIN_MENU">>
    BY <1>5, TailFacts
  <2>2. Written("menu") /\ calTodo'[t] = <<"MAIN_MENU">>
    BY <1>5, <2>1, GoesOnBy
  <2>. QED BY <1>5, <2>2, WrittenFacts
           DEF OnCourse, EnterOnCourse, MenuWired, Fits, MenuFits
<1>6. CASE calTodo[t] = <<"MAIN_MENU">> /\ MenuWired /\ page = "menu"
  <2>1. Head(calTodo[t]) = "MAIN_MENU" /\ Tail(calTodo[t]) = <<>>
    BY <1>6, TailFacts
  <2>2. Written("MAIN_MENU") /\ calTodo'[t] = <<>>
    BY <1>6, <2>1, GoesOnBy
  <2>. QED BY <1>6, <2>2, WrittenFacts
           DEF OnCourse, EnterOnCourse, MenuWired, Fits, MenuFits
<1>. QED BY <1>1, <1>2, <1>3, <1>4, <1>5, <1>6 DEF EnterOnCourse

\* exit() leads to the main page.
LEMMA ExitOnCourseGoesOn ==
  ASSUME CalTypeOK, NEW t \in CalThreads, RoutineGoesOn(t), ExitOnCourse(calTodo[t])
  PROVE  \/ calTodo'[t] # <<>> /\ OnCourse(calTodo[t])' /\ UNCHANGED calFlow
         \/ calTodo'[t] = <<>> /\ Fits' /\ UNCHANGED calFlow
         \/ calTodo'[t] = <<>> /\ touch' = {"cancel"} /\ \E kind \in Kinds : StartFlow(kind)
<1>. USE DEF CalStates, Pages, Buttons, Kinds

<1>1. CASE calTodo[t] = ExitSteps
  <2>1. /\ Head(calTodo[t]) = "raise"
        /\ Tail(calTodo[t]) = <<"EXITING", "clear", "main", "IDLE">>
    BY <1>1, TailFacts DEF ExitSteps
  <2>2. Written("raise") /\ calTodo'[t] = <<"EXITING", "clear", "main", "IDLE">>
    BY <1>1, <2>1, GoesOnBy
  <2>. QED BY <1>1, <2>2, WrittenFacts DEF OnCourse, ExitOnCourse, Fits, MainFits
<1>2. CASE calTodo[t] = <<"EXITING", "clear", "main", "IDLE">>
  <2>1. Head(calTodo[t]) = "EXITING" /\ Tail(calTodo[t]) = <<"clear", "main", "IDLE">>
    BY <1>2, TailFacts
  <2>2. Written("EXITING") /\ calTodo'[t] = <<"clear", "main", "IDLE">>
    BY <1>2, <2>1, GoesOnBy
  <2>. QED BY <1>2, <2>2, WrittenFacts DEF OnCourse, ExitOnCourse, Fits, MainFits
<1>3. CASE calTodo[t] = <<"clear", "main", "IDLE">>
  <2>1. Head(calTodo[t]) = "clear" /\ Tail(calTodo[t]) = <<"main", "IDLE">>
    BY <1>3, TailFacts
  <2>2. Written("clear") /\ calTodo'[t] = <<"main", "IDLE">>
    BY <1>3, <2>1, GoesOnBy
  <2>. QED BY <1>3, <2>2, WrittenFacts DEF OnCourse, ExitOnCourse, Fits, MainFits
<1>4. CASE calTodo[t] = <<"main", "IDLE">> /\ touch = {}
  <2>1. Head(calTodo[t]) = "main" /\ Tail(calTodo[t]) = <<"IDLE">>
    BY <1>4, TailFacts
  <2>2. Written("main") /\ calTodo'[t] = <<"IDLE">>
    BY <1>4, <2>1, GoesOnBy
  <2>. QED BY <1>4, <2>2, WrittenFacts DEF OnCourse, ExitOnCourse, Fits, MainFits
<1>5. CASE calTodo[t] = <<"IDLE">> /\ touch = {} /\ page = "main"
  <2>1. Head(calTodo[t]) = "IDLE" /\ Tail(calTodo[t]) = <<>>
    BY <1>5, TailFacts
  <2>2. Written("IDLE") /\ calTodo'[t] = <<>>
    BY <1>5, <2>1, GoesOnBy
  <2>. QED BY <1>5, <2>2, WrittenFacts DEF OnCourse, ExitOnCourse, Fits, MainFits
<1>. QED BY <1>1, <1>2, <1>3, <1>4, <1>5 DEF ExitOnCourse

\* _return_to_menu() leads to the menu.
LEMMA ReturnOnCourseGoesOn ==
  ASSUME CalTypeOK, NEW t \in CalThreads, RoutineGoesOn(t), ReturnOnCourse(calTodo[t])
  PROVE  \/ calTodo'[t] # <<>> /\ OnCourse(calTodo[t])' /\ UNCHANGED calFlow
         \/ calTodo'[t] = <<>> /\ Fits' /\ UNCHANGED calFlow
         \/ calTodo'[t] = <<>> /\ touch' = {"cancel"} /\ \E kind \in Kinds : StartFlow(kind)
<1>. USE DEF CalStates, Pages, Buttons, Kinds

<1>1. CASE calTodo[t] = ReturnSteps
  <2>1. /\ Head(calTodo[t]) = "MAIN_MENU"
        /\ Tail(calTodo[t]) = <<"clear", "flows", "exit", "menu">>
    BY <1>1, TailFacts DEF ReturnSteps
  <2>2. Written("MAIN_MENU") /\ calTodo'[t] = <<"clear", "flows", "exit", "menu">>
    BY <1>1, <2>1, GoesOnBy
  <2>. QED BY <1>1, <2>2, WrittenFacts
           DEF OnCourse, ReturnOnCourse, MenuWired, Fits, MenuFits
<1>2. CASE calTodo[t] = <<"clear", "flows", "exit", "menu">> /\ calState = "MAIN_MENU"
  <2>1. Head(calTodo[t]) = "clear" /\ Tail(calTodo[t]) = <<"flows", "exit", "menu">>
    BY <1>2, TailFacts
  <2>2. Written("clear") /\ calTodo'[t] = <<"flows", "exit", "menu">>
    BY <1>2, <2>1, GoesOnBy
  <2>. QED BY <1>2, <2>2, WrittenFacts
           DEF OnCourse, ReturnOnCourse, MenuWired, Fits, MenuFits
<1>3. CASE calTodo[t] = <<"flows", "exit", "menu">> /\ calState = "MAIN_MENU" /\ touch = {}
  <2>1. Head(calTodo[t]) = "flows" /\ Tail(calTodo[t]) = <<"exit", "menu">>
    BY <1>3, TailFacts
  <2>2. Written("flows") /\ calTodo'[t] = <<"exit", "menu">>
    BY <1>3, <2>1, GoesOnBy
  <2>. QED BY <1>3, <2>2, WrittenFacts
           DEF OnCourse, ReturnOnCourse, MenuWired, Fits, MenuFits
<1>4. CASE calTodo[t] = <<"exit", "menu">> /\ calState = "MAIN_MENU" /\ touch = {"flows"}
  <2>1. Head(calTodo[t]) = "exit" /\ Tail(calTodo[t]) = <<"menu">>
    BY <1>4, TailFacts
  <2>2. Written("exit") /\ calTodo'[t] = <<"menu">>
    BY <1>4, <2>1, GoesOnBy
  <2>. QED BY <1>4, <2>2, WrittenFacts
           DEF OnCourse, ReturnOnCourse, MenuWired, Fits, MenuFits
<1>5. CASE calTodo[t] = <<"menu">> /\ calState = "MAIN_MENU" /\ MenuWired
  <2>1. Head(calTodo[t]) = "menu" /\ Tail(calTodo[t]) = <<>>
    BY <1>5, TailFacts
  <2>2. Written("menu") /\ calTodo'[t] = <<>>
    BY <1>5, <2>1, GoesOnBy
  <2>. QED BY <1>5, <2>2, WrittenFacts
           DEF OnCourse, ReturnOnCourse, MenuWired, Fits, MenuFits
<1>. QED BY <1>1, <1>2, <1>3, <1>4, <1>5 DEF ReturnOnCourse

\* So does the handler that only shows a message.
LEMMA UnavailableOnCourseGoesOn ==
  ASSUME CalTypeOK, NEW t \in CalThreads, RoutineGoesOn(t), UnavailableOnCourse(calTodo[t])
  PROVE  \/ calTodo'[t] # <<>> /\ OnCourse(calTodo[t])' /\ UNCHANGED calFlow
         \/ calTodo'[t] = <<>> /\ Fits' /\ UNCHANGED calFlow
         \/ calTodo'[t] = <<>> /\ touch' = {"cancel"} /\ \E kind \in Kinds : StartFlow(kind)
<1>. USE DEF CalStates, Pages, Buttons, Kinds

<1>1. CASE calTodo[t] = UnavailableSteps /\ MenuFits
  <2>1. /\ Head(calTodo[t]) = "check"
        /\ Tail(calTodo[t]) = <<"progress", "wait", "MAIN_MENU", "clear", "flows", "exit", "menu">>
    BY <1>1, TailFacts DEF UnavailableSteps
  <2>2. /\ Written("check")
        /\ calTodo'[t] = <<"progress", "wait", "MAIN_MENU", "clear", "flows", "exit", "menu">>
    BY <1>1, <2>1, GoesOnBy DEF MenuFits
  <2>. QED BY <1>1, <2>2, WrittenFacts
           DEF OnCourse, UnavailableOnCourse, ReturnOnCourse, ReturnSteps
<1>2. CASE calTodo[t] = <<"progress", "wait", "MAIN_MENU", "clear", "flows", "exit", "menu">>
  <2>1. /\ Head(calTodo[t]) = "progress"
        /\ Tail(calTodo[t]) = <<"wait", "MAIN_MENU", "clear", "flows", "exit", "menu">>
    BY <1>2, TailFacts
  <2>2. /\ Written("progress")
        /\ calTodo'[t] = <<"wait", "MAIN_MENU", "clear", "flows", "exit", "menu">>
    BY <1>2, <2>1, GoesOnBy
  <2>. QED BY <1>2, <2>2, WrittenFacts
           DEF OnCourse, UnavailableOnCourse, ReturnOnCourse, ReturnSteps
<1>3. CASE calTodo[t] = <<"wait", "MAIN_MENU", "clear", "flows", "exit", "menu">>
  <2>1. /\ Head(calTodo[t]) = "wait"
        /\ Tail(calTodo[t]) = <<"MAIN_MENU", "clear", "flows", "exit", "menu">>
    BY <1>3, TailFacts
  <2>2. Written("wait") /\ calTodo'[t] = <<"MAIN_MENU", "clear", "flows", "exit", "menu">>
    BY <1>3, <2>1, GoesOnBy
  <2>. QED BY <1>3, <2>2, WrittenFacts
           DEF OnCourse, UnavailableOnCourse, ReturnOnCourse, ReturnSteps
<1>. QED BY <1>1, <1>2, <1>3 DEF UnavailableOnCourse

\* The other handlers lead to a flow with CANCEL wired.
LEMMA HandlerOnCourseGoesOn ==
  ASSUME CalTypeOK, NEW t \in CalThreads, RoutineGoesOn(t), HandlerOnCourse(calTodo[t])
  PROVE  \/ calTodo'[t] # <<>> /\ OnCourse(calTodo[t])' /\ UNCHANGED calFlow
         \/ calTodo'[t] = <<>> /\ Fits' /\ UNCHANGED calFlow
         \/ calTodo'[t] = <<>> /\ touch' = {"cancel"} /\ \E kind \in Kinds : StartFlow(kind)
<1>. USE DEF CalStates, Pages, Buttons, Kinds

<1>1. CASE calTodo[t] = IntrinsicSteps /\ MenuFits
  <2>1. /\ Head(calTodo[t]) = "check"
        /\ Tail(calTodo[t]) = <<"SELECT_CAMERA", "lower", "clear", "cancel", "intrinsic">>
    BY <1>1, TailFacts DEF IntrinsicSteps
  <2>2. /\ Written("check")
        /\ calTodo'[t] = <<"SELECT_CAMERA", "lower", "clear", "cancel", "intrinsic">>
    BY <1>1, <2>1, GoesOnBy DEF MenuFits
  <2>. QED BY <1>1, <2>2, WrittenFacts DEF OnCourse, HandlerOnCourse
<1>2. CASE calTodo[t] = AutoSteps /\ MenuFits
  <2>1. /\ Head(calTodo[t]) = "check"
        /\ Tail(calTodo[t]) = <<"AUTO_EXTRINSIC", "lower", "clear", "cancel", "auto">>
    BY <1>2, TailFacts DEF AutoSteps
  <2>2. /\ Written("check")
        /\ calTodo'[t] = <<"AUTO_EXTRINSIC", "lower", "clear", "cancel", "auto">>
    BY <1>2, <2>1, GoesOnBy DEF MenuFits
  <2>. QED BY <1>2, <2>2, WrittenFacts DEF OnCourse, HandlerOnCourse
<1>3. CASE calTodo[t] = StatusSteps /\ MenuFits
  <2>1. /\ Head(calTodo[t]) = "check"
        /\ Tail(calTodo[t]) = <<"STATUS", "clear", "cancel", "status">>
    BY <1>3, TailFacts DEF StatusSteps
  <2>2. Written("check") /\ calTodo'[t] = <<"STATUS", "clear", "cancel", "status">>
    BY <1>3, <2>1, GoesOnBy DEF MenuFits
  <2>. QED BY <1>3, <2>2, WrittenFacts DEF OnCourse, HandlerOnCourse
<1>4. CASE calTodo[t] = <<"SELECT_CAMERA", "lower", "clear", "cancel", "intrinsic">>
  <2>1. /\ Head(calTodo[t]) = "SELECT_CAMERA"
        /\ Tail(calTodo[t]) = <<"lower", "clear", "cancel", "intrinsic">>
    BY <1>4, TailFacts
  <2>2. /\ Written("SELECT_CAMERA")
        /\ calTodo'[t] = <<"lower", "clear", "cancel", "intrinsic">>
    BY <1>4, <2>1, GoesOnBy
  <2>. QED BY <1>4, <2>2, WrittenFacts DEF OnCourse, HandlerOnCourse
<1>5. CASE calTodo[t] = <<"AUTO_EXTRINSIC", "lower", "clear", "cancel", "auto">>
  <2>1. /\ Head(calTodo[t]) = "AUTO_EXTRINSIC"
        /\ Tail(calTodo[t]) = <<"lower", "clear", "cancel", "auto">>
    BY <1>5, TailFacts
  <2>2. Written("AUTO_EXTRINSIC") /\ calTodo'[t] = <<"lower", "clear", "cancel", "auto">>
    BY <1>5, <2>1, GoesOnBy
  <2>. QED BY <1>5, <2>2, WrittenFacts DEF OnCourse, HandlerOnCourse
<1>6. CASE calTodo[t] = <<"STATUS", "clear", "cancel", "status">>
  <2>1. Head(calTodo[t]) = "STATUS" /\ Tail(calTodo[t]) = <<"clear", "cancel", "status">>
    BY <1>6, TailFacts
  <2>2. Written("STATUS") /\ calTodo'[t] = <<"clear", "cancel", "status">>
    BY <1>6, <2>1, GoesOnBy
  <2>. QED BY <1>6, <2>2, WrittenFacts DEF OnCourse, HandlerOnCourse
<1>7. ASSUME NEW kind \in Kinds,
             \/ calTodo[t] = <<"lower", "clear", "cancel", kind>>
             \/ calTodo[t] = <<"clear", "cancel", kind>>
             \/ calTodo[t] = <<"cancel", kind>> /\ touch = {}
             \/ calTodo[t] = <<kind>> /\ touch = {"cancel"}
      PROVE  \/ calTodo'[t] # <<>> /\ OnCourse(calTodo[t])' /\ UNCHANGED calFlow
             \/ calTodo'[t] = <<>> /\ touch' = {"cancel"} /\ StartFlow(kind)
  <2>1. CASE calTodo[t] = <<"lower", "clear", "cancel", kind>>
    <3>1. Head(calTodo[t]) = "lower" /\ Tail(calTodo[t]) = <<"clear", "cancel", kind>>
      BY <2>1, TailFacts
    <3>2. Written("lower") /\ calTodo'[t] = <<"clear", "cancel", kind>>
      BY <1>7, <2>1, <3>1, GoesOnBy
    <3>. QED BY <1>7, <2>1, <3>2, WrittenFacts DEF OnCourse, HandlerOnCourse
  <2>2. CASE calTodo[t] = <<"clear", "cancel", kind>>
    <3>1. Head(calTodo[t]) = "clear" /\ Tail(calTodo[t]) = <<"cancel", kind>>
      BY <2>2, TailFacts
    <3>2. Written("clear") /\ calTodo'[t] = <<"cancel", kind>>
      BY <1>7, <2>2, <3>1, GoesOnBy
    <3>. QED BY <1>7, <2>2, <3>2, WrittenFacts DEF OnCourse, HandlerOnCourse
  <2>3. CASE calTodo[t] = <<"cancel", kind>> /\ touch = {}
    <3>1. Head(calTodo[t]) = "cancel" /\ Tail(calTodo[t]) = <<kind>>
      BY <2>3, TailFacts
    <3>2. Written("cancel") /\ calTodo'[t] = <<kind>>
      BY <1>7, <2>3, <3>1, GoesOnBy
    <3>. QED BY <1>7, <2>3, <3>2, WrittenFacts DEF OnCourse, HandlerOnCourse
  <2>4. CASE calTodo[t] = <<kind>> /\ touch = {"cancel"}
    <3>1. Head(calTodo[t]) = kind /\ Tail(calTodo[t]) = <<>>
      BY <2>4, TailFacts
    <3>2. Written(kind) /\ calTodo'[t] = <<>>
      BY <1>7, <2>4, <3>1, GoesOnBy
    <3>. QED BY <1>7, <2>4, <3>2, WrittenFacts DEF OnCourse, HandlerOnCourse
  <2>. QED BY <1>7, <2>1, <2>2, <2>3, <2>4
<1>. QED BY <1>1, <1>2, <1>3, <1>4, <1>5, <1>6, <1>7 DEF HandlerOnCourse

\* What is on its course stays on it, or is done.
LEMMA OnCourseGoesOn ==
  ASSUME CalTypeOK, NEW t \in CalThreads, RoutineGoesOn(t), OnCourse(calTodo[t])
  PROVE  \/ calTodo'[t] # <<>> /\ OnCourse(calTodo[t])' /\ UNCHANGED calFlow
         \/ calTodo'[t] = <<>> /\ Fits' /\ UNCHANGED calFlow
         \/ calTodo'[t] = <<>> /\ touch' = {"cancel"} /\ \E kind \in Kinds : StartFlow(kind)
<1>1. \/ EnterOnCourse(calTodo[t]) \/ ExitOnCourse(calTodo[t]) \/ ReturnOnCourse(calTodo[t])
      \/ UnavailableOnCourse(calTodo[t]) \/ HandlerOnCourse(calTodo[t])
  BY DEF OnCourse
<1>2. CASE EnterOnCourse(calTodo[t])
  BY <1>2, EnterOnCourseGoesOn
<1>3. CASE ExitOnCourse(calTodo[t])
  BY <1>3, ExitOnCourseGoesOn
<1>4. CASE ReturnOnCourse(calTodo[t])
  BY <1>4, ReturnOnCourseGoesOn
<1>5. CASE UnavailableOnCourse(calTodo[t])
  BY <1>5, UnavailableOnCourseGoesOn
<1>6. CASE HandlerOnCourse(calTodo[t])
  BY <1>6, HandlerOnCourseGoesOn
<1>. QED BY <1>1, <1>2, <1>3, <1>4, <1>5, <1>6

\* Once a routine begins alone, nothing but it is at work.
LEMMA BeginsAlone ==
  ASSUME CalIInv, NEW t \in CalThreads, NEW steps \in Seq(Writes), steps # <<>>,
         calTodo[t] = <<>>, calTodo' = [calTodo EXCEPT ![t] = steps],
         UNCHANGED <<calState, page, touch, calCancelled>>,
         calCrossed' \in BOOLEAN, calFlow' \in [Flows -> [kind : Kinds, at : Stages, cam : 0..(MaxCameras + 1)]],
         \A f \in Flows : f # t => calFlow'[f] = calFlow[f],
         t \in Flows => calFlow'[t].at = "over",
         ~calCrossed' => ~OthersActive(t) /\ OnCourse(steps)
  PROVE  CalIInv'
<1>1. calTodo'[t] = steps /\ (\A u \in CalThreads \ {t} : calTodo'[u] = calTodo[u])
  BY DEF CalIInv, CalTypeOK
<1>2. CalTypeOK'
  BY DEF CalIInv, CalTypeOK
<1>3. Flows \subseteq CalThreads
  BY DEF CalThreads
<1>4. FlowShape'
  <2> SUFFICES ASSUME NEW f \in Flows
               PROVE  /\ calFlow'[f].at # "over" => calTodo'[f] = <<>>
                      /\ FlowIs(f, "intrinsic", {"collect", "compute"})' => calFlow'[f].cam <= MaxCameras
    BY DEF FlowShape
  <2>1. CASE f = t
    BY <2>1 DEF FlowIs
  <2>2. CASE f # t
    BY <1>1, <1>3, <2>2 DEF CalIInv, FlowShape, FlowIs
  <2>. QED BY <2>1, <2>2
<1>5. ASSUME ~calCrossed'
      PROVE  Lone'
  <2>1. \A u \in CalThreads \ {t} : ~AtWork(u)
    BY <1>5 DEF OthersActive
  <2>2. \A u \in CalThreads \ {t} : ~AtWork(u)'
    BY <1>1, <2>1 DEF AtWork
  <2>3. AtWork(t)'
    BY <1>1 DEF AtWork
  <2>4. OnCourse(steps)'
    BY <1>5 DEF OnCourse, EnterOnCourse, ExitOnCourse, ReturnOnCourse, UnavailableOnCourse,
                HandlerOnCourse, MenuFits, MenuWired
  <2>5. \A u \in CalThreads : calTodo'[u] # <<>> => u = t
    BY <2>2 DEF AtWork
  <2>6. \A f \in Flows : calFlow'[f].at = "over"
    BY <1>3, <2>2 DEF AtWork
  <2>. QED BY <1>1, <2>2, <2>3, <2>4, <2>5, <2>6 DEF Lone
<1>. QED BY <1>2, <1>4, <1>5 DEF CalIInv

\* What the routines write, and that each begins on its course.
LEMMA StepsFacts ==
  /\ \A steps \in {EnterSteps, ExitSteps, ReturnSteps, IntrinsicSteps, AutoSteps,
                   UnavailableSteps, StatusSteps} : steps \in Seq(Writes) /\ steps # <<>>
  /\ OnCourse(EnterSteps) /\ OnCourse(ExitSteps) /\ OnCourse(ReturnSteps)
  /\ MenuFits => \A steps \in {IntrinsicSteps, AutoSteps, UnavailableSteps, StatusSteps} :
                   OnCourse(steps)
<1>1. EnterSteps \in Seq(Writes) /\ EnterSteps # <<>>
  BY DEF EnterSteps, Writes, CalStates, Pages, Buttons, Kinds
<1>2. ExitSteps \in Seq(Writes) /\ ExitSteps # <<>>
  BY DEF ExitSteps, Writes, CalStates, Pages, Buttons, Kinds
<1>3. ReturnSteps \in Seq(Writes) /\ ReturnSteps # <<>>
  BY DEF ReturnSteps, Writes, CalStates, Pages, Buttons, Kinds
<1>4. IntrinsicSteps \in Seq(Writes) /\ IntrinsicSteps # <<>>
  BY DEF IntrinsicSteps, Writes, CalStates, Pages, Buttons, Kinds
<1>5. AutoSteps \in Seq(Writes) /\ AutoSteps # <<>>
  BY DEF AutoSteps, Writes, CalStates, Pages, Buttons, Kinds
<1>6. UnavailableSteps \in Seq(Writes) /\ UnavailableSteps # <<>>
  BY DEF UnavailableSteps, Writes, CalStates, Pages, Buttons, Kinds
<1>7. StatusSteps \in Seq(Writes) /\ StatusSteps # <<>>
  BY DEF StatusSteps, Writes, CalStates, Pages, Buttons, Kinds
<1>8. OnCourse(EnterSteps) /\ OnCourse(ExitSteps) /\ OnCourse(ReturnSteps)
  BY DEF OnCourse, EnterOnCourse, ExitOnCourse, ReturnOnCourse
<1>9. MenuFits => \A steps \in {IntrinsicSteps, AutoSteps, UnavailableSteps, StatusSteps} :
                    OnCourse(steps)
  BY DEF OnCourse, UnavailableOnCourse, HandlerOnCourse
<1>. QED BY <1>1, <1>2, <1>3, <1>4, <1>5, <1>6, <1>7, <1>8, <1>9

\* enter(), exit() and the handlers of the buttons, as they begin.
LEMMA RoutinesBegin ==
  ASSUME CalIInv, CalEnter \/ CalExit \/ OnFlowButton
  PROVE  CalIInv'
<1>. USE StepsFacts
<1>1. calFlow \in [Flows -> [kind : Kinds, at : Stages, cam : 0..(MaxCameras + 1)]] /\ calCrossed \in BOOLEAN
  BY DEF CalIInv, CalTypeOK
<1>2. \A t : OthersActive(t) \in BOOLEAN
  BY DEF OthersActive
<1>3. Visitor \in CalThreads /\ Visitor \notin Flows /\ Toucher \in CalThreads /\ Toucher \notin Flows
  BY CalibrationAssumption DEF CalThreads, Visitor, Toucher, Flows
<1>4. CASE CalEnter
  BY <1>1, <1>2, <1>3, <1>4, BeginsAlone DEF CalEnter, Begin
<1>5. CASE CalExit
  <2>1. PICK t \in {Toucher, Visitor} : Begin(t, ExitSteps) /\ calCrossed' = OthersActive(t)
    BY <1>5 DEF CalExit
  <2>. QED BY <1>1, <1>2, <1>3, <1>5, <2>1, BeginsAlone DEF CalExit, Begin
<1>6. CASE OnFlowButton
  <2>1. PICK steps \in {IntrinsicSteps, AutoSteps, UnavailableSteps, StatusSteps} :
          Begin(Toucher, steps)
    BY <1>6 DEF OnFlowButton
  <2>2. calTodo[Toucher] = <<>> /\ "flows" \in touch
    BY <1>6, <2>1 DEF OnFlowButton, Touched, Begin
  <2>3. ~calCrossed' => ~calCrossed /\ ~OthersActive(Toucher)
    BY <1>1, <1>2, <1>6 DEF OnFlowButton
  <2>4. ~calCrossed' => \A t \in CalThreads : ~AtWork(t)
    BY <1>3, <2>2, <2>3 DEF OthersActive, AtWork
  <2>5. ~calCrossed' => MenuFits
    BY <2>2, <2>3, <2>4 DEF CalIInv, Lone, Fits, MainFits
  <2>6. calCrossed' \in BOOLEAN /\ UNCHANGED <<calState, page, touch, calCancelled, calFlow>>
    BY <1>1, <1>2, <1>6 DEF OnFlowButton
  <2>7. steps \in Seq(Writes) /\ steps # <<>> /\ (MenuFits => OnCourse(steps))
    OBVIOUS
  <2>8. calTodo' = [calTodo EXCEPT ![Toucher] = steps]
    BY <2>1 DEF Begin
  <2>. QED BY <1>1, <1>3, <2>2, <2>3, <2>5, <2>6, <2>7, <2>8, BeginsAlone
<1>. QED BY <1>4, <1>5, <1>6

\* CANCEL only raises the flag.
LEMMA FlagKeeps ==
  ASSUME CalIInv, calCancelled' \in BOOLEAN,
         UNCHANGED <<calState, page, touch, calFlow, calTodo, calCrossed>>
  PROVE  CalIInv'
<1>1. CalTypeOK' /\ FlowShape'
  BY DEF CalIInv, CalTypeOK, FlowShape, FlowIs
<1>2. (\A t \in CalThreads : AtWork(t)' <=> AtWork(t)) /\ (Fits' <=> Fits)
  BY DEF AtWork, Fits, MenuFits, MainFits
<1>3. ASSUME Lone
      PROVE  Lone'
  <2>1. \A t \in CalThreads : calTodo[t] # <<>> => OnCourse(calTodo[t])
    BY <1>3 DEF Lone
  <2>2. ASSUME NEW t \in CalThreads, calTodo'[t] # <<>>
        PROVE  OnCourse(calTodo[t])'
    <3>1. OnCourse(calTodo[t])
      BY <2>1, <2>2
    <3>. QED BY <3>1 DEF OnCourse, EnterOnCourse, ExitOnCourse, ReturnOnCourse,
                        UnavailableOnCourse, HandlerOnCourse, MenuFits, MenuWired
  <2>. QED BY <1>2, <1>3, <2>2 DEF Lone
<1>. QED BY <1>1, <1>3 DEF CalIInv

\* A flow starts in a thread that has nothing to write.
LEMMA StartFlowFacts ==
  ASSUME CalIInv, NEW kind \in Kinds, StartFlow(kind)
  PROVE  /\ calFlow' \in [Flows -> [kind : Kinds, at : Stages, cam : 0..(MaxCameras + 1)]]
         /\ \E f \in Flows : /\ ~AtWork(f) /\ calFlow'[f].at = "begin"
                             /\ \A g \in Flows \ {f} : calFlow'[g] = calFlow[g]
<1>1. PICK f \in Flows : /\ ~AtWork(f)
                         /\ calFlow' = [calFlow EXCEPT ![f] = [kind |-> kind, at |-> "begin", cam |-> 1]]
  BY DEF StartFlow
<1>2. [kind |-> kind, at |-> "begin", cam |-> 1] \in [kind : Kinds, at : Stages, cam : 0..(MaxCameras + 1)]
  BY CalibrationAssumption DEF Stages
<1>. QED BY <1>1, <1>2 DEF CalIInv, CalTypeOK

\* A routine goes on by one write.
LEMMA RoutineKeeps ==
  ASSUME CalIInv, NEW t \in CalThreads, RoutineGoesOn(t)
  PROVE  CalIInv'
<1>. DEFINE FlowSet == [kind : Kinds, at : Stages, cam : 0..(MaxCameras + 1)]
<1>1. CalTypeOK /\ FlowShape /\ Flows \subseteq CalThreads
  BY DEF CalIInv, CalThreads
<1>2. PICK w \in Writes : w = Head(calTodo[t])
  BY <1>1 DEF RoutineGoesOn, CalTypeOK
<1>3. Written(w) /\ calTodo[t] # <<>> /\ calCrossed' = calCrossed
  BY <1>2 DEF RoutineGoesOn
<1>4. calTodo[t] \in Seq(Writes) /\ Tail(calTodo[t]) \in Seq(Writes) /\ <<>> \in Seq(Writes)
  BY <1>1, <1>3 DEF CalTypeOK
<1>5. calTodo' \in [CalThreads -> Seq(Writes)] /\ (\A u \in CalThreads \ {t} : calTodo'[u] = calTodo[u])
  BY <1>1, <1>4 DEF RoutineGoesOn, CalTypeOK
<1>6. \/ calFlow' = calFlow
      \/ \E kind \in Kinds : StartFlow(kind)
  BY <1>3 DEF Written
<1>7. /\ calFlow' \in [Flows -> FlowSet]
      /\ \/ calFlow' = calFlow
         \/ \E f \in Flows : /\ ~AtWork(f) /\ calFlow'[f].at = "begin"
                             /\ \A g \in Flows \ {f} : calFlow'[g] = calFlow[g]
  <2>1. CASE calFlow' = calFlow
    BY <1>1, <2>1 DEF CalTypeOK
  <2>2. CASE \E kind \in Kinds : StartFlow(kind)
    BY <2>2, StartFlowFacts
  <2>. QED BY <1>6, <2>1, <2>2
<1>8. CalTypeOK'
  <2>1. calState' \in CalStates /\ page' \in Pages /\ touch' \subseteq Buttons /\ calCancelled' \in BOOLEAN
    BY <1>1, <1>3 DEF Written, CalTypeOK
  <2>. QED BY <1>1, <1>3, <1>5, <1>7, <2>1 DEF CalTypeOK
<1>9. FlowShape'
  <2> SUFFICES ASSUME NEW f \in Flows
               PROVE  /\ calFlow'[f].at # "over" => calTodo'[f] = <<>>
                      /\ FlowIs(f, "intrinsic", {"collect", "compute"})' => calFlow'[f].cam <= MaxCameras
    BY DEF FlowShape
  <2>1. CASE calFlow'[f] = calFlow[f]
    <3>1. /\ calFlow[f].at # "over" => calTodo[f] = <<>>
          /\ FlowIs(f, "intrinsic", {"collect", "compute"}) => calFlow[f].cam <= MaxCameras
      BY <1>1 DEF FlowShape
    <3>2. FlowIs(f, "intrinsic", {"collect", "compute"})' <=> FlowIs(f, "intrinsic", {"collect", "compute"})
      BY <2>1 DEF FlowIs
    <3>3. calFlow[f].at # "over" => f # t
      BY <1>3, <3>1
    <3>. QED BY <1>1, <1>5, <2>1, <3>1, <3>2, <3>3
  <2>2. CASE calFlow'[f] # calFlow[f]
    <3>1. ~AtWork(f) /\ calFlow'[f].at = "begin"
      BY <1>7, <2>2
    <3>2. f # t /\ calTodo[f] = <<>>
      BY <1>3, <3>1 DEF AtWork
    <3>. QED BY <1>1, <1>5, <3>1, <3>2 DEF FlowIs
  <2>. QED BY <2>1, <2>2
<1>10. ASSUME ~calCrossed'
       PROVE  Lone'
  <2>1. Lone /\ AtWork(t) /\ OnCourse(calTodo[t])
    BY <1>3, <1>10 DEF CalIInv, Lone, AtWork
  <2>2. /\ \A u \in CalThreads \ {t} : calTodo[u] = <<>> /\ calTodo'[u] = <<>>
        /\ \A f \in Flows : calFlow[f].at = "over"
    <3>1. \A u \in CalThreads \ {t} : ~AtWork(u)
      BY <2>1 DEF Lone
    <3>2. \A f \in Flows : calFlow[f].at = "over"
      BY <1>1, <1>3, <3>1 DEF AtWork, FlowShape
    <3>. QED BY <1>5, <3>1, <3>2 DEF AtWork
  <2>3. CASE calTodo'[t] # <<>> /\ OnCourse(calTodo[t])' /\ UNCHANGED calFlow
    <3>1. \A u \in CalThreads : AtWork(u)' <=> u = t
      BY <2>2, <2>3 DEF AtWork
    <3>2. \A u \in CalThreads : calTodo'[u] # <<>> => u = t
      BY <2>2
    <3>3. \A f \in Flows : calFlow'[f].at = "over"
      BY <2>2, <2>3
    <3>. QED BY <2>3, <3>1, <3>2, <3>3 DEF Lone
  <2>4. CASE calTodo'[t] = <<>> /\ Fits' /\ UNCHANGED calFlow
    <3>1. \A u \in CalThreads : ~AtWork(u)' /\ calTodo'[u] = <<>>
      BY <2>2, <2>4 DEF AtWork
    <3>2. \A f \in Flows : calFlow'[f].at = "over"
      BY <2>2, <2>4
    <3>. QED BY <2>4, <3>1, <3>2 DEF Lone
  <2>5. CASE calTodo'[t] = <<>> /\ touch' = {"cancel"} /\ \E kind \in Kinds : StartFlow(kind)
    <3>1. PICK f \in Flows : /\ calFlow'[f].at = "begin"
                             /\ \A g \in Flows \ {f} : calFlow'[g] = calFlow[g]
      BY <2>5, StartFlowFacts
    <3>2. \A u \in CalThreads : calTodo'[u] = <<>>
      BY <2>2, <2>5
    <3>3. \A u \in CalThreads : AtWork(u)' <=> u = f
      BY <1>1, <2>2, <3>1, <3>2 DEF AtWork
    <3>. QED BY <1>1, <2>5, <3>2, <3>3 DEF Lone
  <2>. QED BY <1>1, <2>1, <2>3, <2>4, <2>5, OnCourseGoesOn
<1>. QED BY <1>8, <1>9, <1>10 DEF CalIInv

\* Where a flow is once it goes on.
LEMMA FlowGoesFacts ==
  ASSUME CalTypeOK, NEW f \in Flows, NEW at \in Stages, NEW cam \in 0..(MaxCameras + 1),
         FlowGoes(f, at, cam)
  PROVE  /\ calFlow' \in [Flows -> [kind : Kinds, at : Stages, cam : 0..(MaxCameras + 1)]]
         /\ calFlow'[f].at = at /\ calFlow'[f].cam = cam /\ calFlow'[f].kind = calFlow[f].kind
         /\ \A g \in Flows \ {f} : calFlow'[g] = calFlow[g]
BY DEF CalTypeOK, FlowGoes

\* A flow that goes on in its thread leaves the handlers alone.
LEMMA FlowGoesKeeps ==
  ASSUME CalIInv, NEW f \in Flows, calFlow[f].at # "over",
         NEW at \in Stages, NEW cam \in 0..(MaxCameras + 1), FlowGoes(f, at, cam),
         calFlow[f].kind = "intrinsic" /\ at \in {"collect", "compute"} => cam <= MaxCameras,
         calState' \in CalStates, page' \in Pages, calCrossed' \in BOOLEAN,
         UNCHANGED <<touch, calCancelled, calTodo>>,
         calCrossed' \/ (~calCrossed /\ at # "over")
  PROVE  CalIInv'
<1>1. CalTypeOK /\ FlowShape /\ Flows \subseteq CalThreads
  BY DEF CalIInv, CalThreads
<1>2. /\ calFlow' \in [Flows -> [kind : Kinds, at : Stages, cam : 0..(MaxCameras + 1)]]
      /\ calFlow'[f].at = at /\ calFlow'[f].cam = cam /\ calFlow'[f].kind = calFlow[f].kind
      /\ \A g \in Flows \ {f} : calFlow'[g] = calFlow[g]
  BY <1>1, FlowGoesFacts
<1>3. CalTypeOK'
  BY <1>1, <1>2 DEF CalTypeOK
<1>4. FlowShape'
  <2> SUFFICES ASSUME NEW g \in Flows
               PROVE  /\ calFlow'[g].at # "over" => calTodo'[g] = <<>>
                      /\ FlowIs(g, "intrinsic", {"collect", "compute"})' => calFlow'[g].cam <= MaxCameras
    BY DEF FlowShape
  <2>1. CASE g = f
    BY <1>1, <1>2, <2>1 DEF FlowShape, FlowIs
  <2>2. CASE g # f
    BY <1>1, <1>2, <2>2 DEF FlowShape, FlowIs
  <2>. QED BY <2>1, <2>2
<1>5. ASSUME ~calCrossed'
      PROVE  Lone'
  <2>1. Lone /\ AtWork(f) /\ touch = {"cancel"} /\ f \in CalThreads
    BY <1>1, <1>5 DEF CalIInv, Lone, AtWork
  <2>2. \A u \in CalThreads \ {f} : ~AtWork(u)
    BY <2>1 DEF Lone
  <2>3. \A u \in CalThreads : calTodo'[u] = <<>>
    BY <1>1, <2>2 DEF AtWork, FlowShape
  <2>4. \A u \in CalThreads : AtWork(u)' <=> u = f
    BY <1>2, <1>5, <2>1, <2>2, <2>3 DEF AtWork
  <2>. QED BY <2>1, <2>3, <2>4 DEF Lone
<1>. QED BY <1>3, <1>4, <1>5 DEF CalIInv

\* The steps of a flow.
LEMMA FlowKeeps ==
  ASSUME CalIInv, NEW f \in Flows, FlowStep(f)
  PROVE  CalIInv'
<1>1. /\ CalTypeOK /\ FlowShape /\ calFlow[f].cam \in 0..(MaxCameras + 1)
      /\ calState \in CalStates /\ page \in Pages /\ "progress" \in Pages /\ "COLLECTING" \in CalStates
      /\ calCrossed \in BOOLEAN /\ MaxCameras \in Nat
  BY CalibrationAssumption DEF CalIInv, CalTypeOK, Pages, CalStates
<1>2. FlowIs(f, "intrinsic", {"collect", "compute"}) => calFlow[f].cam <= MaxCameras
  BY <1>1 DEF FlowShape
<1>. USE DEF FlowIs, ProgressShown, Stages
<1>3. CASE IntrinsicCamera(f)
  <2>1. CASE calCancelled \/ calFlow[f].cam > MaxCameras
    BY <1>1, <1>3, <2>1, FlowGoesKeeps DEF IntrinsicCamera
  <2>2. CASE ~(calCancelled \/ calFlow[f].cam > MaxCameras)
    BY <1>1, <1>3, <2>2, FlowGoesKeeps DEF IntrinsicCamera
  <2>. QED BY <2>1, <2>2
<1>4. CASE IntrinsicCollects(f)
  <2>1. CASE FlowGoes(f, "linger", 0)
    BY <1>1, <1>4, <2>1, FlowGoesKeeps DEF IntrinsicCollects
  <2>2. CASE FlowGoes(f, "compute", calFlow[f].cam)
    BY <1>1, <1>2, <1>4, <2>2, FlowGoesKeeps DEF IntrinsicCollects
  <2>3. CASE UNCHANGED calFlow
    <3>1. FlowGoes(f, calFlow[f].at, calFlow[f].cam)
      BY <1>1, <2>3 DEF FlowGoes, CalTypeOK
    <3>2. calFlow[f].at = "collect" /\ calFlow[f].cam <= MaxCameras /\ page' \in Pages
      BY <1>1, <1>2, <1>4 DEF IntrinsicCollects
    <3>. QED BY <1>1, <1>4, <3>1, <3>2, FlowGoesKeeps DEF IntrinsicCollects
  <2>. QED BY <1>4, <2>1, <2>2, <2>3 DEF IntrinsicCollects
<1>5. CASE IntrinsicSaves(f)
  <2>1. calFlow[f].cam + 1 \in 0..(MaxCameras + 1)
    BY <1>1, <1>2, <1>5 DEF IntrinsicSaves
  <2>. QED BY <1>1, <1>5, <2>1, FlowGoesKeeps DEF IntrinsicSaves
<1>6. CASE AutoLocates(f)
  BY <1>1, <1>6, FlowGoesKeeps DEF AutoLocates
<1>7. CASE AutoComputes(f)
  BY <1>1, <1>7, FlowGoesKeeps DEF AutoComputes
<1>8. CASE StatusShows(f)
  BY <1>1, <1>8, FlowGoesKeeps DEF StatusShows
<1>9. CASE FlowDies(f)
  BY <1>1, <1>9, FlowGoesKeeps DEF FlowDies
<1>10. CASE FlowReturns(f)
  <2>1. FlowGoes(f, "over", 0) /\ 0 \in 0..(MaxCameras + 1)
    BY <1>1, <1>10 DEF FlowReturns
  <2>2. /\ calFlow' \in [Flows -> [kind : Kinds, at : Stages, cam : 0..(MaxCameras + 1)]]
        /\ calFlow'[f].at = "over" /\ \A g \in Flows : g # f => calFlow'[g] = calFlow[g]
    BY <1>1, <2>1, FlowGoesFacts
  <2>3. calCrossed' = OthersActive(f) /\ OthersActive(f) \in BOOLEAN /\ f \in CalThreads
    BY <1>10 DEF FlowReturns, OthersActive, CalThreads
  <2>4. calTodo[f] = <<>> /\ calTodo' = [calTodo EXCEPT ![f] = ReturnSteps]
    BY <1>10 DEF FlowReturns, Begin
  <2>5. UNCHANGED <<calState, page, touch, calCancelled>>
    BY <1>10 DEF FlowReturns
  <2>. QED BY <2>2, <2>3, <2>4, <2>5, StepsFacts, BeginsAlone
<1>. QED BY <1>3, <1>4, <1>5, <1>6, <1>7, <1>8, <1>9, <1>10 DEF FlowStep

\* Nothing is at work to begin with.
LEMMA CalInitInv == CalInit => CalIInv
<1> SUFFICES ASSUME CalInit
             PROVE  CalIInv
  OBVIOUS
<1>1. CalTypeOK
  <2>1. NoFlow \in [kind : Kinds, at : Stages, cam : 0..(MaxCameras + 1)]
    BY CalibrationAssumption DEF NoFlow, Kinds, Stages
  <2>2. <<>> \in Seq(Writes)
    OBVIOUS
  <2>. QED BY <2>1, <2>2 DEF CalInit, CalTypeOK, CalStates, Pages
<1>2. \A t \in CalThreads : ~AtWork(t) /\ calTodo[t] = <<>>
  BY DEF CalInit, AtWork, NoFlow
<1>3. \A f \in Flows : calFlow[f].at = "over"
  BY DEF CalInit, NoFlow
<1>. QED BY <1>1, <1>2, <1>3 DEF CalIInv, FlowShape, FlowIs, Lone, Fits, MainFits, CalInit

\* Every step keeps what is at work on its course.
LEMMA CalStepInv == CalIInv /\ [CalNext]_calVars => CalIInv'
<1> SUFFICES ASSUME CalIInv, [CalNext]_calVars
             PROVE  CalIInv'
  OBVIOUS
<1>1. CASE CalEnter \/ CalExit \/ OnFlowButton
  BY <1>1, RoutinesBegin
<1>2. CASE OnCancel
  BY <1>2, FlagKeeps DEF OnCancel
<1>3. CASE \E t \in CalThreads : RoutineGoesOn(t)
  BY <1>3, RoutineKeeps
<1>4. CASE \E f \in Flows : FlowStep(f)
  BY <1>4, FlowKeeps
<1>5. CASE UNCHANGED calVars
  BY <1>5, FlagKeeps DEF calVars, CalIInv, CalTypeOK
<1>. QED BY <1>1, <1>2, <1>3, <1>4, <1>5 DEF CalNext

\* What the menu keeps, whatever the steps.
LEMMA CalInvariant == CalSpec => []CalIInv
<1>. QED BY CalInitInv, CalStepInv, PTL DEF CalSpec

\* As long as nothing crossed and no flow died, page, handlers and state fit once
\* nothing is at work, and one flow runs at a time (calibration/display_menu.py).
THEOREM MenuTheorem == CalSpec => []MenuWorks
<1>1. CalIInv => MenuWorks
  <2> SUFFICES ASSUME CalIInv, ~calCrossed
               PROVE  /\ (\A t \in CalThreads : ~AtWork(t)) => MenuFits \/ MainFits
                      /\ Cardinality(Running) <= 1
                      /\ \A f \in Running :
                           calFlow[f].at # "over" /\ page = "progress" => touch = {"cancel"}
    BY DEF MenuWorks
  <2>1. Lone /\ Running \subseteq CalThreads
    BY DEF CalIInv, Running, CalThreads
  <2>2. \A f, g \in Running : f = g
    BY <2>1 DEF Lone, Running
  <2>3. Cardinality(Running) <= 1
    <3>1. CASE Running = {}
      BY <3>1, FS_EmptySet
    <3>2. ASSUME NEW f \in Running
          PROVE  Cardinality(Running) <= 1
      <4>1. Running = {f}
        BY <2>2
      <4>. QED BY <4>1, FS_Singleton
    <3>. QED BY <3>1, <3>2
  <2>. QED BY <2>1, <2>3 DEF Lone, Fits, Running
<1>. QED BY <1>1, CalInvariant, PTL

-----------------------------------------------------------------------------
(***************************************************************************)
(* The inductive invariant of a plan: everything up to half a deck before  *)
(* the next stripe is mown, and the last waypoint is at the end of the box *)
(* where the next stripe begins.                                           *)
(***************************************************************************)
MownSoFar ==
  planning # "idle" => \A u \in Nat : u + halfDeck < nextX => Mowed(u)

StripesInPairs ==
  \E k \in Nat :
    /\ Len(waypoints) = 2 * k
    /\ k # 0 => waypoints[2 * k].end = IF k % 2 = 0 THEN "low" ELSE "high"

TurnsAlongEdge ==
  \A i \in 1..(Len(waypoints) - 1) :
    waypoints[i].isTurn => waypoints[i + 1].end = waypoints[i].end

PlanIInv ==
  /\ PlanTypeOK /\ MownSoFar /\ StripesInPairs /\ TurnsAlongEdge
  /\ planning = "done" => nextX > boxWidth

\* What half a deck on either side of a stripe adds to what is mown.
LEMMA StripeMows ==
  ASSUME NEW x \in Nat, NEW half \in Nat, NEW step \in Nat, step <= 2 * half,
         NEW u \in Nat, u + half < x + step, ~(u + half < x)
  PROVE  x <= u + half /\ u + 1 <= x + half
OBVIOUS

\* A stripe adds its deck to what is mown and turns at the end it has reached.
LEMMA LayStripeKeeps ==
  ASSUME PlanIInv, LayStripe
  PROVE  PlanIInv'
<1>. DEFINE upwards == (Len(waypoints) \div 2) % 2 = 0
            from == IF upwards THEN "low" ELSE "high"
            to == IF upwards THEN "high" ELSE "low"
            p == [x |-> nextX, end |-> from, isTurn |-> FALSE]
            q == [x |-> nextX, end |-> to, isTurn |-> TRUE]
<1>1. /\ waypoints \in Seq(Waypoint) /\ Len(waypoints) \in Nat
      /\ nextX \in Nat /\ boxWidth \in 0..MaxBoxWidth /\ nextX <= boxWidth
      /\ halfDeck \in 1..MaxHalfDeck /\ spacing \in halfDeck..(2 * halfDeck)
      /\ halfDeck \in Nat /\ spacing \in Nat /\ spacing <= 2 * halfDeck
      /\ nextX \in 0..MaxBoxWidth
  BY PlanAssumption DEF LayStripe, PlanIInv, PlanTypeOK
<1>2. /\ planning = "laying" /\ nextX' = nextX + spacing
      /\ UNCHANGED <<boxWidth, halfDeck, spacing, planning>>
  BY DEF LayStripe
<1>3. /\ waypoints' = waypoints \o <<p, q>>
      /\ p \in Waypoint /\ p.end = from /\ p.x = nextX /\ p.isTurn = FALSE
      /\ q \in Waypoint /\ q.end = to /\ q.x = nextX /\ q.isTurn = TRUE
  BY <1>1 DEF LayStripe, Waypoint
<1>4. PICK k \in Nat :
        /\ Len(waypoints) = 2 * k
        /\ k # 0 => waypoints[2 * k].end = IF k % 2 = 0 THEN "low" ELSE "high"
  BY DEF PlanIInv, StripesInPairs
<1>5. upwards <=> k % 2 = 0
  BY <1>4
<1>6. from = (IF k % 2 = 0 THEN "low" ELSE "high") /\ to = (IF (k + 1) % 2 = 0 THEN "low" ELSE "high")
  BY <1>5
<1>. HIDE DEF upwards, from, to, p, q
<1>7. <<p, q>> \in Seq(Waypoint) /\ Len(<<p, q>>) = 2
  BY <1>3
<1>8. /\ waypoints' \in Seq(Waypoint) /\ Len(waypoints') = Len(waypoints) + 2
      /\ \A i \in 1..Len(waypoints) : waypoints'[i] = waypoints[i]
      /\ waypoints'[Len(waypoints) + 1] = p /\ waypoints'[Len(waypoints) + 2] = q
      /\ DOMAIN waypoints = 1..Len(waypoints) /\ DOMAIN waypoints' = 1..Len(waypoints')
  BY <1>1, <1>3, <1>7
<1>9. PlanTypeOK'
  BY <1>1, <1>2, <1>8 DEF PlanIInv, PlanTypeOK
<1>10. MownSoFar'
  <2>1. SUFFICES ASSUME NEW u \in Nat, u + halfDeck < nextX + spacing
                 PROVE  \E i \in DOMAIN waypoints' :
                          waypoints'[i].x <= u + halfDeck /\ u + 1 <= waypoints'[i].x + halfDeck
    BY <1>2 DEF MownSoFar, Mowed
  <2>2. CASE u + halfDeck < nextX
    <3>1. PICK i \in 1..Len(waypoints) :
            waypoints[i].x <= u + halfDeck /\ u + 1 <= waypoints[i].x + halfDeck
      BY <1>2, <1>8, <2>2 DEF PlanIInv, MownSoFar, Mowed
    <3>2. i \in DOMAIN waypoints' /\ waypoints'[i] = waypoints[i]
      BY <1>1, <1>8
    <3>. QED BY <3>1, <3>2
  <2>3. CASE ~(u + halfDeck < nextX)
    <3>1. nextX <= u + halfDeck /\ u + 1 <= nextX + halfDeck
      BY <1>1, <2>1, <2>3, StripeMows
    <3>2. Len(waypoints) + 1 \in DOMAIN waypoints' /\ waypoints'[Len(waypoints) + 1].x = nextX
      BY <1>1, <1>3, <1>8
    <3>. QED BY <3>1, <3>2, Zenon
  <2>. QED BY <2>2, <2>3
<1>11. StripesInPairs'
  <2>1. k + 1 \in Nat /\ k + 1 # 0 /\ Len(waypoints') = 2 * (k + 1) /\ 2 * (k + 1) = Len(waypoints) + 2
    BY <1>4, <1>8
  <2>2. waypoints'[2 * (k + 1)] = q
    BY <1>8, <2>1
  <2>3. waypoints'[2 * (k + 1)].end = IF (k + 1) % 2 = 0 THEN "low" ELSE "high"
    BY <1>3, <1>6, <2>2
  <2>. QED BY <2>1, <2>3 DEF StripesInPairs
<1>12. TurnsAlongEdge'
  <2>1. ASSUME NEW i \in 1..(Len(waypoints') - 1), waypoints'[i].isTurn
        PROVE  waypoints'[i + 1].end = waypoints'[i].end
    <3>0. Len(waypoints) \in Nat /\ Len(waypoints') = Len(waypoints) + 2
      BY <1>1, <1>8
    <3>1. i \in Nat /\ (i < Len(waypoints) \/ i = Len(waypoints) \/ i = Len(waypoints) + 1)
      <4>1. i \in 1..(Len(waypoints) + 1)
        BY <3>0
      <4>. QED BY <3>0, <4>1
    <3>2. CASE i < Len(waypoints)
      <4>1. i \in 1..(Len(waypoints) - 1) /\ i \in 1..Len(waypoints) /\ i + 1 \in 1..Len(waypoints)
        BY <1>1, <3>1, <3>2
      <4>. QED BY <1>8, <2>1, <4>1 DEF PlanIInv, TurnsAlongEdge
    <3>3. CASE i = Len(waypoints)
      <4>1. i \in 1..Len(waypoints) /\ k # 0 /\ i = 2 * k
        BY <1>1, <1>4, <3>3
      <4>2. waypoints'[i].end = IF k % 2 = 0 THEN "low" ELSE "high"
        BY <1>4, <1>8, <4>1
      <4>3. waypoints'[i + 1].end = from
        BY <1>3, <1>8, <3>3
      <4>. QED BY <1>6, <4>2, <4>3
    <3>4. CASE i = Len(waypoints) + 1
      BY <1>3, <1>8, <2>1, <3>4
    <3>. QED BY <3>1, <3>2, <3>3, <3>4
  <2>. QED BY <2>1 DEF TurnsAlongEdge
<1>. QED BY <1>2, <1>9, <1>10, <1>11, <1>12 DEF PlanIInv

\* A plan begins with nothing mown and nothing to mow before its first stripe.
LEMMA PlanBeginsKeeps ==
  ASSUME PlanTypeOK, PlanBegins
  PROVE  PlanIInv'
<1>1. <<>> \in Seq(Waypoint) /\ Len(<<>>) = 0
  OBVIOUS
<1>2. /\ waypoints' = <<>> /\ planning' = "laying" /\ nextX' = halfDeck /\ halfDeck' = halfDeck
      /\ halfDeck \in 1..MaxHalfDeck /\ halfDeck \in Nat
      /\ boxWidth' \in 1..MaxBoxWidth /\ spacing' \in halfDeck..(2 * halfDeck)
  BY PlanAssumption DEF PlanBegins, FirstStripe, PlanTypeOK
<1>3. PlanTypeOK'
  BY <1>1, <1>2, PlanAssumption DEF PlanTypeOK
<1>4. MownSoFar'
  BY <1>2 DEF MownSoFar
<1>5. StripesInPairs'
  <2>1. 0 \in Nat /\ Len(waypoints') = 2 * 0
    BY <1>1, <1>2
  <2>. QED BY <2>1 DEF StripesInPairs
<1>6. TurnsAlongEdge'
  BY <1>1, <1>2 DEF TurnsAlongEdge
<1>. QED BY <1>2, <1>3, <1>4, <1>5, <1>6 DEF PlanIInv

\* The inductive invariant holds, for any width of the box and of the deck.
THEOREM PlanInvariant == PlanSpec => []PlanIInv
<1>1. PlanInit => PlanIInv
  <2>. SUFFICES ASSUME PlanInit
                PROVE  PlanIInv
    OBVIOUS
  <2>1. <<>> \in Seq(Waypoint) /\ Len(<<>>) = 0
    OBVIOUS
  <2>2. PlanTypeOK
    BY <2>1, PlanAssumption DEF PlanInit, PlanTypeOK
  <2>3. StripesInPairs
    <3>1. 0 \in Nat /\ Len(waypoints) = 2 * 0
      BY <2>1 DEF PlanInit
    <3>. QED BY <3>1 DEF StripesInPairs
  <2>. QED BY <2>1, <2>2, <2>3 DEF PlanInit, PlanIInv, MownSoFar, TurnsAlongEdge
<1>2. PlanIInv /\ [PlanNext]_planVars => PlanIInv'
  <2>. SUFFICES ASSUME PlanIInv, [PlanNext]_planVars
                PROVE  PlanIInv'
    OBVIOUS
  <2>1. CASE PlanBegins
    BY <2>1, PlanBeginsKeeps DEF PlanIInv
  <2>2. CASE LayStripe
    BY <2>2, LayStripeKeeps
  <2>3. CASE PlanEnds
    BY <2>3 DEF PlanEnds, PlanIInv, PlanTypeOK, MownSoFar, Mowed, StripesInPairs, TurnsAlongEdge
  <2>4. CASE UNCHANGED planVars
    BY <2>4 DEF planVars, PlanIInv, PlanTypeOK, MownSoFar, Mowed, StripesInPairs, TurnsAlongEdge
  <2>. QED BY <2>1, <2>2, <2>3, <2>4 DEF PlanNext
<1>. QED BY <1>1, <1>2, PTL DEF PlanSpec

\* For any width of the box and of the deck and any overlap, what a plan leaves unmown is
\* less than half a deck at the far edge, and turns stay at one end (navigation/path_planner.py).
THEOREM PlanTheorem == PlanSpec => []GapOnlyAtFarEdge
<1>1. PlanIInv => GapOnlyAtFarEdge
  <2>. SUFFICES ASSUME PlanIInv, planning = "done"
                PROVE  /\ \A u \in 0..(boxWidth - 1) : u + halfDeck < boxWidth => Mowed(u)
                       /\ TurnsAlongEdge
    BY DEF GapOnlyAtFarEdge, TurnsAlongEdge
  <2>1. boxWidth \in Nat /\ nextX \in Nat /\ halfDeck \in Nat /\ boxWidth < nextX
    BY PlanAssumption DEF PlanIInv, PlanTypeOK
  <2>2. ASSUME NEW u \in 0..(boxWidth - 1), u + halfDeck < boxWidth
        PROVE  Mowed(u)
    <3>1. u \in Nat /\ u + halfDeck < nextX
      BY <2>1, <2>2
    <3>. QED BY <3>1 DEF PlanIInv, MownSoFar
  <2>. QED BY <2>2 DEF PlanIInv
<1>. QED BY <1>1, PlanInvariant, PTL
=============================================================================
