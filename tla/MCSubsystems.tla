---------------------------- MODULE MCSubsystems ----------------------------
(***************************************************************************)
(* Components that share no state, checked side by side: each behaviour is *)
(* one of one component, the others stay in their initial state.  It saves *)
(* no interleaving that matters, and one run checks them all.              *)
(***************************************************************************)
EXTENDS PicoLink, ManualControl, TeachMode, ShiftController, StreamManager,
        FleetCoordinator, MeshtasticBeacon, ClaimLifecycle, CommandDelivery,
        TelemetryQueue, StatusLights, CalibrationMenu, InfluxLogger, Vision,
        Geofence, StripePlan, Detectors, Uplink

CONSTANT Components        \* the components this run looks at

VARIABLE focus             \* the component this behaviour is one of

subVars == <<focus, linkVars, manualVars, teachVars, shiftVars, streamVars,
             fleetVars, beaconVars, claimVars, deliveryVars, queueVars,
             lightsVars, calVars, influxVars, visionVars, fenceVars, planVars,
             detectorVars, uplinkVars>>

MCAll == {"link", "manual", "teach", "shift", "streams", "fleet", "beacon",
          "claim", "delivery", "telemetry", "lights", "menu", "influx",
          "vision", "fence", "stripes", "detectors", "uplink"}
MCLinkOnly == {"link"}
MCClaimOnly == {"claim"}

\* Quadrilaterals that start at one of two points, and three boundaries that
\* replace another: a triangle, a quadrilateral with a notch and one too short to
\* be a boundary.
MCStarts == {<<0, 0>>, <<2, 1>>}
MCReloads ==
  {<<<<2, 2>>, <<0, 1>>, <<1, 0>>>>, <<<<0, 0>>, <<2, 0>>, <<1, 1>>, <<0, 2>>>>,
   <<<<2, 2>>, <<0, 0>>, <<2, 2>>>>}

TypeOK ==
  /\ focus \in Components
  /\ LinkTypeOK /\ ManualTypeOK /\ TeachTypeOK /\ ShiftTypeOK /\ StreamTypeOK
  /\ FleetTypeOK /\ BeaconTypeOK /\ ClaimTypeOK /\ DeliveryTypeOK /\ QueueTypeOK
  /\ LightsTypeOK /\ CalTypeOK /\ InfluxTypeOK /\ VisionTypeOK /\ FenceTypeOK
  /\ PlanTypeOK /\ DetectorTypeOK /\ UplinkTypeOK

\* Only the component looked at starts with each of its initial states.
OneStart ==
  /\ focus # "shift" => lever = 0
  /\ focus # "telemetry" => cadenced /\ pushOnline
  /\ focus # "influx" => sensorsGiven /\ influxClient
  /\ focus # "vision" => profile = DefaultSolo /\ camKind = "sim" /\ homeSet
  /\ focus # "stripes" => halfDeck = 1
  /\ focus # "uplink" => inRange = {}

SubInit ==
  /\ focus \in Components
  /\ LinkInit /\ ManualInit /\ TeachInit /\ ShiftInit /\ StreamInit
  /\ FleetInit /\ BeaconInit /\ ClaimInit /\ DeliveryInit /\ QueueInit
  /\ LightsInit /\ CalInit /\ InfluxInit /\ VisionInit /\ FenceInit
  /\ PlanInit /\ DetectorInit /\ UplinkInit
  /\ OneStart

Others(c) ==
  /\ UNCHANGED focus
  /\ IF c = "link" THEN TRUE ELSE UNCHANGED linkVars
  /\ IF c = "manual" THEN TRUE ELSE UNCHANGED manualVars
  /\ IF c = "teach" THEN TRUE ELSE UNCHANGED teachVars
  /\ IF c = "shift" THEN TRUE ELSE UNCHANGED shiftVars
  /\ IF c = "streams" THEN TRUE ELSE UNCHANGED streamVars
  /\ IF c = "fleet" THEN TRUE ELSE UNCHANGED fleetVars
  /\ IF c = "beacon" THEN TRUE ELSE UNCHANGED beaconVars
  /\ IF c = "claim" THEN TRUE ELSE UNCHANGED claimVars
  /\ IF c = "delivery" THEN TRUE ELSE UNCHANGED deliveryVars
  /\ IF c = "telemetry" THEN TRUE ELSE UNCHANGED queueVars
  /\ IF c = "lights" THEN TRUE ELSE UNCHANGED lightsVars
  /\ IF c = "menu" THEN TRUE ELSE UNCHANGED calVars
  /\ IF c = "influx" THEN TRUE ELSE UNCHANGED influxVars
  /\ IF c = "vision" THEN TRUE ELSE UNCHANGED visionVars
  /\ IF c = "fence" THEN TRUE ELSE UNCHANGED fenceVars
  /\ IF c = "stripes" THEN TRUE ELSE UNCHANGED planVars
  /\ IF c = "detectors" THEN TRUE ELSE UNCHANGED detectorVars
  /\ IF c = "uplink" THEN TRUE ELSE UNCHANGED uplinkVars

SubNext ==
  \/ focus = "link" /\ LinkNext /\ Others("link")
  \/ focus = "manual" /\ ManualNext /\ Others("manual")
  \/ focus = "teach" /\ TeachNext /\ Others("teach")
  \/ focus = "shift" /\ ShiftNext /\ Others("shift")
  \/ focus = "streams" /\ StreamNext /\ Others("streams")
  \/ focus = "fleet" /\ FleetNext /\ Others("fleet")
  \/ focus = "beacon" /\ BeaconNext /\ Others("beacon")
  \/ focus = "claim" /\ ClaimNext /\ Others("claim")
  \/ focus = "delivery" /\ DeliveryNext /\ Others("delivery")
  \/ focus = "telemetry" /\ QueueNext /\ Others("telemetry")
  \/ focus = "lights" /\ LightsNext /\ Others("lights")
  \/ focus = "menu" /\ CalNext /\ Others("menu")
  \/ focus = "influx" /\ InfluxNext /\ Others("influx")
  \/ focus = "vision" /\ VisionNext /\ Others("vision")
  \/ focus = "fence" /\ FenceNext /\ Others("fence")
  \/ focus = "stripes" /\ PlanNext /\ Others("stripes")
  \/ focus = "detectors" /\ DetectorNext /\ Others("detectors")
  \/ focus = "uplink" /\ UplinkNext /\ Others("uplink")

\* Link: the threads and the firmware's two loops run, and without a heartbeat
\* the timeout passes; the lock is not fair, a thread gets it if it is free again
\* and again.  Claiming: the process runs and is started again, the operator goes
\* on typing in codes.
SubFairness ==
  /\ WF_linkVars(focus = "link" /\ (BeginSend \/ MainWrites))
  /\ SF_linkVars(focus = "link" /\ MainLocks)
  /\ WF_linkVars(focus = "link" /\ Exit)
  /\ WF_linkVars(focus = "link" /\ (HbWakes \/ HbWrites))
  /\ SF_linkVars(focus = "link" /\ HbLocks)
  /\ WF_linkVars(focus = "link" /\ PicoReceives)
  /\ WF_linkVars(focus = "link" /\ PicoChecks)
  /\ WF_linkVars(focus = "link" /\ HeartbeatLate /\ PiSilent)
  /\ WF_claimVars(focus = "claim" /\ UnitStep)
  /\ WF_claimVars(focus = "claim" /\ ClaimPosted)

SubSpec == SubInit /\ [][SubNext]_subVars /\ SubFairness
=============================================================================
