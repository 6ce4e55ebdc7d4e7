-------------------------- MODULE Subsystems_proofs -------------------------
(***************************************************************************)
(* Proofs about the components side by side: each of them does what its    *)
(* own specification allows, so what is proved about one by itself holds   *)
(* in the composition, for every value of every constant.                  *)
(***************************************************************************)
EXTENDS MCSubsystems, Drive_proofs, Server_proofs, Peripherals_proofs, Geofence_proofs
-----------------------------------------------------------------------------
(***************************************************************************)
(* A step of one component is a step of it, and the others stutter.        *)
(***************************************************************************)
EachStepsOrStutters ==
  /\ [LinkNext]_linkVars /\ [ManualNext]_manualVars /\ [TeachNext]_teachVars
  /\ [ShiftNext]_shiftVars /\ [StreamNext]_streamVars /\ [FleetNext]_fleetVars
  /\ [BeaconNext]_beaconVars /\ [ClaimNext]_claimVars /\ [DeliveryNext]_deliveryVars
  /\ [QueueNext]_queueVars /\ [LightsNext]_lightsVars /\ [CalNext]_calVars
  /\ [InfluxNext]_influxVars /\ [VisionNext]_visionVars /\ [FenceNext]_fenceVars
  /\ [PlanNext]_planVars /\ [DetectorNext]_detectorVars /\ [UplinkNext]_uplinkVars

\* Whatever the step of the composition is.
LEMMA StepOfOne ==
  ASSUME [SubNext]_subVars
  PROVE  EachStepsOrStutters
<1>. USE DEF EachStepsOrStutters, Others
<1>0. CASE UNCHANGED subVars
  BY <1>0 DEF subVars
<1>1. CASE LinkNext /\ Others("link")
  BY <1>1
<1>2. CASE ManualNext /\ Others("manual")
  BY <1>2
<1>3. CASE TeachNext /\ Others("teach")
  BY <1>3
<1>4. CASE ShiftNext /\ Others("shift")
  BY <1>4
<1>5. CASE StreamNext /\ Others("streams")
  BY <1>5
<1>6. CASE FleetNext /\ Others("fleet")
  BY <1>6
<1>7. CASE BeaconNext /\ Others("beacon")
  BY <1>7
<1>8. CASE ClaimNext /\ Others("claim")
  BY <1>8
<1>9. CASE DeliveryNext /\ Others("delivery")
  BY <1>9
<1>10. CASE QueueNext /\ Others("telemetry")
  BY <1>10
<1>11. CASE LightsNext /\ Others("lights")
  BY <1>11
<1>12. CASE CalNext /\ Others("menu")
  BY <1>12
<1>13. CASE InfluxNext /\ Others("influx")
  BY <1>13
<1>14. CASE VisionNext /\ Others("vision")
  BY <1>14
<1>15. CASE FenceNext /\ Others("fence")
  BY <1>15
<1>16. CASE PlanNext /\ Others("stripes")
  BY <1>16
<1>17. CASE DetectorNext /\ Others("detectors")
  BY <1>17
<1>18. CASE UplinkNext /\ Others("uplink")
  BY <1>18
<1>. HIDE DEF EachStepsOrStutters, Others
<1>. QED BY <1>0, <1>1, <1>2, <1>3, <1>4, <1>5, <1>6, <1>7, <1>8, <1>9, <1>10, <1>11,
         <1>12, <1>13, <1>14, <1>15, <1>16, <1>17, <1>18 DEF SubNext

(***************************************************************************)
(* Of all behaviours of the composition each component sees one of its     *)
(* own: it starts as it starts by itself, and every step is one of its     *)
(* steps or leaves it alone.                                               *)
(***************************************************************************)
THEOREM ComponentsTheorem ==
  SubSpec =>
    /\ LinkSpec /\ ManualSpec /\ TeachSpec /\ ShiftSpec /\ StreamSpec /\ FleetSpec
    /\ BeaconSpec /\ ClaimSpec /\ DeliverySpec /\ QueueSpec /\ LightsSpec /\ CalSpec
    /\ InfluxSpec /\ VisionSpec /\ FenceSpec /\ PlanSpec /\ DetectorSpec /\ UplinkSpec
<1>1. SubInit =>
        /\ LinkInit /\ ManualInit /\ TeachInit /\ ShiftInit /\ StreamInit /\ FleetInit
        /\ BeaconInit /\ ClaimInit /\ DeliveryInit /\ QueueInit /\ LightsInit /\ CalInit
        /\ InfluxInit /\ VisionInit /\ FenceInit /\ PlanInit /\ DetectorInit /\ UplinkInit
  BY DEF SubInit
<1>2. [SubNext]_subVars =>
        /\ [LinkNext]_linkVars /\ [ManualNext]_manualVars /\ [TeachNext]_teachVars
        /\ [ShiftNext]_shiftVars /\ [StreamNext]_streamVars /\ [FleetNext]_fleetVars
        /\ [BeaconNext]_beaconVars /\ [ClaimNext]_claimVars /\ [DeliveryNext]_deliveryVars
        /\ [QueueNext]_queueVars /\ [LightsNext]_lightsVars /\ [CalNext]_calVars
        /\ [InfluxNext]_influxVars /\ [VisionNext]_visionVars /\ [FenceNext]_fenceVars
        /\ [PlanNext]_planVars /\ [DetectorNext]_detectorVars /\ [UplinkNext]_uplinkVars
  BY StepOfOne DEF EachStepsOrStutters
<1>3. SubSpec => LinkSpec
  BY <1>1, <1>2, PTL DEF SubSpec, LinkSpec
<1>4. SubSpec => ManualSpec
  BY <1>1, <1>2, PTL DEF SubSpec, ManualSpec
<1>5. SubSpec => TeachSpec
  BY <1>1, <1>2, PTL DEF SubSpec, TeachSpec
<1>6. SubSpec => ShiftSpec
  BY <1>1, <1>2, PTL DEF SubSpec, ShiftSpec
<1>7. SubSpec => StreamSpec
  BY <1>1, <1>2, PTL DEF SubSpec, StreamSpec
<1>8. SubSpec => FleetSpec
  BY <1>1, <1>2, PTL DEF SubSpec, FleetSpec
<1>9. SubSpec => BeaconSpec
  BY <1>1, <1>2, PTL DEF SubSpec, BeaconSpec
<1>10. SubSpec => ClaimSpec
  BY <1>1, <1>2, PTL DEF SubSpec, ClaimSpec
<1>11. SubSpec => DeliverySpec
  BY <1>1, <1>2, PTL DEF SubSpec, DeliverySpec
<1>12. SubSpec => QueueSpec
  BY <1>1, <1>2, PTL DEF SubSpec, QueueSpec
<1>13. SubSpec => LightsSpec
  BY <1>1, <1>2, PTL DEF SubSpec, LightsSpec
<1>14. SubSpec => CalSpec
  BY <1>1, <1>2, PTL DEF SubSpec, CalSpec
<1>15. SubSpec => InfluxSpec
  BY <1>1, <1>2, PTL DEF SubSpec, InfluxSpec
<1>16. SubSpec => VisionSpec
  BY <1>1, <1>2, PTL DEF SubSpec, VisionSpec
<1>17. SubSpec => FenceSpec
  BY <1>1, <1>2, PTL DEF SubSpec, FenceSpec
<1>18. SubSpec => PlanSpec
  BY <1>1, <1>2, PTL DEF SubSpec, PlanSpec
<1>19. SubSpec => DetectorSpec
  BY <1>1, <1>2, PTL DEF SubSpec, DetectorSpec
<1>20. SubSpec => UplinkSpec
  BY <1>1, <1>2, PTL DEF SubSpec, UplinkSpec
<1>. QED BY <1>3, <1>4, <1>5, <1>6, <1>7, <1>8, <1>9, <1>10, <1>11, <1>12, <1>13, <1>14,
         <1>15, <1>16, <1>17, <1>18, <1>19, <1>20

(***************************************************************************)
(* Every variable of every component has its type in every state of the    *)
(* composition (MCSubsystems, the type invariant of the run).              *)
(***************************************************************************)
THEOREM SubsystemsTypeTheorem == SubSpec => []TypeOK
<1>1. SubSpec => [](focus \in Components)
  <2>1. SubInit => focus \in Components
    BY DEF SubInit
  <2>2. focus \in Components /\ [SubNext]_subVars => (focus \in Components)'
    BY DEF SubNext, Others, subVars
  <2>. QED BY <2>1, <2>2, PTL DEF SubSpec
<1>2. SubSpec => []LinkTypeOK
  <2>1. LinkIInv => LinkTypeOK
    BY DEF LinkIInv
  <2>. QED BY <2>1, LinkInvariant, ComponentsTheorem, PTL
<1>3. SubSpec => []ManualTypeOK
  <2>1. ManualInv => ManualTypeOK
    BY DEF ManualInv
  <2>. QED BY <2>1, ManualInvariant, ComponentsTheorem, PTL
<1>4. SubSpec => []TeachTypeOK
  <2>1. TeachIInv => TeachTypeOK
    BY DEF TeachIInv
  <2>. QED BY <2>1, TeachInvariant, ComponentsTheorem, PTL
<1>5. SubSpec => []ShiftTypeOK
  <2>1. ShiftInv => ShiftTypeOK
    BY DEF ShiftInv
  <2>. QED BY <2>1, ShiftInvariant, ComponentsTheorem, PTL
<1>6. SubSpec => []StreamTypeOK
  <2>1. StreamInv => StreamTypeOK
    BY DEF StreamInv
  <2>. QED BY <2>1, StreamInvariant, ComponentsTheorem, PTL
<1>7. SubSpec => []FleetTypeOK
  <2>1. FleetIInv => FleetTypeOK
    BY DEF FleetIInv
  <2>. QED BY <2>1, FleetInvariant, ComponentsTheorem, PTL
<1>8. SubSpec => []BeaconTypeOK
  BY BeaconInvariant, ComponentsTheorem, PTL
<1>9. SubSpec => []ClaimTypeOK
  BY TokenSurvivesTheorem, ComponentsTheorem, PTL
<1>10. SubSpec => []DeliveryTypeOK
  <2>1. DeliveryIInv => DeliveryTypeOK
    BY DEF DeliveryIInv
  <2>. QED BY <2>1, DeliveryInvariant, ComponentsTheorem, PTL
<1>11. SubSpec => []QueueTypeOK
  BY TypeCorrect, ComponentsTheorem, PTL
<1>12. SubSpec => []LightsTypeOK
  <2>1. LightsInv => LightsTypeOK
    BY DEF LightsInv
  <2>. QED BY <2>1, LightsInvariant, ComponentsTheorem, PTL
<1>13. SubSpec => []CalTypeOK
  <2>1. CalIInv => CalTypeOK
    BY DEF CalIInv
  <2>. QED BY <2>1, CalInvariant, ComponentsTheorem, PTL
<1>14. SubSpec => []InfluxTypeOK
  <2>1. InfluxIInv => InfluxTypeOK
    BY DEF InfluxIInv
  <2>. QED BY <2>1, InfluxInvariant, ComponentsTheorem, PTL
<1>15. SubSpec => []VisionTypeOK
  BY VisionInvariant, ComponentsTheorem, PTL
<1>16. SubSpec => []FenceTypeOK
  <2>1. FenceIInv => FenceTypeOK
    BY DEF FenceIInv
  <2>. QED BY <2>1, FenceInvariant, ComponentsTheorem, PTL
<1>17. SubSpec => []PlanTypeOK
  <2>1. PlanIInv => PlanTypeOK
    BY DEF PlanIInv
  <2>. QED BY <2>1, PlanInvariant, ComponentsTheorem, PTL
<1>18. SubSpec => []DetectorTypeOK
  BY DetectorInvariant, ComponentsTheorem, PTL
<1>19. SubSpec => []UplinkTypeOK
  <2>1. UplinkInv => UplinkTypeOK
    BY DEF UplinkInv
  <2>. QED BY <2>1, UplinkInvariant, ComponentsTheorem, PTL
<1>20. /\ focus \in Components
       /\ LinkTypeOK /\ ManualTypeOK /\ TeachTypeOK /\ ShiftTypeOK /\ StreamTypeOK
       /\ FleetTypeOK /\ BeaconTypeOK /\ ClaimTypeOK /\ DeliveryTypeOK /\ QueueTypeOK
       /\ LightsTypeOK /\ CalTypeOK /\ InfluxTypeOK /\ VisionTypeOK /\ FenceTypeOK
       /\ PlanTypeOK /\ DetectorTypeOK /\ UplinkTypeOK
       => TypeOK
  BY DEF TypeOK
<1>. QED BY <1>1, <1>2, <1>3, <1>4, <1>5, <1>6, <1>7, <1>8, <1>9, <1>10, <1>11, <1>12,
         <1>13, <1>14, <1>15, <1>16, <1>17, <1>18, <1>19, <1>20, PTL

\* The safety invariants the run checks, one or two of each component.
SubsystemsSafe ==
  /\ RelaysAgree /\ ExitCutsRelays /\ MovingHasDeadline /\ PathIsFaithful
  /\ GearAgreesAtRest /\ OrphanNeedsOverlap /\ SharedZoneLeftOut /\ TokenSurvives
  /\ CommandsRunOnce /\ OrphanSessionExplained /\ EverySnapshotAccounted /\ NoStaleLights
  /\ MenuWorks /\ LostOnlyAfterItsWriteFailed /\ DockedSawMarker /\ BreachIsTrue
  /\ GapOnlyAtFarEdge /\ StopsAndFaultsAreTold /\ GivesUpOnlyWithoutNetwork

(***************************************************************************)
(* They hold in the composition for every value of the constants, and so   *)
(* does the refinement of the lossy store.                                 *)
(***************************************************************************)
THEOREM SubsystemsTheorem == SubSpec => []SubsystemsSafe /\ ImplementsLossyStore
<1>1. SubSpec => []RelaysAgree
  BY RelaysTheorem, ComponentsTheorem, PTL
<1>2. SubSpec => []ExitCutsRelays
  BY ExitTheorem, ComponentsTheorem, PTL
<1>3. SubSpec => []MovingHasDeadline
  BY DeadlineTheorem, ComponentsTheorem, PTL
<1>4. SubSpec => []PathIsFaithful
  BY PathTheorem, ComponentsTheorem, PTL
<1>5. SubSpec => []GearAgreesAtRest
  BY GearTheorem, ComponentsTheorem, PTL
<1>6. SubSpec => []OrphanNeedsOverlap
  BY OrphanTheorem, ComponentsTheorem, PTL
<1>7. SubSpec => []SharedZoneLeftOut
  BY ZonesTheorem, ComponentsTheorem, PTL
<1>8. SubSpec => []TokenSurvives
  BY TokenSurvivesTheorem, ComponentsTheorem, PTL
<1>9. SubSpec => []CommandsRunOnce
  BY RunOnceTheorem, ComponentsTheorem, PTL
<1>10. SubSpec => []OrphanSessionExplained
  BY SessionTheorem, ComponentsTheorem, PTL
<1>11. SubSpec => []EverySnapshotAccounted
  BY AccountingTheorem, ComponentsTheorem, PTL
<1>12. SubSpec => []NoStaleLights
  BY LightsTheorem, ComponentsTheorem, PTL
<1>13. SubSpec => []MenuWorks
  BY MenuTheorem, ComponentsTheorem, PTL
<1>14. SubSpec => []LostOnlyAfterItsWriteFailed
  BY LostTheorem, ComponentsTheorem, PTL
<1>15. SubSpec => []DockedSawMarker
  BY DockTheorem, ComponentsTheorem, PTL
<1>16. SubSpec => []BreachIsTrue
  BY BreachTheorem, ComponentsTheorem, PTL
<1>17. SubSpec => []GapOnlyAtFarEdge
  BY PlanTheorem, ComponentsTheorem, PTL
<1>18. SubSpec => []StopsAndFaultsAreTold
  BY ToldTheorem, ComponentsTheorem, PTL
<1>19. SubSpec => []GivesUpOnlyWithoutNetwork
  BY NetworksTheorem, ComponentsTheorem, PTL
<1>20. SubSpec => ImplementsLossyStore
  BY RefinementTheorem, ComponentsTheorem
<1>21. /\ RelaysAgree /\ ExitCutsRelays /\ MovingHasDeadline /\ PathIsFaithful
       /\ GearAgreesAtRest /\ OrphanNeedsOverlap /\ SharedZoneLeftOut /\ TokenSurvives
       /\ CommandsRunOnce /\ OrphanSessionExplained /\ EverySnapshotAccounted
       /\ NoStaleLights /\ MenuWorks /\ LostOnlyAfterItsWriteFailed /\ DockedSawMarker
       /\ BreachIsTrue /\ GapOnlyAtFarEdge /\ StopsAndFaultsAreTold
       /\ GivesUpOnlyWithoutNetwork
       => SubsystemsSafe
  BY DEF SubsystemsSafe
<1>. QED BY <1>1, <1>2, <1>3, <1>4, <1>5, <1>6, <1>7, <1>8, <1>9, <1>10, <1>11, <1>12,
         <1>13, <1>14, <1>15, <1>16, <1>17, <1>18, <1>19, <1>20, <1>21, PTL
=============================================================================
