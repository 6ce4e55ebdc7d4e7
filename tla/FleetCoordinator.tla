-------------------------- MODULE FleetCoordinator --------------------------
(***************************************************************************)
(* fleet/coordinator.py over fleet/unit_registry.py and the partition of   *)
(* fleet/zone_partitioner.py: assign_zones() reads the units that may mow, *)
(* then hands one strip to each, while units report and go stale.  A strip *)
(* whose clipped polygon is empty is left out of the partition; which ones *)
(* are is the geometry's choice.  The table of zones is never emptied.     *)
(***************************************************************************)
EXTENDS Naturals, SequencesExt

CONSTANTS
  NumUnits,                \* units registered, in the manifest's order
  NoZone, NoUnit

Units == 1..NumUnits
Zones == 0..(NumUnits - 1)           \* "zone_i"

ASSUME FleetAssumption ==
  NumUnits \in Nat \ {0} /\ NoZone \notin Zones /\ NoUnit \notin Units

VARIABLES
  ready,                   \* units that are not OFFLINE, FAULT or ESTOP
  unitZone,                \* UnitState.zone_id
  zoneUnit,                \* _zones: the unit of each zone in the table
  toAssign,                \* what is left of zip(eligible, zones)
  zoned                    \* history: units that have the zone the last
                           \* assignment gave them

fleetVars == <<ready, unitZone, zoneUnit, toAssign, zoned>>

FleetTypeOK ==
  /\ ready \in SUBSET Units
  /\ unitZone \in [Units -> Zones \cup {NoZone}]
  /\ zoneUnit \in [Zones -> Units \cup {NoUnit}]
  /\ toAssign \in Seq(Units \X Zones)
  /\ zoned \in SUBSET Units

\* from_manifest: every unit registered, and OFFLINE until it reports.
FleetInit ==
  /\ ready = {}
  /\ unitZone = [u \in Units |-> NoZone]
  /\ zoneUnit = [z \in Zones |-> NoUnit]
  /\ toAssign = <<>> /\ zoned = {}

\* update() with a status, a zone or both: whatever zone the unit names is taken,
\* also an old one that crosses the assignment of another.
UnitChanges(u) ==
  /\ ready' \in {ready, ready \cup {u}, ready \ {u}}
  /\ \E z \in Zones \cup {unitZone[u]} :
       /\ unitZone' = [unitZone EXCEPT ![u] = z]
       /\ zoned' = IF z = unitZone[u] THEN zoned ELSE zoned \ {u}
  /\ UNCHANGED <<zoneUnit, toAssign>>

\* _poll_loop: mark_stale_units_offline() takes every unit that has not reported
\* for long, under the lock; zones are not touched.
StaleGoOffline(stale) ==
  /\ stale # {} /\ ready' = ready \ stale
  /\ UNCHANGED <<unitZone, zoneUnit, toAssign, zoned>>

\* A set of numbers as a sequence, in order: a set with the one such sequence.
InAscending(S) ==
  {s \in [1..Cardinality(S) -> S] : \A i, j \in DOMAIN s : i < j => s[i] < s[j]}

\* partition(n): n strips less the empty ones, left to right; one unit has it all.
Partitions(n) ==
  IF n = 1 THEN {<<0>>} ELSE UNION {InAscending(S) : S \in SUBSET (0..(n - 1))}

\* zip() stops with the shorter of the two.
Zipped(units, zones) ==
  [i \in 1..(IF Len(units) < Len(zones) THEN Len(units) ELSE Len(zones)) |->
     <<units[i], zones[i]>>]

AssignZones ==
  /\ toAssign = <<>> /\ ready # {}
  /\ \E units \in InAscending(ready), zones \in Partitions(Cardinality(ready)) :
       toAssign' = Zipped(units, zones)
  /\ zoned' = {}
  /\ UNCHANGED <<ready, unitZone, zoneUnit>>

\* Mutant of AssignNext: a unit keeps the zone it has.
AssignIfNone ==
  /\ toAssign # <<>> /\ toAssign' = Tail(toAssign)
  /\ LET u == Head(toAssign)[1]  z == Head(toAssign)[2] IN
       /\ zoneUnit' = [zoneUnit EXCEPT ![z] = u]
       /\ unitZone' = IF unitZone[u] = NoZone
                      THEN [unitZone EXCEPT ![u] = z] ELSE unitZone
       /\ zoned' = zoned \cup {u}
  /\ UNCHANGED ready

\* The status of the unit is not looked at again.
AssignNext ==
  /\ toAssign # <<>> /\ toAssign' = Tail(toAssign)
  /\ LET u == Head(toAssign)[1]  z == Head(toAssign)[2] IN
       /\ zoneUnit' = [zoneUnit EXCEPT ![z] = u]
       /\ unitZone' = [unitZone EXCEPT ![u] = z]
       /\ zoned' = zoned \cup {u}
  /\ UNCHANGED ready

FleetNext ==
  \/ AssignZones \/ AssignNext
  \/ \E u \in Units : UnitChanges(u)
  \/ \E stale \in SUBSET ready : StaleGoOffline(stale)

FleetSpec == FleetInit /\ [][FleetNext]_fleetVars

-----------------------------------------------------------------------------
\* Once assign_zones() is done two units hold the same zone only if one of them
\* has it from elsewhere: it had no part in the assignment (it was not ready, or a
\* strip was empty) and kept the zone of an earlier partition (coordinator.py:112),
\* or it has itself reported a zone since (unit_registry.py:116).  And the table
\* names, for the zone of each other unit, that unit.
SharedZoneLeftOut ==
  toAssign = <<>> =>
    /\ \A u, v \in Units :
         u # v /\ unitZone[u] = unitZone[v] /\ unitZone[u] # NoZone =>
           ~({u, v} \subseteq zoned)
    /\ \A u \in zoned : zoneUnit[unitZone[u]] = u
=============================================================================
