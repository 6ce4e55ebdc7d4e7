---------------------------- MODULE MCServerSync ----------------------------
(* TLC instance of ServerSync: the first version is within the absolute    *)
(* bounds (10..90 stands for them), the later ones are under and over      *)
(* them, each with a floor that is no number.                              *)
EXTENDS ServerSync, TLC

MCPullers == {"main", "stream"}
MCFloorMin == [name \in FloorNames |-> 10]
MCFloorMax == [name \in BoundedAbove |-> 90]
MCFloors ==
  <<[clearance |-> 50, tilt |-> 50, watchdog |-> 50, slope |-> NaN],
    [clearance |-> 5, tilt |-> NaN, watchdog |-> 5, slope |-> 5],
    [clearance |-> NaN, tilt |-> 120, watchdog |-> 120, slope |-> 120]>>
=============================================================================
