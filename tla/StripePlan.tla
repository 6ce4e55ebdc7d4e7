----------------------------- MODULE StripePlan -----------------------------
(***************************************************************************)
(* navigation/path_planner.py: parallel stripes over the bounding box of   *)
(* the boundary, turned so that they run along y.  Lengths are multiples   *)
(* of one unit, the deck is 2 * halfDeck wide and the spacing is what the  *)
(* overlap leaves of it, half a deck (50 %) to a whole one (0 %); the      *)
(* rotation and the conversion to coordinates keep distances.              *)
(***************************************************************************)
EXTENDS Naturals, Sequences

CONSTANTS
  MaxHalfDeck,             \* bound of a run
  MaxBoxWidth              \* bound of a run: width of the box

ASSUME PlanAssumption == MaxHalfDeck \in Nat /\ MaxBoxWidth \in Nat

VARIABLES
  boxWidth,                \* max_x - min_x
  halfDeck,                \* _deck_width_m / 2
  spacing,                 \* stripe_spacing_m
  nextX,                   \* x, from min_x
  waypoints,               \* x of the waypoint, at which end and is_turn
  planning                 \* "idle", "laying", "done"

planVars == <<boxWidth, halfDeck, spacing, nextX, waypoints, planning>>

Waypoint == [x : 0..MaxBoxWidth, end : {"low", "high"}, isTurn : BOOLEAN]

PlanTypeOK ==
  /\ boxWidth \in 0..MaxBoxWidth /\ halfDeck \in 1..MaxHalfDeck
  /\ spacing \in halfDeck..(2 * halfDeck)
  /\ nextX \in Nat
  /\ waypoints \in Seq(Waypoint)
  /\ planning \in {"idle", "laying", "done"}

PlanInit ==
  /\ boxWidth = 0 /\ halfDeck \in 1..MaxHalfDeck /\ spacing = halfDeck
  /\ nextX = 0 /\ waypoints = <<>> /\ planning = "idle"

\* Mutant of FirstStripe: the first stripe is a whole deck from the edge.
FirstStripeAtDeck == 2 * halfDeck

FirstStripe == halfDeck

\* generate_plan: the overlap is in its range, or it raises.
PlanBegins ==
  /\ planning \in {"idle", "done"}
  /\ boxWidth' \in 1..MaxBoxWidth
  /\ spacing' \in halfDeck..(2 * halfDeck)
  /\ nextX' = FirstStripe
  /\ waypoints' = <<>> /\ planning' = "laying"
  /\ UNCHANGED halfDeck

\* One turn of the loop: two waypoints, from the low end to the high one and the
\* next time back.
LayStripe ==
  LET upwards == (Len(waypoints) \div 2) % 2 = 0
      from == IF upwards THEN "low" ELSE "high"
      to == IF upwards THEN "high" ELSE "low" IN
  /\ planning = "laying" /\ nextX <= boxWidth
  /\ waypoints' = waypoints \o <<[x |-> nextX, end |-> from, isTurn |-> FALSE],
                                 [x |-> nextX, end |-> to, isTurn |-> TRUE]>>
  /\ nextX' = nextX + spacing
  /\ UNCHANGED <<boxWidth, halfDeck, spacing, planning>>

PlanEnds ==
  /\ planning = "laying" /\ nextX > boxWidth
  /\ planning' = "done"
  /\ UNCHANGED <<boxWidth, halfDeck, spacing, nextX, waypoints>>

PlanNext == PlanBegins \/ LayStripe \/ PlanEnds

PlanSpec == PlanInit /\ [][PlanNext]_planVars

-----------------------------------------------------------------------------
\* The unit from u to u + 1 is under the deck on some stripe.
Mowed(u) ==
  \E i \in DOMAIN waypoints :
    /\ waypoints[i].x <= u + halfDeck
    /\ u + 1 <= waypoints[i].x + halfDeck

(***************************************************************************)
(* A plan leaves no gap between its stripes: what it does not mow is less  *)
(* than half a deck at the far edge of the box, with any allowed overlap   *)
(* and any width, and no turn drives along the box without mowing.         *)
(***************************************************************************)
GapOnlyAtFarEdge ==
  planning = "done" =>
    /\ \A u \in 0..(boxWidth - 1) : u + halfDeck < boxWidth => Mowed(u)
    /\ \A i \in 1..(Len(waypoints) - 1) :
         waypoints[i].isTurn => waypoints[i + 1].end = waypoints[i].end
=============================================================================
