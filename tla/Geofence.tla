------------------------------ MODULE Geofence ------------------------------
(***************************************************************************)
(* navigation/boundary.py: the polygon of the property, the even-odd ray   *)
(* casting over it and the fault a check reports and clears.  Coordinates  *)
(* are points of a grid, a pair of latitude and longitude; the quotient of *)
(* the ray casting is compared exactly, so a point on an edge, where the   *)
(* code's floating point decides, is left open by the property.            *)
(***************************************************************************)
EXTENDS Integers, Sequences, FiniteSets, SequencesExt

CONSTANTS
  Grid,                    \* bound of a run: coordinates of a point
  Starts,                  \* bound of a run: first corners of a quadrilateral
  Reloads                  \* bound of a run: lists that may replace a boundary

Points == (0..Grid) \X (0..Grid)

ASSUME GridAssumption == Grid \in Nat /\ Starts \subseteq Points

VARIABLES
  fence,                   \* _boundary, closed
  fenceAt,                 \* the position of the last check, or <<>>
  fenceAnswer,             \* what check_and_report returned
  breach                   \* BOUNDARY_BREACH is active in the fault manager

fenceVars == <<fence, fenceAt, fenceAnswer, breach>>

-----------------------------------------------------------------------------
\* The side of the line from a to b that c is on: positive, negative or on it.
Side(a, b, c) == (b[1] - a[1]) * (c[2] - a[2]) - (b[2] - a[2]) * (c[1] - a[1])

\* Triangles of every shape and order, degenerate ones too.
Triangles == {t \in [1..3 -> Points] : Cardinality({t[i] : i \in 1..3}) = 3}

\* Quadrilaterals whose diagonal from the first to the third corner is inside:
\* convex ones and ones with a notch there.
Quadrilaterals ==
  {<<s, a, b, c>> : s \in Starts, a, b, c \in Points} \cap
  {q \in [1..4 -> Points] : Side(q[1], q[3], q[2]) * Side(q[1], q[3], q[4]) < 0}

\* A line walked to and fro, whose three points load_from_coords accepts.
LinesToAndFro == {<<a, b, a>> : a, b \in {<<0, 0>>, <<Grid, Grid>>}}

\* What may be given to load_from_coords.
CoordLists == Triangles \cup Quadrilaterals \cup LinesToAndFro

FenceTypeOK ==
  /\ fence = <<>> \/ fence \in {Append(c, c[1]) : c \in CoordLists} \cup CoordLists
  /\ fenceAt \in Points \cup {<<>>}
  /\ fenceAnswer \in BOOLEAN /\ breach \in BOOLEAN

-----------------------------------------------------------------------------
\* load_from_coords closes the polygon unless it is closed.
Closed(coords) == IF coords[1] = Last(coords) THEN coords ELSE Append(coords, coords[1])

IsDefined == Len(fence) >= 4

\* Mutant of Crosses: both ends are compared with <=, so a ray through a corner
\* counts twice or not at all.
CrossesEither(a, b, p) ==
  LET d == a[2] - b[2]
      left == (p[1] - a[1]) * d < (a[1] - b[1]) * (p[2] - a[2])
      right == (p[1] - a[1]) * d > (a[1] - b[1]) * (p[2] - a[2]) IN
  \/ a[2] >= p[2] /\ b[2] <= p[2] /\ d > 0 /\ left
  \/ b[2] >= p[2] /\ a[2] <= p[2] /\ d < 0 /\ right

\* The ray from p crosses the edge between a and b.
Crosses(a, b, p) ==
  LET d == a[2] - b[2]
      left == (p[1] - a[1]) * d < (a[1] - b[1]) * (p[2] - a[2])
      right == (p[1] - a[1]) * d > (a[1] - b[1]) * (p[2] - a[2]) IN
  /\ (a[2] > p[2]) # (b[2] > p[2])
  /\ IF d > 0 THEN left ELSE right

\* _ray_cast: edge i goes from the previous point of the list, the first one
\* from the last.
RayCast(p) ==
  LET Before(i) == IF i = 1 THEN Len(fence) ELSE i - 1
      crossed == {i \in 1..Len(fence) : Crosses(fence[i], fence[Before(i)], p)} IN
  Cardinality(crossed) % 2 = 1

IsInside(p) == IsDefined => RayCast(p)

FenceInit == fence = <<>> /\ fenceAt = <<>> /\ fenceAnswer = TRUE /\ breach = FALSE

\* load_from_coords.
FenceLoads ==
  /\ \E coords \in CoordLists :
       /\ fence = <<>> \/ coords \in Reloads
       /\ fence' = Closed(coords)
  /\ fenceAt' = <<>>
  /\ UNCHANGED <<fenceAnswer, breach>>

\* check_and_report.
CheckAndReport ==
  /\ \E p \in Points :
       /\ fenceAt' = p
       /\ fenceAnswer' = IsInside(p)
       /\ breach' = ~IsInside(p)
  /\ UNCHANGED fence

FenceNext == FenceLoads \/ CheckAndReport

FenceSpec == FenceInit /\ [][FenceNext]_fenceVars

-----------------------------------------------------------------------------
\* Reference: triangles by the sides of their edges, and a quadrilateral as the
\* two triangles its diagonal cuts it in.
InTriangle(a, b, c, p) ==
  \/ Side(a, b, p) > 0 /\ Side(b, c, p) > 0 /\ Side(c, a, p) > 0
  \/ Side(a, b, p) < 0 /\ Side(b, c, p) < 0 /\ Side(c, a, p) < 0

Between(x, y, z) == (x <= y /\ y <= z) \/ (z <= y /\ y <= x)
OnEdge(a, b, p) == Side(a, b, p) = 0 /\ Between(a[1], p[1], b[1]) /\ Between(a[2], p[2], b[2])
OnFence(p) == \E i \in 1..(Len(fence) - 1) : OnEdge(fence[i], fence[i + 1], p)

StrictlyInside(p) ==
  ~OnFence(p) /\ IF Len(fence) = 4 THEN InTriangle(fence[1], fence[2], fence[3], p)
                 ELSE \/ InTriangle(fence[1], fence[2], fence[3], p)
                      \/ InTriangle(fence[1], fence[3], fence[4], p)
                      \/ OnEdge(fence[1], fence[3], p)

(***************************************************************************)
(* After a check the breach is active exactly if the position is outside,  *)
(* whatever the order and the number of the corners and the fence loaded   *)
(* before; a boundary too short to be one lets every position pass.        *)
(* Positions on the line of the fence itself are left open.                *)
(***************************************************************************)
BreachIsTrue ==
  fenceAt # <<>> =>
    /\ breach = ~fenceAnswer
    /\ ~IsDefined => fenceAnswer
    /\ IsDefined /\ ~OnFence(fenceAt) => fenceAnswer = StrictlyInside(fenceAt)
=============================================================================
