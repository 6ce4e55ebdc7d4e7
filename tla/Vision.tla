------------------------------- MODULE Vision -------------------------------
(***************************************************************************)
(* The cameras and the docking that depends on them: hardware/cameras.py,  *)
(* the vision node of a split unit (vision/node.py) with its client        *)
(* (hardware/remote_camera.py), and autonomy/return_home.py.  A frame is   *)
(* the fact that it was taken and whether the home marker is in it; a      *)
(* detection takes time, so the marker, the peer and the deadline of the   *)
(* search may change while it is under way.                                *)
(***************************************************************************)
EXTENDS ComputeTopology

VARIABLES
  profile,                 \* _compute
  camKind,                 \* class and mode of _cameras: "sim", "local", "remote"
  rearOpen,                \* the rear camera is open, here or at the vision node
  nodeUp,                  \* the vision node answers
  homeSet,                 \* the configuration has a home position
  markerInView,            \* the home marker is before the rear camera
  docking,                 \* ReturnHome._state
  searchLate,              \* the deadline of the search has passed
  look,                    \* detect_aruco: "none", "asked", "seen", "missed"
  sawMarker                \* a real frame of this attempt showed the marker (history)

visionVars == <<profile, camKind, rearOpen, nodeUp, homeSet, markerInView, docking,
                searchLate, look, sawMarker>>

Docked == {"IDLE", "DOCKED", "FAILED"}      \* execute() is not running
ReturnStates == Docked \cup {"NAVIGATING_TO_HOME", "SEARCHING_MARKER", "ALIGNING", "DOCKING"}

VisionTypeOK ==
  /\ profile \in Profiles /\ Boots(profile)
  /\ camKind \in {"sim", "local", "remote"}
  /\ \A b \in {rearOpen, nodeUp, homeSet, markerInView, searchLate, sawMarker} : b \in BOOLEAN
  /\ docking \in ReturnStates
  /\ look \in {"none", "asked", "seen", "missed"}

-----------------------------------------------------------------------------
\* _build_cameras: local cameras are simulated when the configuration declares
\* none, the Pico is, cv2 is missing or none opens; a role that is nowhere is
\* simulated; a peer is asked, up or not.
CameraKinds(p) ==
  CASE LocationOf(p, "vision") = "local" -> {"local", "sim"}
    [] LocationOf(p, "vision") = "peer" -> {"remote"}
    [] OTHER -> {"sim"}

VisionInit ==
  /\ profile \in Profiles /\ Boots(profile)
  /\ camKind \in CameraKinds(profile)
  /\ rearOpen \in BOOLEAN /\ (camKind = "sim" => ~rearOpen)
  /\ nodeUp = (camKind = "remote")
  /\ homeSet \in BOOLEAN
  /\ markerInView = FALSE
  /\ docking = "IDLE" /\ searchLate = FALSE /\ look = "none" /\ sawMarker = FALSE

equipment == <<profile, camKind, rearOpen, homeSet>>

-----------------------------------------------------------------------------
\* The dock, the mower and the vision node.
MarkerMoves ==
  /\ markerInView' = ~markerInView
  /\ UNCHANGED <<equipment, nodeUp, docking, searchLate, look, sawMarker>>

NodeStopsOrStarts ==
  /\ camKind = "remote"
  /\ nodeUp' = ~nodeUp
  /\ UNCHANGED <<equipment, markerInView, docking, searchLate, look, sawMarker>>

-----------------------------------------------------------------------------
\* execute(): nothing is kept of an earlier attempt.
ReturnBegins ==
  /\ docking \in Docked
  /\ docking' = IF homeSet THEN "NAVIGATING_TO_HOME" ELSE "FAILED"
  /\ sawMarker' = FALSE
  /\ UNCHANGED <<equipment, nodeUp, markerInView, searchLate, look>>

\* _navigate_to_home is a stub that arrives.
ReturnArrives ==
  /\ docking = "NAVIGATING_TO_HOME"
  /\ docking' = "SEARCHING_MARKER" /\ searchLate' = FALSE
  /\ UNCHANGED <<equipment, nodeUp, markerInView, look, sawMarker>>

SearchTimesOut ==
  /\ docking = "SEARCHING_MARKER" /\ ~searchLate
  /\ searchLate' = TRUE
  /\ UNCHANGED <<equipment, nodeUp, markerInView, docking, look, sawMarker>>

LookBegins ==
  /\ docking = "SEARCHING_MARKER" /\ look = "none" /\ ~searchLate
  /\ look' = "asked"
  /\ UNCHANGED <<equipment, nodeUp, markerInView, docking, searchLate, sawMarker>>

\* Mutant of Detects: the frame of a simulated camera counts.
DetectsInSim == markerInView /\ (rearOpen \/ camKind = "sim")

\* capture() and the detector: an open camera, and the marker in its frame.
Detects == markerInView /\ rearOpen

\* The answer of the camera, here or at the vision node; a failed read, an
\* error of the detector, a node that is down and a lost answer are no answer.
LookTakes ==
  /\ look = "asked"
  /\ \/ look' = "missed"
     \/ Detects /\ (camKind = "remote" => nodeUp) /\ look' = "seen"
  /\ sawMarker' = (sawMarker \/ (markerInView /\ rearOpen /\ (camKind = "remote" => nodeUp)))
  /\ UNCHANGED <<equipment, nodeUp, markerInView, docking, searchLate>>

\* A detection ends the search even after the deadline; the mower aligns.
LookReturns ==
  /\ look \in {"seen", "missed"}
  /\ look' = "none"
  /\ docking' = IF look = "seen" THEN "ALIGNING" ELSE docking
  /\ UNCHANGED <<equipment, nodeUp, markerInView, searchLate, sawMarker>>

SearchFails ==
  /\ docking = "SEARCHING_MARKER" /\ look = "none" /\ searchLate
  /\ docking' = "FAILED"
  /\ UNCHANGED <<equipment, nodeUp, markerInView, searchLate, look, sawMarker>>

\* Alignment and the final approach are stubs that wait.
DockApproach ==
  /\ docking \in {"ALIGNING", "DOCKING"}
  /\ docking' = IF docking = "ALIGNING" THEN "DOCKING" ELSE "DOCKED"
  /\ UNCHANGED <<equipment, nodeUp, markerInView, searchLate, look, sawMarker>>

ReturnStep ==
  ReturnArrives \/ LookBegins \/ LookTakes \/ LookReturns \/ SearchFails \/ DockApproach

VisionNext ==
  MarkerMoves \/ NodeStopsOrStarts \/ ReturnBegins \/ SearchTimesOut \/ ReturnStep

VisionSpec == VisionInit /\ [][VisionNext]_visionVars

-----------------------------------------------------------------------------
(***************************************************************************)
(* A unit that says it is docked has seen the home marker in a real frame  *)
(* of this attempt, wherever its cameras are: a simulated camera, a closed *)
(* rear camera, a vision node that went away and the answer of an earlier  *)
(* attempt never dock it.                                                  *)
(***************************************************************************)
DockedSawMarker == docking \in {"ALIGNING", "DOCKING", "DOCKED"} => sawMarker
=============================================================================
