--------------------------- MODULE SlopeInterlock ---------------------------
(***************************************************************************)
(* The runtime slope enforcement of safety/interlocks.py.  A slope reading *)
(* is kept as the band it falls in, relative to the unit's max_slope_pct:  *)
(*   "unknown"  no estimate yet (None)                                     *)
(*   "clear"    below 0.85 of the limit                                    *)
(*   "band"     from 0.85 of the limit up to the limit                     *)
(*   "over"     from the limit up to 1.5 times the limit                   *)
(*   "severe"   1.5 times the limit and above                              *)
(***************************************************************************)
EXTENDS Naturals

SlopeBands == {"unknown", "clear", "band", "over", "severe"}

SlopeLevels == 0..2        \* _slope_level: 0 clear, 1 hold, 2 estop

Desired(band) == IF band = "severe" THEN 2 ELSE 1

\* enforce_slope: the action, and the hysteresis level afterwards.
EnforceSlope(level, band, currentMode) ==
  LET quiet == \/ band \in {"unknown", "band"}
               \/ Desired(band) <= level
               \/ band = "over" /\ currentMode \notin {"AUTO", "MANUAL"}
  IN  CASE band = "clear"            -> [action |-> "NONE", level |-> 0]
        [] band # "clear" /\ quiet   -> [action |-> "NONE", level |-> level]
        [] band = "severe" /\ ~quiet -> [action |-> "ESTOP", level |-> 2]
        [] band = "over" /\ ~quiet   -> [action |-> "HOLD", level |-> 1]

\* Mutant of SlopeRefusesAuto: the limit itself is let through.
OnlySevereRefusesAuto(band) == band = "severe"

\* _check_slope: AUTO is refused on ground at or over the limit.
SlopeRefusesAuto(band) == band \in {"over", "severe"}
=============================================================================
