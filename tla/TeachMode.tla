----------------------------- MODULE TeachMode -----------------------------
(***************************************************************************)
(* autonomy/teach_mode.py: one teach session.  The capture thread and the  *)
(* teach.waypoint command add waypoints, the push thread sends batches,    *)
(* end() gives each thread two seconds and sends the rest with the         *)
(* finalising call.  A push is received, lost, or received with its answer *)
(* lost, which makes the session send it again.                            *)
(***************************************************************************)
EXTENDS Naturals, SequencesExt

CONSTANT MaxWaypoints      \* TEACH_WAYPOINT_BUFFER_MAX

ASSUME TeachAssumption == MaxWaypoints \in Nat

VARIABLES
  captured,                \* length of _buffer; the waypoints are 1..captured
  unpushed,                \* _unpushed
  teachBatch,              \* the batch in the push thread's hands
  teachAt,                 \* TeachManager._session, and where end() is
  lastBatch,               \* the batch end() has taken
  received,                \* the waypoints the server has, in order of arrival
  saved,                   \* the result of end(): "saved"
  gaveUp                   \* history: end() left the push thread with a batch

teachVars == <<captured, unpushed, teachBatch, teachAt, lastBatch, received, saved,
               gaveUp>>

Waypoints == 1..MaxWaypoints

TeachTypeOK ==
  /\ captured \in 0..MaxWaypoints
  /\ unpushed \in Seq(Waypoints) /\ teachBatch \in Seq(Waypoints)
  /\ teachAt \in {"none", "open", "joining", "taken", "ended"}
  /\ lastBatch \in Seq(Waypoints) /\ received \in Seq(Waypoints)
  /\ saved \in BOOLEAN /\ gaveUp \in BOOLEAN

TeachInit ==
  /\ captured = 0 /\ unpushed = <<>> /\ teachBatch = <<>> /\ teachAt = "none"
  /\ lastBatch = <<>> /\ received = <<>> /\ saved = FALSE /\ gaveUp = FALSE

TeachStart ==
  /\ teachAt = "none" /\ teachAt' = "open"
  /\ UNCHANGED <<captured, unpushed, teachBatch, lastBatch, received, saved, gaveUp>>

\* _add_waypoint, for either of its callers; at the bound it drops the new one.
AddWaypoint ==
  /\ teachAt = "open" /\ captured < MaxWaypoints
  /\ captured' = captured + 1
  /\ unpushed' = Append(unpushed, captured + 1)
  /\ UNCHANGED <<teachBatch, teachAt, lastBatch, received, saved, gaveUp>>

-----------------------------------------------------------------------------
(* _push_loop(): a thread asleep when the session ends flushes once more.  *)

FlushBatch ==
  /\ teachBatch = <<>> /\ unpushed # <<>>
  /\ teachBatch' = unpushed /\ unpushed' = <<>>
  /\ UNCHANGED <<captured, teachAt, lastBatch, received, saved, gaveUp>>

PushAccepted ==
  /\ teachBatch # <<>> /\ teachBatch' = <<>>
  /\ received' = received \o teachBatch
  /\ UNCHANGED <<captured, unpushed, teachAt, lastBatch, saved, gaveUp>>

\* Mutant of Requeued: the batch goes to the tail.
RequeuedAtTail == unpushed \o teachBatch

Requeued == teachBatch \o unpushed

PushRefused(arrived) ==
  /\ teachBatch # <<>> /\ teachBatch' = <<>>
  /\ received' = IF arrived THEN received \o teachBatch ELSE received
  /\ unpushed' = Requeued
  /\ UNCHANGED <<captured, teachAt, lastBatch, saved, gaveUp>>

-----------------------------------------------------------------------------
(* end()                                                                   *)

EndBegins ==
  /\ teachAt = "open" /\ teachAt' = "joining"
  /\ UNCHANGED <<captured, unpushed, teachBatch, lastBatch, received, saved, gaveUp>>

\* join(timeout=2.0) returns whether or not the push thread is done.
EndTakes ==
  /\ teachAt = "joining" /\ teachAt' = "taken"
  /\ lastBatch' = unpushed /\ unpushed' = <<>>
  /\ gaveUp' = (teachBatch # <<>>)
  /\ UNCHANGED <<captured, teachBatch, received, saved>>

\* The finalising push, not repeated when it fails.
EndSaves(arrived, answered) ==
  /\ teachAt = "taken" /\ teachAt' = "ended"
  /\ answered => arrived
  /\ received' = IF arrived THEN received \o lastBatch ELSE received
  /\ saved' = answered
  /\ UNCHANGED <<captured, unpushed, teachBatch, lastBatch, gaveUp>>

EndDiscards ==
  /\ teachAt = "taken" /\ teachAt' = "ended"
  /\ UNCHANGED <<captured, unpushed, teachBatch, lastBatch, received, saved, gaveUp>>

\* A refused batch may be refused any number of times; the bound on received
\* keeps the duplicates finite.
ReceivedBound == Len(received) <= 2 * MaxWaypoints

TeachNext ==
  \/ TeachStart \/ AddWaypoint
  \/ ReceivedBound /\ (FlushBatch \/ PushAccepted)
  \/ ReceivedBound /\ \E arrived \in BOOLEAN : PushRefused(arrived)
  \/ EndBegins \/ EndTakes \/ EndDiscards
  \/ \E arrived, answered \in BOOLEAN : EndSaves(arrived, answered)

TeachSpec == TeachInit /\ [][TeachNext]_teachVars

-----------------------------------------------------------------------------
InOrder(s) ==
  \A i, j \in 1..Len(s) : i < j /\ s[i] > s[j] => \E k \in 1..(i - 1) : s[k] = s[j]

\* The server has the path as it was driven: a waypoint that comes after a later
\* one has come before, and once the zone is reported as saved none is missing;
\* unless end() gave the push thread up with a batch in its hands
\* (teach_mode.py:103).
PathIsFaithful ==
  ~gaveUp => InOrder(received) /\ (saved => Range(received) = 1..captured)
=============================================================================
