-------------------------- MODULE MeshtasticBeacon --------------------------
(***************************************************************************)
(* connectivity/meshtastic_beacon.py: the beacon thread, and the commands  *)
(* received by radio, which set the event it waits for.  A beacon is       *)
(* composed from the providers, then transmitted.  (main.py does not       *)
(* construct one.)                                                         *)
(***************************************************************************)

VARIABLES
  beaconAt,                \* the thread: "off", "compose", "transmit", "wait",
                           \* "clear", "dead" or "ended"
  forced,                  \* _force_beacon
  unanswered,              \* history: a request after the last composition
  answering,               \* history: the beacon on its way answers a request
  beaconRunning            \* _running

beaconVars == <<beaconAt, forced, unanswered, answering, beaconRunning>>

BeaconTypeOK ==
  /\ beaconAt \in {"off", "compose", "transmit", "wait", "clear", "dead", "ended"}
  /\ forced \in BOOLEAN /\ unanswered \in BOOLEAN /\ answering \in BOOLEAN
  /\ beaconRunning \in BOOLEAN

BeaconInit ==
  /\ beaconAt = "off" /\ forced = FALSE /\ unanswered = FALSE
  /\ answering = FALSE /\ beaconRunning = FALSE

\* start(): with the radio, or logging only.
BeaconStart ==
  /\ beaconAt = "off" /\ beaconAt' = "compose" /\ beaconRunning' = TRUE
  /\ UNCHANGED <<forced, unanswered, answering>>

\* request_beacon(), and _on_receive() of KILL or WHERE for this unit after its
\* callback; STATUS is answered from the receiving thread itself.
BeaconRequested ==
  /\ beaconRunning
  /\ forced' = TRUE /\ unanswered' = TRUE
  /\ UNCHANGED <<beaconAt, answering, beaconRunning>>

\* A position or battery provider that raises ends the thread: only the
\* transmission is inside a try (meshtastic_beacon.py:180).
BeaconComposes ==
  /\ beaconAt = "compose"
  /\ IF beaconRunning
     THEN \/ /\ beaconAt' = "transmit"
             /\ unanswered' = FALSE /\ answering' = unanswered
          \/ beaconAt' = "dead" /\ UNCHANGED <<unanswered, answering>>
     ELSE beaconAt' = "ended" /\ UNCHANGED <<unanswered, answering>>
  /\ UNCHANGED <<forced, beaconRunning>>

\* cellular_quality(), which sets the interval, ends the thread as well if it raises.
BeaconTransmits ==
  /\ beaconAt = "transmit" /\ beaconAt' \in {"wait", "dead"}
  /\ answering' = FALSE
  /\ UNCHANGED <<forced, unanswered, beaconRunning>>

\* The event, or the interval (45 or 90 s), which requests must not wait for.
BeaconWakes ==
  /\ beaconAt = "wait" /\ beaconAt' = "clear"
  /\ UNCHANGED <<forced, unanswered, answering, beaconRunning>>

\* A request that comes between the wait and the clear is cleared unseen, and
\* answered all the same: the loop composes next.
BeaconClears ==
  /\ beaconAt = "clear" /\ beaconAt' = "compose"
  /\ forced' = FALSE
  /\ UNCHANGED <<unanswered, answering, beaconRunning>>

\* stop(): the event wakes the thread.
BeaconStop ==
  /\ beaconRunning /\ beaconRunning' = FALSE
  /\ forced' = TRUE
  /\ UNCHANGED <<beaconAt, unanswered, answering>>

BeaconThread == BeaconComposes \/ BeaconTransmits \/ BeaconClears

BeaconNext ==
  \/ BeaconStart \/ BeaconRequested \/ BeaconStop \/ BeaconThread \/ BeaconWakes

BeaconSpec == BeaconInit /\ [][BeaconNext]_beaconVars

-----------------------------------------------------------------------------
\* A request is never left waiting for the interval: while one has no beacon
\* composed after it, the event is set or the thread is on its way to compose.
RequestIsSeen ==
  unanswered => forced \/ beaconAt \in {"off", "compose", "dead", "ended"}
=============================================================================
