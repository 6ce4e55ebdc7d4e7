---------------------------- MODULE PicoFirmware ----------------------------
(***************************************************************************)
(* pico/firmware/main.py and the relay outputs of actuator_drive.py: what  *)
(* the Pico does with each line the Pi sends it, and its own watchdog.     *)
(* Lines arrive in the order they were written; one may arrive damaged.    *)
(***************************************************************************)
EXTENDS Sequences

Relays == {"ignition", "starter", "pto"}

VARIABLES
  wire,                    \* lines written by the Pi and not yet dispatched
  fwRelays,                \* the relay outputs that are energised
  fwTripped,               \* _watchdog_tripped
  fwStale                  \* over WATCHDOG_TIMEOUT_MS since the last heartbeat

fwVars == <<wire, fwRelays, fwTripped, fwStale>>

Message == [kind : {"heartbeat", "estop"}] \cup
           [kind : {"relay"}, relay : Relays, active : BOOLEAN]

Heartbeat == [kind |-> "heartbeat"]
EStopCommand == [kind |-> "estop"]
SetRelay(r, on) == [kind |-> "relay", relay |-> r, active |-> on]

FwTypeOK ==
  /\ wire \in Seq(Message)
  /\ fwRelays \in SUBSET Relays
  /\ fwTripped \in BOOLEAN /\ fwStale \in BOOLEAN

\* main(): outputs off, the time of the last heartbeat set to now.
FwInit == wire = <<>> /\ fwRelays = {} /\ fwTripped = FALSE /\ fwStale = FALSE

\* The outputs after a message: set_relay_*() or emergency_stop().
Outputs(relays, m) ==
  CASE m.kind = "heartbeat" -> relays
    [] m.kind = "estop"     -> {}
    [] m.kind = "relay"     -> IF m.active THEN relays \cup {m.relay}
                                           ELSE relays \ {m.relay}

\* _uart_receive_loop and _dispatch_command; a command acts whether or not the
\* watchdog has tripped, a heartbeat ends the trip and restores nothing.
FwReceive ==
  /\ wire # <<>>
  /\ wire' = Tail(wire)
  /\ fwRelays' = Outputs(fwRelays, Head(wire))
  /\ IF Head(wire).kind = "heartbeat"
     THEN fwTripped' = FALSE /\ fwStale' = FALSE
     ELSE UNCHANGED <<fwTripped, fwStale>>

\* PARSE_ERROR or CMD_ERROR: the line has no effect.
FwDamaged ==
  /\ wire # <<>>
  /\ wire' = Tail(wire)
  /\ UNCHANGED <<fwRelays, fwTripped, fwStale>>

\* 600 ms without a heartbeat; whatever was on the wire has long arrived.
FwGoesStale ==
  /\ wire = <<>> /\ ~fwStale
  /\ fwStale' = TRUE
  /\ UNCHANGED <<wire, fwRelays, fwTripped>>

\* Mutant of FwCheckWatchdog: the fault is reported, nothing is cut.
FwCheckReports ==
  /\ ~fwTripped /\ fwStale
  /\ fwTripped' = TRUE
  /\ UNCHANGED <<wire, fwRelays, fwStale>>

\* _check_watchdog and _emergency_stop, once until the next heartbeat.  The
\* check comes last in the sensor loop: a round in which a sensor read raises
\* does not reach it.
FwCheckWatchdog ==
  /\ ~fwTripped /\ fwStale
  /\ fwTripped' = TRUE
  /\ fwRelays' = {}
  /\ UNCHANGED <<wire, fwStale>>
=============================================================================
