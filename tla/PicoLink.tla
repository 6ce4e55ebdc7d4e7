------------------------------ MODULE PicoLink ------------------------------
(***************************************************************************)
(* hardware/pico_bridge.py with its two writers and the firmware at the    *)
(* other end: the main thread, which switches relays one send() at a time, *)
(* and the heartbeat thread.  Both take the bridge's non-reentrant write   *)
(* lock.  SIGTERM runs shutdown() on the main thread between any two of    *)
(* its steps; the process may also be killed, and is started again five    *)
(* seconds later (scripts/install.sh), long after the firmware's timeout.  *)
(***************************************************************************)
EXTENDS PicoFirmware, Naturals, SequencesExt

CONSTANTS
  MaxWire,                 \* bound on the lines on the wire
  MaxStarts                \* bound on the processes started

ASSUME LinkAssumption == MaxWire \in Nat \ {0} /\ MaxStarts \in Nat \ {0}

VARIABLES
  mainAt,                  \* where the main thread is in its current send()
  todo,                    \* what its operation has still to send
  hbAt,                    \* where the heartbeat thread is in send()
  writeLock,               \* who holds _write_lock
  piRelays,                \* RelayManager._state: the relays it takes to be on
  mowing,                  \* MowSession._state, as far as the relays go
  signalled,               \* the signal handler has been entered
  starts,                  \* processes started
  linkHistory              \* of this process: "lost" a line, "cut" by the
                           \* firmware's watchdog, signalled "inside" send()

linkVars == <<fwVars, mainAt, todo, hbAt, writeLock, piRelays, mowing,
              signalled, starts, linkHistory>>

LinkTypeOK ==
  /\ FwTypeOK
  /\ mainAt \in {"next", "lock", "write", "stuck", "exited", "killed"}
  /\ todo \in Seq(Message)
  /\ hbAt \in {"sleep", "lock", "write"}
  /\ writeLock \in {"free", "main", "hb"}
  /\ piRelays \in SUBSET Relays
  /\ mowing \in {"idle", "starting", "mowing", "aborting", "over"}
  /\ signalled \in BOOLEAN
  /\ starts \in 1..MaxStarts
  /\ linkHistory \in SUBSET {"lost", "cut", "inside"}

ProcessStarts ==
  /\ mainAt = "next" /\ todo = <<>> /\ hbAt = "sleep" /\ writeLock = "free"
  /\ piRelays = {} /\ mowing = "idle" /\ signalled = FALSE

LinkInit == FwInit /\ ProcessStarts /\ starts = 1 /\ linkHistory = {}

Ended == mainAt \in {"exited", "killed"}
PiSilent == Ended \/ mainAt = "stuck"

-----------------------------------------------------------------------------
(* RelayManager: what each operation sends, in order.                      *)

StartEngineAndPto == <<SetRelay("ignition", TRUE), SetRelay("starter", TRUE),
                       SetRelay("starter", FALSE), SetRelay("pto", TRUE)>>
PtoOff == <<SetRelay("pto", FALSE)>>
EmergencyOff == <<SetRelay("pto", FALSE), SetRelay("starter", FALSE),
                  SetRelay("ignition", FALSE)>>

\* is_active: an abort changes the state after it has switched the PTO off.
SessionActive == mowing \in {"mowing", "aborting"}

\* Mutant of ShutdownSends: shutdown() leaves the relays to the session's abort.
AbortOnly == IF SessionActive THEN PtoOff ELSE <<>>

\* shutdown(): abort() of an active session, the drive's emergency_stop() and
\* emergency_off().
ShutdownSends ==
  (IF SessionActive THEN PtoOff ELSE <<>>) \o <<EStopCommand>> \o EmergencyOff

Operate(from, to, sends) ==
  /\ mainAt = "next" /\ todo = <<>> /\ ~signalled
  /\ mowing = from /\ mowing' = to
  /\ todo' = sends
  /\ UNCHANGED <<fwVars, mainAt, hbAt, writeLock, piRelays, signalled, starts,
                 linkHistory>>

StartMowing == Operate("idle", "starting", StartEngineAndPto)
MowingBegins == Operate("starting", "mowing", <<>>)
CompleteMowing == Operate("mowing", "over", PtoOff)

\* _abort(): the PTO relay, then the state; start() aborts at once on low fuel.
StartRefused == Operate("idle", "over", PtoOff)
AbortMowing == Operate("mowing", "aborting", PtoOff)
AbortEnds == Operate("aborting", "over", <<>>)

SessionStep ==
  \/ StartMowing \/ MowingBegins \/ CompleteMowing
  \/ StartRefused \/ AbortMowing \/ AbortEnds

-----------------------------------------------------------------------------
(* PicoBridge.send() on the main thread.                                   *)

\* Mutant of Believed: a relay switched off stays on in RelayManager._state.
BelievedOn(m) == IF m.kind = "relay" THEN piRelays \cup {m.relay} ELSE piRelays

\* The drive's emergency stop switches relays RelayManager still takes to be on.
Believed(m) == IF m.kind = "relay" THEN Outputs(piRelays, m) ELSE piRelays

\* RelayManager._set_*() records the state, then calls send().
BeginSend ==
  /\ mainAt = "next" /\ todo # <<>>
  /\ mainAt' = "lock"
  /\ piRelays' = Believed(Head(todo))
  /\ UNCHANGED <<fwVars, todo, hbAt, writeLock, mowing, signalled, starts,
                 linkHistory>>

MainLocks ==
  /\ mainAt = "lock" /\ writeLock = "free"
  /\ mainAt' = "write" /\ writeLock' = "main"
  /\ UNCHANGED <<fwVars, todo, hbAt, piRelays, mowing, signalled, starts,
                 linkHistory>>

MainWrites ==
  /\ mainAt = "write" /\ Len(wire) < MaxWire
  /\ mainAt' = "next" /\ writeLock' = "free"
  /\ wire' = Append(wire, Head(todo)) /\ todo' = Tail(todo)
  /\ UNCHANGED <<fwRelays, fwTripped, fwStale, hbAt, piRelays, mowing, signalled,
                 starts, linkHistory>>

\* SIGTERM: shutdown() on top of whatever the thread was doing, which it never
\* returns to (sys.exit).  Inside send() the lock is the thread's own, and the
\* first send() of the handler waits for it.
Signal ==
  /\ mainAt \in {"next", "lock", "write"} /\ ~signalled
  /\ signalled' = TRUE
  /\ IF mainAt = "write"
     THEN /\ mainAt' = "stuck"
          /\ todo' = <<>>
          /\ linkHistory' = linkHistory \cup {"inside"}
     ELSE /\ mainAt' = "next"
          /\ todo' = ShutdownSends
          /\ UNCHANGED linkHistory
  /\ UNCHANGED <<fwVars, hbAt, writeLock, piRelays, mowing, starts>>

\* disconnect() stops the heartbeat thread and waits for it; the process ends.
Disconnecting == mainAt = "next" /\ todo = <<>> /\ signalled

Exit ==
  /\ Disconnecting /\ hbAt = "sleep"
  /\ mainAt' = "exited"
  /\ UNCHANGED <<fwVars, todo, hbAt, writeLock, piRelays, mowing, signalled,
                 starts, linkHistory>>

-----------------------------------------------------------------------------
(* PicoBridge._heartbeat_loop.                                             *)

HbStep(from, to) ==
  /\ ~Ended /\ hbAt = from /\ hbAt' = to
  /\ UNCHANGED <<fwRelays, fwTripped, fwStale, mainAt, todo, piRelays, mowing,
                 signalled, starts, linkHistory>>

HbWakes ==
  ~Disconnecting /\ HbStep("sleep", "lock") /\ UNCHANGED <<wire, writeLock>>

HbLocks ==
  /\ HbStep("lock", "write")
  /\ writeLock = "free" /\ writeLock' = "hb"
  /\ UNCHANGED wire

\* Mutant of HbWrites: a write that raises leaves the lock taken.
HbWritesLocked ==
  /\ HbStep("write", "sleep")
  /\ Len(wire) < MaxWire /\ wire' = Append(wire, Heartbeat)
  /\ writeLock' \in {"free", "hb"}

HbWrites ==
  /\ HbStep("write", "sleep")
  /\ Len(wire) < MaxWire /\ wire' = Append(wire, Heartbeat)
  /\ writeLock' = "free"

-----------------------------------------------------------------------------
(* The firmware's steps, and the end and the start of processes.           *)

piVars == <<mainAt, todo, hbAt, writeLock, piRelays, mowing, signalled, starts>>

PicoReceives == FwReceive /\ UNCHANGED <<piVars, linkHistory>>

LineDamaged ==
  FwDamaged /\ linkHistory' = linkHistory \cup {"lost"} /\ UNCHANGED piVars

\* The heartbeat thread may also just be late.
HeartbeatLate == FwGoesStale /\ UNCHANGED <<piVars, linkHistory>>

PicoChecks ==
  FwCheckWatchdog /\ linkHistory' = linkHistory \cup {"cut"} /\ UNCHANGED piVars

Kill ==
  /\ ~Ended
  /\ mainAt' = "killed" /\ todo' = <<>> /\ hbAt' = "sleep" /\ writeLock' = "free"
  /\ UNCHANGED <<fwVars, piRelays, mowing, signalled, starts, linkHistory>>

\* systemd starts the next process: five seconds leave the firmware's timeout
\* and its check behind.
Restart ==
  /\ Ended /\ starts < MaxStarts
  /\ wire = <<>> /\ fwStale /\ fwTripped
  /\ starts' = starts + 1
  /\ mainAt' = "next" /\ piRelays' = {} /\ mowing' = "idle" /\ signalled' = FALSE
  /\ linkHistory' = {"cut"}
  /\ UNCHANGED <<fwVars, todo, hbAt, writeLock>>

MainSends == BeginSend \/ MainLocks \/ MainWrites
HbSends == HbWakes \/ HbLocks \/ HbWrites

LinkNext ==
  \/ SessionStep \/ MainSends \/ Signal \/ Exit \/ HbSends
  \/ PicoReceives \/ LineDamaged \/ HeartbeatLate \/ PicoChecks
  \/ Kill \/ Restart

LinkSpec == LinkInit /\ [][LinkNext]_linkVars

-----------------------------------------------------------------------------
\* The outputs once all these lines have arrived, one after the other: a relay is
\* on that a line switches on, or that was on before, and that no later line
\* switches off.
KeptOn(r, lines, from) ==
  \A k \in from..Len(lines) : r \in Outputs(Relays, lines[k])

LinkSettled(relays, lines) ==
  {r \in Relays :
     \/ r \in relays /\ KeptOn(r, lines, 1)
     \/ \E k \in 1..Len(lines) :
          r \in Outputs({}, lines[k]) /\ KeptOn(r, lines, k + 1)}

\* What RelayManager takes the relays to be is what the firmware will have when
\* everything on the wire has arrived, unless a line was lost, the firmware cut
\* the relays, or a shutdown interrupted an operation.
RelaysAgree ==
  linkHistory \cap {"lost", "cut"} = {} /\ ~signalled /\ mainAt # "killed" =>
    piRelays = LinkSettled(fwRelays,
                 IF mainAt \in {"lock", "write"}
                 THEN Append(wire, Head(todo)) ELSE wire)

\* A process that ended through shutdown() leaves the relays off once its last
\* lines have arrived, wherever the signal found the main thread.
ExitCutsRelays ==
  mainAt = "exited" /\ "lost" \notin linkHistory => LinkSettled(fwRelays, wire) = {}

\* A signal ends the process, unless it came while the main thread held the
\* write lock (pico_bridge.py:133).
ShutdownEnds == signalled ~> (Ended \/ "inside" \in linkHistory)

\* A Pi that falls silent (dead, or stuck with the write lock taken, which
\* stops the heartbeat thread as well) has its relays cut, provided the
\* firmware was hearing heartbeats.
SilenceCutsRelays ==
  PiSilent /\ ~fwTripped /\ ~fwStale ~> fwRelays = {}

\* pico/firmware/main.py:7-8: "if the Pi 5 heartbeat stops, all actuators are
\* cut immediately."
SilenceAlwaysCutsRelays == PiSilent ~> (fwRelays = {} \/ ~PiSilent)
=============================================================================
