# River Vector: a TLA+ model of the mower's control software

The program is the Python control process of an autonomous mower (`core/main.py`
and the packages it builds), the firmware of the Raspberry Pi Pico that drives
relays and sensors, a vision node for a second computer, and a set of operator
tools. This directory models the part that decides whether the machine moves and
whether its blades turn, and the components around it that share state between
threads, processes or machines; checks them with TLC on small instances and
proves their safety properties with TLAPS.

- [Inventory](#inventory)
- [Modules and how they correspond to the code](#modules)
- [Runs](#runs)
- [Bounds](#bounds)
- [Fairness](#fairness)
- [Proofs](#proofs)
- [Where the program and its documents disagree](#disagreements)
- [Not modelled](#not-modelled)
- [Plan](#plan)

## Inventory

| Component | State it keeps | Operations | Talks to |
|---|---|---|---|
| Fault registry `safety/fault_manager.py` | code → (severity, active, acknowledged, detail), under a lock | report, clear, acknowledge, has_active, is_safe_to_operate | read by every guard; callbacks to alerts |
| E-stop `safety/estop.py` | `triggered`, first reason, under its own lock | trigger, reset | reports and clears `ESTOP_TRIGGERED` after it releases its lock |
| Mode manager `autonomy/mode_manager.py` | mode, switch position, under a lock; poll thread | request_auto/manual/hold, trigger_estop, reset_estop, set_mode, update_switch_state | fault registry, interlocks |
| Interlocks `safety/interlocks.py` | slope level reached | verify (before AUTO), enforce_slope (every iteration) | sensors, GPS, terrain, fault registry |
| Watchdog `safety/watchdog.py` | time of the last kick; thread | kick, Pico check, main-loop check | fault registry; callback triggers the e-stop |
| Mowing session `autonomy/mow_session.py` | session state | start, pause, resume, complete, abort | relays |
| Relays `hardware/relays.py` | ignition, starter, engine, PTO | crank, stop, PTO on/off, emergency_off | Pico link |
| Command stream `connectivity/command_stream.py` | queue, last configuration version; thread | poll, acknowledge, complete | server, over `api_client.py`; callbacks of the control process |
| Claiming `core/identity.py`, `core/bootstrap.py`, `connectivity/claim_server.py` | claim state and token, in memory and in a file; code file | begin, complete, reset | server; boot |
| Configuration `connectivity/config_sync.py` | configuration under a lock, cache file, temporary file | pull, load cache, ensure | server; interlocks |
| Manual control `autonomy/manual_control.py` | time of the last command; thread | handle, time out | drive, mode |
| Teach mode `autonomy/teach_mode.py` | waypoints unpushed; two threads | start, capture, push, end | GPS, server |
| Telemetry `connectivity/telemetry_thread.py` | bounded queue, counters; thread | tick, push, put back | server |
| Alerts `telemetry/alerts.py` | time of each fault's alert; thread | fault callback, monitor | fault registry, server |
| Pico link `hardware/pico_bridge.py` | serial port under a write lock, time of the last heartbeat; two threads | send, dispatch, heartbeat | firmware |
| Pico firmware `pico/firmware/` | outputs, tripped flag, time of the last heartbeat | command dispatch, watchdog | link |
| Lights `hardware/lights.py` | pattern last indicated | indicate, all off | Pico link; `led_control.py` renders |
| Drive `hardware/actuators.py`, `autonomy/shift_controller.py` | gear recorded, throttle, clutch, lever | shift, enable, disable | operator's brake |
| Streams `connectivity/stream_manager.py` | active stream per camera, under a lock; thread | start, stop, time out | streaming processes |
| Fleet `fleet/` | units and their status, table of zones | register, report, assign | other units |
| Beacon `connectivity/meshtastic_beacon.py` | event, running flag; thread | request, compose, send | radio |
| WiFi and probe `connectivity/wifi_manager.py`, `connectivity_probe.py` | association; tier and URL under a lock | connect, probe | wpa_supplicant, server |
| Navigation `navigation/` | boundary, response to obstacles | plan stripes, check a position, classify a distance | fault registry |
| Cameras and docking `hardware/cameras.py`, `hardware/remote_camera.py`, `vision/node.py` | frame grabbers; which unit does vision | capture, detect | return home |
| Calibration `calibration/` | menu state, flows in threads, files | collect, compute, save | cameras, display |
| Local logger `telemetry/logger.py` | bounded buffer; thread | collect, write, put back | InfluxDB |
| Configuration classes, network tools, display | parsed files, external programs, a page | | |

What is hard in it: up to nine threads share a handful of fields guarded by
*different* locks, and most decisions are check-then-act across two of them (a
mode read before the faults, a switch read before the transition, a latch set
before its fault is reported). The main thread runs handlers that take seconds,
which is longer than its own watchdog deadline. A signal handler runs on top of
whatever the main thread was doing. And the safety chain is spread out: the
latch, the registry, the mode, the session and the relays are five pieces of
state that are meant to agree and are changed by different threads at different
times. What makes each component correct:

- **E-stop, registry**: a latch that stays set closes the gate
  (`is_safe_to_operate`), and the two never disagree at rest.
- **Mode manager**: AUTO is entered only past the switch, the faults and the
  interlocks, and is left when a blocking fault appears.
- **Session, relays**: the PTO turns only under a running engine, for a mowing
  session; nothing revives a session; every way out turns all relays off.
- **Watchdog**: a silent Pico or a hung loop ends with the gate closed or the
  latch set.
- **Slope guard**: AUTO on steep ground is never silent.
- **Config, telemetry, teach, commands**: nothing newer is replaced by something
  older, nothing is lost without being counted, nothing runs twice.
- **Link, firmware**: what the Pi takes to be on is on once the lines under way
  have arrived; whoever falls silent has its relays cut.
- **Claiming**: memory, disk and server agree on the token, whatever died.
- **Manual control, shifting**: what moves has a deadline; the gear recorded is
  the one engaged.
- **Streams, fleet, menu**: two threads that act on what they read a moment ago
  leave no process behind, give no strip to two units, leave the page that
  is shown without its handlers.
- **Planner, boundary, docking, obstacle**: what they report is true of the world
  they were given: a mowed box, a position, a marker, a distance.

The hazards this leads to are listed, each at its line and with the properties
that address it, under `hazards` in `PROJECT.json`.

## Modules

```
FaultManager ── EStop ──┬── EStopCallers ── EStopCallers_proofs
                        │        └── MCEStopCallers
ModeManager  ───────────┤
MowSession   ───────────┼── SafetyCore ── SafetyCore_proofs
SlopeInterlock ─────────┘        └── MCSafetyCore

ConfigSync ── ServerSync ──┬── MCServerSync
                           └── ServerSync_proofs

PicoFirmware ── PicoLink ──────────┐
ComputeTopology ── Vision ─────────┤
FaultManager ── Detectors ─────────┤
LossyStore ──── TelemetryQueue ────┼── MCSubsystems
ManualControl, TeachMode,          │
ShiftController, StreamManager,    │
FleetCoordinator, MeshtasticBeacon,│
ClaimLifecycle, CommandDelivery,   │
StatusLights, CalibrationMenu,     │
InfluxLogger, Geofence,            │
StripePlan, Uplink ────────────────┴── Subsystems_proofs
```

The proofs about the last group are in four modules, which `Subsystems_proofs` puts
together: `Server_proofs` (what unit and server agree on and what the server is told:
ClaimLifecycle, CommandDelivery, TelemetryQueue, InfluxLogger), `Drive_proofs` (what moves:
ManualControl, ShiftController, PicoLink, TeachMode), `Peripherals_proofs` (StreamManager,
MeshtasticBeacon, Detectors, Uplink, Vision, StatusLights, FleetCoordinator,
CalibrationMenu, StripePlan) and `Geofence_proofs`.

The leaves of the first group are components: state and operations, without threads.
`EStopCallers` and `SafetyCore` put them under the threads that call them.

- **FaultManager** (`safety/fault_manager.py`). `records[code]` is the record the
  registry holds or `NoFault`. `ReportFault` keeps the code's early return for
  a code that is active. `detail` and timestamps are left out, except in
  `EStopCallers`, where the detail is the identity of the reporting thread.
  The acknowledged flag is there because the gate reads it, and nothing sets it:
  `acknowledge_fault` has no caller in the repository.
- **EStop** (`safety/estop.py`). The latch and, apart from it, the report and the
  clearing of its fault: `trigger()` and `reset()` release the lock in between.
- **EStopCallers**. Any number of threads in `trigger()`, some also in `reset()`,
  one action per side of the lock. `overlapped` is a history variable: a trigger
  and a reset have been between their two steps at once.
- **ModeManager** (`autonomy/mode_manager.py`). The mode, the switch position and
  `_transition_to`; the methods are in `SafetyCore`, cut where they release the
  lock.
- **MowSession** (`autonomy/mow_session.py`, `hardware/relays.py`). The session's
  state machine with the relay commands it sends; `start()` is cut at the relay
  manager's sleeps, where a signal may arrive.
- **SlopeInterlock** (`safety/interlocks.py`, `navigation/terrain_monitor.py`).
  `enforce_slope()` whole, over five bands of the slope (unknown, under the resume limit,
  in the hysteresis, over the limit, over the severe limit) in place of percentages.
- **SafetyCore** (`core/main.py`, `safety/watchdog.py` and the above). Five
  threads: main (run, dispatch, shutdown), watchdog, mode poll, switch and
  stream. `pc` holds where each thread is; a step ends where the thread releases a
  lock or touches state that another thread uses. The table gives the correspondence:

| Actions | Code |
|---|---|
| `BootIdle`, `RunStarts` | end of `boot()`, start of `run()` |
| `LoopTop`, `LoopEnds`, `UpdateSlope`, `Slope*` | an iteration of `run()`, `_update_terrain_and_enforce_slope` |
| `TakeCommand`, `QueueEmpty` | `_drain_command_queue`, `_dispatch` |
| `EStopLatch` … `EStopEndSession` | `_handle_estop` |
| `ResetUnlatch` … `ResetIdle` | `_handle_estop_reset` |
| `StopSession` … `StopIdle` | `_handle_mow_stop` |
| `HomeSession` … `HomeIdle` | `_handle_return_home` |
| `StartSwitch` … `StartAuto` | `ModeManager.request_auto`, `Interlocks.verify` |
| `StartSession` … `StartMowing` | the rest of `_handle_mow_start`, `MowSession.start` |
| `Signal`, `Shutdown*` | `main()`'s signal handler and `finally`, `shutdown()` |
| `CheckPico` … `ComputeReport` | `Watchdog._monitor_loop` |
| `PollMode` … `PollEStop` | `ModeManager._poll_loop` |
| `SwitchMoves` … `SwitchManual` | `update_switch_state` |
| `AuthFails` … `StopMain` | `_on_auth_failure` on the stream thread |
| `PicoLinkChange`, `KickAges` | the heartbeat's age, the kick's age |

Abstractions of SafetyCore: time is two Booleans (is the Pico's heartbeat fresh,
has the kick aged past the deadline), which change whenever the environment
likes. The sensors are the verdict of the interlocks. The queue delivers any
command at any time, in any order. A handler never raises: every call it makes
to the server is one that `connectivity/api_client.py` shields. The current server session is only whether
there is one. `return_home`'s docking search is one step; it ends by itself and
touches nothing another thread reads.

### Configuration: ConfigSync and ServerSync

**ConfigSync** is `connectivity/config_sync.py`: the configuration in memory, the cache
file and the temporary file beside it. `pull()` is cut at each access another
thread can see: `FetchConfig`, `Store`, `OpenTmp`, `Dump`, `Replace`, and the ways
it fails. A configuration is its version and its four safety floors, each an integer or
`NaN`, which JSON and `float()` let through and which compares false with every bound.
`EnforceFloor` is what `_enforce_absolute_floors` does to each: tilt, watchdog and slope are
clamped from both sides, the clearance from below only; `NaN` passes for clearance and tilt, becomes the
upper bound for the slope (`max(lo, min(hi, x))`), and raises for the watchdog (`int()`, part of `FetchMalformed`). **ServerSync** puts two threads over it: the
command stream, which remembers a version it sees and pulls it
(`PollAnswered`, `CheckVersion`), and the main thread (`Boot*` are `ensure()` and
`_wait_for_config()`, `Refresh*` the `config.refresh` command). `Die` keeps the disk and
loses the rest. An action `PullCannotWrite` leaves the temporary file as it was at that
point.

### Commands: CommandDelivery

The server's record of each command, the stream thread that acknowledges and
queues, the main thread that runs and reports, over an HTTP client whose POSTs
may take effect twice, once or never, with or without an answer (`PostOutcomes`,
the session's own retries). Of the handlers only what they do to the server's mowing
sessions is here; what they do to the machine is in SafetyCore.

### Link: PicoFirmware and PicoLink

**PicoFirmware** has the firmware's receive loop (`Dispatched`) and its watchdog, with the
heartbeat's age as a Boolean. **PicoLink** has the wire, the main thread with what a session's start, completion, refusal or
abort and `shutdown()` send (an abort sends `pto_off` alone, and changes the state of the session only
then, so that a signal in between aborts it again), the thread inside
`send()` (`mainAt`), the heartbeat thread, their non-reentrant lock, a signal that
runs `shutdown()` on top of the main thread (and finds the lock taken, if it comes
inside `send()`), a process killed and started again. `linkHistory` says what
the properties must except: a line lost, a cut by the firmware, a signal inside.

### The other components

| Module | Code | State and actions |
|---|---|---|
| ManualControl | `autonomy/manual_control.py` | `handle()` in three steps (mode test, stamp, drive), the time-out thread in three (look, stop, clear); the age of the last command; the mode changes at any time |
| TeachMode | `autonomy/teach_mode.py` | waypoints captured and unpushed, the push thread's batch, `end()` with a join that may give up; a push received, lost, or received with the answer lost |
| ShiftController | `autonomy/shift_controller.py`, `hardware/actuators.py` | the sequence of one shift, any step of which raises on brake or disable; the lever apart from the recorded gear |
| StreamManager | `connectivity/stream_manager.py` | look, launch and record of each caller, stop, time-out thread's list and stops; the processes that live |
| FleetCoordinator | `fleet/*.py` | units that may mow, zones given, table of zones, an assignment under way while units go stale or report a zone of their own over it; which strips are empty is chosen |
| MeshtasticBeacon | `connectivity/meshtastic_beacon.py` | event and thread: compose, transmit, wait, clear; a provider that raises (position, battery, mode, signal quality) ends the thread |
| ClaimLifecycle | `core/identity.py`, `core/bootstrap.py`, `connectivity/claim_server.py`, claim parts of `core/main.py` | record in memory and on disk, the handler of a claim, the wait for a configuration, the reset after a refusal on the command stream, deaths and failed writes between any two steps |
| TelemetryQueue, LossyStore | `connectivity/telemetry_thread.py` | below |
| StatusLights | `hardware/lights.py`, `pico/firmware/led_control.py` | the two lines of an indication under way, what the strip renders of each |
| CalibrationMenu | `calibration/display_menu.py`, `calibration/store.py`, `hardware/display.py` | menu state, page shown, handlers wired, and up to `MaxFlows` flows in threads of their own; see below |
| InfluxLogger | `telemetry/logger.py`, `telemetry/collector.py` | buffer of snapshots and of points put back; a round that raises |
| ComputeTopology, Vision | `core/compute_topology.py`, `hardware/cameras.py`, `hardware/remote_camera.py`, `vision/node.py`, `autonomy/return_home.py` | every profile that boot accepts, the camera class built for it, one look for the marker while marker, peer and deadline change |
| Geofence | `navigation/boundary.py` | ray casting over integer points: every triangle of a 3 × 3 grid, the quadrilaterals with an inner diagonal that start at a point of `Starts`, lines walked to and fro; any of `Reloads` in place of one of them; checks at every point |
| StripePlan | `navigation/path_planner.py` | the loop over the stripes in integer units: deck, overlap and box width vary |
| Detectors | `navigation/obstacle.py`, `telemetry/alerts.py` | classification with hysteresis, report and clear; callback and monitor thread over the times of the alerts |
| Uplink | `connectivity/wifi_manager.py`, `connectivity/connectivity_probe.py` | networks in range and tried in turn, an association that goes its own way, slow or with a network other than the one waited for; the window of a network may end whatever is in range; the rounds of the probe |

Geofence and StripePlan compute rather than interact: their properties compare the code's
algorithm with a reference definition (`StrictlyInside`, `Mowed`) at every input within the bounds.

### Calibration: CalibrationMenu

The menu takes no lock: a state, a page, a handler and the cancel flag are written one after the
other. A routine (`EnterSteps`, `ReturnSteps`, `ExitSteps` and the handlers of the buttons) is the sequence of what it
writes, `calTodo` says what each thread has still to write, and one write is one step
(`RoutineGoesOn`). The threads are the touch reader, whoever else calls `enter()` and `exit()`
(`Visitor`), and the flows, each of which ends in `_return_to_menu`. The three buttons that start
something count as one handler, and the reader takes a touch when it is done with the last. A flow may
die of an exception that nothing catches (`FlowDies`): `display_menu.py:224` appends to
`calibrator._samples`, which `IntrinsicCalibrator` does not have, whenever there is no camera manager;
a capture or the load of a damaged file (`store.py:95`) may raise as well. `calCrossed` is the history
of what `MenuWorks` must except: since a routine last began alone, one began beside another or beside a
flow, or a flow died. What that leaves, until the next `enter()` or `_return_to_menu` mends it: a menu page without
handlers, or a menu in the state COLLECTING with CANCEL as its one button, which only sets a flag, and
an `enter()` that is refused; then nothing but `exit()` from elsewhere helps. No code in the repository constructs
`CalibrationDisplayMenu` outside its package.

### Claiming: ClaimLifecycle

A unit that boots claimed registers, asks for its configuration and only then starts the command
stream, the one place that notices a refused token (`AuthRejected`). `claimAt` follows `boot()` and
`run()`; in "config" a refusal is taken for silence, and `configCached` says whether the cache lets the boot go on.
`_on_auth_failure` clears `_running`, which ends the process only if `run()` has begun (`Stops`): before, `RunBegins` sets it
again and the process runs on without a stream. These are the two states called
`Stranded`, which `ClaimRecovers` excepts and `claim_stuck` shows.

### Telemetry: TelemetryQueue and LossyStore

- **TelemetryQueue** (`connectivity/telemetry_thread.py`). A snapshot is its number. One tick
  is two steps, the decision (`TickOffline`, `TickOnline`) and the answer to the push
  (`PushSucceeds`, `PushFails`), because probe, mode and `stop()` change in
  between. A push that fails may still have reached the server: `_safe_post`
  answers False to a lost or late answer as to a refusal. A mode without a
  cadence (HOLD, which the table does not have, is one) sends nothing.
  `acked` and `built` are history variables.
- **LossyStore**. What the thread promises: a set of snapshots held, from which one goes
  only when delivered, or when the store is full, and then it is counted. The refinement
  maps queue and batch together to `held`.

The definitions called "Mutant of …" are not part of the model. Each stands next
to the action it alters the way a slip in the code would, and shows that the
property named for it in `PROJECT.json` notices.

### MCSubsystems: components side by side

The eighteen components of the last group share no variable. `MCSubsystems`
checks them in one run: `focus` picks a component in the initial state, only its
actions are taken, and the others keep their initial state
(`Others`), of which `OneStart` takes one each. The state space is the sum of the
components' own, not their product, and nothing is lost by it: a property of one
component depends on no variable of another. Components that do interact are
composed in SafetyCore, ServerSync, PicoLink and Vision.

## Runs

| Run | Question | States |
|---|---|---|
| `estop_callers` | In every interleaving of the main loop (trigger, reset) with three triggering threads, can latch and fault disagree without a trigger and a reset having overlapped? No. | 293 |
| `safety_core` | All five commands, every verdict of the interlocks and every slope, a switch that moves, a token that is refused, a signal anywhere: types, blade discipline, sessions that stay ended, GPS faults that lock AUTO out, AUTO on steep ground only at a level already called for, relays off at the end. | 3.8M |
| `daemons` | The Pico comes and goes, the main loop hangs. Liveness: unsafe AUTO is left, a silent Pico blocks, a hung main loop is stopped. | 184k |
| `server_sync` | Three versions with floors inside, under and over the bounds and NaN, two pulling threads, pulls and writes that fail, a restart: floors hold as far as the code enforces them, only overlapping pulls spoil the cache or bring back an older version, and a published version is applied unless a pull of it failed. | 106k |
| `subsystems` | The eighteen components of MCSubsystems, below. | 257k |

What `subsystems` asks of each component:

| Property | Component | Says |
|---|---|---|
| `RelaysAgree` | PicoLink | Without a loss or a cut, the relays the Pi takes to be on are those the firmware ends with when the wire is empty. |
| `ExitCutsRelays` | PicoLink | A process that ended through `shutdown()` leaves the relays off, wherever the signal found it, an abort under way included. |
| `ShutdownEnds` | PicoLink | A signal ends the process, unless it came inside `send()`. |
| `SilenceCutsRelays` | PicoLink | A Pi that dies or sticks has its relays cut, if the firmware was hearing it. |
| `MovingHasDeadline` | ManualControl | A drive that moves has a time the watchdog will find too old, unless a command crossed the watchdog or `stop()` failed. |
| `PathIsFaithful` | TeachMode | The server has the waypoints in order, and all of them when it has said so, unless `end()` gave up on the push thread. |
| `GearAgreesAtRest` | ShiftController | After a shift that ended well the recorded gear is the lever's. |
| `OrphanNeedsOverlap` | StreamManager | A streaming process without a record needs two overlapping starts. |
| `SharedZoneLeftOut` | FleetCoordinator | Two units share a zone only if one of them does not have it from the last assignment: it was left out, or has reported a zone since. |
| `TokenSurvives`, `ClaimRecovers` | ClaimLifecycle | The token the server accepts is on the disk; after any trouble memory, disk and server agree again, unless the unit is stranded (above). |
| `CommandsRunOnce` | CommandDelivery | A command runs twice only if its acknowledgement was lost, and what is acknowledged is run or waits. |
| `OrphanSessionExplained` | CommandDelivery | A session left open on the server comes from a repeated start, a lost or repeated call, or a death. |
| `EverySnapshotAccounted`, `ImplementsLossyStore` | TelemetryQueue | Each snapshot is queued, in flight, acknowledged or counted as dropped; the thread implements the store. |
| `NoStaleLights` | StatusLights | With nothing under way and nothing lost, the strip shows no status the unit has left. |
| `MenuWorks` | CalibrationMenu | As long as nothing crossed and no flow died: state, page and handlers belong together once nothing is at work, a flow's progress page has its cancel button, and one flow runs at most. |
| `LostOnlyAfterItsWriteFailed` | InfluxLogger | A snapshot is in the buffer, written, part of a failed write, or evicted at the bound. |
| `DockedSawMarker` | Vision | A unit that says it is docked has seen the marker in a real frame of this attempt. |
| `BreachIsTrue` | Geofence | Off the edges, the answer is whether the point is inside, and the fault agrees with it. |
| `GapOnlyAtFarEdge` | StripePlan | All of the box but a strip of at most half a deck at its far edge is mowed, and turns join the ends they should. |
| `StopsAndFaultsAreTold` | Detectors | While the response is STOP the obstacle is a fault, and no fault is active without an alert of its own. |
| `GivesUpOnlyWithoutNetwork` | Uplink | `connect()` raises only if nothing was in range, the range changed, wpa_supplicant could not be told, or it was slow or took a network other than the best. |

`safety_core`, `subsystems`, `fw_silence` and `claim_stuck` allow deadlock: there the process
or the thread may end, or a component comes to the end of what its bounds allow.
The others never stop, and deadlock is checked.

The definitions behind the runs that expect a violation are in
[Disagreements](#disagreements).

## Bounds

In SafetyCore and EStopCallers no counter is bounded: every variable is finite by itself, so each run explores
*all* behaviours of its instance, of any length. What an instance leaves out is
the part of the environment its question does not need (see the constants in
each `.cfg`); the threads are always all there. The fault codes are the
four the modelled code reports; the codes of detectors that nothing drives (obstacle, boundary, shift)
would behave as any other code and the proofs cover them. Four callers of the
e-stop suffice for a trigger that loses to another, one that arrives between the
two halves of a reset, and one more to arrive after both.

In ServerSync, `MaxVersion = 3` lets a third version be published while two
threads hold the first two, and its floors lie within, under and over the absolute bounds, or are NaN. One queued
refresh beside the stream's pull is enough for two pulls at once, and one
restart for a boot over every file a death can leave; a second death
finds nothing new.

In MCSubsystems (the values are in `Subsystems.cfg`):

| Constant | Value | Why it is enough |
|---|---|---|
| `MaxWire`, `MaxStarts` | 1, 2 | a line under way when the next is written, or the process dies; a process that inherits the firmware's state (`fw_silence` has two lines and one process) |
| `MaxCommands`, `MaxWaypoints` | 3, 3 | one before, one across and one after the time-out thread's or push thread's step |
| `GearMax` | 3 | a gear with two neighbours, and shifts through it both ways |
| `StreamCallers`, `MaxStreams` | 2, 3 | two starts that overlap and one after |
| `NumUnits` | 2 | a partition over two, then over one, and a zone reported over it; `ZonesTheorem` is about any number |
| `MaxTrouble`, `MaxTokens` | 3, 4 | three deaths, losses or refusals in any mix; each token after the first answers one of them |
| `NumCommands`, `MaxDelivered`, `MaxSessions`, `MaxDeaths` | 2, 2, 2, 1 | a command delivered twice, or two in turn; a session replaced by another |
| `QueueMax`, `BatchMax`, `MaxBuilt` | 3, 3, 7 | the queue filled and overflowed twice over, before, during and after failed pushes of every size |
| `MaxLedWire` | 2 | both lines of an indication, or one of each of two |
| `MaxFlows`, `MaxAtOnce`, `MaxCameras` | 2, 2, 1 | a flow that outlives its menu beside a new one; any two threads at work at once, a third begins when one is done; a last camera and a step past it (`MenuTheorem` is about any numbers) |
| `BufferMax`, `MaxCollected` | 3, 6 | a full buffer put back in front of new snapshots |
| `Grid`, `Starts`, `Reloads` | 2, two points, three lists | corners, edges, horizontal edges and notches of polygons on nine points, from a corner of the grid and from the middle of a side; a triangle, a notched quadrilateral and a list too short in place of any of them |
| `MaxHalfDeck`, `MaxBoxWidth` | 2, 9 | boxes narrower than a deck to several stripes, at every remainder |
| `NumNetworks` | 3 | a first, a last and one in between |

## Fairness

`Spec` assumes of the daemon threads what a Python thread in a `while` loop with a
sleep does: they run again (`WF_vars(Poll)`, `WF_vars(Watchdog)`), and a call that
has begun on the switch or stream thread goes on. It assumes **nothing** of the main thread,
which may hang in a server call, nor of the environment: the Pico, the switch,
commands and signals owe nothing. `LiveMainSpec` adds `WF_vars(Main)` for
disagreement runs in which the main thread is the one that should act, so that
their counterexamples are not a thread that merely stopped. In `EStopCallers` a thread that has begun a call
finishes it.

`ServerSync!Fairness` schedules both threads, and assumes that answers with the
version header, configurations and writes that succeed come again and again
(`SF`, since in between they may fail): the server answers long polls for as long
as the unit is online, and a disk that never takes a write again is outside the question. `PublishedIsApplied` still has to except a
pull of the stream thread that failed, because the code does not repeat it.

`SubFairness` is about the two components with liveness properties. Link: the
threads and both loops of the firmware run (`WF`), and without heartbeats their time
passes; the lock is Python's and not fair, so that a thread waiting for it gets it if it is free
again and again (`SF` of `MainLocks` and `HbLocks`). Nothing is assumed of the wire, which
may lose every line, nor of signals and deaths. Claiming: a process runs and is
started again by systemd (`Restart=always`), and the operator goes on typing the code in; deaths,
failed writes and lost replies are bounded by `MaxTrouble`.

The other components claim no liveness: with bounded inputs there is nothing they
must still do.

## Proofs

All theorems are about every value of the constants: any set of threads and resetters,
any set of fault codes with the ones the code names, any commands, slopes and interlock outcomes, and any setting of the
environment's switches; the bounds of the runs, such as `MaxWire` or `MaxBuilt`, are among the
constants. The only assumptions are the `ASSUME`s of the modules, each of
which says what set a constant ranges over.

- **`EStopCallers_proofs`**. `TypeCorrect` and `DisagreementTheorem`. Agreement at
  rest is not inductive: it says nothing of the state from which the last call
  returns. `IInv` adds that, without an overlap, a thread about to report owns
  the latch and the fault is not yet active, and a thread about to clear finds
  the latch clear.
- **`SafetyCore_proofs`**. `TypeCorrect`, by one lemma per kind of step (a mode
  change, a branch, a half of `trigger()`, a session step, a registry step, any
  other step of the process) and one per thread. `SafetyInvariant`, inductive relative to the types, in
  four independent parts: what each label of the main thread's start and shutdown
  sequences says of session and relays; that GPS faults are blocking ones and
  none is active once `mow_start` has passed the interlocks; that the slope is not
  steep there and in AUTO only at a level that covers it; that without a switch the main thread
  never passes the first check. Every other thread leaves all four alone
  (`OtherThreads`), as do most steps of the main thread (`PlainSteps`), so that
  the proof is about the dozen steps that matter. From it: `PtoDisciplineTheorem`,
  `ShutdownTheorem`, `SteepAutoTheorem`, `UnwiredTheorem`, and for the two action
  properties `GpsFaultTheorem` and `NeverRevivesTheorem`.
- **`ServerSync_proofs`**. `FloorsTheorem`, `CacheTheorem` and `NeverOlderTheorem`,
  from one inductive invariant. That the cache is whole is not inductive: `LonePull` adds that
  without an overlap at most one thread is in `pull()`, that the temporary file
  is as far as its own step says (`FileToItself`), and that what it is about to store is not
  older than the memory (`StoresNewer`), which in turn needs that nothing is fetched that was not
  published (`HeldPublished`) and that a boot which has not stored yet holds no
  configuration (`BootEmpty`). The floors are any integers or NaN, and what `FloorsEnforced` says of
them is what the code does: bounds for watchdog and slope always, for clearance (from below) and tilt unless they are NaN.
- **`Server_proofs`**. Claims: `TokenSurvivesTheorem`; `PostAgrees`, `BootAgrees` and
  `ServiceAgrees` tie the record in memory to the one on the disk at each step of the claim
  handler, of the boot and of the reset.
  Commands: `RunOnceTheorem` and `SessionTheorem`. That a command has run at most once
  says nothing of the delivery under way, so the invariant counts a command in three places
  together, queued, run and in the stream thread's hands (`Handled`), and says that one the
  server still has as pending and that nobody holds is in none of them, unless an acknowledgement
  of it was lost (`DeliveredOnce`).
  Telemetry: `AccountingTheorem` and `RefinementTheorem`, for every
  capacity, batch size and `MaxBuilt`. The conservation law is
  inductive together with the types: `EnqueueStep` says what a bounded append keeps and
  counts, `BacklogStep` that taking the backlog splits the queue. The refinement
  `ImplementsLossyStore` also needs that no snapshot is in memory twice
  (`Distinct`, `Apart`), since the store counts members and the queue its length, and that queue and batch
  together exceed the capacity by one at most: a batch is taken from a queue that is full
  together with the new snapshot. One lemma per action shows which step of the store, or none, it is.
  Logger: `LostTheorem`, for any size of the buffer. What was taken out of the buffer leaves room
  for itself (`RoomForAll`), so a failed write can put everything back; and in the buffer points
  stand before snapshots and were all in a failed write (`FormsInOrder`), so a round that raises
  on one of them has taken nothing else.
- **`Drive_proofs`**. Manual control: `DeadlineTheorem`, inductive with the fact that the time-out thread clears a
  time only after it stopped the drive (`StoppedBeforeClear`). Shifting: `GearTheorem` and
  `SequentialTheorem` (the lever moves by one gear while shifts end well), for any number of gears, from what each step of
  a shift knows of lever and recorded gear.
  Link: `RelaysTheorem` and `ExitTheorem`, for a wire of any length and any number of starts.
  `LinkSettled` says what the relays come to relay by relay: some line under way sets it, or it is set,
  and no later line resets it. The lemmas `SettledEmpty`, `SettledAppend` and `SettledTail` show that this
  is the fold of the firmware's dispatcher over the wire, from either end. `RelaysAgree` is inductive once it is known
  that a thread in `send()` has a line to send; `ExitCutsRelays` is not, and `ShutdownCuts` says it of every
  step of the shutdown, with the lines still to be written in place of the ones already arrived.
  Teach mode: `PathTheorem`, for any number of waypoints. Until `end()` takes the rest, batch and
  unpushed waypoints together are the end of the path, in order, and everything before has arrived
  (`RestInOrder`); afterwards the same holds of the last batch (`LastInOrder`). That a batch sent again spoils no order
  rests on `EarlierFirstJoined`: a run that starts where everything before has arrived may follow, whatever came before it.
- **`Peripherals_proofs`**. `OrphanTheorem` (any callers, any number of streams): without an overlap one
  caller at most is past its look and nothing is active then. `RequestTheorem`: a beacon
  requested between the thread's wait and its clear is answered all the same. `ToldTheorem`: any
  fault codes. `NetworksTheorem`, for any number of networks: the network in
  range with the best priority is never passed over (`NotPassedOver`), because as long as
  wpa_supplicant has not gone astray it is the only one it may be associated with while the range stays as it is. `DockTheorem`, for every
  profile. `LightsTheorem`, for any number of lines under way: the last line of what is
  under way is the beacon's, which the firmware renders as dark (`EndsDark`).
  `ZonesTheorem`, for any number of units: what is left of the zip names no unit and no zone twice, and none that this
  assignment has dealt with (`LeftDistinct`, `LeftIsNew`), and `zoned` holds who still has the zone it was given, from what a partition and a zip are (`PartitionFacts`,
  `ZippedFacts`). `MenuTheorem`, for any number of flows, cameras and threads at once: while nothing crosses, one thread at most is at
  work, and what it has still to write is the rest of one routine that began alone (`MenuWired` and its lemmas), so that state, page and handlers are those of
  the part written and of the rest.
  `PlanTheorem`, for any box, deck and overlap: everything more than half a deck before the next stripe is
  mown (`MownSoFar`).
- **`Geofence_proofs`**. `BreachTheorem`, for a grid of any size, every triangle and every quadrilateral
  with the diagonal from its first corner inside, whatever that corner and the direction. The state is simple (`FenceIInv`: a check answers what
  the ray casting says of a list that was loaded); the work is the geometry. With the position in the
  middle an edge is cut by the ray if its ends are on different sides and the side of the edge has the right sign
  (`CrossesTurned`). Of a triangle none or two edges change sides; `OneCornerApart` shows that the two are
  cut on different sides exactly if the three sides have one sign, by the balance of their weights
  (`Balance`), and `TriangleParity` that the number of edges cut is odd exactly then. A quadrilateral is two triangles on its
  diagonal, which is counted twice and cancels (`QuadrilateralParity`), unless the position lies on it, which is a case of its own
  (`DiagonalParity`, from `WayMet` and `WayAbove`).
- **`Subsystems_proofs`**. `ComponentsTheorem`: a behaviour of `SubSpec` is a behaviour of each
  of its eighteen components, since a step of one leaves the others alone. Hence `SubsystemsTypeTheorem` and
  `SubsystemsTheorem`: types, all nineteen safety invariants of the run `subsystems`, and the refinement of the store.

The invariants were model-checked before they were proved. Two theorems state more than a run
checks: `RequestIsSeen` and `LeverStepsByOne` are proved and in no `.cfg`.

Only model-checked: the liveness properties (`UnsafeAutoIsLeft`,
`SilentPicoBlocks`, `HungMainIsStopped`, `PublishedIsApplied`, `ShutdownEnds`,
`SilenceCutsRelays`, `ClaimRecovers`), since liveness under fairness is beyond the
prover, and everything a violation run shows. Every safety property that a passing run checks is
stated by a theorem.

## Disagreements

Each of these is a run that TLC ends with a counterexample to what a document, a
comment or a docstring says. The quotes are under `findings` in `PROJECT.json`.

| Run | What happens |
|---|---|
| `estop_race` | A reset that overlaps a trigger clears the fault the trigger has just reported: latched, and safe to operate. |
| `estop_blades` | ESTOP entered by the poll thread leaves session and blades running. |
| `switch_race` | A switch turned back during `request_auto()` is ignored; the unit stays in AUTO. |
| `hung_main` | The watchdog clears its own FATAL fault of a hung loop at the next round. |
| `config_stale` | A version is remembered before its pull; when the pull fails, the unit stays on the older one. |
| `claim_stuck` | A unit that boots with a token the server refuses and without a cached configuration asks for one for ever, and stays CLAIMED. |
| `fw_silence` | A relay line that arrives after the firmware's watchdog tripped switches a relay on, and the watchdog looks no more until a heartbeat comes. |

The actions of SafetyCore show further departures from the integration
specification that have no run of their own:

- `EStopLatch` … `EStopEndSession`: the `estop` command does not set the ESTOP
  mode, which the specification (section 10.1) says it does; only a unit in AUTO gets there, by the
  poll thread.
- `ResetMode`: `estop_reset` returns to IDLE whatever faults are active, where the
  specification requires none.
- `StopIdle`, `HomeIdle`: `mow_stop` and `return_home` leave ESTOP without a reset.
- `StartRefused`, `StartLowFuel`: the result of `MowSession.start()` is ignored,
  so a session that refuses to start leaves the unit in AUTO with nothing
  executing; and a second `mow_start` while mowing is accepted and overwrites the
  server session's id.

Two more facts came out of the model and bear on how to read it. Nothing
in the repository calls `ModeManager.update_switch_state`, whose docstring names
a Pico handler as its caller, so `request_auto()` always refuses:
`UnwiredNeverMows` states it and `UnwiredTheorem` proves it, for every setting without a switch; no run repeats it. And `main.py` builds the base
`GPSInterface`, which never has a fix. All other runs set `SwitchWired` and
let the interlocks pass, that is, they model the program with these two wired
as its documents describe.

Others that the models show by their actions, or that reading the code for them
brought up, without a run of their own:

- An auth failure while `boot()` finishes is overwritten (`main.py:406` and `:828`):
  the process runs on unclaimed, without a stream (`RunBegins` after `ResetSaved` in ClaimLifecycle; `AuthFails` … `StopMain` against
  `RunStarts` in SafetyCore).
- `_enforce_absolute_floors` "guarantees that even a buggy or malicious server cannot make the device
  unsafe" (`config_sync.py:286-288`), but a NaN passes for clearance and tilt, and with it `_check_tilt`
  (`interlocks.py:243`) never fires; the clearance has no upper bound at all (`EnforceFloor`).
- `connect()` can raise although the unit is associated, with a network other than the last one it waited for
  or a moment after the window has closed (`AssociationTimesOut`).
- A calibration without a camera manager dies on `_samples` (`display_menu.py:224`), where the class documents that
  mode (`display_menu.py:72`), and leaves the menu in COLLECTING (`FlowDies`).
- A telemetry batch whose push failed goes back to the tail
  (`telemetry_thread.py:164`), so the next eviction takes a newer snapshot and keeps older
  ones (`PushFails`); the store it implements does not promise which one goes.
- The planner stops at the last stripe whose centre is in the box
  (`path_planner.py:200`): up to half a deck at the far edge stays unmowed, which is
  what `GapOnlyAtFarEdge` allows. `generate_plan()` has no caller.
- `collector.py:153` reads `engine_rpm` of a snapshot whose field is `rpm`: with sensors,
  every round of the local logger raises (`Collects`).
- `alerts.py:189` hands a dataclass to a client that expects a dictionary: the push of every
  alert raises and is logged. An active fault is told again after 60 seconds, where the docstring
  (`alerts.py:55-56`) says it is not until it clears.
- A point that `_snapshot_to_point` cannot convert raises out of the round, where the
  logger's docstring says that failed writes are buffered and retried.
- The firmware knows none of the pattern names `lights.py` sends, and nothing calls
  `LEDController.update()`: apart from its own BOOT and ESTOP the strip is dark
  after every indication. A sensor read that raises skips the firmware's watchdog
  check of that round.
- The manual watchdog looks only while the mode is MANUAL (`manual_control.py:219`): a
  unit that leaves MANUAL while driving is not braked.
- Gear 4 and neutral share an actuator position (`actuator_drive.py:150`).
- The stream watchdog stops by camera what it listed by age (`stream_manager.py:221`),
  so it may stop a stream that was started in between.
- `mow_start` that `MowSession.start()` refused is reported to the server as completed.
- An obstacle fault reported on STOP stays active when the response goes to CLEAR
  by way of SLOW. `main.py` never loads a boundary, so `is_inside()` answers true.
- The vision node never calls `load_calibration`.
- A boundary walked clockwise makes every strip of the partition empty.

## Not modelled

VPN, cellular and mDNS (`connectivity/vpn.py` and its neighbours): each
wraps an external program, keeps no state and takes no decision that another component reads.
The arithmetic of calibration, extrinsic search and stitching, and the
calibration command line: floating-point optimisation over images, sequential,
beyond TLC's data and not worth a caricature. Zones' polygon clipping, parking and the distance
formulas: floats again; what the clipping may yield is chosen in FleetCoordinator. Drawing on the display and the sensors' drivers are output and
register access. Parsing and construction of the configuration objects and the hardware
factory's choices are sequential, apart from the compute profile, which is in ComputeTopology. The
HTTP client appears through the outcomes of its calls. `pause()`, `resume()`,
`acknowledge_fault()`, `register_callback()` and others that nothing calls are
left out. The back-off of the command stream and other delays are not modelled;
every timed step may come at any time.

## Plan

What is left, in the order of its worth:

1. Abstract specifications for the components that have none, with their refinement proved:
   the teach push as a set of waypoints that arrives, the link as a pair of relay sets with a delay.
2. A composition of `PicoLink` with the session of `SafetyCore`, so that the blades'
   discipline is stated of the firmware's outputs.
3. A registry with acknowledgement and escalation, refined to the gate, once something in
   the program calls it.
4. The path of `AUTO` over `StripePlan`, once `generate_plan()` has a caller.
