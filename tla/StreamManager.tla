--------------------------- MODULE StreamManager ---------------------------
(***************************************************************************)
(* connectivity/stream_manager.py for one camera (cameras share nothing    *)
(* but the lock).  start_stream() looks for an active stream, launches the *)
(* streaming process outside the lock and records it; the watchdog thread  *)
(* lists what has timed out and stops it afterwards.                       *)
(***************************************************************************)
EXTENDS Naturals

CONSTANTS
  StreamCallers,           \* the threads that call start_stream()
  MaxStreams               \* bound on the processes launched

ASSUME StreamsAssumption == MaxStreams \in Nat

VARIABLES
  launched,                \* processes launched so far: 1..launched
  live,                    \* those still running
  active,                  \* the process of the active StreamInfo, or 0
  streamOld,               \* that stream's age exceeds STREAM_TIMEOUT_SEC
  callerAt,                \* where each caller is in start_stream()
  holds,                   \* the process it has launched, or 0
  listed,                  \* the watchdog has listed the camera as timed out
  streamsRunning,          \* _running
  overlap                  \* history: two starts, or a start and stop(), overlapped

streamVars == <<launched, live, active, streamOld, callerAt, holds, listed,
                streamsRunning, overlap>>

Streams == 1..MaxStreams

StreamTypeOK ==
  /\ launched \in 0..MaxStreams /\ live \in SUBSET Streams
  /\ active \in 0..MaxStreams
  /\ streamOld \in BOOLEAN /\ listed \in BOOLEAN
  /\ callerAt \in [StreamCallers -> {"idle", "checked", "launched"}]
  /\ holds \in [StreamCallers -> 0..MaxStreams]
  /\ streamsRunning \in BOOLEAN /\ overlap \in BOOLEAN

StreamInit ==
  /\ launched = 0 /\ live = {} /\ active = 0 /\ streamOld = FALSE
  /\ callerAt = [c \in StreamCallers |-> "idle"]
  /\ holds = [c \in StreamCallers |-> 0]
  /\ listed = FALSE /\ streamsRunning = FALSE /\ overlap = FALSE

StreamsStart ==
  /\ ~streamsRunning /\ launched = 0
  /\ streamsRunning' = TRUE
  /\ UNCHANGED <<launched, live, active, streamOld, callerAt, holds, listed, overlap>>

\* An active stream is returned as it is; otherwise one will be launched.
StartChecks(c) ==
  /\ callerAt[c] = "idle" /\ active = 0 /\ launched < MaxStreams
  /\ callerAt' = [callerAt EXCEPT ![c] = "checked"]
  /\ overlap' = (overlap \/ \E d \in StreamCallers : callerAt[d] # "idle")
  /\ UNCHANGED <<launched, live, active, streamOld, holds, listed, streamsRunning>>

\* Popen, or an exception that ends the start.
StartLaunches(c) ==
  /\ callerAt[c] = "checked"
  /\ \/ /\ launched < MaxStreams
        /\ launched' = launched + 1
        /\ live' = live \cup {launched + 1}
        /\ callerAt' = [callerAt EXCEPT ![c] = "launched"]
        /\ holds' = [holds EXCEPT ![c] = launched + 1]
     \/ /\ callerAt' = [callerAt EXCEPT ![c] = "idle"]
        /\ UNCHANGED <<launched, live, holds>>
  /\ UNCHANGED <<active, streamOld, listed, streamsRunning, overlap>>

\* The new info replaces whatever is recorded for the camera.
StartRecords(c) ==
  /\ callerAt[c] = "launched"
  /\ active' = holds[c] /\ streamOld' = FALSE
  /\ callerAt' = [callerAt EXCEPT ![c] = "idle"]
  /\ holds' = [holds EXCEPT ![c] = 0]
  /\ UNCHANGED <<launched, live, listed, streamsRunning, overlap>>

\* Mutant of StopEffect: the info is marked inactive, its process runs on.
StopForgets == active' = 0 /\ streamOld' = FALSE /\ UNCHANGED live

\* stop_stream()
StopEffect == active' = 0 /\ streamOld' = FALSE /\ live' = live \ {active}

StopStream ==
  /\ active # 0 /\ StopEffect
  /\ UNCHANGED <<launched, callerAt, holds, listed, streamsRunning, overlap>>

\* stop(): what is recorded is stopped; a start in progress records its stream
\* afterwards, when the watchdog has gone.
StopAll ==
  /\ streamsRunning /\ streamsRunning' = FALSE
  /\ StopEffect
  /\ overlap' = (overlap \/ \E c \in StreamCallers : callerAt[c] # "idle")
  /\ UNCHANGED <<launched, callerAt, holds, listed>>

StreamAges ==
  /\ active # 0 /\ ~streamOld /\ streamOld' = TRUE
  /\ UNCHANGED <<launched, live, active, callerAt, holds, listed, streamsRunning, overlap>>

WatchLists ==
  /\ streamsRunning /\ ~listed /\ streamOld
  /\ listed' = TRUE
  /\ UNCHANGED <<launched, live, active, streamOld, callerAt, holds,
                 streamsRunning, overlap>>

\* stop_stream() by camera, whichever stream is active by now.
WatchStops ==
  /\ listed /\ listed' = FALSE
  /\ StopEffect
  /\ UNCHANGED <<launched, callerAt, holds, streamsRunning, overlap>>

StreamNext ==
  \/ StreamsStart \/ StopStream \/ StopAll \/ StreamAges \/ WatchLists \/ WatchStops
  \/ \E c \in StreamCallers : StartChecks(c) \/ StartLaunches(c) \/ StartRecords(c)

StreamSpec == StreamInit /\ [][StreamNext]_streamVars

-----------------------------------------------------------------------------
\* A streaming process that is neither the recorded one nor about to be recorded
\* is left behind only when two starts overlapped (stream_manager.py:107).
OrphanNeedsOverlap ==
  live \ ({active} \cup {holds[c] : c \in StreamCallers}) # {} => overlap
=============================================================================
