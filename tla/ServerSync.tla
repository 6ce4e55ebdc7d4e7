----------------------------- MODULE ServerSync -----------------------------
(***************************************************************************)
(* How a new configuration reaches the unit: the CommandStream thread sees *)
(* its version in a header of a long poll and pulls, the main thread pulls *)
(* at boot and on config.refresh.  The process may die at any step and     *)
(* boots again with what the disk holds (Restart=always).                  *)
(***************************************************************************)
EXTENDS ConfigSync

CONSTANTS
  MaxQueued,               \* bound on the config.refresh commands queued
  MaxRestarts,             \* bound on the deaths of the process
  DiskCanFail,             \* writing the cache may raise
  NetworkCanFail           \* a pull may return nothing or something malformed

ASSUME SyncAssumption ==
  /\ Pullers = {"main", "stream"}
  /\ MaxQueued \in Nat /\ MaxRestarts \in Nat
  /\ DiskCanFail \in BOOLEAN /\ NetworkCanFail \in BOOLEAN

VARIABLES
  phase,                   \* main: in ensure(), in _wait_for_config(), or run()
  streamPc,                \* where the CommandStream loop is
  observed,                \* _last_config_version
  answer,                  \* the command the last answer carried
  queued,                  \* config.refresh commands in the queue
  restarts,
  overlapped,              \* history: two pulls were in progress at once
  lapsed                   \* history since boot: a pull of the stream brought
                           \* nothing, or an older version was stored over a newer

syncVars == <<phase, streamPc, observed, answer, queued, restarts, overlapped,
              lapsed>>
vars == <<serverVersion, configVars, syncVars>>

TypeOK ==
  /\ ConfigTypeOK
  /\ phase \in {"boot", "wait", "up"}
  /\ streamPc \in {"poll", "check", "pulling", "deliver"}
  /\ observed \in Nat
  /\ answer \in {"none", "refresh"}
  /\ queued \in Nat /\ restarts \in Nat
  /\ overlapped \in BOOLEAN /\ lapsed \in BOOLEAN

Booted ==
  /\ phase = "boot" /\ streamPc = "poll" /\ observed = 0
  /\ answer = "none" /\ queued = 0 /\ lapsed = FALSE

Init == ConfigInit /\ Booted /\ restarts = 0 /\ overlapped = FALSE

Up == phase = "up"

\* The operator publishes a new version.
ServerPublishes ==
  /\ serverVersion < MaxVersion
  /\ serverVersion' = serverVersion + 1
  /\ UNCHANGED <<configVars, syncVars>>

BeginPull(t) ==
  /\ StartPull(t)
  /\ overlapped' = (overlapped \/ \E u \in Pullers \ {t} : pull[u] # "idle")
  /\ UNCHANGED <<serverVersion, restarts, lapsed, observed, answer>>

-----------------------------------------------------------------------------
(* The steps of pull(), in either thread.                                  *)

PullFails(t) ==
  /\ NetworkCanFail
  /\ FetchNothing(t) \/ FetchMalformed(t)
  /\ lapsed' = (lapsed \/ t = "stream")
  /\ UNCHANGED <<serverVersion, phase, streamPc, observed, answer, queued,
                 restarts, overlapped>>

PullFetches(t) == FetchConfig(t) /\ UNCHANGED <<serverVersion, syncVars>>

PullStores(t) ==
  /\ Store(t)
  /\ lapsed' = (lapsed \/ got[t].version < Revision)
  /\ UNCHANGED <<serverVersion, phase, streamPc, observed, answer, queued,
                 restarts, overlapped>>

PullWrites(t) ==
  /\ OpenTmp(t) \/ Dump(t) \/ Replace(t)
  /\ UNCHANGED <<serverVersion, syncVars>>

PullCannotWrite(t) ==
  DiskCanFail /\ WriteFails(t) /\ UNCHANGED <<serverVersion, syncVars>>

PullStep(t) ==
  \/ PullFails(t) \/ PullFetches(t) \/ PullStores(t) \/ PullWrites(t)
  \/ PullCannotWrite(t)

-----------------------------------------------------------------------------
(* CommandStream._run_loop.                                                *)

Poll(cmd) ==
  /\ Up /\ streamPc = "poll"
  /\ cmd = "refresh" => queued < MaxQueued
  /\ answer' = cmd
  /\ UNCHANGED <<serverVersion, configVars, phase, queued, restarts, overlapped,
                 lapsed>>

\* Mutant of PollAnswered: the header is looked at only with a command.
PollUnobserved(cmd) ==
  /\ Poll(cmd) /\ streamPc' = "deliver" /\ UNCHANGED observed

\* An answer with the version header: a version that differs from the last one
\* seen is remembered, then looked at, before the command is.
PollAnswered(cmd) ==
  /\ Poll(cmd)
  /\ observed' = serverVersion
  /\ streamPc' = IF serverVersion # observed THEN "check" ELSE "deliver"

\* An answer without the header.
PollBare(cmd) ==
  Poll(cmd) /\ streamPc' = "deliver" /\ UNCHANGED observed

\* _on_config_version: pull only what is newer than the memory.
CheckVersion ==
  /\ streamPc = "check"
  /\ IF observed > Revision
     THEN BeginPull("stream") /\ streamPc' = "pulling"
     ELSE /\ streamPc' = "deliver"
          /\ UNCHANGED <<serverVersion, configVars, observed, answer, restarts,
                         overlapped, lapsed>>
  /\ UNCHANGED <<phase, queued>>

\* The pull's result is not looked at; an exception is logged.
StreamPullReturns ==
  /\ streamPc = "pulling" /\ PullReturned("stream")
  /\ Go("stream", "idle") /\ streamPc' = "deliver"
  /\ UNCHANGED <<serverVersion, memory, cache, tmp, got, file, phase, observed,
                 answer, queued, restarts, overlapped, lapsed>>

Deliver ==
  /\ streamPc = "deliver" /\ streamPc' = "poll"
  /\ queued' = IF answer = "refresh" THEN queued + 1 ELSE queued
  /\ answer' = "none"
  /\ UNCHANGED <<serverVersion, configVars, phase, observed, restarts, overlapped,
                 lapsed>>

StreamStep == CheckVersion \/ StreamPullReturns \/ Deliver

-----------------------------------------------------------------------------
(* The main thread.                                                        *)

\* Volatile state is lost; the next process is in ensure().
Die(pulling) ==
  /\ pull' = [t \in Pullers |-> IF t = "main" THEN pulling ELSE "idle"]
  /\ memory' = NoConfig
  /\ got' = [t \in Pullers |-> NoConfig]
  /\ file' = [t \in Pullers |-> "closed"]
  /\ phase' = "boot" /\ streamPc' = "poll" /\ observed' = 0
  /\ answer' = "none" /\ queued' = 0 /\ lapsed' = FALSE
  /\ UNCHANGED <<serverVersion, cache, tmp, overlapped>>

Crash == restarts < MaxRestarts /\ restarts' = restarts + 1 /\ Die("idle")

BootPulls ==
  ~Up /\ BeginPull("main") /\ UNCHANGED <<phase, streamPc, queued>>

\* ensure() and _wait_for_config(): a pull that succeeds boots; one that fails
\* falls back on the cache the first time and is repeated afterwards; one that
\* raises ends the process.
BootContinues ==
  /\ ~Up /\ At("main", "ok")
  /\ Go("main", "idle") /\ phase' = "up"
  /\ UNCHANGED <<serverVersion, memory, cache, tmp, got, file, streamPc, observed,
                 answer, queued, restarts, overlapped, lapsed>>

BootFallsBack ==
  /\ ~Up /\ At("main", "failed")
  /\ Go("main", "idle")
  /\ IF phase = "boot" /\ CacheLoads
     THEN memory' = Sanitized(cache) /\ phase' = "up"
     ELSE phase' = "wait" /\ UNCHANGED memory
  /\ UNCHANGED <<serverVersion, cache, tmp, got, file, streamPc, observed, answer,
                 queued, restarts, overlapped, lapsed>>

BootRaises == ~Up /\ At("main", "raised") /\ Die("idle") /\ UNCHANGED restarts

\* _dispatch of config.refresh.
RefreshStarts ==
  /\ Up /\ queued > 0
  /\ BeginPull("main")
  /\ queued' = queued - 1
  /\ UNCHANGED <<phase, streamPc>>

\* Mutant of RefreshReturns: a refresh falls back on the cache as ensure() does.
RefreshFallsBack ==
  /\ Up /\ PullReturned("main")
  /\ Go("main", "idle")
  /\ memory' = IF At("main", "failed") /\ CacheLoads THEN Sanitized(cache) ELSE memory
  /\ UNCHANGED <<serverVersion, cache, tmp, got, file, syncVars>>

RefreshReturns ==
  /\ Up /\ PullReturned("main")
  /\ Go("main", "idle")
  /\ UNCHANGED <<serverVersion, memory, cache, tmp, got, file, syncVars>>

MainStep ==
  \/ BootPulls \/ BootContinues \/ BootFallsBack \/ BootRaises
  \/ RefreshStarts \/ RefreshReturns

Next ==
  \/ ServerPublishes
  \/ \E t \in Pullers : PullStep(t)
  \/ \E cmd \in {"none", "refresh"} : PollAnswered(cmd) \/ PollBare(cmd)
  \/ StreamStep \/ MainStep \/ Crash

\* Threads are scheduled; answers with the header, configurations and writes
\* that succeed come again and again.
Fairness ==
  /\ WF_vars(StreamStep) /\ WF_vars(MainStep)
  /\ SF_vars(PollAnswered("none"))
  /\ \A t \in Pullers :
       /\ SF_vars(PullFetches(t)) /\ WF_vars(PullStores(t))
       /\ SF_vars(PullWrites(t))

Spec == Init /\ [][Next]_vars
FairSpec == Spec /\ Fairness

-----------------------------------------------------------------------------
\* A floor that is a number is within its bounds; one that is not came as NaN
\* from the server, and is the clearance or the tilt.
WithinFloors(c) ==
  \A name \in FloorNames :
    LET x == c.floors[name] IN
    IF x = NaN
    THEN name \in {"clearance", "tilt"} /\ ServerFloors[c.version][name] = NaN
    ELSE x >= FloorMin[name] /\ (name \in BoundedAbove => x <= FloorMax[name])

\* The absolute floors hold for whatever number is in memory, from the server
\* or from the cache (_enforce_absolute_floors).  What its docstring says, that
\* "even a buggy or malicious server cannot make the device unsafe", is more
\* than the code does: a NaN for the clearance or the tilt stays, and no reading
\* of the tilt is over a cutoff of NaN.
FloorsEnforced == memory # NoConfig => WithinFloors(memory)

\* Writing beside the cache and moving is safe against a death or a full disk
\* at any step: only two pulls in progress at once can leave a cache that does
\* not load.
CacheWhole == cache \in {Empty, Broken} => overlapped

\* A stored configuration is replaced by an older one only by a pull that
\* overlapped a newer one, or by a restart.
NeverOlder ==
  [][memory # NoConfig /\ memory' # NoConfig /\ memory'.version < memory.version
       => overlapped]_vars

\* A published version reaches the memory unless a pull went wrong.
PublishedIsApplied ==
  \A v \in Versions : (serverVersion >= v) ~> (Revision >= v \/ lapsed)

\* docs/RIVER_VECTOR_INTEGRATION_SPEC.md:874: tightenings "apply immediately",
\* the device re-checks the version on every long poll.
PublishedAlwaysApplied ==
  \A v \in Versions : (serverVersion >= v) ~> (Revision >= v)
=============================================================================
