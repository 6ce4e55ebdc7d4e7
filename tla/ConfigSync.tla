----------------------------- MODULE ConfigSync -----------------------------
(***************************************************************************)
(* connectivity/config_sync.py: the configuration in memory, the cache     *)
(* file, and pull(), one step per access that another thread can see.  The *)
(* cache is written by opening one fixed path, cache_path.tmp, and moving  *)
(* it over the cache; two threads in pull() share that path.               *)
(*                                                                         *)
(* A configuration is its version and its four safety floors.  JSON and    *)
(* float() let NaN through, which compares false with every bound.         *)
(***************************************************************************)
EXTENDS Integers

CONSTANTS
  Pullers,                 \* the threads that call pull()
  MaxVersion,              \* bound on the versions the server publishes
  ServerFloors,            \* the floors the server puts in each version
  FloorMin, FloorMax,      \* the absolute bounds of each floor
  NaN,                     \* the float that is no number
  NoConfig,                \* _config is None
  NoFile, Empty, Broken    \* a file that is missing, truncated, or a mixture

Versions == 1..MaxVersion

\* min_obstacle_clearance_m, imu_tilt_cutoff_deg, watchdog_timeout_ms and
\* max_slope_pct.  The clearance has no upper bound; the watchdog goes through
\* int(), which raises for NaN.
BoundedAbove == {"tilt", "watchdog", "slope"}
FloorNames == BoundedAbove \cup {"clearance"}
Floors == {f \in [FloorNames -> Int \cup {NaN}] : f["watchdog"] # NaN}

ASSUME FloorsAssumption ==
  /\ MaxVersion \in Nat \ {0}
  /\ NaN \notin Int
  /\ FloorMin \in [FloorNames -> Int] /\ FloorMax \in [BoundedAbove -> Int]
  /\ \A name \in BoundedAbove : FloorMin[name] <= FloorMax[name]
  /\ \A v \in Versions : ServerFloors[v] \in Floors

Configs == [version : Versions, floors : Floors]

ASSUME NothingAssumption ==
  /\ {NoConfig, NoFile, Empty, Broken} \cap Configs = {}
  /\ NoFile \notin {Empty, Broken} /\ Empty # Broken

VARIABLES
  serverVersion,           \* the version the server would send now
  memory,                  \* ConfigSync._config
  cache,                   \* the file at cache_path
  tmp,                     \* the file at cache_path.tmp
  pull,                    \* where each thread is in pull()
  got,                     \* the sanitized configuration each thread holds
  file                     \* where the file a thread has open is by now

configVars == <<memory, cache, tmp, pull, got, file>>

Contents == Configs \cup {NoFile, Empty, Broken}

PullLabels == {"idle", "fetch", "store", "open", "dump", "replace",
               "ok", "failed", "raised"}

ConfigTypeOK ==
  /\ serverVersion \in Versions
  /\ memory \in Configs \cup {NoConfig}
  /\ cache \in Contents /\ tmp \in Contents
  /\ pull \in [Pullers -> PullLabels]
  /\ got \in [Pullers -> Configs \cup {NoConfig}]
  /\ file \in [Pullers -> {"closed", "tmp", "cache", "gone"}]

ConfigInit ==
  /\ serverVersion = 1
  /\ memory = NoConfig /\ cache = NoFile /\ tmp = NoFile
  /\ pull = [t \in Pullers |-> "idle"]
  /\ got = [t \in Pullers |-> NoConfig]
  /\ file = [t \in Pullers |-> "closed"]

-----------------------------------------------------------------------------
Below(x, bound) == x # NaN /\ x < bound
Above(x, bound) == x # NaN /\ x > bound

\* Mutant of EnforceFloor: the lower bound of the slope is enforced twice.
LowerOnly(name, x) ==
  IF Below(x, FloorMin[name]) THEN FloorMin[name]
  ELSE IF name \in BoundedAbove \ {"slope"} /\ Above(x, FloorMax[name])
  THEN FloorMax[name] ELSE x

\* One floor of _enforce_absolute_floors.  The slope alone goes through
\* max(lo, min(hi, x)), which is hi for NaN; the comparisons of the others let
\* NaN stand.
EnforceFloor(name, x) ==
  IF Below(x, FloorMin[name]) THEN FloorMin[name]
  ELSE IF name \in BoundedAbove /\ Above(x, FloorMax[name]) THEN FloorMax[name]
  ELSE IF name = "slope" /\ x = NaN THEN FloorMax[name] ELSE x

Sanitized(c) ==
  [c EXCEPT !.floors = [name \in FloorNames |-> EnforceFloor(name, c.floors[name])]]

ServerConfig ==
  [version |-> serverVersion, floors |-> ServerFloors[serverVersion]]

\* get_revision(): 0 while nothing is loaded.
Revision == IF memory = NoConfig THEN 0 ELSE memory.version

At(t, label) == pull[t] = label
Go(t, label) == pull' = [pull EXCEPT ![t] = label]

StartPull(t) ==
  /\ At(t, "idle") /\ Go(t, "fetch")
  /\ UNCHANGED <<memory, cache, tmp, got, file>>

\* RiverSongClient.pull_config returned None, or _validate refused the answer.
FetchNothing(t) ==
  /\ At(t, "fetch") /\ Go(t, "failed")
  /\ UNCHANGED <<memory, cache, tmp, got, file>>

\* _validate does not look into safety_floors: a floor that is neither a number
\* nor the text of one, or a watchdog of NaN, makes _enforce_absolute_floors
\* raise out of pull().
FetchMalformed(t) ==
  /\ At(t, "fetch") /\ Go(t, "raised")
  /\ UNCHANGED <<memory, cache, tmp, got, file>>

FetchConfig(t) ==
  /\ At(t, "fetch") /\ Go(t, "store")
  /\ got' = [got EXCEPT ![t] = Sanitized(ServerConfig)]
  /\ UNCHANGED <<memory, cache, tmp, file>>

Store(t) ==
  /\ At(t, "store") /\ Go(t, "open")
  /\ memory' = got[t]
  /\ UNCHANGED <<cache, tmp, got, file>>

\* Mutant of OpenTmp: the cache file itself is opened for writing.
OpenCache(t) ==
  /\ At(t, "open") /\ Go(t, "dump")
  /\ cache' = Empty
  /\ file' = [file EXCEPT ![t] = "cache"]
  /\ UNCHANGED <<memory, tmp, got>>

\* open(tmp, "w") truncates the file that is there, whoever is writing it.
OpenTmp(t) ==
  /\ At(t, "open") /\ Go(t, "dump")
  /\ tmp' = Empty
  /\ file' = [file EXCEPT ![t] = "tmp"]
  /\ UNCHANGED <<memory, cache, got>>

\* What a file holds after c is written over it from its beginning: c, or c
\* mixed with what another thread has written there.
Overwritten(old, c) == IF old \in {Empty, c} THEN {c} ELSE {c, Broken}

\* json.dump and close, into the file opened, wherever it was moved since.
Dump(t) ==
  /\ At(t, "dump") /\ Go(t, "replace")
  /\ file' = [file EXCEPT ![t] = "closed"]
  /\ IF file[t] = "tmp" THEN tmp' \in Overwritten(tmp, got[t]) ELSE UNCHANGED tmp
  /\ IF file[t] = "cache"
     THEN cache' \in Overwritten(cache, got[t]) ELSE UNCHANGED cache
  /\ UNCHANGED <<memory, got>>

\* The disk refuses the open or the write; the exception leaves pull().
WriteFails(t) ==
  /\ \/ At(t, "open") /\ UNCHANGED tmp
     \/ At(t, "dump") /\ file[t] = "tmp" /\ tmp' = Broken
  /\ Go(t, "raised")
  /\ file' = [file EXCEPT ![t] = "closed"]
  /\ UNCHANGED <<memory, cache, got>>

Moved(place) == [tmp |-> "cache", cache |-> "gone", gone |-> "gone",
                 closed |-> "closed"][place]

\* os.chmod and os.replace: whatever is at the path by now becomes the cache;
\* they raise when the other thread has moved it away.
Replace(t) ==
  /\ At(t, "replace")
  /\ IF tmp = NoFile
     THEN Go(t, "raised") /\ UNCHANGED <<cache, tmp, file>>
     ELSE /\ Go(t, "ok")
          /\ cache' = tmp /\ tmp' = NoFile
          /\ file' = [u \in Pullers |-> Moved(file[u])]
  /\ UNCHANGED <<memory, got>>

PullReturned(t) == pull[t] \in {"ok", "failed", "raised"}

\* load_cache(), when the file is a whole configuration.
CacheLoads == cache \notin {NoFile, Empty, Broken}
=============================================================================
