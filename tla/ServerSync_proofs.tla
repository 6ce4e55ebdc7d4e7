------------------------- MODULE ServerSync_proofs -------------------------
(***************************************************************************)
(* Proofs about ServerSync, for any number of versions, any floors the     *)
(* server sends, any number of refreshes and restarts, and a disk and a    *)
(* network that may or may not fail.                                       *)
(***************************************************************************)
EXTENDS ServerSync, TLAPS

(***************************************************************************)
(* The inductive invariant.  A thread from its store to its replace holds  *)
(* a configuration; what memory, files and threads hold is within the      *)
(* floors and no newer than the server's; and while no two pulls have overlapped, the *)
(* one in progress has the temporary file to itself and will not store     *)
(* something older than the memory.                                        *)
(***************************************************************************)
Holding ==
  \A t \in Pullers : pull[t] \in {"store", "open", "dump", "replace"} => got[t] \in Configs

InFloors(c) == c \in Configs => WithinFloors(c)
Published(c) == c \in Configs => c.version <= serverVersion

HeldInFloors ==
  /\ InFloors(memory) /\ InFloors(cache) /\ InFloors(tmp)
  /\ \A t \in Pullers : InFloors(got[t])

HeldPublished ==
  /\ Published(memory) /\ Published(cache) /\ Published(tmp)
  /\ \A t \in Pullers : Published(got[t])

Alone == \A t, u \in Pullers : t # u => pull[t] = "idle" \/ pull[u] = "idle"

FileToItself ==
  \A t \in Pullers : /\ pull[t] = "dump" => tmp = Empty /\ file[t] = "tmp"
                     /\ pull[t] = "replace" => tmp \in Configs

StoresNewer ==
  \A t \in Pullers : pull[t] = "store" /\ memory # NoConfig =>
    memory.version <= got[t].version

BootEmpty ==
  /\ pull["stream"] # "idle" <=> streamPc = "pulling"
  /\ ~Up => streamPc = "poll"
  /\ phase = "boot" /\ pull["main"] \in {"idle", "fetch", "failed"} => memory = NoConfig

LonePull ==
  Alone /\ FileToItself /\ StoresNewer /\ cache \notin {Empty, Broken}

IInv ==
  /\ TypeOK /\ Holding /\ HeldInFloors /\ HeldPublished /\ BootEmpty
  /\ ~overlapped => LonePull

-----------------------------------------------------------------------------
\* A floor of c that is no number came as one from the server.
FromServer(c) ==
  \A name \in FloorNames :
    c.floors[name] = NaN => ServerFloors[c.version][name] = NaN

(***************************************************************************)
(* One floor, enforced: a number goes within its bounds, and NaN stays     *)
(* only for the clearance and the tilt.                                    *)
(***************************************************************************)
LEMMA EnforceFacts ==
  ASSUME NEW name \in FloorNames, NEW x \in Int \cup {NaN}
  PROVE  /\ EnforceFloor(name, x) \in Int \cup {NaN}
         /\ EnforceFloor(name, x) = NaN =>
              x = NaN /\ name \in {"clearance", "tilt", "watchdog"}
         /\ EnforceFloor(name, x) # NaN =>
              /\ EnforceFloor(name, x) >= FloorMin[name]
              /\ name \in BoundedAbove => EnforceFloor(name, x) <= FloorMax[name]
<1>1. /\ NaN \notin Int /\ FloorMin[name] \in Int
      /\ name \in BoundedAbove => FloorMax[name] \in Int /\ FloorMin[name] <= FloorMax[name]
      /\ name \notin BoundedAbove => name = "clearance"
      /\ name \in BoundedAbove => name \in {"tilt", "watchdog", "slope"}
      /\ name = "slope" => name \in BoundedAbove
  BY FloorsAssumption DEF FloorNames, BoundedAbove
<1>2. CASE x = NaN
  BY <1>1, <1>2 DEF EnforceFloor, Below, Above
<1>3. CASE x \in Int
  BY <1>1, <1>3 DEF EnforceFloor, Below, Above
<1>. QED BY <1>2, <1>3

(***************************************************************************)
(* _enforce_absolute_floors brings every floor of a configuration that came*)
(* from the server within its bounds, and leaves the version as it is.     *)
(***************************************************************************)
LEMMA SanitizedFacts ==
  ASSUME NEW c \in Configs, FromServer(c)
  PROVE  /\ Sanitized(c) \in Configs
         /\ WithinFloors(Sanitized(c))
         /\ Sanitized(c).version = c.version
<1>. DEFINE f == [name \in FloorNames |-> EnforceFloor(name, c.floors[name])]
<1>1. /\ c = [version |-> c.version, floors |-> c.floors]
      /\ c.version \in Versions /\ c.floors \in Floors
  BY DEF Configs
<1>2. /\ \A name \in FloorNames : c.floors[name] \in Int \cup {NaN}
      /\ c.floors["watchdog"] # NaN
  BY <1>1 DEF Floors
<1>3. Sanitized(c) = [version |-> c.version, floors |-> f]
  BY <1>1 DEF Sanitized
<1>4. f \in [FloorNames -> Int \cup {NaN}]
  BY <1>2, EnforceFacts
<1>5. f["watchdog"] # NaN
  BY <1>2, EnforceFacts DEF FloorNames, BoundedAbove
<1>6. Sanitized(c) \in Configs
  BY <1>1, <1>3, <1>4, <1>5 DEF Configs, Floors
<1>7. ASSUME NEW name \in FloorNames
      PROVE  IF f[name] = NaN
             THEN name \in {"clearance", "tilt"} /\ ServerFloors[c.version][name] = NaN
             ELSE /\ f[name] >= FloorMin[name]
                  /\ name \in BoundedAbove => f[name] <= FloorMax[name]
  <2>1. f[name] = EnforceFloor(name, c.floors[name]) /\ c.floors[name] \in Int \cup {NaN}
    BY <1>2
  <2>2. CASE f[name] = NaN
    BY <1>2, <2>1, <2>2, EnforceFacts DEF FromServer
  <2>3. CASE f[name] # NaN
    BY <2>1, <2>3, EnforceFacts
  <2>. QED BY <2>2, <2>3
<1>. HIDE DEF f
<1>8. WithinFloors(Sanitized(c))
  BY <1>3, <1>7 DEF WithinFloors
<1>. QED BY <1>3, <1>6, <1>8

(***************************************************************************)
(* What the server answers is a configuration of its version.              *)
(***************************************************************************)
LEMMA ServerConfigFacts ==
  ASSUME serverVersion \in Versions
  PROVE  /\ ServerConfig \in Configs /\ ServerConfig.version = serverVersion
         /\ FromServer(ServerConfig)
BY FloorsAssumption DEF ServerConfig, Configs, FromServer

(***************************************************************************)
(* So is what was brought within the floors before, and is sanitized again *)
(* when the cache is loaded.                                               *)
(***************************************************************************)
LEMMA HeldFromServer ==
  ASSUME NEW c \in Configs, InFloors(c)
  PROVE  FromServer(c)
BY DEF InFloors, WithinFloors, FromServer

(***************************************************************************)
(* The values that stand for no configuration are none, and differ.        *)
(***************************************************************************)
LEMMA NothingFacts ==
  /\ NoConfig \notin Configs /\ NoFile \notin Configs
  /\ Empty \notin Configs /\ Broken \notin Configs
  /\ NoFile # Empty /\ NoFile # Broken /\ Empty # Broken
BY NothingAssumption

(***************************************************************************)
(* Where a file is after the temporary file has been moved over the cache. *)
(***************************************************************************)
LEMMA MovedType ==
  ASSUME NEW place \in {"closed", "tmp", "cache", "gone"}
  PROVE  Moved(place) \in {"closed", "tmp", "cache", "gone"}
BY DEF Moved

(***************************************************************************)
(* A file written over holds what was written, or a mixture.               *)
(***************************************************************************)
LEMMA OverwrittenFacts ==
  ASSUME NEW old, NEW c \in Configs, NEW r \in Overwritten(old, c)
  PROVE  /\ r \in Contents /\ r \in Configs => r = c
         /\ old = Empty => r = c
BY NothingFacts DEF Overwritten, Contents
-----------------------------------------------------------------------------
(***************************************************************************)
(* The steps of pull() keep the types.                                     *)
(***************************************************************************)
LEMMA PullKeepsType ==
  ASSUME TypeOK, Holding, NEW t \in Pullers, PullStep(t)
  PROVE  TypeOK'
<1>. USE NothingFacts DEF TypeOK, ConfigTypeOK, Contents, PullLabels, syncVars
<1>1. CASE PullFails(t)
  BY <1>1 DEF PullFails, FetchNothing, FetchMalformed, Go
<1>2. CASE PullFetches(t)
  BY <1>2, ServerConfigFacts, SanitizedFacts DEF PullFetches, FetchConfig, Go
<1>3. CASE PullStores(t)
  BY <1>3 DEF PullStores, Store, Go
<1>4. CASE PullWrites(t)
  <2>1. CASE OpenTmp(t)
    BY <1>4, <2>1 DEF PullWrites, OpenTmp, Go
  <2>2. CASE Dump(t)
    <3>1. got[t] \in Configs
      BY <2>2 DEF Dump, At, Holding
    <3>2. tmp' = tmp \/ tmp' \in Overwritten(tmp, got[t])
      BY <2>2 DEF Dump
    <3>3. cache' = cache \/ cache' \in Overwritten(cache, got[t])
      BY <2>2 DEF Dump
    <3>4. tmp' \in Contents
      BY <3>1, <3>2 DEF Overwritten
    <3>5. cache' \in Contents
      BY <3>1, <3>3 DEF Overwritten
    <3>. QED BY <1>4, <2>2, <3>4, <3>5 DEF PullWrites, Dump, Go
  <2>3. CASE Replace(t)
    <3>1. file' \in [Pullers -> {"closed", "tmp", "cache", "gone"}]
      BY <2>3, MovedType DEF Replace
    <3>. QED BY <1>4, <2>3, <3>1 DEF PullWrites, Replace, Go
  <2>. QED BY <1>4, <2>1, <2>2, <2>3 DEF PullWrites
<1>5. CASE PullCannotWrite(t)
  BY <1>5 DEF PullCannotWrite, WriteFails, Go
<1>. QED BY <1>1, <1>2, <1>3, <1>4, <1>5 DEF PullStep

(***************************************************************************)
(* So do the steps of the stream thread and of the server.                 *)
(***************************************************************************)
LEMMA StreamKeepsType ==
  ASSUME TypeOK,
         ServerPublishes \/ StreamStep
           \/ \E cmd \in {"none", "refresh"} : PollAnswered(cmd) \/ PollBare(cmd)
  PROVE  TypeOK'
<1>. USE DEF TypeOK, ConfigTypeOK, Contents, PullLabels, configVars, syncVars
<1>0. serverVersion \in Nat /\ "stream" \in Pullers
  BY SyncAssumption, FloorsAssumption DEF Versions
<1>1. CASE ServerPublishes
  BY <1>1, <1>0, FloorsAssumption DEF ServerPublishes, Versions
<1>2. CASE \E cmd \in {"none", "refresh"} : PollAnswered(cmd) \/ PollBare(cmd)
  BY <1>2, <1>0 DEF PollAnswered, PollBare, Poll
<1>3. CASE CheckVersion
  <2>1. CASE observed > Revision
    <3>1. BeginPull("stream") /\ streamPc' = "pulling" /\ UNCHANGED <<phase, queued>>
      BY <1>3, <2>1 DEF CheckVersion
    <3>. QED BY <3>1, <1>0 DEF BeginPull, StartPull, Go
  <2>2. CASE ~(observed > Revision)
    BY <1>3, <2>2 DEF CheckVersion
  <2>. QED BY <2>1, <2>2
<1>4. CASE StreamPullReturns
  BY <1>4, <1>0 DEF StreamPullReturns, Go
<1>5. CASE Deliver
  BY <1>5 DEF Deliver
<1>. QED BY <1>1, <1>2, <1>3, <1>4, <1>5 DEF StreamStep

(***************************************************************************)
(* A process that dies forgets what it holds.                              *)
(***************************************************************************)
LEMMA DieKeepsType ==
  ASSUME TypeOK, Die("idle"), restarts' \in Nat
  PROVE  TypeOK'
BY DEF TypeOK, ConfigTypeOK, PullLabels, Die

(***************************************************************************)
(* And so do the steps of the main thread.                                 *)
(***************************************************************************)
LEMMA MainKeepsType ==
  ASSUME TypeOK, HeldInFloors, MainStep \/ Crash
  PROVE  TypeOK'
<1>. USE DEF TypeOK, ConfigTypeOK, Contents, PullLabels, syncVars
<1>0. "main" \in Pullers
  BY SyncAssumption
<1>1. CASE BootPulls
  BY <1>1, <1>0 DEF BootPulls, BeginPull, StartPull, Go
<1>2. CASE BootContinues
  BY <1>2, <1>0 DEF BootContinues, Go
<1>3. CASE BootFallsBack
  <2>1. memory' \in Configs \cup {NoConfig}
    BY <1>3, SanitizedFacts, HeldFromServer DEF BootFallsBack, CacheLoads, HeldInFloors
  <2>. QED BY <1>3, <1>0, <2>1 DEF BootFallsBack, Go
<1>4. CASE BootRaises
  BY <1>4, DieKeepsType DEF BootRaises
<1>5. CASE RefreshStarts
  BY <1>5, <1>0 DEF RefreshStarts, BeginPull, StartPull, Go
<1>6. CASE RefreshReturns
  BY <1>6, <1>0 DEF RefreshReturns, Go
<1>7. CASE Crash
  BY <1>7, DieKeepsType DEF Crash
<1>. QED BY <1>1, <1>2, <1>3, <1>4, <1>5, <1>6, <1>7 DEF MainStep

-----------------------------------------------------------------------------
(***************************************************************************)
(* The steps of pull() keep what threads and memory hold: a configuration  *)
(* once fetched, within the floors, of a version that was published.       *)
(***************************************************************************)
LEMMA PullKeepsHeld ==
  ASSUME TypeOK, Holding, HeldInFloors, HeldPublished, NEW t \in Pullers, PullStep(t)
  PROVE  Holding' /\ HeldInFloors' /\ HeldPublished'
<1>. USE NothingFacts DEF TypeOK, ConfigTypeOK, Contents, syncVars,
         Holding, HeldInFloors, HeldPublished, InFloors, Published
<1>1. CASE PullFails(t)
  BY <1>1 DEF PullFails, FetchNothing, FetchMalformed, Go
<1>2. CASE PullFetches(t)
  <2>1. /\ Sanitized(ServerConfig) \in Configs
        /\ WithinFloors(Sanitized(ServerConfig))
        /\ Sanitized(ServerConfig).version = serverVersion
    BY ServerConfigFacts, SanitizedFacts
  <2>2. serverVersion <= serverVersion
    BY FloorsAssumption DEF Versions
  <2>. QED BY <1>2, <2>1, <2>2 DEF PullFetches, FetchConfig, Go
<1>3. CASE PullStores(t)
  BY <1>3 DEF PullStores, Store, Go, At
<1>4. CASE PullWrites(t)
  <2>1. CASE OpenTmp(t)
    BY <1>4, <2>1 DEF PullWrites, OpenTmp, Go, At
  <2>2. CASE Dump(t)
    <3>1. got[t] \in Configs
      BY <2>2 DEF Dump, At
    <3>2. tmp' = tmp \/ tmp' \in {got[t], Broken}
      BY <2>2 DEF Dump, Overwritten
    <3>3. cache' = cache \/ cache' \in {got[t], Broken}
      BY <2>2 DEF Dump, Overwritten
    <3>4. UNCHANGED <<serverVersion, memory, got>> /\ At(t, "dump") /\ Go(t, "replace")
      BY <1>4, <2>2 DEF PullWrites, Dump
    <3>. QED BY <3>1, <3>2, <3>3, <3>4 DEF Go, At
  <2>3. CASE Replace(t)
    BY <1>4, <2>3 DEF PullWrites, Replace, Go, At
  <2>. QED BY <1>4, <2>1, <2>2, <2>3 DEF PullWrites
<1>5. CASE PullCannotWrite(t)
  BY <1>5 DEF PullCannotWrite, WriteFails, Go
<1>. QED BY <1>1, <1>2, <1>3, <1>4, <1>5 DEF PullStep

(***************************************************************************)
(* They leave the threads in step: the stream's pull is in progress while  *)
(* its loop waits for it, and nothing is in memory before the first pull   *)
(* of a boot has returned.                                                 *)
(***************************************************************************)
LEMMA PullKeepsBoot ==
  ASSUME TypeOK, BootEmpty, NEW t \in Pullers, PullStep(t)
  PROVE  BootEmpty'
<1>. USE DEF TypeOK, ConfigTypeOK, BootEmpty, syncVars, Up, At, Go
<1>0. t \in {"main", "stream"} /\ "main" \in Pullers /\ "stream" \in Pullers
  BY SyncAssumption
<1>1. CASE PullFails(t)
  BY <1>1, <1>0 DEF PullFails, FetchNothing, FetchMalformed
<1>2. CASE PullFetches(t)
  BY <1>2, <1>0 DEF PullFetches, FetchConfig
<1>3. CASE PullStores(t)
  BY <1>3, <1>0 DEF PullStores, Store
<1>4. CASE PullWrites(t)
  <2>1. CASE OpenTmp(t)
    BY <1>4, <1>0, <2>1 DEF PullWrites, OpenTmp
  <2>2. CASE Dump(t)
    BY <1>4, <1>0, <2>2 DEF PullWrites, Dump
  <2>3. CASE Replace(t)
    BY <1>4, <1>0, <2>3 DEF PullWrites, Replace
  <2>. QED BY <1>4, <2>1, <2>2, <2>3 DEF PullWrites
<1>5. CASE PullCannotWrite(t)
  BY <1>5, <1>0 DEF PullCannotWrite, WriteFails
<1>. QED BY <1>1, <1>2, <1>3, <1>4, <1>5 DEF PullStep

(***************************************************************************)
(* A pull that is alone keeps the temporary file and the cache whole, and  *)
(* stores nothing older than the memory.                                   *)
(***************************************************************************)
LEMMA PullKeepsLone ==
  ASSUME TypeOK, Holding, HeldPublished, LonePull, NEW t \in Pullers, PullStep(t)
  PROVE  LonePull'
<1>. USE NothingFacts DEF TypeOK, ConfigTypeOK, syncVars, Go, At,
         LonePull, Alone, FileToItself, StoresNewer
<1>1. CASE PullFails(t)
  BY <1>1 DEF PullFails, FetchNothing, FetchMalformed
<1>2. CASE PullFetches(t)
  <2>1. Sanitized(ServerConfig).version = serverVersion
    BY ServerConfigFacts, SanitizedFacts
  <2>. QED BY <1>2, <2>1 DEF PullFetches, FetchConfig, HeldPublished, Published
<1>3. CASE PullStores(t)
  BY <1>3 DEF PullStores, Store
<1>4. CASE PullWrites(t)
  <2>1. CASE OpenTmp(t)
    BY <1>4, <2>1 DEF PullWrites, OpenTmp
  <2>2. CASE Dump(t)
    <3>1. tmp = Empty /\ file[t] = "tmp" /\ got[t] \in Configs
      BY <2>2 DEF Dump, Holding
    <3>2. tmp' = got[t] /\ cache' = cache
      BY <2>2, <3>1 DEF Dump, Overwritten
    <3>. QED BY <1>4, <2>2, <3>1, <3>2 DEF PullWrites, Dump
  <2>3. CASE Replace(t)
    BY <1>4, <2>3 DEF PullWrites, Replace
  <2>. QED BY <1>4, <2>1, <2>2, <2>3 DEF PullWrites
<1>5. CASE PullCannotWrite(t)
  BY <1>5 DEF PullCannotWrite, WriteFails
<1>. QED BY <1>1, <1>2, <1>3, <1>4, <1>5 DEF PullStep

-----------------------------------------------------------------------------
(***************************************************************************)
(* A pull that begins holds nothing new, and is alone unless the flag is   *)
(* raised.                                                                 *)
(***************************************************************************)
LEMMA BeginKeeps ==
  ASSUME IInv, NEW t \in Pullers, BeginPull(t)
  PROVE  /\ Holding' /\ HeldInFloors' /\ HeldPublished'
         /\ ~overlapped' => LonePull'
<1>. USE DEF IInv, TypeOK, ConfigTypeOK, BeginPull, StartPull, Go, At
<1>1. Holding' /\ HeldInFloors' /\ HeldPublished'
  BY DEF Holding, HeldInFloors, HeldPublished, InFloors, Published
<1>2. ASSUME ~overlapped' PROVE LonePull'
  <2>1. ~overlapped /\ \A u \in Pullers \ {t} : pull[u] = "idle"
    BY <1>2
  <2>2. LonePull
    BY <2>1
  <2>. QED BY <2>1, <2>2 DEF LonePull, Alone, FileToItself, StoresNewer
<1>. QED BY <1>1, <1>2

(***************************************************************************)
(* Nor does a step that leaves the configurations where they are, and lets *)
(* at most one thread out of its pull.                                     *)
(***************************************************************************)
LEMMA QuietKeeps ==
  ASSUME IInv, NEW t \in Pullers,
         UNCHANGED <<memory, cache, tmp, got, file, overlapped>>,
         serverVersion' \in Versions, serverVersion <= serverVersion',
         pull' = pull \/ pull' = [pull EXCEPT ![t] = "idle"]
  PROVE  /\ Holding' /\ HeldInFloors' /\ HeldPublished'
         /\ ~overlapped' => LonePull'
<1>. USE DEF IInv, TypeOK, ConfigTypeOK
<1>1. Holding' /\ HeldInFloors'
  BY DEF Holding, HeldInFloors, InFloors
<1>2. HeldPublished'
  <2>1. \A c \in Configs : c.version \in Int
    BY FloorsAssumption DEF Configs, Versions
  <2>2. serverVersion \in Int /\ serverVersion' \in Int
    BY FloorsAssumption DEF Versions
  <2>3. \A c : Published(c) => (c \in Configs => c.version <= serverVersion')
    BY <2>1, <2>2 DEF Published
  <2>. QED BY <2>3 DEF HeldPublished, Published
<1>3. ASSUME ~overlapped' PROVE LonePull'
  BY <1>3 DEF LonePull, Alone, FileToItself, StoresNewer
<1>. QED BY <1>1, <1>2, <1>3

(***************************************************************************)
(* Every step preserves the invariant.                                     *)
(***************************************************************************)
LEMMA DieKeeps ==
  ASSUME IInv, Die("idle")
  PROVE  /\ Holding' /\ HeldInFloors' /\ HeldPublished' /\ BootEmpty'
         /\ ~overlapped' => LonePull'
<1>. USE NothingFacts DEF IInv, TypeOK, ConfigTypeOK, Die
<1>0. "main" \in Pullers /\ "stream" \in Pullers
  BY SyncAssumption
<1>1. Holding' /\ HeldInFloors' /\ HeldPublished'
  BY DEF Holding, HeldInFloors, HeldPublished, InFloors, Published
<1>2. BootEmpty'
  BY <1>0 DEF BootEmpty, Up
<1>3. ASSUME ~overlapped' PROVE LonePull'
  BY <1>3 DEF LonePull, Alone, FileToItself, StoresNewer
<1>. QED BY <1>1, <1>2, <1>3

\* The steps of the stream thread keep the invariant.
LEMMA StreamKeeps ==
  ASSUME IInv,
         ServerPublishes \/ StreamStep
           \/ \E cmd \in {"none", "refresh"} : PollAnswered(cmd) \/ PollBare(cmd)
  PROVE  IInv'
<1>0. /\ serverVersion \in Nat /\ serverVersion <= serverVersion
      /\ "stream" \in Pullers /\ "main" \in Pullers
  BY SyncAssumption, FloorsAssumption DEF IInv, TypeOK, ConfigTypeOK, Versions
<1>1. TypeOK /\ TypeOK'
  BY StreamKeepsType DEF IInv
<1>2. CASE ServerPublishes
  <2>1. /\ UNCHANGED <<memory, cache, tmp, got, file, overlapped, pull, phase, streamPc>>
        /\ serverVersion' = serverVersion + 1
    BY <1>2 DEF ServerPublishes, configVars, syncVars
  <2>2. serverVersion' \in Versions /\ serverVersion <= serverVersion'
    BY <1>0, <1>1, <2>1 DEF TypeOK, ConfigTypeOK
  <2>. QED BY <1>0, <1>1, <2>1, <2>2, QuietKeeps DEF IInv, BootEmpty, Up
<1>3. CASE \E cmd \in {"none", "refresh"} : PollAnswered(cmd) \/ PollBare(cmd)
  <2>1. /\ UNCHANGED <<memory, cache, tmp, got, file, overlapped, pull, phase, serverVersion>>
        /\ Up /\ streamPc = "poll" /\ streamPc' \in {"check", "deliver"}
    BY <1>3 DEF PollAnswered, PollBare, Poll, configVars
  <2>. QED BY <1>0, <1>1, <2>1, QuietKeeps DEF IInv, BootEmpty, Up, TypeOK, ConfigTypeOK
<1>4. CASE CheckVersion
  <2>1. CASE observed > Revision
    <3>1. /\ BeginPull("stream") /\ streamPc' = "pulling" /\ streamPc = "check"
          /\ UNCHANGED <<phase, queued>>
      BY <1>4, <2>1 DEF CheckVersion
    <3>2. BootEmpty'
      BY <1>0, <1>1, <3>1 DEF IInv, BootEmpty, Up, BeginPull, StartPull, Go, At, TypeOK, ConfigTypeOK
    <3>. QED BY <1>0, <1>1, <3>1, <3>2, BeginKeeps DEF IInv
  <2>2. CASE ~(observed > Revision)
    <3>1. /\ UNCHANGED <<memory, cache, tmp, got, file, overlapped, pull, phase, serverVersion>>
          /\ streamPc = "check" /\ streamPc' = "deliver"
      BY <1>4, <2>2 DEF CheckVersion, configVars
    <3>. QED BY <1>0, <1>1, <3>1, QuietKeeps DEF IInv, BootEmpty, Up, TypeOK, ConfigTypeOK
  <2>. QED BY <2>1, <2>2
<1>5. CASE StreamPullReturns
  <2>1. BootEmpty'
    BY <1>0, <1>1, <1>5 DEF StreamPullReturns, IInv, BootEmpty, Up, Go, TypeOK, ConfigTypeOK
  <2>. QED BY <1>0, <1>1, <1>5, <2>1, QuietKeeps
           DEF StreamPullReturns, Go, IInv, TypeOK, ConfigTypeOK
<1>6. CASE Deliver
  <2>1. /\ UNCHANGED <<memory, cache, tmp, got, file, overlapped, pull, phase, serverVersion>>
        /\ streamPc = "deliver" /\ streamPc' = "poll"
    BY <1>6 DEF Deliver, configVars
  <2>. QED BY <1>0, <1>1, <2>1, QuietKeeps DEF IInv, BootEmpty, Up, TypeOK, ConfigTypeOK
<1>. QED BY <1>2, <1>3, <1>4, <1>5, <1>6 DEF StreamStep

\* So do those of the main thread.
LEMMA MainKeeps ==
  ASSUME IInv, MainStep \/ Crash
  PROVE  IInv'
<1>0. /\ serverVersion \in Nat /\ serverVersion <= serverVersion
      /\ "stream" \in Pullers /\ "main" \in Pullers
  BY SyncAssumption, FloorsAssumption DEF IInv, TypeOK, ConfigTypeOK, Versions
<1>1. TypeOK /\ TypeOK'
  BY MainKeepsType DEF IInv
<1>2. CASE BootPulls
  <2>1. BootEmpty'
    BY <1>0, <1>1, <1>2 DEF BootPulls, IInv, BootEmpty, Up, BeginPull, StartPull, Go, At,
                            TypeOK, ConfigTypeOK
  <2>. QED BY <1>0, <1>1, <1>2, <2>1, BeginKeeps DEF IInv, BootPulls
<1>3. CASE BootContinues
  <2>1. BootEmpty'
    BY <1>0, <1>1, <1>3 DEF BootContinues, IInv, BootEmpty, Up, Go, TypeOK, ConfigTypeOK
  <2>. QED BY <1>0, <1>1, <1>3, <2>1, QuietKeeps
           DEF BootContinues, Go, IInv, TypeOK, ConfigTypeOK
<1>4. CASE BootFallsBack
  <2>1. CASE phase = "boot" /\ CacheLoads
    <3>1. /\ ~Up /\ At("main", "failed") /\ Go("main", "idle")
          /\ memory' = Sanitized(cache) /\ phase' = "up"
          /\ UNCHANGED <<serverVersion, cache, tmp, got, file, streamPc, overlapped>>
      BY <1>4, <2>1 DEF BootFallsBack
    <3>2. cache \in Configs
      BY <1>1, <2>1 DEF CacheLoads, TypeOK, ConfigTypeOK, Contents
    <3>3. /\ memory' \in Configs /\ WithinFloors(memory') /\ memory'.version = cache.version
      BY <3>1, <3>2, SanitizedFacts, HeldFromServer DEF IInv, HeldInFloors
    <3>4. pull["stream"] = "idle"
      BY <1>0, <1>1, <3>1 DEF IInv, BootEmpty, TypeOK, ConfigTypeOK
    <3>5. Holding' /\ HeldInFloors'
      BY <1>1, <3>1, <3>3 DEF IInv, Holding, HeldInFloors, InFloors, Go, TypeOK, ConfigTypeOK
    <3>6. HeldPublished'
      BY <1>1, <3>1, <3>2, <3>3 DEF IInv, HeldPublished, Published
    <3>7. BootEmpty'
      BY <1>0, <1>1, <3>1, <3>4 DEF IInv, BootEmpty, Up, Go, TypeOK, ConfigTypeOK
    <3>8. \A t \in Pullers : pull'[t] = "idle"
      BY <1>1, <3>1, <3>4, SyncAssumption DEF Go, TypeOK, ConfigTypeOK
    <3>9. ASSUME ~overlapped' PROVE LonePull'
      BY <3>1, <3>8, <3>9 DEF IInv, LonePull, Alone, FileToItself, StoresNewer
    <3>. QED BY <1>1, <3>5, <3>6, <3>7, <3>9 DEF IInv
  <2>2. CASE ~(phase = "boot" /\ CacheLoads)
    <3>1. /\ ~Up /\ Go("main", "idle") /\ phase' = "wait" /\ UNCHANGED memory
          /\ UNCHANGED <<serverVersion, cache, tmp, got, file, streamPc, overlapped>>
      BY <1>4, <2>2 DEF BootFallsBack
    <3>2. BootEmpty'
      BY <1>0, <1>1, <3>1 DEF IInv, BootEmpty, Up, Go, TypeOK, ConfigTypeOK
    <3>. QED BY <1>0, <1>1, <3>1, <3>2, QuietKeeps DEF Go, IInv, TypeOK, ConfigTypeOK
  <2>. QED BY <2>1, <2>2
<1>5. CASE BootRaises
  BY <1>1, <1>5, DieKeeps DEF BootRaises, IInv
<1>6. CASE RefreshStarts
  <2>1. BootEmpty'
    BY <1>0, <1>1, <1>6 DEF RefreshStarts, IInv, BootEmpty, Up, BeginPull, StartPull, Go, At,
                            TypeOK, ConfigTypeOK
  <2>. QED BY <1>0, <1>1, <1>6, <2>1, BeginKeeps DEF IInv, RefreshStarts
<1>7. CASE RefreshReturns
  <2>1. BootEmpty'
    BY <1>0, <1>1, <1>7 DEF RefreshReturns, IInv, BootEmpty, Up, Go, TypeOK, ConfigTypeOK, syncVars
  <2>. QED BY <1>0, <1>1, <1>7, <2>1, QuietKeeps
           DEF RefreshReturns, Go, IInv, TypeOK, ConfigTypeOK, syncVars
<1>8. CASE Crash
  BY <1>1, <1>8, DieKeeps DEF Crash, IInv
<1>. QED BY <1>2, <1>3, <1>4, <1>5, <1>6, <1>7, <1>8 DEF MainStep

\* Every step keeps the invariant.
LEMMA NextKeeps ==
  ASSUME IInv, [Next]_vars
  PROVE  IInv'
<1>1. ASSUME NEW t \in Pullers, PullStep(t) PROVE IInv'
  <2>1. TypeOK'
    BY <1>1, PullKeepsType DEF IInv
  <2>2. Holding' /\ HeldInFloors' /\ HeldPublished'
    BY <1>1, PullKeepsHeld DEF IInv
  <2>3. BootEmpty'
    BY <1>1, PullKeepsBoot DEF IInv
  <2>4. UNCHANGED overlapped
    BY <1>1 DEF PullStep, PullFails, PullFetches, PullStores, PullWrites, PullCannotWrite, syncVars
  <2>5. ~overlapped' => LonePull'
    BY <1>1, <2>4, PullKeepsLone DEF IInv
  <2>. QED BY <2>1, <2>2, <2>3, <2>5 DEF IInv
<1>2. CASE UNCHANGED vars
  BY <1>2 DEF vars, configVars, syncVars, IInv, TypeOK, ConfigTypeOK, Holding, HeldInFloors,
              HeldPublished, InFloors, Published, BootEmpty, Up, LonePull, Alone, FileToItself,
              StoresNewer
<1>. QED BY <1>1, <1>2, StreamKeeps, MainKeeps DEF Next

\* The invariant holds at the start.
LEMMA InitHolds == Init => IInv
<1>. SUFFICES ASSUME Init PROVE IInv
  OBVIOUS
<1>0. 1 \in Versions /\ "main" \in Pullers /\ "stream" \in Pullers
  BY SyncAssumption, FloorsAssumption DEF Versions
<1>. USE NothingFacts, <1>0 DEF Init, ConfigInit, Booted
<1>1. TypeOK
  BY DEF TypeOK, ConfigTypeOK, Contents, PullLabels
<1>2. Holding /\ HeldInFloors /\ HeldPublished
  BY DEF Holding, HeldInFloors, HeldPublished, InFloors, Published
<1>3. BootEmpty
  BY DEF BootEmpty, Up
<1>4. LonePull
  BY DEF LonePull, Alone, FileToItself, StoresNewer
<1>. QED BY <1>1, <1>2, <1>3, <1>4 DEF IInv

(***************************************************************************)
(* The invariant holds in every behaviour.                                 *)
(***************************************************************************)
THEOREM SyncInvariant == Spec => []IInv
BY InitHolds, NextKeeps, PTL DEF Spec

(***************************************************************************)
(* Whatever numbers the server sends, or NaN, every floor in memory is     *)
(* within its bounds, but for a clearance or a tilt the server sent as NaN *)
(* (config_sync.py, _enforce_absolute_floors).                             *)
(***************************************************************************)
THEOREM FloorsTheorem == Spec => []FloorsEnforced
<1>1. IInv => FloorsEnforced
  BY DEF IInv, TypeOK, ConfigTypeOK, HeldInFloors, InFloors, FloorsEnforced
<1>. QED BY <1>1, SyncInvariant, PTL

(***************************************************************************)
(* Whatever dies or fails, the cache file loads unless two pulls were in   *)
(* progress at once (config_sync.py, _save_cache).                         *)
(***************************************************************************)
THEOREM CacheTheorem == Spec => []CacheWhole
<1>1. IInv => CacheWhole
  BY DEF IInv, LonePull, CacheWhole
<1>. QED BY <1>1, SyncInvariant, PTL

(***************************************************************************)
(* No step replaces the configuration in memory by an older one, unless    *)
(* two pulls were in progress at once (config_sync.py, pull).              *)
(***************************************************************************)
THEOREM NeverOlderTheorem == Spec => NeverOlder
<1>. DEFINE A == memory # NoConfig /\ memory' # NoConfig /\ memory'.version < memory.version
                   => overlapped
<1>1. ASSUME IInv, [Next]_vars PROVE [A]_vars
  <2>. SUFFICES ASSUME memory # NoConfig, memory' # NoConfig, ~overlapped
                PROVE  memory' = memory \/ memory.version <= memory'.version
    <3>1. IInv'
      BY <1>1, NextKeeps
    <3>2. \A c \in Configs : c.version \in Int
      BY FloorsAssumption DEF Configs, Versions
    <3>3. memory # NoConfig => memory.version \in Int
      BY <1>1, <3>2 DEF IInv, TypeOK, ConfigTypeOK
    <3>4. memory' # NoConfig => memory'.version \in Int
      BY <3>1, <3>2 DEF IInv, TypeOK, ConfigTypeOK
    <3>. QED BY <3>3, <3>4
  <2>1. CASE \E t \in Pullers : PullStores(t)
    BY <1>1, <2>1 DEF PullStores, Store, At, IInv, LonePull, StoresNewer
  <2>2. CASE BootFallsBack
    BY <1>1, <2>2, SyncAssumption DEF BootFallsBack, At, IInv, BootEmpty
  <2>3. CASE BootRaises \/ Crash
    BY <2>3 DEF BootRaises, Crash, Die
  <2>4. CASE UNCHANGED memory
    BY <2>4
  <2>5. \/ \E t \in Pullers : PullStores(t)
        \/ BootFallsBack \/ BootRaises \/ Crash \/ UNCHANGED memory
    <3>1. ASSUME NEW t \in Pullers, PullStep(t) PROVE PullStores(t) \/ UNCHANGED memory
      BY <3>1 DEF PullStep, PullFails, FetchNothing, FetchMalformed, PullFetches, FetchConfig,
                  PullWrites, OpenTmp, Dump, Replace, PullCannotWrite, WriteFails
    <3>2. ASSUME ServerPublishes \/ StreamStep
             \/ \E cmd \in {"none", "refresh"} : PollAnswered(cmd) \/ PollBare(cmd)
          PROVE  UNCHANGED memory
      BY <3>2 DEF ServerPublishes, StreamStep, CheckVersion, StreamPullReturns, Deliver,
                  PollAnswered, PollBare, Poll, BeginPull, StartPull, configVars
    <3>3. ASSUME MainStep PROVE BootFallsBack \/ BootRaises \/ UNCHANGED memory
      BY <3>3 DEF MainStep, BootPulls, BootContinues, RefreshStarts, RefreshReturns,
                  BeginPull, StartPull
    <3>4. CASE UNCHANGED vars
      BY <3>4 DEF vars, configVars
    <3>. QED BY <1>1, <3>1, <3>2, <3>3, <3>4 DEF Next
  <2>. QED BY <2>1, <2>2, <2>3, <2>4, <2>5
<1>. QED BY <1>1, SyncInvariant, PTL DEF Spec, NeverOlder
=============================================================================
