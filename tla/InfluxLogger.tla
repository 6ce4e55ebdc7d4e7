---------------------------- MODULE InfluxLogger ----------------------------
(***************************************************************************)
(* telemetry/logger.py: one thread collects a snapshot, appends it to a    *)
(* bounded buffer and writes the whole buffer.  The items of the buffer    *)
(* are snapshots, until a failed write puts points back; a round that      *)
(* raises is logged and the next one begins.                               *)
(***************************************************************************)
EXTENDS Naturals, Sequences, Functions

CONSTANTS
  BufferMax,               \* BUFFER_MAX_SIZE
  MaxCollected             \* bound of a run: snapshots collected

ASSUME InfluxAssumption == BufferMax \in Nat /\ MaxCollected \in Nat

VARIABLES
  sensorsGiven,            \* the collector was given a SensorManager
  influxClient,            \* _write_api is there
  influxRunning,           \* _running
  influxAt,                \* "idle", "flush" or "write"
  buffer,                  \* _buffer: the number of the snapshot and its form
  points,                  \* points of _flush_buffer
  collected,               \* snapshots collected (history)
  written, refused,        \* snapshots written; snapshots of a failed write
  evicted                  \* snapshots pushed out of the full buffer

influxVars == <<sensorsGiven, influxClient, influxRunning, influxAt, buffer, points,
                collected, written, refused, evicted>>

Item == [n : 1..MaxCollected, form : {"snapshot", "point"}]
Numbers(s) == {s[i].n : i \in DOMAIN s}

InfluxTypeOK ==
  /\ sensorsGiven \in BOOLEAN /\ influxClient \in BOOLEAN /\ influxRunning \in BOOLEAN
  /\ influxAt \in {"idle", "flush", "write"}
  /\ buffer \in Seq(Item) /\ Len(buffer) <= BufferMax
  /\ points \in Seq(Item) /\ Len(points) <= BufferMax
  /\ collected \in 0..MaxCollected
  /\ \A s \in {written, refused, evicted} : s \subseteq 1..collected

\* start(): a client that cannot be made is never tried again.
InfluxInit ==
  /\ sensorsGiven \in BOOLEAN /\ influxClient \in BOOLEAN
  /\ influxRunning = TRUE /\ influxAt = "idle"
  /\ buffer = <<>> /\ points = <<>>
  /\ collected = 0 /\ written = {} /\ refused = {} /\ evicted = {}

-----------------------------------------------------------------------------
\* collect() reads a field of the sensor snapshot that is called otherwise, so
\* with sensors it raises at every round and nothing is appended.
Collects ==
  /\ ~sensorsGiven
  /\ collected < MaxCollected
  /\ collected' = collected + 1

\* Mutant of Buffered: the newest snapshot goes first.
BufferedLeft(item) == <<item>> \o buffer

Buffered(item) == Append(buffer, item)

\* A round: collect, append, and flush what there is if there is a client.
RoundBegins ==
  /\ influxRunning /\ influxAt = "idle"
  /\ Collects
  /\ LET all == Buffered([n |-> collected + 1, form |-> "snapshot"]) IN
       IF Len(all) > BufferMax
         THEN buffer' = Tail(all) /\ evicted' = evicted \cup {Head(all).n}
         ELSE buffer' = all /\ UNCHANGED evicted
  /\ influxAt' = IF influxClient THEN "flush" ELSE "idle"
  /\ UNCHANGED <<sensorsGiven, influxClient, influxRunning, points, written, refused>>

\* Taking one item: a snapshot becomes a point.
FlushConverts ==
  /\ influxAt = "flush" /\ buffer # <<>> /\ Head(buffer).form = "snapshot"
  /\ points' = Append(points, [Head(buffer) EXCEPT !.form = "point"])
  /\ buffer' = Tail(buffer)
  /\ UNCHANGED <<sensorsGiven, influxClient, influxRunning, influxAt, collected, written,
                 refused, evicted>>

\* A point has no to_dict(): the flush raises outside its own handler, and what
\* it has taken so far is gone.
FlushRaises ==
  /\ influxAt = "flush" /\ buffer # <<>> /\ Head(buffer).form = "point"
  /\ buffer' = Tail(buffer)
  /\ points' = <<>>
  /\ influxAt' = "idle"
  /\ UNCHANGED <<sensorsGiven, influxClient, influxRunning, collected, written, refused, evicted>>

FlushWrites ==
  /\ influxAt = "flush" /\ buffer = <<>>
  /\ influxAt' = "write"
  /\ UNCHANGED <<sensorsGiven, influxClient, influxRunning, buffer, points, collected, written,
                 refused, evicted>>

WriteSucceeds ==
  /\ influxAt = "write"
  /\ written' = written \cup Numbers(points)
  /\ points' = <<>> /\ influxAt' = "idle"
  /\ UNCHANGED <<sensorsGiven, influxClient, influxRunning, buffer, collected, refused, evicted>>

\* appendleft of each point in turn turns their order round.
Rebuffered == [i \in 1..Len(points) |-> points[Len(points) + 1 - i]]

WriteFails ==
  /\ influxAt = "write"
  /\ refused' = refused \cup Numbers(points)
  /\ buffer' = Rebuffered
  /\ points' = <<>> /\ influxAt' = "idle"
  /\ UNCHANGED <<sensorsGiven, influxClient, influxRunning, collected, written, evicted>>

\* stop(): the thread ends at the head of its loop.
InfluxStop ==
  /\ influxRunning
  /\ influxRunning' = FALSE
  /\ UNCHANGED <<sensorsGiven, influxClient, influxAt, buffer, points, collected, written,
                 refused, evicted>>

InfluxNext ==
  \/ RoundBegins \/ FlushConverts \/ FlushRaises \/ FlushWrites
  \/ WriteSucceeds \/ WriteFails \/ InfluxStop

InfluxSpec == InfluxInit /\ [][InfluxNext]_influxVars

-----------------------------------------------------------------------------
(***************************************************************************)
(* A snapshot is lost for one of two reasons only: the buffer was full, or *)
(* its own write failed.  One that never was in a failed write is in the   *)
(* buffer, in the points of the round or written, although the points left *)
(* by a failed write raise in the middle of later rounds.                  *)
(***************************************************************************)
LostOnlyAfterItsWriteFailed ==
  \A n \in 1..collected :
    n \in Numbers(buffer) \cup Numbers(points) \cup written \cup refused \cup evicted
=============================================================================
