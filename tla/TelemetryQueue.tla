--------------------------- MODULE TelemetryQueue ---------------------------
(***************************************************************************)
(* connectivity/telemetry_thread.py: snapshots built at the cadence of the *)
(* operating mode, kept in a bounded queue while the server is out of      *)
(* reach and sent in batches afterwards.  A snapshot is its number.        *)
(*                                                                         *)
(* One thread does all of it; the probe, the mode and the outcome of a     *)
(* push change under it.                                                   *)
(***************************************************************************)
EXTENDS Naturals, Sequences, FiniteSets, Functions

CONSTANTS
  QueueMax,                \* TELEMETRY_QUEUE_MAX
  BatchMax,                \* TELEMETRY_BATCH_MAX
  MaxBuilt                 \* bound of a run: snapshots built

ASSUME BoundsAssumption ==
  QueueMax \in Nat \ {0} /\ BatchMax \in Nat \ {0} /\ MaxBuilt \in Nat

VARIABLES
  pushing,                 \* _running
  cadenced,                \* CADENCE has an interval for the mode
  pushOnline,              \* ConnectivityProbe.is_online
  queue,                   \* _queue
  batch,                   \* the batch being pushed; empty between two ticks
  dropped,                 \* _dropped_count
  built,                   \* snapshots built so far (history)
  acked,                   \* snapshots whose push returned True (history)
  arrived                  \* snapshots the server has seen

queueVars == <<pushing, cadenced, pushOnline, queue, batch, dropped, built, acked, arrived>>

QueueTypeOK ==
  /\ pushing \in BOOLEAN /\ cadenced \in BOOLEAN /\ pushOnline \in BOOLEAN
  /\ built \in Nat /\ dropped \in Nat /\ acked \in Nat
  /\ queue \in Seq(1..built) /\ Len(queue) <= QueueMax
  /\ batch \in Seq(1..built) /\ Len(batch) <= BatchMax
  /\ arrived \subseteq 1..built

QueueInit ==
  /\ pushing = TRUE /\ cadenced \in BOOLEAN /\ pushOnline \in BOOLEAN
  /\ queue = <<>> /\ batch = <<>>
  /\ dropped = 0 /\ built = 0 /\ acked = 0 /\ arrived = {}

-----------------------------------------------------------------------------
\* How many of the oldest go when n snapshots stand in the queue.
Overflow(n) == IF n > QueueMax THEN n - QueueMax ELSE 0

\* Mutant of Enqueue: the bound is tested after the append, so nothing counts.
EnqueueUncounted(new) ==
  LET all == queue \o new IN
  /\ queue' = SubSeq(all, Overflow(Len(all)) + 1, Len(all))
  /\ UNCHANGED dropped

\* _enqueue, once for each of new: the deque evicts from the left.
Enqueue(new) ==
  LET all == queue \o new IN
  /\ queue' = SubSeq(all, Overflow(Len(all)) + 1, Len(all))
  /\ dropped' = dropped + Overflow(Len(all))

TickStarts == pushing /\ cadenced /\ batch = <<>> /\ built < MaxBuilt

\* _tick without a connection.
TickOffline ==
  /\ TickStarts
  /\ ~pushOnline
  /\ built' = built + 1
  /\ Enqueue(<<built + 1>>)
  /\ UNCHANGED <<pushing, cadenced, pushOnline, batch, acked, arrived>>

\* How much of the queue goes out with the new snapshot.
Backlog == IF Len(queue) < BatchMax - 1 THEN Len(queue) ELSE BatchMax - 1

\* _tick with one: the oldest of the backlog, then the new snapshot.
TickOnline ==
  /\ TickStarts
  /\ pushOnline
  /\ built' = built + 1
  /\ batch' = SubSeq(queue, 1, Backlog) \o <<built + 1>>
  /\ queue' = SubSeq(queue, Backlog + 1, Len(queue))
  /\ UNCHANGED <<pushing, cadenced, pushOnline, dropped, acked, arrived>>

\* push_telemetry_batch() returned True.
PushSucceeds ==
  /\ batch # <<>>
  /\ arrived' = arrived \cup Range(batch)
  /\ acked' = acked + Len(batch)
  /\ batch' = <<>>
  /\ UNCHANGED <<pushing, cadenced, pushOnline, queue, dropped, built>>

\* Mutant of PushFails: only the snapshot of this tick is kept.
PushFailsForgetsBacklog ==
  /\ batch # <<>>
  /\ Enqueue(<<batch[Len(batch)]>>)
  /\ batch' = <<>>
  /\ UNCHANGED <<pushing, cadenced, pushOnline, acked, built, arrived>>

\* It returned False; an answer that was lost or late leaves the batch with the
\* server all the same.
PushFails ==
  /\ batch # <<>>
  /\ Enqueue(batch)
  /\ batch' = <<>>
  /\ \/ UNCHANGED arrived
     \/ arrived' = arrived \cup Range(batch)
  /\ UNCHANGED <<pushing, cadenced, pushOnline, acked, built>>

\* stop(): a tick already begun goes on to its end.
QueueStop ==
  /\ pushing
  /\ pushing' = FALSE
  /\ UNCHANGED <<cadenced, pushOnline, queue, batch, dropped, built, acked, arrived>>

\* The probe thread and the mode manager.
ProbeAnswers ==
  /\ pushOnline' = ~pushOnline
  /\ UNCHANGED <<pushing, cadenced, queue, batch, dropped, built, acked, arrived>>

ModeChanges ==
  /\ cadenced' = ~cadenced
  /\ UNCHANGED <<pushing, pushOnline, queue, batch, dropped, built, acked, arrived>>

QueueNext ==
  \/ TickOffline \/ TickOnline \/ PushSucceeds \/ PushFails
  \/ QueueStop \/ ProbeAnswers \/ ModeChanges

QueueSpec == QueueInit /\ [][QueueNext]_queueVars

-----------------------------------------------------------------------------
Held == Range(queue) \cup Range(batch)

(***************************************************************************)
(* Every snapshot built is queued, in flight, acknowledged or counted as   *)
(* dropped, exactly once: the counter that is tested before the append and *)
(* the eviction the deque does by itself agree, and a batch that fails     *)
(* comes back whole.                                                       *)
(***************************************************************************)
EverySnapshotAccounted ==
  built = Len(queue) + Len(batch) + acked + dropped

(***************************************************************************)
(* The thread implements the lossy store: nothing held goes unless it was  *)
(* delivered or the store was full, and then one at a time and counted,    *)
(* although a failed push puts a whole batch back at once.                 *)
(***************************************************************************)
Store == INSTANCE LossyStore
           WITH Items <- 1..MaxBuilt, Capacity <- QueueMax,
                held <- Held, delivered <- arrived, lost <- dropped
ImplementsLossyStore == Store!StoreSpec
=============================================================================
