----------------------------- MODULE LossyStore -----------------------------
(***************************************************************************)
(* What the telemetry thread promises of the snapshots it takes: one is    *)
(* held until it has been delivered, unless the store is full; then one is *)
(* dropped for the one that comes in, and counted.  A delivery may go      *)
(* unacknowledged, and its snapshots are then held on.                     *)
(***************************************************************************)
EXTENDS FiniteSets, Naturals

CONSTANTS
  Items,                   \* the snapshots there are to take
  Capacity

VARIABLES held, delivered, lost

storeVars == <<held, delivered, lost>>

StoreInit == held = {} /\ delivered = {} /\ lost = 0

\* All of items stay, where one more than the capacity may stand for as long as
\* its delivery takes; or one too many for the store goes.
Keep(items) ==
  \/ held' = items /\ Cardinality(items) <= Capacity + 1 /\ lost' = lost
  \/ /\ Cardinality(items) > Capacity
     /\ \E gone \in items : held' = items \ {gone}
     /\ lost' = lost + 1

Take ==
  /\ \E item \in Items \ (held \cup delivered) : Keep(held \cup {item})
  /\ UNCHANGED delivered

Deliver ==
  \E items \in SUBSET held :
    /\ delivered' = delivered \cup items
    /\ held' = held \ items /\ lost' = lost

\* A failed delivery may have arrived.
Fail ==
  /\ \E items \in SUBSET held : delivered' = delivered \cup items
  /\ Keep(held)

StoreNext == Take \/ Deliver \/ Fail

StoreSpec == StoreInit /\ [][StoreNext]_storeVars
=============================================================================
