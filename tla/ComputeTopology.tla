-------------------------- MODULE ComputeTopology --------------------------
(***************************************************************************)
(* core/compute_topology.py: which roles a node runs itself and which it   *)
(* reaches at a peer.  A profile is read from the bootstrap file and boot  *)
(* refuses it unless it has no problem.  The URL of a peer is left out:    *)
(* peers is the set of the roles that have one.                            *)
(***************************************************************************)
EXTENDS Naturals, Sequences, FiniteSets, Functions

Roles == {"control", "vision"}              \* ALL_ROLES
SafetyCriticalRoles == {"control"}
Topologies == {"solo", "split"}
AnyRole == Roles \cup {"unknown"}           \* what a file can name

DefaultSolo == [topology |-> "solo", roles |-> <<"control", "vision">>, peers |-> {}]

\* from_dict: no block at all, or a block without roles, means every role.
FromDict(block) ==
  IF block = <<>> THEN DefaultSolo
  ELSE IF block.roles = <<>> THEN [block EXCEPT !.roles = DefaultSolo.roles]
  ELSE block

OwnsRole(p, role) == role \in Range(p.roles)
LocationOf(p, role) ==
  IF OwnsRole(p, role) THEN "local"
  ELSE IF role \in p.peers THEN "peer" ELSE "unavailable"

\* problems(): the rules a profile breaks.
Problems(p) ==
  {rule \in {"topology", "no roles", "unknown role", "duplicate role", "unknown peer",
             "owned and peered", "unsafe peer", "solo misses a role", "solo has peers"} :
     \/ rule = "topology" /\ p.topology \notin Topologies
     \/ rule = "no roles" /\ p.roles = <<>>
     \/ rule = "unknown role" /\ ~(Range(p.roles) \subseteq Roles)
     \/ rule = "duplicate role" /\ Cardinality(Range(p.roles)) # Len(p.roles)
     \/ rule = "unknown peer" /\ ~(p.peers \subseteq Roles)
     \/ rule = "owned and peered" /\ p.peers \cap Range(p.roles) # {}
     \/ rule = "unsafe peer" /\ p.peers \cap SafetyCriticalRoles # {}
     \/ rule = "solo misses a role" /\ p.topology = "solo" /\ ~(Roles \subseteq Range(p.roles))
     \/ rule = "solo has peers" /\ p.topology = "solo" /\ p.peers # {}}

Validated(p) == Problems(p) = {}

\* What boot() goes on with: a valid profile that owns control.
Boots(p) == Validated(p) /\ OwnsRole(p, "control")

\* The blocks of a file, up to two roles long.
ProfileBlocks ==
  {<<>>} \cup
  [topology : Topologies \cup {"unknown"},
   roles : {<<>>} \cup {<<r>> : r \in AnyRole} \cup {<<r, s>> : r, s \in AnyRole},
   peers : SUBSET AnyRole]

Profiles == {FromDict(block) : block \in ProfileBlocks}
=============================================================================
