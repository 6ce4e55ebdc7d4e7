------------------------------- MODULE Uplink -------------------------------
(***************************************************************************)
(* How a boot gets to the server: connectivity/wifi_manager.py tries the   *)
(* known networks in turn while wpa_supplicant, which is given all of      *)
(* them, associates as it sees fit; then connectivity_probe.py keeps the   *)
(* URL that answers, from its own thread.  Networks are numbered in the    *)
(* order of their priority.                                                *)
(***************************************************************************)
EXTENDS Naturals

CONSTANT NumNetworks       \* networks of the bootstrap file

\* With none connect() raises at once.
ASSUME UplinkAssumption == NumNetworks \in Nat \ {0}

VARIABLES
  inRange,                 \* networks in range
  association,             \* network wpa_supplicant is associated with, 0 is none
  wifiAt,                  \* connect(): "start", "trying", "joined", "raised"
  trying,                  \* the network _associate waits for
  wifiRefused,             \* wpa_cli or the file failed in this connect() (history)
  rangeChanged,            \* the networks in range changed in it (history)
  astray,                  \* wpa_supplicant was slow or took another network than
                           \* the best in range in it (history)
  serversUp,               \* URLs that would answer now
  probeAt,                 \* probe_once: "idle", "primary", "fallback"
  tier, activeUrl          \* _tier and _active_url, set under one lock

wifiVars == <<inRange, association, wifiAt, trying, wifiRefused, rangeChanged, astray>>
probeVars == <<serversUp, probeAt, tier, activeUrl>>
uplinkVars == <<wifiVars, probeVars>>

Known == 1..NumNetworks
Urls == {"primary", "fallback"}

UplinkTypeOK ==
  /\ inRange \subseteq Known /\ association \in inRange \cup {0}
  /\ wifiAt \in {"start", "trying", "joined", "raised"} /\ trying \in Known
  /\ wifiRefused \in BOOLEAN /\ rangeChanged \in BOOLEAN /\ astray \in BOOLEAN
  /\ serversUp \subseteq Urls /\ probeAt \in {"idle"} \cup Urls
  /\ tier \in {"INTERNET", "LAN", "OFFLINE"} /\ activeUrl \in Urls \cup {"none"}

UplinkInit ==
  /\ inRange \in SUBSET Known /\ association = 0
  /\ wifiAt = "start" /\ trying = 1
  /\ wifiRefused = FALSE /\ rangeChanged = FALSE /\ astray = FALSE
  /\ serversUp = {} /\ probeAt = "idle"
  /\ tier = "OFFLINE" /\ activeUrl = "none"

-----------------------------------------------------------------------------
\* wpa_supplicant goes for the best network in range, before connect() too: the
\* file of the last boot is there.  With a wrong key for it, it takes another.
Best == CHOOSE n \in inRange : \A m \in inRange : n <= m

SupplicantAssociates ==
  /\ association = 0
  /\ \E n \in inRange :
       /\ association' = n
       /\ astray' = (astray \/ (wifiAt = "trying" /\ n # Best))
  /\ UNCHANGED <<inRange, wifiAt, trying, wifiRefused, rangeChanged, probeVars>>

RangeChanges ==
  /\ wifiAt \in {"start", "trying"}
  /\ \E n \in Known :
       IF n \in inRange
         THEN /\ inRange' = inRange \ {n}
              /\ association' = IF association = n THEN 0 ELSE association
         ELSE inRange' = inRange \cup {n} /\ UNCHANGED association
  /\ rangeChanged' = (rangeChanged \/ wifiAt = "trying")
  /\ UNCHANGED <<wifiAt, trying, wifiRefused, astray, probeVars>>

\* _associate: the file is written, wpa_supplicant starts over.
ConnectBegins ==
  /\ wifiAt = "start"
  /\ wifiAt' = "trying" /\ trying' = 1 /\ association' = 0
  /\ UNCHANGED <<inRange, wifiRefused, rangeChanged, astray, probeVars>>

\* Mutant of NextNetwork: the last network is not tried.
NextNetworkButLast ==
  IF trying + 1 < NumNetworks
    THEN trying' = trying + 1 /\ association' = 0 /\ UNCHANGED wifiAt
    ELSE wifiAt' = "raised" /\ UNCHANGED <<trying, association>>

\* connect() goes on with the next network, or raises after the last.
NextNetwork ==
  IF trying < NumNetworks
    THEN trying' = trying + 1 /\ association' = 0 /\ UNCHANGED wifiAt
    ELSE wifiAt' = "raised" /\ UNCHANGED <<trying, association>>

ConfigRefused ==
  /\ wifiAt = "trying"
  /\ wifiRefused' = TRUE
  /\ NextNetwork
  /\ UNCHANGED <<inRange, rangeChanged, astray, probeVars>>

Joined ==
  /\ wifiAt = "trying" /\ association = trying
  /\ wifiAt' = "joined"
  /\ UNCHANGED <<inRange, association, trying, wifiRefused, rangeChanged, astray, probeVars>>

\* The window of a network is over, whatever is in range: wpa_supplicant sits on
\* another network, or on none (a wrong key, a slow access point, no time left).
AssociationTimesOut ==
  /\ wifiAt = "trying" /\ association # trying
  /\ astray' = (astray \/ (association = 0 /\ inRange # {}))
  /\ NextNetwork
  /\ UNCHANGED <<inRange, wifiRefused, rangeChanged, probeVars>>

\* main() fails with it; the unit is started again.
BootFails ==
  /\ wifiAt = "raised"
  /\ wifiAt' = "start"
  /\ wifiRefused' = FALSE /\ rangeChanged' = FALSE /\ astray' = FALSE
  /\ UNCHANGED <<inRange, association, trying, probeVars>>

-----------------------------------------------------------------------------
ServersChange ==
  /\ wifiAt = "joined"
  /\ \E up \in SUBSET Urls : up # serversUp /\ serversUp' = up
  /\ UNCHANGED <<wifiVars, probeAt, tier, activeUrl>>

ProbeBegins ==
  /\ wifiAt = "joined" /\ probeAt = "idle"
  /\ probeAt' = "primary"
  /\ UNCHANGED <<wifiVars, serversUp, tier, activeUrl>>

\* 200 from the URL asked; a portal's redirect, like silence, is no answer.
ProbeAnswered ==
  /\ probeAt \in serversUp
  /\ tier' = IF probeAt = "primary" THEN "INTERNET" ELSE "LAN"
  /\ activeUrl' = probeAt
  /\ probeAt' = "idle"
  /\ UNCHANGED <<wifiVars, serversUp>>

ProbeUnanswered ==
  /\ probeAt # "idle" /\ probeAt \notin serversUp
  /\ IF probeAt = "primary"
       THEN probeAt' = "fallback" /\ UNCHANGED <<tier, activeUrl>>
       ELSE probeAt' = "idle" /\ tier' = "OFFLINE" /\ activeUrl' = "none"
  /\ UNCHANGED <<wifiVars, serversUp>>

UplinkNext ==
  \/ SupplicantAssociates \/ RangeChanges \/ ConnectBegins \/ ConfigRefused
  \/ Joined \/ AssociationTimesOut \/ BootFails
  \/ ServersChange \/ ProbeBegins \/ ProbeAnswered \/ ProbeUnanswered

UplinkSpec == UplinkInit /\ [][UplinkNext]_uplinkVars

-----------------------------------------------------------------------------
(***************************************************************************)
(* The unit gives up on its networks, and with them on the boot, only if   *)
(* none was in range, the ones in range changed while it tried,            *)
(* wpa_supplicant could not be told, or it went astray: that it may sit on *)
(* a better network than the one waited for costs time, never the boot.    *)
(* Once it has been slow, or has taken a worse network than the best,      *)
(* connect() may raise although a network is in range, even associated.    *)
(***************************************************************************)
GivesUpOnlyWithoutNetwork ==
  wifiAt = "raised" => inRange = {} \/ rangeChanged \/ wifiRefused \/ astray
=============================================================================
