--------------------------- MODULE StationaryZones ---------------------------
(***************************************************************************)
(* StationaryZoneManager (crates/icloud-tracking/src/stationary.rs): the   *)
(* zones the tracker makes up around devices that stopped moving outside   *)
(* every configured zone.  Observe is its operation `observe', with        *)
(* observe_existing and reusable_zone; a zone is known by its place in     *)
(* `zones', as its identifier stationary_<n> says.                         *)
(*                                                                         *)
(* Abstracted: a location is a member of Places, of which only whether two *)
(* of them are within one and a half zone radii matters; instants are      *)
(* elapsed times, counted up to the threshold they are compared with.      *)
(* One radius serves all zones, as one policy does for a process.          *)
(***************************************************************************)
EXTENDS Naturals, Sequences, FiniteSets

CONSTANTS
  Devices,
  Places,
  Near,         \* pairs of places at most 1.5 radii apart
  Regular,      \* the places inside a configured zone
  StillTime,    \* policy.still_seconds
  Cooldown,     \* policy.reuse_cooldown_seconds
  None

ASSUME StationaryAssumption ==
  /\ Near \subseteq Places \X Places
  /\ \A p \in Places : <<p, p>> \in Near
  /\ \A p, q \in Places : <<p, q>> \in Near => <<q, p>> \in Near
  /\ Regular \subseteq Places /\ IsFiniteSet(Devices)
  /\ StillTime \in Nat /\ Cooldown \in Nat
  /\ None \notin Nat

VARIABLES
  zones,       \* the zones, occupied or kept for reuse
  deviceZone,  \* deviceZone[d]: the zone d is in, by its place in zones, or None
  still        \* still[d]: how long d has been still, or None

stationaryVars == <<zones, deviceZone, still>>

\* idle: time since last_removed_at, None while the zone is in use
Zone == [center : Places, occupants : SUBSET Devices, active : BOOLEAN,
         idle : 0..Cooldown \cup {None}]

StationaryTypeOK ==
  /\ zones \in Seq(Zone)
  /\ deviceZone \in [Devices -> 1..Len(zones) \cup {None}]
  /\ still \in [Devices -> 0..StillTime \cup {None}]

StationaryInit ==
  /\ zones = <<>>
  /\ deviceZone = [d \in Devices |-> None]
  /\ still = [d \in Devices |-> None]

-----------------------------------------------------------------------------

InReach(z, p) == <<zones[z].center, p>> \in Near

First(S) == CHOOSE z \in S : \A y \in S : z <= y

Joinable(p) == {z \in DOMAIN zones : zones[z].active /\ InReach(z, p)}

\* A bug: the cooldown has to be exceeded, not just to have passed
ReusableLate == {z \in DOMAIN zones :
                   ~zones[z].active /\ zones[z].idle # None /\ zones[z].idle > Cooldown}

Reusable == {z \in DOMAIN zones :
               ~zones[z].active /\ zones[z].idle # None /\ zones[z].idle >= Cooldown}

\* A bug: every device gets a zone of its own, in the reach of others or not
EnterAlone(d, p) ==
  /\ zones' = Append(zones, [center |-> p, occupants |-> {d}, active |-> TRUE, idle |-> None])
  /\ deviceZone' = [deviceZone EXCEPT ![d] = Len(zones) + 1]

\* A bug: the new zone is numbered by the length the list has with it
EnterMisnumbered(d, p) ==
  /\ zones' = Append(zones, [center |-> p, occupants |-> {d}, active |-> TRUE, idle |-> None])
  /\ deviceZone' = [deviceZone EXCEPT ![d] = Len(zones') + 1]

\* d joins the zone it is in reach of, takes over one that is free, or gets its own
Enter(d, p) ==
  IF Joinable(p) # {}
    THEN LET z == First(Joinable(p))
         IN  /\ zones' = [zones EXCEPT ![z].occupants = @ \cup {d}]
             /\ deviceZone' = [deviceZone EXCEPT ![d] = z]
  ELSE IF Reusable # {}
    THEN LET z == First(Reusable)
         IN  /\ zones' = [zones EXCEPT ![z] =
                   [center |-> p, occupants |-> @.occupants \cup {d}, active |-> TRUE,
                    idle |-> None]]
             /\ deviceZone' = [deviceZone EXCEPT ![d] = z]
  ELSE /\ zones' = Append(zones, [center |-> p, occupants |-> {d}, active |-> TRUE,
                                  idle |-> None])
       /\ deviceZone' = [deviceZone EXCEPT ![d] = Len(zones) + 1]

\* A bug: the zone that lost its last occupant stays active
LeftOpen(z, d) == [zones[z] EXCEPT !.occupants = @ \ {d}]

Left(z, d) ==
  LET remaining == zones[z].occupants \ {d}
  IN  IF remaining = {}
        THEN [zones[z] EXCEPT !.occupants = {}, !.active = FALSE, !.idle = 0]
        ELSE [zones[z] EXCEPT !.occupants = remaining]

\* A device in a zone: whatever the quality of the sample, leaving is a matter
\* of distance alone
ObserveExisting(d, p) ==
  /\ deviceZone[d] # None
  /\ IF InReach(deviceZone[d], p)
       THEN UNCHANGED stationaryVars
       ELSE /\ zones' = [zones EXCEPT ![deviceZone[d]] = Left(deviceZone[d], d)]
            /\ deviceZone' = [deviceZone EXCEPT ![d] = None]
            /\ still' = [still EXCEPT ![d] = 0]

\* `eligible': the policy is enabled and the sample good
ObserveOutside(d, p, moved, eligible) ==
  /\ deviceZone[d] = None
  /\ IF ~eligible \/ p \in Regular
       THEN still' = [still EXCEPT ![d] = None] /\ UNCHANGED <<zones, deviceZone>>
     ELSE IF moved
       THEN still' = [still EXCEPT ![d] = 0] /\ UNCHANGED <<zones, deviceZone>>
     ELSE LET since == IF still[d] = None THEN 0 ELSE still[d]
          IN  IF since < StillTime
                THEN still' = [still EXCEPT ![d] = since] /\ UNCHANGED <<zones, deviceZone>>
                ELSE still' = [still EXCEPT ![d] = None] /\ Enter(d, p)

Observe(d, p, moved, eligible) ==
  ObserveExisting(d, p) \/ ObserveOutside(d, p, moved, eligible)

Older(x, limit) == IF x = None \/ x = limit THEN x ELSE x + 1

Age ==
  /\ zones' = [z \in DOMAIN zones |-> [zones[z] EXCEPT !.idle = Older(@, Cooldown)]]
  /\ still' = [d \in Devices |-> Older(still[d], StillTime)]
  /\ UNCHANGED deviceZone

StationaryNext ==
  \/ \E d \in Devices, p \in Places, moved, eligible \in BOOLEAN :
       Observe(d, p, moved, eligible)
  \/ Age

StationarySpec == StationaryInit /\ [][StationaryNext]_stationaryVars

-----------------------------------------------------------------------------

(***************************************************************************)
(* The three records of who is where agree: a device is in the zone that   *)
(* counts it as an occupant and in no other, a zone is active exactly      *)
(* while somebody is in it, and a device in a zone is not waiting for one. *)
(* (A zone lost in this bookkeeping makes every later observation of the   *)
(* device an error, `stationary zone is missing'.)                         *)
(***************************************************************************)
OccupancyAgrees ==
  /\ \A d \in Devices : \A z \in DOMAIN zones :
       d \in zones[z].occupants <=> deviceZone[d] = z
  /\ \A z \in DOMAIN zones :
       /\ zones[z].active <=> zones[z].occupants # {}
       /\ zones[z].active <=> zones[z].idle = None
  /\ \A d \in Devices : deviceZone[d] # None => still[d] = None

(***************************************************************************)
(* Two zones in use are never in reach of one another: devices that stop   *)
(* near one another share a zone.                                          *)
(***************************************************************************)
ActiveZonesApart ==
  \A y, z \in DOMAIN zones :
    y # z /\ zones[y].active /\ zones[z].active => ~InReach(y, zones[z].center)

(***************************************************************************)
(* The list of zones, which is saved and never pruned, does not grow       *)
(* without bound: when a device must be still for at least as long as a    *)
(* zone rests before it is reused, there is a zone for each device at most *)
(***************************************************************************)
ZonesBounded == StillTime >= Cooldown => Len(zones) <= Cardinality(Devices)

=============================================================================
