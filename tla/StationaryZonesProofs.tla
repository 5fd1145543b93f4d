------------------------ MODULE StationaryZonesProofs ------------------------
(* Invariance proofs about StationaryZones, for every value of its constants *)
EXTENDS StationaryZones, SequenceTheorems, FiniteSetTheorems, LeastElements, TLAPS

\* The invariant is inductive as it stands
IInv == StationaryTypeOK /\ OccupancyAgrees /\ ActiveZonesApart

(* The first of a nonempty set of zones is one of them. *)
LEMMA FirstOf ==
  ASSUME StationaryTypeOK, NEW S \in SUBSET DOMAIN zones, S # {}
  PROVE  First(S) \in S
<1>1. S \subseteq Nat
  BY LenProperties DEF StationaryTypeOK
<1>. QED  BY <1>1, LeastNatural, Zenon DEF First

(* What one zone changing does to the invariant: the zone stays out of reach *)
(* of the others if it is in use, and its occupants are the devices that are *)
(* put there.                                                                *)
LEMMA OneZoneChanges ==
  ASSUME IInv, NEW d \in Devices, NEW z \in DOMAIN zones, NEW e \in Zone,
         zones' = [zones EXCEPT ![z] = e],
         NEW to \in {z, None},
         deviceZone' = [deviceZone EXCEPT ![d] = to],
         deviceZone[d] \in {z, None},
         still' \in [Devices -> 0..StillTime \cup {None}],
         \A b \in Devices \ {d} : still'[b] = still[b],
         to # None => still'[d] = None,
         e.occupants = IF to = None THEN zones[z].occupants \ {d}
                       ELSE zones[z].occupants \cup {d},
         e.active <=> e.occupants # {}, e.active <=> e.idle = None,
         \A y \in DOMAIN zones :
           y # z /\ zones[y].active /\ e.active
             => <<e.center, zones[y].center>> \notin Near
  PROVE  IInv'
<1>. DEFINE n == Len(zones)
<1>1. /\ zones \in Seq(Zone) /\ n \in Nat /\ DOMAIN zones = 1..n
      /\ \A y \in 1..n : zones[y] \in Zone
      /\ None \notin Nat
  BY LenProperties, ElementOfSeq, StationaryAssumption DEF IInv, StationaryTypeOK
<1>2. /\ zones' \in Seq(Zone) /\ Len(zones') = n /\ DOMAIN zones' = 1..n
      /\ \A y \in 1..n : zones'[y] = IF y = z THEN e ELSE zones[y]
  BY <1>1, ExceptSeq, LenProperties
<1>3. /\ deviceZone \in [Devices -> 1..n \cup {None}]
      /\ deviceZone' \in [Devices -> 1..n \cup {None}]
      /\ \A b \in Devices : deviceZone'[b] = IF b = d THEN to ELSE deviceZone[b]
  BY <1>1 DEF IInv, StationaryTypeOK
<1>4. StationaryTypeOK'
  BY <1>2, <1>3 DEF StationaryTypeOK
<1>5. \A b \in Devices, y \in 1..n : b \in zones'[y].occupants <=> deviceZone'[b] = y
  <2>. SUFFICES ASSUME NEW b \in Devices, NEW y \in 1..n
                PROVE  b \in zones'[y].occupants <=> deviceZone'[b] = y
    OBVIOUS
  <2>1. b \in zones[y].occupants <=> deviceZone[b] = y
    BY <1>1 DEF IInv, OccupancyAgrees
  <2>2. CASE y # z
    <3>1. zones'[y] = zones[y]
      BY <1>2, <2>2
    <3>2. deviceZone'[b] = y <=> deviceZone[b] = y
      BY <1>1, <1>3, <2>2
    <3>. QED  BY <2>1, <3>1, <3>2
  <2>3. CASE y = z /\ b # d
    BY <1>2, <1>3, <2>1, <2>3
  <2>4. CASE y = z /\ b = d
    BY <1>1, <1>2, <1>3, <2>4
  <2>. QED  BY <2>2, <2>3, <2>4
<1>6. \A y \in 1..n : /\ zones'[y].active <=> zones'[y].occupants # {}
                      /\ zones'[y].active <=> zones'[y].idle = None
  BY <1>1, <1>2 DEF IInv, OccupancyAgrees
<1>7. \A b \in Devices : deviceZone'[b] # None => still'[b] = None
  BY <1>3 DEF IInv, OccupancyAgrees
<1>8. OccupancyAgrees'
  BY <1>2, <1>5, <1>6, <1>7 DEF OccupancyAgrees
<1>9. ActiveZonesApart'
  <2>. SUFFICES ASSUME NEW x \in 1..n, NEW y \in 1..n, x # y,
                       zones'[x].active, zones'[y].active
                PROVE  <<zones'[x].center, zones'[y].center>> \notin Near
    BY <1>2 DEF ActiveZonesApart, InReach
  <2>1. CASE x = z
    BY <1>1, <1>2, <2>1
  <2>2. CASE y = z
    <3>1. <<e.center, zones[x].center>> \notin Near
      BY <1>1, <1>2, <2>2
    <3>2. e.center \in Places /\ zones[x].center \in Places
      BY <1>1 DEF Zone
    <3>. QED  BY <1>2, <2>2, <3>1, <3>2, StationaryAssumption
  <2>3. CASE x # z /\ y # z
    BY <1>1, <1>2, <2>3 DEF IInv, ActiveZonesApart, InReach
  <2>. QED  BY <2>1, <2>2, <2>3
<1>. QED  BY <1>4, <1>8, <1>9 DEF IInv

(* A zone of its own, put where no other is in reach, keeps the invariant. *)
LEMMA OneZoneMore ==
  ASSUME IInv, NEW d \in Devices, NEW p \in Places, Joinable(p) = {},
         deviceZone[d] = None,
         zones' = Append(zones, [center |-> p, occupants |-> {d}, active |-> TRUE,
                                 idle |-> None]),
         deviceZone' = [deviceZone EXCEPT ![d] = Len(zones) + 1],
         still' = [still EXCEPT ![d] = None]
  PROVE  IInv'
<1>. DEFINE n == Len(zones)
            e == [center |-> p, occupants |-> {d}, active |-> TRUE, idle |-> None]
<1>1. /\ zones \in Seq(Zone) /\ n \in Nat /\ DOMAIN zones = 1..n
      /\ \A y \in 1..n : zones[y] \in Zone
      /\ None \notin Nat
  BY LenProperties, ElementOfSeq, StationaryAssumption DEF IInv, StationaryTypeOK
<1>2. e \in Zone
  BY DEF Zone
<1>3. /\ zones' \in Seq(Zone) /\ Len(zones') = n + 1 /\ DOMAIN zones' = 1..(n + 1)
      /\ \A y \in 1..n : zones'[y] = zones[y]
      /\ zones'[n + 1] = e
  BY <1>1, <1>2, AppendProperties, LenProperties
<1>4. /\ deviceZone \in [Devices -> 1..n \cup {None}]
      /\ deviceZone' \in [Devices -> 1..(n + 1) \cup {None}]
      /\ \A b \in Devices : deviceZone'[b] = IF b = d THEN n + 1 ELSE deviceZone[b]
  BY <1>1 DEF IInv, StationaryTypeOK
<1>5. /\ still' \in [Devices -> 0..StillTime \cup {None}]
      /\ \A b \in Devices : still'[b] = IF b = d THEN None ELSE still[b]
  BY DEF IInv, StationaryTypeOK
<1>6. StationaryTypeOK'
  BY <1>3, <1>4, <1>5 DEF StationaryTypeOK
<1>. HIDE DEF e
<1>7. \A b \in Devices, y \in 1..(n + 1) : b \in zones'[y].occupants <=> deviceZone'[b] = y
  <2>. SUFFICES ASSUME NEW b \in Devices, NEW y \in 1..(n + 1)
                PROVE  b \in zones'[y].occupants <=> deviceZone'[b] = y
    OBVIOUS
  <2>1. CASE y = n + 1
    <3>1. deviceZone'[b] = y <=> b = d
      BY <1>1, <1>4, <2>1
    <3>. QED  BY <1>3, <2>1, <3>1 DEF e
  <2>2. CASE y \in 1..n
    <3>1. b \in zones[y].occupants <=> deviceZone[b] = y
      BY <1>1, <2>2 DEF IInv, OccupancyAgrees
    <3>2. deviceZone'[b] = y <=> deviceZone[b] = y
      BY <1>1, <1>4, <2>2
    <3>. QED  BY <1>3, <2>2, <3>1, <3>2
  <2>. QED  BY <1>1, <2>1, <2>2
<1>8. \A y \in 1..(n + 1) : /\ zones'[y].active <=> zones'[y].occupants # {}
                            /\ zones'[y].active <=> zones'[y].idle = None
  <2>. SUFFICES ASSUME NEW y \in 1..(n + 1)
                PROVE  /\ zones'[y].active <=> zones'[y].occupants # {}
                       /\ zones'[y].active <=> zones'[y].idle = None
    OBVIOUS
  <2>1. CASE y = n + 1
    BY <1>3, <2>1 DEF e
  <2>2. CASE y \in 1..n
    BY <1>1, <1>3, <2>2 DEF IInv, OccupancyAgrees
  <2>. QED  BY <1>1, <2>1, <2>2
<1>9. \A b \in Devices : deviceZone'[b] # None => still'[b] = None
  BY <1>4, <1>5 DEF IInv, OccupancyAgrees
<1>10. ActiveZonesApart'
  <2>. SUFFICES ASSUME NEW x \in 1..(n + 1), NEW y \in 1..(n + 1), x # y,
                       zones'[x].active, zones'[y].active
                PROVE  <<zones'[x].center, zones'[y].center>> \notin Near
    BY <1>3 DEF ActiveZonesApart, InReach
  <2>1. ASSUME NEW w \in 1..n, zones[w].active
        PROVE  <<zones[w].center, p>> \notin Near /\ <<p, zones[w].center>> \notin Near
    <3>1. <<zones[w].center, p>> \notin Near
      BY <1>1, <2>1 DEF Joinable, InReach
    <3>2. zones[w].center \in Places
      BY <1>1 DEF Zone
    <3>. QED  BY <3>1, <3>2, StationaryAssumption
  <2>2. CASE x = n + 1
    <3>1. y \in 1..n
      BY <1>1, <2>2
    <3>2. zones'[y] = zones[y] /\ zones[y].active
      BY <1>3, <3>1
    <3>3. zones'[x].center = p
      BY <1>3, <2>2 DEF e
    <3>. QED  BY <2>1, <3>1, <3>2, <3>3
  <2>3. CASE y = n + 1
    <3>1. x \in 1..n
      BY <1>1, <2>3
    <3>2. zones'[x] = zones[x] /\ zones[x].active
      BY <1>3, <3>1
    <3>3. zones'[y].center = p
      BY <1>3, <2>3 DEF e
    <3>. QED  BY <2>1, <3>1, <3>2, <3>3
  <2>4. CASE x \in 1..n /\ y \in 1..n
    <3>1. zones'[x] = zones[x] /\ zones'[y] = zones[y]
      BY <1>3, <2>4
    <3>. QED  BY <1>1, <2>4, <3>1 DEF IInv, ActiveZonesApart, InReach
  <2>5. x = n + 1 \/ y = n + 1 \/ (x \in 1..n /\ y \in 1..n)
    BY <1>1
  <2>. QED  BY <2>2, <2>3, <2>4, <2>5, Zenon
<1>. QED  BY <1>3, <1>6, <1>7, <1>8, <1>9, <1>10 DEF IInv, OccupancyAgrees

(* A device that has been still for long enough gets into a zone properly. *)
LEMMA EnterKeeps ==
  ASSUME IInv, NEW d \in Devices, NEW p \in Places, deviceZone[d] = None,
         Enter(d, p), still' = [still EXCEPT ![d] = None]
  PROVE  IInv'
<1>1. /\ zones \in Seq(Zone) /\ Len(zones) \in Nat /\ DOMAIN zones = 1..Len(zones)
      /\ \A y \in DOMAIN zones : zones[y] \in Zone
      /\ None \notin Nat
  BY LenProperties, ElementOfSeq, StationaryAssumption DEF IInv, StationaryTypeOK
<1>2. /\ still' \in [Devices -> 0..StillTime \cup {None}]
      /\ \A b \in Devices \ {d} : still'[b] = still[b]
      /\ still'[d] = None
  BY DEF IInv, StationaryTypeOK
<1>3. CASE Joinable(p) # {}
  <2>. DEFINE z == First(Joinable(p))
  <2>1. z \in Joinable(p)
    BY <1>3, FirstOf DEF IInv, Joinable
  <2>2. z \in DOMAIN zones /\ zones[z].active
    BY <2>1 DEF Joinable
  <2>3. /\ zones' = [zones EXCEPT ![z].occupants = @ \cup {d}]
        /\ deviceZone' = [deviceZone EXCEPT ![d] = z]
    BY <1>3 DEF Enter
  <2>. HIDE DEF z
  <2>. DEFINE e == [zones[z] EXCEPT !.occupants = @ \cup {d}]
  <2>4. /\ e \in Zone /\ e.occupants = zones[z].occupants \cup {d}
        /\ e.active = zones[z].active /\ e.idle = zones[z].idle
        /\ e.center = zones[z].center
    BY <1>1, <2>2 DEF Zone
  <2>5. zones' = [zones EXCEPT ![z] = e]
    BY <2>3
  <2>. HIDE DEF e
  <2>6. (e.active <=> e.occupants # {}) /\ (e.active <=> e.idle = None)
    BY <2>2, <2>4 DEF IInv, OccupancyAgrees
  <2>7. \A y \in DOMAIN zones :
          y # z /\ zones[y].active /\ e.active => <<e.center, zones[y].center>> \notin Near
    BY <2>2, <2>4 DEF IInv, ActiveZonesApart, InReach
  <2>8. z # None /\ z \in {z, None} /\ deviceZone[d] \in {z, None}
    BY <1>1, <2>2
  <2>9. e.occupants = IF z = None THEN zones[z].occupants \ {d} ELSE zones[z].occupants \cup {d}
    BY <2>4, <2>8
  <2>. QED  BY <1>2, <2>2, <2>3, <2>4, <2>5, <2>6, <2>7, <2>8, <2>9, OneZoneChanges,
            ZenonT(60)
<1>4. CASE Joinable(p) = {} /\ Reusable # {}
  <2>. DEFINE z == First(Reusable)
              e == [center |-> p, occupants |-> zones[z].occupants \cup {d},
                    active |-> TRUE, idle |-> None]
  <2>1. z \in Reusable
    BY <1>4, FirstOf DEF IInv, Reusable
  <2>2. z \in DOMAIN zones
    BY <2>1 DEF Reusable
  <2>3. /\ zones' = [zones EXCEPT ![z] = e]
        /\ deviceZone' = [deviceZone EXCEPT ![d] = z]
    BY <1>4 DEF Enter
  <2>. HIDE DEF z
  <2>4. e \in Zone
    BY <1>1, <2>2 DEF Zone
  <2>5. \A y \in DOMAIN zones : zones[y].active => <<e.center, zones[y].center>> \notin Near
    <3>1. \A y \in DOMAIN zones : zones[y].active => <<zones[y].center, p>> \notin Near
      BY <1>4 DEF Joinable, InReach
    <3>2. \A y \in DOMAIN zones : zones[y].center \in Places
      BY <1>1 DEF Zone
    <3>. QED  BY <3>1, <3>2, StationaryAssumption
  <2>6. /\ e.occupants = zones[z].occupants \cup {d}
        /\ (e.active <=> e.occupants # {}) /\ (e.active <=> e.idle = None)
    OBVIOUS
  <2>. HIDE DEF e
  <2>7. z # None /\ z \in {z, None} /\ deviceZone[d] \in {z, None}
    BY <1>1, <2>2
  <2>8. e.occupants = IF z = None THEN zones[z].occupants \ {d} ELSE zones[z].occupants \cup {d}
    BY <2>6, <2>7
  <2>9. \A y \in DOMAIN zones :
          y # z /\ zones[y].active /\ e.active => <<e.center, zones[y].center>> \notin Near
    BY <2>5
  <2>. QED  BY <1>2, <2>2, <2>3, <2>4, <2>6, <2>7, <2>8, <2>9, OneZoneChanges
<1>5. CASE Joinable(p) = {} /\ Reusable = {}
  BY <1>5, OneZoneMore DEF Enter
<1>. QED  BY <1>3, <1>4, <1>5

(* Every observation keeps the invariant, and so does the passing of time. *)
LEMMA NextIInv == IInv /\ [StationaryNext]_stationaryVars => IInv'
<1>. SUFFICES ASSUME IInv, [StationaryNext]_stationaryVars  PROVE IInv'
  OBVIOUS
<1>0. /\ zones \in Seq(Zone) /\ Len(zones) \in Nat /\ DOMAIN zones = 1..Len(zones)
      /\ \A y \in DOMAIN zones : zones[y] \in Zone
      /\ deviceZone \in [Devices -> 1..Len(zones) \cup {None}]
      /\ still \in [Devices -> 0..StillTime \cup {None}]
      /\ None \notin Nat /\ StillTime \in Nat /\ Cooldown \in Nat
  BY LenProperties, ElementOfSeq, StationaryAssumption DEF IInv, StationaryTypeOK
<1>a. ASSUME UNCHANGED <<zones, deviceZone>>,
             still' \in [Devices -> 0..StillTime \cup {None}],
             \A b \in Devices : deviceZone[b] # None => still'[b] = None
      PROVE  IInv'
  BY <1>a DEF IInv, StationaryTypeOK, OccupancyAgrees, ActiveZonesApart, InReach
<1>1. ASSUME NEW d \in Devices, NEW p \in Places, ObserveExisting(d, p)  PROVE IInv'
  <2>. DEFINE z == deviceZone[d]
              e == Left(z, d)
  <2>1. z \in DOMAIN zones
    BY <1>0, <1>1 DEF ObserveExisting
  <2>2. CASE InReach(z, p)
    BY <1>0, <1>1, <1>a, <2>2 DEF ObserveExisting, stationaryVars, IInv, OccupancyAgrees
  <2>3. CASE ~InReach(z, p)
    <3>1. /\ zones' = [zones EXCEPT ![z] = e]
          /\ deviceZone' = [deviceZone EXCEPT ![d] = None]
          /\ still' = [still EXCEPT ![d] = 0]
      BY <1>1, <2>3 DEF ObserveExisting
    <3>2. d \in zones[z].occupants /\ zones[z].active /\ zones[z].idle = None
      BY <2>1 DEF IInv, OccupancyAgrees
    <3>3. /\ e \in Zone /\ e.occupants = zones[z].occupants \ {d}
          /\ e.active <=> e.occupants # {}
          /\ e.active <=> e.idle = None
          /\ e.center = zones[z].center
      <4>1. zones[z] \in Zone
        BY <1>0, <2>1
      <4>2. CASE zones[z].occupants \ {d} = {}
        <5>1. e = [zones[z] EXCEPT !.occupants = {}, !.active = FALSE, !.idle = 0]
          BY <4>2 DEF Left
        <5>2. 0 # None /\ 0 \in 0..Cooldown
          BY <1>0
        <5>. HIDE DEF e
        <5>. QED  BY <4>1, <4>2, <5>1, <5>2 DEF Zone
      <4>3. CASE zones[z].occupants \ {d} # {}
        <5>1. e = [zones[z] EXCEPT !.occupants = zones[z].occupants \ {d}]
          BY <4>3 DEF Left
        <5>. HIDE DEF e
        <5>. QED  BY <3>2, <4>1, <4>3, <5>1 DEF Zone
      <4>. QED  BY <4>2, <4>3
    <3>4. /\ still' \in [Devices -> 0..StillTime \cup {None}]
          /\ \A b \in Devices \ {d} : still'[b] = still[b]
      BY <1>0, <3>1
    <3>. HIDE DEF e
    <3>5. \A y \in DOMAIN zones :
            y # z /\ zones[y].active /\ e.active => <<e.center, zones[y].center>> \notin Near
      BY <2>1, <3>2, <3>3 DEF IInv, ActiveZonesApart, InReach
    <3>6. /\ deviceZone[d] \in {z, None} /\ None \in {z, None}
          /\ e.occupants = IF None = None THEN zones[z].occupants \ {d}
                           ELSE zones[z].occupants \cup {d}
      BY <3>3
    <3>. HIDE DEF z
    <3>. QED  BY <2>1, <3>1, <3>3, <3>4, <3>5, <3>6, OneZoneChanges
  <2>. QED  BY <2>2, <2>3
<1>2. ASSUME NEW d \in Devices, NEW p \in Places, NEW moved, NEW eligible,
             ObserveOutside(d, p, moved, eligible)
      PROVE  IInv'
  <2>1. CASE UNCHANGED <<zones, deviceZone>>
    <3>1. still' \in [Devices -> 0..StillTime \cup {None}]
      BY <1>0, <1>2, <2>1 DEF ObserveOutside
    <3>2. \A b \in Devices : deviceZone[b] # None => still'[b] = None
      BY <1>0, <1>2, <2>1 DEF ObserveOutside, IInv, OccupancyAgrees
    <3>. QED  BY <1>a, <2>1, <3>1, <3>2
  <2>2. CASE Enter(d, p) /\ still' = [still EXCEPT ![d] = None]
    BY <1>2, <2>2, EnterKeeps DEF ObserveOutside
  <2>. QED  BY <1>2, <2>1, <2>2 DEF ObserveOutside
<1>3. CASE Age
  <2>. DEFINE aged(z) == [zones[z] EXCEPT !.idle = Older(@, Cooldown)]
  <2>1. zones' = [z \in 1..Len(zones) |-> aged(z)]
    BY <1>0, <1>3 DEF Age
  <2>2. \A z \in 1..Len(zones) :
          /\ aged(z) \in Zone /\ aged(z).center = zones[z].center
          /\ aged(z).occupants = zones[z].occupants /\ aged(z).active = zones[z].active
          /\ aged(z).idle = None <=> zones[z].idle = None
    <3>1. SUFFICES ASSUME NEW z \in 1..Len(zones)
                   PROVE  /\ aged(z) \in Zone /\ aged(z).center = zones[z].center
                          /\ aged(z).occupants = zones[z].occupants
                          /\ aged(z).active = zones[z].active
                          /\ aged(z).idle = None <=> zones[z].idle = None
      OBVIOUS
    <3>2. PICK older : older = Older(zones[z].idle, Cooldown)
      OBVIOUS
    <3>3. zones[z] \in Zone
      BY <1>0
    <3>4. zones[z].idle \in 0..Cooldown \cup {None}
      BY <3>3 DEF Zone
    <3>5. older \in 0..Cooldown \cup {None} /\ (older = None <=> zones[z].idle = None)
      BY <1>0, <3>2, <3>4 DEF Older
    <3>6. aged(z) = [zones[z] EXCEPT !.idle = older]
      BY <3>2
    <3>. HIDE DEF aged
    <3>. QED  BY <3>3, <3>5, <3>6 DEF Zone
  <2>. HIDE DEF aged
  <2>3. zones' \in [1..Len(zones) -> Zone]
    BY <2>1, <2>2
  <2>4. zones' \in Seq(Zone) /\ Len(zones') = Len(zones) /\ DOMAIN zones' = 1..Len(zones)
    BY <1>0, <2>3
  <2>5. /\ deviceZone' = deviceZone
        /\ still' \in [Devices -> 0..StillTime \cup {None}]
        /\ \A d \in Devices : still[d] = None => still'[d] = None
    BY <1>0, <1>3 DEF Age, Older
  <2>6. StationaryTypeOK'
    BY <1>0, <2>4, <2>5 DEF StationaryTypeOK
  <2>7. \A z \in 1..Len(zones) :
          /\ zones'[z].center = zones[z].center
          /\ zones'[z].occupants = zones[z].occupants
          /\ zones'[z].active = zones[z].active
          /\ zones'[z].idle = None <=> zones[z].idle = None
    BY <2>1, <2>2
  <2>8. OccupancyAgrees'
    <3>1. /\ \A d \in Devices, z \in 1..Len(zones) :
                d \in zones[z].occupants <=> deviceZone[d] = z
          /\ \A z \in 1..Len(zones) : /\ zones[z].active <=> zones[z].occupants # {}
                                      /\ zones[z].active <=> zones[z].idle = None
          /\ \A d \in Devices : deviceZone[d] # None => still[d] = None
      BY <1>0 DEF IInv, OccupancyAgrees
    <3>2. \A d \in Devices, z \in 1..Len(zones) :
            d \in zones'[z].occupants <=> deviceZone'[d] = z
      BY <2>5, <2>7, <3>1
    <3>3. \A z \in 1..Len(zones) : /\ zones'[z].active <=> zones'[z].occupants # {}
                                   /\ zones'[z].active <=> zones'[z].idle = None
      <4>. TAKE z \in 1..Len(zones)
      <4>1. /\ zones[z].active <=> zones[z].occupants # {}
            /\ zones[z].active <=> zones[z].idle = None
        BY <3>1
      <4>2. /\ zones'[z].active = zones[z].active
            /\ zones'[z].occupants = zones[z].occupants
            /\ zones'[z].idle = None <=> zones[z].idle = None
        BY <2>7
      <4>. QED  BY <4>1, <4>2
    <3>4. \A d \in Devices : deviceZone'[d] # None => still'[d] = None
      BY <2>5, <3>1
    <3>. QED  BY <2>4, <3>2, <3>3, <3>4 DEF OccupancyAgrees
  <2>9. ActiveZonesApart'
    BY <1>0, <2>4, <2>7 DEF IInv, ActiveZonesApart, InReach
  <2>. QED  BY <2>6, <2>8, <2>9 DEF IInv
<1>4. CASE UNCHANGED stationaryVars
  BY <1>0, <1>4, <1>a DEF stationaryVars, IInv, OccupancyAgrees
<1>. QED
  BY <1>1, <1>2, <1>3, <1>4 DEF StationaryNext, Observe

(* No zone, no device in a zone: the invariant holds to begin with. *)
LEMMA InitIInv == StationaryInit => IInv
<1>. SUFFICES ASSUME StationaryInit  PROVE IInv
  OBVIOUS
<1>1. zones \in Seq(Zone) /\ DOMAIN zones = {} /\ Len(zones) = 0
  BY DEF StationaryInit
<1>. QED  BY <1>1 DEF StationaryInit, IInv, StationaryTypeOK, OccupancyAgrees, ActiveZonesApart

LEMMA InductiveInvariant == StationarySpec => []IInv
BY InitIInv, NextIInv, PTL DEF StationarySpec

(* Whatever devices are observed where, for any distances, stillness time and *)
(* cooldown, the records of who is in which zone agree: no observation ever   *)
(* fails for a zone that is missing.                                          *)
THEOREM OccupancyAlwaysAgrees == StationarySpec => []OccupancyAgrees
<1>1. IInv => OccupancyAgrees
  BY DEF IInv
<1>. QED  BY <1>1, InductiveInvariant, PTL

(* Two zones in use are never in reach of one another. *)
THEOREM ActiveZonesAlwaysApart == StationarySpec => []ActiveZonesApart
<1>1. IInv => ActiveZonesApart
  BY DEF IInv
<1>. QED  BY <1>1, InductiveInvariant, PTL

(* The zones and the devices' places in them always have their types. *)
THEOREM TypesAlwaysCorrect == StationarySpec => []StationaryTypeOK
<1>1. IInv => StationaryTypeOK
  BY DEF IInv
<1>. QED  BY <1>1, InductiveInvariant, PTL

-----------------------------------------------------------------------------
(* How many zones there are.  A zone that was left and may not be taken over *)
(* yet is fresh.  The devices that left the fresh zones last are as many,    *)
(* and each of them has rested for no longer than its zone has been empty:   *)
(* it cannot have entered another one.                                       *)
Fresh == {z \in DOMAIN zones : zones[z].idle # None /\ zones[z].idle < Cooldown}

Rested(d, z) ==
  deviceZone[d] = None /\ (still[d] # None => still[d] <= zones[z].idle)

LeftBy(w) ==
  /\ \A y, z \in Fresh : w[y] = w[z] => y = z
  /\ \A z \in Fresh : Rested(w[z], z)

Leavers == \E w \in [Fresh -> Devices] : LeftBy(w)

Few == StillTime >= Cooldown => Leavers /\ Len(zones) <= Cardinality(Devices)

StillRested(d, z) ==
  deviceZone'[d] = None /\ (still'[d] # None => still'[d] <= zones'[z].idle)

(* What the proofs below use of the invariant above. *)
LEMMA Shapes ==
  ASSUME IInv
  PROVE  /\ zones \in Seq(Zone) /\ Len(zones) \in Nat /\ DOMAIN zones = 1..Len(zones)
         /\ \A z \in DOMAIN zones : /\ zones[z] \in Zone
                                    /\ zones[z].idle \in 0..Cooldown \cup {None}
                                    /\ zones[z].active <=> zones[z].idle = None
         /\ deviceZone \in [Devices -> 1..Len(zones) \cup {None}]
         /\ still \in [Devices -> 0..StillTime \cup {None}]
         /\ None \notin Nat /\ StillTime \in Nat /\ Cooldown \in Nat
<1>1. zones \in Seq(Zone) /\ Len(zones) \in Nat /\ DOMAIN zones = 1..Len(zones)
  BY LenProperties DEF IInv, StationaryTypeOK
<1>2. \A z \in DOMAIN zones : zones[z] \in Zone
  BY <1>1, ElementOfSeq
<1>. QED  BY <1>1, <1>2, StationaryAssumption DEF IInv, StationaryTypeOK, OccupancyAgrees, Zone

(* The devices that left the zones that stay fresh still rest. *)
LEMMA StayLeft ==
  ASSUME NEW w \in [Fresh -> Devices], LeftBy(w), Fresh' \subseteq Fresh,
         \A z \in Fresh' : StillRested(w[z], z)
  PROVE  Leavers'
<1>. DEFINE v == [z \in Fresh' |-> w[z]]
<1>1. v \in [Fresh' -> Devices]
  OBVIOUS
<1>2. \A y, z \in Fresh' : v[y] = v[z] => y = z
  BY DEF LeftBy
<1>3. \A z \in Fresh' : StillRested(v[z], z)
  OBVIOUS
<1>. HIDE DEF v
<1>. QED  BY <1>1, <1>2, <1>3 DEF Leavers, LeftBy, Rested, StillRested

(* A device that leaves a zone empty becomes the one that left it. *)
LEMMA ExistingLeavers ==
  ASSUME IInv, Leavers, NEW d \in Devices, NEW p \in Places, ObserveExisting(d, p)
  PROVE  Leavers'
<1>. DEFINE z == deviceZone[d]
<1>1. z \in DOMAIN zones /\ z # None
  BY Shapes DEF ObserveExisting
<1>2. PICK w \in [Fresh -> Devices] : LeftBy(w)
  BY DEF Leavers
<1>3. CASE UNCHANGED stationaryVars
  <2>1. Fresh' = Fresh /\ deviceZone' = deviceZone /\ still' = still /\ zones' = zones
    BY <1>3 DEF stationaryVars, Fresh
  <2>2. \A y \in Fresh' : StillRested(w[y], y)
    BY <1>2, <2>1 DEF LeftBy, Rested, StillRested
  <2>. QED  BY <1>2, <2>1, <2>2, StayLeft
<1>4. CASE ~UNCHANGED stationaryVars
  <2>1. /\ zones' = [zones EXCEPT ![z] = Left(z, d)]
        /\ deviceZone' = [deviceZone EXCEPT ![d] = None]
        /\ still' = [still EXCEPT ![d] = 0]
    BY <1>4 DEF ObserveExisting
  <2>2. /\ DOMAIN zones' = DOMAIN zones
        /\ \A y \in DOMAIN zones : y # z => zones'[y] = zones[y]
        /\ zones'[z] = Left(z, d)
    BY <1>1, <2>1
  <2>3. /\ \A b \in Devices : b # d => deviceZone'[b] = deviceZone[b] /\ still'[b] = still[b]
        /\ deviceZone'[d] = None /\ still'[d] = 0
    BY <2>1, Shapes
  <2>4. zones[z].idle = None /\ z \notin Fresh
    <3>1. d \in zones[z].occupants
      BY <1>1 DEF IInv, OccupancyAgrees
    <3>. QED  BY <1>1, <3>1 DEF IInv, OccupancyAgrees, Fresh
  <2>5. zones'[z].idle \in {None, 0}
    <3>1. zones[z] \in Zone
      BY <1>1, Shapes
    <3>. QED  BY <2>2, <2>4, <3>1 DEF Left, Zone
  <2>6. \A y \in Fresh : w[y] \in Devices /\ w[y] # d
    BY <1>1, <1>2 DEF LeftBy, Rested
  <2>7. \A y \in Fresh : StillRested(w[y], y)
    <3>. TAKE y \in Fresh
    <3>1. y \in DOMAIN zones /\ y # z
      BY <2>4 DEF Fresh
    <3>2. Rested(w[y], y)
      BY <1>2 DEF LeftBy
    <3>. QED  BY <2>2, <2>3, <2>6, <3>1, <3>2 DEF Rested, StillRested
  <2>8. Fresh' \subseteq Fresh \cup {z} /\ Fresh \subseteq Fresh'
    BY <2>2, <2>4 DEF Fresh
  <2>9. CASE z \notin Fresh'
    BY <1>2, <2>7, <2>8, <2>9, StayLeft
  <2>10. CASE z \in Fresh'
    <3>. DEFINE v == [y \in Fresh' |-> IF y = z THEN d ELSE w[y]]
    <3>1. Fresh' = Fresh \cup {z}
      BY <2>8, <2>10
    <3>2. v \in [Fresh' -> Devices] /\ v[z] = d /\ \A y \in Fresh : v[y] = w[y]
      BY <2>4, <2>6, <3>1
    <3>. HIDE DEF v
    <3>3. \A x, y \in Fresh' : v[x] = v[y] => x = y
      BY <1>2, <2>6, <3>1, <3>2 DEF LeftBy
    <3>4. StillRested(d, z)
      <4>1. zones'[z].idle = 0
        BY <2>5, <2>10 DEF Fresh
      <4>. QED  BY <2>3, <4>1 DEF StillRested
    <3>5. \A y \in Fresh' : StillRested(v[y], y)
      BY <2>7, <3>1, <3>2, <3>4
    <3>. QED  BY <3>2, <3>3, <3>5 DEF Leavers, LeftBy, Rested, StillRested
  <2>. QED  BY <2>9, <2>10
<1>. QED  BY <1>3, <1>4

(* A device that has rested for long enough to enter a zone did not leave    *)
(* one that is fresh.                                                        *)
LEMMA RestedLeftNone ==
  ASSUME IInv, StillTime >= Cooldown, NEW w \in [Fresh -> Devices], LeftBy(w),
         NEW d \in Devices, ~((IF still[d] = None THEN 0 ELSE still[d]) < StillTime)
  PROVE  \A z \in Fresh : w[z] # d
<1>. SUFFICES ASSUME NEW z \in Fresh, w[z] = d  PROVE FALSE
  OBVIOUS
<1>1. zones[z].idle \in Nat /\ zones[z].idle < Cooldown
  BY Shapes DEF Fresh
<1>2. still[d] = None \/ still[d] <= zones[z].idle
  BY DEF LeftBy, Rested
<1>. QED  BY <1>1, <1>2, Shapes

(* Entering a zone makes none fresh. *)
LEMMA EnterLeavers ==
  ASSUME IInv, StillTime >= Cooldown, Leavers, NEW d \in Devices, NEW p \in Places,
         deviceZone[d] = None,
         ~((IF still[d] = None THEN 0 ELSE still[d]) < StillTime),
         Enter(d, p), still' = [still EXCEPT ![d] = None]
  PROVE  Leavers'
<1>1. PICK w \in [Fresh -> Devices] : LeftBy(w)
  BY DEF Leavers
<1>2. \A z \in Fresh : w[z] # d
  BY <1>1, RestedLeftNone
<1>3. /\ \A b \in Devices : b # d => deviceZone'[b] = deviceZone[b] /\ still'[b] = still[b]
      /\ Fresh' \subseteq Fresh
      /\ \A y \in Fresh : zones'[y].idle = zones[y].idle
  <2>. USE Shapes
  <2>1. CASE Joinable(p) # {}
    <3>. DEFINE z == First(Joinable(p))
    <3>1. z \in DOMAIN zones
      BY <2>1, FirstOf DEF IInv, Joinable
    <3>2. /\ zones' = [zones EXCEPT ![z].occupants = @ \cup {d}]
          /\ deviceZone' = [deviceZone EXCEPT ![d] = z]
      BY <2>1 DEF Enter
    <3>. HIDE DEF z
    <3>3. DOMAIN zones' = DOMAIN zones
      BY <3>2
    <3>4. \A y \in DOMAIN zones : zones'[y].idle = zones[y].idle
      BY <3>1, <3>2 DEF Zone
    <3>. QED  BY <3>2, <3>3, <3>4 DEF Fresh
  <2>2. CASE Joinable(p) = {} /\ Reusable # {}
    <3>. DEFINE z == First(Reusable)
    <3>1. z \in Reusable
      BY <2>2, FirstOf DEF IInv, Reusable
    <3>2. z \in DOMAIN zones /\ z \notin Fresh
      BY <3>1 DEF Reusable, Fresh
    <3>3. /\ zones' = [zones EXCEPT ![z] = [center |-> p, occupants |-> @.occupants \cup {d},
                                             active |-> TRUE, idle |-> None]]
          /\ deviceZone' = [deviceZone EXCEPT ![d] = z]
      BY <2>2 DEF Enter
    <3>. HIDE DEF z
    <3>4. /\ DOMAIN zones' = DOMAIN zones /\ zones'[z].idle = None
          /\ \A y \in DOMAIN zones : y # z => zones'[y] = zones[y]
      BY <3>2, <3>3
    <3>. QED  BY <3>2, <3>3, <3>4 DEF Fresh
  <2>3. CASE Joinable(p) = {} /\ Reusable = {}
    <3>1. /\ zones' = Append(zones, [center |-> p, occupants |-> {d}, active |-> TRUE,
                                      idle |-> None])
          /\ deviceZone' = [deviceZone EXCEPT ![d] = Len(zones) + 1]
      BY <2>3 DEF Enter
    <3>2. /\ DOMAIN zones' = 1..(Len(zones) + 1) /\ zones'[Len(zones) + 1].idle = None
          /\ \A y \in DOMAIN zones : zones'[y] = zones[y]
      BY <3>1
    <3>. QED  BY <3>1, <3>2 DEF Fresh
  <2>. QED  BY <2>1, <2>2, <2>3
<1>4. \A y \in Fresh : StillRested(w[y], y)
  BY <1>1, <1>2, <1>3 DEF LeftBy, Rested, StillRested
<1>. QED  BY <1>1, <1>3, <1>4, StayLeft

(* When no zone can be taken over, there are fewer zones than devices: each  *)
(* zone has an occupant or a device that left it, and one device is neither. *)
LEMMA RoomForOneMore ==
  ASSUME IInv, StillTime >= Cooldown, Leavers, NEW d \in Devices, deviceZone[d] = None,
         ~((IF still[d] = None THEN 0 ELSE still[d]) < StillTime),
         Reusable = {}
  PROVE  Len(zones) + 1 <= Cardinality(Devices)
<1>1. PICK w \in [Fresh -> Devices] : LeftBy(w)
  BY DEF Leavers
<1>2. \A z \in Fresh : w[z] \in Devices \ {d} /\ deviceZone[w[z]] = None
  BY <1>1, RestedLeftNone DEF LeftBy, Rested
<1>3. \A z \in DOMAIN zones : z \in Fresh \/ \E b \in Devices : deviceZone[b] = z
  <2>. SUFFICES ASSUME NEW z \in DOMAIN zones, z \notin Fresh
                PROVE  \E b \in Devices : deviceZone[b] = z
    OBVIOUS
  <2>1. zones[z].active
    BY Shapes DEF Fresh, Reusable
  <2>2. PICK b \in zones[z].occupants : TRUE
    BY <2>1 DEF IInv, OccupancyAgrees
  <2>3. b \in Devices
    BY <2>2, Shapes DEF Zone
  <2>. QED  BY <2>2, <2>3 DEF IInv, OccupancyAgrees
<1>. DEFINE f == [z \in DOMAIN zones |->
                    IF z \in Fresh THEN w[z] ELSE CHOOSE b \in Devices : deviceZone[b] = z]
<1>4. \A z \in DOMAIN zones : /\ z \in Fresh => f[z] = w[z]
                              /\ z \notin Fresh => f[z] \in Devices /\ deviceZone[f[z]] = z
  BY <1>3
<1>. HIDE DEF f
<1>5. \A z \in DOMAIN zones : f[z] \in Devices \ {d}
  BY <1>2, <1>4, Shapes
<1>6. \A y, z \in DOMAIN zones : f[y] = f[z] => y = z
  BY <1>1, <1>2, <1>4, Shapes DEF LeftBy
<1>7. f \in Injection(1..Len(zones), Devices \ {d})
  <2>1. f \in [1..Len(zones) -> Devices \ {d}]
    BY <1>5, Shapes DEF f
  <2>. QED  BY <1>6, <2>1, Shapes DEF Injection, IsInjective
<1>8. IsFiniteSet(Devices \ {d}) /\ Cardinality(Devices \ {d}) = Cardinality(Devices) - 1
  BY FS_RemoveElement, StationaryAssumption
<1>9. Cardinality(1..Len(zones)) <= Cardinality(Devices \ {d})
  BY <1>7, <1>8, FS_Injection
<1>10. Cardinality(1..Len(zones)) = Len(zones)
  <2>. DEFINE n == Len(zones)
  <2>1. n \in Nat
    BY Shapes
  <2>. HIDE DEF n
  <2>2. Cardinality(1..n) = IF 1 > n THEN 0 ELSE n - 1 + 1
    BY <2>1, FS_Interval
  <2>3. Cardinality(1..n) = n
    BY <2>1, <2>2
  <2>. QED  BY <2>3 DEF n
<1>11. Cardinality(Devices) \in Nat
  BY FS_CardinalityType, StationaryAssumption
<1>. QED  BY <1>8, <1>9, <1>10, <1>11, Shapes

(* Time passes for the empty zones and for the devices that rest alike.      *)
LEMMA AgeLeavers == ASSUME IInv, StillTime >= Cooldown, Leavers, Age  PROVE Leavers'
<1>1. PICK w \in [Fresh -> Devices] : LeftBy(w)
  BY DEF Leavers
<1>2. /\ DOMAIN zones' = DOMAIN zones
      /\ \A z \in DOMAIN zones : zones'[z].idle = Older(zones[z].idle, Cooldown)
      /\ \A d \in Devices : still'[d] = Older(still[d], StillTime)
      /\ deviceZone' = deviceZone
  <2>1. zones' = [z \in DOMAIN zones |-> [zones[z] EXCEPT !.idle = Older(@, Cooldown)]]
    BY DEF Age
  <2>2. \A z \in DOMAIN zones : zones'[z].idle = Older(zones[z].idle, Cooldown)
    BY <2>1, Shapes DEF Zone
  <2>. QED  BY <2>1, <2>2 DEF Age
<1>3. \A z \in Fresh' : z \in Fresh /\ zones'[z].idle = zones[z].idle + 1
  BY <1>2, Shapes DEF Fresh, Older
<1>4. \A d \in Devices : still[d] # None => still'[d] <= still[d] + 1
  BY <1>2, Shapes DEF Older
<1>5. \A d \in Devices : still[d] = None => still'[d] = None
  BY <1>2 DEF Older
<1>6. \A z \in Fresh' : StillRested(w[z], z)
  <2>. TAKE z \in Fresh'
  <2>1. z \in Fresh /\ z \in DOMAIN zones /\ w[z] \in Devices /\ Rested(w[z], z)
    BY <1>1, <1>3 DEF LeftBy, Fresh
  <2>2. still[w[z]] # None => still'[w[z]] <= zones'[z].idle
    <3>1. still[w[z]] # None => /\ still[w[z]] \in Nat /\ still'[w[z]] \in Int
                                /\ zones[z].idle \in Nat
      BY <1>2, <2>1, Shapes DEF Older, Fresh
    <3>. QED  BY <1>3, <1>4, <2>1, <3>1 DEF Rested
  <2>. QED  BY <1>2, <1>5, <2>1, <2>2 DEF Rested, StillRested
<1>. QED  BY <1>1, <1>3, <1>6, StayLeft

(* A device outside of all zones that is only waited for. *)
LEMMA WaitingLeavers ==
  ASSUME IInv, Leavers, NEW d \in Devices, UNCHANGED <<zones, deviceZone>>,
         NEW since \in {None, 0, still[d]}, still' = [still EXCEPT ![d] = since]
  PROVE  Leavers'
<1>1. PICK w \in [Fresh -> Devices] : LeftBy(w)
  BY DEF Leavers
<1>2. Fresh' = Fresh
  BY DEF Fresh
<1>3. \A z \in Fresh : StillRested(w[z], z)
  <2>. TAKE z \in Fresh
  <2>1. Rested(w[z], z) /\ zones[z].idle \in Nat /\ w[z] \in Devices
    BY <1>1, Shapes DEF LeftBy, Fresh
  <2>2. still'[w[z]] = IF w[z] = d THEN since ELSE still[w[z]]
    BY <2>1, Shapes
  <2>. QED  BY <2>1, <2>2 DEF Rested, StillRested
<1>. QED  BY <1>1, <1>2, <1>3, StayLeft

LEMMA NextFew == ASSUME IInv, Few, [StationaryNext]_stationaryVars  PROVE Few'
<1>. SUFFICES ASSUME StillTime >= Cooldown, Leavers, Len(zones) <= Cardinality(Devices)
              PROVE  Leavers' /\ Len(zones') <= Cardinality(Devices)
  BY DEF Few
<1>1. ASSUME NEW d \in Devices, NEW p \in Places, ObserveExisting(d, p)
      PROVE  Leavers' /\ Len(zones') <= Cardinality(Devices)
  <2>1. Len(zones') = Len(zones)
    BY <1>1, Shapes DEF ObserveExisting, stationaryVars
  <2>. QED  BY <1>1, <2>1, ExistingLeavers
<1>2. ASSUME NEW d \in Devices, NEW p \in Places, NEW moved, NEW eligible,
             ObserveOutside(d, p, moved, eligible)
      PROVE  Leavers' /\ Len(zones') <= Cardinality(Devices)
  <2>. DEFINE since == IF still[d] = None THEN 0 ELSE still[d]
  <2>1. \/ /\ UNCHANGED <<zones, deviceZone>>
           /\ \E s \in {None, 0, still[d]} : still' = [still EXCEPT ![d] = s]
        \/ /\ deviceZone[d] = None /\ ~(since < StillTime)
           /\ Enter(d, p) /\ still' = [still EXCEPT ![d] = None]
    BY <1>2 DEF ObserveOutside
  <2>2. CASE /\ UNCHANGED <<zones, deviceZone>>
             /\ \E s \in {None, 0, still[d]} : still' = [still EXCEPT ![d] = s]
    BY <2>2, WaitingLeavers
  <2>3. CASE /\ deviceZone[d] = None /\ ~(since < StillTime)
             /\ Enter(d, p) /\ still' = [still EXCEPT ![d] = None]
    <3>1. Leavers'
      BY <2>3, EnterLeavers
    <3>2. CASE Joinable(p) = {} /\ Reusable = {}
      <4>1. Len(zones') = Len(zones) + 1
        BY <2>3, <3>2, Shapes DEF Enter
      <4>. QED  BY <2>3, <3>1, <3>2, <4>1, RoomForOneMore
    <3>3. CASE ~(Joinable(p) = {} /\ Reusable = {})
      <4>1. Len(zones') = Len(zones)
        BY <2>3, <3>3, Shapes DEF Enter
      <4>. QED  BY <3>1, <4>1
    <3>. QED  BY <3>2, <3>3
  <2>. QED  BY <2>1, <2>2, <2>3
<1>3. CASE Age
  <2>1. Len(zones') = Len(zones)
    BY <1>3, Shapes DEF Age
  <2>. QED  BY <1>3, <2>1, AgeLeavers
<1>4. CASE UNCHANGED stationaryVars
  BY <1>4 DEF stationaryVars, Leavers, LeftBy, Rested, Fresh
<1>. QED  BY <1>1, <1>2, <1>3, <1>4 DEF StationaryNext, Observe

LEMMA InitFew == StationaryInit => Few
<1>. SUFFICES ASSUME StationaryInit  PROVE Few
  OBVIOUS
<1>1. Fresh = {} /\ Len(zones) = 0
  BY DEF StationaryInit, Fresh
<1>2. Leavers
  <2>. DEFINE w == [z \in {} |-> None]
  <2>1. w \in [Fresh -> Devices]
    BY <1>1
  <2>2. LeftBy(w)
    BY <1>1 DEF LeftBy
  <2>. HIDE DEF w
  <2>. QED  BY <2>1, <2>2 DEF Leavers
<1>3. Cardinality(Devices) \in Nat
  BY FS_CardinalityType, StationaryAssumption
<1>. QED  BY <1>1, <1>2, <1>3 DEF Few

(* When a device must rest for at least as long as an empty zone, there is   *)
(* never more than one zone for each device (stationary.rs: the list of      *)
(* zones is saved and never pruned), however many devices there are.         *)
THEOREM ZonesAlwaysBounded == StationarySpec => []ZonesBounded
<1>1. IInv /\ Few /\ [StationaryNext]_stationaryVars => Few'
  BY NextFew
<1>2. Few => ZonesBounded
  BY DEF Few, ZonesBounded
<1>. QED  BY <1>1, <1>2, InitFew, InductiveInvariant, PTL DEF StationarySpec
===============================================================================
