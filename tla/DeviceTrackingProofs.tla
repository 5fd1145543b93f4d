------------------------ MODULE DeviceTrackingProofs ------------------------
(***************************************************************************)
(* Proofs about DeviceTracking, for any devices, places and zones, any     *)
(* delays and any number of grace updates: the pipeline keeps its types,   *)
(* never lets doubtful samples move a device for long, enters a zone that  *)
(* may be passed through only after the whole delay, never goes back to an *)
(* earlier sample, and does with the stationary zones what their manager   *)
(* does alone.                                                             *)
(***************************************************************************)
EXTENDS DeviceTracking, SequenceTheorems, LeastElements, TLAPS

Somewhere == ZoneIds \cup {None}
Selection == [zone : Somewhere, for : 0..Delay]
Passing   == [zone : ZoneIds, left : 0..Delay]
Sighting  == [place : Places, age : -MaxAhead..Quality!AgeLimit]

(* The types of every variable. *)
Typed ==
  /\ Quality!QualityTypeOK /\ Stationary!StationaryTypeOK
  /\ current \in [Devices -> Somewhere]
  /\ zone \in [Devices -> Somewhere] /\ occupancy \in [Devices -> Somewhere]
  /\ pending \in [Devices -> Passing \cup {None}]
  /\ told \in [Devices -> SUBSET ZoneIds]
  /\ steady \in [Devices -> Selection]
  /\ doubted \in [Devices -> Nat]

(* A doubtful sample that moves a device counts as a bad one. *)
Counted == \A d \in Devices : doubted[d] <= bad[d]

(* A device waits for the zone that its accepted samples have selected for *)
(* as long as it has waited; one that waits for none is in a zone, or was  *)
(* last selected to be in none.                                            *)
Confirming ==
  \A d \in Devices :
    /\ pending[d] # None => /\ current[d] = None /\ steady[d].zone = pending[d].zone
                            /\ steady[d].for + pending[d].left = Delay
    /\ current[d] = None /\ pending[d] = None => steady[d].zone = None

IInv == Typed /\ Counted /\ Confirming

-----------------------------------------------------------------------------
(* The stationary zones.                                                   *)

(* A list of zones of which one changed, or to which one was added. *)
LEMMA OneZoneChanges ==
  ASSUME zones \in Seq(Stationary!Zone), NEW z \in DOMAIN zones, NEW e \in Stationary!Zone,
         zones' = [zones EXCEPT ![z] = e]
  PROVE  /\ zones' \in Seq(Stationary!Zone) /\ Len(zones') = Len(zones)
         /\ DOMAIN zones' = DOMAIN zones
BY ExceptSeq, LenProperties

LEMMA OneZoneMore ==
  ASSUME zones \in Seq(Stationary!Zone), NEW e \in Stationary!Zone, zones' = Append(zones, e)
  PROVE  /\ zones' \in Seq(Stationary!Zone) /\ Len(zones') = Len(zones) + 1
         /\ DOMAIN zones \subseteq DOMAIN zones' /\ Len(zones) + 1 \in 1..Len(zones')
BY AppendProperties, LenProperties

LEMMA ZonesOf ==
  ASSUME Stationary!StationaryTypeOK
  PROVE  /\ zones \in Seq(Stationary!Zone) /\ DOMAIN zones = 1..Len(zones) /\ Len(zones) \in Nat
         /\ \A z \in DOMAIN zones : zones[z] \in Stationary!Zone
BY LenProperties, ElementOfSeq DEF Stationary!StationaryTypeOK

LEMMA FirstOf ==
  ASSUME Stationary!StationaryTypeOK, NEW S \in SUBSET DOMAIN zones, S # {}
  PROVE  Stationary!First(S) \in S
<1>1. S \subseteq Nat
  BY ZonesOf
<1>. QED  BY <1>1, LeastNatural, Zenon DEF Stationary!First

(* An observation, whatever becomes of it, deletes no zone. *)
LEMMA EnterTyped ==
  ASSUME Stationary!StationaryTypeOK, NEW d \in Devices, NEW p \in Places,
         Stationary!Enter(d, p), still' = [still EXCEPT ![d] = None]
  PROVE  Stationary!StationaryTypeOK' /\ DOMAIN zones \subseteq DOMAIN zones'
<1>1. /\ zones \in Seq(Stationary!Zone) /\ DOMAIN zones = 1..Len(zones) /\ Len(zones) \in Nat
      /\ \A z \in DOMAIN zones : zones[z] \in Stationary!Zone
      /\ deviceZone \in [Devices -> 1..Len(zones) \cup {None}]
      /\ still' \in [Devices -> 0..StillTime \cup {None}]
  BY ZonesOf DEF Stationary!StationaryTypeOK
<1>2. CASE Stationary!Joinable(p) # {}
  <2>. DEFINE z == Stationary!First(Stationary!Joinable(p))
              e == [zones[z] EXCEPT !.occupants = @ \cup {d}]
  <2>1. z \in DOMAIN zones
    BY <1>2, FirstOf DEF Stationary!Joinable
  <2>2. /\ zones' = [zones EXCEPT ![z] = e]
        /\ deviceZone' = [deviceZone EXCEPT ![d] = z]
    BY <1>2 DEF Stationary!Enter
  <2>3. e \in Stationary!Zone
    BY <1>1, <2>1 DEF Stationary!Zone
  <2>. HIDE DEF z, e
  <2>4. /\ zones' \in Seq(Stationary!Zone) /\ Len(zones') = Len(zones)
        /\ DOMAIN zones' = DOMAIN zones
    BY <1>1, <2>1, <2>2, <2>3, OneZoneChanges
  <2>. QED  BY <1>1, <2>1, <2>2, <2>4 DEF Stationary!StationaryTypeOK
<1>3. CASE Stationary!Joinable(p) = {} /\ Stationary!Reusable # {}
  <2>. DEFINE z == Stationary!First(Stationary!Reusable)
              e == [center |-> p, occupants |-> zones[z].occupants \cup {d}, active |-> TRUE,
                    idle |-> None]
  <2>1. z \in DOMAIN zones
    BY <1>3, FirstOf DEF Stationary!Reusable
  <2>2. /\ zones' = [zones EXCEPT ![z] = e]
        /\ deviceZone' = [deviceZone EXCEPT ![d] = z]
    BY <1>3 DEF Stationary!Enter
  <2>3. e \in Stationary!Zone
    BY <1>1, <2>1 DEF Stationary!Zone
  <2>. HIDE DEF z, e
  <2>4. /\ zones' \in Seq(Stationary!Zone) /\ Len(zones') = Len(zones)
        /\ DOMAIN zones' = DOMAIN zones
    BY <1>1, <2>1, <2>2, <2>3, OneZoneChanges
  <2>. QED  BY <1>1, <2>1, <2>2, <2>4 DEF Stationary!StationaryTypeOK
<1>4. CASE Stationary!Joinable(p) = {} /\ Stationary!Reusable = {}
  <2>. DEFINE e == [center |-> p, occupants |-> {d}, active |-> TRUE, idle |-> None]
  <2>1. /\ zones' = Append(zones, e)
        /\ deviceZone' = [deviceZone EXCEPT ![d] = Len(zones) + 1]
    BY <1>4 DEF Stationary!Enter
  <2>2. e \in Stationary!Zone
    BY DEF Stationary!Zone
  <2>. HIDE DEF e
  <2>3. /\ zones' \in Seq(Stationary!Zone) /\ Len(zones') = Len(zones) + 1
        /\ DOMAIN zones \subseteq DOMAIN zones' /\ Len(zones) + 1 \in 1..Len(zones')
    BY <1>1, <2>1, <2>2, OneZoneMore
  <2>4. deviceZone' \in [Devices -> 1..Len(zones') \cup {None}]
    BY <1>1, <2>1, <2>3
  <2>. QED  BY <1>1, <2>3, <2>4 DEF Stationary!StationaryTypeOK
<1>. QED  BY <1>2, <1>3, <1>4

LEMMA ObserveTyped ==
  ASSUME Stationary!StationaryTypeOK, NEW d \in Devices, NEW p \in Places,
         NEW moved, NEW eligible, Stationary!Observe(d, p, moved, eligible)
  PROVE  Stationary!StationaryTypeOK' /\ DOMAIN zones \subseteq DOMAIN zones'
<1>1. /\ zones \in Seq(Stationary!Zone) /\ DOMAIN zones = 1..Len(zones) /\ Len(zones) \in Nat
      /\ \A z \in DOMAIN zones : zones[z] \in Stationary!Zone
      /\ deviceZone \in [Devices -> 1..Len(zones) \cup {None}]
      /\ still \in [Devices -> 0..StillTime \cup {None}]
  BY ZonesOf DEF Stationary!StationaryTypeOK
<1>2. ASSUME still' \in [Devices -> 0..StillTime \cup {None}], UNCHANGED <<zones, deviceZone>>
      PROVE  Stationary!StationaryTypeOK' /\ DOMAIN zones \subseteq DOMAIN zones'
  BY <1>2 DEF Stationary!StationaryTypeOK
<1>3. StillTime \in Nat /\ Cooldown \in Nat
  BY TrackingAssumption
<1>4. CASE Stationary!ObserveExisting(d, p)
  <2>1. CASE UNCHANGED Stationary!stationaryVars
    BY <1>1, <1>2, <2>1 DEF Stationary!stationaryVars
  <2>2. CASE /\ zones' = [zones EXCEPT ![deviceZone[d]] = Stationary!Left(deviceZone[d], d)]
             /\ deviceZone' = [deviceZone EXCEPT ![d] = None]
             /\ still' = [still EXCEPT ![d] = 0]
    <3>. DEFINE z == deviceZone[d]
                e == Stationary!Left(z, d)
    <3>1. z \in DOMAIN zones
      BY <1>1, <1>4 DEF Stationary!ObserveExisting
    <3>2. e \in Stationary!Zone
      <4>1. zones[z] \in Stationary!Zone /\ 0 \in 0..Cooldown
        BY <1>1, <1>3, <3>1
      <4>. HIDE DEF z
      <4>. QED  BY <4>1 DEF Stationary!Left, Stationary!Zone
    <3>3. zones' = [zones EXCEPT ![z] = e]
      BY <2>2
    <3>. HIDE DEF z, e
    <3>4. /\ zones' \in Seq(Stationary!Zone) /\ Len(zones') = Len(zones)
          /\ DOMAIN zones' = DOMAIN zones
      BY <1>1, <3>1, <3>2, <3>3, OneZoneChanges
    <3>5. deviceZone' \in [Devices -> 1..Len(zones') \cup {None}]
      BY <1>1, <2>2, <3>4
    <3>6. still' \in [Devices -> 0..StillTime \cup {None}]
      BY <1>1, <1>3, <2>2
    <3>. QED  BY <3>4, <3>5, <3>6 DEF Stationary!StationaryTypeOK
  <2>. QED  BY <1>4, <2>1, <2>2 DEF Stationary!ObserveExisting
<1>5. CASE Stationary!ObserveOutside(d, p, moved, eligible)
  <2>1. CASE /\ still' = [still EXCEPT ![d] = None]
             /\ Stationary!Enter(d, p)
    BY <2>1, EnterTyped
  <2>2. CASE /\ \E s \in 0..StillTime \cup {None} : still' = [still EXCEPT ![d] = s]
             /\ UNCHANGED <<zones, deviceZone>>
    BY <1>1, <1>2, <2>2
  <2>. DEFINE since == IF still[d] = None THEN 0 ELSE still[d]
  <2>3. since \in 0..StillTime /\ 0 \in 0..StillTime
    BY <1>1, <1>3
  <2>. QED  BY <1>5, <2>1, <2>2, <2>3 DEF Stationary!ObserveOutside
<1>. QED  BY <1>4, <1>5 DEF Stationary!Observe

LEMMA AgeTyped ==
  ASSUME Stationary!StationaryTypeOK, Stationary!Age
  PROVE  Stationary!StationaryTypeOK' /\ DOMAIN zones = DOMAIN zones'
<1>1. /\ zones \in Seq(Stationary!Zone) /\ DOMAIN zones = 1..Len(zones) /\ Len(zones) \in Nat
      /\ \A z \in DOMAIN zones : zones[z] \in Stationary!Zone
  BY ZonesOf
<1>2. StillTime \in Nat /\ Cooldown \in Nat /\ None \notin Nat
  BY TrackingAssumption
<1>. DEFINE e(z) == [zones[z] EXCEPT !.idle = Stationary!Older(@, Cooldown)]
<1>3. \A z \in DOMAIN zones : e(z) \in Stationary!Zone
  <2>. TAKE z \in DOMAIN zones
  <2>1. zones[z] \in Stationary!Zone
    BY <1>1
  <2>2. Stationary!Older(zones[z].idle, Cooldown) \in 0..Cooldown \cup {None}
    BY <1>2, <2>1 DEF Stationary!Zone, Stationary!Older
  <2>. QED  BY <2>1, <2>2 DEF Stationary!Zone
<1>4. zones' = [z \in 1..Len(zones) |-> e(z)]
  BY <1>1 DEF Stationary!Age
<1>. HIDE DEF e
<1>5. zones' \in Seq(Stationary!Zone) /\ Len(zones') = Len(zones) /\ DOMAIN zones' = DOMAIN zones
  BY <1>1, <1>3, <1>4
<1>6. still' \in [Devices -> 0..StillTime \cup {None}]
  BY <1>2 DEF Stationary!Age, Stationary!Older, Stationary!StationaryTypeOK
<1>. QED  BY <1>5, <1>6 DEF Stationary!Age, Stationary!StationaryTypeOK


-----------------------------------------------------------------------------
(* The sample.                                                             *)

LEMMA Constants ==
  /\ StillTime \in Nat /\ Cooldown \in Nat /\ Delay \in Nat /\ MaxAge \in Nat
  /\ MaxAhead \in Nat /\ GraceUpdates \in Nat /\ NewerBy \in Nat
  /\ Quality!AgeLimit \in Nat /\ MaxAge <= Quality!AgeLimit
  /\ None \notin Nat /\ None \notin Zones
  /\ \A x \in Sighting : x # None
<1>1. /\ StillTime \in Nat /\ Cooldown \in Nat /\ Delay \in Nat /\ MaxAge \in Nat
      /\ MaxAhead \in Nat /\ GraceUpdates \in Nat /\ NewerBy \in Nat
      /\ None \notin Nat /\ None \notin Zones
  BY TrackingAssumption
<1>2. Quality!AgeLimit \in Nat /\ MaxAge <= Quality!AgeLimit
  BY <1>1 DEF Quality!AgeLimit
<1>3. Sighting \subseteq [place : Places, age : Int]
  BY <1>1, <1>2 DEF Sighting
<1>4. None \notin [place : Places, age : Int]
  BY TrackingAssumption
<1>. QED  BY <1>1, <1>2, <1>3, <1>4

Verdicts == {"good", "grace", "rejected"}

(* What is judged is counted as it is judged, and a sample that is not     *)
(* rejected is not older than the one it replaces.                         *)
LEMMA Judged ==
  ASSUME Quality!QualityTypeOK, NEW d \in Devices, NEW s \in Quality!Sample,
         NEW threshold, NEW verdict, verdict = Quality!Verdict(d, s, threshold),
         Quality!Judge(d, s, verdict)
  PROVE  /\ Quality!QualityTypeOK' /\ verdict \in Verdicts
         /\ \A b \in Devices : b # d => bad'[b] = bad[b] /\ location'[b] = location[b]
         /\ verdict = "good" => bad'[d] = 0
         /\ verdict = "grace" => bad'[d] = bad[d] + 1
         /\ bad'[d] >= bad[d] \/ verdict = "good"
         /\ location[d] # None => location'[d] # None /\ location'[d].age <= location[d].age
<1>1. /\ location \in [Devices -> Sighting \cup {None}] /\ bad \in [Devices -> 0..GraceUpdates]
  BY DEF Quality!QualityTypeOK, Sighting
<1>2. s.place \in Places /\ s.age \in -MaxAhead..Quality!AgeLimit /\ s.age \in Int
  BY Constants DEF Quality!Sample
<1>. DEFINE seen == [place |-> s.place, age |-> s.age]
<1>3. seen \in Sighting /\ seen # None /\ seen.age = s.age
  BY <1>2, Constants DEF Sighting
<1>4. verdict \in Verdicts
  BY DEF Verdicts, Quality!Verdict
<1>5. /\ verdict = "grace" => bad[d] < GraceUpdates
      /\ verdict # "rejected" => ~ Quality!OutOfOrder(d, s)
  BY DEF Quality!Verdict
<1>. DEFINE b1 == IF verdict = "good" THEN 0 ELSE IF bad[d] < GraceUpdates THEN bad[d] + 1 ELSE bad[d]
<1>6. /\ location' = IF verdict = "rejected" THEN location ELSE [location EXCEPT ![d] = seen]
      /\ bad' = [bad EXCEPT ![d] = b1]
  BY DEF Quality!Judge
<1>7. b1 \in 0..GraceUpdates
  BY <1>1, Constants
<1>8. bad' \in [Devices -> 0..GraceUpdates] /\ bad'[d] = b1
      /\ \A b \in Devices : b # d => bad'[b] = bad[b]
  <2>. HIDE DEF b1
  <2>. QED  BY <1>1, <1>6, <1>7
<1>. HIDE DEF seen
<1>9. /\ location' \in [Devices -> Sighting \cup {None}]
      /\ \A b \in Devices : b # d => location'[b] = location[b]
      /\ verdict # "rejected" => location'[d] = seen
      /\ verdict = "rejected" => location'[d] = location[d]
  BY <1>1, <1>3, <1>6
<1>10. Quality!QualityTypeOK'
  BY <1>8, <1>9 DEF Quality!QualityTypeOK, Sighting
<1>11. bad[d] \in Nat /\ bad[d] <= GraceUpdates
  BY <1>1, Constants
<1>12. ASSUME location[d] # None
       PROVE  location'[d] # None /\ location'[d].age <= location[d].age
  <2>1. location[d] \in Sighting
    BY <1>1, <1>12
  <2>2. location[d].age \in Int
    BY <2>1, Constants DEF Sighting
  <2>3. CASE verdict = "rejected"
    BY <1>9, <1>12, <2>2, <2>3
  <2>4. CASE verdict # "rejected"
    BY <1>2, <1>3, <1>5, <1>9, <1>12, <2>2, <2>4 DEF Quality!OutOfOrder
  <2>. QED  BY <2>3, <2>4
<1>13. /\ verdict = "good" => bad'[d] = 0
       /\ verdict = "grace" => bad'[d] = bad[d] + 1
       /\ bad'[d] >= bad[d] \/ verdict = "good"
  BY <1>5, <1>8, <1>11
<1>. QED  BY <1>4, <1>8, <1>9, <1>10, <1>12, <1>13

LEMMA QualityAgeTyped ==
  ASSUME Quality!QualityTypeOK, Quality!QualityAge  PROVE Quality!QualityTypeOK' /\ bad' = bad
<1>1. /\ location \in [Devices -> Sighting \cup {None}] /\ bad \in [Devices -> 0..GraceUpdates]
  BY DEF Quality!QualityTypeOK, Sighting
<1>2. \A d \in Devices : location'[d] \in Sighting \cup {None}
  <2>. TAKE d \in Devices
  <2>1. location'[d] = IF location[d] = None \/ location[d].age = Quality!AgeLimit
                       THEN location[d]
                       ELSE [location[d] EXCEPT !.age = location[d].age + 1]
    BY DEF Quality!QualityAge
  <2>2. CASE location[d] # None /\ location[d].age # Quality!AgeLimit
    <3>1. location[d] \in Sighting
      BY <1>1, <2>2
    <3>2. location[d].age + 1 \in -MaxAhead..Quality!AgeLimit
      BY <2>2, <3>1, Constants DEF Sighting
    <3>. QED  BY <2>1, <2>2, <3>1, <3>2 DEF Sighting
  <2>. QED  BY <1>1, <2>1, <2>2
<1>3. location' \in [Devices -> Sighting \cup {None}]
  <2>1. location' = [d \in Devices |-> location'[d]]
    BY DEF Quality!QualityAge
  <2>. QED  BY <1>2, <2>1
<1>. QED  BY <1>1, <1>3 DEF Quality!QualityAge, Quality!QualityTypeOK, Sighting

-----------------------------------------------------------------------------
(* The zone that the samples select.                                       *)

LEMMA PassingIsSome ==
  ASSUME Typed, NEW w \in Passing  PROVE w # None
<1>1. DOMAIN zones \subseteq Nat /\ Delay \in Nat
  BY ZonesOf, Constants DEF Typed
<1>2. w \in [zone : Zones \cup Nat, left : Nat]
  BY <1>1 DEF Passing, ZoneIds
<1>. QED  BY <1>2, TrackingAssumption

(* What a step does to the wait of a device whose sample selects a zone. *)
LEMMA UpdateKeeps ==
  ASSUME Typed, Confirming, NEW d \in Devices, NEW selected \in Somewhere,
         Transition!Update(d, selected),
         steady' = IF steady[d].zone = selected THEN steady
                   ELSE [steady EXCEPT ![d] = [zone |-> selected, for |-> 0]]
  PROVE  /\ current' \in [Devices -> Somewhere]
         /\ pending' \in [Devices -> Passing \cup {None}]
         /\ steady' \in [Devices -> Selection]
         /\ Confirming'
         /\ \A b \in Devices : b # d => current'[b] = current[b]
         /\ current[d] = None /\ current'[d] # None /\ Transition!ShouldDelay(current'[d])
              => steady[d] = [zone |-> current'[d], for |-> Delay]
<1>1. /\ current \in [Devices -> Somewhere] /\ pending \in [Devices -> Passing \cup {None}]
      /\ steady \in [Devices -> Selection] /\ Delay \in Nat
  BY Constants DEF Typed
<1>. DEFINE chosen == [zone |-> selected, for |-> 0]
<1>2. chosen \in Selection /\ chosen.zone = selected /\ chosen.for = 0
  BY <1>1 DEF Selection
<1>. HIDE DEF chosen
<1>3. /\ steady' \in [Devices -> Selection]
      /\ \A b \in Devices : b # d => steady'[b] = steady[b]
      /\ steady'[d].zone = selected
      /\ steady[d].zone = selected => steady'[d] = steady[d]
      /\ steady[d].zone # selected => steady'[d].for = 0
  BY <1>1, <1>2 DEF chosen
<1>4. ASSUME current' \in [Devices -> Somewhere], pending' \in [Devices -> Passing \cup {None}],
             \A b \in Devices : b # d => current'[b] = current[b] /\ pending'[b] = pending[b],
             pending'[d] # None => /\ current'[d] = None /\ steady'[d].zone = pending'[d].zone
                                   /\ steady'[d].for + pending'[d].left = Delay,
             current'[d] = None /\ pending'[d] = None => selected = None
      PROVE  Confirming'
  BY <1>3, <1>4 DEF Confirming
<1>5. CASE Transition!Remains(d, selected)
  <2>1. current' = current /\ pending' = [pending EXCEPT ![d] = None] /\ current[d] = selected
    BY <1>5 DEF Transition!Remains
  <2>. QED  BY <1>1, <1>3, <1>4, <2>1
<1>6. CASE Transition!Waits(d, selected)
  <2>. DEFINE w == [zone |-> selected, left |-> Delay]
  <2>1. /\ current' = current /\ current[d] = None /\ selected # None
        /\ pending' = [pending EXCEPT ![d] = IF Transition!Awaits(d, selected)
                                             THEN pending[d] ELSE w]
    BY <1>6 DEF Transition!Waits
  <2>2. w \in Passing /\ w.zone = selected /\ w.left = Delay
    BY <1>1, <2>1 DEF Passing, Somewhere
  <2>. HIDE DEF w
  <2>3. CASE Transition!Awaits(d, selected)
    <3>1. pending' = pending /\ pending[d] # None /\ pending[d].zone = selected
      BY <1>1, <2>1, <2>3 DEF Transition!Awaits
    <3>. QED  BY <1>1, <1>3, <1>4, <2>1, <3>1 DEF Confirming
  <2>4. CASE ~ Transition!Awaits(d, selected)
    <3>1. pending' = [pending EXCEPT ![d] = w]
      BY <2>1, <2>4
    <3>2. steady[d].zone # selected
      BY <2>1, <2>4 DEF Confirming, Transition!Awaits
    <3>3. /\ pending' \in [Devices -> Passing \cup {None}] /\ pending'[d] = w
          /\ \A b \in Devices : b # d => pending'[b] = pending[b]
      BY <1>1, <2>2, <3>1
    <3>4. steady'[d].for = 0 /\ 0 + Delay = Delay
      BY <1>1, <1>3, <3>2
    <3>5. steady'[d].for + pending'[d].left = Delay
      BY <2>2, <3>3, <3>4
    <3>6. pending'[d] # None
      BY <2>2, <3>3, PassingIsSome
    <3>7. current' \in [Devices -> Somewhere] /\ \A b \in Devices : current'[b] = current[b]
      BY <1>1, <2>1
    <3>8. steady'[d].zone = pending'[d].zone
      BY <1>3, <2>2, <3>3
    <3>9. Confirming'
      BY <1>4, <2>1, <3>3, <3>5, <3>6, <3>7, <3>8
    <3>. QED  BY <1>3, <2>1, <3>3, <3>7, <3>9
  <2>. QED  BY <2>3, <2>4
<1>7. CASE Transition!Moves(d, selected)
  <2>1. /\ current' = [current EXCEPT ![d] = selected]
        /\ pending' = [pending EXCEPT ![d] = None]
        /\ current[d] # None \/ ~ Transition!ShouldDelay(selected)
             \/ Transition!Confirmed(d, selected)
    BY <1>7 DEF Transition!Moves
  <2>2. ASSUME current[d] = None, Transition!ShouldDelay(selected)
        PROVE  steady[d] = [zone |-> selected, for |-> Delay]
    <3>1. pending[d] # None /\ pending[d].zone = selected /\ pending[d].left = 0
      BY <2>1, <2>2 DEF Transition!Confirmed, Transition!Awaits
    <3>2. steady[d].zone = selected /\ steady[d].for + 0 = Delay
      BY <3>1 DEF Confirming
    <3>3. steady[d] \in Selection
      BY <1>1
    <3>. QED  BY <1>1, <3>2, <3>3 DEF Selection
  <2>. QED  BY <1>1, <1>3, <1>4, <2>1, <2>2
<1>. QED  BY <1>5, <1>6, <1>7 DEF Transition!Update


-----------------------------------------------------------------------------
(* The steps.                                                              *)

(* No zone is deleted, so that whatever was a zone remains one. *)
LEMMA Widened ==
  ASSUME DOMAIN zones \subseteq DOMAIN zones'
  PROVE  /\ ZoneIds \subseteq ZoneIds' /\ Somewhere \subseteq Somewhere'
         /\ Selection \subseteq Selection' /\ Passing \subseteq Passing'
<1>1. ZoneIds \subseteq ZoneIds' /\ Somewhere \subseteq Somewhere'
  BY DEF ZoneIds, Somewhere
<1>. QED  BY <1>1 DEF Selection, Passing

(* Every sample and every trigger selects a zone there is, or none. *)
LEMMA SelectedIsSomewhere ==
  ASSUME Typed, NEW d \in Devices, NEW s \in Quality!Sample, NEW trigger \in Triggers
  PROVE  Selected(d, s, trigger) \in Somewhere
<1>1. zone[d] \in Somewhere /\ None \in Somewhere
  BY DEF Typed, Somewhere
<1>2. s.place \in Places /\ s.wide \in BOOLEAN
  BY DEF Quality!Sample
<1>3. Located(s) \in Somewhere
  BY <1>2, TrackingAssumption DEF Located, Somewhere, ZoneIds
<1>4. /\ trigger.kind \in {"none", "entered", "exited"}
      /\ trigger.kind # "none" => trigger.zone \in Somewhere
  BY DEF Triggers, Somewhere, ZoneIds
<1>. QED  BY <1>1, <1>3, <1>4 DEF Selected

(* The zone a device ends up in, and what a listener believes. *)
LEMMA SettleTyped ==
  ASSUME Typed, Stationary!StationaryTypeOK', DOMAIN zones \subseteq DOMAIN zones',
         NEW d \in Devices, NEW regular \in Somewhere, Settle(d, regular)
  PROVE  zone' \in [Devices -> Somewhere'] /\ occupancy' \in [Devices -> Somewhere']
<1>. DEFINE final == IF deviceZone'[d] # None THEN deviceZone'[d] ELSE regular
<1>1. /\ zone \in [Devices -> Somewhere'] /\ occupancy \in [Devices -> Somewhere']
      /\ regular \in Somewhere'
  BY Widened DEF Typed
<1>2. deviceZone'[d] \in DOMAIN zones' \cup {None}
  BY LenProperties DEF Stationary!StationaryTypeOK
<1>3. final \in Somewhere'
  BY <1>1, <1>2 DEF Somewhere, ZoneIds
<1>. HIDE DEF final
<1>4. zone' = [zone EXCEPT ![d] = final] /\ occupancy' = [occupancy EXCEPT ![d] = final]
  BY DEF Settle, final
<1>. QED  BY <1>1, <1>3, <1>4

LEMMA AnnounceTyped ==
  ASSUME Typed, Stationary!StationaryTypeOK', DOMAIN zones \subseteq DOMAIN zones',
         NEW d \in Devices, current' \in [Devices -> Somewhere], Announce(d)
  PROVE  told' \in [Devices -> SUBSET ZoneIds']
<1>. DEFINE moved == IF current'[d] = current[d] THEN told[d]
                     ELSE (told[d] \ {current[d]}) \cup ({current'[d]} \ {None})
            then == IF deviceZone'[d] = deviceZone[d] THEN moved
                    ELSE (moved \ {deviceZone[d]}) \cup ({deviceZone'[d]} \ {None})
<1>1. told \in [Devices -> SUBSET ZoneIds'] /\ current'[d] \in Somewhere'
  BY Widened DEF Typed
<1>2. deviceZone'[d] \in DOMAIN zones' \cup {None}
  BY LenProperties DEF Stationary!StationaryTypeOK
<1>3. moved \subseteq ZoneIds'
  BY <1>1 DEF Somewhere
<1>4. then \subseteq ZoneIds'
  <2>. HIDE DEF moved
  <2>. QED  BY <1>2, <1>3 DEF ZoneIds
<1>. HIDE DEF moved, then
<1>5. told' = [told EXCEPT ![d] = then]
  BY DEF Announce, moved, then
<1>. QED  BY <1>1, <1>4, <1>5

LEMMA AcceptKeeps ==
  ASSUME IInv, NEW d \in Devices, NEW s \in Quality!Sample, NEW threshold, NEW verdict,
         NEW trigger \in Triggers, verdict = Quality!Verdict(d, s, threshold),
         Quality!Judge(d, s, verdict), Accept(d, s, verdict, trigger), Announce(d)
  PROVE  IInv'
<1>. DEFINE selected == Selected(d, s, trigger)
            moved == location[d] # None /\ <<location[d].place, s.place>> \in Far
            eligible == verdict = "good"
<1>1. Typed /\ Confirming /\ Counted
  BY DEF IInv
<1>2. /\ verdict # "rejected" /\ Transition!Update(d, selected)
      /\ Stationary!Observe(d, s.place, moved, eligible) /\ Settle(d, current'[d])
      /\ steady' = IF steady[d].zone = selected THEN steady
                   ELSE [steady EXCEPT ![d] = [zone |-> selected, for |-> 0]]
      /\ doubted' = [doubted EXCEPT ![d] = IF eligible THEN 0 ELSE doubted[d] + 1]
  BY DEF Accept
<1>3. /\ Quality!QualityTypeOK' /\ verdict \in Verdicts
      /\ \A b \in Devices : b # d => bad'[b] = bad[b] /\ location'[b] = location[b]
      /\ verdict = "good" => bad'[d] = 0
      /\ verdict = "grace" => bad'[d] = bad[d] + 1
  BY <1>1, Judged DEF Typed
<1>4. selected \in Somewhere
  BY <1>1, SelectedIsSomewhere
<1>. HIDE DEF selected
<1>5. /\ current' \in [Devices -> Somewhere] /\ pending' \in [Devices -> Passing \cup {None}]
      /\ steady' \in [Devices -> Selection] /\ Confirming'
  BY <1>1, <1>2, <1>4, UpdateKeeps
<1>6. Stationary!StationaryTypeOK' /\ DOMAIN zones \subseteq DOMAIN zones'
  <2>1. s.place \in Places
    BY DEF Quality!Sample
  <2>. HIDE DEF moved, eligible
  <2>. QED  BY <1>1, <1>2, <2>1, ObserveTyped DEF Typed
<1>7. zone' \in [Devices -> Somewhere'] /\ occupancy' \in [Devices -> Somewhere']
  <2>1. current'[d] \in Somewhere
    BY <1>5
  <2>. QED  BY <1>1, <1>2, <1>6, <2>1, SettleTyped
<1>8. told' \in [Devices -> SUBSET ZoneIds']
  BY <1>1, <1>5, <1>6, AnnounceTyped
<1>9. doubted' \in [Devices -> Nat] /\ Counted'
  <2>1. doubted \in [Devices -> Nat] /\ bad \in [Devices -> 0..GraceUpdates] /\ GraceUpdates \in Nat
    BY <1>1, Constants DEF Typed, Quality!QualityTypeOK
  <2>2. eligible \/ (~ eligible /\ bad'[d] = bad[d] + 1)
    BY <1>2, <1>3 DEF Verdicts
  <2>3. eligible => bad'[d] = 0
    BY <1>3
  <2>4. doubted[d] <= bad[d]
    BY <1>1 DEF Counted
  <2>5. doubted' \in [Devices -> Nat]
    BY <1>2, <2>1
  <2>6. doubted'[d] <= bad'[d]
    BY <1>2, <2>1, <2>2, <2>3, <2>4
  <2>7. \A b \in Devices : b # d => doubted'[b] = doubted[b]
    BY <1>2, <2>1
  <2>. QED  BY <1>1, <1>3, <2>5, <2>6, <2>7 DEF Counted
<1>10. /\ current' \in [Devices -> Somewhere'] /\ pending' \in [Devices -> Passing' \cup {None}]
       /\ steady' \in [Devices -> Selection']
  <2>1. Somewhere \subseteq Somewhere' /\ Selection \subseteq Selection' /\ Passing \subseteq Passing'
    BY <1>6, Widened
  <2>. QED  BY <1>5, <2>1
<1>11. Typed'
  BY <1>3, <1>6, <1>7, <1>8, <1>9, <1>10 DEF Typed
<1>. QED  BY <1>5, <1>9, <1>11 DEF IInv

(* Nothing but the sample, the zone at the end and the events moves. *)
LEMMA OnlySettled ==
  ASSUME IInv, NEW d \in Devices, Quality!QualityTypeOK',
         \A b \in Devices : bad'[b] >= bad[b], Settle(d, None),
         UNCHANGED <<current, pending, zones, deviceZone, still, steady, doubted>>,
         told' = told \/ Announce(d)
  PROVE  IInv'
<1>1. Typed /\ Confirming /\ Counted
  BY DEF IInv
<1>2. Stationary!StationaryTypeOK' /\ DOMAIN zones \subseteq DOMAIN zones'
  BY <1>1 DEF Typed, Stationary!StationaryTypeOK
<1>3. zone' \in [Devices -> Somewhere'] /\ occupancy' \in [Devices -> Somewhere']
  <2>1. None \in Somewhere
    BY DEF Somewhere
  <2>. QED  BY <1>1, <1>2, <2>1, SettleTyped
<1>4. told' \in [Devices -> SUBSET ZoneIds']
  <2>1. CASE told' = told
    BY <1>1, <1>2, <2>1, Widened DEF Typed
  <2>2. CASE Announce(d)
    <3>1. current' \in [Devices -> Somewhere]
      BY <1>1 DEF Typed
    <3>. QED  BY <1>1, <1>2, <2>2, <3>1, AnnounceTyped
  <2>. QED  BY <2>1, <2>2
<1>5. /\ current' \in [Devices -> Somewhere'] /\ pending' \in [Devices -> Passing' \cup {None}]
      /\ steady' \in [Devices -> Selection'] /\ doubted' \in [Devices -> Nat]
  <2>1. Somewhere \subseteq Somewhere' /\ Selection \subseteq Selection' /\ Passing \subseteq Passing'
    BY <1>2, Widened
  <2>. QED  BY <1>1, <2>1 DEF Typed
<1>6. Typed'
  BY <1>2, <1>3, <1>4, <1>5 DEF Typed
<1>7. Confirming'
  BY <1>1 DEF Confirming
<1>8. Counted'
  <2>1. /\ bad \in [Devices -> 0..GraceUpdates] /\ bad' \in [Devices -> 0..GraceUpdates]
        /\ GraceUpdates \in Nat /\ doubted \in [Devices -> Nat]
    BY <1>1, Constants DEF Typed, Quality!QualityTypeOK
  <2>. QED  BY <1>1, <2>1 DEF Counted
<1>. QED  BY <1>6, <1>7, <1>8 DEF IInv

LEMMA RefreshKeeps ==
  ASSUME IInv, NEW d \in Devices, NEW s \in Quality!Sample, NEW threshold,
         NEW trigger \in Triggers, Refresh(d, s, threshold, trigger)
  PROVE  IInv'
<1>. DEFINE verdict == Quality!Verdict(d, s, threshold)
<1>1. Quality!Judge(d, s, verdict) /\ Announce(d)
  BY DEF Refresh
<1>2. CASE Accept(d, s, verdict, trigger)
  BY <1>1, <1>2, AcceptKeeps
<1>3. CASE Reject(d, verdict)
  <2>. HIDE DEF verdict
  <2>1. verdict = Quality!Verdict(d, s, threshold)
    BY DEF verdict
  <2>2. Quality!QualityTypeOK
    BY DEF IInv, Typed
  <2>3. /\ Quality!QualityTypeOK'
        /\ \A b \in Devices : b # d => bad'[b] = bad[b]
        /\ bad'[d] >= bad[d] \/ verdict = "good"
    BY <1>1, <2>1, <2>2, Judged
  <2>4. verdict = "rejected"
    BY <1>3 DEF Reject
  <2>5. bad \in [Devices -> 0..GraceUpdates] /\ GraceUpdates \in Nat
    BY <2>2, Constants DEF Quality!QualityTypeOK
  <2>6. \A b \in Devices : bad'[b] >= bad[b]
    BY <2>3, <2>4, <2>5
  <2>. QED  BY <1>1, <1>3, <2>3, <2>6, OnlySettled DEF Reject
<1>. QED  BY <1>2, <1>3 DEF Refresh

LEMMA UnlocatedKeeps ==
  ASSUME IInv, NEW d \in Devices, Unlocated(d)  PROVE IInv'
<1>1. /\ Quality!QualityTypeOK /\ bad \in [Devices -> 0..GraceUpdates] /\ GraceUpdates \in Nat
  BY Constants DEF IInv, Typed, Quality!QualityTypeOK
<1>2. Quality!QualityTypeOK' /\ \A b \in Devices : bad'[b] >= bad[b]
  BY <1>1 DEF Unlocated, Quality!QualityTypeOK
<1>. QED  BY <1>2, OnlySettled DEF Unlocated


(* Time passes for the sample, for the zones, and for the device that waits: *)
(* as long as it still has to wait, its zone has been selected for longer.   *)
LEMMA ElapseKeeps == ASSUME IInv, Elapse  PROVE IInv'
<1>1. Typed /\ Confirming /\ Counted
  BY DEF IInv
<1>2. Quality!QualityTypeOK' /\ bad' = bad
  BY <1>1, QualityAgeTyped DEF Elapse, Typed
<1>3. Stationary!StationaryTypeOK' /\ DOMAIN zones = DOMAIN zones'
  BY <1>1, AgeTyped DEF Elapse, Typed
<1>4. /\ Somewhere \subseteq Somewhere' /\ Selection \subseteq Selection'
      /\ Passing \subseteq Passing' /\ ZoneIds \subseteq ZoneIds'
  BY <1>3, Widened
<1>5. /\ current \in [Devices -> Somewhere] /\ pending \in [Devices -> Passing \cup {None}]
      /\ steady \in [Devices -> Selection] /\ Delay \in Nat
  BY <1>1, Constants DEF Typed
<1>6. /\ current' = current
      /\ \A d \in Devices : pending'[d] = IF pending[d] = None \/ pending[d].left = 0 THEN pending[d]
                                          ELSE [pending[d] EXCEPT !.left = @ - 1]
      /\ \A d \in Devices : steady'[d] = IF steady[d].for = Delay THEN steady[d]
                                         ELSE [steady[d] EXCEPT !.for = @ + 1]
      /\ pending' = [d \in Devices |-> pending'[d]] /\ steady' = [d \in Devices |-> steady'[d]]
      /\ UNCHANGED <<zone, occupancy, told, doubted>>
  BY DEF Elapse, Transition!TransitionAge
<1>7. \A d \in Devices : steady'[d] \in Selection /\ steady'[d].zone = steady[d].zone
  <2>. TAKE d \in Devices
  <2>1. steady[d] \in Selection
    BY <1>5
  <2>2. CASE steady[d].for = Delay
    BY <1>6, <2>1, <2>2
  <2>3. CASE steady[d].for # Delay
    <3>1. steady[d].for + 1 \in 0..Delay
      BY <1>5, <2>1, <2>3 DEF Selection
    <3>. QED  BY <1>6, <2>1, <2>3, <3>1 DEF Selection
  <2>. QED  BY <2>2, <2>3
<1>8. \A d \in Devices :
        /\ pending'[d] \in Passing \cup {None}
        /\ pending'[d] = None <=> pending[d] = None
        /\ pending[d] # None => pending'[d].zone = pending[d].zone
  <2>. TAKE d \in Devices
  <2>1. CASE pending[d] = None \/ pending[d].left = 0
    BY <1>5, <1>6, <2>1
  <2>2. CASE ~ (pending[d] = None \/ pending[d].left = 0)
    <3>1. pending[d] \in Passing
      BY <1>5, <2>2
    <3>2. pending[d].left - 1 \in 0..Delay
      BY <1>5, <2>2, <3>1 DEF Passing
    <3>3. pending'[d] \in Passing /\ pending'[d].zone = pending[d].zone
      BY <1>6, <2>2, <3>1, <3>2 DEF Passing
    <3>4. pending'[d] # None
      BY <1>1, <3>3, PassingIsSome
    <3>. QED  BY <2>2, <3>3, <3>4
  <2>. QED  BY <2>1, <2>2
<1>9. Confirming'
  <2>. SUFFICES ASSUME NEW d \in Devices
                PROVE  /\ pending'[d] # None =>
                            /\ current'[d] = None /\ steady'[d].zone = pending'[d].zone
                            /\ steady'[d].for + pending'[d].left = Delay
                       /\ current'[d] = None /\ pending'[d] = None => steady'[d].zone = None
    BY DEF Confirming
  <2>1. current'[d] = None /\ pending'[d] = None => steady'[d].zone = None
    BY <1>1, <1>6, <1>7, <1>8 DEF Confirming
  <2>2. ASSUME pending'[d] # None
        PROVE  /\ current'[d] = None /\ steady'[d].zone = pending'[d].zone
               /\ steady'[d].for + pending'[d].left = Delay
    <3>1. /\ pending[d] \in Passing /\ pending[d] # None
          /\ current[d] = None /\ steady[d].zone = pending[d].zone
          /\ steady[d].for + pending[d].left = Delay
      BY <1>1, <1>5, <1>8, <2>2 DEF Confirming
    <3>2. /\ pending[d].left \in 0..Delay /\ steady[d].for \in 0..Delay
      BY <1>5, <3>1 DEF Passing, Selection
    <3>3. CASE pending[d].left = 0
      <4>1. steady[d].for = Delay
        BY <1>5, <3>1, <3>2, <3>3
      <4>. QED  BY <1>6, <3>1, <3>3, <4>1
    <3>4. CASE pending[d].left # 0
      <4>1. steady[d].for # Delay
        BY <1>5, <3>1, <3>2, <3>4
      <4>2. /\ steady'[d] = [steady[d] EXCEPT !.for = @ + 1]
            /\ pending'[d] = [pending[d] EXCEPT !.left = @ - 1]
        BY <1>6, <3>1, <3>4, <4>1
      <4>3. steady'[d].for = steady[d].for + 1 /\ pending'[d].left = pending[d].left - 1
        BY <1>5, <3>1, <4>2 DEF Passing, Selection
      <4>. QED  BY <1>5, <1>6, <1>7, <1>8, <3>1, <3>2, <4>3
    <3>. QED  BY <3>3, <3>4
  <2>. QED  BY <2>1, <2>2
<1>10. Counted'
  BY <1>1, <1>2, <1>6 DEF Counted
<1>11. /\ current' \in [Devices -> Somewhere'] /\ pending' \in [Devices -> Passing' \cup {None}]
       /\ steady' \in [Devices -> Selection']
  <2>1. pending' \in [Devices -> Passing \cup {None}] /\ steady' \in [Devices -> Selection]
    BY <1>6, <1>7, <1>8
  <2>. QED  BY <1>4, <1>5, <1>6, <2>1
<1>12. /\ zone' \in [Devices -> Somewhere'] /\ occupancy' \in [Devices -> Somewhere']
       /\ told' \in [Devices -> SUBSET ZoneIds'] /\ doubted' \in [Devices -> Nat]
  BY <1>1, <1>4, <1>6 DEF Typed
<1>13. Typed'
  BY <1>2, <1>3, <1>11, <1>12 DEF Typed
<1>. QED  BY <1>9, <1>10, <1>13 DEF IInv

LEMMA NextIInv == IInv /\ [Next]_vars => IInv'
<1>. SUFFICES ASSUME IInv, [Next]_vars  PROVE IInv'
  OBVIOUS
<1>1. ASSUME NEW d \in Devices, Sighted(d)  PROVE IInv'
  <2>1. [kind |-> "none"] \in Triggers
    BY DEF Triggers
  <2>. QED  BY <1>1, <2>1, RefreshKeeps DEF Sighted
<1>2. ASSUME NEW d \in Devices, Unlocated(d)  PROVE IInv'
  BY <1>2, UnlocatedKeeps
<1>3. ASSUME NEW d \in Devices, External(d)  PROVE IInv'
  BY <1>3, RefreshKeeps DEF External
<1>4. CASE Elapse
  BY <1>4, ElapseKeeps
<1>5. CASE UNCHANGED vars
  BY <1>5 DEF vars, IInv, Typed, Counted, Confirming, Quality!QualityTypeOK,
              Stationary!StationaryTypeOK, Somewhere, Selection, Passing, ZoneIds,
              Stationary!Zone
<1>. QED  BY <1>1, <1>2, <1>3, <1>4, <1>5 DEF Next

LEMMA InitIInv == Init => IInv
<1>. SUFFICES ASSUME Init  PROVE IInv
  OBVIOUS
<1>1. /\ location = [d \in Devices |-> None] /\ bad = [d \in Devices |-> 0]
      /\ current = [d \in Devices |-> None] /\ pending = [d \in Devices |-> None]
      /\ zones = <<>> /\ deviceZone = [d \in Devices |-> None] /\ still = [d \in Devices |-> None]
      /\ zone = [d \in Devices |-> None] /\ occupancy = [d \in Devices |-> None]
      /\ told = [d \in Devices |-> {}]
      /\ steady = [d \in Devices |-> [zone |-> None, for |-> 0]]
      /\ doubted = [d \in Devices |-> 0]
  BY DEF Init, Quality!QualityInit, Transition!TransitionInit, Stationary!StationaryInit
<1>2. zones \in Seq(Stationary!Zone)
  BY <1>1
<1>3. Quality!QualityTypeOK /\ Stationary!StationaryTypeOK
  BY <1>1, <1>2, Constants DEF Quality!QualityTypeOK, Stationary!StationaryTypeOK
<1>4. \A d \in Devices : steady[d] \in Selection /\ steady[d].zone = None
  BY <1>1, Constants DEF Selection, Somewhere
<1>5. steady \in [Devices -> Selection]
  BY <1>1, <1>4
<1>6. Typed
  BY <1>1, <1>3, <1>5 DEF Typed, Somewhere
<1>. QED  BY <1>1, <1>4, <1>6 DEF IInv, Counted, Confirming

LEMMA InductiveInvariant == Spec => []IInv
BY InitIInv, NextIInv, PTL DEF Spec


-----------------------------------------------------------------------------
(* The theorems.                                                           *)

(***************************************************************************)
(* Every variable of the pipeline, and the zone a device is in, waits for  *)
(* or was announced to be in, has its type: no zone is named that does not *)
(* exist.                                                                  *)
(***************************************************************************)
THEOREM TypeCorrect == Spec => []TypeOK
<1>1. IInv => TypeOK
  <2>. SUFFICES ASSUME IInv  PROVE TypeOK
    OBVIOUS
  <2>1. Typed
    BY DEF IInv
  <2>2. ASSUME NEW d \in Devices, pending[d] # None
        PROVE  pending[d].zone \in ZoneIds /\ pending[d].left \in 0..Delay
    BY <2>1, <2>2 DEF Typed, Passing
  <2>. QED  BY <2>1, <2>2 DEF Typed, TypeOK, Somewhere
<1>. QED  BY <1>1, InductiveInvariant, PTL

(***************************************************************************)
(* No more than the grace updates in a row move a device on doubtful       *)
(* evidence, because each of them counts as a bad update.                  *)
(***************************************************************************)
THEOREM GraceAlwaysBounded == Spec => []GraceBounded
<1>1. IInv => GraceBounded
  <2>. SUFFICES ASSUME IInv, NEW d \in Devices  PROVE doubted[d] <= GraceUpdates
    BY DEF GraceBounded
  <2>1. doubted[d] \in Nat /\ bad[d] \in 0..GraceUpdates /\ doubted[d] <= bad[d]
    BY DEF IInv, Typed, Counted, Quality!QualityTypeOK
  <2>. QED  BY <2>1, Constants
<1>. QED  BY <1>1, InductiveInvariant, PTL

(* What any refresh does to the zones that are not stationary. *)
LEMMA RefreshConfirms ==
  ASSUME IInv, NEW d \in Devices, NEW s \in Quality!Sample, NEW threshold,
         NEW trigger \in Triggers, Refresh(d, s, threshold, trigger), NEW b \in Devices,
         current[b] = None, current'[b] # None, Transition!ShouldDelay(current'[b])
  PROVE  steady[b] = [zone |-> current'[b], for |-> Delay]
<1>. DEFINE verdict == Quality!Verdict(d, s, threshold)
            selected == Selected(d, s, trigger)
<1>1. Typed /\ Confirming
  BY DEF IInv
<1>2. CASE Accept(d, s, verdict, trigger)
  <2>1. /\ Transition!Update(d, selected)
        /\ steady' = IF steady[d].zone = selected THEN steady
                     ELSE [steady EXCEPT ![d] = [zone |-> selected, for |-> 0]]
    BY <1>2 DEF Accept
  <2>2. selected \in Somewhere
    BY <1>1, SelectedIsSomewhere
  <2>. HIDE DEF selected
  <2>3. /\ b # d => current'[b] = current[b]
        /\ current[d] = None /\ current'[d] # None /\ Transition!ShouldDelay(current'[d])
             => steady[d] = [zone |-> current'[d], for |-> Delay]
    BY <1>1, <2>1, <2>2, UpdateKeeps
  <2>. QED  BY <2>3
<1>3. CASE Reject(d, verdict)
  BY <1>3 DEF Reject
<1>. QED  BY <1>2, <1>3 DEF Refresh

(***************************************************************************)
(* A device enters a zone it might be passing through only after the       *)
(* accepted samples have put it there for the whole delay.                 *)
(***************************************************************************)
THEOREM PassThroughAlwaysConfirmed == Spec => PassThroughConfirmed
<1>1. ASSUME IInv, [Next]_vars, NEW b \in Devices,
             current[b] = None, current'[b] # None, Transition!ShouldDelay(current'[b])
      PROVE  steady[b] = [zone |-> current'[b], for |-> Delay]
  <2>1. ASSUME NEW d \in Devices, Sighted(d)
        PROVE  steady[b] = [zone |-> current'[b], for |-> Delay]
    <3>1. [kind |-> "none"] \in Triggers
      BY DEF Triggers
    <3>. QED  BY <1>1, <2>1, <3>1, RefreshConfirms DEF Sighted
  <2>2. ASSUME NEW d \in Devices, External(d)
        PROVE  steady[b] = [zone |-> current'[b], for |-> Delay]
    BY <1>1, <2>2, RefreshConfirms DEF External
  <2>3. ASSUME NEW d \in Devices, Unlocated(d)  PROVE FALSE
    BY <1>1, <2>3 DEF Unlocated
  <2>4. CASE Elapse
    BY <1>1, <2>4 DEF Elapse, Transition!TransitionAge
  <2>5. CASE UNCHANGED vars
    BY <1>1, <2>5 DEF vars
  <2>. QED  BY <1>1, <2>1, <2>2, <2>3, <2>4, <2>5 DEF Next
<1>2. IInv /\ [Next]_vars =>
        [\A d \in Devices :
           current[d] = None /\ current'[d] # None /\ Transition!ShouldDelay(current'[d])
             => steady[d] = [zone |-> current'[d], for |-> Delay]]_vars
  BY <1>1
<1>. QED  BY <1>2, InductiveInvariant, PTL DEF Spec, PassThroughConfirmed

(***************************************************************************)
(* The selected location is never replaced by one that was measured        *)
(* earlier, whichever source it comes from.                                *)
(***************************************************************************)
THEOREM FreshestAlwaysWins == Spec => FreshestWins
<1>1. ASSUME IInv, [Next]_vars, ~ Elapse, NEW b \in Devices, location[b] # None
      PROVE  location'[b] # None /\ location'[b].age <= location[b].age
  <2>1. location[b].age \in Int /\ location[b].age <= location[b].age
    <3>1. location[b] \in Sighting
      BY <1>1 DEF IInv, Typed, Quality!QualityTypeOK, Sighting
    <3>2. location[b].age \in Int
      BY <3>1, Constants DEF Sighting
    <3>. QED  BY <3>2
  <2>2. ASSUME NEW d \in Devices, NEW s \in Quality!Sample, NEW threshold, NEW trigger,
               Refresh(d, s, threshold, trigger)
        PROVE  location'[b] # None /\ location'[b].age <= location[b].age
    <3>. DEFINE verdict == Quality!Verdict(d, s, threshold)
    <3>1. Quality!Judge(d, s, verdict) /\ Quality!QualityTypeOK
      BY <1>1, <2>2 DEF Refresh, IInv, Typed
    <3>2. /\ b # d => location'[b] = location[b]
          /\ location[d] # None => location'[d] # None /\ location'[d].age <= location[d].age
      BY <3>1, Judged
    <3>. QED  BY <1>1, <2>1, <3>2
  <2>3. ASSUME NEW d \in Devices, Sighted(d) \/ External(d)
        PROVE  location'[b] # None /\ location'[b].age <= location[b].age
    BY <2>2, <2>3 DEF Sighted, External
  <2>4. ASSUME NEW d \in Devices, Unlocated(d)
        PROVE  location'[b] # None /\ location'[b].age <= location[b].age
    BY <1>1, <2>1, <2>4 DEF Unlocated
  <2>5. CASE UNCHANGED vars
    BY <1>1, <2>1, <2>5 DEF vars
  <2>. QED  BY <1>1, <2>3, <2>4, <2>5 DEF Next
<1>2. IInv /\ [Next]_vars =>
        [\A d \in Devices :
           location[d] # None /\ ~Elapse =>
             location'[d] # None /\ location'[d].age <= location[d].age]_vars
  BY <1>1
<1>. QED  BY <1>2, InductiveInvariant, PTL DEF Spec, FreshestWins

(***************************************************************************)
(* All the pipeline does to the stationary zones is what their manager     *)
(* does when it is driven alone: each of its operations there takes one    *)
(* observation to the manager, lets time pass, or leaves it as it is.      *)
(* Whatever is proved of StationaryZones by itself holds inside the        *)
(* pipeline too.                                                           *)
(***************************************************************************)
THEOREM PipelineUsesManager == Spec => Stationary!StationarySpec
<1>1. Init => Stationary!StationaryInit
  BY DEF Init
<1>2. [Next]_vars => [Stationary!StationaryNext]_(Stationary!stationaryVars)
  <2>. SUFFICES ASSUME [Next]_vars
                PROVE  Stationary!StationaryNext \/ UNCHANGED <<zones, deviceZone, still>>
    BY DEF Stationary!stationaryVars
  <2>1. ASSUME NEW d \in Devices, NEW s \in Quality!Sample, NEW threshold, NEW trigger,
               Refresh(d, s, threshold, trigger)
        PROVE  Stationary!StationaryNext \/ UNCHANGED <<zones, deviceZone, still>>
    <3>. DEFINE verdict == Quality!Verdict(d, s, threshold)
                moved == location[d] # None /\ <<location[d].place, s.place>> \in Far
                eligible == verdict = "good"
    <3>1. CASE Accept(d, s, verdict, trigger)
      <4>1. Stationary!Observe(d, s.place, moved, eligible)
        BY <3>1 DEF Accept
      <4>2. s.place \in Places /\ moved \in BOOLEAN /\ eligible \in BOOLEAN
        BY DEF Quality!Sample
      <4>. HIDE DEF moved, eligible
      <4>. QED  BY <4>1, <4>2 DEF Stationary!StationaryNext
    <3>2. CASE Reject(d, verdict)
      BY <3>2 DEF Reject
    <3>. QED  BY <2>1, <3>1, <3>2 DEF Refresh
  <2>2. ASSUME NEW d \in Devices, Sighted(d) \/ External(d)
        PROVE  Stationary!StationaryNext \/ UNCHANGED <<zones, deviceZone, still>>
    BY <2>1, <2>2 DEF Sighted, External
  <2>3. ASSUME NEW d \in Devices, Unlocated(d)
        PROVE  UNCHANGED <<zones, deviceZone, still>>
    BY <2>3 DEF Unlocated
  <2>4. CASE Elapse
    BY <2>4 DEF Elapse, Stationary!StationaryNext
  <2>5. CASE UNCHANGED vars
    BY <2>5 DEF vars
  <2>. QED  BY <2>2, <2>3, <2>4, <2>5 DEF Next
<1>. QED  BY <1>1, <1>2, PTL DEF Spec, Stationary!StationarySpec


Manager == INSTANCE StationaryZonesProofs

(***************************************************************************)
(* So it is with the three records of who is where, with the distance      *)
(* between zones in use and with the number of zones: after any snapshots, *)
(* in whatever order samples of both sources come in, the records agree,   *)
(* no zone in use is in reach of another, and there is a zone for each     *)
(* device at most when a device has to be still for as long as zones rest. *)
(***************************************************************************)
THEOREM PipelineKeepsZones ==
  Spec => []Stationary!OccupancyAgrees /\ []Stationary!ActiveZonesApart
            /\ []Stationary!ZonesBounded
<1>1. Manager!StationaryAssumption
  <2>1. Manager!IsFiniteSet(Devices)
    BY TrackingAssumption DEF IsFiniteSet, Manager!IsFiniteSet
  <2>. QED  BY <2>1, TrackingAssumption DEF Manager!StationaryAssumption, Regular
<1>2. Manager!StationarySpec => []Manager!OccupancyAgrees
  BY <1>1, Manager!OccupancyAlwaysAgrees
<1>3. Manager!StationarySpec => []Manager!ActiveZonesApart
  BY <1>1, Manager!ActiveZonesAlwaysApart
<1>4. Manager!StationarySpec => []Manager!ZonesBounded
  BY <1>1, Manager!ZonesAlwaysBounded
<1>5. Stationary!StationaryInit => Manager!StationaryInit
  BY DEF Stationary!StationaryInit, Manager!StationaryInit
<1>6. [Stationary!StationaryNext]_(Stationary!stationaryVars)
        => [Manager!StationaryNext]_(Manager!stationaryVars)
  BY DEF Stationary!StationaryNext, Manager!StationaryNext, Stationary!stationaryVars,
         Manager!stationaryVars, Stationary!Observe, Manager!Observe,
         Stationary!ObserveExisting, Manager!ObserveExisting, Stationary!ObserveOutside,
         Manager!ObserveOutside, Stationary!Enter, Manager!Enter, Stationary!Joinable,
         Manager!Joinable, Stationary!Reusable, Manager!Reusable, Stationary!First,
         Manager!First, Stationary!Left, Manager!Left, Stationary!InReach, Manager!InReach,
         Stationary!Age, Manager!Age, Stationary!Older, Manager!Older
<1>7. /\ Manager!OccupancyAgrees => Stationary!OccupancyAgrees
      /\ Manager!ActiveZonesApart => Stationary!ActiveZonesApart
  BY DEF Manager!OccupancyAgrees, Stationary!OccupancyAgrees, Manager!ActiveZonesApart,
         Stationary!ActiveZonesApart, Manager!InReach, Stationary!InReach
<1>8. Manager!ZonesBounded => Stationary!ZonesBounded
  <2>1. Manager!Cardinality(Devices) = Stationary!Cardinality(Devices)
    BY DEF Manager!Cardinality, Stationary!Cardinality
  <2>. QED  BY <2>1 DEF Manager!ZonesBounded, Stationary!ZonesBounded
<1>. QED  BY <1>2, <1>3, <1>4, <1>5, <1>6, <1>7, <1>8, PipelineUsesManager, PTL
          DEF Stationary!StationarySpec, Manager!StationarySpec

=============================================================================
