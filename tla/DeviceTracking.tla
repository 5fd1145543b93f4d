--------------------------- MODULE DeviceTracking ---------------------------
(***************************************************************************)
(* What TrackingRuntime::apply_refresh (src/runtime.rs) does to one device *)
(* with each snapshot: the sample is judged (LocationQuality), an accepted *)
(* one moves the device between configured zones (ZoneTransition) and in   *)
(* and out of stationary ones (StationaryZones), and the two answers are   *)
(* joined into current_zone, the zone occupancy and the zone events.       *)
(*                                                                         *)
(* Left out, because nothing here depends on it: the scheduling that       *)
(* follows (module Scheduler), direction, interval, routes and battery.    *)
(***************************************************************************)
EXTENDS Integers, Sequences, FiniteSets

CONSTANTS
  Devices, Places, Zones, None,
  ZoneAt,        \* ZoneAt[p]: the configured zone p lies in, or None
  ZoneWithin,    \* ZoneWithin[p]: the same, under the allowance for accuracy
  Near, Far,     \* places within reach of a zone; beyond the movement limit
  StillTime, Cooldown, Delay, TrackedFrom, Prefixed,
  MaxAge, MaxAhead, Thresholds, GraceUpdates, NewerBy

ASSUME TrackingAssumption ==
  /\ ZoneAt \in [Places -> Zones \cup {None}] /\ ZoneWithin \in [Places -> Zones \cup {None}]
  /\ Near \subseteq Places \X Places /\ Far \subseteq Places \X Places
  /\ \A p \in Places : <<p, p>> \in Near
  /\ \A p, q \in Places : <<p, q>> \in Near => <<q, p>> \in Near
  /\ {StillTime, Cooldown, Delay, MaxAge, MaxAhead, GraceUpdates, NewerBy} \subseteq Nat
  /\ IsFiniteSet(Devices) /\ TrackedFrom \subseteq Zones /\ Thresholds \subseteq Nat
  /\ None \notin Nat \cup Zones
  /\ None \notin [place : Places, age : Int] \cup [zone : Zones \cup Nat, left : Nat]

Regular == {p \in Places : ZoneAt[p] # None}

VARIABLES
  location, bad,             \* the sample (LocationQuality)
  current, pending,          \* the configured zone (ZoneTransition)
  zones, deviceZone, still,  \* the stationary zones (StationaryZones)
  zone,                      \* zone[d]: DeviceTrackingState.current_zone
  occupancy                  \* occupancy[d]: ZoneOccupancy.device_zones

\* Observation: the zones a listener of the events believes d is in; for how long
\* the accepted samples of d have selected the same zone; how many of them in a
\* row were doubtful
VARIABLES told, steady, doubted

Quality == INSTANCE LocationQuality
Transition == INSTANCE ZoneTransition
Stationary == INSTANCE StationaryZones

vars == <<location, bad, current, pending, zones, deviceZone, still, zone,
          occupancy, told, steady, doubted>>

ZoneIds == Zones \cup DOMAIN zones

TypeOK ==
  /\ Quality!QualityTypeOK
  /\ Stationary!StationaryTypeOK
  /\ \A d \in Devices :
       /\ {current[d], zone[d], occupancy[d]} \subseteq ZoneIds \cup {None}
       /\ pending[d] # None => pending[d].zone \in ZoneIds /\ pending[d].left \in 0..Delay
       /\ told[d] \subseteq ZoneIds

Init ==
  /\ Quality!QualityInit /\ Transition!TransitionInit /\ Stationary!StationaryInit
  /\ zone = [d \in Devices |-> None]
  /\ occupancy = [d \in Devices |-> None]
  /\ told = [d \in Devices |-> {}]
  /\ steady = [d \in Devices |-> [zone |-> None, for |-> 0]]
  /\ doubted = [d \in Devices |-> 0]

-----------------------------------------------------------------------------
(* One snapshot *)

\* What an external source may say besides where the device is
Triggers == {[kind |-> "none"]} \cup [kind : {"entered", "exited"}, zone : Zones] \cup
            [kind : {"entered", "exited"},
             zone : {z \in DOMAIN zones : zones[z].active}]

Located(s) == IF s.wide THEN ZoneWithin[s.place] ELSE ZoneAt[s.place]

Selected(d, s, trigger) ==
  CASE trigger.kind = "none" -> Located(s)
    [] trigger.kind = "entered" -> trigger.zone
    [] trigger.kind = "exited" -> IF zone[d] = trigger.zone THEN None ELSE zone[d]

\* The events of the two machines, in the order they are emitted
Announce(d) ==
  LET moved == IF current'[d] = current[d] THEN told[d]
               ELSE (told[d] \ {current[d]}) \cup ({current'[d]} \ {None})
  IN  told' = [told EXCEPT ![d] =
        IF deviceZone'[d] = deviceZone[d] THEN moved
        ELSE (moved \ {deviceZone[d]}) \cup ({deviceZone'[d]} \ {None})]

\* The zone a device ends up in: a stationary zone wins over a configured one,
\* which is only known when this very snapshot brought an accepted sample
Settle(d, regular) ==
  LET final == IF deviceZone'[d] # None THEN deviceZone'[d] ELSE regular
  IN  /\ zone' = [zone EXCEPT ![d] = final]
      /\ occupancy' = [occupancy EXCEPT ![d] = final]

Accept(d, s, verdict, trigger) ==
  LET selected == Selected(d, s, trigger)
      moved == location[d] # None /\ <<location[d].place, s.place>> \in Far
  IN  /\ verdict # "rejected"
      /\ Transition!Update(d, selected)
      /\ Stationary!Observe(d, s.place, moved, verdict = "good")
      /\ Settle(d, current'[d])
      /\ steady' = IF steady[d].zone = selected THEN steady
                   ELSE [steady EXCEPT ![d] = [zone |-> selected, for |-> 0]]
      /\ doubted' = [doubted EXCEPT ![d] = IF verdict = "good" THEN 0 ELSE @ + 1]

Reject(d, verdict) ==
  /\ verdict = "rejected"
  /\ UNCHANGED <<current, pending, zones, deviceZone, still, steady, doubted>>
  /\ Settle(d, None)

Refresh(d, s, threshold, trigger) ==
  LET verdict == Quality!Verdict(d, s, threshold)
  IN  /\ Quality!Judge(d, s, verdict)
      /\ Accept(d, s, verdict, trigger) \/ Reject(d, verdict)
      /\ Announce(d)

Sighted(d) ==
  \E s \in Quality!Sample, threshold \in Thresholds :
    Refresh(d, s, threshold, [kind |-> "none"])

\* A snapshot without a location, as of a device that is offline
Unlocated(d) ==
  /\ UNCHANGED <<location, bad, current, pending, zones, deviceZone, still,
                 told, steady, doubted>>
  /\ Settle(d, None)

External(d) ==
  \E s \in Quality!Sample, threshold \in Thresholds, trigger \in Triggers :
    Quality!Arbitrated(d, s) /\ Refresh(d, s, threshold, trigger)

Elapse ==
  /\ Quality!QualityAge /\ Transition!TransitionAge /\ Stationary!Age
  /\ steady' = [d \in Devices |->
       IF steady[d].for = Delay THEN steady[d] ELSE [steady[d] EXCEPT !.for = @ + 1]]
  /\ UNCHANGED <<zone, occupancy, told, doubted>>

Next ==
  \/ \E d \in Devices : Sighted(d) \/ Unlocated(d) \/ External(d)
  \/ Elapse

Spec == Init /\ [][Next]_vars

-----------------------------------------------------------------------------

(***************************************************************************)
(* A device enters a zone it might be passing through only after the       *)
(* accepted samples, and there were at least two, have put it there for    *)
(* the whole delay; rejected samples in between do not count against it.   *)
(***************************************************************************)
PassThroughConfirmed ==
  [][\A d \in Devices :
       current[d] = None /\ current'[d] # None /\ Transition!ShouldDelay(current'[d])
         => steady[d] = [zone |-> current'[d], for |-> Delay]]_vars

(***************************************************************************)
(* The selected location is never replaced by one that was measured        *)
(* earlier, whichever source it comes from: an Apple refresh that is late  *)
(* does not undo an external update.                                       *)
(***************************************************************************)
FreshestWins ==
  [][\A d \in Devices :
       location[d] # None /\ ~Elapse =>
         location'[d] # None /\ location'[d].age <= location[d].age]_vars

(***************************************************************************)
(* However samples of either source interleave, no more than the grace     *)
(* updates in a row move a device on doubtful evidence.                    *)
(***************************************************************************)
GraceBounded == \A d \in Devices : doubted[d] <= GraceUpdates

(***************************************************************************)
(* What README and plan promise of zone events (PARITY_PLAN.md:144, `Emit  *)
(* typed events for every zone transition'): who follows the entries and   *)
(* exits knows the zone each device is in.                                 *)
(***************************************************************************)
TransitionsAnnounced ==
  \A d \in Devices : told[d] = {zone[d]} \ {None}

=============================================================================
