-------------------------------- MODULE Travel --------------------------------
(***************************************************************************)
(* Where a device is going, and when it is looked at again: the end of     *)
(* apply_refresh (src/runtime.rs), from the accepted sample to the time of *)
(* the next update, for one device, its base zone and one more tracked     *)
(* zone, with determine_direction and DirectionHistory                     *)
(* (crates/icloud-tracking/src/direction.rs) and the interval policy.      *)
(***************************************************************************)
EXTENDS Integers, Sequences, SequencesExt, IntervalPolicy, Configuration

CONSTANTS
  Places,       \* records: zone, distance from the base zone, by road, and from
                \* the other zone
  Travels,      \* NoTravel, and the travel times of the route provider
  Situations,   \* records: is the sample accepted, what is wrong with it, and the
                \* bits of a context this module does not derive
  Files         \* configuration files the program may find

None == "none"

Situation ==
  [accepted : BOOLEAN, fault : {"", "old", "poor", "missing"}, changed : BOOLEAN,
   still : BOOLEAN, exit : BOOLEAN, external : BOOLEAN, offline : BOOLEAN,
   passing : BOOLEAN, battery : 0..Unknown, errors : Nat, age : Int,
   centre : Nat]   \* how far the centre of the stationary zone is, if there is one

ASSUME TravelAssumption ==
  /\ \A p \in Places : p.distance \in Nat /\ p.road \in Nat /\ p.other \in Nat
  /\ Situations \subseteq Situation
  /\ NoTravel \in Travels /\ Travels \subseteq Nat \cup {NoTravel}
  /\ Files \subseteq ConfigFiles

\* The settings that the interval policy reads.
OldThreshold == 120
Settings(c) ==
  [inZone |-> c.inZone, stationary |-> c.atRest, exit |-> c.exit, maximum |-> c.maximum,
   fixed |-> IF c.fixed = {} THEN 0 ELSE CHOOSE fixed \in c.fixed : TRUE,
   oldThreshold |-> OldThreshold, factor |-> c.factor.value]
Configs == {Settings(RuntimeOf(file)) : file \in {f \in Files : Accepted(f)}}

VARIABLES
  config,       \* RuntimeConfig, for the life of the process
  zone,         \* state.current_zone
  distance,     \* state.last_zone_distance_km, NoDistance at first
  direction,    \* state.direction
  history,      \* state.direction_history: what was observed, newest last
  beyond,       \* state.went_beyond_three_km
  located,      \* state.zone_distances_km is not empty: a sample was accepted
  travel,       \* state.route_duration_seconds
  decision      \* the last update: the seconds to the next, and what is asked of them

vars == <<config, zone, distance, direction, history, beyond, located, travel,
          decision>>

NoDistance == -1
Lesser(a, b) == IF a < b THEN a ELSE b
NoDecision == [seconds |-> 0, limited |-> FALSE, limit |-> NoTravel, lost |-> FALSE]

-----------------------------------------------------------------------------
(* Direction.                                                              *)

\* The history keeps 30 observations, of which the last 3 are read: the
\* model keeps HistoryLimit.
HistoryLimit == 4
Observation == [towards : BOOLEAN, overridden : BOOLEAN]

\* A bug: old observations are never dropped.
RecordedAll(d, overridden) ==
  Append(history, [towards |-> d = "Towards", overridden |-> overridden])

Recorded(d, overridden) ==
  LET longer == Append(history, [towards |-> d = "Towards", overridden |-> overridden])
  IN  SubSeq(longer, Len(longer) - Lesser(Len(longer), HistoryLimit) + 1, Len(longer))

\* A bug: overridden observations support the next override.
SupportsAnyOverride ==
  LET n == Len(history)
  IN  n >= 3 /\ \A i \in n-2..n : history[i].towards

SupportsOverride ==
  LET n == Len(history)
  IN  /\ n >= 3 /\ \A i \in n-2..n : history[i].towards
      /\ \E i \in n-2..n : ~ history[i].overridden

\* The direction before the override: by distance first, by travel time next.
\* One second, one metre: less is no movement.
RawDirection(inZone, metres, seconds) ==
  LET closer  == \/ metres < distance
                 \/ NoTravel \notin {seconds, travel} /\ seconds < travel
      farther == \/ metres > distance
                 \/ NoTravel \notin {seconds, travel} /\ seconds > travel
  IN  IF inZone THEN "InZone"
      ELSE IF distance = NoDistance THEN "Unknown"
      ELSE IF metres > 150000 THEN "FarAway"
      ELSE IF closer THEN "Towards"
      ELSE IF farther THEN "AwayFrom"
      ELSE direction

\* Close to the zone after a drive, one step away is taken for noise.
Overridden(raw, metres) ==
  raw = "AwayFrom" /\ beyond /\ metres < 2000 /\ SupportsOverride

-----------------------------------------------------------------------------
(* One update.                                                             *)

\* Where the update leaves the device: a stationary zone first; a sample
\* that was not accepted selects no zone.
ZoneAfter(place, s) ==
  IF s.still THEN "stationary"
  ELSE IF s.accepted /\ ~ s.passing THEN place.zone ELSE None

\* closest_distance_km.unwrap_or_default(): the length of the route, or of the
\* straight line; without an accepted sample it is that to the centre of the
\* stationary zone, or zero.
DistanceAfter(place, s, seconds) ==
  IF ~ s.accepted THEN IF s.still THEN s.centre ELSE 0
  ELSE IF seconds = NoTravel THEN place.distance ELSE place.road

ContextOf(s, inZone, wasInZone, metres, d, far, seconds) ==
  [changed |-> s.changed, inZone |-> inZone, wasInZone |-> wasInZone,
   still |-> s.still, exit |-> s.exit, external |-> s.external,
   old |-> s.fault = "old", poor |-> s.fault = "poor", good |-> s.fault = "",
   offline |-> s.offline, passing |-> s.passing, battery |-> s.battery,
   distance |-> metres, direction |-> d, beyond |-> far, travel |-> seconds,
   errors |-> s.errors, config |-> config]

\* The device rests as long as the most urgent of its zones allows; offline,
\* as long as its last sample is recent.
Rest(s, seconds, other) ==
  IF s.offline THEN OfflineInterval(s.age) ELSE Lesser(seconds, other)

\* A zone that is not the closest is seen from the last accepted sample (any
\* place, when this one is not), without a route; its own direction and whether
\* it was ever far are any.
OtherSeconds(s, inside, wasInside, metres, far) ==
  LET seen == [s EXCEPT !.changed = @ /\ (inside \/ wasInside)]
  IN  {Determine(ContextOf(seen, inside, wasInside, metres, d, b, NoTravel)) :
         d \in Directions, b \in IF metres < 2000 THEN BOOLEAN ELSE {far}}

\* What the tracked zones ask for besides the decision for the device itself.  A
\* sample that was not accepted has no closest zone: the base zone is judged once
\* more, by its last distance.  No zone has one before the first accepted sample.
Others(place, s, after, far, own) ==
  LET other == OtherSeconds(s, after = "other", zone = "other", place.other, far)
      home  == OtherSeconds(s, after = "home", zone = "home", place.distance, far)
  IN  IF s.accepted THEN other
      ELSE IF located THEN {Lesser(a, b) : a \in other, b \in home}
      ELSE {own}

\* What the last update decided, and the travel time it must not outlast.
Decision(s, c, own, o) ==
  [seconds |-> Rest(s, own, o),
   limited |-> WellSeenOutside(c) /\ ~ c.still,
   limit |-> IF Moving(c) /\ ~ s.offline THEN Rounded(TravelLimit(c)) ELSE NoTravel,
   lost |-> c.direction = "Unknown" /\ ~ s.offline]

\* What one update leaves.  No new travel time: the route failed and the last one
\* stays, or a straight line took its place.
Updated(place, s, seconds) ==
  LET metres == DistanceAfter(place, s, seconds)
      after  == ZoneAfter(place, s)
      raw    == RawDirection(after # None, metres, seconds)
      over   == Overridden(raw, metres)
      d      == IF over THEN "Towards" ELSE raw
      far    == beyond \/ metres >= 3000
      c      == ContextOf(s, after # None, zone # None, metres, d, far, seconds)
  IN  /\ zone' = after
      /\ distance' = metres
      /\ direction' = d
      /\ history' = Recorded(d, over)
      /\ beyond' = far
      /\ travel' \in IF ~ s.accepted THEN {travel}
                     ELSE IF seconds = NoTravel THEN {seconds, travel} ELSE {seconds}
      /\ located' = (located \/ s.accepted)
      /\ \E o \in Others(place, s, after, far, Determine(c)) :
           decision' = Decision(s, c, Determine(c), o)
      /\ UNCHANGED config

Update ==
  /\ decision = NoDecision
  /\ \E place \in Places, s \in Situations :
       \E seconds \in IF s.accepted THEN Travels ELSE {NoTravel} : Updated(place, s, seconds)

Init ==
  /\ config \in Configs
  /\ zone = None /\ distance = NoDistance /\ direction = "Unknown"
  /\ history = <<>> /\ beyond = FALSE /\ located = FALSE /\ travel = NoTravel
  /\ decision = NoDecision

\* The next update is due; what is not asked again changes nothing in it.
Due ==
  /\ decision # NoDecision
  /\ decision' = NoDecision
  /\ UNCHANGED <<config, zone, distance, direction, history, beyond, located, travel>>

Next == Update \/ Due
Spec == Init /\ [][Next]_vars

-----------------------------------------------------------------------------
(* Properties.                                                             *)

\* The device's travel state is well formed.
TypeOK ==
  /\ config \in Configs /\ zone \in {None, "stationary"} \cup {p.zone : p \in Places}
  /\ distance \in {NoDistance, 0} \cup {s.centre : s \in Situations}
                  \cup UNION {{p.distance, p.road} : p \in Places}
  /\ direction \in Directions /\ {beyond, located} \subseteq BOOLEAN
  /\ history \in BoundedSeq(Observation, HistoryLimit)
  /\ travel \in Travels /\ decision.seconds \in Nat

\* The override of a direction cannot feed itself: of four observations in a
\* row one at least is what was measured.
OverridesBounded ==
  Len(history) = 4 => \E i \in 1..4 : ~ history[i].overridden

\* A device that is well seen outside of every zone is looked at again within
\* the maximum interval, or the fixed one, however the layers before it
\* doubled or raised the interval.
PolledWithinMaximum ==
  decision.limited => \/ decision.seconds <= config.maximum
                      \/ decision.seconds <= config.fixed

\* On the move with a known travel time, the next look comes within one and a
\* half times the scaled travel time, whatever interval is configured.
ApproachPolled ==
  decision.limit # NoTravel => decision.seconds <= decision.limit

\* As long as nobody knows where a device that answers is going, it is looked
\* at every three minutes at least, whatever layer gave the interval.
LostPolled == decision.lost => decision.seconds <= 180
===============================================================================
