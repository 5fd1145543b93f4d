---------------------------- MODULE IntervalPolicy ----------------------------
(***************************************************************************)
(* How long a device may rest before its next update: the policy of        *)
(* crates/icloud-tracking/src/interval.rs, a list of layers of which each  *)
(* may replace what the ones before it gave.  Distances are metres, times  *)
(* seconds, the travel-time factor a percentage.  They stay below those    *)
(* where Duration::mul_f64 and TimeDelta::seconds stop the program.        *)
(*                                                                         *)
(* A context is a record: the bits `changed', `inZone', `wasInZone',       *)
(* `still' (in a stationary zone, which is small), `exit', `external',     *)
(* `old', `poor', `good', `offline', `passing', `beyond'; `battery',       *)
(* `distance', `direction', `travel' (NoTravel, or Waze's time), `errors', *)
(* and `config', the settings.                                             *)
(***************************************************************************)
EXTENDS Integers

Directions == {"Towards", "AwayFrom", "Stationary", "InZone", "FarAway", "Unknown"}
NoTravel == -1
Unknown == 101        \* a battery level that is not known

Scaled(seconds, percent) == (seconds * percent) \div 100

\* A multiple of 5 seconds, and 5 at least.
Rounded(seconds) == IF seconds < 5 THEN 5 ELSE (seconds \div 5) * 5

WazeSeconds(c) == IF c.travel = NoTravel THEN 0 ELSE c.travel

\* retry_interval_seconds
RetryInterval(errors) ==
  CASE errors <= 1  -> 5    [] errors \in 2..3   -> 15  [] errors \in 4..7   -> 30
    [] errors \in 8..11  -> 60   [] errors \in 12..15 -> 300 [] errors \in 16..19 -> 900
    [] errors \in 20..23 -> 1800 [] errors > 23        -> 3600

\* offline_interval_seconds
OfflineInterval(age) ==
  CASE age <= 180                 -> 180   [] 180 < age /\ age <= 1800 -> 300
    [] 1800 < age /\ age <= 3600 -> 1800  [] age > 3600               -> 3600

\* Half a minute for every mile.
CalculatedInterval(metres) == (((metres \div 10) * 6214 + 1000000) \div 2000000) * 60

\* distance_interval
DistanceInterval(metres, direction, beyond) ==
  IF direction = "Unknown" THEN 150
  ELSE CASE metres < 2000                      -> IF beyond THEN 15 ELSE 60
         [] 2000  <= metres /\ metres < 3500   -> 90
         [] 3500  <= metres /\ metres < 5000   -> 120
         [] 5000  <= metres /\ metres < 8000   -> 180
         [] 8000  <= metres /\ metres < 12000  -> 300
         [] 12000 <= metres /\ metres < 20000  -> 600
         [] 20000 <= metres /\ metres < 40000  -> 900
         [] 40000 <= metres /\ metres <= 150000 -> CalculatedInterval(metres)
         [] metres > 150000                    -> 3600

\* The layer of a change: a zone entered or left, a pass-through begun, a
\* device gone offline.
ChangedInterval(c) ==
  IF c.inZone /\ (c.old \/ c.poor)                  THEN RetryInterval(c.errors)
  ELSE IF c.inZone /\ ~ c.still                     THEN c.config.inZone
  ELSE IF c.battery <= 5 /\ c.distance <= 1000      THEN 15
  ELSE IF c.battery <= 10                           THEN c.config.stationary
  ELSE IF ~ c.inZone /\ c.wasInZone                 THEN c.config.exit
  ELSE 240

\* The layer of an update that changed nothing.
SteadyInterval(c) ==
  IF c.exit                                         THEN c.config.exit
  ELSE IF c.poor \/ c.old                           THEN RetryInterval(c.errors)
  ELSE IF c.battery <= 10 /\ c.distance > 1000      THEN c.config.stationary
  ELSE IF c.distance < 50 /\ (c.inZone \/ c.direction = "Towards")
                                                    THEN c.config.inZone
  ELSE IF c.inZone /\ c.config.inZone > WazeSeconds(c) THEN c.config.inZone
  ELSE IF c.direction = "Unknown"                   THEN 150
  ELSE IF c.distance < 2000 /\ c.direction = "AwayFrom" /\ WazeSeconds(c) > 0
                                                    THEN c.config.oldThreshold
  ELSE IF c.distance >= 3500 /\ WazeSeconds(c) > 300
                                                    THEN Scaled(c.travel, c.config.factor)
  ELSE DistanceInterval(c.distance, c.direction, c.beyond)

\* Going away is watched at half the pace, an unknown direction more often.
Paced(c, seconds) ==
  IF /\ c.direction = "AwayFrom" /\ c.distance >= 3000 /\ c.travel = NoTravel
     /\ c.config.fixed = 0 /\ seconds > 60
  THEN 2 * seconds
  ELSE IF c.direction = "Unknown" /\ seconds > 180 THEN 180 ELSE seconds

External(c, seconds) == IF c.external /\ seconds \in 31..179 THEN 180 ELSE seconds

\* The fixed and the maximum interval hold for a device that is well seen
\* outside of every zone.
WellSeenOutside(c) == ~ c.inZone /\ c.good /\ ~ c.offline /\ ~ c.passing

Limited(c, seconds) ==
  IF c.still THEN 300
  ELSE IF c.config.fixed >= 300 /\ seconds > 300 /\ WellSeenOutside(c) THEN c.config.fixed
  ELSE IF seconds > c.config.maximum /\ WellSeenOutside(c) THEN c.config.maximum
  ELSE seconds

\* One and a half times the scaled travel time, and no more, on the move.
TravelLimit(c) == Scaled(c.travel, (3 * c.config.factor) \div 2)
Moving(c) == c.direction \in {"Towards", "AwayFrom"} /\ WazeSeconds(c) > 0

InTravelTime(c, seconds) ==
  IF Moving(c) /\ seconds > TravelLimit(c) THEN Scaled(c.travel, c.config.factor)
                                           ELSE seconds

\* A bug: going away is paced after the maximum was applied.
DeterminePacedLast(c) ==
  LET first == IF c.changed THEN ChangedInterval(c) ELSE SteadyInterval(c)
  IN  Rounded(InTravelTime(c, Paced(c, Limited(c, External(c, first)))))

\* A bug: the travel time is applied before the fixed and maximum intervals.
DetermineTravelFirst(c) ==
  LET first == IF c.changed THEN ChangedInterval(c) ELSE SteadyInterval(c)
  IN  Rounded(Limited(c, InTravelTime(c, External(c, Paced(c, first)))))

\* A bug: the interval of a change is final but for the limits.
DetermineChangeUnpaced(c) ==
  LET first == IF c.changed THEN ChangedInterval(c) ELSE Paced(c, SteadyInterval(c))
  IN  Rounded(InTravelTime(c, Limited(c, External(c, first))))

\* IntervalPolicy::determine
Determine(c) ==
  LET first == IF c.changed THEN ChangedInterval(c) ELSE SteadyInterval(c)
  IN  Rounded(InTravelTime(c, Limited(c, External(c, Paced(c, first)))))
===============================================================================
