----------------------------- MODULE TravelProofs -----------------------------
(***************************************************************************)
(* Proofs about Travel and what it builds on, for any configuration files, *)
(* any places, travel times and samples: the two validations of a          *)
(* configuration agree, the interval policy keeps within the intervals     *)
(* that it promises, and the override of a direction cannot feed itself.   *)
(* The policy is a chain of layers of which each may undo what the ones    *)
(* before it gave; the lemmas about it say what is left at the end.        *)
(***************************************************************************)
EXTENDS Travel, TLAPS

-----------------------------------------------------------------------------
(* The configuration.                                                      *)

\* The number of a version is all that migration changes.
LEMMA MigratedParts ==
  ASSUME NEW file \in ConfigFiles
  PROVE  /\ Migrated(file).tracking = file.tracking /\ Migrated(file).zones = file.zones
         /\ Migrated(file).base = file.base /\ Migrated(file).tracked = file.tracked
BY DEF Migrated, ConfigFiles

\* The intervals and thresholds that TrackingConfig's check accepts pass the
\* check of the runtime (src/runtime.rs:1338), which bounds the maximum on its
\* own and knows a fixed interval only when there is one.
LEMMA TrackingStarts ==
  ASSUME NEW file \in ConfigFiles, TrackingValid(file.tracking),
         NEW c, c = RuntimeOf(file)
  PROVE  /\ c.tick > 0 /\ c.prefetch > 0 /\ c.still > 0
         /\ c.default >= 5 /\ c.maximum >= 5 /\ c.maximum >= c.default
         /\ c.inZone >= 5 /\ c.atRest >= 5 /\ c.exit >= 5
         /\ AtLeastZero(c.accuracy) /\ AtLeastZero(c.movement)
         /\ Positive(c.factor) /\ Positive(c.radius)
         /\ \A fixed \in c.fixed : fixed >= 300
<1> DEFINE t == file.tracking
<1>1. t \in Trackings
  BY DEF ConfigFiles
<1>2. /\ c.tick = t.tick /\ c.prefetch = t.prefetch /\ c.still = t.still
      /\ c.default = t.default /\ c.maximum = t.maximum /\ c.inZone = t.inZone
      /\ c.atRest = t.atRest /\ c.exit = t.exit /\ c.accuracy = t.accuracy
      /\ c.factor = t.factor /\ c.radius = t.radius
      /\ c.fixed = {t.fixed} \ {0} /\ c.movement = Float(60)
  BY DEF RuntimeOf
<1>3. c.maximum >= 5
  BY <1>1, <1>2 DEF TrackingValid, Trackings
<1>4. AtLeastZero(c.movement)
  BY <1>2 DEF AtLeastZero, Float
<1>5. \A fixed \in c.fixed : fixed >= 300
  BY <1>1, <1>2 DEF TrackingValid, Trackings
<1> QED
  BY <1>2, <1>3, <1>4, <1>5 DEF TrackingValid

\* The program starts with every configuration file that it accepts: what
\* AppConfig::load lets through, with_clock does not refuse.
THEOREM AcceptedStarts ==
  ASSUME NEW file \in ConfigFiles, Accepted(file)
  PROVE  RuntimeAccepts(RuntimeOf(file))
<1> DEFINE c == RuntimeOf(file)
<1>1. /\ TrackingValid(file.tracking)
      /\ file.base \subseteq ActiveZones(file.zones)
      /\ Range(file.tracked) \subseteq ActiveZones(file.zones)
  BY MigratedParts DEF Accepted, Valid
<1>2. /\ c.zones = file.zones /\ c.base = file.base
      /\ c.tracked = Range(file.tracked) \cup file.base
  BY DEF RuntimeOf
<1>3. c.base \subseteq ActiveZones(c.zones) /\ c.tracked \subseteq ActiveZones(c.zones)
  BY <1>1, <1>2
<1> QED
  BY <1>1, <1>3, TrackingStarts DEF RuntimeAccepts

(* What of the configuration the interval policy relies on. *)
SettingsType ==
  [inZone : Nat, stationary : Nat, exit : Nat, maximum : Nat \ 0..4,
   fixed : {0} \cup (Nat \ 0..299), oldThreshold : Nat, factor : Nat]

LEMMA SettingsTyped == Configs \subseteq SettingsType
<1>. SUFFICES ASSUME NEW file \in Files, Accepted(file)
              PROVE  Settings(RuntimeOf(file)) \in SettingsType
  BY DEF Configs
<1>. DEFINE t == file.tracking
            c == RuntimeOf(file)
<1>1. file \in ConfigFiles
  BY TravelAssumption
<1>2. t \in Trackings /\ TrackingValid(t)
  BY <1>1, MigratedParts DEF Accepted, Valid, ConfigFiles
<1>3. /\ c.inZone = t.inZone /\ c.atRest = t.atRest /\ c.exit = t.exit
      /\ c.maximum = t.maximum /\ c.factor = t.factor /\ c.fixed = {t.fixed} \ {0}
  BY DEF RuntimeOf
<1>. DEFINE fixed == IF c.fixed = {} THEN 0 ELSE CHOOSE x \in c.fixed : TRUE
<1>4. fixed = t.fixed
  <2>1. CASE t.fixed = 0
    BY <1>3, <2>1
  <2>2. CASE t.fixed # 0
    <3>1. c.fixed = {t.fixed}
      BY <1>3, <2>2
    <3>. QED  BY <3>1
  <2>. QED  BY <2>1, <2>2
<1>5. t.fixed \in {0} \cup (Nat \ 0..299) /\ t.maximum \in Nat \ 0..4
  BY <1>2 DEF Trackings, TrackingValid
<1>6. t.factor.value \in Nat
  BY <1>2 DEF Trackings, TrackingValid, Positive, Floats
<1>7. t.inZone \in Nat /\ t.atRest \in Nat /\ t.exit \in Nat /\ OldThreshold \in Nat
  BY <1>2 DEF Trackings, OldThreshold
<1>8. Settings(c) =
        [inZone |-> t.inZone, stationary |-> t.atRest, exit |-> t.exit, maximum |-> t.maximum,
         fixed |-> t.fixed, oldThreshold |-> OldThreshold, factor |-> t.factor.value]
  BY <1>3, <1>4 DEF Settings
<1>9. \A in, rest, leave, most, always, old, factor :
        /\ in \in Nat /\ rest \in Nat /\ leave \in Nat /\ most \in Nat \ 0..4
        /\ always \in {0} \cup (Nat \ 0..299) /\ old \in Nat /\ factor \in Nat
        => [inZone |-> in, stationary |-> rest, exit |-> leave, maximum |-> most,
            fixed |-> always, oldThreshold |-> old, factor |-> factor] \in SettingsType
  BY DEF SettingsType
<1>10. Settings(c) \in SettingsType
  <2>. HIDE DEF c, t
  <2>. QED  BY <1>5, <1>6, <1>7, <1>8, <1>9
<1>. QED  BY <1>10

-----------------------------------------------------------------------------
(* The interval policy.                                                    *)

Contexts ==
  [changed : BOOLEAN, inZone : BOOLEAN, wasInZone : BOOLEAN, still : BOOLEAN,
   exit : BOOLEAN, external : BOOLEAN, old : BOOLEAN, poor : BOOLEAN, good : BOOLEAN,
   offline : BOOLEAN, passing : BOOLEAN, battery : 0..Unknown, distance : Nat,
   direction : Directions, beyond : BOOLEAN, travel : Nat \cup {NoTravel},
   errors : Nat, config : SettingsType]

(* Scaling is monotone, and so is rounding, which never rounds up but to 5. *)
LEMMA ScaledProperties ==
  ASSUME NEW seconds \in Nat, NEW percent \in Nat
  PROVE  /\ Scaled(seconds, percent) \in Nat
         /\ Scaled(seconds, (3 * percent) \div 2) \in Nat
         /\ Scaled(seconds, percent) <= Scaled(seconds, (3 * percent) \div 2)
<1>. DEFINE more == (3 * percent) \div 2
<1>1. more \in Nat /\ percent <= more
  OBVIOUS
<1>. HIDE DEF more
<1>2. seconds * percent \in Nat /\ seconds * more \in Nat
  BY <1>1
<1>3. seconds * percent <= seconds * more
  BY <1>1
<1>4. \A a, b \in Nat : a <= b => a \div 100 \in Nat /\ b \div 100 \in Nat /\ a \div 100 <= b \div 100
  OBVIOUS
<1>. QED  BY <1>2, <1>3, <1>4 DEF Scaled, more

LEMMA RoundedProperties ==
  /\ \A x \in Nat : Rounded(x) \in Nat /\ Rounded(x) >= 5 /\ (Rounded(x) <= x \/ Rounded(x) = 5)
  /\ \A x, y \in Nat : x <= y => Rounded(x) <= Rounded(y)
BY DEF Rounded

LEMMA RetryTyped == \A errors \in Nat : RetryInterval(errors) \in Nat
BY DEF RetryInterval

LEMMA DistanceTyped ==
  ASSUME NEW metres \in Nat, NEW d, NEW far
  PROVE  DistanceInterval(metres, d, far) \in Nat
<1>1. CalculatedInterval(metres) \in Nat
  BY DEF CalculatedInterval
<1>. QED  BY <1>1 DEF DistanceInterval

(* The first layer gives an interval. *)
FirstLayer(c) == IF c.changed THEN ChangedInterval(c) ELSE SteadyInterval(c)

LEMMA FirstTyped == ASSUME NEW c \in Contexts  PROVE FirstLayer(c) \in Nat
<1>1. /\ c.config \in SettingsType /\ c.errors \in Nat /\ c.distance \in Nat
      /\ c.travel \in Nat \cup {NoTravel} /\ c.changed \in BOOLEAN
  BY DEF Contexts
<1>2. /\ c.config.inZone \in Nat /\ c.config.stationary \in Nat /\ c.config.exit \in Nat
      /\ c.config.oldThreshold \in Nat /\ c.config.factor \in Nat
  BY <1>1 DEF SettingsType
<1>3. RetryInterval(c.errors) \in Nat
  BY <1>1, RetryTyped
<1>4. DistanceInterval(c.distance, c.direction, c.beyond) \in Nat
  BY <1>1, DistanceTyped
<1>5. WazeSeconds(c) > 300 => Scaled(c.travel, c.config.factor) \in Nat
  <2>1. WazeSeconds(c) > 300 => c.travel \in Nat
    BY <1>1 DEF WazeSeconds
  <2>. QED  BY <1>2, <2>1, ScaledProperties
<1>6. ChangedInterval(c) \in Nat
  BY <1>2, <1>3 DEF ChangedInterval
<1>7. SteadyInterval(c) \in Nat
  BY <1>2, <1>3, <1>4, <1>5 DEF SteadyInterval
<1>. QED  BY <1>6, <1>7 DEF FirstLayer

(* What the pace of the direction, the external source and the limits of   *)
(* the configuration make of an interval.                                  *)
Wanted(c) == Limited(c, External(c, Paced(c, FirstLayer(c))))

LEMMA WantedBounds ==
  ASSUME NEW c \in Contexts
  PROVE  /\ Wanted(c) \in Nat
         /\ WellSeenOutside(c) /\ ~ c.still =>
              Wanted(c) <= c.config.maximum \/ Wanted(c) <= c.config.fixed
         /\ c.direction = "Unknown" /\ ~ c.still => Wanted(c) <= 180
<1>. DEFINE first  == FirstLayer(c)
            paced  == Paced(c, first)
            before == External(c, paced)
<1>1. /\ c.config \in SettingsType /\ first \in Nat
      /\ c.config.maximum \in Nat /\ c.config.fixed \in Nat
  BY FirstTyped DEF Contexts, SettingsType
<1>2. paced \in Nat /\ (c.direction = "Unknown" => paced <= 180)
  BY <1>1 DEF Paced
<1>. HIDE DEF first, paced
<1>3. before \in Nat /\ (c.direction = "Unknown" => before <= 180)
  BY <1>2 DEF External
<1>. HIDE DEF before
<1>4. Wanted(c) = Limited(c, before)
  BY DEF Wanted, before, paced, first
<1>5. /\ Limited(c, before) \in Nat
      /\ WellSeenOutside(c) /\ ~ c.still =>
           Limited(c, before) <= c.config.maximum \/ Limited(c, before) <= c.config.fixed
      /\ c.direction = "Unknown" /\ ~ c.still => Limited(c, before) <= 180
  BY <1>1, <1>3 DEF Limited
<1>. QED  BY <1>4, <1>5

(* The travel time is the last word. *)
LEMMA DetermineBounds ==
  ASSUME NEW c \in Contexts
  PROVE  /\ Determine(c) \in Nat /\ Determine(c) >= 5
         /\ Determine(c) <= Wanted(c) \/ Determine(c) = 5
         /\ Moving(c) => /\ Rounded(TravelLimit(c)) \in Nat
                         /\ Determine(c) <= Rounded(TravelLimit(c))
<1>. DEFINE w == Wanted(c)
            t == InTravelTime(c, w)
<1>1. c.config \in SettingsType /\ c.config.factor \in Nat /\ w \in Nat
  BY WantedBounds DEF Contexts, SettingsType
<1>2. Moving(c) => c.travel \in Nat
  BY DEF Moving, WazeSeconds, Contexts
<1>3. Moving(c) => /\ TravelLimit(c) \in Nat /\ Scaled(c.travel, c.config.factor) \in Nat
                   /\ Scaled(c.travel, c.config.factor) <= TravelLimit(c)
  BY <1>1, <1>2, ScaledProperties DEF TravelLimit
<1>4. Determine(c) = Rounded(t)
  BY DEF Determine, Wanted, FirstLayer
<1>. HIDE DEF w
<1>5. t \in Nat /\ t <= w /\ (Moving(c) => t <= TravelLimit(c))
  BY <1>1, <1>3 DEF InTravelTime
<1>. HIDE DEF t
<1>6. /\ Rounded(t) \in Nat /\ Rounded(t) >= 5 /\ (Rounded(t) <= t \/ Rounded(t) = 5)
      /\ Moving(c) => Rounded(TravelLimit(c)) \in Nat /\ Rounded(t) <= Rounded(TravelLimit(c))
  BY <1>3, <1>5, RoundedProperties
<1>. QED  BY <1>1, <1>4, <1>5, <1>6 DEF w


-----------------------------------------------------------------------------
(* The direction.                                                          *)

LEMMA RawDirectionTyped ==
  ASSUME direction \in Directions, NEW inZone \in BOOLEAN, NEW metres \in Nat,
         NEW seconds \in Nat \cup {NoTravel}
  PROVE  /\ RawDirection(inZone, metres, seconds) \in Directions
         /\ inZone => RawDirection(inZone, metres, seconds) = "InZone"
BY DEF RawDirection, Directions

Histories == BoundedSeq(Observation, HistoryLimit)

(* A history of observations, and the one that is recorded next. *)
LEMMA RecordedProperties ==
  ASSUME history \in Histories, NEW d, NEW overridden \in BOOLEAN
  PROVE  /\ Recorded(d, overridden) \in Histories
         /\ Len(Recorded(d, overridden)) = 4 =>
              /\ Recorded(d, overridden)[4].overridden = overridden
              /\ Len(history) >= 3
              /\ \A i \in 1..3 : Recorded(d, overridden)[i] = history[Len(history) - 3 + i]
<1>. DEFINE new == [towards |-> d = "Towards", overridden |-> overridden]
            n == Len(history)
            longer == Append(history, new)
            m == Len(longer)
            least == Lesser(m, HistoryLimit)
            kept == SubSeq(longer, m - least + 1, m)
<1>1. new \in Observation /\ new.overridden = overridden
  BY DEF Observation
<1>2. history \in Seq(Observation) /\ n \in 0..4
  <2>1. PICK size \in 0..4 : history \in [1..size -> Observation]
    BY DEF Histories, BoundedSeq, SeqOf, HistoryLimit
  <2>2. history \in Seq(Observation) /\ Len(history) = size
    BY <2>1
  <2>. QED  BY <2>2
<1>. HIDE DEF new
<1>3. /\ longer \in Seq(Observation) /\ m = n + 1 /\ longer[n + 1] = new
      /\ \A i \in 1..n : longer[i] = history[i]
  BY <1>1, <1>2
<1>4. Recorded(d, overridden) = kept
  BY Zenon DEF Recorded, new
<1>5. least \in 1..4 /\ least <= n + 1 /\ (n >= 3 => least = 4) /\ (n < 3 => least = n + 1)
  BY <1>2, <1>3 DEF Lesser, HistoryLimit
<1>. HIDE DEF least, n
<1>6. /\ kept \in Seq(Observation) /\ Len(kept) = least
      /\ \A i \in 1..least : kept[i] = longer[n + 1 - least + i]
  <2>. HIDE DEF longer
  <2>1. m - least + 1 \in 1..m /\ m \in 0..m
    BY <1>2, <1>3, <1>5
  <2>2. kept = [i \in 1..least |-> longer[n + 1 - least + i]]
    <3>1. kept = [i \in 1..(m - (m - least + 1) + 1) |-> longer[m - least + 1 + i - 1]]
      BY <1>3, <2>1
    <3>2. m - (m - least + 1) + 1 = least
      BY <1>2, <1>3, <1>5
    <3>3. \A i \in 1..least : m - least + 1 + i - 1 = n + 1 - least + i
      BY <1>2, <1>3, <1>5
    <3>. HIDE DEF kept, m
    <3>. QED  BY <3>1, <3>2, <3>3
  <2>3. \A i \in 1..least : n + 1 - least + i \in 1..(n + 1)
    BY <1>2, <1>5
  <2>4. \A i \in 1..least : longer[n + 1 - least + i] \in Observation
    BY <1>3, <2>3
  <2>. HIDE DEF kept
  <2>5. kept \in [1..least -> Observation]
    BY <2>2, <2>4
  <2>. QED  BY <1>5, <2>2, <2>5
<1>. HIDE DEF kept, longer
<1>7. kept \in Histories
  <2>1. kept \in [1..least -> Observation] /\ least \in 0..HistoryLimit
    BY <1>5, <1>6 DEF HistoryLimit
  <2>. QED  BY <2>1 DEF Histories, BoundedSeq, SeqOf
<1>8. ASSUME least = 4
      PROVE  /\ n >= 3 /\ kept[4] = new
             /\ \A i \in 1..3 : kept[i] = history[n - 3 + i]
  <2>1. n >= 3 /\ n \in Nat
    BY <1>2, <1>5, <1>8
  <2>2. kept[4] = longer[n + 1]
    BY <1>6, <1>8, <2>1
  <2>3. \A i \in 1..3 : kept[i] = longer[n - 3 + i] /\ n - 3 + i \in 1..n
    BY <1>6, <1>8, <2>1
  <2>. QED  BY <1>3, <2>1, <2>2, <2>3
<1>. QED  BY <1>1, <1>4, <1>6, <1>7, <1>8 DEF n

-----------------------------------------------------------------------------
(* One update.                                                             *)

Zoned == {None, "stationary"} \cup {p.zone : p \in Places}
Distances == {NoDistance, 0} \cup {s.centre : s \in Situations}
             \cup UNION {{p.distance, p.road} : p \in Places}

Typed ==
  /\ config \in Configs /\ zone \in Zoned /\ distance \in Distances
  /\ direction \in Directions /\ {beyond, located} \subseteq BOOLEAN /\ history \in Histories
  /\ travel \in Travels /\ decision.seconds \in Nat

LEMMA Given ==
  /\ Situations \subseteq Situation /\ NoTravel \in Travels /\ Travels \subseteq Nat \cup {NoTravel}
  /\ \A p \in Places : p.distance \in Nat /\ p.road \in Nat /\ p.other \in Nat
BY TravelAssumption

LEMMA SituationChanged ==
  ASSUME NEW s \in Situation, NEW changed \in BOOLEAN
  PROVE  [s EXCEPT !.changed = changed] \in Situation
BY DEF Situation

LEMMA ContextTyped ==
  ASSUME config \in Configs, NEW s \in Situation, NEW inZone \in BOOLEAN,
         NEW wasInZone \in BOOLEAN, NEW metres \in Nat, NEW d \in Directions,
         NEW far \in BOOLEAN, NEW seconds \in Nat \cup {NoTravel}
  PROVE  ContextOf(s, inZone, wasInZone, metres, d, far, seconds) \in Contexts
<1>1. config \in SettingsType
  BY SettingsTyped
<1>2. /\ s.changed \in BOOLEAN /\ s.still \in BOOLEAN /\ s.exit \in BOOLEAN
      /\ s.external \in BOOLEAN /\ s.offline \in BOOLEAN /\ s.passing \in BOOLEAN
      /\ s.battery \in 0..Unknown /\ s.errors \in Nat
      /\ (s.fault = "old") \in BOOLEAN /\ (s.fault = "poor") \in BOOLEAN
      /\ (s.fault = "") \in BOOLEAN
  BY DEF Situation
<1>. QED  BY <1>1, <1>2 DEF ContextOf, Contexts

LEMMA OtherTyped ==
  ASSUME config \in Configs, NEW s \in Situation, NEW inZone \in BOOLEAN,
         NEW wasInZone \in BOOLEAN, NEW metres \in Nat, NEW d \in Directions,
         NEW far \in BOOLEAN
  PROVE  /\ Determine(ContextOf(s, inZone, wasInZone, metres, d, far, NoTravel)) \in Nat
         /\ Determine(ContextOf(s, inZone, wasInZone, metres, d, far, NoTravel)) >= 5
<1>1. NoTravel \in Nat \cup {NoTravel}
  OBVIOUS
<1>2. ContextOf(s, inZone, wasInZone, metres, d, far, NoTravel) \in Contexts
  BY <1>1, ContextTyped
<1>. QED  BY <1>2, DetermineBounds

LEMMA OtherSecondsTyped ==
  ASSUME config \in Configs, NEW s \in Situation, NEW inside \in BOOLEAN,
         NEW wasInside \in BOOLEAN, NEW metres \in Nat, NEW far \in BOOLEAN,
         NEW o \in OtherSeconds(s, inside, wasInside, metres, far)
  PROVE  o \in Nat /\ o >= 5
<1>. DEFINE changed == s.changed /\ (inside \/ wasInside)
            seen == [s EXCEPT !.changed = @ /\ (inside \/ wasInside)]
<1>1. PICK e \in Directions, b \in IF metres < 2000 THEN BOOLEAN ELSE {far} :
        o = Determine(ContextOf(seen, inside, wasInside, metres, e, b, NoTravel))
  BY DEF OtherSeconds
<1>2. b \in BOOLEAN
  BY <1>1
<1>3. seen \in Situation
  <2>1. changed \in BOOLEAN
    BY DEF Situation
  <2>2. seen = [s EXCEPT !.changed = changed]
    OBVIOUS
  <2>. HIDE DEF changed, seen
  <2>. QED  BY <2>1, <2>2, SituationChanged
<1>. HIDE DEF seen
<1>. QED  BY <1>1, <1>2, <1>3, OtherTyped

LEMMA OthersTyped ==
  ASSUME config \in Configs, NEW place \in Places, NEW s \in Situation, NEW after,
         NEW far \in BOOLEAN, NEW own \in Nat, own >= 5,
         NEW o \in Others(place, s, after, far, own)
  PROVE  o \in Nat /\ o >= 5
<1>. DEFINE other == OtherSeconds(s, after = "other", zone = "other", place.other, far)
            home  == OtherSeconds(s, after = "home", zone = "home", place.distance, far)
<1>1. place.other \in Nat /\ place.distance \in Nat
  BY Given
<1>2. ASSUME NEW a \in other  PROVE a \in Nat /\ a >= 5
  <2>. DEFINE inside == after = "other"
              wasInside == zone = "other"
  <2>1. /\ inside \in BOOLEAN /\ wasInside \in BOOLEAN
      /\ a \in OtherSeconds(s, inside, wasInside, place.other, far)
    OBVIOUS
  <2>. HIDE DEF inside, wasInside, other, home
  <2>. QED  BY <1>1, <2>1, OtherSecondsTyped
<1>3. ASSUME NEW b \in home  PROVE b \in Nat /\ b >= 5
  <2>. DEFINE inside == after = "home"
              wasInside == zone = "home"
  <2>1. /\ inside \in BOOLEAN /\ wasInside \in BOOLEAN
      /\ b \in OtherSeconds(s, inside, wasInside, place.distance, far)
    OBVIOUS
  <2>. HIDE DEF inside, wasInside, other, home
  <2>. QED  BY <1>1, <2>1, OtherSecondsTyped
<1>4. \/ o \in other \/ o = own
      \/ \E a \in other, b \in home : o = Lesser(a, b)
  BY DEF Others
<1>. HIDE DEF other, home
<1>5. \A a \in other, b \in home : Lesser(a, b) \in Nat /\ Lesser(a, b) >= 5
  BY <1>2, <1>3 DEF Lesser
<1>. QED  BY <1>2, <1>4, <1>5

(* What an update decides is what the policy says of a well-formed context, *)
(* and its override rests on a history that supports one.                   *)
LEMMA UpdateDecides ==
  ASSUME Typed, Update
  PROVE  /\ zone' \in Zoned /\ distance' \in Distances /\ direction' \in Directions
         /\ {beyond', located'} \subseteq BOOLEAN /\ travel' \in Travels /\ config' = config
         /\ \E d \in Directions, over \in BOOLEAN :
              history' = Recorded(d, over) /\ (over => SupportsOverride)
         /\ \E s \in Situations, c \in Contexts, o \in Nat :
              /\ decision' = Decision(s, c, Determine(c), o)
              /\ c.offline = s.offline /\ c.config = config /\ o >= 5
              /\ c.direction = "Unknown" => ~ c.still
<1>0. PICK place \in Places, s \in Situations :
        \E seconds \in IF s.accepted THEN Travels ELSE {NoTravel} : Updated(place, s, seconds)
  BY DEF Update
<1>1. PICK seconds \in IF s.accepted THEN Travels ELSE {NoTravel} : Updated(place, s, seconds)
  BY <1>0
<1>. DEFINE metres == DistanceAfter(place, s, seconds)
            after  == ZoneAfter(place, s)
            raw    == RawDirection(after # None, metres, seconds)
            over   == Overridden(raw, metres)
            d      == IF over THEN "Towards" ELSE raw
            far    == beyond \/ metres >= 3000
            c      == ContextOf(s, after # None, zone # None, metres, d, far, seconds)
<1>2. /\ zone' = after /\ distance' = metres /\ direction' = d /\ beyond' = far
      /\ history' = Recorded(d, over) /\ config' = config
      /\ travel' \in IF ~ s.accepted THEN {travel}
                     ELSE IF seconds = NoTravel THEN {seconds, travel} ELSE {seconds}
      /\ located' = (located \/ s.accepted)
      /\ \E o \in Others(place, s, after, far, Determine(c)) :
           decision' = Decision(s, c, Determine(c), o)
  BY <1>1, Zenon DEF Updated
<1>3. /\ zone' = after /\ distance' = metres /\ direction' = d /\ beyond' = far
      /\ history' = Recorded(d, over) /\ config' = config
      /\ travel' \in IF ~ s.accepted THEN {travel}
                     ELSE IF seconds = NoTravel THEN {seconds, travel} ELSE {seconds}
      /\ located' = (located \/ s.accepted)
  BY <1>2, Zenon
<1>4. PICK o \in Others(place, s, after, far, Determine(c)) :
        decision' = Decision(s, c, Determine(c), o)
  BY <1>2, Zenon
<1>5. /\ s \in Situation /\ s.accepted \in BOOLEAN /\ s.changed \in BOOLEAN /\ s.still \in BOOLEAN
      /\ s.exit \in BOOLEAN /\ s.external \in BOOLEAN /\ s.offline \in BOOLEAN
      /\ s.passing \in BOOLEAN /\ s.battery \in 0..Unknown /\ s.errors \in Nat
      /\ s.centre \in Nat /\ place.distance \in Nat /\ place.road \in Nat
  <2>1. s \in Situation
    BY Given
  <2>2. place.distance \in Nat /\ place.road \in Nat
    BY Given
  <2>. QED  BY <2>1, <2>2 DEF Situation
<1>6. seconds \in Travels /\ seconds \in Nat \cup {NoTravel}
  <2>1. seconds \in Travels \cup {NoTravel}
    BY <1>5
  <2>. QED  BY <2>1, Given
<1>7. metres \in Distances /\ metres \in Nat
  BY <1>5 DEF DistanceAfter, Distances
<1>8. after \in Zoned /\ (s.still => after # None)
  BY <1>5 DEF ZoneAfter, Zoned, None
<1>9. raw \in Directions /\ (after # None => raw = "InZone")
  <2>1. direction \in Directions /\ (after # None) \in BOOLEAN
    BY DEF Typed
  <2>. DEFINE inside == after # None
  <2>3. inside \in BOOLEAN
    BY <2>1
  <2>. HIDE DEF metres, inside
  <2>2. /\ RawDirection(inside, metres, seconds) \in Directions
        /\ inside => RawDirection(inside, metres, seconds) = "InZone"
    BY <1>6, <1>7, <2>1, <2>3, RawDirectionTyped
  <2>. QED  BY <2>2 DEF inside
<1>10. over \in BOOLEAN /\ (over => raw = "AwayFrom" /\ SupportsOverride)
  BY DEF Overridden, SupportsOverride
<1>. HIDE DEF after, raw, metres, over
<1>11. d \in Directions /\ (d = "Unknown" => ~ s.still)
  BY <1>8, <1>9, <1>10 DEF Directions
<1>12. far \in BOOLEAN
  BY DEF Typed
<1>. HIDE DEF d, far
<1>13. c \in Contexts
  <2>1. (after # None) \in BOOLEAN /\ (zone # None) \in BOOLEAN
    OBVIOUS
  <2>. QED  BY <1>5, <1>6, <1>7, <1>11, <1>12, <2>1, ContextTyped DEF Typed
<1>14. c.offline = s.offline /\ c.config = config /\ c.direction = d /\ c.still = s.still
  BY DEF ContextOf
<1>. HIDE DEF c
<1>15. o \in Nat /\ o >= 5
  <2>1. Determine(c) \in Nat /\ Determine(c) >= 5
    BY <1>13, DetermineBounds
  <2>2. config \in Configs /\ s \in Situation
    BY <1>5 DEF Typed
  <2>. QED  BY <1>4, <1>12, <2>1, <2>2, OthersTyped
<1>16. travel' \in Travels
  BY <1>3, <1>6 DEF Typed
<1>17. located' \in BOOLEAN
  BY <1>3, <1>5 DEF Typed
<1>18. decision' = Decision(s, c, Determine(c), o)
  BY <1>4
<1>19. c.direction = "Unknown" => ~ c.still
  BY <1>11, <1>14
<1>. QED  BY <1>3, <1>7, <1>8, <1>10, <1>11, <1>12, <1>13, <1>14, <1>15, <1>16, <1>17, <1>18, <1>19


-----------------------------------------------------------------------------
(* The theorems.                                                           *)

(* No update asks for another at once. *)
NeverAtOnce == decision # NoDecision => decision.seconds >= 5

IInv == Typed /\ NeverAtOnce /\ OverridesBounded /\ PolledWithinMaximum /\ ApproachPolled /\ LostPolled

LEMMA InitIInv == Init => IInv
<1>. SUFFICES ASSUME Init  PROVE IInv
  OBVIOUS
<1>1. history \in Histories /\ Len(history) = 0
  <2>1. history = <<>> /\ 0 \in 0..HistoryLimit
    BY DEF Init, HistoryLimit
  <2>2. history \in [1..0 -> Observation]
    BY <2>1
  <2>. QED  BY <2>1, <2>2 DEF Histories, BoundedSeq, SeqOf
<1>2. Typed
  BY <1>1, Given DEF Init, Typed, Zoned, Distances, Directions, NoDecision
<1>. QED  BY <1>1, <1>2 DEF Init, IInv, NeverAtOnce, OverridesBounded, PolledWithinMaximum, ApproachPolled,
          LostPolled, NoDecision

(* No four observations in a row are overridden: the fourth would rest on  *)
(* one of the three before it that was not.                                *)
LEMMA OverridesStayBounded ==
  ASSUME history \in Histories, NEW d, NEW over \in BOOLEAN,
         history' = Recorded(d, over), over => SupportsOverride
  PROVE  OverridesBounded'
<1>. SUFFICES ASSUME Len(history') = 4  PROVE \E i \in 1..4 : ~ history'[i].overridden
  BY DEF OverridesBounded
<1>. DEFINE n == Len(history)
<1>1. /\ history'[4].overridden = over /\ n >= 3
      /\ \A i \in 1..3 : history'[i] = history[n - 3 + i]
  BY RecordedProperties
<1>2. CASE ~ over
  BY <1>1, <1>2
<1>3. CASE over
  <2>1. n \in Nat
    <3>1. PICK m \in 0..HistoryLimit : history \in [1..m -> Observation]
      BY DEF Histories, BoundedSeq, SeqOf
    <3>2. m \in Nat
      BY <3>1 DEF HistoryLimit
    <3>. QED  BY <3>1, <3>2
  <2>2. PICK k \in n-2..n : ~ history[k].overridden
    BY <1>3 DEF SupportsOverride
  <2>. HIDE DEF n
  <2>3. k - n + 3 \in 1..3 /\ n - 3 + (k - n + 3) = k
    BY <2>1, <2>2
  <2>4. history'[k - n + 3] = history[k]
    BY <1>1, <2>3
  <2>. QED  BY <2>2, <2>3, <2>4
<1>. QED  BY <1>2, <1>3

LEMMA UpdateKeeps == ASSUME IInv, Update  PROVE IInv'
<1>0. Typed
  BY DEF IInv
<1>1. /\ zone' \in Zoned /\ distance' \in Distances /\ direction' \in Directions
      /\ {beyond', located'} \subseteq BOOLEAN /\ travel' \in Travels /\ config' = config
  BY <1>0, UpdateDecides
<1>2. PICK d \in Directions, over \in BOOLEAN :
        history' = Recorded(d, over) /\ (over => SupportsOverride)
  BY <1>0, UpdateDecides
<1>3. history' \in Histories /\ OverridesBounded'
  BY <1>0, <1>2, RecordedProperties, OverridesStayBounded DEF Typed
<1>4. PICK s \in Situations, c \in Contexts, o \in Nat :
        /\ decision' = Decision(s, c, Determine(c), o)
        /\ c.offline = s.offline /\ c.config = config /\ o >= 5
        /\ c.direction = "Unknown" => ~ c.still
  BY <1>0, UpdateDecides
<1>. DEFINE own == Determine(c)
            seconds == Rest(s, own, o)
<1>5. /\ own \in Nat /\ own >= 5 /\ (own <= Wanted(c) \/ own = 5)
      /\ Moving(c) => /\ Rounded(TravelLimit(c)) \in Nat
                      /\ own <= Rounded(TravelLimit(c))
  BY DetermineBounds
<1>6. /\ decision'.seconds = seconds
      /\ decision'.limited <=> WellSeenOutside(c) /\ ~ c.still
      /\ decision'.limit = IF Moving(c) /\ ~ s.offline THEN Rounded(TravelLimit(c))
                                                       ELSE NoTravel
      /\ decision'.lost <=> c.direction = "Unknown" /\ ~ s.offline
  BY <1>4 DEF Decision
<1>. HIDE DEF own
<1>7. seconds \in Nat /\ seconds >= 5 /\ (~ s.offline => seconds <= own)
  <2>1. s.age \in Int
    BY Given DEF Situation
  <2>2. OfflineInterval(s.age) \in Nat /\ OfflineInterval(s.age) >= 5
    BY <2>1 DEF OfflineInterval
  <2>3. Lesser(own, o) \in Nat /\ Lesser(own, o) >= 5 /\ Lesser(own, o) <= own
    BY <1>4, <1>5 DEF Lesser
  <2>. QED  BY <2>2, <2>3 DEF Rest
<1>. HIDE DEF seconds
<1>8. /\ Wanted(c) \in Nat
      /\ WellSeenOutside(c) /\ ~ c.still =>
           Wanted(c) <= config.maximum \/ Wanted(c) <= config.fixed
      /\ c.direction = "Unknown" /\ ~ c.still => Wanted(c) <= 180
  BY <1>4, WantedBounds
<1>9. config.maximum \in Nat /\ config.maximum >= 5 /\ config.fixed \in Nat
  BY <1>0, SettingsTyped DEF Typed, SettingsType
<1>10. Typed'
  BY <1>0, <1>1, <1>3, <1>6, <1>7 DEF Typed
<1>11. PolledWithinMaximum'
  <2>1. decision'.limited => ~ s.offline
    BY <1>4, <1>6 DEF WellSeenOutside
  <2>. QED  BY <1>1, <1>5, <1>6, <1>7, <1>8, <1>9, <2>1 DEF PolledWithinMaximum
<1>12. ApproachPolled'
  BY <1>5, <1>6, <1>7 DEF ApproachPolled
<1>13. LostPolled'
  BY <1>4, <1>5, <1>6, <1>7, <1>8 DEF LostPolled
<1>14. NeverAtOnce'
  BY <1>6, <1>7 DEF NeverAtOnce
<1>. QED  BY <1>3, <1>10, <1>11, <1>12, <1>13, <1>14 DEF IInv

LEMMA NextIInv == IInv /\ [Next]_vars => IInv'
<1>. SUFFICES ASSUME IInv, [Next]_vars  PROVE IInv'
  OBVIOUS
<1>1. CASE Update
  BY <1>1, UpdateKeeps
<1>2. CASE Due
  BY <1>2 DEF Due, IInv, Typed, NeverAtOnce, OverridesBounded, PolledWithinMaximum, ApproachPolled,
     LostPolled, NoDecision
<1>3. CASE UNCHANGED vars
  BY <1>3 DEF vars, IInv, Typed, NeverAtOnce, OverridesBounded, PolledWithinMaximum, ApproachPolled,
     LostPolled
<1>. QED  BY <1>1, <1>2, <1>3 DEF Next

LEMMA InductiveInvariant == Spec => []IInv
BY InitIInv, NextIInv, PTL DEF Spec

(* The travel state of a device is well formed: the policy has an interval  *)
(* for every situation, and the history never grows beyond its limit.       *)
THEOREM TypeCorrect == Spec => []TypeOK
<1>1. Typed => TypeOK
  BY DEF Typed, TypeOK, Zoned, Distances, Histories
<1>. QED  BY <1>1, InductiveInvariant, PTL DEF IInv

(* Whatever the policy decides, five seconds pass before the device is due  *)
(* again: the module Scheduler, which abstracts the policy to a set of      *)
(* intervals, may assume that none of them is zero.                         *)
THEOREM AlwaysApart == Spec => []NeverAtOnce
BY InductiveInvariant, PTL DEF IInv

(* The override of a direction (determine_direction) cannot feed itself.    *)
THEOREM OverridesAlwaysBounded == Spec => []OverridesBounded
BY InductiveInvariant, PTL DEF IInv

(* Outside of every zone a well-seen device is looked at within the maximum *)
(* interval, or the fixed one, of any configuration that is accepted.       *)
THEOREM AlwaysPolledWithinMaximum == Spec => []PolledWithinMaximum
BY InductiveInvariant, PTL DEF IInv

(* On the move, the travel time has the last word.                          *)
THEOREM AlwaysApproachPolled == Spec => []ApproachPolled
BY InductiveInvariant, PTL DEF IInv

(* A device whose direction is unknown is looked at every three minutes.    *)
THEOREM AlwaysLostPolled == Spec => []LostPolled
BY InductiveInvariant, PTL DEF IInv
===============================================================================
