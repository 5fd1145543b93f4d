---------------------------- MODULE Configuration ----------------------------
(***************************************************************************)
(* The configuration file (src/config.rs), what is accepted of it, and the *)
(* settings the program makes of an accepted one (runtime_config,          *)
(* src/main.rs) and checks once more (validate_config, src/runtime.rs).    *)
(* Lists are sequences, options are sets of one member at most, floating   *)
(* point numbers records of `finite' and an integer `value'; the travel    *)
(* time factor is a percentage.                                            *)
(***************************************************************************)
EXTENDS Integers, Sequences, Functions

CONSTANTS
  Trim,         \* of each name: without the blanks around it
  Lower,        \* of each name: in lower case
  Blank         \* the empty name

Names == DOMAIN Trim

ASSUME ConfigurationAssumption ==
  Trim \in [Names -> Names] /\ Lower \in [Names -> Names] /\ Blank \in Names

CurrentVersion == 1

Floats == [finite : BOOLEAN, value : Int]
Float(n) == [finite |-> TRUE, value |-> n]
Positive(x) == x.finite /\ x.value > 0
AtLeastZero(x) == x.finite /\ x.value >= 0

-----------------------------------------------------------------------------
(* What a file may say.                                                    *)

Accounts == [username : Names, devices : Seq(Names)]
Trackings ==
  [tick : Nat, prefetch : Nat, default : Nat, maximum : Nat, accuracy : Floats,
   oldAdjustment : Int, oldMaximum : Nat, passThrough : Nat, stationary : BOOLEAN,
   still : Nat, radius : Floats, inZone : Nat, atRest : Nat, exit : Nat, fixed : Nat,
   factor : Floats]
Zones    == [id : Names, onEarth : BOOLEAN, radius : Floats, passive : BOOLEAN]
Wazes    == [known : BOOLEAN, minimum : Floats, maximum : Floats]
Sources  == [id : Names, throttle : Nat, alive : Nat]
Aways    == [offset : Int, devices : Seq(Names)]
ConfigFiles ==
  [version : Nat, accounts : Seq(Accounts), tracking : Trackings, zones : Seq(Zones),
   base : SUBSET Names, tracked : Seq(Names), waze : SUBSET Wazes,
   sources : Seq(Sources), away : Seq(Aways)]

DefaultTracking ==
  [tick |-> 5, prefetch |-> 15, default |-> 60, maximum |-> 7200, accuracy |-> Float(100),
   oldAdjustment |-> 0, oldMaximum |-> 0, passThrough |-> 60, stationary |-> TRUE,
   still |-> 1800, radius |-> Float(100), inZone |-> 120, atRest |-> 300, exit |-> 30,
   fixed |-> 0, factor |-> Float(50)]

DefaultFile ==
  [version |-> CurrentVersion, accounts |-> <<>>, tracking |-> DefaultTracking,
   zones |-> <<>>, base |-> {}, tracked |-> <<>>, waze |-> {}, sources |-> <<>>,
   away |-> <<>>]

-----------------------------------------------------------------------------
(* What is accepted.                                                       *)

\* A name of a list of lists that is given twice, in one list or in two.
Repeated(lists) ==
  \E i, j \in DOMAIN lists : \E k \in DOMAIN lists[i], m \in DOMAIN lists[j] :
    lists[i][k] = lists[j][m] /\ <<i, k>> # <<j, m>>

NamesOnce(lists) ==
  /\ \A i \in DOMAIN lists : \A k \in DOMAIN lists[i] : Trim[lists[i][k]] # Blank
  /\ ~ Repeated(lists)

AccountsValid(accounts) ==
  LET user == [i \in DOMAIN accounts |-> Lower[Trim[accounts[i].username]]]
  IN  /\ \A i \in DOMAIN user : user[i] # Blank
      /\ IsInjective(user)
      /\ NamesOnce([i \in DOMAIN accounts |-> accounts[i].devices])

TrackingValid(t) ==
  /\ t.tick > 0 /\ t.prefetch > 0 /\ t.still > 0
  /\ t.default >= 5 /\ t.inZone >= 5 /\ t.atRest >= 5 /\ t.exit >= 5
  /\ t.maximum >= t.default
  /\ AtLeastZero(t.accuracy) /\ Positive(t.factor) /\ Positive(t.radius)
  /\ t.fixed = 0 \/ t.fixed >= 300

\* ZoneSet::new
ZonesValid(zones) ==
  /\ \A i \in DOMAIN zones :
       Trim[zones[i].id] # Blank /\ zones[i].onEarth /\ Positive(zones[i].radius)
  /\ IsInjective([i \in DOMAIN zones |-> zones[i].id])

ActiveZones(zones) == {zones[i].id : i \in {j \in DOMAIN zones : ~ zones[j].passive}}

WazeValid(waze) ==
  /\ waze.known /\ AtLeastZero(waze.minimum)
  /\ waze.maximum.finite /\ waze.maximum.value >= waze.minimum.value

SourcesValid(sources) ==
  /\ \A i \in DOMAIN sources :
       /\ sources[i].id # Blank /\ Trim[sources[i].id] = sources[i].id
       /\ sources[i].throttle > 0 /\ sources[i].alive > 0
  /\ IsInjective([i \in DOMAIN sources |-> sources[i].id])

AwayValid(away) ==
  /\ \A i \in DOMAIN away : away[i].offset \in -23..23 /\ away[i].devices # <<>>
  /\ NamesOnce([i \in DOMAIN away |-> away[i].devices])

\* AppConfig::validate
Valid(file) ==
  /\ file.version = CurrentVersion
  /\ AccountsValid(file.accounts) /\ TrackingValid(file.tracking)
  /\ ZonesValid(file.zones)
  /\ file.base \subseteq ActiveZones(file.zones)
  /\ NamesOnce(<<file.tracked>>) /\ Range(file.tracked) \subseteq ActiveZones(file.zones)
  /\ \A waze \in file.waze : WazeValid(waze)
  /\ SourcesValid(file.sources) /\ AwayValid(file.away)

\* AppConfig::migrate
Migrated(file) == [file EXCEPT !.version = IF @ = 0 THEN CurrentVersion ELSE @]

\* AppConfig::load: the first version had no number.
Accepted(file) == Valid(Migrated(file))

-----------------------------------------------------------------------------
(* What the program runs with.                                             *)

\* runtime_config: the base zone is tracked too; the movement limit of a
\* stationary zone is not configurable.
RuntimeOf(file) ==
  LET t == file.tracking
  IN  [tick |-> t.tick, prefetch |-> t.prefetch, default |-> t.default,
       accuracy |-> t.accuracy, zones |-> file.zones, base |-> file.base,
       tracked |-> Range(file.tracked) \cup file.base, passThrough |-> t.passThrough,
       stationary |-> t.stationary, still |-> t.still, radius |-> t.radius,
       movement |-> Float(60), maximum |-> t.maximum,
       offset |-> [d \in UNION {Range(file.away[i].devices) : i \in DOMAIN file.away} |->
                     file.away[CHOOSE i \in DOMAIN file.away :
                                 d \in Range(file.away[i].devices)].offset],
       oldAdjustment |-> t.oldAdjustment,
       oldMaximum |-> {t.oldMaximum} \ {0}, inZone |-> t.inZone, atRest |-> t.atRest,
       exit |-> t.exit, fixed |-> {t.fixed} \ {0}, factor |-> t.factor]

\* validate_config, before the state is loaded
RuntimeAccepts(c) ==
  /\ c.tick > 0 /\ c.prefetch > 0 /\ c.still > 0
  /\ c.default >= 5 /\ c.maximum >= 5 /\ c.maximum >= c.default
  /\ c.inZone >= 5 /\ c.atRest >= 5 /\ c.exit >= 5
  /\ AtLeastZero(c.accuracy) /\ AtLeastZero(c.movement)
  /\ Positive(c.factor) /\ Positive(c.radius)
  /\ \A fixed \in c.fixed : fixed >= 300
  /\ c.base \subseteq ActiveZones(c.zones) /\ c.tracked \subseteq ActiveZones(c.zones)
===============================================================================
