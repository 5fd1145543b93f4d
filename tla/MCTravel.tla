------------------------------- MODULE MCTravel -------------------------------
(* A drive from home past two places near to it, to work, and far away, with    *)
(* the samples and situations that turn a layer of the policy on, one at a time *)
(* and in the pairs that meet.                                                  *)
EXTENDS Travel

Place(z, d, r, o) == [zone |-> z, distance |-> d, road |-> r, other |-> o]
MCPlaces == {Place("home", 0, 0, 5200), Place(None, 800, 900, 4500),
             Place(None, 1500, 2100, 3900), Place("other", 5200, 7000, 0),
             Place(None, 60000, 75000, 56000)}

MCTravels == {NoTravel, 400, 700}

Plain == [accepted |-> TRUE, fault |-> "", changed |-> FALSE, still |-> FALSE,
          exit |-> FALSE, external |-> FALSE, offline |-> FALSE, passing |-> FALSE,
          battery |-> Unknown, errors |-> 5, age |-> 0, centre |-> 0]
Missed(s, fault) == [s EXCEPT !.accepted = FALSE, !.fault = fault]
Changed == [Plain EXCEPT !.changed = TRUE]
Offline == [Plain EXCEPT !.offline = TRUE, !.age = 2000]
MCSituations ==
  {Plain, [Plain EXCEPT !.fault = "old"], Missed(Plain, "poor"), Missed(Plain, "missing"),
   Changed, [Changed EXCEPT !.fault = "old"], [Changed EXCEPT !.passing = TRUE],
   [Changed EXCEPT !.battery = 5], [Plain EXCEPT !.battery = 10],
   Offline, Missed(Offline, "missing"), [Plain EXCEPT !.still = TRUE],
   Missed([Plain EXCEPT !.still = TRUE, !.errors = 30, !.centre = 40], "poor"),
   [Plain EXCEPT !.exit = TRUE, !.external = TRUE], [Plain EXCEPT !.external = TRUE]}

Named(intervals) == [DefaultFile EXCEPT !.tracking = intervals]
Intervals(fixed, maximum) ==
  [DefaultTracking EXCEPT !.inZone = 3600, !.atRest = 900, !.fixed = fixed, !.maximum = maximum]

Home == [id |-> "home", onEarth |-> TRUE, radius |-> Float(100), passive |-> FALSE]
Attic == [Home EXCEPT !.id = "attic", !.passive = TRUE]
Ann == [username |-> " Ann", devices |-> <<"phone", "pad">>]
ann == [username |-> "ann", devices |-> <<"watch">>]
MCTrim  == [n \in {"", " Ann", "Ann", "ann", "home", "attic", "phone", "pad", "watch"} |->
              IF n = " Ann" THEN "Ann" ELSE n]
MCLower == [n \in DOMAIN MCTrim |-> IF n = "Ann" THEN "ann" ELSE n]

\* Two that are accepted, and one change each that is refused.
Good == [Named(Intervals(0, 1500)) EXCEPT
  !.version = 0, !.accounts = <<Ann>>, !.zones = <<Home, Attic>>, !.base = {"home"},
  !.away = <<[offset |-> -5, devices |-> <<"phone">>]>>]
Refused ==
  {[Good EXCEPT !.version = 2], [Good EXCEPT !.accounts = <<Ann, ann>>],
   [Good EXCEPT !.accounts = <<[Ann EXCEPT !.devices = <<"pad", "pad">>]>>],
   [Good EXCEPT !.base = {"attic"}], [Good EXCEPT !.tracked = <<"home", "home">>],
   [Good EXCEPT !.zones = <<Home, Home>>], [Good EXCEPT !.tracking.maximum = 59],
   [Good EXCEPT !.tracking.fixed = 299], [Good EXCEPT !.tracking.exit = 4],
   [Good EXCEPT !.away = <<[offset |-> 24, devices |-> <<"phone">>]>>],
   [Good EXCEPT !.sources = <<[id |-> " Ann", throttle |-> 60, alive |-> 60]>>]}
MCFiles == {Good, Named(Intervals(600, 300))} \cup Refused

ASSUME MCConfigurationAssumption ==
  /\ \A file \in MCFiles : Accepted(file) <=> file \notin Refused
  /\ \A file \in MCFiles \cup {DefaultFile} : Accepted(file) => RuntimeAccepts(RuntimeOf(file))
===============================================================================
