----------------------------- MODULE NearbyGroups -----------------------------
(***************************************************************************)
(* Devices that are together: group_nearby_devices                         *)
(* (crates/icloud-tracking/src/nearby.rs) and what update_nearby_devices   *)
(* (src/runtime.rs) keeps of its groups.  Devices are numbered in the      *)
(* order of their ids; each is a record of the last accepted sample        *)
(* (`place', metres along a line; `accuracy', NotKnown if there is none),  *)
(* `zone', `online' and `watch'.                                           *)
(***************************************************************************)
EXTENDS Integers, FiniteSets, FiniteSetsExt

MaximumDistance == 25
MaximumAccuracy == 25
NotKnown == 1000000

Apart(a, b) == IF a.place < b.place THEN b.place - a.place ELSE a.place - b.place

\* One sample of the two must be exact.
Together(a, b) ==
  /\ a.online /\ b.online /\ ~ a.watch /\ ~ b.watch
  /\ a.zone = b.zone
  /\ a.accuracy <= MaximumAccuracy \/ b.accuracy <= MaximumAccuracy
  /\ Apart(a, b) <= MaximumDistance

Neighbours(devices, d) == {e \in DOMAIN devices \ {d} : Together(devices[d], devices[e])}

\* The devices visited from one of them, the neighbours of one more at each step.
Visited(devices, d) ==
  LET visit[n \in Nat] ==
        IF n = 0 THEN {d}
        ELSE visit[n - 1] \cup UNION {Neighbours(devices, e) : e \in visit[n - 1]}
  IN  visit[Cardinality(DOMAIN devices)]

\* Groups of two at least, numbered by their first device.
Groups(devices) == {g \in {Visited(devices, d) : d \in DOMAIN devices} : Cardinality(g) > 1}
GroupNumber(devices, g) == Cardinality({h \in Groups(devices) : Min(h) <= Min(g)})

\* The nearest of the group, the first of those that are equally near.
Nearest(devices, g, d) ==
  CHOOSE e \in g \ {d} : \A f \in g \ {d} :
    \/ Apart(devices[d], devices[e]) < Apart(devices[d], devices[f])
    \/ Apart(devices[d], devices[e]) = Apart(devices[d], devices[f]) /\ e <= f

Alone == [group |-> 0, nearest |-> 0, distance |-> NotKnown]

\* nearby_group, nearby_device_id and nearby_device_distance_meters of each
Kept(devices) ==
  [d \in DOMAIN devices |->
     IF \E g \in Groups(devices) : d \in g
     THEN LET g == CHOOSE h \in Groups(devices) : d \in h
              e == Nearest(devices, g, d)
          IN  [group |-> GroupNumber(devices, g), nearest |-> e,
               distance |-> Apart(devices[d], devices[e])]
     ELSE Alone]

\* Those that a zone exit of one device brings forward.
ExitMembers(kept, d) ==
  {e \in DOMAIN kept \ {d} : kept[d].group # 0 /\ kept[e].group = kept[d].group}
===============================================================================
