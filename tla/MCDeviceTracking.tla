--------------------------- MODULE MCDeviceTracking ---------------------------
(* A street from home to a shop: `gate' is outside of home, but a coarse sample *)
(* taken there reaches it                                                       *)
EXTENDS DeviceTracking, NearbyGroups, Graphs

CONSTANTS d1, house, gate, store, home, shop

Exact == [p \in Places |-> CASE p = house -> home [] p = gate -> None [] p = store -> shop]
Coarse == [p \in Places |-> CASE p = house -> home [] p = gate -> home [] p = store -> shop]
Reach == {<<p, p>> : p \in Places} \cup {<<house, gate>>, <<gate, house>>}
Moves == {<<p, q>> \in Places \X Places : <<p, q>> \notin Reach}

\* Three devices on a path, near to and far from each other, in and out of a
\* zone, and two pairs.
Carried == [place : {0, 20, 45}, accuracy : {10, NotKnown}, zone : {home}, online : {TRUE},
            watch : {FALSE}]
           \cup [place : {20}, accuracy : {10}, zone : {shop}, online : {TRUE}, watch : {FALSE}]
           \cup [place : {0}, accuracy : {10}, zone : {home}, online : {FALSE}, watch : {FALSE}]
           \cup [place : {0}, accuracy : {10}, zone : {home}, online : {TRUE}, watch : {TRUE}]
Exactly(p) == [place |-> p, accuracy |-> 10, zone |-> home, online |-> TRUE, watch |-> FALSE]
Carryings == [1..3 -> Carried] \cup {<<Exactly(0), Exactly(45), Exactly(20), Exactly(65)>>,
                                    <<Exactly(0), Exactly(90), Exactly(20), Exactly(70)>>}
Linked(devices) ==
  [node |-> DOMAIN devices,
   edge |-> {e \in (DOMAIN devices) \X (DOMAIN devices) : e[2] \in Neighbours(devices, e[1])}]

\* Two devices are in one group exactly if a chain of neighbours links them;
\* the nearest is within reach; and an exit of one brings the others forward.
ASSUME MCNearbyAssumption ==
  \A devices \in Carryings :
    \A kept \in {Kept(devices)}, linked \in {ConnectionsIn(Linked(devices))} :
        /\ \A d, e \in DOMAIN devices : d # e =>
             (linked[d, e] <=> kept[d].group # 0 /\ kept[d].group = kept[e].group)
        /\ \A d \in DOMAIN devices : kept[d].group # 0 =>
             /\ kept[d].distance <= MaximumDistance
             /\ kept[kept[d].nearest].group = kept[d].group
             /\ devices[kept[d].nearest].zone = devices[d].zone
             /\ ExitMembers(kept, d) = {e \in DOMAIN devices \ {d} : linked[d, e]}
===============================================================================
