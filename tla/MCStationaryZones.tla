-------------------------- MODULE MCStationaryZones --------------------------
(* Three devices around three places in a row, the middle one near both others *)
EXTENDS StationaryZones, TLC

CONSTANTS d1, d2, d3, west, middle, east, home

Reach == {<<p, p>> : p \in Places} \cup
         {<<west, middle>>, <<middle, west>>, <<middle, east>>, <<east, middle>>}
Symmetry == Permutations(Devices)
=============================================================================
