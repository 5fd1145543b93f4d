SPECIFICATION StationarySpec
CONSTANTS
  d1 = d1
  d2 = d2
  d3 = d3
  west = west
  middle = middle
  east = east
  home = home
  None = None
  Devices = {d1, d2, d3}
  Places = {west, middle, east, home}
  Near <- Reach
  Regular = {home}
  StillTime = 2
  Cooldown = 2
SYMMETRY Symmetry
INVARIANTS
  StationaryTypeOK
  OccupancyAgrees
  ActiveZonesApart
  ZonesBounded
