SPECIFICATION Spec
CONSTANTS
  d1 = d1
  house = house
  gate = gate
  store = store
  home = home
  shop = shop
  None = None
  Devices = {d1}
  Places = {house, gate, store}
  Zones = {home, shop}
  ZoneAt <- Exact
  ZoneWithin <- Coarse
  Near <- Reach
  Far <- Moves
  StillTime = 2
  Cooldown = 1
  Delay = 2
  TrackedFrom = {home}
  Prefixed = {}
  MaxAge = 2
  MaxAhead = 1
  Thresholds = {1}
  GraceUpdates = 2
  NewerBy = 1
INVARIANTS
  TypeOK
  GraceBounded
PROPERTIES
  PassThroughConfirmed
  FreshestWins
