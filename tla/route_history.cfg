SPECIFICATION Spec
CONSTANTS
  Destinations <- MCDestinations
  Closest <- MCClosest
  Configs <- MCConfigs
  OutOfRange <- MCOutOfRange
  HistoryReach = 4
  ShareReach = 1
  PauseAfter <- MCPauseAfter
  GiveUpAfter = 1
  Devices = 2
  MaxRows = 2
INVARIANTS
  TypeOK
  EstimatesMatch
  UsedIsNear
  RowsApart
PROPERTIES
  DurationsKept
  CellsKept
