SPECIFICATION Spec
CONSTANTS
  A = A
  B = B
  d1 = d1
  d2 = d2
  None = None
  Accounts = {A}
  Devices = {d1}
  Visible <- SharedFamily
  Configurations <- FixedOrDiscover
  Prefetch = 1
  DefaultInterval = 2
  NearbyExitDelay = 1
  Intervals = {2}
  MaxErrors = 2
  RetryInterval <- Table
  ScheduleTimes = {0}
  MigratedDevices <- BackoffFile
  Outcomes = {TRUE, FALSE}
  Embedded = TRUE
  MaxLag = 1
INVARIANTS
  TypeOK
  BookkeepingAgrees
  BackoffHonoured
  BackoffRecorded
  AckedPauseHolds
