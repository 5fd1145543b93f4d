SPECIFICATION Spec
CONSTANTS
  A = A
  B = B
  d1 = d1
  d2 = d2
  None = None
  Accounts = {A, B}
  Devices = {d1, d2}
  Visible <- SharedFamily
  Configurations <- FixedOrDiscover
  Prefetch = 1
  DefaultInterval = 2
  NearbyExitDelay = 1
  Intervals = {2}
  MaxErrors = 1
  RetryInterval <- Flat
  ScheduleTimes = {0}
  MigratedDevices <- BackoffFile
  Outcomes = {TRUE}
  Embedded = FALSE
  MaxLag = 0
INVARIANTS
  OwnedDevicesKnown
  BackoffHonoured
  SkippedStayDue
