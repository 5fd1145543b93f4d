SPECIFICATION RunSpec
CONSTANTS
  A = A
  B = B
  d1 = d1
  d2 = d2
  None = None
  Accounts = {A, B}
  Devices = {d1, d2}
  Visible <- SharedFamily
  Configurations <- FixedOrDiscover
  Prefetch = 1
  DefaultInterval = 2
  NearbyExitDelay = 1
  Intervals = {2}
  MaxErrors = 2
  RetryInterval <- Table
  ScheduleTimes = {0}
  MigratedDevices <- OlderFiles
  Outcomes = {TRUE, FALSE}
  Embedded = FALSE
  MaxLag = 1
PROPERTIES
  AccountsKeepBeingServed
  ShutdownEnds
CHECK_DEADLOCK FALSE
