SPECIFICATION Spec
CONSTANTS
  pause = pause
  schedule = schedule
  Daemons = {"watch"}
  Commands <- MCCommands
  Ticks = {"tick"}
  Later <- MCLater
INVARIANTS
  TypeOK
  AckedHolds
  UpgradeHolds
PROPERTIES
  Implements
