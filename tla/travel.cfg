SPECIFICATION Spec
CONSTANTS
  Places <- MCPlaces
  Travels <- MCTravels
  Situations <- MCSituations
  Files <- MCFiles
  Trim <- MCTrim
  Lower <- MCLower
  Blank = ""
INVARIANTS
  TypeOK
  OverridesBounded
  PolledWithinMaximum
  ApproachPolled
  LostPolled
