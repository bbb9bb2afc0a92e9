CONSTANTS
  MaxChunks <- MCChunks
  Window = 1
  Settings <- MCSettings
SPECIFICATION FairSpec
CHECK_DEADLOCK FALSE
INVARIANTS
  EndMeansComplete
PROPERTIES
  EndIsPassedOn
  PathReleased
