SPECIFICATION Spec
CONSTANTS
  Environments <- OnlyToUnauthenticated
  NPages = 4
  MaxCrashes = 2
  MaxFaults = 1
  MaxRekeys = 2
INVARIANTS
  PlaybackRestores
CHECK_DEADLOCK FALSE
