SPECIFICATION Spec
CONSTANTS
  Environments <- OnlyLargeCache
  NPages = 4
  MaxCrashes = 2
  MaxFaults = 1
  MaxRekeys = 2
INVARIANTS
  ErrorKeepsOldKey
CHECK_DEADLOCK FALSE
