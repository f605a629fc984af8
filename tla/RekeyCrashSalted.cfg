SPECIFICATION Spec
CONSTANTS
  Environments <- OnlyPassphrases
  NPages = 4
  MaxCrashes = 2
  MaxFaults = 1
  MaxRekeys = 2
INVARIANTS
  RollbackRestores
CHECK_DEADLOCK FALSE
