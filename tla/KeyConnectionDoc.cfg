SPECIFICATION Spec
CONSTANTS
  Pairs <- DocumentedPairs
  Keys = {k1}
  EmptyKey = empty
  Switching <- Switchings
  PageSizes = {1024, 4096}
  MaxLeases = 1
INVARIANT MigrationTakesEffect
CHECK_DEADLOCK FALSE
