SPECIFICATION Spec
CONSTANTS
  Pairs <- SoundPairs
  Keys = {k1}
  EmptyKey = empty
  Switching <- Switchings
  PageSizes = {1024, 4096}
  MaxLeases = 1
INVARIANTS
  TypeOK
  MigrationTakesEffect
  AlwaysOpenable
  TableDescribesFile
  NoRekeyInWal
  SwitchesInEffect
PROPERTIES
  ReopenNeverFails
CHECK_DEADLOCK FALSE
