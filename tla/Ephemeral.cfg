SPECIFICATION Spec
CONSTANTS
  Calls = {c1, c2, c3}
  Requests <- RequestsDef
  NTables = 2
  None = none
  MaxFaults = 1
  MaxCancels = 1
SYMMETRY CallSymmetry
INVARIANTS
  TypeOK
  SchemaComplete
  SeesItsDatabase
  FailsForAReason
CHECK_DEADLOCK FALSE
