SPECIFICATION Spec
CONSTANTS
  f1 = f1  f2 = f2  f3 = f3
  cfgA = cfgA  cfgB = cfgB  cfgC = cfgC
  k1 = k1  raw = raw
  Factories = {f1, f2, f3}
  Calls = {c1, c2}
  Configs = {cfgA, cfgB, cfgC}
  NoConfig = plain
  NoFile = nofile
  Keys = {k1, raw, empty}
  EmptyKey = empty
  NoKey = nokey
  Current <- CurrentDef
  Migrations <- MigrationsDef
  Accepts <- AcceptsDef
  Compatible <- CompatibleDef
  Requests <- KeyRequests
  MaxCrashes = 1
  MaxFaults = 1
INVARIANTS
  TypeOK
  NoLateMigration
  DriverOpensFile
  HonestFailure
PROPERTIES
  CredentialsChangeOnRequest
  EveryCallEnds
CHECK_DEADLOCK FALSE
