SPECIFICATION Spec
CONSTANTS
  Environments <- AllEnvironments
  NPages = 5
  MaxCrashes = 2
  MaxFaults = 2
  MaxRekeys = 2
INVARIANTS
  TypeOK
  NeverStranded
PROPERTY
  AtomicSwitch
CHECK_DEADLOCK FALSE
