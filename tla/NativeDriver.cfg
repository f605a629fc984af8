SPECIFICATION Spec
CONSTANTS
  Threads = {main, t1, t2}
  Creator = main
  Key = k1
  Rekey = {k2}
  Files = {k1, k3}
  MaxReaders = 2
  MaxRequests = 5
INVARIANTS
  TypeOK
  CredentialsErased
PROPERTY
  KeepsPromise
CHECK_DEADLOCK FALSE
