SPECIFICATION Spec
CONSTANTS
  Threads = {main, t1, t2}
  Creator = main
  Key = k1
  Rekey = {k2}
  Files = {k1, k3}
  Empty = empty
  Nobody = nobody
  MaxRequests = 6
INVARIANTS
  TypeOK
  ServedWhileOpen
  CredentialsErased
PROPERTIES
  KeepsPromise
  CloseEnds
CHECK_DEADLOCK FALSE
