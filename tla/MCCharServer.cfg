CONSTANTS
  a1 = a1
  a2 = a2
  l1 = l1
  l2 = l2
  NULL = NULL
  Accounts = {a1}
  Chars = {150001, 150016}
  Owner <- OwnerDef
  LoginIds = {l1}
  Fds = {1, 2}
  MapServers = {0, 1}
SPECIFICATION Spec
INVARIANTS
  TypeOK
  FdOwned
  NoUserOnDeadMap
  SelectConsistent

  
