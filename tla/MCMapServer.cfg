CONSTANTS
  a1 = a1
  a2 = a2
  c1 = c1
  c2 = c2
  l1 = l1
  l2 = l2
  NULL = NULL
  Accounts = {a1}
  Chars = {c1, c2}
  Owner <- OwnerDef
  LoginIds = {l1, l2}
  Fds = {1, 2}
  MaxMapServers = 1
  MaxTimers = 1
  FeatureAutotrade = TRUE
SPECIFICATION Spec
INVARIANTS
  TypeOK
  DataOwned
  
  GhostTimed
PROPERTIES
  QuitterKept
