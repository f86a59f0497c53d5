CONSTANTS
  a1 = a1
  a2 = a2
  c1 = c1
  c2 = c2
  l1 = l1
  l2 = l2
  NULL = NULL
  Accounts = {a1, a2}
  Chars = {c1, c2}
  Owner <- OwnerTwo
  LoginIds = {l1}
  Fds = {1, 2}
  MaxMapServers = 1
  MaxTimers = 1
  FeatureAutotrade = FALSE
SPECIFICATION Spec
INVARIANT
  NodeOrPlayer
PROPERTY
  OfflineIsTrue
