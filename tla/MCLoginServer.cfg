CONSTANTS
  a1 = a1
  a2 = a2
  l1 = l1
  l2 = l2
  l3 = l3
  NULL = NULL
  Accounts = {a1, a2}
  CharServers = {0, 1}
  LoginIds = {l1, l2}
  TimerIds = {0, 1, 2}
SPECIFICATION Spec
INVARIANTS
  TypeOK
  TimersOwned
  AuthedIsTimed
  NoUserOnDeadServer
  AuthSingleUse
PROPERTIES
  GrantsNewest
