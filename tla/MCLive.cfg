SPECIFICATION LiveSpec
CONSTANTS
  a1 = a1
  c1 = c1
  l1 = l1
  l2 = l2
  NULL = NULL
  Player = {p1, p2}
  Master = p2
  Item = {i2}
  Bound = {i2}
  Capacity = 1
  NoStorage = NoStorage
  MaxPackets = 1
  f1 = f1
  f2 = f2
  Fellow = {f1, f2, f3}
  NoGuild = NoGuild
  NoMember = NoMember
  GuildSize = 2
  MaxGuilds = 2
  MaxChanges = 3

  
  
PROPERTY NothingStuck
CHECK_DEADLOCK FALSE
