CONSTANTS
  p1 = p1
  p2 = p2
  p3 = p3
  i1 = i1
  NULL = NULL
  Players = {p1, p2, p3}
  Items = {i1}
  ChatRooms = TRUE
  MaxDealSlots = 2
  MAX_INVENTORY = 1
  MAX_AMOUNT = 2
  MAX_ZENY = 1
  MaxWeight = 1
SPECIFICATION Spec
INVARIANT TradingIsMutual
