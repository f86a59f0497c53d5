SPECIFICATION GoodsSpec
CONSTANTS
  Player = {p1, p2}
  Master = p2
  Item = {i1, i2}
  Bound = {i2}
  Capacity = 1
  NoStorage = NoStorage
  MaxPackets = 1
  Char = {x1, x2}
  Thing = {i1}
  None = None
  Wealth = 1
  InboxSize = 1
  MaxMails = 2
  MaxMailPackets = 1
  Trader = {t1, t2, t3}
  Lot = {i1}
  NoLot = NoLot
  Fee = 1
  Coins = 2
  MaxPrice = 3
  MaxSales = 1
  MaxBids = 1
  MaxAuctions = 1
  MaxAuctionPackets = 1
  Ware = {w1, w2}
  Plain = {w1}
  NameOf <- MCName
  Cells = 1
  Stack = 2
  Prices = {0, 1}
  OfferPrices = {1}
  Funds = 1
  Pieces <- MCPieces
  w1 = w1
  MaxShops = 2
  Filtered = FALSE
  t1 = t1
  Fellow = {f1, f2, f3}
  Server = {m1, m2}
  Offline = Offline
  NoParty = NoParty
  Leaderless = Leaderless
  PartySize = 3
  ShareLevel = 2
  TopLevel = 4
  MaxParties = 2
  MaxActs = 3
  MaxPartyPackets = 2
  m1 = m1
  m2 = m2
  f1 = f1
  f2 = f2
  f3 = f3
INVARIANTS
  GoodsTypeOK
  ItemInOnePlace
  MailedOnce
  SurvivesRestart
  LotOnce
  
  PartiesAgree
PROPERTIES
  ShareStaysInRange
  AckClearsSaved
  
  
CHECK_DEADLOCK FALSE
