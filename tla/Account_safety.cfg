SPECIFICATION AccountSpec
CONSTANTS
  u1 = u1
  u2 = u2
  p1 = p1
  p2 = p2
  k1 = k1
  k2 = k2
  r1 = r1
  r2 = r2
  r3 = r3
  f1 = f1
  f2 = f2
  a1 = a1
  a2 = a2
  v1 = v1
  v2 = v2
  None = None
  User = {u1, u2}
  Product = {p1}
  Key = {k1, k2}
  SellerOf <- MCSeller
  Request = {r1, r2, r3}
  Form <- MCForm
  StartingCash = 2
  Stocks = {1, 2}
  Prices = {1, 2}
  MaxEdits = 1
  Favorite = {f1, f2}
  Wished <- MCWished
  Address = {a1, a2}
  Visit = {v1, v2}
CONSTRAINT OneAtATime
INVARIANTS
  TradeTypeOK

  StockAccounted
  MoneyConserved
  TrailComplete
  OtherPartyToldUnlessMisjudged
  FavoritesTrue
  ChoicesKept
PROPERTIES
  OrderKeysKept
  EscrowKept
CHECK_DEADLOCK FALSE
