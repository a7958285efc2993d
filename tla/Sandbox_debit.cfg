SPECIFICATION SandboxSpec
CONSTANTS
  u1 = u1
  u2 = u2
  p1 = p1
  k1 = k1
  r1 = r1
  t1 = t1
  t2 = t2
  t3 = t3
  t4 = t4
  NoRow = NoRow
  User = {u1, u2}
  Product = {p1}
  Key = {k1}
  SellerOf <- MCSeller
  Request = {r1}
  Form <- MCForm
  StartingCash = 3
  Stocks = {1}
  Prices = {1}
  MaxEdits = 0
  Trade = {t1}
  TradeForm <- MCTrades
INVARIANTS
  CashBooked
CHECK_DEADLOCK FALSE
