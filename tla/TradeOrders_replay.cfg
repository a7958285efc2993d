SPECIFICATION Spec
CONSTANTS
  u1 = u1
  u2 = u2
  p1 = p1
  p2 = p2
  k1 = k1
  k2 = k2
  r1 = r1
  r2 = r2
  r3 = r3
  User = {u1, u2}
  Product = {p1}
  Key = {k1, k2}
  SellerOf <- MCSeller
  Request = {r1, r2}
  Form <- MCForm
  StartingCash = 2
  Stocks = {1, 2}
  Prices = {1, 2}
  MaxEdits = 0
PROPERTIES
  ReplayReturnsOrder
CHECK_DEADLOCK FALSE
