SPECIFICATION Spec
CONSTANTS
  u1 = u1
  u2 = u2
  btc = btc
  None = None
  Users = {u1}
  Assets = {btc}
  PRICE_SCALE = 100
  OrderPayloads <- MCPayloads
  TradePrices <- TwoPrices
  Requests <- Commands
  InitialBalance = 250
  MaxOrders = 1
PROPERTIES
  PaidOnce
