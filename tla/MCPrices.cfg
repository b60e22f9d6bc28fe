SPECIFICATION Spec
CONSTANTS
  u1 = u1
  u2 = u2
  btc = btc
  None = None
  Users = {u1}
  Assets = {btc}
  PRICE_SCALE = 1000
  OrderPayloads <- FinePayloads
  TradePrices <- FinePrices
  Requests <- TradeOnly
  InitialBalance = 2600
  MaxOrders = 1
INVARIANTS
  LossesCovered
  ZeroSum
PROPERTIES
  MarginCallNotEarly
  FreshOrderSurvives
