SPECIFICATION EngineSpec
CONSTANTS
  u1 = u1
  btc = btc
  None = None
  Users = {u1}
  Assets = {btc}
  PRICE_SCALE = 1000
  OrderPayloads <- MCPayloads
  TradePrices <- TwoPrices
  Requests <- Openings
  InitialBalance = 2500
  MaxOrders = 4
  BatchSize = 10
  KeepCount = 1
  KeepLength = 3
  LongLived = {}
  MaxStream = 4
  MaxStarts = 2
  MaxStops = 0
  MaxSnapshots = 1
  MaxFailures = 1
INVARIANTS
  MarginCallsCaughtUp
  NothingSkipped
  BookConsistent
PROPERTIES
  LivesTrade
CHECK_DEADLOCK FALSE
