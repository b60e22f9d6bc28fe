SPECIFICATION EngineSpec
CONSTANTS
  u1 = u1
  btc = btc
  None = None
  Users = {u1}
  Assets = {btc}
  PRICE_SCALE = 100
  OrderPayloads <- MCPayloads
  TradePrices <- OnePrice
  Requests <- Commands
  InitialBalance = 250
  MaxOrders = 6
  BatchSize = 10
  KeepCount = 1
  KeepLength = 2
  LongLived = {}
  MaxStream = 2
  MaxStarts = 2
  MaxStops = 0
  MaxSnapshots = 1
  MaxFailures = 0
INVARIANT
  ConsumerResumes
CHECK_DEADLOCK FALSE
