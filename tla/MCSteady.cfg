SPECIFICATION EngineFairSpec
CONSTANTS
  u1 = u1
  btc = btc
  None = None
  Users = {u1}
  Assets = {btc}
  PRICE_SCALE = 100
  OrderPayloads <- MCPayloads
  TradePrices <- TwoPrices
  Requests <- Commands
  InitialBalance = 250
  MaxOrders = 2
  BatchSize = 2
  KeepCount = 1
  KeepLength = 4
  LongLived = {1}
  MaxStream = 5
  MaxStarts = 1
  MaxStops = 0
  MaxSnapshots = 0
  MaxFailures = 0
INVARIANTS
  EngineTypeOK
  AppliedInOrder
PROPERTIES
  RequestsAnswered
  ImplementsTrading
CHECK_DEADLOCK FALSE
