SPECIFICATION EngineFairSpec
CONSTANTS
  u1 = u1
  btc = btc
  None = None
  Users = {u1}
  Assets = {btc}
  PRICE_SCALE = 100
  OrderPayloads <- StoppedPayloads
  TradePrices <- OnePrice
  Requests <- Openings
  InitialBalance = 250
  MaxOrders = 6
  BatchSize = 10
  KeepCount = 1
  KeepLength = 2
  LongLived = {}
  MaxStream = 3
  MaxStarts = 2
  MaxStops = 1
  MaxSnapshots = 2
  MaxFailures = 0
INVARIANTS
  NothingSkipped
  ShutdownLosesNothing
PROPERTIES
  StartCompletes
CHECK_DEADLOCK FALSE
