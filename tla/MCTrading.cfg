SPECIFICATION FairSpec
CONSTANTS
  u1 = u1
  u2 = u2
  btc = btc
  None = None
  Users = {u1, u2}
  Assets = {btc}
  PRICE_SCALE = 100
  OrderPayloads <- MCPayloads
  TradePrices <- TwoPrices
  Requests <- EveryCommand
  InitialBalance = 250
  MaxOrders = 2
INVARIANTS
  TypeOK
  BookConsistent
  AwaitedReadsFresh
  ClosingsPublished
  ResponseSound
PROPERTIES
  OrderLifecycle
  PassComplete
  ConsumerReturns
  ImplementsLedger
