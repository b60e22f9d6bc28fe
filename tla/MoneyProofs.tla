----------------------------- MODULE MoneyProofs -----------------------------
(***************************************************************************)
(* What Trading does with money, for every set of users, assets, payloads, *)
(* prices and requests and for every PRICE_SCALE.                          *)
(*                                                                         *)
(* Trading implements Ledger: cash moves only with a grant, a lock or a    *)
(* payment.  Cash and Account are the refinement mapping of Money in       *)
(* Trading.  The proof needs TradingInv and one fact more: an order that a *)
(* close request holds and memory has dropped was liquidated, not open.    *)
(*                                                                         *)
(* The margin call: never early, never late, and in time for the margin to *)
(* cover the loss.  The arithmetic is stated on integers, rounding by      *)
(* rounding; TermsInv and LossInv carry it to the orders in memory.        *)
(* LossInvOn says it of some of the assets: Engine, whose replay checks no *)
(* orders, comes to know it asset by asset.                                *)
(***************************************************************************)
EXTENDS TradingProofs

Cash == [u \in DOMAIN users |-> users[u].balanceInt]

Account == [id \in DOMAIN HeldOrders |-> AccountOf(HeldOrders[id])]

HeldLiquidated ==
  pc = "price" /\ closing.orderId \notin DOMAIN orders =>
    closing.order.status = "LIQUIDATED"

MoneyInv == TradingInv /\ HeldLiquidated

-----------------------------------------------------------------------------
\* The mapping

\* What the ledger calls a user's cash is his balance.
LEMMA CashIsBalance ==
  ASSUME NEW u
  PROVE  Money!CashOf(u) = GetBalance(u)
BY DEF Money!CashOf, GetBalance

\* The ledger's accounts are the orders in memory unless a close request holds one.
LEMMA HeldWithoutCall ==
  pc # "price" => HeldOrders = orders
BY DEF HeldOrders

\* Entries with the same owner, balance and orders map to the same ledger.
LEMMA SameMoney ==
  ASSUME UNCHANGED users, HeldOrders' = HeldOrders
  PROVE  UNCHANGED <<Cash, Account>>
BY DEF Cash, Account, AccountOf

-----------------------------------------------------------------------------
\* HeldLiquidated is preserved

\* The cleanup drops no open order, and a closed one is not held.
LEMMA HeldLiquidatedNext ==
  ASSUME MoneyInv, [Next]_vars
  PROVE  HeldLiquidated'
<1>0. TradingInv /\ HeldLiquidated /\ TypeOK /\ ControlOK /\ CloseCallFresh
  BY DEF MoneyInv, TradingInv
<1>1. ASSUME NEW request \in Requests, HandleRequest(request) PROVE HeldLiquidated'
  <2>1. CASE HandleCloseOrder(request)
    <3>1. pc' = "price" => closing'.orderId \in DOMAIN orders'
      BY <2>1 DEF HandleCloseOrder, CloseError, Owns, Refuse, Respond
    <3> QED
      BY <3>1 DEF HeldLiquidated
  <2>2. CASE ~HandleCloseOrder(request)
    <3>1. pc' = "respond"
      BY <1>1, <2>2 DEF HandleRequest, HandleRegisterUser, HandlePlaceOrder,
         HandleGetBalance, HandleGetOrder, HandleGetUserOrders, Refuse, Respond
    <3> QED
      BY <3>1 DEF HeldLiquidated
  <2> QED
    BY <2>1, <2>2
<1>2. CASE CloseAtPrice \/ PublishResponse
  BY <1>2 DEF CloseAtPrice, PublishResponse, Respond, HeldLiquidated
<1>3. ASSUME NEW id \in scan, SkipOrder(id) \/ LiquidateOrder(id) \/ PublishLiquidation(id)
      PROVE  HeldLiquidated'
  BY <1>3 DEF SkipOrder, LiquidateOrder, PublishLiquidation, AfterPass, HeldLiquidated
<1>4. ASSUME NEW asset \in Assets, NEW quote, ProcessMarketUpdate(asset, quote)
      PROVE  HeldLiquidated'
  BY <1>4 DEF ProcessMarketUpdate, HeldLiquidated
<1>5. CASE UNCHANGED <<pc, closing, orders>>
  BY <1>0, <1>5 DEF HeldLiquidated
<1>6. CASE CleanupOldClosedOrders
  <2> SUFFICES ASSUME pc = "price", closing.orderId \notin DOMAIN orders'
               PROVE  closing.order.status = "LIQUIDATED"
    BY <1>6 DEF CleanupOldClosedOrders, HeldLiquidated
  <2>1. CASE closing.orderId \notin DOMAIN orders
    BY <1>0, <2>1 DEF HeldLiquidated
  <2>2. CASE closing.orderId \in DOMAIN orders
    <3>1. closing.orderId \in Removable
      BY <1>6, <2>2 DEF CleanupOldClosedOrders, Without
    <3> QED
      BY <1>0, <2>2, <3>1 DEF Removable, CloseCallFresh
  <2> QED
    BY <2>1, <2>2
<1> QED
  BY <1>1, <1>2, <1>3, <1>4, <1>5, <1>6
     DEF Next, TakeMessage, ConsumerStep, Timer, AgeOrder, vars

-----------------------------------------------------------------------------
\* Steps of the ledger

\* Sign-up is a grant.
LEMMA RegisterIsGrant ==
  ASSUME TypeOK, NEW request \in Requests, pc = "next", HandleRegisterUser(request)
  PROVE  Money!Grant(request.userId) \/ UNCHANGED <<Cash, Account>>
<1>1. pc' = "respond" /\ HeldOrders = orders /\ HeldOrders' = orders' /\ UNCHANGED orders
  BY HeldWithoutCall DEF HandleRegisterUser, Refuse, Respond, HeldOrders
<1>2. CASE UNCHANGED users
  BY <1>1, <1>2, SameMoney
<1>3. CASE /\ request.userId \notin DOMAIN users
           /\ users' = Put(users, request.userId,
                           [balanceInt |-> InitialBalance, orders |-> {}])
  <2>1. Cash' = Put(Cash, request.userId, InitialBalance)
    BY <1>3 DEF Cash, Put
  <2>2. Account' = Account
    BY <1>1 DEF Account, AccountOf
  <2> QED
    BY <1>3, <2>1, <2>2 DEF Money!Grant, Money!Put, Put, Cash, Account
<1> QED
  BY <1>2, <1>3 DEF HandleRegisterUser, Refuse

\* An accepted order locks a margin that its owner can afford.
LEMMA PlaceIsLock ==
  ASSUME TradingInv, NEW request \in Requests, pc = "next", HandlePlaceOrder(request),
         NEW id, id = nextOrderId
  PROVE  Money!Lock(request.userId, id) \/ UNCHANGED <<Cash, Account>>
<1> DEFINE user == request.userId
           order == NewOrder(user, request.payload)
           balanceInt == GetBalance(user) - order.marginInt
<1>0. TypeOK /\ IdsFresh
  BY DEF TradingInv
<1>1. pc' = "respond" /\ HeldOrders = orders /\ HeldOrders' = orders'
  BY HeldWithoutCall DEF HandlePlaceOrder, Refuse, Respond, HeldOrders
<1>2. CASE UNCHANGED <<users, orders>>
  BY <1>1, <1>2, SameMoney
<1>3. CASE /\ PlaceError(user, request.payload) = "NONE"
           /\ orders' = Put(orders, id, order)
           /\ users' = Put(users, user, [balanceInt |-> balanceInt,
                                         orders |-> OrdersOf(user) \cup {id}])
  <2>1. /\ id \notin DOMAIN orders
        /\ order.userId = user /\ order.status = "OPEN"
    BY <1>0, TradingAssumption DEF IdsFresh, TypeOK, OrderIds, NewOrder
  <2>2. order.marginInt <= GetBalance(user)
    <3>1. order.marginInt = RequiredMarginInt(request.payload)
      BY DEF NewOrder
    <3>2. HasSufficientBalance(user, RequiredMarginInt(request.payload))
      BY <1>3 DEF PlaceError
    <3> QED
      BY <3>1, <3>2 DEF HasSufficientBalance
  <2> HIDE DEF order, user
  <2>3. Cash' = Put(Cash, user, GetBalance(user) - order.marginInt)
    BY <1>3 DEF Cash, Put
  <2>4. Account' = Put(Account, id, AccountOf(order))
    BY <1>1, <1>3 DEF Account, Put
  <2>5. /\ Account'[id] = AccountOf(order) /\ id \in DOMAIN Account'
        /\ id \notin DOMAIN Account
    <3>1. id \notin DOMAIN Account
      BY <1>1, <2>1 DEF Account
    <3> QED
      BY <2>4, <3>1 DEF Put
  <2>6. /\ AccountOf(order).owner = user /\ AccountOf(order).state = "locked"
        /\ AccountOf(order).margin = order.marginInt
    BY <2>1 DEF AccountOf
  <2>7. Money!Lock(user, id)
    BY <2>2, <2>3, <2>4, <2>5, <2>6, CashIsBalance
       DEF Money!Lock, Money!Put, Put, Cash, Account
  <2> QED
    BY <2>7 DEF user, Money!Lock
<1> QED
  BY <1>2, <1>3 DEF HandlePlaceOrder, Refuse

\* Requests that move no money.
LEMMA QueryIsStutter ==
  ASSUME NEW request \in Requests, pc = "next",
         \/ HandleCloseOrder(request) \/ HandleGetBalance(request)
         \/ HandleGetOrder(request) \/ HandleGetUserOrders(request)
  PROVE  UNCHANGED <<Cash, Account>>
<1>1. UNCHANGED <<users, orders>> /\ HeldOrders = orders
  BY HeldWithoutCall
     DEF HandleCloseOrder, HandleGetBalance, HandleGetOrder, HandleGetUserOrders, Refuse
<1>2. pc' = "price" => closing'.orderId \in DOMAIN orders'
  BY DEF HandleCloseOrder, HandleGetBalance, HandleGetOrder, HandleGetUserOrders,
         CloseError, Owns, Refuse, Respond
<1> QED
  BY <1>1, <1>2, SameMoney DEF HeldOrders

\* Settling an order in memory pays its owner its margin and the profit on record.
LEMMA SettleIsPayOut ==
  ASSUME TypeOK, NEW id \in DOMAIN orders, NEW pnl \in Int,
         NEW reason \in CloseReason \ {"NONE"},
         Settle(id, orders[id], pnl, reason),
         HeldOrders = orders, HeldOrders' = orders'
  PROVE  /\ Money!PayOut(id)
         /\ id \in DOMAIN Account
         /\ Account[id].state = AccountOf(orders[id]).state
         /\ Account'[id].state = IF reason = "MANUAL" THEN "paid" ELSE "auto"
<1> DEFINE order == orders[id]
           closed == Closed(order, pnl, reason)
<1>1. /\ order \in Order /\ closed \in Order
      /\ closed.userId = order.userId /\ closed.marginInt = order.marginInt
      /\ closed.finalPnLInt = pnl
      /\ closed.status = IF reason = "MANUAL" THEN "CLOSED" ELSE "LIQUIDATED"
  BY DEF TypeOK, Closed, Order, OrderStatus
<1>2. /\ orders' = [orders EXCEPT ![id] = closed]
      /\ users' = Put(users, order.userId,
                      WithBalance(order.userId,
                                  GetBalance(order.userId) + order.marginInt + pnl))
  BY DEF Settle
<1>3. /\ AccountOf(closed).owner = order.userId
      /\ AccountOf(closed).margin = order.marginInt
      /\ AccountOf(closed).profit = pnl
      /\ AccountOf(closed).state = IF reason = "MANUAL" THEN "paid" ELSE "auto"
      /\ AccountOf(order).owner = order.userId
      /\ AccountOf(order).margin = order.marginInt
  BY <1>1 DEF AccountOf
<1> HIDE DEF closed
<1>4. Account' = Put(Account, id, AccountOf(closed))
  BY <1>2 DEF Account, Put
<1>5. Cash' = Put(Cash, order.userId,
                  GetBalance(order.userId) + order.marginInt + pnl)
  BY <1>2 DEF Cash, Put, WithBalance
<1>6. /\ id \in DOMAIN Account /\ id \in DOMAIN Account'
      /\ Account[id] = AccountOf(order) /\ Account'[id] = AccountOf(closed)
  BY <1>4 DEF Account, Put
<1>7. Money!PayOut(id)
  BY <1>3, <1>4, <1>5, <1>6, CashIsBalance DEF Money!PayOut, Money!Put, Put, Cash, Account
<1> QED
  BY <1>3, <1>6, <1>7

\* A close request pays the order it has read, or pays a liquidated one again.
LEMMA CloseIsPay ==
  ASSUME MoneyInv, CloseAtPrice, NEW id, id = closing.orderId
  PROVE  \/ Money!Pay(id) \/ Money!PayAgain(id)
         \/ Money!Forget \/ UNCHANGED <<Cash, Account>>
<1> DEFINE order == closing.order
           pnl == PnLIntAt(order, market[order.asset])
<1>0. /\ TypeOK /\ HeldLiquidated
      /\ pc = "price" /\ closing \in CloseCall /\ order \in Order
      /\ order.userId \in DOMAIN users /\ order.userId = closing.userId
      /\ order.status # "CLOSED"
      /\ id \in DOMAIN orders => orders[id] = order
  BY DEF MoneyInv, TradingInv, ControlOK, CloseCallFresh, CloseCall, CloseAtPrice
<1>1. pc' = "respond" /\ HeldOrders' = orders'
  BY DEF CloseAtPrice, Respond, HeldOrders
<1>2. CASE id \in DOMAIN orders
  <2>0. HeldOrders = orders
    BY <1>2 DEF HeldOrders
  <2>1. CASE UNCHANGED store
    BY <1>1, <2>0, <2>1, SameMoney DEF store
  <2>2. CASE order.asset \in DOMAIN market /\ Settle(id, order, pnl, "MANUAL")
    <3>1. pnl \in Int
      BY <1>0, <2>2, PnLType DEF TypeOK
    <3> HIDE DEF pnl
    <3>2. /\ Money!PayOut(id) /\ id \in DOMAIN Account
          /\ Account[id].state = AccountOf(orders[id]).state
          /\ Account'[id].state = "paid"
      <4>1. "MANUAL" \in CloseReason \ {"NONE"}
        BY DEF CloseReason
      <4>2. Settle(id, orders[id], pnl, "MANUAL") /\ HeldOrders' = orders'
        BY <1>0, <1>1, <1>2, <2>2
      <4> HIDE DEF order
      <4> QED
        BY <1>0, <1>2, <2>0, <3>1, <4>1, <4>2, SettleIsPayOut
    <3>3. AccountOf(orders[id]).state \in {"locked", "auto"}
      BY <1>0, <1>2 DEF AccountOf, Order, OrderStatus
    <3> QED
      BY <3>2, <3>3 DEF Money!Pay, Money!PayAgain, Account
  <2> QED
    BY <2>1, <2>2 DEF CloseAtPrice
<1>3. CASE id \notin DOMAIN orders
  <2>0. /\ HeldOrders = Put(orders, id, order) /\ order.status = "LIQUIDATED"
        /\ UNCHANGED orders
    BY <1>0, <1>3 DEF HeldOrders, HeldLiquidated, CloseAtPrice, Settle, store
  <2>1. id \in DOMAIN Account /\ Account[id] = AccountOf(order)
    BY <2>0 DEF Account, Put
  <2>2. AccountOf(order).state = "auto" /\ AccountOf(order).owner = order.userId
    BY <2>0 DEF AccountOf
  <2>3. Account' = Without(Account, {id})
    BY <1>1, <1>3, <2>0 DEF Account, Put, Without, AccountOf
  <2>4. CASE UNCHANGED store
    <3>1. {id} \in SUBSET {i \in DOMAIN Account : Account[i].state # "locked"}
      BY <2>1, <2>2
    <3>2. Cash' = Cash
      BY <2>4 DEF store, Cash
    <3> QED
      BY <2>3, <3>1, <3>2 DEF Money!Forget, Money!Without, Without, Cash, Account
  <2>5. CASE Settle(id, order, pnl, "MANUAL")
    <3>1. /\ DOMAIN Cash' = DOMAIN Cash
          /\ \A u \in DOMAIN Cash \ {order.userId} : Cash'[u] = Cash[u]
      BY <1>0, <2>5 DEF Settle, Put, Cash
    <3> QED
      BY <2>1, <2>2, <2>3, <3>1 DEF Money!PayAgain, Money!Without, Without, Cash, Account
  <2> QED
    BY <2>4, <2>5 DEF CloseAtPrice
<1> QED
  BY <1>2, <1>3

\* An automatic closing is the first payment of its order.
LEMMA LiquidateIsPay ==
  ASSUME TradingInv, NEW id \in scan, LiquidateOrder(id)
  PROVE  Money!Pay(id)
<1> DEFINE pnl == PnLIntAt(orders[id], tick.quote)
           reason == ReasonAt(orders[id], tick.quote)
<1>0. TypeOK /\ ControlOK /\ ScanFresh /\ pc = "pass" /\ pc' = "publishLiquidation"
  BY DEF TradingInv, LiquidateOrder
<1>1. /\ id \in DOMAIN orders /\ orders[id].status = "OPEN" /\ orders[id] \in Order
      /\ tick \in Tick
  BY <1>0 DEF ScanFresh, GetOpenOrdersByAsset, TypeOK, ControlOK
<1>2. /\ pnl \in Int /\ reason \in CloseReason \ {"NONE"} /\ reason # "MANUAL"
      /\ Settle(id, orders[id], pnl, reason)
  <2>1. pnl \in Int
    BY <1>1, PnLType DEF Tick
  <2>2. reason \in {"MARGIN_CALL", "STOP_LOSS", "TAKE_PROFIT"}
    BY ReasonType DEF LiquidateOrder, Due
  <2>3. Settle(id, orders[id], pnl, reason)
    BY DEF LiquidateOrder
  <2> QED
    BY <2>1, <2>2, <2>3 DEF CloseReason
<1> HIDE DEF pnl, reason
<1>3. HeldOrders = orders /\ HeldOrders' = orders'
  BY <1>0 DEF HeldOrders
<1>4. /\ Money!PayOut(id) /\ id \in DOMAIN Account
      /\ Account[id].state = AccountOf(orders[id]).state /\ Account'[id].state = "auto"
  BY <1>0, <1>1, <1>2, <1>3, SettleIsPayOut
<1>5. AccountOf(orders[id]).state = "locked"
  BY <1>1 DEF AccountOf
<1> QED
  BY <1>4, <1>5 DEF Money!Pay, Account

\* The cleanup forgets accounts that were paid, but for one a close request holds.
LEMMA CleanupIsForget ==
  ASSUME MoneyInv, CleanupOldClosedOrders
  PROVE  Money!Forget
<1> DEFINE held == IF pc = "price" THEN {closing.orderId} ELSE {}
           ids == Removable \ held
<1>0. TypeOK /\ CloseCallFresh
  BY DEF MoneyInv, TradingInv
<1>1. /\ orders' = Without(orders, Removable) /\ UNCHANGED <<pc, closing>>
      /\ users' = [u \in DOMAIN users |-> [users[u] EXCEPT !.orders = @ \ Removable]]
  BY DEF CleanupOldClosedOrders
<1>2. Cash' = Cash
  BY <1>0, <1>1 DEF Cash, TypeOK, UserState
<1>3. Removable \subseteq DOMAIN orders
  BY DEF Removable
<1>4. HeldOrders' = Without(HeldOrders, ids)
  <2>1. CASE pc # "price"
    BY <1>1, <2>1 DEF HeldOrders
  <2>2. CASE pc = "price" /\ closing.orderId \in DOMAIN orders
    <3>1. orders[closing.orderId] = closing.order
      BY <1>0, <2>2 DEF CloseCallFresh
    <3> QED
      BY <1>1, <1>3, <2>2, <3>1 DEF HeldOrders, Put, Without
  <2>3. CASE pc = "price" /\ closing.orderId \notin DOMAIN orders
    BY <1>1, <1>3, <2>3 DEF HeldOrders, Put, Without
  <2> QED
    BY <2>1, <2>2, <2>3
<1>5. Account' = Without(Account, ids)
  BY <1>4 DEF Account, Without, AccountOf
<1>6. ids \in SUBSET {i \in DOMAIN Account : Account[i].state # "locked"}
  <2> SUFFICES ASSUME NEW i \in ids PROVE i \in DOMAIN Account /\ Account[i].state # "locked"
    OBVIOUS
  <2>1. i \in DOMAIN orders /\ orders[i].status \in {"CLOSED", "LIQUIDATED"}
    BY DEF Removable
  <2>2. i \in DOMAIN HeldOrders /\ HeldOrders[i] = orders[i]
    BY <2>1 DEF HeldOrders, Put
  <2> QED
    BY <2>1, <2>2 DEF Account, AccountOf
<1> QED
  BY <1>2, <1>5, <1>6 DEF Money!Forget, Money!Without, Without, Cash, Account

-----------------------------------------------------------------------------
\* The refinement

\* Trading moves money only as Ledger allows.  PayAgain is among what it allows:
\* that is the one way the code departs from paying each order once.
THEOREM TradingImplementsLedger == Spec => ImplementsLedger
<1>1. Init => MoneyInv /\ Money!LedgerInit
  <2> SUFFICES ASSUME Init PROVE MoneyInv /\ Money!LedgerInit
    OBVIOUS
  <2>1. MoneyInv
    BY TradingInvInit DEF Init, MoneyInv, HeldLiquidated
  <2>2. Cash = EmptyMap /\ Account = EmptyMap
    BY DEF Init, Cash, Account, HeldOrders, EmptyMap
  <2> QED
    BY <2>1, <2>2 DEF Money!LedgerInit, Money!EmptyMap, EmptyMap, Cash, Account
<1>2. MoneyInv /\ [Next]_vars => MoneyInv'
  BY TradingInvNext, HeldLiquidatedNext DEF MoneyInv
<1>3. MoneyInv /\ [Next]_vars => [Money!LedgerNext]_<<Cash, Account>>
  <2> SUFFICES ASSUME MoneyInv, [Next]_vars
               PROVE  Money!LedgerNext \/ UNCHANGED <<Cash, Account>>
    OBVIOUS
  <2>0. TradingInv /\ TypeOK
    BY DEF MoneyInv, TradingInv
  <2>1. ASSUME NEW request \in Requests, HandleRequest(request)
        PROVE  Money!LedgerNext \/ UNCHANGED <<Cash, Account>>
    <3>1. pc = "next" /\ request.userId \in Users
      BY <2>1, RequestFields DEF HandleRequest
    <3>2. CASE HandleRegisterUser(request)
      BY <2>0, <3>1, <3>2, RegisterIsGrant DEF Money!LedgerNext
    <3>3. CASE HandlePlaceOrder(request)
      <4>1. CASE nextOrderId <= MaxOrders
        <5>1. PICK id \in OrderIds : id = nextOrderId
          BY <2>0, <4>1, TradingAssumption DEF TypeOK, OrderIds
        <5> QED
          BY <2>0, <3>1, <3>3, <5>1, PlaceIsLock DEF Money!LedgerNext
      <4>2. CASE ~(nextOrderId <= MaxOrders)
        <5>1. UNCHANGED <<users, orders>> /\ pc' = "respond"
          BY <3>3, <4>2 DEF HandlePlaceOrder, Refuse, Respond
        <5> QED
          BY <3>1, <5>1, SameMoney DEF HeldOrders
      <4> QED
        BY <4>1, <4>2
    <3> QED
      BY <2>1, <3>1, <3>2, <3>3, QueryIsStutter DEF HandleRequest
  <2>2. CASE CloseAtPrice
    <3>1. PICK id \in OrderIds : id = closing.orderId
      BY <2>0, <2>2 DEF TradingInv, ControlOK, CloseCall, CloseAtPrice
    <3> QED
      BY <2>2, <3>1, CloseIsPay DEF Money!LedgerNext
  <2>3. ASSUME NEW id \in scan, LiquidateOrder(id) PROVE Money!LedgerNext
    <3>1. id \in OrderIds
      BY <2>0 DEF TypeOK
    <3> QED
      BY <2>0, <2>3, <3>1, LiquidateIsPay DEF Money!LedgerNext
  <2>4. CASE CleanupOldClosedOrders
    BY <2>4, CleanupIsForget DEF Money!LedgerNext
  <2>5. ASSUME \/ PublishResponse
               \/ \E id \in scan : SkipOrder(id) \/ PublishLiquidation(id)
               \/ \E asset \in Assets, p \in TradePrices :
                    ProcessMarketUpdate(asset, PollerQuote(p))
        PROVE  UNCHANGED <<Cash, Account>>
    <3>1. UNCHANGED <<users, orders>> /\ pc # "price" /\ pc' # "price"
      BY <2>5 DEF PublishResponse, SkipOrder, PublishLiquidation, AfterPass,
         ProcessMarketUpdate
    <3> QED
      BY <3>1, SameMoney DEF HeldOrders
  <2>6. CASE UNCHANGED <<users, orders, pc, closing>>
    BY <2>6, SameMoney DEF HeldOrders
  <2> QED
    BY <2>1, <2>2, <2>3, <2>4, <2>5, <2>6
       DEF Next, TakeMessage, ConsumerStep, Timer, AgeOrder, vars
<1> QED
  BY <1>1, <1>2, <1>3, PTL
     DEF Spec, ImplementsLedger, Money!LedgerSpec, Money!ledgerVars, Cash, Account

-----------------------------------------------------------------------------
\* Rounding

\* Division rounds down by less than one.
LEMMA FloorBounds ==
  ASSUME NEW a \in Int, NEW b \in Nat \ {0}
  PROVE  /\ a \div b \in Int
         /\ b * (a \div b) <= a
         /\ a < b * (a \div b) + b
OBVIOUS

\* The quotient is the largest integer whose multiple does not exceed a.
LEMMA FloorIsLargest ==
  ASSUME NEW a \in Int, NEW b \in Nat \ {0}, NEW q \in Int
  PROVE  /\ b * q <= a => q <= a \div b
         /\ a < b * q => a \div b < q
<1>1. /\ a \div b \in Int
      /\ b * (a \div b) <= a /\ a < b * (a \div b) + b
  BY FloorBounds
<1>2. ASSUME b * q <= a PROVE q <= a \div b
  <2>1. ASSUME a \div b + 1 <= q PROVE FALSE
    <3>1. b * (a \div b + 1) <= b * q
      BY <1>1, <2>1
    <3> QED
      BY <1>1, <1>2, <3>1
  <2> QED
    BY <1>1, <2>1
<1>3. ASSUME a < b * q, q <= a \div b PROVE FALSE
  <2>1. b * q <= b * (a \div b)
    BY <1>1, <1>3
  <2> QED
    BY <1>1, <1>3, <2>1
<1> QED
  BY <1>1, <1>2, <1>3

\* The quotient of natural numbers is one.
LEMMA FloorNatural ==
  ASSUME NEW a \in Nat, NEW b \in Nat \ {0}
  PROVE  a \div b \in Nat
OBVIOUS

\* Truncation toward zero keeps the sign of a loss.
LEMMA TruncDivSign ==
  ASSUME NEW a \in Int, NEW b \in Nat \ {0}, a <= 0
  PROVE  TruncDiv(a, b) <= 0
<1>1. PICK n \in Nat : n = -a
  OBVIOUS
<1>2. n \div b \in Nat
  BY FloorNatural
<1>3. 0 \div b = 0
  OBVIOUS
<1> QED
  BY <1>1, <1>2, <1>3 DEF TruncDiv

\* A conversion to a decimal and back is the identity.
LEMMA ToIntegerExact ==
  ASSUME NEW n \in Int
  PROVE  ToInteger(ToDecimal(n)) = n
<1> DEFINE S == PRICE_SCALE
           a == 2 * n * S + S
           b == 2 * S
<1>1. S \in Nat \ {0} /\ a \in Int /\ b \in Nat \ {0}
  BY PriceScaleAssumption
<1>2. ToInteger(ToDecimal(n)) = a \div b
  BY DEF ToInteger, ToDecimal
<1>3. b * n <= a /\ a < b * (n + 1)
  BY <1>1
<1> HIDE DEF a, b
<1>4. n <= a \div b /\ a \div b < n + 1 /\ a \div b \in Int
  BY <1>1, <1>3, FloorIsLargest, FloorBounds
<1> QED
  BY <1>2, <1>4

\* How far the price is from the entry, for one side or the other.
MoveAgainst(entry, exit, side) == IF side = "LONG" THEN entry - exit ELSE exit - entry

\* The scaled fraction is 90 / (100 * leverage), rounded down by less than one.
LEMMA FractionBounds ==
  ASSUME NEW leverage \in 1 .. 100
  PROVE  LET f == LiquidationFraction(leverage)
         IN  /\ f \in 0 .. PRICE_SCALE
             /\ 10 * leverage * f <= 9 * PRICE_SCALE
             /\ 9 * PRICE_SCALE < 10 * leverage * f + 10 * leverage
<1> DEFINE a == 90 * PRICE_SCALE
           b == 100 * leverage
           f == a \div b
<1>1. a \in Nat /\ b \in Nat \ {0} /\ PRICE_SCALE \in Nat \ {0}
  BY PriceScaleAssumption
<1>2. LiquidationFraction(leverage) = f
  BY <1>1 DEF LiquidationFraction, DEFAULT_LIQUIDATION_PERCENT, TruncDiv
<1>3. f \in Int /\ b * f <= a /\ a < b * f + b
  <2> HIDE DEF a, b
  <2> QED
    BY <1>1, FloorBounds
<1>4. 0 <= f
  <2>1. b * 0 <= a
    BY <1>1
  <2> HIDE DEF a, b
  <2> QED
    BY <1>1, <2>1, FloorIsLargest
<1>5. f <= PRICE_SCALE
  <2>1. a < b * (PRICE_SCALE + 1)
    BY <1>1
  <2> HIDE DEF a, b
  <2>2. f < PRICE_SCALE + 1
    BY <1>1, <2>1, FloorIsLargest
  <2> QED
    BY <1>1, <1>3, <2>2
<1> HIDE DEF f
<1>6. /\ 10 * leverage * f <= 9 * PRICE_SCALE
      /\ 9 * PRICE_SCALE < 10 * leverage * f + 10 * leverage
  BY <1>1, <1>3
<1> QED
  BY <1>1, <1>2, <1>3, <1>4, <1>5, <1>6

\* Where the liquidation price lies: entry * (1 -+ fraction), rounded down.
LEMMA CallPriceBounds ==
  ASSUME NEW entry \in Nat \ {0}, NEW leverage \in 1 .. 100, NEW side \in OrderType,
         NEW call, call = CalculateLiquidationPrice(entry, leverage, side),
         NEW f, f = LiquidationFraction(leverage)
  PROVE  /\ call \in Int
         /\ side = "LONG" =>
              /\ PRICE_SCALE * (entry - call) >= entry * f
              /\ PRICE_SCALE * (entry - call - 1) < entry * f
         /\ side = "SHORT" =>
              /\ PRICE_SCALE * (call - entry) <= entry * f
              /\ PRICE_SCALE * (call + 1 - entry) > entry * f
<1> DEFINE k == IF side = "LONG" THEN PRICE_SCALE - f ELSE PRICE_SCALE + f
           a == entry * k
<1>1. f \in 0 .. PRICE_SCALE /\ PRICE_SCALE \in Nat \ {0}
  BY FractionBounds, PriceScaleAssumption
<1>2. k \in Nat
  BY <1>1
<1>3. a \in Nat
  <2> HIDE DEF k
  <2> QED
    BY <1>2
<1>4. call = a \div PRICE_SCALE
  <2>1. call = TruncDiv(entry * k, PRICE_SCALE)
    BY DEF CalculateLiquidationPrice, CalculateLongLiquidationPrice,
       CalculateShortLiquidationPrice, Multiply, OrderType
  <2> HIDE DEF k
  <2> QED
    BY <1>1, <1>3, <2>1 DEF TruncDiv
<1>5. /\ call \in Int
      /\ PRICE_SCALE * call <= a /\ a < PRICE_SCALE * call + PRICE_SCALE
  <2> HIDE DEF a
  <2> QED
    BY <1>1, <1>3, <1>4, FloorBounds
<1>6. CASE side = "LONG"
  <2>1. a = entry * PRICE_SCALE - entry * f
    BY <1>1, <1>6
  <2> HIDE DEF a, k
  <2> QED
    BY <1>1, <1>5, <1>6, <2>1
<1>7. CASE side = "SHORT"
  <2>1. a = entry * PRICE_SCALE + entry * f
    BY <1>1, <1>7
  <2> HIDE DEF a, k
  <2> QED
    BY <1>1, <1>5, <1>7, <2>1
<1> QED
  BY <1>5, <1>6, <1>7 DEF OrderType

\* A price that calls no margin has cost less than 90% of the exact margin.
LEMMA NoCallBoundsLoss ==
  ASSUME NEW entry \in Nat \ {0}, NEW leverage \in 1 .. 100, NEW side \in OrderType,
         NEW exit \in Int,
         ~ShouldLiquidate(exit, CalculateLiquidationPrice(entry, leverage, side), side)
  PROVE  10 * leverage * MoveAgainst(entry, exit, side) < 9 * entry
<1> DEFINE call == CalculateLiquidationPrice(entry, leverage, side)
           f == LiquidationFraction(leverage)
           move == MoveAgainst(entry, exit, side)
<1>0. call \in Int
  BY CallPriceBounds
<1>1. /\ f \in 0 .. PRICE_SCALE /\ PRICE_SCALE \in Nat \ {0}
      /\ 10 * leverage * f <= 9 * PRICE_SCALE
  BY FractionBounds, PriceScaleAssumption
<1>2. move \in Int /\ PRICE_SCALE * move < entry * f
  <2>1. CASE side = "LONG"
    <3>1. call < exit /\ move = entry - exit
      BY <1>0, <2>1 DEF ShouldLiquidate, MoveAgainst, OrderType
    <3>2. call \in Int /\ PRICE_SCALE * (entry - call - 1) < entry * f
      BY <2>1, CallPriceBounds
    <3> HIDE DEF call, f, move
    <3>3. move <= entry - call - 1 /\ move \in Int /\ entry - call - 1 \in Int
      BY <3>1, <3>2
    <3>4. PRICE_SCALE * move <= PRICE_SCALE * (entry - call - 1)
      BY <1>1, <3>3
    <3> QED
      BY <1>1, <3>2, <3>3, <3>4
  <2>2. CASE side = "SHORT"
    <3>1. exit < call /\ move = exit - entry
      BY <1>0, <2>2 DEF ShouldLiquidate, MoveAgainst, OrderType
    <3>2. call \in Int /\ PRICE_SCALE * (call - entry) <= entry * f
      BY <2>2, CallPriceBounds
    <3> HIDE DEF call, f, move
    <3>3. move < call - entry /\ move \in Int /\ call - entry \in Int
      BY <3>1, <3>2
    <3>4. PRICE_SCALE * move < PRICE_SCALE * (call - entry)
      BY <1>1, <3>3
    <3> QED
      BY <1>1, <3>2, <3>3, <3>4
  <2> QED
    BY <2>1, <2>2 DEF OrderType
<1> HIDE DEF f, move
<1>3. 10 * leverage * (PRICE_SCALE * move) < 10 * leverage * (entry * f)
  BY <1>1, <1>2
<1>4. 10 * leverage * (entry * f) <= entry * (9 * PRICE_SCALE)
  <2>1. entry * (10 * leverage * f) <= entry * (9 * PRICE_SCALE)
    BY <1>1
  <2> QED
    BY <1>1, <2>1
<1>5. PRICE_SCALE * (10 * leverage * move) < PRICE_SCALE * (9 * entry)
  BY <1>1, <1>2, <1>3, <1>4
<1>6. 10 * leverage * move < 9 * entry
  <2>1. 10 * leverage * move \in Int /\ 9 * entry \in Int
    BY <1>2
  <2>2. \A x, y \in Int : PRICE_SCALE * x < PRICE_SCALE * y => x < y
    BY <1>1
  <2> QED
    BY <1>5, <2>1, <2>2
<1> QED
  BY <1>6 DEF move

\* A price that calls the margin has cost 90% of it, but for the roundings.
LEMMA CallNeedsLoss ==
  ASSUME NEW entry \in Nat \ {0}, NEW leverage \in 1 .. 100, NEW side \in OrderType,
         NEW exit \in Int,
         ShouldLiquidate(exit, CalculateLiquidationPrice(entry, leverage, side), side)
  PROVE  10 * leverage * PRICE_SCALE * (MoveAgainst(entry, exit, side) + 1)
           > entry * (9 * PRICE_SCALE - 10 * leverage)
<1> DEFINE call == CalculateLiquidationPrice(entry, leverage, side)
           f == LiquidationFraction(leverage)
           move == MoveAgainst(entry, exit, side)
<1>1. /\ f \in 0 .. PRICE_SCALE /\ PRICE_SCALE \in Nat \ {0}
      /\ 9 * PRICE_SCALE < 10 * leverage * f + 10 * leverage
  BY FractionBounds, PriceScaleAssumption
<1>2. move \in Int /\ PRICE_SCALE * (move + 1) > entry * f
  <2>1. CASE side = "LONG"
    <3>1. exit <= call /\ move = entry - exit
      BY <2>1 DEF ShouldLiquidate, MoveAgainst, OrderType
    <3>2. call \in Int /\ PRICE_SCALE * (entry - call) >= entry * f
      BY <2>1, CallPriceBounds
    <3> HIDE DEF call, f, move
    <3>3. move >= entry - call /\ move \in Int /\ entry - call \in Int
      BY <3>1, <3>2
    <3>4. PRICE_SCALE * move >= PRICE_SCALE * (entry - call)
      BY <1>1, <3>3
    <3> QED
      BY <1>1, <3>2, <3>3, <3>4
  <2>2. CASE side = "SHORT"
    <3>1. exit >= call /\ move = exit - entry
      BY <2>2 DEF ShouldLiquidate, MoveAgainst, OrderType
    <3>2. call \in Int /\ PRICE_SCALE * (call + 1 - entry) > entry * f
      BY <2>2, CallPriceBounds
    <3> HIDE DEF call, f, move
    <3>3. move + 1 >= call + 1 - entry /\ move \in Int /\ call + 1 - entry \in Int
      BY <3>1, <3>2
    <3>4. PRICE_SCALE * (move + 1) >= PRICE_SCALE * (call + 1 - entry)
      BY <1>1, <3>3
    <3> QED
      BY <1>1, <3>2, <3>3, <3>4
  <2> QED
    BY <2>1, <2>2 DEF OrderType
<1> HIDE DEF f, move
<1>3. 10 * leverage * (PRICE_SCALE * (move + 1)) > 10 * leverage * (entry * f)
  BY <1>1, <1>2
<1>4. entry * (10 * leverage * f) > entry * (9 * PRICE_SCALE - 10 * leverage)
  BY <1>1
<1>5. 10 * leverage * (entry * f) = entry * (10 * leverage * f)
  BY <1>1
<1>6. 10 * leverage * PRICE_SCALE * (move + 1)
        = 10 * leverage * (PRICE_SCALE * (move + 1))
  BY <1>1, <1>2
<1>7. 10 * leverage * PRICE_SCALE * (move + 1)
        > entry * (9 * PRICE_SCALE - 10 * leverage)
  BY <1>1, <1>2, <1>3, <1>4, <1>5, <1>6
<1> QED
  BY <1>7 DEF move

\* The margin of a position, rounded down twice, covers what it loses until its
\* margin call, rounded down once.
LEMMA MarginCoversLoss ==
  ASSUME NEW entry \in Nat \ {0}, NEW leverage \in 1 .. 100, NEW side \in OrderType,
         NEW exit \in Int, NEW qty \in Nat \ {0},
         10 * leverage * MoveAgainst(entry, exit, side) < 9 * entry
  PROVE  CalculateRequiredMargin(qty, entry, leverage)
           + CalculateCurrentPnL(exit, entry, qty, side) >= 0
<1> DEFINE S == PRICE_SCALE
           move == MoveAgainst(entry, exit, side)
           exact == qty * entry
           value == exact \div S
           margin == (value * S) \div (leverage * S)
           lost == (move * qty) \div S
<1>1. S \in Nat \ {0} /\ move \in Int /\ qty * entry \in Nat
      /\ move * qty \in Int /\ leverage * S \in Nat \ {0}
  BY PriceScaleAssumption DEF MoveAgainst
<1>2. value \in Int /\ S * value <= qty * entry /\ qty * entry < S * value + S
      /\ lost \in Int /\ S * lost <= move * qty
  <2> HIDE DEF S, move
  <2> QED
    BY <1>1, FloorBounds
<1>3. 0 <= value
  <2>1. S * 0 <= qty * entry
    BY <1>1
  <2>2. exact \in Int /\ S * 0 <= exact
    BY <1>1, <2>1
  <2> HIDE DEF S, exact
  <2> QED
    BY <1>1, <2>2, FloorIsLargest
<1>4. value * S \in Nat
  <2> HIDE DEF value, S
  <2> QED
    BY <1>1, <1>2, <1>3
<1>5. CalculateRequiredMargin(qty, entry, leverage) = margin
  <2>1. Multiply(qty, entry) = value
    BY <1>1 DEF Multiply, TruncDiv
  <2>2. LeverageInt(leverage) = leverage * S
    BY LeverageIntExact
  <2> HIDE DEF value, S
  <2> QED
    BY <1>1, <1>4, <2>1, <2>2 DEF CalculateRequiredMargin, Divide, TruncDiv, S
<1>6. margin \in Int /\ 0 <= margin
  <2>1. leverage * S * 0 <= value * S
    BY <1>1, <1>4
  <2> HIDE DEF value, S
  <2> QED
    BY <1>1, <1>4, <2>1, FloorBounds, FloorIsLargest
<1>7. CalculateCurrentPnL(exit, entry, qty, side) = TruncDiv(-(move * qty), S)
  <2>1. CalculateCurrentPnL(exit, entry, qty, side) = Multiply(-move, qty)
    BY DEF CalculateCurrentPnL, MoveAgainst
  <2>2. (-move) * qty = -(move * qty)
    BY <1>1
  <2> HIDE DEF move
  <2> QED
    BY <2>1, <2>2 DEF Multiply
<1>8. CASE move <= 0
  <2>1. -(move * qty) >= 0 /\ -(move * qty) \in Int
    <3> HIDE DEF move
    <3> QED
      BY <1>1, <1>8
  <2>2. S * 0 <= -(move * qty)
    BY <1>1, <2>1
  <2>3. TruncDiv(-(move * qty), S) >= 0
    <3> HIDE DEF move, S
    <3> QED
      BY <1>1, <2>1, <2>2, FloorIsLargest DEF TruncDiv
  <2>4. TruncDiv(-(move * qty), S) \in Int
    BY <1>1, <2>1, TruncDivType
  <2> HIDE DEF margin, move, S
  <2> QED
    BY <1>5, <1>6, <1>7, <2>3, <2>4
<1>9. CASE move > 0
  <2>1. TruncDiv(-(move * qty), S) = -lost
    <3>1. ~(-(move * qty) >= 0) /\ -(-(move * qty)) = move * qty
      <4> HIDE DEF move
      <4> QED
        BY <1>1, <1>9
    <3> HIDE DEF move, S
    <3> QED
      BY <3>1 DEF TruncDiv
  <2>2. leverage * lost <= value
    <3>1. 10 * leverage * (move * qty) <= 10 * (qty * entry)
      <4>1. 10 * leverage * move <= 10 * entry
        BY <1>1
      <4>2. (10 * leverage * move) * qty <= (10 * entry) * qty
        <5> HIDE DEF move
        <5> QED
          BY <1>1, <4>1
      <4> HIDE DEF move
      <4> QED
        BY <1>1, <4>2
    <3>2. leverage * (S * lost) <= leverage * (move * qty)
      <4> HIDE DEF lost, move, S
      <4> QED
        BY <1>1, <1>2
    <3>3. leverage * (move * qty) <= qty * entry
      <4> HIDE DEF move
      <4> QED
        BY <1>1, <3>1
    <3>4. S * (leverage * lost) <= qty * entry /\ leverage * lost \in Int
      <4> HIDE DEF lost, move, S
      <4> QED
        BY <1>1, <1>2, <3>2, <3>3
    <3>5. exact \in Int /\ S * (leverage * lost) <= exact
      BY <1>1, <3>4
    <3> HIDE DEF lost, S, exact
    <3> QED
      BY <1>1, <3>4, <3>5, FloorIsLargest
  <2>3. leverage * S * lost <= value * S
    <3>1. (leverage * lost) * S <= value * S
      <4> HIDE DEF lost, value, S
      <4> QED
        BY <1>1, <1>2, <2>2
    <3> HIDE DEF lost, value, S
    <3> QED
      BY <1>1, <1>2, <3>1
  <2>4. lost <= margin
    <3> HIDE DEF lost, value, S
    <3> QED
      BY <1>1, <1>2, <1>4, <2>3, FloorIsLargest
  <2> HIDE DEF lost, margin, move, S
  <2> QED
    BY <1>2, <1>5, <1>6, <1>7, <2>1, <2>4
<1> QED
  BY <1>1, <1>8, <1>9

-----------------------------------------------------------------------------
\* What a step does to an order

\* An order that stays in memory stays as it is, or is closed: by its owner, or by
\* the pass that examines it, for the reason the tick gives.
LEMMA OrderFate ==
  ASSUME TradingInv, [Next]_vars, NEW id \in DOMAIN orders \cap DOMAIN orders'
  PROVE  \/ orders'[id] = orders[id]
         \/ \E pnl : orders'[id] = Closed(orders[id], pnl, "MANUAL")
         \/ \E pnl : /\ pc = "pass"
                     /\ orders'[id] = Closed(orders[id], pnl,
                                             ReasonAt(orders[id], tick.quote))
<1>1. ASSUME NEW request \in Requests, HandleRequest(request)
      PROVE  orders'[id] = orders[id]
  <2>1. \/ orders' = orders
        \/ orders' = Put(orders, nextOrderId,
                         NewOrder(request.userId, request.payload))
    BY <1>1 DEF HandleRequest, HandleRegisterUser, HandlePlaceOrder, HandleCloseOrder,
       HandleGetBalance, HandleGetOrder, HandleGetUserOrders, Refuse
  <2>2. nextOrderId \notin DOMAIN orders
    BY DEF TradingInv, TypeOK, IdsFresh
  <2> QED
    BY <2>1, <2>2 DEF Put
<1>2. CASE CloseAtPrice
  <2>1. \/ orders' = orders
        \/ \E pnl : Settle(closing.orderId, closing.order, pnl, "MANUAL")
    BY <1>2 DEF CloseAtPrice, store
  <2> QED
    BY <2>1 DEF Settle
<1>3. ASSUME NEW i \in scan, LiquidateOrder(i)
      PROVE  \/ orders'[id] = orders[id]
             \/ \E pnl : /\ pc = "pass"
                         /\ orders'[id] = Closed(orders[id], pnl,
                                                 ReasonAt(orders[id], tick.quote))
  <2>1. /\ pc = "pass"
        /\ \E pnl : Settle(i, orders[i], pnl, ReasonAt(orders[i], tick.quote))
    BY <1>3 DEF LiquidateOrder
  <2> QED
    BY <2>1 DEF Settle
<1>4. CASE CleanupOldClosedOrders
  BY <1>4 DEF CleanupOldClosedOrders, Without
<1>5. CASE UNCHANGED orders
  BY <1>5
<1> QED
  BY <1>1, <1>2, <1>3, <1>4, <1>5
     DEF Next, TakeMessage, ConsumerStep, Timer, ProcessMarketUpdate,
         PublishResponse, SkipOrder, PublishLiquidation, AgeOrder, vars

\* An order that is new in memory is one that was accepted at the quotes as they are.
LEMMA OrderBirth ==
  ASSUME TradingInv, [Next]_vars, NEW id \in DOMAIN orders' \ DOMAIN orders
  PROVE  \E userId \in Users, payload \in OrderPayloads :
           /\ PlaceError(userId, payload) = "NONE"
           /\ orders'[id] = NewOrder(userId, payload)
           /\ UNCHANGED market
           /\ pc' = "respond"
<1>1. \E request \in Requests :
        HandlePlaceOrder(request) /\ UNCHANGED market
  <2>1. ~ UNCHANGED orders
    OBVIOUS
  <2>2. ~ CloseAtPrice /\ \A i \in scan : ~ LiquidateOrder(i)
    BY DEF CloseAtPrice, LiquidateOrder, Settle, store
  <2>3. ~ CleanupOldClosedOrders
    BY DEF CleanupOldClosedOrders, Without
  <2> QED
    BY <2>1, <2>2, <2>3
       DEF Next, TakeMessage, ConsumerStep, Timer, ProcessMarketUpdate,
           PublishResponse, SkipOrder, PublishLiquidation, AgeOrder, vars,
           HandleRequest, HandleRegisterUser, HandleCloseOrder,
           HandleGetBalance, HandleGetOrder, HandleGetUserOrders, Refuse
<1>2. PICK request \in Requests : HandlePlaceOrder(request) /\ UNCHANGED market
  BY <1>1
<1> DEFINE order == NewOrder(request.userId, request.payload)
<1>3. /\ request.type = "PLACE_ORDER"
      /\ PlaceError(request.userId, request.payload) = "NONE"
      /\ orders' = Put(orders, nextOrderId, order) /\ pc' = "respond"
  BY <1>2 DEF HandlePlaceOrder, Refuse, Respond
<1>4. orders'[id] = order
  <2> HIDE DEF order
  <2> QED
    BY <1>3 DEF Put
<1> QED
  BY <1>2, <1>3, <1>4, RequestFields

-----------------------------------------------------------------------------
\* The terms of an order

\* What every order has had since it was accepted, and an open one no reason to close.
TermsOf(order) ==
  /\ order.leverage \in 1 .. 100
  /\ order.executionPriceInt \in Nat \ {0} /\ order.qtyInt \in Nat \ {0}
  /\ order.orderType \in OrderType
  /\ order.marginInt = CalculateRequiredMargin(order.qtyInt, order.executionPriceInt,
                                               order.leverage)
  /\ order.liquidationPriceInt =
       CalculateLiquidationPrice(order.executionPriceInt, order.leverage,
                                 order.orderType)
  /\ order.status = "OPEN" => order.closeReason = "NONE"

TermsInv == \A id \in DOMAIN orders : TermsOf(orders[id])

\* The prices a new order starts from are the two sides of the quote.
LEMMA NewOrderTerms ==
  ASSUME TypeOK, NEW userId \in Users, NEW payload \in OrderPayloads,
         PlaceError(userId, payload) = "NONE",
         NEW order, order = NewOrder(userId, payload)
  PROVE  /\ TermsOf(order) /\ order.status = "OPEN"
         /\ order.asset \in DOMAIN market
         /\ LET quote == market[order.asset]
            IN  /\ order.orderType = "LONG" =>
                     /\ order.executionPriceInt = quote.askPriceInt
                     /\ ExitPriceInt(order, quote) = quote.bidPriceInt
                /\ order.orderType = "SHORT" =>
                     /\ order.executionPriceInt = quote.bidPriceInt
                     /\ ExitPriceInt(order, quote) = quote.askPriceInt
<1>1. /\ payload.leverage \in 1 .. 100 /\ payload.asset \in DOMAIN market
      /\ ExecutionPriceInt(payload) > 0 /\ ToInteger(payload.qty) > 0
  BY DEF PlaceError, IsValidLeverage, IsValidPrice, IsValidQuantity
<1>2. payload.orderType \in OrderType /\ payload.qty \in Decimal
  BY TradingAssumption DEF Payload
<1>3. /\ market[payload.asset].askPriceInt \in Int
      /\ market[payload.asset].bidPriceInt \in Int
  BY <1>1 DEF TypeOK, Quote
<1>4. /\ payload.orderType = "LONG" =>
           ExecutionPriceInt(payload) = market[payload.asset].askPriceInt
      /\ payload.orderType = "SHORT" =>
           ExecutionPriceInt(payload) = market[payload.asset].bidPriceInt
      /\ ExecutionPriceInt(payload) \in Int
  BY <1>2, <1>3, ToIntegerExact DEF ExecutionPriceInt, OrderType
<1>5. ToInteger(payload.qty) \in Int
  BY <1>2, ToIntegerType
<1>6. /\ order.orderType = payload.orderType /\ order.asset = payload.asset
      /\ order.leverage = payload.leverage /\ order.status = "OPEN"
      /\ order.executionPriceInt = ExecutionPriceInt(payload)
      /\ order.qtyInt = ToInteger(payload.qty) /\ order.closeReason = "NONE"
      /\ order.marginInt = RequiredMarginInt(payload)
      /\ order.liquidationPriceInt =
           CalculateLiquidationPrice(ExecutionPriceInt(payload), payload.leverage,
                                     payload.orderType)
  BY DEF NewOrder
<1>7. TermsOf(order)
  BY <1>1, <1>2, <1>4, <1>5, <1>6 DEF TermsOf, RequiredMarginInt
<1>8. /\ order.orderType = "LONG" =>
           ExitPriceInt(order, market[order.asset]) = market[payload.asset].bidPriceInt
      /\ order.orderType = "SHORT" =>
           ExitPriceInt(order, market[order.asset]) = market[payload.asset].askPriceInt
  BY <1>3, <1>6, ToIntegerExact DEF ExitPriceInt
<1> QED
  BY <1>1, <1>4, <1>6, <1>7, <1>8

\* A step creates orders with their terms and leaves the terms of the others.
LEMMA TermsNext ==
  ASSUME TradingInv, TermsInv, [Next]_vars
  PROVE  TermsInv'
<1> SUFFICES ASSUME NEW id \in DOMAIN orders' PROVE TermsOf(orders'[id])
  BY DEF TermsInv, TermsOf
<1>1. CASE id \in DOMAIN orders
  <2>1. PICK pnl, reason :
          /\ orders'[id] \in {orders[id], Closed(orders[id], pnl, reason)}
    BY <1>1, OrderFate
  <2>2. TermsOf(orders[id]) /\ orders[id] \in Order
    BY <1>1 DEF TermsInv, TradingInv, TypeOK
  <2>3. TermsOf(Closed(orders[id], pnl, reason))
    BY <2>2 DEF TermsOf, Closed, Order
  <2> QED
    BY <2>1, <2>2, <2>3
<1>2. CASE id \notin DOMAIN orders
  BY <1>2, OrderBirth, NewOrderTerms DEF TradingInv
<1> QED
  BY <1>1, <1>2

\* Every order keeps the entry price, margin and liquidation price it was accepted
\* with, whatever ticks, closings and cleanups it goes through.
THEOREM TermsInvariant == Spec => []TermsInv
<1>1. Init => TermsInv
  BY DEF Init, TermsInv, EmptyMap
<1>2. TradingInv /\ TermsInv /\ [Next]_vars => TermsInv'
  BY TermsNext
<1> QED
  BY <1>1, <1>2, TradingInvariant, PTL DEF Spec

-----------------------------------------------------------------------------
\* The margin call

\* AdverseMove is the move of the exit price against the position.
LEMMA AdverseMoveIs ==
  ASSUME NEW order, NEW quote
  PROVE  AdverseMove(order, quote)
           = MoveAgainst(order.executionPriceInt, ExitPriceInt(order, quote),
                         order.orderType)
BY DEF AdverseMove, MoveAgainst

\* The exit price of an order at a quote is an integer.
LEMMA ExitPriceType ==
  ASSUME NEW order, NEW quote \in Quote
  PROVE  ExitPriceInt(order, quote) \in Int
BY ToIntegerExact DEF ExitPriceInt, Quote

\* The margin call never comes before 90% of the exact margin is lost, but for one
\* unit of the price and of the fraction: for every price, leverage and scale.
THEOREM MarginCallNeverEarly == Spec => MarginCallNotEarly
<1> DEFINE Loses(order, quote) ==
             10 * order.leverage * PRICE_SCALE * (AdverseMove(order, quote) + 1)
               > order.executionPriceInt * (9 * PRICE_SCALE - 10 * order.leverage)
           NotEarly ==
             \A id \in DOMAIN orders \cap DOMAIN orders' :
               (orders[id].status = "OPEN" /\ orders'[id].closeReason = "MARGIN_CALL")
                 => Loses(orders[id], tick.quote)
<1>1. ASSUME TradingInv, TermsInv, [Next]_vars PROVE NotEarly
  <2> SUFFICES ASSUME NEW id \in DOMAIN orders \cap DOMAIN orders',
                      orders[id].status = "OPEN",
                      orders'[id].closeReason = "MARGIN_CALL"
               PROVE  Loses(orders[id], tick.quote)
    OBVIOUS
  <2> HIDE DEF Loses
  <2>1. TermsOf(orders[id]) /\ orders[id] \in Order
    BY <1>1 DEF TermsInv, TradingInv, TypeOK
  <2>2. pc = "pass" /\ ReasonAt(orders[id], tick.quote) = "MARGIN_CALL"
    <3>1. \A pnl, reason :
            Closed(orders[id], pnl, reason).closeReason = reason
      BY <2>1 DEF Closed, Order
    <3>2. orders[id].closeReason = "NONE"
      BY <2>1 DEF TermsOf
    <3> QED
      BY <1>1, <3>1, <3>2, OrderFate
  <2>3. tick.quote \in Quote
    BY <1>1, <2>2 DEF TradingInv, ControlOK, Tick
  <2> DEFINE order == orders[id]
             exit == ExitPriceInt(order, tick.quote)
  <2>4. ShouldLiquidate(exit, order.liquidationPriceInt, order.orderType)
    BY <2>2 DEF ReasonAt, GetLiquidationReason
  <2>5. /\ order.liquidationPriceInt =
             CalculateLiquidationPrice(order.executionPriceInt, order.leverage,
                                       order.orderType)
        /\ order.leverage \in 1 .. 100 /\ order.orderType \in OrderType
        /\ order.executionPriceInt \in Nat \ {0}
    BY <2>1 DEF TermsOf
  <2>6. exit \in Int
    BY <2>3, ExitPriceType
  <2> HIDE DEF order, exit
  <2>7. 10 * order.leverage * PRICE_SCALE
            * (MoveAgainst(order.executionPriceInt, exit, order.orderType) + 1)
          > order.executionPriceInt * (9 * PRICE_SCALE - 10 * order.leverage)
    BY <2>4, <2>5, <2>6, CallNeedsLoss
  <2> QED
    BY <2>7, AdverseMoveIs DEF Loses, order, exit
<1>2. TradingInv /\ TermsInv /\ [Next]_vars => [NotEarly]_vars
  BY <1>1
<1>3. MarginCallNotEarly <=> [][NotEarly]_vars
  BY DEF MarginCallNotEarly
<1> HIDE DEF NotEarly
<1> QED
  BY <1>2, <1>3, TradingInvariant, TermsInvariant, PTL DEF Spec

-----------------------------------------------------------------------------
\* The spread

\* A quote whose spread leaves room before the call of a fresh order at leverage
\* 100: 0.2% and a unit are less than 0.9%, less what the fraction rounds off.
NarrowSpread(quote) ==
  LET spread == quote.askPriceInt - quote.bidPriceInt
  IN  /\ 0 < quote.bidPriceInt /\ 0 <= spread
      /\ 1000 * PRICE_SCALE * (spread + 1)
           <= quote.bidPriceInt * (9 * PRICE_SCALE - 1000)

NarrowSpreads == \A p \in TradePrices : NarrowSpread(PollerQuote(p))

\* Prices are not so small that a unit of the scale counts: with the source's scale
\* of 10^8, none is below 0.000004.
LargePrices ==
  /\ PRICE_SCALE >= 1000
  /\ \A p \in TradePrices : 400 * p.den <= p.num * PRICE_SCALE

\* Then the poller's 0.1% on either side, each rounded, leaves that room.
LEMMA PollerSpreadIsNarrow ==
  ASSUME LargePrices
  PROVE  NarrowSpreads
<1> SUFFICES ASSUME NEW p \in TradePrices PROVE NarrowSpread(PollerQuote(p))
  BY DEF NarrowSpreads
<1> DEFINE S == PRICE_SCALE
           n == p.num * S
           d == p.den
           bid == PollerQuote(p).bidPriceInt
           ask == PollerQuote(p).askPriceInt
<1>1. /\ p.num \in Int /\ d \in Nat \ {0} /\ S \in Nat \ {0}
      /\ n \in Int /\ 400 * d <= n /\ S >= 1000
  BY TradingAssumption, PriceScaleAssumption DEF Decimal, LargePrices
<1>2. /\ bid = (1998 * n + 1000 * d) \div (2000 * d)
      /\ ask = (2002 * n + 1000 * d) \div (2000 * d)
  <2>1. /\ 2 * (p.num * 999) * S + d * 1000 = 1998 * n + 1000 * d
        /\ 2 * (p.num * 1001) * S + d * 1000 = 2002 * n + 1000 * d
        /\ 2 * (d * 1000) = 2000 * d
    BY <1>1
  <2>2. /\ bid = (2 * (p.num * 999) * S + d * 1000) \div (2 * (d * 1000))
        /\ ask = (2 * (p.num * 1001) * S + d * 1000) \div (2 * (d * 1000))
    BY DEF PollerQuote, ToInteger
  <2> HIDE DEF bid, ask, n, S, d
  <2> QED
    BY <2>1, <2>2
<1> HIDE DEF S, n, d, bid, ask
<1>3. /\ 2000 * d \in Nat \ {0}
      /\ 1998 * n + 1000 * d \in Int /\ 2002 * n + 1000 * d \in Int
  BY <1>1
<1>4. /\ bid \in Int /\ ask \in Int
      /\ (2000 * d) * bid <= 1998 * n + 1000 * d
      /\ 1998 * n + 1000 * d < (2000 * d) * bid + 2000 * d
      /\ (2000 * d) * ask <= 2002 * n + 1000 * d
      /\ 2002 * n + 1000 * d < (2000 * d) * ask + 2000 * d
  <2> DEFINE x == 1998 * n + 1000 * d
             y == 2002 * n + 1000 * d
             c == 2000 * d
  <2>1. x \in Int /\ y \in Int /\ c \in Nat \ {0} /\ bid = x \div c /\ ask = y \div c
    BY <1>2, <1>3
  <2>2. /\ bid \in Int /\ ask \in Int
        /\ c * bid <= x /\ x < c * bid + c /\ c * ask <= y /\ y < c * ask + c
    <3> HIDE DEF x, y, c
    <3> QED
      BY <2>1, FloorBounds
  <2> QED
    BY <2>2
<1> DEFINE b == d * bid
           a == d * ask
<1>5. /\ b \in Int /\ a \in Int
      /\ 2000 * b <= 1998 * n + 1000 * d /\ 1998 * n + 1000 * d < 2000 * b + 2000 * d
      /\ 2000 * a <= 2002 * n + 1000 * d /\ 2002 * n + 1000 * d < 2000 * a + 2000 * d
  BY <1>1, <1>4
<1>6. 0 < b /\ -d < a - b /\ 1000 * (a - b + d) <= 8 * b
  <2> HIDE DEF a, b
  <2> QED
    BY <1>1, <1>5
<1>7. /\ d * 0 < d * bid /\ d * (-1) < d * (ask - bid)
      /\ d * (1000 * (ask - bid + 1)) <= d * (8 * bid)
  BY <1>1, <1>4, <1>6
<1>8. 0 < bid /\ -1 < ask - bid /\ 1000 * (ask - bid + 1) <= 8 * bid
  <2>1. \A x, y \in Int : (d * x < d * y => x < y) /\ (d * x <= d * y => x <= y)
    BY <1>1
  <2> DEFINE spread == ask - bid
             u == 1000 * (spread + 1)
             v == 8 * bid
  <2>2. spread \in Int /\ u \in Int /\ v \in Int
    BY <1>4
  <2>3. d * (-1) < d * spread /\ d * u <= d * v
    BY <1>7
  <2>4. 0 < bid
    BY <1>1, <1>4, <1>7
  <2>5. -1 < spread /\ u <= v
    <3> HIDE DEF spread, u, v
    <3> QED
      BY <1>1, <2>1, <2>2, <2>3
  <2> QED
    BY <2>4, <2>5
<1>9. 1000 * S * (ask - bid + 1) <= bid * (9 * S - 1000)
  <2>1. S * (1000 * (ask - bid + 1)) <= S * (8 * bid)
    BY <1>1, <1>4, <1>8
  <2>2. bid * (8 * S) <= bid * (9 * S - 1000)
    BY <1>1, <1>4, <1>8
  <2> QED
    BY <1>1, <1>4, <2>1, <2>2
<1> QED
  BY <1>4, <1>8, <1>9 DEF NarrowSpread, ask, bid, S

MarketInv == \A a \in DOMAIN market : NarrowSpread(market[a])

\* Only a tick changes the market, to a quote of the poller.
LEMMA MarketNext ==
  ASSUME NarrowSpreads, MarketInv, [Next]_vars
  PROVE  MarketInv'
<1>1. CASE UNCHANGED market
  BY <1>1 DEF MarketInv
<1>2. ASSUME NEW asset \in Assets, NEW p \in TradePrices,
             ProcessMarketUpdate(asset, PollerQuote(p))
      PROVE  MarketInv'
  <2> DEFINE quote == PollerQuote(p)
  <2>1. NarrowSpread(quote)
    BY DEF NarrowSpreads
  <2>2. market' = Put(market, asset, quote)
    BY <1>2 DEF ProcessMarketUpdate
  <2> HIDE DEF quote
  <2>3. \A a \in DOMAIN market' :
          market'[a] = quote \/ (a \in DOMAIN market /\ market'[a] = market[a])
    BY <2>2 DEF Put
  <2>4. \A a \in DOMAIN market' : NarrowSpread(market'[a])
    BY <2>1, <2>3 DEF MarketInv
  <2> QED
    BY <2>4 DEF MarketInv, NarrowSpread
<1> QED
  BY <1>1, <1>2
     DEF Next, TakeMessage, ConsumerStep, Timer, HandleRequest, CloseAtPrice,
         PublishResponse, SkipOrder, LiquidateOrder, PublishLiquidation, AgeOrder,
         CleanupOldClosedOrders, vars

\* A fresh order starts behind by the spread, and no more.
LEMMA FreshOrder ==
  ASSUME TypeOK, NEW order, NEW quote \in Quote, TermsOf(order), NarrowSpread(quote),
         order.orderType = "LONG" =>
           /\ order.executionPriceInt = quote.askPriceInt
           /\ ExitPriceInt(order, quote) = quote.bidPriceInt,
         order.orderType = "SHORT" =>
           /\ order.executionPriceInt = quote.bidPriceInt
           /\ ExitPriceInt(order, quote) = quote.askPriceInt
  PROVE  /\ AdverseMove(order, quote) = quote.askPriceInt - quote.bidPriceInt
         /\ PnLIntAt(order, quote) <= 0
         /\ ~ShouldLiquidate(ExitPriceInt(order, quote), order.liquidationPriceInt,
                             order.orderType)
<1> DEFINE spread == quote.askPriceInt - quote.bidPriceInt
           bid == quote.bidPriceInt
           entry == order.executionPriceInt
           exit == ExitPriceInt(order, quote)
           leverage == order.leverage
           side == order.orderType
           S == PRICE_SCALE
<1>1. /\ bid \in Nat \ {0} /\ spread \in Nat /\ S \in Nat \ {0}
      /\ 1000 * S * (spread + 1) <= bid * (9 * S - 1000)
      /\ quote.askPriceInt \in Int
  BY PriceScaleAssumption DEF NarrowSpread, Quote
<1>2. /\ entry \in Nat \ {0} /\ leverage \in 1 .. 100 /\ side \in OrderType
      /\ order.qtyInt \in Nat \ {0}
      /\ order.liquidationPriceInt = CalculateLiquidationPrice(entry, leverage, side)
  BY DEF TermsOf
<1>3. bid <= entry /\ exit \in Int /\ AdverseMove(order, quote) = spread
      /\ MoveAgainst(entry, exit, side) = spread
  BY <1>1, <1>2 DEF AdverseMove, MoveAgainst, OrderType
<1>4. PnLIntAt(order, quote) <= 0
  <2> DEFINE qty == order.qtyInt
             x == (-spread) * qty
  <2>1. PnLIntAt(order, quote) = TruncDiv(x, S)
    <3>1. CalculateCurrentPnL(exit, entry, qty, side)
            = Multiply(-MoveAgainst(entry, exit, side), qty)
      BY <1>2, <1>3 DEF CalculateCurrentPnL, MoveAgainst
    <3> QED
      BY <1>3, <3>1 DEF PnLIntAt, Multiply
  <2>2. x \in Int /\ x <= 0
    <3> HIDE DEF spread
    <3> QED
      BY <1>1, <1>2
  <2>3. TruncDiv(x, S) <= 0
    <3> HIDE DEF x, S
    <3> QED
      BY <1>1, <2>2, TruncDivSign
  <2> QED
    BY <2>1, <2>3
<1> HIDE DEF spread, bid, entry, exit, leverage, side, S
<1>5. ASSUME ShouldLiquidate(exit, order.liquidationPriceInt, side) PROVE FALSE
  <2>1. 10 * leverage * S * (spread + 1) > entry * (9 * S - 10 * leverage)
    BY <1>2, <1>3, <1>5, CallNeedsLoss DEF S
  <2>2. 10 * leverage * (S * (spread + 1)) <= 1000 * (S * (spread + 1))
    <3> DEFINE z == S * (spread + 1)
    <3>1. z \in Nat /\ 10 * leverage <= 1000
      BY <1>1, <1>2
    <3> HIDE DEF z
    <3>2. (10 * leverage) * z <= 1000 * z
      BY <1>2, <3>1
    <3> QED
      BY <3>2 DEF z
  <2>3. 0 < bid * (9 * S - 1000)
    <3>1. 0 < 1000 * S * (spread + 1)
      BY <1>1
    <3> QED
      BY <1>1, <3>1
  <2>4. 0 < 9 * S - 1000
    BY <1>1, <2>3
  <2>5. bid * (9 * S - 1000) <= entry * (9 * S - 1000)
    BY <1>1, <1>2, <1>3, <2>4
  <2>6. entry * (9 * S - 1000) <= entry * (9 * S - 10 * leverage)
    BY <1>1, <1>2
  <2>7. 10 * leverage * S * (spread + 1) = 10 * leverage * (S * (spread + 1))
        /\ 1000 * S * (spread + 1) = 1000 * (S * (spread + 1))
    BY <1>1, <1>2
  <2> QED
    BY <1>1, <1>2, <2>1, <2>2, <2>5, <2>6, <2>7
<1> QED
  BY <1>3, <1>4, <1>5 DEF spread, exit, side

\* Unless prices are tiny, a fresh order starts behind by the spread and is not called
\* at the quote it was opened at.
THEOREM FreshOrderAlwaysSurvives ==
  ASSUME LargePrices
  PROVE  Spec => FreshOrderSurvives
<1> DEFINE Survives(order, quote) ==
             /\ AdverseMove(order, quote) = quote.askPriceInt - quote.bidPriceInt
             /\ PnLIntAt(order, quote) <= 0
             /\ ReasonAt(order, quote) # "MARGIN_CALL"
           AllSurvive ==
             \A id \in DOMAIN orders' \ DOMAIN orders :
               Survives(orders'[id], market[orders'[id].asset])
<1>1. ASSUME TradingInv, MarketInv, [Next]_vars PROVE AllSurvive
  <2> SUFFICES ASSUME NEW id \in DOMAIN orders' \ DOMAIN orders
               PROVE  Survives(orders'[id], market[orders'[id].asset])
    OBVIOUS
  <2>1. PICK userId \in Users, payload \in OrderPayloads :
          /\ PlaceError(userId, payload) = "NONE"
          /\ orders'[id] = NewOrder(userId, payload)
    BY <1>1, OrderBirth
  <2> DEFINE order == NewOrder(userId, payload)
             quote == market[order.asset]
  <2>2. TypeOK
    BY <1>1 DEF TradingInv
  <2> HIDE DEF order, Survives
  <2>3. TermsOf(order) /\ order.asset \in DOMAIN market
    BY <2>1, <2>2, NewOrderTerms DEF order
  <2>4. NarrowSpread(quote) /\ quote \in Quote
    BY <1>1, <2>2, <2>3 DEF MarketInv, TypeOK
  <2>5. /\ order.orderType = "LONG" =>
             /\ order.executionPriceInt = quote.askPriceInt
             /\ ExitPriceInt(order, quote) = quote.bidPriceInt
        /\ order.orderType = "SHORT" =>
             /\ order.executionPriceInt = quote.bidPriceInt
             /\ ExitPriceInt(order, quote) = quote.askPriceInt
    BY <2>1, <2>2, NewOrderTerms DEF order
  <2>6. /\ AdverseMove(order, quote) = quote.askPriceInt - quote.bidPriceInt
        /\ PnLIntAt(order, quote) <= 0
        /\ ~ShouldLiquidate(ExitPriceInt(order, quote), order.liquidationPriceInt,
                            order.orderType)
    BY <2>2, <2>3, <2>4, <2>5, FreshOrder
  <2>7. Survives(order, quote)
    BY <2>6 DEF Survives, ReasonAt, GetLiquidationReason
  <2> QED
    BY <2>1, <2>7 DEF order
<1>2. Init => MarketInv
  BY DEF Init, MarketInv, EmptyMap
<1>3. TradingInv /\ MarketInv /\ [Next]_vars => MarketInv' /\ [AllSurvive]_vars
  BY <1>1, MarketNext, PollerSpreadIsNarrow
<1>4. FreshOrderSurvives <=> [][AllSurvive]_vars
  BY DEF FreshOrderSurvives
<1> HIDE DEF AllSurvive
<1> QED
  BY <1>2, <1>3, <1>4, TradingInvariant, PTL DEF Spec

-----------------------------------------------------------------------------
\* What an open position has lost

Bounded(order, quote) ==
  10 * order.leverage * AdverseMove(order, quote) < 9 * order.executionPriceInt

\* An order the tick has not called has lost less than 90% of its exact margin.
LEMMA NotDueIsBounded ==
  ASSUME NEW order, NEW quote \in Quote, TermsOf(order),
         ~ShouldLiquidate(ExitPriceInt(order, quote), order.liquidationPriceInt,
                          order.orderType)
  PROVE  Bounded(order, quote)
<1> DEFINE exit == ExitPriceInt(order, quote)
<1>1. exit \in Int
  BY ExitPriceType
<1>2. /\ order.liquidationPriceInt =
           CalculateLiquidationPrice(order.executionPriceInt, order.leverage,
                                     order.orderType)
      /\ order.leverage \in 1 .. 100 /\ order.orderType \in OrderType
      /\ order.executionPriceInt \in Nat \ {0}
  BY DEF TermsOf
<1> HIDE DEF exit
<1>3. 10 * order.leverage * MoveAgainst(order.executionPriceInt, exit, order.orderType)
        < 9 * order.executionPriceInt
  BY <1>1, <1>2, NoCallBoundsLoss DEF exit
<1> QED
  BY <1>3, AdverseMoveIs DEF Bounded, exit

\* The orders the pass in progress is about are bounded when it ends; the others of
\* the assets A are.
LossInvOn(A) ==
  /\ \A id \in DOMAIN orders : orders[id].asset \in DOMAIN market
  /\ InPass => tick.asset \in DOMAIN market /\ market[tick.asset] = tick.quote
  /\ \A id \in DOMAIN orders :
       (/\ orders[id].status = "OPEN" /\ orders[id].asset \in A
        /\ ~(InPass /\ orders[id].asset = tick.asset)) =>
         Bounded(orders[id], market[orders[id].asset])

LossInv == LossInvOn(Assets)

\* An open order was there before the step as it is now, or it is new.
LEMMA OpenBefore ==
  ASSUME TradingInv, [Next]_vars, NEW id \in DOMAIN orders \cap DOMAIN orders'
  PROVE  /\ orders'[id].asset = orders[id].asset
         /\ orders'[id].status = "OPEN" => orders'[id] = orders[id]
<1>1. orders[id] \in Order
  BY DEF TradingInv, TypeOK
<1>2. \A pnl, reason :
        /\ Closed(orders[id], pnl, reason).asset = orders[id].asset
        /\ Closed(orders[id], pnl, reason).status # "OPEN"
  BY <1>1 DEF Closed, Order
<1> QED
  BY <1>2, OrderFate

\* A new order is bounded at the quote it was accepted at.
LEMMA NewOrderBounded ==
  ASSUME TradingInv, MarketInv, [Next]_vars, NEW id \in DOMAIN orders' \ DOMAIN orders
  PROVE  /\ orders'[id].asset \in DOMAIN market
         /\ Bounded(orders'[id], market[orders'[id].asset])
<1>1. PICK userId \in Users, payload \in OrderPayloads :
        /\ PlaceError(userId, payload) = "NONE"
        /\ orders'[id] = NewOrder(userId, payload)
  BY OrderBirth
<1> DEFINE order == NewOrder(userId, payload)
           quote == market[order.asset]
<1>2. TypeOK
  BY DEF TradingInv
<1> HIDE DEF order
<1>3. TermsOf(order) /\ order.asset \in DOMAIN market
  BY <1>1, <1>2, NewOrderTerms DEF order
<1>4. NarrowSpread(quote) /\ quote \in Quote
  BY <1>2, <1>3 DEF MarketInv, TypeOK
<1>5. /\ order.orderType = "LONG" =>
           /\ order.executionPriceInt = quote.askPriceInt
           /\ ExitPriceInt(order, quote) = quote.bidPriceInt
      /\ order.orderType = "SHORT" =>
           /\ order.executionPriceInt = quote.bidPriceInt
           /\ ExitPriceInt(order, quote) = quote.askPriceInt
  BY <1>1, <1>2, NewOrderTerms DEF order
<1>6. Bounded(order, quote)
  BY <1>2, <1>3, <1>4, <1>5, FreshOrder, NotDueIsBounded
<1> QED
  BY <1>1, <1>3, <1>6 DEF order

\* A tick brings its asset in: the pass is about all its open orders.
LEMMA TickLoss ==
  ASSUME NEW A, LossInvOn(A), NEW asset \in Assets, NEW quote,
         ProcessMarketUpdate(asset, quote)
  PROVE  LossInvOn(A \cup {asset})'
<1>1. /\ ~InPass /\ UNCHANGED orders /\ market' = Put(market, asset, quote)
      /\ \/ InPass' /\ tick' = [asset |-> asset, quote |-> quote]
         \/ ~InPass' /\ GetOpenOrdersByAsset(asset) = {}
  BY DEF ProcessMarketUpdate, InPass
<1>2. /\ DOMAIN market' = DOMAIN market \cup {asset} /\ market'[asset] = quote
      /\ \A a \in DOMAIN market \ {asset} : market'[a] = market[a]
  BY <1>1 DEF Put
<1>3. ASSUME NEW id \in DOMAIN orders, orders[id].status = "OPEN",
             orders[id].asset \in A \cup {asset},
             ~(InPass' /\ orders[id].asset = tick'.asset)
      PROVE  Bounded(orders[id], market'[orders[id].asset])
  <2>1. orders[id].asset # asset
    BY <1>1, <1>3 DEF GetOpenOrdersByAsset
  <2>2. market'[orders[id].asset] = market[orders[id].asset]
    BY <1>2, <2>1 DEF LossInvOn
  <2> QED
    BY <1>1, <1>3, <2>1, <2>2 DEF LossInvOn
<1>4. InPass' => tick'.asset \in DOMAIN market' /\ market'[tick'.asset] = tick'.quote
  BY <1>1, <1>2
<1>5. \A id \in DOMAIN orders : orders[id].asset \in DOMAIN market'
  BY <1>2 DEF LossInvOn
<1>6. orders' = orders
  BY <1>1
<1> QED
  BY <1>3, <1>4, <1>5, <1>6 DEF LossInvOn, Bounded, AdverseMove, ExitPriceInt

\* A step at unchanged quotes leaves every open order bounded: one that was there is
\* as it was, the pass that ends has found it not due, a new one is bounded.
LEMMA StepLoss ==
  ASSUME TradingInv, TermsInv, NEW A, LossInvOn(A), UNCHANGED market, EndsClean,
         InPass' => InPass /\ tick' = tick,
         \A id \in DOMAIN orders \cap DOMAIN orders' :
           /\ orders'[id].asset = orders[id].asset
           /\ orders'[id].status = "OPEN" => orders'[id] = orders[id],
         \A id \in DOMAIN orders' \ DOMAIN orders :
           /\ orders'[id].asset \in DOMAIN market
           /\ Bounded(orders'[id], market[orders'[id].asset])
  PROVE  LossInvOn(A)'
<1>0. TypeOK /\ ControlOK
  BY DEF TradingInv
<1>1. PICK m : m = market /\ m = market'
  OBVIOUS
<1>2. ASSUME NEW id \in DOMAIN orders'
      PROVE  /\ orders'[id].asset \in DOMAIN m
             /\ (/\ orders'[id].status = "OPEN" /\ orders'[id].asset \in A
                 /\ ~(InPass' /\ orders'[id].asset = tick'.asset)) =>
                  Bounded(orders'[id], m[orders'[id].asset])
  <2>1. CASE id \notin DOMAIN orders
    BY <1>1, <2>1
  <2>2. CASE id \in DOMAIN orders
    <3>1. /\ orders'[id].asset = orders[id].asset
          /\ orders'[id].status = "OPEN" => orders'[id] = orders[id]
      BY <2>2
    <3>2. orders'[id].asset \in DOMAIN m
      BY <1>1, <2>2, <3>1 DEF LossInvOn
    <3>3. ASSUME orders'[id].status = "OPEN", orders'[id].asset \in A,
                 ~(InPass' /\ orders'[id].asset = tick'.asset)
          PROVE  Bounded(orders'[id], m[orders'[id].asset])
      <4>1. orders'[id] = orders[id]
        BY <3>1, <3>3
      <4>2. CASE ~(InPass /\ orders[id].asset = tick.asset)
        <5>1. Bounded(orders[id], m[orders[id].asset])
          BY <1>1, <2>2, <3>3, <4>1, <4>2 DEF LossInvOn
        <5> QED
          BY <4>1, <5>1
      <4>3. CASE InPass /\ orders[id].asset = tick.asset
        <5>1. ~InPass'
          BY <3>3, <4>1, <4>3
        <5>2. ReasonAt(orders'[id], tick.quote) = "NONE"
          BY <3>1, <3>3, <4>3, <5>1 DEF EndsClean
        <5>3. ~ShouldLiquidate(ExitPriceInt(orders[id], tick.quote),
                               orders[id].liquidationPriceInt, orders[id].orderType)
          BY <4>1, <5>2 DEF ReasonAt, GetLiquidationReason
        <5>4. tick.quote \in Quote /\ m[orders[id].asset] = tick.quote
          BY <1>0, <1>1, <4>3 DEF LossInvOn, ControlOK, InPass, Tick
        <5>5. Bounded(orders[id], tick.quote)
          BY <2>2, <5>3, <5>4, NotDueIsBounded DEF TermsInv
        <5> QED
          BY <4>1, <5>4, <5>5
      <4> QED
        BY <4>2, <4>3
    <3> QED
      BY <3>2, <3>3
  <2> QED
    BY <2>1, <2>2
<1>3. InPass' => tick'.asset \in DOMAIN m /\ m[tick'.asset] = tick'.quote
  BY <1>1 DEF LossInvOn
<1> QED
  BY <1>1, <1>2, <1>3 DEF LossInvOn, Bounded, AdverseMove, ExitPriceInt

\* What a step of Trading without a tick leaves alone.
LEMMA QuoteStays ==
  ASSUME TradingInv, [Next]_vars,
         ~ \E asset \in Assets, p \in TradePrices :
             ProcessMarketUpdate(asset, PollerQuote(p))
  PROVE  /\ UNCHANGED market
         /\ InPass' => InPass /\ tick' = tick
<1>0. TypeOK /\ ControlOK
  BY DEF TradingInv
<1>1. UNCHANGED market
  BY DEF Next, TakeMessage, ConsumerStep, Timer, HandleRequest, CloseAtPrice,
     PublishResponse, SkipOrder, LiquidateOrder, PublishLiquidation, AgeOrder,
     CleanupOldClosedOrders, vars
<1>2. InPass' => InPass /\ tick' = tick
  BY <1>0
     DEF Next, TakeMessage, HandleRequest, HandleRegisterUser,
         HandlePlaceOrder, HandleCloseOrder, HandleGetBalance, HandleGetOrder,
         HandleGetUserOrders, Refuse, Respond, ConsumerStep, CloseAtPrice,
         PublishResponse, SkipOrder, LiquidateOrder, PublishLiquidation, AfterPass,
         Timer, AgeOrder, CleanupOldClosedOrders, vars, InPass
<1> QED
  BY <1>1, <1>2

\* A step of Trading leaves every open order that is not in the pass bounded.
LEMMA LossNext ==
  ASSUME TradingInv, PassInv, TermsInv, MarketInv, NEW A, LossInvOn(A), [Next]_vars
  PROVE  LossInvOn(A)'
<1>1. ASSUME NEW asset \in Assets, NEW p \in TradePrices,
             ProcessMarketUpdate(asset, PollerQuote(p))
      PROVE  LossInvOn(A)'
  <2>1. LossInvOn(A \cup {asset})'
    BY <1>1, TickLoss
  <2> QED
    BY <2>1 DEF LossInvOn
<1>2. ASSUME ~ \E asset \in Assets, p \in TradePrices :
                 ProcessMarketUpdate(asset, PollerQuote(p))
      PROVE  LossInvOn(A)'
  <2>1. UNCHANGED market /\ (InPass' => InPass /\ tick' = tick)
    BY <1>2, QuoteStays
  <2>2. EndsClean
    BY PassNext
  <2>3. \A id \in DOMAIN orders \cap DOMAIN orders' :
          /\ orders'[id].asset = orders[id].asset
          /\ orders'[id].status = "OPEN" => orders'[id] = orders[id]
    BY OpenBefore
  <2>4. \A id \in DOMAIN orders' \ DOMAIN orders :
          /\ orders'[id].asset \in DOMAIN market
          /\ Bounded(orders'[id], market[orders'[id].asset])
    BY NewOrderBounded
  <2> QED
    BY <2>1, <2>2, <2>3, <2>4, StepLoss
<1> QED
  BY <1>1, <1>2

\* Between the passes every open order is bounded at the last quote of its asset.
LEMMA LossInvariant ==
  ASSUME LargePrices
  PROVE  Spec => [](TradingInv /\ TermsInv /\ LossInv)
<1> DEFINE J == PassInv /\ MarketInv /\ LossInv
<1>1. Init => J
  BY DEF Init, EmptyMap, PassInv, TickKept, ExaminedNotDue, PublishedNotOpen, InPass,
     MarketInv, LossInv, LossInvOn
<1>2. TradingInv /\ TermsInv /\ J /\ [Next]_vars => J'
  <2> SUFFICES ASSUME TradingInv, TermsInv, J, [Next]_vars PROVE J'
    OBVIOUS
  <2>1. PassInv'
    BY PassNext
  <2>2. MarketInv'
    BY MarketNext, PollerSpreadIsNarrow
  <2>3. LossInv'
    BY LossNext DEF LossInv
  <2> QED
    BY <2>1, <2>2, <2>3
<1>3. J => LossInv
  OBVIOUS
<1> HIDE DEF J
<1> QED
  BY <1>1, <1>2, <1>3, TradingInvariant, TermsInvariant, PTL DEF Spec

\* The margin call is never late: whatever the prices do between ticks, a position
\* left open has lost less than 90% of its exact margin at the last quote.
THEOREM OpenLossAlwaysBounded ==
  ASSUME LargePrices
  PROVE  Spec => []OpenLossBounded
<1>1. TradingInv /\ LossInv => OpenLossBounded
  BY DEF OpenLossBounded, Settled, LossInv, LossInvOn, InPass, Bounded, TradingInv, TypeOK
<1> QED
  BY <1>1, LossInvariant, PTL

\* The margin, as rounded, covers the loss of every position left open at the
\* last quote, with the loss as rounded.
THEOREM OpenPositionsSolvent ==
  ASSUME LargePrices
  PROVE  Spec => []OpenPositionSolvent
<1>1. TradingInv /\ TermsInv /\ LossInv => OpenPositionSolvent
  <2> SUFFICES ASSUME TradingInv, TermsInv, LossInv, Settled,
                      NEW id \in DOMAIN orders, orders[id].status = "OPEN"
               PROVE  orders[id].marginInt
                        + PnLIntAt(orders[id], market[orders[id].asset]) >= 0
    BY DEF OpenPositionSolvent
  <2> DEFINE order == orders[id]
             quote == market[order.asset]
             exit == ExitPriceInt(order, quote)
  <2>1. TermsOf(order) /\ Bounded(order, quote)
    BY DEF TermsInv, LossInv, LossInvOn, Settled, InPass, TradingInv, TypeOK
  <2>2. quote \in Quote
    BY DEF TradingInv, TypeOK, LossInv, LossInvOn
  <2>3. exit \in Int
    BY <2>2, ExitPriceType
  <2> HIDE DEF order, quote, exit
  <2>4. 10 * order.leverage * MoveAgainst(order.executionPriceInt, exit, order.orderType)
          < 9 * order.executionPriceInt
    BY <2>1, AdverseMoveIs DEF Bounded, exit
  <2>5. CalculateRequiredMargin(order.qtyInt, order.executionPriceInt, order.leverage)
          + CalculateCurrentPnL(exit, order.executionPriceInt, order.qtyInt,
                                order.orderType) >= 0
    BY <2>1, <2>3, <2>4, MarginCoversLoss DEF TermsOf
  <2> QED
    BY <2>1, <2>5 DEF TermsOf, PnLIntAt, order, quote, exit
<1> QED
  BY <1>1, LossInvariant, PTL

\* The margin call comes before 90% of the exact margin is lost, and before the
\* margin as rounded is.
THEOREM LossesAlwaysCovered ==
  ASSUME LargePrices
  PROVE  Spec => []LossesCovered
<1>1. OpenLossBounded /\ OpenPositionSolvent => LossesCovered
  BY DEF LossesCovered
<1> QED
  BY <1>1, OpenLossAlwaysBounded, OpenPositionsSolvent, PTL
=============================================================================
