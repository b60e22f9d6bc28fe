------------------------------- MODULE Trading -------------------------------
(***************************************************************************)
(* The trading core of the liquidation engine: StateManager (users and     *)
(* orders in memory), RequestHandler (one handler per request type) and    *)
(* PriceMonitor (the check of every open order on every price tick).       *)
(*                                                                         *)
(* The engine is one JavaScript thread.  Its consumer loop handles one     *)
(* message at a time; wherever it awaits Redis, timers run.  `pc` is where *)
(* the loop stands:                                                        *)
(*   "next"               about to take the next message                   *)
(*   "price"              a CLOSE_ORDER awaits the price of its asset      *)
(*   "respond"            the response to a request is being published     *)
(*   "pass"               processMarketUpdate is going through the orders  *)
(*   "publishLiquidation" the callback publishes an automatic closing      *)
(*                                                                         *)
(* Messages come from an arbitrary environment here; module Engine takes   *)
(* them from the Redis stream.                                             *)
(***************************************************************************)
EXTENDS PriceMath, Maps

CONSTANTS Users, Assets,
          OrderPayloads,   \* the payloads of PLACE_ORDER requests
          Requests,        \* the requests that users send
          TradePrices,     \* the prices at which Binance trades, decimals
          InitialBalance,  \* initialBalanceInt granted at sign-up
          MaxOrders,       \* bound: orders ever accepted
          None             \* the source's null and undefined

OrderIds == 1 .. MaxOrders

Payload == [orderType : OrderType, asset : Assets, leverage : Int,
            qty : Decimal, stopLoss : Decimal, takeProfit : Decimal]

OrderStatus == {"OPEN", "CLOSED", "LIQUIDATED"}

RequestSpace ==
       [type : {"REGISTER_USER", "GET_BALANCE"}, userId : Users]
  \cup [type : {"PLACE_ORDER"}, userId : Users, payload : OrderPayloads]
  \cup [type : {"CLOSE_ORDER", "GET_ORDER"}, userId : Users,
        orderId : OrderIds]
  \cup [type : {"GET_USER_ORDERS"}, userId : Users,
        status : OrderStatus \cup {None}]

ASSUME TradingAssumption ==
  /\ OrderPayloads \subseteq Payload
  /\ Requests \subseteq RequestSpace
  /\ TradePrices \subseteq Decimal
  /\ InitialBalance \in Int
  /\ MaxOrders \in Nat

\* An absent stopLoss or takeProfit.
Unset == [num |-> 0, den |-> 1]

VARIABLES
  users,        \* userId -> balance and ids of the orders in memory
  orders,       \* orderId -> order, the orders in memory
  market,       \* asset -> last quote stored in Redis under market:<asset>
  aged,         \* orders created more than the retention period ago
  nextOrderId,  \* identifiers are random in the source: never reused
  pc,
  closing,      \* the close request in flight, with the order it has read
  tick,         \* the price update being processed
  scan,         \* orders captured by processMarketUpdate, not yet examined
  response,     \* the response about to be published
  published     \* closings published to the response stream

store == <<users, orders>>
vars == <<users, orders, market, aged, nextOrderId, pc, closing, tick, scan,
          response, published>>

CloseReason == {"NONE", "MANUAL", "MARGIN_CALL", "STOP_LOSS", "TAKE_PROFIT"}
ErrorCode == {"NONE", "ALREADY_REGISTERED", "INVALID_LEVERAGE",
              "INVALID_QUANTITY", "PRICE_DATA_UNAVAILABLE", "INVALID_PRICE",
              "INSUFFICIENT_BALANCE", "ORDER_NOT_FOUND",
              "ORDER_ALREADY_CLOSED"}

UserState == [balanceInt : Int, orders : SUBSET OrderIds]

Order == [userId : Users, orderType : OrderType, asset : Assets,
          leverage : Int, marginInt : Int, executionPriceInt : Int,
          qtyInt : Int, stopLossInt : Int, takeProfitInt : Int,
          liquidationPriceInt : Int, status : OrderStatus,
          closeReason : CloseReason, finalPnLInt : Int]

\* What the response stream carries of a closed order.
Closing == [orderId : OrderIds, status : OrderStatus \ {"OPEN"},
            closeReason : CloseReason \ {"NONE"}, finalPnLInt : Int]

ASSUME NoneAssumption == None \notin Closing

Quote == [bidPriceInt : Int, askPriceInt : Int]

CloseCall == [userId : Users, orderId : OrderIds, order : Order]

Tick == [asset : Assets, quote : Quote]

\* `shown` are the orders a response carries, `closed` the closing it reports.
Response == [userId : Users, error : ErrorCode, balanceInt : Int,
             shown : SUBSET OrderIds, closed : Closing \cup {None}]

-----------------------------------------------------------------------------
\* StateManager

GetBalance(userId) ==
  IF userId \in DOMAIN users THEN users[userId].balanceInt ELSE 0

HasSufficientBalance(userId, requiredAmount) ==
  GetBalance(userId) >= requiredAmount

OrdersOf(userId) == IF userId \in DOMAIN users THEN users[userId].orders ELSE {}

\* Mutant: the balance update rebuilds the entry without its order list.
WithBalance_DropsOrders(userId, balanceInt) ==
  [balanceInt |-> balanceInt, orders |-> {}]

\* The user's entry after updateBalance: created when there is none.
WithBalance(userId, balanceInt) ==
  [balanceInt |-> balanceInt, orders |-> OrdersOf(userId)]

\* closeOrder: the order as the close leaves it.
Closed(order, pnl, reason) ==
  [order EXCEPT !.status = IF reason = "MANUAL" THEN "CLOSED" ELSE "LIQUIDATED",
                !.finalPnLInt = pnl,
                !.closeReason = reason]

GetUserOrders(userId, statusFilter) ==
  {id \in OrdersOf(userId) :
     /\ id \in DOMAIN orders
     /\ statusFilter \in {None, orders[id].status}}

GetOpenOrdersByAsset(asset) ==
  {id \in DOMAIN orders : orders[id].status = "OPEN" /\ orders[id].asset = asset}

\* Mutant: the margin is returned, the profit or loss is not settled.
Settle_MarginOnly(id, order, pnl, reason) ==
  /\ orders' = IF id \in DOMAIN orders
                 THEN [orders EXCEPT ![id] = Closed(@, pnl, reason)]
                 ELSE orders
  /\ users' = Put(users, order.userId,
                  WithBalance(order.userId,
                              GetBalance(order.userId) + order.marginInt))

\* Close the order and return margin and profit to its owner.  An order that
\* memory no longer holds is left alone, its owner is paid all the same.
Settle(id, order, pnl, reason) ==
  /\ orders' = IF id \in DOMAIN orders
                 THEN [orders EXCEPT ![id] = Closed(@, pnl, reason)]
                 ELSE orders
  /\ users' = Put(users, order.userId,
                  WithBalance(order.userId,
                              GetBalance(order.userId) + order.marginInt + pnl))

\* Mutant: the order is published as it was before it was closed.
ClosingOf_Stale(id, order) ==
  [orderId |-> id, status |-> "OPEN", closeReason |-> "NONE", finalPnLInt |-> 0]

ClosingOf(id, order) ==
  [orderId |-> id, status |-> order.status,
   closeReason |-> order.closeReason, finalPnLInt |-> order.finalPnLInt]

-----------------------------------------------------------------------------
\* RequestHandler

Respond(userId, error, balanceInt, shown, closed) ==
  /\ response' = [userId |-> userId, error |-> error, balanceInt |-> balanceInt,
                  shown |-> shown, closed |-> closed]
  /\ pc' = "respond"

Refuse(request, error) ==
  /\ Respond(request.userId, error, 0, {}, None)
  /\ UNCHANGED <<users, orders, aged, nextOrderId, closing>>

HandleRegisterUser(request) ==
  /\ request.type = "REGISTER_USER"
  /\ \/ /\ request.userId \in DOMAIN users
        /\ Refuse(request, "ALREADY_REGISTERED")
     \/ /\ request.userId \notin DOMAIN users
        /\ users' = Put(users, request.userId,
                        [balanceInt |-> InitialBalance, orders |-> {}])
        /\ Respond(request.userId, "NONE", InitialBalance, {}, None)
        /\ UNCHANGED <<orders, aged, nextOrderId, closing>>

\* Mutant: bid and ask are swapped on entry.
ExecutionPriceInt_Swapped(payload) ==
  LET quote == market[payload.asset]
  IN  ToInteger(ToDecimal(IF payload.orderType = "LONG"
                            THEN quote.bidPriceInt ELSE quote.askPriceInt))

ExecutionPriceInt(payload) ==
  LET quote == market[payload.asset]
  IN  ToInteger(ToDecimal(IF payload.orderType = "LONG"
                            THEN quote.askPriceInt ELSE quote.bidPriceInt))

RequiredMarginInt(payload) ==
  CalculateRequiredMargin(ToInteger(payload.qty), ExecutionPriceInt(payload),
                          payload.leverage)

\* The first check of handlePlaceOrder that fails, "NONE" if all pass.
PlaceError(userId, payload) ==
  IF ~IsValidLeverage(payload.leverage) THEN "INVALID_LEVERAGE"
  ELSE IF payload.qty.num <= 0 THEN "INVALID_QUANTITY"
  ELSE IF payload.asset \notin DOMAIN market THEN "PRICE_DATA_UNAVAILABLE"
  ELSE IF ~IsValidPrice(ExecutionPriceInt(payload)) THEN "INVALID_PRICE"
  ELSE IF ~IsValidQuantity(ToInteger(payload.qty)) THEN "INVALID_QUANTITY"
  ELSE IF ~HasSufficientBalance(userId, RequiredMarginInt(payload))
    THEN "INSUFFICIENT_BALANCE"
  ELSE "NONE"

NewOrder(userId, payload) ==
  [userId |-> userId,
   orderType |-> payload.orderType,
   asset |-> payload.asset,
   leverage |-> payload.leverage,
   marginInt |-> RequiredMarginInt(payload),
   executionPriceInt |-> ExecutionPriceInt(payload),
   qtyInt |-> ToInteger(payload.qty),
   stopLossInt |-> ToInteger(payload.stopLoss),
   takeProfitInt |-> ToInteger(payload.takeProfit),
   liquidationPriceInt |->
     CalculateLiquidationPrice(ExecutionPriceInt(payload), payload.leverage,
                               payload.orderType),
   status |-> "OPEN", closeReason |-> "NONE", finalPnLInt |-> 0]

\* The price is read across an await, but only its owner's balance and Redis
\* are read after it: one step.
HandlePlaceOrder(request) ==
  /\ request.type = "PLACE_ORDER"
  /\ LET userId == request.userId
         payload == request.payload
         error == PlaceError(userId, payload)
     IN  \/ /\ error # "NONE"
            /\ Refuse(request, error)
         \/ /\ error = "NONE"
            /\ nextOrderId <= MaxOrders
            /\ LET order == NewOrder(userId, payload)
                   balanceInt == GetBalance(userId) - order.marginInt
               IN  /\ orders' = Put(orders, nextOrderId, order)
                   /\ users' = Put(users, userId,
                                   [balanceInt |-> balanceInt,
                                    orders |-> OrdersOf(userId) \cup {nextOrderId}])
                   /\ Respond(userId, "NONE", balanceInt, {nextOrderId}, None)
            /\ nextOrderId' = nextOrderId + 1
            /\ UNCHANGED <<aged, closing>>

\* Mutant: the ownership check is missing.
Owns_Anyone(userId, orderId) == orderId \in DOMAIN orders

Owns(userId, orderId) ==
  orderId \in DOMAIN orders /\ orders[orderId].userId = userId

\* Mutant: an order already closed is not turned away.
CloseError_NoStatus(userId, orderId) ==
  IF ~Owns(userId, orderId) THEN "ORDER_NOT_FOUND" ELSE "NONE"

\* handleCloseOrder up to the await of the price.  Only a CLOSED order is
\* turned away: a LIQUIDATED one is not.
CloseError(userId, orderId) ==
  IF ~Owns(userId, orderId) THEN "ORDER_NOT_FOUND"
  ELSE IF orders[orderId].status = "CLOSED" THEN "ORDER_ALREADY_CLOSED"
  ELSE "NONE"

HandleCloseOrder(request) ==
  /\ request.type = "CLOSE_ORDER"
  /\ LET error == CloseError(request.userId, request.orderId)
     IN  \/ /\ error # "NONE"
            /\ Refuse(request, error)
         \/ /\ error = "NONE"
            /\ closing' = [userId |-> request.userId,
                           orderId |-> request.orderId,
                           order |-> orders[request.orderId]]
            /\ pc' = "price"
            /\ UNCHANGED <<users, orders, aged, nextOrderId, response>>

HandleGetBalance(request) ==
  /\ request.type = "GET_BALANCE"
  /\ Respond(request.userId, "NONE", GetBalance(request.userId), {}, None)
  /\ UNCHANGED <<users, orders, aged, nextOrderId, closing>>

HandleGetOrder(request) ==
  /\ request.type = "GET_ORDER"
  /\ \/ /\ ~Owns(request.userId, request.orderId)
        /\ Refuse(request, "ORDER_NOT_FOUND")
     \/ /\ Owns(request.userId, request.orderId)
        /\ Respond(request.userId, "NONE", GetBalance(request.userId),
                   {request.orderId}, None)
        /\ UNCHANGED <<users, orders, aged, nextOrderId, closing>>

HandleGetUserOrders(request) ==
  /\ request.type = "GET_USER_ORDERS"
  /\ Respond(request.userId, "NONE", GetBalance(request.userId),
             GetUserOrders(request.userId, request.status), None)
  /\ UNCHANGED <<users, orders, aged, nextOrderId, closing>>

HandleRequest(request) ==
  /\ pc = "next"
  /\ \/ HandleRegisterUser(request)
     \/ HandlePlaceOrder(request)
     \/ HandleCloseOrder(request)
     \/ HandleGetBalance(request)
     \/ HandleGetOrder(request)
     \/ HandleGetUserOrders(request)
  /\ UNCHANGED <<market, tick, scan, published>>

\* A LONG sells at the bid, a SHORT buys back at the ask.
ExitPriceInt(order, quote) ==
  ToInteger(ToDecimal(IF order.orderType = "LONG"
                        THEN quote.bidPriceInt ELSE quote.askPriceInt))

PnLIntAt(order, quote) ==
  CalculateCurrentPnL(ExitPriceInt(order, quote), order.executionPriceInt,
                      order.qtyInt, order.orderType)

\* handleCloseOrder after the await: it goes by the order it read before.
CloseAtPrice ==
  /\ pc = "price"
  /\ LET id == closing.orderId
         order == closing.order
     IN  IF order.asset \notin DOMAIN market
           THEN /\ Respond(closing.userId, "PRICE_DATA_UNAVAILABLE", 0, {}, None)
                /\ UNCHANGED store
           ELSE LET pnl == PnLIntAt(order, market[order.asset])
                    balanceInt == GetBalance(closing.userId)
                                    + order.marginInt + pnl
                    closed == IF id \in DOMAIN orders
                                THEN ClosingOf(id, Closed(order, pnl, "MANUAL"))
                                ELSE None
                IN  /\ Settle(id, order, pnl, "MANUAL")
                    /\ Respond(closing.userId, "NONE", balanceInt,
                               {id} \cap DOMAIN orders, closed)
  /\ closing' = None
  /\ UNCHANGED <<market, aged, nextOrderId, tick, scan, published>>

\* The consumer publishes the response; the database worker sees a closing.
PublishResponse ==
  /\ pc = "respond"
  /\ published' = published \cup ({response.closed} \ {None})
  /\ response' = None
  /\ pc' = "next"
  /\ UNCHANGED <<users, orders, market, aged, nextOrderId, closing, tick, scan>>

-----------------------------------------------------------------------------
\* PriceMonitor

\* The consumer stores the quote and calls processMarketUpdate, which captures
\* the open orders of the asset.
ProcessMarketUpdate(asset, quote) ==
  /\ pc = "next"
  /\ market' = Put(market, asset, quote)
  /\ scan' = GetOpenOrdersByAsset(asset)
  /\ \/ /\ GetOpenOrdersByAsset(asset) = {}
        /\ UNCHANGED <<tick, pc>>
     \/ /\ GetOpenOrdersByAsset(asset) # {}
        /\ tick' = [asset |-> asset, quote |-> quote]
        /\ pc' = "pass"
  /\ UNCHANGED <<users, orders, aged, nextOrderId, closing, response, published>>

ReasonAt(order, quote) ==
  GetLiquidationReason(ExitPriceInt(order, quote), order.liquidationPriceInt,
                       PnLIntAt(order, quote), order.stopLossInt,
                       order.takeProfitInt, order.orderType)

\* Orders are examined in the order they were placed.
IsFirst(id) == id \in scan /\ \A other \in scan : id <= other

\* Mutant: the loop returns after the first order.
AfterPass_Returns(rest) == scan' = {} /\ tick' = None /\ pc' = "next"

\* Mutant: the loop does not advance.
AfterPass_Stuck(rest) == UNCHANGED <<scan, tick>> /\ pc' = "pass"

AfterPass(rest) ==
  /\ scan' = rest
  /\ tick' = IF rest = {} THEN None ELSE tick
  /\ pc' = IF rest = {} THEN "next" ELSE "pass"

\* liquidateOrder returns early for an order that is gone or closed.
Due(id) ==
  /\ id \in DOMAIN orders
  /\ orders[id].status # "CLOSED"
  /\ ReasonAt(orders[id], tick.quote) # "NONE"

SkipOrder(id) ==
  /\ pc = "pass" /\ IsFirst(id) /\ ~Due(id)
  /\ AfterPass(scan \ {id})
  /\ UNCHANGED <<users, orders, market, aged, nextOrderId, closing, response,
                 published>>

LiquidateOrder(id) ==
  /\ pc = "pass" /\ IsFirst(id) /\ Due(id)
  /\ LET order == orders[id]
         pnl == PnLIntAt(order, tick.quote)
         reason == ReasonAt(order, tick.quote)
     IN  /\ Settle(id, order, pnl, reason)
         /\ response' =
              [userId |-> order.userId, error |-> "NONE",
               balanceInt |-> GetBalance(order.userId) + order.marginInt + pnl,
               shown |-> {id},
               closed |-> ClosingOf(id, Closed(order, pnl, reason))]
  /\ pc' = "publishLiquidation"
  /\ UNCHANGED <<market, aged, nextOrderId, closing, tick, scan, published>>

\* Mutant: the callback does not publish the closing.
PublishLiquidation_Silent(id) ==
  /\ pc = "publishLiquidation" /\ IsFirst(id)
  /\ response' = None
  /\ AfterPass(scan \ {id})
  /\ UNCHANGED <<users, orders, market, aged, nextOrderId, closing, published>>

PublishLiquidation(id) ==
  /\ pc = "publishLiquidation" /\ IsFirst(id)
  /\ published' = published \cup ({response.closed} \ {None})
  /\ response' = None
  /\ AfterPass(scan \ {id})
  /\ UNCHANGED <<users, orders, market, aged, nextOrderId, closing>>

-----------------------------------------------------------------------------
\* Timers

\* Time passes: an order reaches the retention age, counted from its creation.
AgeOrder(id) ==
  /\ id \in DOMAIN orders \ aged
  /\ aged' = aged \cup {id}
  /\ UNCHANGED <<users, orders, market, nextOrderId, pc, closing, tick, scan,
                 response, published>>

\* Mutant: the cleanup goes by age alone.
Removable_AnyStatus == DOMAIN orders \cap aged

\* The orders cleanupOldClosedOrders identifies.
Removable == {id \in DOMAIN orders \cap aged :
                orders[id].status \in {"CLOSED", "LIQUIDATED"}}

CleanupOldClosedOrders ==
  /\ Removable # {}
  /\ orders' = Without(orders, Removable)
  /\ users' = [u \in DOMAIN users |->
                 [users[u] EXCEPT !.orders = @ \ Removable]]
  /\ aged' = aged \ Removable
  /\ UNCHANGED <<market, nextOrderId, pc, closing, tick, scan, response,
                 published>>

-----------------------------------------------------------------------------
Init ==
  /\ users = EmptyMap /\ orders = EmptyMap /\ market = EmptyMap
  /\ aged = {} /\ nextOrderId = 1
  /\ pc = "next" /\ closing = None /\ tick = None /\ scan = {}
  /\ response = None /\ published = {}

\* What the consumer does once it has taken a message.
ConsumerStep ==
  \/ CloseAtPrice
  \/ PublishResponse
  \/ \E id \in scan :
       SkipOrder(id) \/ LiquidateOrder(id) \/ PublishLiquidation(id)

TakeMessage ==
  \/ \E request \in Requests : HandleRequest(request)
  \/ \E asset \in Assets, p \in TradePrices :
       ProcessMarketUpdate(asset, PollerQuote(p))

Timer ==
  \/ \E id \in OrderIds : AgeOrder(id)
  \/ CleanupOldClosedOrders

Next == TakeMessage \/ ConsumerStep \/ Timer

Spec == Init /\ [][Next]_vars

\* The consumer's awaits resolve: once it has taken a message it goes on.
FairSpec == Spec /\ WF_vars(ConsumerStep)

-----------------------------------------------------------------------------
\* Properties

TypeOK ==
  /\ DOMAIN users \subseteq Users
  /\ \A u \in DOMAIN users : users[u] \in UserState
  /\ DOMAIN orders \subseteq OrderIds
  /\ \A id \in DOMAIN orders : orders[id] \in Order
  /\ DOMAIN market \subseteq Assets
  /\ \A a \in DOMAIN market : market[a] \in Quote
  /\ aged \subseteq OrderIds
  /\ nextOrderId \in 1 .. MaxOrders + 1
  /\ pc \in {"next", "price", "respond", "pass", "publishLiquidation"}
  /\ closing \in CloseCall \cup {None}
  /\ tick \in Tick \cup {None}
  /\ scan \subseteq OrderIds
  /\ response \in Response \cup {None}
  /\ published \subseteq Closing

\* The two indexes of StateManager agree: a user's order list names exactly the
\* orders in memory that are his, and every order has a registered owner.  The
\* lists are updated apart (addOrder, removeClosedOrder) and getUserOrders
\* silently drops an identifier without an order.
BookConsistent ==
  /\ \A id \in DOMAIN orders : orders[id].userId \in DOMAIN users
  /\ \A u \in DOMAIN users :
       users[u].orders = {id \in DOMAIN orders : orders[id].userId = u}

\* processMarketUpdate captures the open orders once and awaits Redis between
\* them while timers run; every order it has yet to examine is nevertheless
\* still in memory, open and of the asset of the tick.  liquidateOrder relies
\* on it: it would pay a LIQUIDATED order again (it checks CLOSED only).
ScanFresh ==
  pc \in {"pass", "publishLiquidation"} =>
    /\ scan # {}
    /\ \A id \in scan :
         \/ pc = "publishLiquidation" /\ IsFirst(id)
         \/ id \in GetOpenOrdersByAsset(tick.asset)

\* handleCloseOrder pays by the order it read before it awaited the price: that
\* order is still what memory holds, or the cleanup has dropped it meanwhile,
\* and its owner had not closed it.
CloseCallFresh ==
  pc = "price" =>
    /\ closing.order.status # "CLOSED"
    /\ closing.order.userId = closing.userId
    /\ closing.orderId \in DOMAIN orders =>
         orders[closing.orderId] = closing.order

\* What the price pass and the close handler read before an await is still true
\* when they act on it, whatever the cleanup timer does meanwhile: nothing is
\* liquidated twice, and no close request brings an order back.
AwaitedReadsFresh == ScanFresh /\ CloseCallFresh

Publishing == pc \in {"respond", "publishLiquidation"}

ClosingSeen(id) ==
  \/ \E c \in published : c.orderId = id
  \/ /\ Publishing
     /\ response.closed # None
     /\ response.closed.orderId = id

\* No closing is lost before the database can see it: an order that is no longer
\* open, removed from memory or not, has had its first closing published, or
\* that closing is what the consumer is publishing right now.
ClosingsPublished ==
  \A id \in 1 .. nextOrderId - 1 :
    \/ id \in DOMAIN orders /\ orders[id].status = "OPEN"
    \/ ClosingSeen(id)

\* A response tells its user the truth when it is published: the orders it
\* carries are his and the balance is the one memory holds, although the price
\* read and the publication both await Redis.
ResponseSound ==
  (Publishing /\ response.error = "NONE") =>
    /\ response.balanceInt = GetBalance(response.userId)
    /\ \A id \in response.shown \cap DOMAIN orders :
         orders[id].userId = response.userId

Terms(order) ==
  <<order.userId, order.orderType, order.asset, order.leverage, order.marginInt,
    order.executionPriceInt, order.qtyInt, order.stopLossInt,
    order.takeProfitInt, order.liquidationPriceInt>>

\* What a step may do to the orders in memory.
OrderStep ==
  \A id \in DOMAIN orders :
    /\ orders[id].status = "OPEN" => id \in DOMAIN orders'
    /\ id \in DOMAIN orders' =>
         /\ Terms(orders'[id]) = Terms(orders[id])
         /\ orders[id].status = "CLOSED" => orders'[id] = orders[id]
         /\ orders[id].status = "LIQUIDATED" => orders'[id].status # "OPEN"

\* The life of an order: its terms never change, an open order never leaves
\* memory, an order closed by its owner is final until it is removed, and a
\* liquidated one never reopens.
OrderLifecycle == [][OrderStep]_vars

\* A price tick is applied to every position: when the pass over an asset ends,
\* no open order of the asset is left that a margin call, stop loss or take
\* profit should have closed at the price of the tick.
PassComplete ==
  [][(tick # None /\ tick' = None) =>
       \A id \in DOMAIN orders' :
         (orders'[id].status = "OPEN" /\ orders'[id].asset = tick.asset) =>
           ReasonAt(orders'[id], tick.quote) = "NONE"]_vars

\* The consumer always returns to the stream: no request and no pass over the
\* orders keeps it forever.
ConsumerReturns == pc # "next" ~> pc = "next"

-----------------------------------------------------------------------------
\* Money: Trading implements Ledger.

AccountOf(order) ==
  [owner |-> order.userId, margin |-> order.marginInt,
   state |-> CASE order.status = "OPEN" -> "locked"
               [] order.status = "CLOSED" -> "paid"
               [] order.status = "LIQUIDATED" -> "auto",
   profit |-> order.finalPnLInt]

\* A close request in flight keeps the order it has read alive.
HeldOrders ==
  IF pc = "price" /\ closing.orderId \notin DOMAIN orders
    THEN Put(orders, closing.orderId, closing.order) ELSE orders

Money == INSTANCE Ledger
  WITH cash <- [u \in DOMAIN users |-> users[u].balanceInt],
       account <- [id \in DOMAIN HeldOrders |-> AccountOf(HeldOrders[id])]

\* Every step moves cash by exactly what the ledger allows: the grant, the
\* margin of a new order, or the margin and recorded profit of a closed one.
ImplementsLedger == Money!LedgerSpec

\* RequestHandlers.ts:273 "Check if already closed": an order that has been
\* paid out is not paid out again.
PaidOnce == Money!PaidOnce

-----------------------------------------------------------------------------
\* Prices

\* How far the quote has moved against the position since it was opened.
AdverseMove(order, quote) ==
  IF order.orderType = "LONG"
    THEN order.executionPriceInt - ExitPriceInt(order, quote)
    ELSE ExitPriceInt(order, quote) - order.executionPriceInt

Settled == pc \in {"next", "price", "respond"}

\* The margin call is never late: between two messages every open position has
\* lost less than 90% of its exact margin (entry * qty / leverage) at the last
\* quote, whatever the roundings of margin, fraction and liquidation price.
OpenLossBounded ==
  Settled =>
    \A id \in DOMAIN orders :
      orders[id].status = "OPEN" =>
        10 * orders[id].leverage
           * AdverseMove(orders[id], market[orders[id].asset])
          < 9 * orders[id].executionPriceInt

\* The margin call is never early: it takes a loss of 90% of the exact margin,
\* up to one unit in the price and in the scaled fraction.
MarginCallNotEarly ==
  [][\A id \in DOMAIN orders \cap DOMAIN orders' :
       (orders[id].status = "OPEN" /\ orders'[id].closeReason = "MARGIN_CALL") =>
         10 * orders[id].leverage * PRICE_SCALE
            * (AdverseMove(orders[id], tick.quote) + 1)
           > orders[id].executionPriceInt
               * (9 * PRICE_SCALE - 10 * orders[id].leverage)]_vars

\* The margin covers the losses: a position left open could be closed at the
\* last quote without taking more than its margin.
OpenPositionSolvent ==
  Settled =>
    \A id \in DOMAIN orders :
      orders[id].status = "OPEN" =>
        orders[id].marginInt + PnLIntAt(orders[id], market[orders[id].asset]) >= 0

\* The margin call comes in time: between two messages an open position has lost
\* less than 90% of its exact margin, and its margin as the code rounds it still
\* covers the loss as the code rounds it.
LossesCovered == OpenLossBounded /\ OpenPositionSolvent

\* The spread is paid by the user, once: an order is opened on one side of the
\* quote and would be closed on the other, so it starts behind by the spread and
\* never in profit; and 0.1% either side of the trade never triggers the margin
\* call at once, even at leverage 100.
FreshOrderSurvives ==
  [][\A id \in DOMAIN orders' \ DOMAIN orders :
       LET order == orders'[id]
           quote == market[order.asset]
       IN  /\ AdverseMove(order, quote) = quote.askPriceInt - quote.bidPriceInt
           /\ PnLIntAt(order, quote) <= 0
           /\ ReasonAt(order, quote) # "MARGIN_CALL"]_vars

\* Zero sum: a LONG and a SHORT of the same terms win and lose the same amount
\* at the same price; BigInt division truncates both toward zero.
ZeroSum ==
  \A id \in DOMAIN orders, a \in DOMAIN market :
    LET entry == orders[id].executionPriceInt
        qty == orders[id].qtyInt
        price == market[a].bidPriceInt
    IN  CalculateCurrentPnL(price, entry, qty, "LONG")
          = -CalculateCurrentPnL(price, entry, qty, "SHORT")
=============================================================================
