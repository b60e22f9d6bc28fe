---------------------------- MODULE TradingProofs ----------------------------
(***************************************************************************)
(* Theorems of Trading that hold for every set of users, assets, payloads, *)
(* prices and requests and for every PRICE_SCALE.                          *)
(*                                                                         *)
(* TradingInv is the inductive invariant: the type invariant, what each    *)
(* control point guarantees about the consumer's local variables, the      *)
(* freshness of identifiers, and the three safety properties it supports.  *)
(* On it rest the theorems on closings, price passes and responses.        *)
(***************************************************************************)
EXTENDS Trading, TLAPS

\* What holds of the consumer's local variables at each control point.
ControlOK ==
  /\ pc = "price" => /\ closing \in CloseCall
                     /\ closing.order.userId \in DOMAIN users
  /\ pc \in {"pass", "publishLiquidation"} => tick \in Tick
  /\ pc \in {"respond", "publishLiquidation"} => response \in Response

\* Identifiers are handed out in order and never twice.
IdsFresh == DOMAIN orders \subseteq 1 .. nextOrderId - 1

TradingInv ==
  TypeOK /\ ControlOK /\ IdsFresh /\ BookConsistent /\ ScanFresh
    /\ CloseCallFresh

-----------------------------------------------------------------------------
\* Typing of the arithmetic

\* Truncating division by a positive integer yields an integer.
LEMMA TruncDivType ==
  ASSUME NEW a \in Int, NEW b \in Nat \ {0}
  PROVE  TruncDiv(a, b) \in Int
BY DEF TruncDiv

\* toInteger yields an integer for every decimal.
LEMMA ToIntegerType ==
  ASSUME NEW d \in Decimal
  PROVE  ToInteger(d) \in Int
<1>1. d.num \in Int /\ d.den \in Nat \ {0}
  BY DEF Decimal
<1>2. 2 * d.num * PRICE_SCALE + d.den \in Int /\ 2 * d.den \in Nat \ {0}
  BY <1>1, PriceScaleAssumption
<1> QED
  BY <1>2 DEF ToInteger

\* toDecimal of an integer is a decimal.
LEMMA ToDecimalType ==
  ASSUME NEW n \in Int
  PROVE  ToDecimal(n) \in Decimal
BY PriceScaleAssumption DEF ToDecimal, Decimal

\* Scaled multiplication yields an integer.
LEMMA MultiplyType ==
  ASSUME NEW a \in Int, NEW b \in Int
  PROVE  Multiply(a, b) \in Int
<1>1. a * b \in Int
  OBVIOUS
<1> QED
  BY <1>1, TruncDivType, PriceScaleAssumption DEF Multiply

\* toInteger is exact on whole numbers: the scaled leverage is a positive
\* multiple of the scale.
LEMMA LeverageIntExact ==
  ASSUME NEW leverage \in Nat \ {0}
  PROVE  /\ LeverageInt(leverage) = leverage * PRICE_SCALE
         /\ LeverageInt(leverage) \in Nat \ {0}
<1> DEFINE k == leverage * PRICE_SCALE
<1>1. k \in Nat \ {0}
  BY PriceScaleAssumption
<1>2. 2 * leverage * PRICE_SCALE = 2 * k
  BY PriceScaleAssumption
<1>3. LeverageInt(leverage) = (2 * k + 1) \div 2
  BY <1>2 DEF LeverageInt, ToInteger
<1> HIDE DEF k
<1>4. (2 * k + 1) \div 2 = k
  BY <1>1
<1> QED
  BY <1>1, <1>3, <1>4 DEF k

\* The required margin is an integer.
LEMMA RequiredMarginType ==
  ASSUME NEW volumeInt \in Int, NEW priceInt \in Int, NEW leverage \in 1 .. 100
  PROVE  CalculateRequiredMargin(volumeInt, priceInt, leverage) \in Int
<1> DEFINE value == Multiply(volumeInt, priceInt)
<1>1. value \in Int
  BY MultiplyType
<1>2. value * PRICE_SCALE \in Int
  BY <1>1, PriceScaleAssumption
<1>3. LeverageInt(leverage) \in Nat \ {0}
  BY LeverageIntExact
<1> QED
  BY <1>2, <1>3, TruncDivType DEF CalculateRequiredMargin, Divide

\* The liquidation price is an integer.
LEMMA LiquidationPriceType ==
  ASSUME NEW priceInt \in Int, NEW leverage \in 1 .. 100, NEW orderType
  PROVE  CalculateLiquidationPrice(priceInt, leverage, orderType) \in Int
<1>1. LiquidationFraction(leverage) \in Int
  BY TruncDivType, PriceScaleAssumption
     DEF LiquidationFraction, DEFAULT_LIQUIDATION_PERCENT
<1>2. /\ PRICE_SCALE - LiquidationFraction(leverage) \in Int
      /\ PRICE_SCALE + LiquidationFraction(leverage) \in Int
  BY <1>1, PriceScaleAssumption
<1> QED
  BY <1>2, MultiplyType
     DEF CalculateLiquidationPrice, CalculateLongLiquidationPrice,
         CalculateShortLiquidationPrice

\* Profit and loss at a quote are integers.
LEMMA PnLType ==
  ASSUME NEW order \in Order, NEW quote \in Quote
  PROVE  PnLIntAt(order, quote) \in Int
<1>1. ExitPriceInt(order, quote) \in Int
  BY ToIntegerType, ToDecimalType DEF ExitPriceInt, Quote
<1>2. order.executionPriceInt \in Int /\ order.qtyInt \in Int
  BY DEF Order
<1>3. /\ ExitPriceInt(order, quote) - order.executionPriceInt \in Int
      /\ order.executionPriceInt - ExitPriceInt(order, quote) \in Int
  BY <1>1, <1>2
<1> QED
  BY <1>2, <1>3, MultiplyType DEF PnLIntAt, CalculateCurrentPnL

\* The poller's quotes are integers.
LEMMA PollerQuoteType ==
  ASSUME NEW p \in Decimal
  PROVE  PollerQuote(p) \in Quote
<1>1. p.num \in Int /\ p.den \in Nat \ {0}
  BY DEF Decimal
<1>2. /\ [num |-> p.num * 999, den |-> p.den * 1000] \in Decimal
      /\ [num |-> p.num * 1001, den |-> p.den * 1000] \in Decimal
  BY <1>1 DEF Decimal
<1> QED
  BY <1>2, ToIntegerType DEF PollerQuote, Quote

\* The reason of an automatic closing is one of the four the source knows.
LEMMA ReasonType ==
  ASSUME NEW order, NEW quote
  PROVE  ReasonAt(order, quote)
           \in {"NONE", "MARGIN_CALL", "STOP_LOSS", "TAKE_PROFIT"}
BY DEF ReasonAt, GetLiquidationReason

-----------------------------------------------------------------------------
\* Typing of the state the handlers build

\* A reason to close names an automatic closing, MANUAL the owner's.
LEMMA ClosedType ==
  ASSUME NEW order \in Order, NEW pnl \in Int,
         NEW reason \in CloseReason \ {"NONE"}
  PROVE  /\ Closed(order, pnl, reason) \in Order
         /\ Closed(order, pnl, reason).status \in {"CLOSED", "LIQUIDATED"}
         /\ Closed(order, pnl, reason).status = "CLOSED" <=> reason = "MANUAL"
         /\ Closed(order, pnl, reason).closeReason = reason
         /\ Closed(order, pnl, reason).finalPnLInt = pnl
         /\ Closed(order, pnl, reason).userId = order.userId
         /\ Closed(order, pnl, reason).asset = order.asset
         /\ Terms(Closed(order, pnl, reason)) = Terms(order)
BY DEF Closed, Order, OrderStatus, CloseReason, Terms

\* An accepted payload makes a well-formed open order.
LEMMA NewOrderType ==
  ASSUME TypeOK, NEW userId \in Users, NEW payload \in OrderPayloads,
         PlaceError(userId, payload) = "NONE"
  PROVE  /\ NewOrder(userId, payload) \in Order
         /\ NewOrder(userId, payload).userId = userId
         /\ NewOrder(userId, payload).status = "OPEN"
<1>1. /\ payload.asset \in DOMAIN market
      /\ payload.leverage \in 1 .. 100
  BY DEF PlaceError, IsValidLeverage
<1>2. /\ payload.asset \in Assets /\ payload.orderType \in OrderType
      /\ payload.leverage \in Int /\ payload.qty \in Decimal
      /\ payload.stopLoss \in Decimal /\ payload.takeProfit \in Decimal
  BY TradingAssumption DEF Payload
<1>3. /\ market[payload.asset].askPriceInt \in Int
      /\ market[payload.asset].bidPriceInt \in Int
  BY <1>1 DEF TypeOK, Quote
<1>4. ExecutionPriceInt(payload) \in Int
  BY <1>3, ToDecimalType, ToIntegerType DEF ExecutionPriceInt
<1>5. /\ ToInteger(payload.qty) \in Int
      /\ ToInteger(payload.stopLoss) \in Int
      /\ ToInteger(payload.takeProfit) \in Int
  BY <1>2, ToIntegerType
<1>6. RequiredMarginInt(payload) \in Int
  BY <1>1, <1>4, <1>5, RequiredMarginType DEF RequiredMarginInt
<1>7. CalculateLiquidationPrice(ExecutionPriceInt(payload), payload.leverage,
                                payload.orderType) \in Int
  BY <1>1, <1>4, LiquidationPriceType
<1> QED
  BY <1>2, <1>4, <1>5, <1>6, <1>7
     DEF NewOrder, Order, OrderStatus, CloseReason

\* Balances are integers.
LEMMA GetBalanceType ==
  ASSUME TypeOK, NEW userId
  PROVE  GetBalance(userId) \in Int
BY DEF TypeOK, UserState, GetBalance

\* A user's order list in the state a handler leaves behind.
LEMMA OrdersOfType ==
  ASSUME TypeOK, NEW userId
  PROVE  OrdersOf(userId) \in SUBSET OrderIds
BY DEF TypeOK, UserState, OrdersOf

\* Settling an order keeps the book: only the order's status, reason and profit
\* and its owner's balance change.
LEMMA SettleKeepsBook ==
  ASSUME TypeOK, BookConsistent, NEW id \in OrderIds, NEW order \in Order,
         NEW pnl \in Int, NEW reason \in CloseReason \ {"NONE"},
         order.userId \in DOMAIN users,
         id \in DOMAIN orders => orders[id].userId = order.userId,
         Settle(id, order, pnl, reason)
  PROVE  /\ DOMAIN users' = DOMAIN users
         /\ \A u \in DOMAIN users' : users'[u] \in UserState
         /\ DOMAIN orders' = DOMAIN orders
         /\ \A i \in DOMAIN orders' : orders'[i] \in Order
         /\ \A i \in DOMAIN orders \ {id} : orders'[i] = orders[i]
         /\ id \in DOMAIN orders => orders'[id] = Closed(orders[id], pnl, reason)
         /\ BookConsistent'
<1>1. DOMAIN orders' = DOMAIN orders
  BY DEF Settle
<1>2. \A i \in DOMAIN orders \ {id} : orders'[i] = orders[i]
  BY DEF Settle
<1>3. id \in DOMAIN orders => orders'[id] = Closed(orders[id], pnl, reason)
  BY DEF Settle
<1>4. \A i \in DOMAIN orders : /\ orders'[i] \in Order
                              /\ orders'[i].userId = orders[i].userId
  BY <1>2, <1>3, ClosedType DEF TypeOK
<1>5. GetBalance(order.userId) + order.marginInt + pnl \in Int
  BY GetBalanceType DEF Order
<1>6. DOMAIN users' = DOMAIN users
  BY DEF Settle, Put
<1>7. \A u \in DOMAIN users : /\ users'[u] \in UserState
                             /\ users'[u].orders = users[u].orders
  BY <1>5 DEF Settle, Put, WithBalance, OrdersOf, TypeOK, UserState
<1>8. BookConsistent'
  BY <1>1, <1>4, <1>6, <1>7 DEF BookConsistent
<1> QED
  BY <1>1, <1>2, <1>3, <1>4, <1>6, <1>7, <1>8

-----------------------------------------------------------------------------
\* One lemma per action: it preserves the invariant.

\* Every request names a user, and the fields its type calls for.
LEMMA RequestFields ==
  ASSUME NEW request \in Requests
  PROVE  /\ request.userId \in Users
         /\ request.type = "PLACE_ORDER" => request.payload \in OrderPayloads
         /\ request.type \in {"CLOSE_ORDER", "GET_ORDER"}
              => request.orderId \in OrderIds
BY TradingAssumption DEF RequestSpace

\* A response that leaves users and orders alone preserves the invariant.
LEMMA ReplyStep ==
  ASSUME TradingInv, NEW userId \in Users, NEW error \in ErrorCode,
         NEW balanceInt \in Int, NEW shown \in SUBSET OrderIds,
         Respond(userId, error, balanceInt, shown, None),
         UNCHANGED <<users, orders, aged, nextOrderId, closing, market, tick,
                     scan, published>>
  PROVE  TradingInv'
<1>1. response' \in Response /\ pc' = "respond"
  BY DEF Respond, Response
<1>2. TypeOK'
  BY <1>1 DEF TradingInv, TypeOK
<1>3. ControlOK'
  BY <1>1 DEF ControlOK
<1>4. IdsFresh' /\ BookConsistent'
  BY DEF TradingInv, IdsFresh, BookConsistent
<1>5. ScanFresh' /\ CloseCallFresh'
  BY <1>1 DEF ScanFresh, CloseCallFresh
<1> QED
  BY <1>2, <1>3, <1>4, <1>5 DEF TradingInv

LEMMA RegisterUserStep ==
  ASSUME TradingInv, NEW request \in Requests, pc = "next",
         HandleRegisterUser(request),
         UNCHANGED <<market, tick, scan, published>>
  PROVE  TradingInv'
<1> USE RequestFields
<1>1. CASE request.userId \in DOMAIN users
  <2>1. Refuse(request, "ALREADY_REGISTERED")
    BY <1>1 DEF HandleRegisterUser
  <2> QED
    BY <2>1, ReplyStep DEF Refuse, ErrorCode
<1>2. CASE request.userId \notin DOMAIN users
  <2>1. /\ users' = Put(users, request.userId,
                        [balanceInt |-> InitialBalance, orders |-> {}])
        /\ Respond(request.userId, "NONE", InitialBalance, {}, None)
        /\ UNCHANGED <<orders, aged, nextOrderId, closing>>
    BY <1>2 DEF HandleRegisterUser
  <2>2. response' \in Response /\ pc' = "respond"
    BY <2>1, TradingAssumption DEF Respond, Response, ErrorCode
  <2>3. /\ DOMAIN users' = DOMAIN users \cup {request.userId}
        /\ users'[request.userId] = [balanceInt |-> InitialBalance, orders |-> {}]
        /\ \A u \in DOMAIN users : users'[u] = users[u]
    BY <1>2, <2>1 DEF Put
  <2>4. TypeOK'
    <3>1. users'[request.userId] \in UserState
      BY <2>3, TradingAssumption DEF UserState
    <3>2. \A u \in DOMAIN users' : u \in Users /\ users'[u] \in UserState
      BY <2>3, <3>1 DEF TradingInv, TypeOK
    <3> QED
      BY <2>1, <2>2, <3>2 DEF TradingInv, TypeOK
  <2>5. ControlOK'
    BY <2>2 DEF ControlOK
  <2>6. IdsFresh'
    BY <2>1 DEF TradingInv, IdsFresh
  <2>7. BookConsistent'
    <3>1. {id \in DOMAIN orders : orders[id].userId = request.userId} = {}
      BY <1>2 DEF TradingInv, BookConsistent
    <3>2. users'[request.userId].orders = {}
      BY <2>3
    <3>3. orders' = orders
      BY <2>1
    <3> QED
      BY <2>3, <3>1, <3>2, <3>3 DEF TradingInv, BookConsistent
  <2>8. ScanFresh' /\ CloseCallFresh'
    BY <2>2 DEF ScanFresh, CloseCallFresh
  <2> QED
    BY <2>4, <2>5, <2>6, <2>7, <2>8 DEF TradingInv
<1> QED
  BY <1>1, <1>2

LEMMA PlaceOrderStep ==
  ASSUME TradingInv, NEW request \in Requests, pc = "next",
         HandlePlaceOrder(request),
         UNCHANGED <<market, tick, scan, published>>
  PROVE  TradingInv'
<1> DEFINE userId == request.userId
           payload == request.payload
           error == PlaceError(userId, payload)
           order == NewOrder(userId, payload)
           balanceInt == GetBalance(userId) - order.marginInt
<1>1. userId \in Users /\ payload \in OrderPayloads
  BY RequestFields DEF HandlePlaceOrder
<1>2. CASE error # "NONE"
  <2>1. Refuse(request, error)
    BY <1>2 DEF HandlePlaceOrder
  <2>2. error \in ErrorCode
    BY DEF PlaceError, ErrorCode
  <2> QED
    BY <1>1, <2>1, <2>2, ReplyStep DEF Refuse
<1>3. CASE error = "NONE"
  <2>1. /\ nextOrderId <= MaxOrders
        /\ orders' = Put(orders, nextOrderId, order)
        /\ users' = Put(users, userId,
                        [balanceInt |-> balanceInt,
                         orders |-> OrdersOf(userId) \cup {nextOrderId}])
        /\ Respond(userId, "NONE", balanceInt, {nextOrderId}, None)
        /\ nextOrderId' = nextOrderId + 1
        /\ UNCHANGED <<aged, closing>>
    BY <1>3 DEF HandlePlaceOrder
  <2>2. order \in Order /\ order.userId = userId
    BY <1>1, <1>3, NewOrderType DEF TradingInv
  <2>3. nextOrderId \in OrderIds /\ nextOrderId \notin DOMAIN orders
    BY <2>1, TradingAssumption DEF TradingInv, TypeOK, IdsFresh, OrderIds
  <2>4. balanceInt \in Int
    BY <2>2, GetBalanceType DEF TradingInv, Order
  <2> HIDE DEF order, balanceInt
  <2>5. response' \in Response /\ pc' = "respond"
    BY <1>1, <2>1, <2>3, <2>4 DEF Respond, Response, ErrorCode
  <2>6. /\ DOMAIN orders' = DOMAIN orders \cup {nextOrderId}
        /\ orders'[nextOrderId] = order
        /\ \A i \in DOMAIN orders : orders'[i] = orders[i]
    BY <2>1, <2>3 DEF Put
  <2>7. /\ DOMAIN users' = DOMAIN users \cup {userId}
        /\ users'[userId] = [balanceInt |-> balanceInt,
                             orders |-> OrdersOf(userId) \cup {nextOrderId}]
        /\ \A u \in DOMAIN users \ {userId} : users'[u] = users[u]
    BY <2>1 DEF Put
  <2>8. users'[userId] \in UserState
    BY <2>3, <2>4, <2>7, OrdersOfType DEF TradingInv, UserState
  <2>9. TypeOK'
    <3>1. DOMAIN users' \subseteq Users /\ \A u \in DOMAIN users' : users'[u] \in UserState
      BY <1>1, <2>7, <2>8 DEF TradingInv, TypeOK
    <3>2. DOMAIN orders' \subseteq OrderIds /\ \A i \in DOMAIN orders' : orders'[i] \in Order
      BY <2>2, <2>3, <2>6 DEF TradingInv, TypeOK
    <3>3. nextOrderId' \in 1 .. MaxOrders + 1
      BY <2>1, TradingAssumption DEF TradingInv, TypeOK
    <3> QED
      BY <2>1, <2>5, <3>1, <3>2, <3>3 DEF TradingInv, TypeOK
  <2>10. ControlOK'
    BY <2>5 DEF ControlOK
  <2>11. IdsFresh'
    BY <2>1, <2>3, <2>6, TradingAssumption DEF TradingInv, TypeOK, IdsFresh, OrderIds
  <2>12. BookConsistent'
    <3>1. OrdersOf(userId) = {i \in DOMAIN orders : orders[i].userId = userId}
      BY DEF OrdersOf, TradingInv, BookConsistent
    <3> QED
      BY <2>2, <2>3, <2>6, <2>7, <3>1 DEF TradingInv, BookConsistent
  <2>13. ScanFresh' /\ CloseCallFresh'
    BY <2>5 DEF ScanFresh, CloseCallFresh
  <2> QED
    BY <2>9, <2>10, <2>11, <2>12, <2>13 DEF TradingInv
<1> QED
  BY <1>2, <1>3

LEMMA CloseOrderStep ==
  ASSUME TradingInv, NEW request \in Requests, pc = "next",
         HandleCloseOrder(request),
         UNCHANGED <<market, tick, scan, published>>
  PROVE  TradingInv'
<1> DEFINE id == request.orderId
           error == CloseError(request.userId, id)
<1>1. request.userId \in Users /\ id \in OrderIds
  BY RequestFields DEF HandleCloseOrder
<1>2. CASE error # "NONE"
  <2>1. Refuse(request, error) /\ error \in ErrorCode
    BY <1>2 DEF HandleCloseOrder, CloseError, ErrorCode
  <2> QED
    BY <1>1, <2>1, ReplyStep DEF Refuse
<1>3. CASE error = "NONE"
  <2>1. /\ closing' = [userId |-> request.userId, orderId |-> id,
                       order |-> orders[id]]
        /\ pc' = "price"
        /\ UNCHANGED <<users, orders, aged, nextOrderId, response>>
    BY <1>3 DEF HandleCloseOrder
  <2>2. /\ id \in DOMAIN orders
        /\ orders[id].userId = request.userId
        /\ orders[id].status # "CLOSED"
    BY <1>3 DEF CloseError, Owns
  <2>3. closing' \in CloseCall
    BY <1>1, <2>1, <2>2 DEF TradingInv, TypeOK, CloseCall
  <2>4. TypeOK'
    BY <2>1, <2>3 DEF TradingInv, TypeOK
  <2>5. ControlOK'
    BY <2>1, <2>2, <2>3 DEF TradingInv, ControlOK, BookConsistent
  <2>6. IdsFresh' /\ BookConsistent'
    BY <2>1 DEF TradingInv, IdsFresh, BookConsistent
  <2>7. ScanFresh' /\ CloseCallFresh'
    BY <2>1, <2>2 DEF ScanFresh, CloseCallFresh
  <2> QED
    BY <2>4, <2>5, <2>6, <2>7 DEF TradingInv
<1> QED
  BY <1>2, <1>3

LEMMA QueryStep ==
  ASSUME TradingInv, NEW request \in Requests, pc = "next",
         \/ HandleGetBalance(request)
         \/ HandleGetOrder(request)
         \/ HandleGetUserOrders(request),
         UNCHANGED <<market, tick, scan, published>>
  PROVE  TradingInv'
<1>1. request.userId \in Users
  BY RequestFields
<1>2. GetBalance(request.userId) \in Int
  BY GetBalanceType DEF TradingInv
<1>3. \E error \in ErrorCode, balanceInt \in Int, shown \in SUBSET OrderIds :
        /\ Respond(request.userId, error, balanceInt, shown, None)
        /\ UNCHANGED <<users, orders, aged, nextOrderId, closing>>
  <2>1. CASE HandleGetBalance(request)
    <3>1. "NONE" \in ErrorCode /\ {} \in SUBSET OrderIds
      BY DEF ErrorCode
    <3> QED
      BY <1>2, <2>1, <3>1 DEF HandleGetBalance
  <2>2. CASE HandleGetOrder(request)
    <3>1. request.orderId \in OrderIds
      BY <2>2, RequestFields DEF HandleGetOrder
    <3>2. /\ "NONE" \in ErrorCode /\ "ORDER_NOT_FOUND" \in ErrorCode
          /\ {} \in SUBSET OrderIds /\ {request.orderId} \in SUBSET OrderIds
          /\ 0 \in Int
      BY <3>1 DEF ErrorCode
    <3> QED
      BY <1>2, <2>2, <3>2 DEF HandleGetOrder, Refuse
  <2>3. CASE HandleGetUserOrders(request)
    <3>1. /\ "NONE" \in ErrorCode
          /\ GetUserOrders(request.userId, request.status) \in SUBSET OrderIds
      BY OrdersOfType DEF TradingInv, ErrorCode, GetUserOrders
    <3> QED
      BY <1>2, <2>3, <3>1 DEF HandleGetUserOrders
  <2> QED
    BY <2>1, <2>2, <2>3
<1> QED
  BY <1>1, <1>3, ReplyStep

\* The consumer's own steps.

LEMMA CloseAtPriceStep ==
  ASSUME TradingInv, CloseAtPrice
  PROVE  TradingInv'
<1> DEFINE id == closing.orderId
           order == closing.order
           pnl == PnLIntAt(order, market[order.asset])
<1>1. /\ pc = "price" /\ closing' = None
      /\ UNCHANGED <<market, aged, nextOrderId, tick, scan, published>>
  BY DEF CloseAtPrice
<1>2. /\ closing \in CloseCall
      /\ order \in Order /\ id \in OrderIds /\ closing.userId \in Users
      /\ order.userId = closing.userId
      /\ order.userId \in DOMAIN users
      /\ id \in DOMAIN orders => orders[id] = order
  BY <1>1 DEF TradingInv, ControlOK, CloseCallFresh, CloseCall
<1>3. CASE order.asset \notin DOMAIN market
  <2>1. /\ Respond(closing.userId, "PRICE_DATA_UNAVAILABLE", 0, {}, None)
        /\ UNCHANGED <<users, orders>>
    BY <1>3 DEF CloseAtPrice, store
  <2>2. response' \in Response /\ pc' = "respond"
    BY <1>2, <2>1 DEF Respond, Response, ErrorCode
  <2>3. TypeOK'
    BY <1>1, <2>1, <2>2 DEF TradingInv, TypeOK
  <2>4. ControlOK' /\ ScanFresh' /\ CloseCallFresh'
    BY <2>2 DEF ControlOK, ScanFresh, CloseCallFresh
  <2>5. IdsFresh' /\ BookConsistent'
    BY <1>1, <2>1 DEF TradingInv, IdsFresh, BookConsistent
  <2> QED
    BY <2>3, <2>4, <2>5 DEF TradingInv
<1>4. CASE order.asset \in DOMAIN market
  <2> DEFINE closed == IF id \in DOMAIN orders
                         THEN ClosingOf(id, Closed(order, pnl, "MANUAL"))
                         ELSE None
             balanceInt == GetBalance(closing.userId) + order.marginInt + pnl
  <2>1. /\ Settle(id, order, pnl, "MANUAL")
        /\ Respond(closing.userId, "NONE", balanceInt, {id} \cap DOMAIN orders,
                   closed)
    BY <1>4 DEF CloseAtPrice
  <2>2. pnl \in Int
    BY <1>2, <1>4, PnLType DEF TradingInv, TypeOK
  <2>3. "MANUAL" \in CloseReason \ {"NONE"}
    BY DEF CloseReason
  <2>4. closed \in Closing \cup {None}
    BY <1>2, <2>2, <2>3, ClosedType DEF ClosingOf, Closing, OrderStatus
  <2>5. balanceInt \in Int
    BY <1>2, <2>2, GetBalanceType DEF TradingInv, Order
  <2> HIDE DEF closed, balanceInt, pnl
  <2>6. response' \in Response /\ pc' = "respond"
    BY <1>2, <2>1, <2>4, <2>5 DEF Respond, Response, ErrorCode
  <2>7. /\ DOMAIN users' = DOMAIN users
        /\ \A u \in DOMAIN users' : users'[u] \in UserState
        /\ DOMAIN orders' = DOMAIN orders
        /\ \A i \in DOMAIN orders' : orders'[i] \in Order
        /\ BookConsistent'
    BY <1>2, <2>1, <2>2, <2>3, SettleKeepsBook DEF TradingInv
  <2>8. TypeOK'
    BY <1>1, <2>6, <2>7 DEF TradingInv, TypeOK
  <2>9. ControlOK' /\ ScanFresh' /\ CloseCallFresh'
    BY <2>6 DEF ControlOK, ScanFresh, CloseCallFresh
  <2>10. IdsFresh'
    BY <1>1, <2>7 DEF TradingInv, IdsFresh
  <2> QED
    BY <2>7, <2>8, <2>9, <2>10 DEF TradingInv
<1> QED
  BY <1>3, <1>4

\* The closing of a response, if any, is one.
LEMMA PublishedType ==
  ASSUME TypeOK, response \in Response
  PROVE  published \cup ({response.closed} \ {None}) \subseteq Closing
BY DEF TypeOK, Response

LEMMA PublishResponseStep ==
  ASSUME TradingInv, PublishResponse
  PROVE  TradingInv'
<1>1. /\ pc = "respond" /\ pc' = "next" /\ response' = None
      /\ published' = published \cup ({response.closed} \ {None})
      /\ UNCHANGED <<users, orders, market, aged, nextOrderId, closing, tick, scan>>
  BY DEF PublishResponse
<1>2. published' \subseteq Closing
  BY <1>1, PublishedType DEF TradingInv, ControlOK
<1>3. TypeOK'
  BY <1>1, <1>2 DEF TradingInv, TypeOK
<1>4. ControlOK' /\ ScanFresh' /\ CloseCallFresh'
  BY <1>1 DEF ControlOK, ScanFresh, CloseCallFresh
<1>5. IdsFresh' /\ BookConsistent'
  BY <1>1 DEF TradingInv, IdsFresh, BookConsistent
<1> QED
  BY <1>3, <1>4, <1>5 DEF TradingInv

LEMMA MarketUpdateStep ==
  ASSUME TradingInv, NEW asset \in Assets, NEW quote \in Quote,
         ProcessMarketUpdate(asset, quote)
  PROVE  TradingInv'
<1>1. /\ pc = "next"
      /\ market' = Put(market, asset, quote)
      /\ scan' = GetOpenOrdersByAsset(asset)
      /\ \/ scan' = {} /\ UNCHANGED <<tick, pc>>
         \/ /\ scan' # {} /\ pc' = "pass"
            /\ tick' = [asset |-> asset, quote |-> quote]
      /\ UNCHANGED <<users, orders, aged, nextOrderId, closing, response, published>>
  BY DEF ProcessMarketUpdate
<1>2. DOMAIN market' \subseteq Assets /\ \A a \in DOMAIN market' : market'[a] \in Quote
  BY <1>1 DEF Put, TradingInv, TypeOK
<1>3. pc' = "pass" => /\ tick' \in Tick
                      /\ tick'.asset = asset
  BY <1>1 DEF Tick
<1>4. scan' \subseteq OrderIds
  BY <1>1 DEF GetOpenOrdersByAsset, TradingInv, TypeOK
<1>5. pc' \in {"next", "pass"}
  BY <1>1
<1>6. TypeOK'
  <2>1. tick' \in Tick \cup {None}
    BY <1>1 DEF Tick, TradingInv, TypeOK
  <2> QED
    BY <1>1, <1>2, <1>4, <1>5, <2>1 DEF TradingInv, TypeOK
<1>7. ControlOK'
  BY <1>1, <1>3, <1>5 DEF ControlOK
<1>8. IdsFresh' /\ BookConsistent'
  BY <1>1 DEF TradingInv, IdsFresh, BookConsistent
<1>9. ScanFresh'
  BY <1>1, <1>3, <1>5 DEF ScanFresh, GetOpenOrdersByAsset
<1>10. CloseCallFresh'
  BY <1>5 DEF CloseCallFresh
<1> QED
  BY <1>6, <1>7, <1>8, <1>9, <1>10 DEF TradingInv

\* The first order in a scan is the only one: identifiers are totally ordered.
LEMMA FirstIsUnique ==
  ASSUME scan \subseteq OrderIds, NEW id, IsFirst(id), NEW other, IsFirst(other)
  PROVE  id = other
BY TradingAssumption DEF IsFirst, OrderIds

\* Advancing the pass past its first order: what is left is still fresh.
LEMMA AfterPassStep ==
  ASSUME TradingInv, NEW id, IsFirst(id), pc \in {"pass", "publishLiquidation"},
         AfterPass(scan \ {id}),
         response' \in Response \cup {None}, published' \subseteq Closing,
         UNCHANGED <<users, orders, market, aged, nextOrderId, closing>>
  PROVE  TradingInv'
<1>1. /\ scan' = scan \ {id}
      /\ \/ scan' = {} /\ tick' = None /\ pc' = "next"
         \/ scan' # {} /\ tick' = tick /\ pc' = "pass"
  BY DEF AfterPass
<1>2. tick \in Tick
  BY DEF TradingInv, ControlOK
<1>3. TypeOK'
  BY <1>1, <1>2 DEF TradingInv, TypeOK
<1>4. ControlOK' /\ CloseCallFresh'
  BY <1>1, <1>2 DEF ControlOK, CloseCallFresh
<1>5. IdsFresh' /\ BookConsistent'
  BY DEF TradingInv, IdsFresh, BookConsistent
<1>6. \A i \in scan \ {id} : i \in GetOpenOrdersByAsset(tick.asset)
  BY FirstIsUnique DEF TradingInv, TypeOK, ScanFresh
<1>7. ScanFresh'
  BY <1>1, <1>6 DEF ScanFresh, GetOpenOrdersByAsset
<1> QED
  BY <1>3, <1>4, <1>5, <1>7 DEF TradingInv

LEMMA LiquidateOrderStep ==
  ASSUME TradingInv, NEW id \in scan, LiquidateOrder(id)
  PROVE  TradingInv'
<1> DEFINE order == orders[id]
           pnl == PnLIntAt(order, tick.quote)
           reason == ReasonAt(order, tick.quote)
           balanceInt == GetBalance(order.userId) + order.marginInt + pnl
           closed == ClosingOf(id, Closed(order, pnl, reason))
<1>1. /\ pc = "pass" /\ pc' = "publishLiquidation" /\ IsFirst(id)
      /\ id \in DOMAIN orders /\ reason # "NONE"
      /\ Settle(id, order, pnl, reason)
      /\ response' = [userId |-> order.userId, error |-> "NONE",
                      balanceInt |-> balanceInt, shown |-> {id},
                      closed |-> closed]
      /\ UNCHANGED <<market, aged, nextOrderId, closing, tick, scan, published>>
  BY DEF LiquidateOrder, Due
<1>2. /\ order \in Order /\ id \in OrderIds /\ tick \in Tick
      /\ order.userId \in DOMAIN users /\ order.userId \in Users
  BY <1>1 DEF TradingInv, TypeOK, ControlOK, BookConsistent
<1>3. pnl \in Int
  BY <1>2, PnLType DEF Tick
<1>4. reason \in CloseReason \ {"NONE"}
  BY <1>1, ReasonType DEF CloseReason
<1>5. closed \in Closing
  BY <1>2, <1>3, <1>4, ClosedType DEF ClosingOf, Closing, OrderStatus
<1>6. balanceInt \in Int
  BY <1>2, <1>3, GetBalanceType DEF TradingInv, Order
<1> HIDE DEF pnl, reason, balanceInt, closed
<1>7. response' \in Response
  BY <1>1, <1>2, <1>5, <1>6 DEF Response, ErrorCode
<1>8. /\ DOMAIN users' = DOMAIN users
      /\ \A u \in DOMAIN users' : users'[u] \in UserState
      /\ DOMAIN orders' = DOMAIN orders
      /\ \A i \in DOMAIN orders' : orders'[i] \in Order
      /\ \A i \in DOMAIN orders \ {id} : orders'[i] = orders[i]
      /\ BookConsistent'
  BY <1>1, <1>2, <1>3, <1>4, SettleKeepsBook DEF TradingInv
<1>9. TypeOK'
  BY <1>1, <1>7, <1>8 DEF TradingInv, TypeOK
<1>10. ControlOK' /\ CloseCallFresh'
  BY <1>1, <1>2, <1>7 DEF ControlOK, CloseCallFresh
<1>11. IdsFresh'
  BY <1>1, <1>8 DEF TradingInv, IdsFresh
<1>12. ScanFresh'
  BY <1>1, <1>8 DEF TradingInv, ScanFresh, GetOpenOrdersByAsset, IsFirst
<1> QED
  BY <1>8, <1>9, <1>10, <1>11, <1>12 DEF TradingInv

LEMMA PassStep ==
  ASSUME TradingInv, NEW id \in scan,
         SkipOrder(id) \/ LiquidateOrder(id) \/ PublishLiquidation(id)
  PROVE  TradingInv'
<1>1. CASE SkipOrder(id)
  <2>1. response \in Response \cup {None} /\ published \subseteq Closing
    BY DEF TradingInv, TypeOK
  <2> QED
    BY <1>1, <2>1, AfterPassStep DEF SkipOrder
<1>2. CASE LiquidateOrder(id)
  BY <1>2, LiquidateOrderStep
<1>3. CASE PublishLiquidation(id)
  <2>1. published' \subseteq Closing
    BY <1>3, PublishedType DEF PublishLiquidation, TradingInv, ControlOK
  <2> QED
    BY <1>3, <2>1, AfterPassStep DEF PublishLiquidation
<1> QED
  BY <1>1, <1>2, <1>3

\* The timers run at every control point.

LEMMA AgeOrderStep ==
  ASSUME TradingInv, NEW id \in OrderIds, AgeOrder(id)
  PROVE  TradingInv'
<1>1. /\ aged' = aged \cup {id}
      /\ UNCHANGED <<users, orders, market, nextOrderId, pc, closing, tick, scan,
                     response, published>>
  BY DEF AgeOrder
<1>2. TypeOK'
  BY <1>1 DEF TradingInv, TypeOK
<1>3. ControlOK' /\ IdsFresh' /\ BookConsistent'
  BY <1>1 DEF TradingInv, ControlOK, IdsFresh, BookConsistent
<1>4. ScanFresh' /\ CloseCallFresh'
  BY <1>1 DEF TradingInv, ScanFresh, GetOpenOrdersByAsset, IsFirst, CloseCallFresh
<1> QED
  BY <1>2, <1>3, <1>4 DEF TradingInv

LEMMA CleanupStep ==
  ASSUME TradingInv, CleanupOldClosedOrders
  PROVE  TradingInv'
<1>1. /\ orders' = Without(orders, Removable)
      /\ users' = [u \in DOMAIN users |->
                     [users[u] EXCEPT !.orders = @ \ Removable]]
      /\ aged' = aged \ Removable
      /\ UNCHANGED <<market, nextOrderId, pc, closing, tick, scan, response,
                     published>>
  BY DEF CleanupOldClosedOrders
<1>2. \A id \in Removable : id \in DOMAIN orders /\ orders[id].status # "OPEN"
  BY DEF Removable
<1> HIDE DEF Removable
<1>3. /\ DOMAIN orders' = DOMAIN orders \ Removable
      /\ \A id \in DOMAIN orders' : orders'[id] = orders[id]
  BY <1>1 DEF Without
<1>4. /\ DOMAIN users' = DOMAIN users
      /\ \A u \in DOMAIN users : /\ users'[u] \in UserState
                               /\ users'[u].orders = users[u].orders \ Removable
  BY <1>1 DEF TradingInv, TypeOK, UserState
<1>5. TypeOK'
  BY <1>1, <1>3, <1>4 DEF TradingInv, TypeOK
<1>6. ControlOK'
  BY <1>1, <1>4 DEF TradingInv, ControlOK
<1>7. IdsFresh'
  BY <1>1, <1>3 DEF TradingInv, IdsFresh
<1>8. BookConsistent'
  BY <1>3, <1>4 DEF TradingInv, BookConsistent
<1>9. \A a : GetOpenOrdersByAsset(a) \subseteq GetOpenOrdersByAsset(a)'
  BY <1>2, <1>3 DEF GetOpenOrdersByAsset
<1>10. ScanFresh'
  BY <1>1, <1>9 DEF TradingInv, ScanFresh, IsFirst
<1>11. CloseCallFresh'
  BY <1>1, <1>3 DEF TradingInv, CloseCallFresh
<1> QED
  BY <1>5, <1>6, <1>7, <1>8, <1>10, <1>11 DEF TradingInv

-----------------------------------------------------------------------------
\* The theorems

LEMMA TradingInvInit == Init => TradingInv
BY TradingAssumption
   DEF Init, EmptyMap, TradingInv, TypeOK, ControlOK, IdsFresh, BookConsistent,
       ScanFresh, CloseCallFresh

LEMMA TradingInvNext == TradingInv /\ [Next]_vars => TradingInv'
<1> SUFFICES ASSUME TradingInv, [Next]_vars PROVE TradingInv'
  OBVIOUS
<1>1. ASSUME NEW request \in Requests, HandleRequest(request)
      PROVE  TradingInv'
  <2>1. pc = "next" /\ UNCHANGED <<market, tick, scan, published>>
    BY <1>1 DEF HandleRequest
  <2> QED
    BY <1>1, <2>1, RegisterUserStep, PlaceOrderStep, CloseOrderStep, QueryStep
       DEF HandleRequest
<1>2. ASSUME NEW asset \in Assets, NEW p \in TradePrices,
             ProcessMarketUpdate(asset, PollerQuote(p))
      PROVE  TradingInv'
  BY <1>2, MarketUpdateStep, PollerQuoteType, TradingAssumption
<1>3. CASE ConsumerStep
  BY <1>3, CloseAtPriceStep, PublishResponseStep, PassStep DEF ConsumerStep
<1>4. CASE Timer
  BY <1>4, AgeOrderStep, CleanupStep DEF Timer
<1>5. CASE UNCHANGED vars
  BY <1>5 DEF vars, TradingInv, TypeOK, ControlOK, IdsFresh, BookConsistent,
              ScanFresh, GetOpenOrdersByAsset, IsFirst, CloseCallFresh
<1> QED
  BY <1>1, <1>2, <1>3, <1>4, <1>5 DEF Next, TakeMessage

\* The invariant holds in every reachable state.
THEOREM TradingInvariant == Spec => []TradingInv
BY TradingInvInit, TradingInvNext, PTL DEF Spec

\* Every variable keeps its type: no handler stores a malformed order, a
\* non-integer balance or an identifier out of range.
THEOREM TypeCorrect == Spec => []TypeOK
<1>1. TradingInv => TypeOK
  BY DEF TradingInv
<1> QED
  BY <1>1, TradingInvariant, PTL

\* The user's order list and the map of orders always agree, whatever the
\* interleaving of requests, liquidations and cleanup.
THEOREM BookAlwaysConsistent == Spec => []BookConsistent
<1>1. TradingInv => BookConsistent
  BY DEF TradingInv
<1> QED
  BY <1>1, TradingInvariant, PTL

\* The orders a price pass has captured stay in memory and open until it reaches
\* them, so no pass liquidates an order twice; and the order a close request read
\* before its await is still the one in memory, or gone, when it pays its owner.
THEOREM AwaitedReadsAlwaysFresh == Spec => []AwaitedReadsFresh
<1>1. TradingInv => AwaitedReadsFresh
  BY DEF TradingInv, AwaitedReadsFresh
<1> QED
  BY <1>1, TradingInvariant, PTL

-----------------------------------------------------------------------------
\* The life of an order

\* Settling an order its owner has not closed is a step of its life.
LEMMA SettleOrderStep ==
  ASSUME TypeOK, NEW id, NEW order, NEW pnl \in Int,
         NEW reason \in CloseReason \ {"NONE"},
         id \in DOMAIN orders => orders[id].status # "CLOSED",
         Settle(id, order, pnl, reason)
  PROVE  OrderStep
<1>1. /\ DOMAIN orders' = DOMAIN orders
      /\ \A i \in DOMAIN orders \ {id} : orders'[i] = orders[i]
      /\ id \in DOMAIN orders => orders'[id] = Closed(orders[id], pnl, reason)
  BY DEF Settle
<1>2. id \in DOMAIN orders => /\ Terms(orders'[id]) = Terms(orders[id])
                              /\ orders'[id].status # "OPEN"
  BY <1>1, ClosedType DEF TypeOK
<1> QED
  BY <1>1, <1>2 DEF OrderStep

\* No step changes the terms of an order, reopens it or drops an open one.
LEMMA StepKeepsLife ==
  ASSUME TradingInv, [Next]_vars
  PROVE  OrderStep
<1>1. ASSUME NEW request \in Requests, HandleRequest(request)
      PROVE  OrderStep
  <2>1. CASE HandlePlaceOrder(request)
    <3>1. \/ orders' = orders
          \/ orders' = Put(orders, nextOrderId,
                           NewOrder(request.userId, request.payload))
      BY <2>1 DEF HandlePlaceOrder, Refuse
    <3>2. nextOrderId \notin DOMAIN orders
      BY DEF TradingInv, TypeOK, IdsFresh
    <3> QED
      BY <3>1, <3>2 DEF Put, OrderStep
  <2>2. CASE ~HandlePlaceOrder(request)
    <3>1. orders' = orders
      BY <1>1, <2>2
         DEF HandleRequest, HandleRegisterUser, HandleCloseOrder,
             HandleGetBalance, HandleGetOrder, HandleGetUserOrders, Refuse
    <3> QED
      BY <3>1 DEF OrderStep
  <2> QED
    BY <2>1, <2>2
<1>2. CASE CloseAtPrice
  <2> DEFINE order == closing.order
             pnl == PnLIntAt(order, market[order.asset])
  <2>1. CASE order.asset \notin DOMAIN market
    BY <1>2, <2>1 DEF CloseAtPrice, store, OrderStep
  <2>2. CASE order.asset \in DOMAIN market
    <3>1. Settle(closing.orderId, order, pnl, "MANUAL")
      BY <1>2, <2>2 DEF CloseAtPrice
    <3>2. /\ order \in Order
          /\ closing.orderId \in DOMAIN orders
               => orders[closing.orderId].status # "CLOSED"
      BY <1>2 DEF CloseAtPrice, TradingInv, ControlOK, CloseCallFresh, CloseCall
    <3>3. pnl \in Int
      BY <2>2, <3>2, PnLType DEF TradingInv, TypeOK
    <3> QED
      BY <3>1, <3>2, <3>3, SettleOrderStep DEF TradingInv, CloseReason
  <2> QED
    BY <2>1, <2>2
<1>3. ASSUME NEW id \in scan, LiquidateOrder(id)
      PROVE  OrderStep
  <2> DEFINE pnl == PnLIntAt(orders[id], tick.quote)
             reason == ReasonAt(orders[id], tick.quote)
  <2>1. /\ pc = "pass" /\ id \in DOMAIN orders
        /\ orders[id].status # "CLOSED" /\ reason # "NONE"
        /\ Settle(id, orders[id], pnl, reason)
    BY <1>3 DEF LiquidateOrder, Due
  <2>2. pnl \in Int
    BY <2>1, PnLType DEF TradingInv, TypeOK, ControlOK, Tick
  <2>3. reason \in CloseReason \ {"NONE"}
    BY <2>1, ReasonType DEF CloseReason
  <2> QED
    BY <2>1, <2>2, <2>3, SettleOrderStep DEF TradingInv
<1>4. CASE CleanupOldClosedOrders
  BY <1>4 DEF CleanupOldClosedOrders, Removable, Without, OrderStep
<1>5. CASE UNCHANGED orders
  BY <1>5 DEF OrderStep
<1> QED
  BY <1>1, <1>2, <1>3, <1>4, <1>5
     DEF Next, TakeMessage, ConsumerStep, Timer, ProcessMarketUpdate,
         PublishResponse, SkipOrder, PublishLiquidation, AgeOrder, vars

\* Terms are immutable, open orders never vanish, owner-closed orders are final
\* and liquidated orders never reopen, in every behaviour.
THEOREM OrderLifecycleHolds == Spec => OrderLifecycle
<1>1. TradingInv /\ [Next]_vars => [OrderStep]_vars
  BY StepKeepsLife
<1>2. Spec => [][OrderStep]_vars
  BY <1>1, TradingInvariant, PTL DEF Spec
<1> QED
  BY <1>2 DEF OrderLifecycle

-----------------------------------------------------------------------------
\* Responses and published closings

\* Neither publication nor the end of a response loses a closing.
LEMMA PublishKeepsClosings ==
  ASSUME Publishing,
         published' = published \cup ({response.closed} \ {None}),
         NEW id, ClosingSeen(id)
  PROVE  ClosingSeen(id)'
BY DEF ClosingSeen

\* Settling an order publishes or is about to publish its closing; all other
\* orders keep their status.
LEMMA SettleKeepsClosings ==
  ASSUME TypeOK, ClosingsPublished, ~Publishing, Publishing', NEW id \in OrderIds,
         NEW order, NEW pnl, NEW reason,
         Settle(id, order, pnl, reason),
         id \in DOMAIN orders => response'.closed \in Closing
                                   /\ response'.closed.orderId = id,
         UNCHANGED <<nextOrderId, published>>
  PROVE  ClosingsPublished'
<1>1. /\ DOMAIN orders' = DOMAIN orders
      /\ \A i \in DOMAIN orders \ {id} : orders'[i] = orders[i]
  BY DEF Settle
<1>2. \A i \in 1 .. nextOrderId - 1 : ClosingSeen(i) => ClosingSeen(i)'
  BY DEF ClosingSeen
<1>3. id \in DOMAIN orders => ClosingSeen(id)'
  BY NoneAssumption DEF ClosingSeen
<1> QED
  BY <1>1, <1>2, <1>3 DEF ClosingsPublished

\* No closing is lost between the engine and the response stream: no
\* interleaving of closes, liquidations and cleanup drops an order from memory
\* whose closing the database worker could not see.
THEOREM ClosingsAlwaysPublished == Spec => []ClosingsPublished
<1>1. Init => ClosingsPublished
  BY DEF Init, ClosingsPublished
<1>2. ASSUME TradingInv, ClosingsPublished, [Next]_vars
      PROVE  ClosingsPublished'
  <2> USE <1>2
  <2>1. ASSUME NEW request \in Requests, HandleRequest(request)
        PROVE  ClosingsPublished'
    <3>1. ~Publishing /\ published' = published
      BY <2>1 DEF HandleRequest, Publishing
    <3>2. \A i : ClosingSeen(i) => ClosingSeen(i)'
      BY <3>1 DEF ClosingSeen
    <3>3. CASE orders' = orders /\ nextOrderId' = nextOrderId
      BY <3>2, <3>3 DEF ClosingsPublished
    <3>4. CASE ~(orders' = orders /\ nextOrderId' = nextOrderId)
      <4> DEFINE order == NewOrder(request.userId, request.payload)
      <4>1. /\ request.type = "PLACE_ORDER"
            /\ PlaceError(request.userId, request.payload) = "NONE"
            /\ orders' = Put(orders, nextOrderId, order)
            /\ nextOrderId' = nextOrderId + 1
        BY <2>1, <3>4
           DEF HandleRequest, HandleRegisterUser, HandlePlaceOrder,
               HandleCloseOrder, HandleGetBalance, HandleGetOrder,
               HandleGetUserOrders, Refuse
      <4>2. order.status = "OPEN"
        BY DEF NewOrder
      <4> HIDE DEF order
      <4>3. /\ orders'[nextOrderId] = order
            /\ nextOrderId \in DOMAIN orders'
            /\ \A i \in DOMAIN orders \ {nextOrderId} :
                 i \in DOMAIN orders' /\ orders'[i] = orders[i]
        BY <4>1 DEF Put
      <4>4. nextOrderId \in Nat
        BY TradingAssumption DEF TradingInv, TypeOK
      <4> QED
        BY <3>2, <4>1, <4>2, <4>3, <4>4 DEF ClosingsPublished
    <3> QED
      BY <3>3, <3>4
  <2>2. CASE CloseAtPrice
    <3> DEFINE id == closing.orderId
               order == closing.order
               pnl == PnLIntAt(order, market[order.asset])
    <3>1. /\ pc = "price" /\ pc' = "respond" /\ id \in OrderIds /\ order \in Order
          /\ UNCHANGED <<nextOrderId, published>>
      BY <2>2 DEF CloseAtPrice, Respond, TradingInv, ControlOK, CloseCall
    <3>2. CASE order.asset \notin DOMAIN market
      <4>1. UNCHANGED <<users, orders>>
        BY <2>2, <3>2 DEF CloseAtPrice, store
      <4> QED
        BY <3>1, <4>1 DEF ClosingsPublished, ClosingSeen, Publishing
    <3>3. CASE order.asset \in DOMAIN market
      <4>1. Settle(id, order, pnl, "MANUAL")
        BY <2>2, <3>3 DEF CloseAtPrice
      <4>2. id \in DOMAIN orders =>
              response'.closed = ClosingOf(id, Closed(order, pnl, "MANUAL"))
        BY <2>2, <3>3 DEF CloseAtPrice, Respond
      <4>3. pnl \in Int
        BY <3>1, <3>3, PnLType DEF TradingInv, TypeOK
      <4> HIDE DEF pnl
      <4>4. ClosingOf(id, Closed(order, pnl, "MANUAL")) \in Closing
        BY <3>1, <4>3, ClosedType DEF ClosingOf, Closing, CloseReason, OrderStatus
      <4>5. ClosingOf(id, Closed(order, pnl, "MANUAL")).orderId = id
        BY DEF ClosingOf
      <4>6. ~Publishing /\ Publishing'
        BY <3>1 DEF Publishing
      <4> QED
        BY <3>1, <4>1, <4>2, <4>4, <4>5, <4>6, SettleKeepsClosings DEF TradingInv
    <3> QED
      BY <3>2, <3>3
  <2>3. ASSUME NEW id \in scan, LiquidateOrder(id)
        PROVE  ClosingsPublished'
    <3> DEFINE order == orders[id]
               pnl == PnLIntAt(order, tick.quote)
               reason == ReasonAt(order, tick.quote)
    <3>1. /\ pc = "pass" /\ pc' = "publishLiquidation" /\ id \in DOMAIN orders
          /\ reason # "NONE" /\ Settle(id, order, pnl, reason)
          /\ response'.closed = ClosingOf(id, Closed(order, pnl, reason))
          /\ UNCHANGED <<nextOrderId, published>>
      BY <2>3 DEF LiquidateOrder, Due
    <3>2. id \in OrderIds /\ order \in Order /\ pnl \in Int
      BY <3>1, PnLType DEF TradingInv, TypeOK, ControlOK, Tick
    <3>3. reason \in CloseReason \ {"NONE"}
      BY <3>1, ReasonType DEF CloseReason
    <3> HIDE DEF order, pnl, reason
    <3>4. ClosingOf(id, Closed(order, pnl, reason)) \in Closing
      BY <3>2, <3>3, ClosedType DEF ClosingOf, Closing, OrderStatus
    <3>5. ClosingOf(id, Closed(order, pnl, reason)).orderId = id
      BY DEF ClosingOf
    <3>6. ~Publishing /\ Publishing'
      BY <3>1 DEF Publishing
    <3> QED
      BY <3>1, <3>2, <3>4, <3>5, <3>6, SettleKeepsClosings DEF TradingInv
  <2>4. CASE PublishResponse \/ \E id \in scan : PublishLiquidation(id)
    <3>1. /\ Publishing /\ UNCHANGED <<orders, nextOrderId>>
          /\ published' = published \cup ({response.closed} \ {None})
      BY <2>4 DEF PublishResponse, PublishLiquidation, Publishing
    <3>2. \A i : ClosingSeen(i) => ClosingSeen(i)'
      BY <3>1, PublishKeepsClosings
    <3> QED
      BY <3>1, <3>2 DEF ClosingsPublished
  <2>5. CASE CleanupOldClosedOrders
    <3>1. /\ DOMAIN orders' = DOMAIN orders \ Removable
          /\ \A i \in DOMAIN orders' : orders'[i] = orders[i]
          /\ \A i \in Removable : orders[i].status # "OPEN"
          /\ UNCHANGED <<nextOrderId, pc, response, published>>
      BY <2>5 DEF CleanupOldClosedOrders, Without, Removable
    <3> QED
      BY <3>1 DEF ClosingsPublished, ClosingSeen, Publishing
  <2>6. CASE \/ \E asset \in Assets, p \in TradePrices :
                  ProcessMarketUpdate(asset, PollerQuote(p))
             \/ \E id \in scan : SkipOrder(id)
             \/ \E id \in OrderIds : AgeOrder(id)
             \/ UNCHANGED vars
    <3>1. /\ UNCHANGED <<orders, nextOrderId, published>>
          /\ \/ ~Publishing
             \/ UNCHANGED <<pc, response>>
      BY <2>6 DEF ProcessMarketUpdate, SkipOrder, AgeOrder, vars, Publishing
    <3> QED
      BY <3>1 DEF ClosingsPublished, ClosingSeen, Publishing
  <2> QED
    BY <2>1, <2>2, <2>3, <2>4, <2>5, <2>6
       DEF Next, TakeMessage, ConsumerStep, Timer
<1> QED
  BY <1>1, <1>2, TradingInvariant, PTL DEF Spec

-----------------------------------------------------------------------------
\* Truncating division by a positive integer is odd.
LEMMA TruncDivOdd ==
  ASSUME NEW a \in Int, NEW b \in Nat \ {0}
  PROVE  TruncDiv(-a, b) = -TruncDiv(a, b)
<1>1. CASE a > 0
  BY <1>1 DEF TruncDiv
<1>2. CASE a < 0
  <2>1. -a > 0 /\ (-a) \div b \in Int
    BY <1>2
  <2> QED
    BY <1>2, <2>1 DEF TruncDiv
<1>3. CASE a = 0
  <2>1. 0 \div b = 0
    OBVIOUS
  <2> QED
    BY <1>3, <2>1 DEF TruncDiv
<1> QED
  BY <1>1, <1>2, <1>3

\* A LONG wins what a SHORT of the same terms loses, to the last unit: for every
\* scale, price and quantity the truncations on the two sides agree.
THEOREM ZeroSumHolds == Spec => []ZeroSum
<1>1. TradingInv => ZeroSum
  <2> SUFFICES ASSUME TradingInv, NEW id \in DOMAIN orders, NEW a \in DOMAIN market
               PROVE  CalculateCurrentPnL(market[a].bidPriceInt,
                         orders[id].executionPriceInt, orders[id].qtyInt, "LONG")
                        = -CalculateCurrentPnL(market[a].bidPriceInt,
                             orders[id].executionPriceInt, orders[id].qtyInt,
                             "SHORT")
    BY DEF ZeroSum
  <2> DEFINE entry == orders[id].executionPriceInt
             qty == orders[id].qtyInt
             price == market[a].bidPriceInt
  <2>1. entry \in Int /\ qty \in Int /\ price \in Int
    BY DEF TradingInv, TypeOK, Order, Quote
  <2> HIDE DEF entry, qty, price
  <2>2. (entry - price) * qty \in Int
    BY <2>1
  <2>3. (price - entry) * qty = -((entry - price) * qty)
    BY <2>1
  <2>4. Multiply(price - entry, qty) = -Multiply(entry - price, qty)
    BY <2>2, <2>3, TruncDivOdd, PriceScaleAssumption DEF Multiply
  <2>5. CalculateCurrentPnL(price, entry, qty, "LONG")
          = -CalculateCurrentPnL(price, entry, qty, "SHORT")
    BY <2>4 DEF CalculateCurrentPnL
  <2> QED
    BY <2>5 DEF entry, qty, price
<1> QED
  BY <1>1, TradingInvariant, PTL

-----------------------------------------------------------------------------
\* PassComplete

InPass == pc \in {"pass", "publishLiquidation"}

\* The tick is kept no longer than the pass.
TickKept == ~InPass => tick = None

\* Whatever the pass has examined and left open is not due at the price of the tick.
ExaminedNotDue ==
  InPass =>
    \A id \in DOMAIN orders \ scan :
      (orders[id].status = "OPEN" /\ orders[id].asset = tick.asset) =>
        ReasonAt(orders[id], tick.quote) = "NONE"

\* The order whose closing is being published is not open.
PublishedNotOpen ==
  pc = "publishLiquidation" =>
    \A id \in scan \cap DOMAIN orders : IsFirst(id) => orders[id].status # "OPEN"

PassInv == TickKept /\ ExaminedNotDue /\ PublishedNotOpen

\* What PassComplete says of a step, and of the step that ends a pass.
EndsClean ==
  (tick # None /\ tick' = None) \/ (InPass /\ ~InPass') =>
    \A id \in DOMAIN orders' :
      (orders'[id].status = "OPEN" /\ orders'[id].asset = tick.asset) =>
        ReasonAt(orders'[id], tick.quote) = "NONE"

-----------------------------------------------------------------------------
\* Passes

\* Advancing past an order that is gone, closed or not due.
LEMMA AfterPassKeepsInv ==
  ASSUME TradingInv, PassInv, InPass, NEW id \in scan, IsFirst(id),
         AfterPass(scan \ {id}), UNCHANGED orders,
         (id \in DOMAIN orders /\ orders[id].status = "OPEN"
            /\ orders[id].asset = tick.asset) =>
           ReasonAt(orders[id], tick.quote) = "NONE"
  PROVE  PassInv' /\ EndsClean
<1>1. \A i \in DOMAIN orders \ (scan \ {id}) :
        (orders[i].status = "OPEN" /\ orders[i].asset = tick.asset) =>
          ReasonAt(orders[i], tick.quote) = "NONE"
  BY DEF PassInv, ExaminedNotDue
<1>2. /\ scan' = scan \ {id}
      /\ \/ scan' = {} /\ tick' = None /\ pc' = "next"
         \/ scan' # {} /\ tick' = tick /\ pc' = "pass"
  BY DEF AfterPass
<1>3. PassInv'
  BY <1>1, <1>2 DEF PassInv, TickKept, ExaminedNotDue, PublishedNotOpen, InPass
<1>4. EndsClean
  BY <1>1, <1>2 DEF EndsClean, InPass
<1> QED
  BY <1>3, <1>4

\* What a step of the pass preserves, and what is true when it ends.
LEMMA PassNext ==
  ASSUME TradingInv, PassInv, [Next]_vars
  PROVE  PassInv' /\ EndsClean
<1>0. TypeOK /\ ScanFresh /\ TickKept
  BY DEF TradingInv, PassInv
<1>1. CASE (\E request \in Requests : HandleRequest(request)) \/ CloseAtPrice \/ PublishResponse
  <2>1. ~InPass /\ pc' \in {"next", "price", "respond"} /\ tick' = tick
    BY <1>1 DEF HandleRequest, HandleRegisterUser, HandlePlaceOrder, HandleCloseOrder,
       HandleGetBalance, HandleGetOrder, HandleGetUserOrders, Refuse, Respond,
       CloseAtPrice, PublishResponse, InPass
  <2> QED
    BY <1>0, <2>1 DEF PassInv, TickKept, ExaminedNotDue, PublishedNotOpen, InPass,
       EndsClean
<1>2. ASSUME NEW asset \in Assets, NEW quote, ProcessMarketUpdate(asset, quote)
      PROVE  PassInv' /\ EndsClean
  <2>1. /\ pc = "next" /\ UNCHANGED orders /\ scan' = GetOpenOrdersByAsset(asset)
        /\ \/ UNCHANGED <<tick, pc>>
           \/ tick' = [asset |-> asset, quote |-> quote] /\ pc' = "pass"
    BY <1>2 DEF ProcessMarketUpdate
  <2> QED
    BY <1>0, <2>1 DEF PassInv, TickKept, ExaminedNotDue, PublishedNotOpen, InPass,
       EndsClean, GetOpenOrdersByAsset
<1>3. ASSUME NEW id \in scan, SkipOrder(id)
      PROVE  PassInv' /\ EndsClean
  <2>1. id \in DOMAIN orders /\ orders[id].status = "OPEN"
    BY <1>0, <1>3 DEF SkipOrder, ScanFresh, GetOpenOrdersByAsset
  <2>2. ReasonAt(orders[id], tick.quote) = "NONE"
    BY <1>3, <2>1 DEF SkipOrder, Due
  <2> QED
    BY <1>3, <2>2, AfterPassKeepsInv DEF SkipOrder, InPass
<1>4. ASSUME NEW id \in scan, LiquidateOrder(id)
      PROVE  PassInv' /\ EndsClean
  <2> DEFINE pnl == PnLIntAt(orders[id], tick.quote)
             reason == ReasonAt(orders[id], tick.quote)
  <2> HIDE DEF pnl, reason
  <2>1. /\ pc = "pass" /\ pc' = "publishLiquidation" /\ UNCHANGED <<tick, scan>>
        /\ IsFirst(id) /\ Settle(id, orders[id], pnl, reason)
    BY <1>4 DEF LiquidateOrder, pnl, reason
  <2>2. /\ DOMAIN orders' = DOMAIN orders
        /\ \A i \in DOMAIN orders \ {id} : orders'[i] = orders[i]
        /\ id \in DOMAIN orders => orders'[id].status # "OPEN"
    BY <1>0, <2>1 DEF Settle, Closed, TypeOK, Order
  <2>3. \A i \in scan : IsFirst(i) => i = id
    BY <1>0, <2>1, FirstIsUnique DEF TypeOK
  <2>4. ExaminedNotDue'
    BY <1>4, <2>1, <2>2 DEF PassInv, ExaminedNotDue, InPass
  <2>5. PublishedNotOpen'
    BY <2>1, <2>2, <2>3 DEF PublishedNotOpen, IsFirst
  <2> QED
    BY <2>1, <2>4, <2>5 DEF PassInv, TickKept, InPass, EndsClean
<1>5. ASSUME NEW id \in scan, PublishLiquidation(id)
      PROVE  PassInv' /\ EndsClean
  <2>1. ~(id \in DOMAIN orders /\ orders[id].status = "OPEN")
    BY <1>5 DEF PublishLiquidation, PassInv, PublishedNotOpen
  <2> QED
    BY <1>5, <2>1, AfterPassKeepsInv DEF PublishLiquidation, InPass
<1>6. CASE CleanupOldClosedOrders
  BY <1>6 DEF CleanupOldClosedOrders, Without, PassInv, TickKept, ExaminedNotDue,
     PublishedNotOpen, InPass, IsFirst, EndsClean
<1>7. CASE UNCHANGED <<orders, pc, tick, scan>>
  BY <1>7 DEF PassInv, TickKept, ExaminedNotDue, PublishedNotOpen, InPass, IsFirst,
     EndsClean
<1> QED
  BY <1>1, <1>2, <1>3, <1>4, <1>5, <1>6, <1>7
     DEF Next, TakeMessage, ConsumerStep, Timer, AgeOrder, vars

\* A pass leaves no position behind, at any price and however the timers fall
\* between its awaits: what it leaves open was not due.
THEOREM PassAlwaysComplete == Spec => PassComplete
<1>1. Init => PassInv
  BY DEF Init, PassInv, TickKept, ExaminedNotDue, PublishedNotOpen, InPass
<1>2. TradingInv /\ PassInv /\ [Next]_vars => PassInv' /\ EndsClean
  BY PassNext
<1> QED
  BY <1>1, <1>2, TradingInvariant, PTL DEF Spec, PassComplete, EndsClean

-----------------------------------------------------------------------------
\* Responses

\* A request is answered with the balance and the orders its handler leaves.
LEMMA HandlerReplyIsSound ==
  ASSUME TradingInv, NEW request \in Requests, HandleRequest(request)
  PROVE  ResponseSound'
<1> DEFINE user == request.userId
<1>0. TypeOK /\ BookConsistent /\ IdsFresh
  BY DEF TradingInv
<1>1. ASSUME NEW error, error # "NONE", Refuse(request, error)
      PROVE  ResponseSound'
  BY <1>1 DEF Refuse, Respond, ResponseSound
<1>2. CASE HandleRegisterUser(request)
  <2>1. CASE Refuse(request, "ALREADY_REGISTERED")
    BY <1>1, <2>1
  <2>2. CASE ~Refuse(request, "ALREADY_REGISTERED")
    BY <1>2, <2>2 DEF HandleRegisterUser, Respond, ResponseSound, GetBalance, Put
  <2> QED
    BY <2>1, <2>2
<1>3. CASE HandlePlaceOrder(request)
  <2>1. CASE \E error : error # "NONE" /\ Refuse(request, error)
    BY <1>1, <2>1
  <2>2. CASE ~\E error : error # "NONE" /\ Refuse(request, error)
    <3> DEFINE order == NewOrder(user, request.payload)
               balanceInt == GetBalance(user) - order.marginInt
    <3>1. /\ orders' = Put(orders, nextOrderId, order)
          /\ users' = Put(users, user, [balanceInt |-> balanceInt,
                            orders |-> OrdersOf(user) \cup {nextOrderId}])
          /\ Respond(user, "NONE", balanceInt, {nextOrderId}, None)
      BY <1>3, <2>2 DEF HandlePlaceOrder
    <3>2. order.userId = user
      BY DEF NewOrder
    <3> HIDE DEF order, balanceInt
    <3> QED
      BY <3>1, <3>2 DEF Respond, ResponseSound, GetBalance, Put
  <2> QED
    BY <2>1, <2>2
<1>4. CASE HandleCloseOrder(request)
  <2>1. CASE pc' = "price"
    BY <2>1 DEF ResponseSound, Publishing
  <2>2. CASE pc' # "price"
    BY <1>1, <1>4, <2>2 DEF HandleCloseOrder
  <2> QED
    BY <2>1, <2>2
<1>5. CASE HandleGetBalance(request)
  BY <1>5 DEF HandleGetBalance, Respond, ResponseSound, GetBalance
<1>6. CASE HandleGetOrder(request)
  <2>1. CASE Refuse(request, "ORDER_NOT_FOUND")
    BY <1>1, <2>1
  <2>2. CASE ~Refuse(request, "ORDER_NOT_FOUND")
    BY <1>6, <2>2 DEF HandleGetOrder, Owns, Respond, ResponseSound, GetBalance
  <2> QED
    BY <2>1, <2>2
<1>7. CASE HandleGetUserOrders(request)
  <2>1. \A id \in GetUserOrders(user, request.status) : orders[id].userId = user
    BY <1>0 DEF BookConsistent, GetUserOrders, OrdersOf
  <2> QED
    BY <1>7, <2>1 DEF HandleGetUserOrders, Respond, ResponseSound, GetBalance
<1> QED
  BY <1>2, <1>3, <1>4, <1>5, <1>6, <1>7 DEF HandleRequest

\* A settled order is answered with the balance its owner is left with.
LEMMA SettledBalance ==
  ASSUME TypeOK, NEW id, NEW order, NEW pnl, NEW reason, Settle(id, order, pnl, reason),
         NEW user, user = order.userId
  PROVE  /\ GetBalance(user)' = GetBalance(user) + order.marginInt + pnl
         /\ DOMAIN orders' = DOMAIN orders
         /\ id \in DOMAIN orders => orders'[id].userId = orders[id].userId
BY DEF Settle, Put, GetBalance, WithBalance, Closed, TypeOK, Order

\* A response is sound from its handler to its publication: no timer undoes it.
LEMMA ResponseSoundNext ==
  ASSUME TradingInv, ResponseSound, [Next]_vars
  PROVE  ResponseSound'
<1>0. TypeOK /\ ControlOK /\ CloseCallFresh /\ ScanFresh
  BY DEF TradingInv
<1>1. ASSUME NEW request \in Requests, HandleRequest(request) PROVE ResponseSound'
  BY <1>1, HandlerReplyIsSound
<1>2. CASE CloseAtPrice
  <2> DEFINE id == closing.orderId
             order == closing.order
             pnl == PnLIntAt(order, market[order.asset])
  <2>1. /\ closing.userId = order.userId
        /\ id \in DOMAIN orders => orders[id] = order
    BY <1>0, <1>2 DEF CloseCallFresh, CloseAtPrice
  <2>2. CASE order.asset \notin DOMAIN market
    BY <1>2, <2>2 DEF CloseAtPrice, Respond, ResponseSound
  <2>3. CASE order.asset \in DOMAIN market
    <3> HIDE DEF pnl
    <3>1. PICK user, margin : user = order.userId /\ margin = order.marginInt
      OBVIOUS
    <3>2. /\ Settle(id, order, pnl, "MANUAL")
          /\ response'.userId = user
          /\ response'.balanceInt = GetBalance(user) + margin + pnl
          /\ response'.shown = {id} \cap DOMAIN orders
      BY <1>2, <2>1, <2>3, <3>1 DEF CloseAtPrice, Respond, pnl
    <3>3. /\ GetBalance(user)' = GetBalance(user) + margin + pnl
          /\ DOMAIN orders' = DOMAIN orders
          /\ \A i \in {id} \cap DOMAIN orders : orders'[i].userId = user
      BY <1>0, <2>1, <3>1, <3>2
         DEF Settle, Put, GetBalance, WithBalance, Closed, TypeOK, Order
    <3> QED
      BY <3>2, <3>3 DEF ResponseSound, GetBalance
  <2> QED
    BY <2>2, <2>3
<1>3. ASSUME NEW id \in scan, LiquidateOrder(id) PROVE ResponseSound'
  <2> DEFINE pnl == PnLIntAt(orders[id], tick.quote)
             reason == ReasonAt(orders[id], tick.quote)
             user == orders[id].userId
  <2> HIDE DEF pnl, reason
  <2>1. /\ id \in DOMAIN orders /\ Settle(id, orders[id], pnl, reason)
        /\ response'.userId = user
        /\ response'.balanceInt = GetBalance(user) + orders[id].marginInt + pnl
        /\ response'.shown = {id}
    BY <1>3 DEF LiquidateOrder, Due, pnl, reason
  <2>2. /\ GetBalance(user)' = GetBalance(user) + orders[id].marginInt + pnl
        /\ orders'[id].userId = user
    BY <1>0, <2>1, SettledBalance
  <2> QED
    BY <2>1, <2>2 DEF ResponseSound, GetBalance
<1>4. CASE CleanupOldClosedOrders
  <2>1. \A u : GetBalance(u)' = GetBalance(u)
    BY <1>0, <1>4 DEF CleanupOldClosedOrders, GetBalance, TypeOK, UserState
  <2> QED
    BY <1>4, <2>1 DEF CleanupOldClosedOrders, Without, ResponseSound, Publishing
<1>5. ASSUME NEW id \in scan, SkipOrder(id) \/ PublishLiquidation(id)
      PROVE  ResponseSound'
  BY <1>5 DEF SkipOrder, PublishLiquidation, AfterPass, ResponseSound, Publishing
<1>6. ASSUME NEW asset \in Assets, NEW quote, ProcessMarketUpdate(asset, quote)
      PROVE  ResponseSound'
  BY <1>6 DEF ProcessMarketUpdate, ResponseSound, Publishing
<1>7. CASE PublishResponse
  BY <1>7 DEF PublishResponse, ResponseSound, Publishing
<1>8. CASE UNCHANGED <<pc, response, users, orders>>
  BY <1>8 DEF ResponseSound, Publishing, GetBalance
<1> QED
  BY <1>1, <1>2, <1>3, <1>4, <1>5, <1>6, <1>7, <1>8
     DEF Next, TakeMessage, ConsumerStep, Timer, AgeOrder, vars

\* Whatever is awaited while a response is built and published, the orders it
\* carries are its user's and its balance is the one memory holds.
THEOREM ResponseAlwaysSound == Spec => []ResponseSound
<1>1. Init => ResponseSound
  BY DEF Init, ResponseSound, Publishing
<1>2. TradingInv /\ ResponseSound /\ [Next]_vars => ResponseSound'
  BY ResponseSoundNext
<1> QED
  BY <1>1, <1>2, TradingInvariant, PTL DEF Spec
=============================================================================
