------------------------------ MODULE MCTrading ------------------------------
(***************************************************************************)
(* Small instances of Trading for TLC.  Prices have two decimals           *)
(* (PRICE_SCALE = 100), so 1000 is a price of 10.                          *)
(***************************************************************************)
EXTENDS Trading

CONSTANTS u1, u2, btc

Cents(n) == [num |-> n, den |-> 100]

Place(orderType, asset, leverage, qty, stopLoss, takeProfit) ==
  [orderType |-> orderType, asset |-> asset, leverage |-> leverage, qty |-> qty,
   stopLoss |-> stopLoss, takeProfit |-> takeProfit]

\* A plain LONG, a SHORT with a stop loss and a take profit at a loss or a
\* profit of 0.30 and 0.60, and one whose quantity rounds to nothing.
MCPayloads ==
  {Place("LONG", btc, 10, Cents(100), Unset, Unset),
   Place("SHORT", btc, 10, Cents(100), Cents(30), Cents(60)),
   Place("LONG", btc, 10, [num |-> 1, den |-> 1000], Unset, Unset)}

\* The requests that change the engine's state.
Commands == {request \in RequestSpace :
               request.type \in {"REGISTER_USER", "PLACE_ORDER", "CLOSE_ORDER"}}

\* And what the first user may ask: his balance, an order of either user, his
\* open orders.
EveryCommand ==
  Commands \cup {request \in RequestSpace :
                 \/ request.type = "GET_BALANCE" /\ request.userId = u1
                 \/ request.type = "GET_ORDER" /\ request.userId = u1 /\ request.orderId = 1
                 \/ request.type = "GET_USER_ORDERS" /\ request.userId = u1
                      /\ request.status = "OPEN"}

\* Around an entry of 10, a 10x position is called at 9.10 or 10.90.
TwoPrices == {Cents(900), Cents(1000)}

\* The arithmetic: one user, one order, prices a tenth of a percent apart
\* (PRICE_SCALE = 1000), leverages that do and do not divide, and quantities
\* that leave remainders.
FinePayloads ==
  {Place(orderType, btc, leverage, qty, Unset, Unset) :
     orderType \in OrderType, leverage \in {1, 3, 7, 50, 100},
     qty \in {Cents(37), Cents(100), Cents(250)}}

FinePrices == {Cents(n) : n \in {64, 71, 87, 97, 98, 99, 100, 101, 102, 112, 129}}

TradeOnly == {request \in RequestSpace :
                request.type \in {"REGISTER_USER", "PLACE_ORDER"}}
=============================================================================
