------------------------------ MODULE MCEngine ------------------------------
(***************************************************************************)
(* Small instances of Engine for TLC: one user, one asset, one payload.    *)
(***************************************************************************)
EXTENDS Engine

CONSTANTS u1, btc

Cents(n) == [num |-> n, den |-> 100]

\* A 10x LONG: opened at 10 it is called at 9.
MCPayloads ==
  {[orderType |-> "LONG", asset |-> btc, leverage |-> 10, qty |-> Cents(100),
    stopLoss |-> Unset, takeProfit |-> Unset]}

TwoPrices == {Cents(900), Cents(1000)}

OnePrice == {Cents(1000)}

\* Sign up, place an order, close the first order.
Commands ==
       {request \in RequestSpace : request.type \in {"REGISTER_USER", "PLACE_ORDER"}}
  \cup {request \in RequestSpace : request.type = "CLOSE_ORDER"
                                   /\ request.orderId = 1}

\* Sign up and place an order.
Openings ==
  {request \in RequestSpace : request.type \in {"REGISTER_USER", "PLACE_ORDER"}}

\* Its stop loss is due at the first tick, the spread alone loses 0.02.
StoppedPayloads ==
  {[orderType |-> "LONG", asset |-> btc, leverage |-> 10, qty |-> Cents(100),
    stopLoss |-> Cents(1), takeProfit |-> Unset]}
=============================================================================
