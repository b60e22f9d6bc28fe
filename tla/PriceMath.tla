------------------------------ MODULE PriceMath ------------------------------
(***************************************************************************)
(* Fixed-point money arithmetic of the exchange: packages/price-utils and  *)
(* the pure functions of the liquidation engine (utils/liquidation.ts,     *)
(* utils/validation.ts).                                                   *)
(*                                                                         *)
(* A JavaScript number is a rational [num |-> n, den |-> d] with d > 0, a  *)
(* BigInt is an integer.  PRICE_SCALE is 10^8 in the source; the model     *)
(* keeps it a parameter so that TLC's 32-bit integers suffice.             *)
(***************************************************************************)
EXTENDS Integers

CONSTANT PRICE_SCALE

ASSUME PriceScaleAssumption == PRICE_SCALE \in Nat \ {0}

\* Mutants: the call comes when the margin is gone, or too soon.
DEFAULT_LIQUIDATION_PERCENT_Late == 100
DEFAULT_LIQUIDATION_PERCENT_Early == 80

\* The fraction of the margin, in percent, whose loss triggers the margin call.
DEFAULT_LIQUIDATION_PERCENT == 90

OrderType == {"LONG", "SHORT"}

Decimal == [num : Int, den : Nat \ {0}]

-----------------------------------------------------------------------------
\* Mutant: rounds down, as \div does.
TruncDiv_Floor(a, b) == a \div b

\* BigInt division by a positive divisor: truncation toward zero, where TLA+'s
\* \div rounds down.
TruncDiv(a, b) == IF a >= 0 THEN a \div b ELSE -((-a) \div b)

\* Math.round(decimal * 10^8): halves round up.
ToInteger(decimal) ==
  (2 * decimal.num * PRICE_SCALE + decimal.den) \div (2 * decimal.den)

ToDecimal(integer) == [num |-> integer, den |-> PRICE_SCALE]

Multiply(a, b) == TruncDiv(a * b, PRICE_SCALE)

\* Callers pass a positive b; the source throws on zero.
Divide(a, b) == TruncDiv(a * PRICE_SCALE, b)

\* price-poller: the bid and ask it streams for a trade at price p, 0.1% below
\* and above it.
PollerQuote(p) ==
  [bidPriceInt |-> ToInteger([num |-> p.num * 999, den |-> p.den * 1000]),
   askPriceInt |-> ToInteger([num |-> p.num * 1001, den |-> p.den * 1000])]

-----------------------------------------------------------------------------
\* utils/validation.ts
IsValidPrice(priceInt) == priceInt > 0

IsValidQuantity(qtyInt) == qtyInt > 0

\* `leverage` is a whole number in every request the backend's schema lets by.
IsValidLeverage(leverage) == leverage \in 1 .. 100

-----------------------------------------------------------------------------
\* utils/liquidation.ts

LeverageInt(leverage) == ToInteger([num |-> leverage, den |-> 1])

CalculateRequiredMargin(volumeInt, priceInt, leverage) ==
  Divide(Multiply(volumeInt, priceInt), LeverageInt(leverage))

\* x / (100 * L), scaled: how far the price may move against the position.
LiquidationFraction(leverage) ==
  TruncDiv(DEFAULT_LIQUIDATION_PERCENT * PRICE_SCALE, 100 * leverage)

CalculateLongLiquidationPrice(entryPriceInt, leverage) ==
  Multiply(entryPriceInt, PRICE_SCALE - LiquidationFraction(leverage))

CalculateShortLiquidationPrice(entryPriceInt, leverage) ==
  Multiply(entryPriceInt, PRICE_SCALE + LiquidationFraction(leverage))

CalculateLiquidationPrice(entryPriceInt, leverage, orderType) ==
  IF orderType = "LONG"
    THEN CalculateLongLiquidationPrice(entryPriceInt, leverage)
    ELSE CalculateShortLiquidationPrice(entryPriceInt, leverage)

CalculateCurrentPnL(currentPriceInt, entryPriceInt, volumeInt, orderType) ==
  IF orderType = "LONG"
    THEN Multiply(currentPriceInt - entryPriceInt, volumeInt)
    ELSE Multiply(entryPriceInt - currentPriceInt, volumeInt)

ShouldLiquidate(currentPriceInt, liquidationPriceInt, orderType) ==
  IF orderType = "LONG"
    THEN currentPriceInt <= liquidationPriceInt
    ELSE currentPriceInt >= liquidationPriceInt

\* stopLossInt is compared with the size of the loss; 0 means none is set.
ShouldTriggerStopLoss(currentPnLInt, stopLossInt) ==
  /\ stopLossInt # 0
  /\ currentPnLInt < 0
  /\ -currentPnLInt >= stopLossInt

ShouldTriggerTakeProfit(currentPnLInt, takeProfitInt) ==
  /\ takeProfitInt # 0
  /\ currentPnLInt > 0
  /\ currentPnLInt >= takeProfitInt

\* "NONE" stands for the source's null.
GetLiquidationReason(price, liquidationPrice, pnl, stopLoss, takeProfit, side) ==
  IF ShouldLiquidate(price, liquidationPrice, side) THEN "MARGIN_CALL"
  ELSE IF ShouldTriggerStopLoss(pnl, stopLoss) THEN "STOP_LOSS"
  ELSE IF ShouldTriggerTakeProfit(pnl, takeProfit) THEN "TAKE_PROFIT"
  ELSE "NONE"
=============================================================================
