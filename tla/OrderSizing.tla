---------------------------- MODULE OrderSizing ----------------------------
(***************************************************************************)
(* Prices, order sizes and risk caps, as pure operators.  Decimal arithmetic*)
(* becomes exact integer arithmetic: a rate is so many parts of Unit, a     *)
(* price and a quantity are integers, and an amount of money is counted in  *)
(* 1/Unit, so that a fee on an integer notional is an integer.              *)
(***************************************************************************)
EXTENDS Integers, FiniteSetsExt

CONSTANTS
  Unit,
  FEE_RATE, SLIPPAGE_RATE,                  \* ExecutionPolicy
  STOP_PCT, TAKE_PROFIT_R,                  \* StrategyParameters
  PER_POSITION_RISK, AGGREGATE_PLANNED_RISK,
  GROSS_LEVERAGE_CEILING,                   \* a factor, not a rate
  PRICE_TICK, QUANTITY_STEP, MIN_QUANTITY, MIN_NOTIONAL,   \* ContractMetadata
  None

ASSUME SizingAssumption ==
  /\ Unit \in Nat \ {0} /\ FEE_RATE \in Nat /\ SLIPPAGE_RATE \in 0..(Unit - 1)
  /\ STOP_PCT \in Nat \ {0} /\ TAKE_PROFIT_R \in Nat \ {0}
  /\ TAKE_PROFIT_R * STOP_PCT < Unit
  /\ PER_POSITION_RISK \in Nat /\ AGGREGATE_PLANNED_RISK \in Nat
  /\ GROSS_LEVERAGE_CEILING \in Nat
  /\ PRICE_TICK \in Nat \ {0} /\ QUANTITY_STEP \in Nat \ {0}
  /\ MIN_QUANTITY \in Nat \ {0} /\ MIN_NOTIONAL \in Nat

LONG == "LONG"
SHORT == "SHORT"
Directions == {LONG, SHORT}

\* round_to_step to the price tick, of the value num / Unit.
RoundToTick(num, up) ==
  LET tick == Unit * PRICE_TICK
  IN PRICE_TICK * ((IF up THEN num + tick - 1 ELSE num) \div tick)

\* apply_slippage and fill_price: against the trader, and rounded against him.
FillPrice(price, buy) ==
  RoundToTick(price * (IF buy THEN Unit + SLIPPAGE_RATE ELSE Unit - SLIPPAGE_RATE), buy)

\* What the move from entry to exit earns per unit of quantity.
Move(direction, entry, exit) == IF direction = LONG THEN exit - entry ELSE entry - exit

\* Mutant: only the order that opens the position pays a fee.
LossPerQuantityEntryFee(direction, entry, stop) ==
  entry * FEE_RATE - Unit * Move(direction, entry, FillPrice(stop, direction = SHORT))
\* The loss of one unit when the stop fills, with both fees.
LossPerQuantity(direction, entry, stop) ==
  LET stopFill == FillPrice(stop, direction = SHORT)
  IN (entry + stopFill) * FEE_RATE - Unit * Move(direction, entry, stopFill)

\* What equity and the open positions leave of each limit, in 1/Unit^2 for the
\* risk and in 1/Unit for the notional.
Remaining(equity, openRisk, openNotional) ==
  [position  |-> PER_POSITION_RISK * equity,
   aggregate |-> AGGREGATE_PLANNED_RISK * equity - Unit * openRisk,
   notional  |-> GROSS_LEVERAGE_CEILING * equity - Unit * openNotional]

\* Mutant: the risk of the positions already open is not looked at.
WithinCapsAlone(quantity, entry, loss, left) ==
  /\ Unit * quantity * loss <= left.position
  /\ Unit * quantity * entry <= left.notional
  /\ MIN_QUANTITY <= quantity /\ MIN_NOTIONAL <= quantity * entry
WithinCaps(quantity, entry, loss, left) ==
  /\ Unit * quantity * loss <= left.position
  /\ Unit * quantity * loss <= left.aggregate
  /\ Unit * quantity * entry <= left.notional
  /\ MIN_QUANTITY <= quantity /\ MIN_NOTIONAL <= quantity * entry

Order(direction, quantity, entry, stop, takeProfit) ==
  [direction |-> direction, quantity |-> quantity, entry |-> entry, stop |-> stop,
   takeProfit |-> takeProfit,
   risk |-> quantity * LossPerQuantity(direction, entry, stop)]

\* The largest whole number of steps within the caps, at most `limit`, if any.
\* The code divides and rounds down, or counts down; both end here.
Fitted(limit, direction, entry, stop, takeProfit, left) ==
  LET loss == LossPerQuantity(direction, entry, stop)
      fits == {q \in MIN_QUANTITY..limit :
                 q % QUANTITY_STEP = 0 /\ WithinCaps(q, entry, loss, left)}
  IN IF Move(direction, entry, FillPrice(stop, direction = SHORT)) >= 0 \/ fits = {}
     THEN None
     ELSE Order(direction, Max(fits), entry, stop, takeProfit)

\* size_order: stop and target are set from the modelled fill at the reference
\* price; the distances are rounded so that the stop is not the nearer for it.
SizeOrder(equity, direction, reference, openRisk, openNotional) ==
  LET long   == direction = LONG
      entry  == FillPrice(reference, long)
      sign   == IF long THEN 1 ELSE -1
      stop   == RoundToTick(entry * (Unit - sign * STOP_PCT), ~long)
      target == RoundToTick(entry * (Unit + sign * STOP_PCT * TAKE_PROFIT_R), ~long)
      left   == Remaining(equity, openRisk, openNotional)
  IN IF equity <= 0 THEN None
     ELSE Fitted(left.notional \div (Unit * entry), direction, entry, stop, target, left)

\* conservative_fill: no better than the model, no better than any executable
\* price the books or the trade prints show.
ConservativeFill(reference, buy, observed) ==
  LET prices == observed \union {FillPrice(reference, buy)}
  IN RoundToTick(Unit * (IF buy THEN Max(prices) ELSE Min(prices)), buy)

\* fit_executable: the order at that entry, its stop and target kept, its size
\* cut until the caps hold again.
FitExecutable(order, reference, observed, equity, openRisk, openNotional) ==
  Fitted(order.quantity, order.direction,
         ConservativeFill(reference, order.direction = LONG, observed),
         order.stop, order.takeProfit, Remaining(equity, openRisk, openNotional))
=============================================================================
