------------------------ MODULE BacktestAccountProofs ------------------------
(***************************************************************************)
(* Proofs about OrderSizing and BacktestAccount, for every rate, tick and   *)
(* step, every number of symbols, every policy and every price path.        *)
(*                                                                          *)
(* The operators of sizing come first: prices are whole ticks, a fill is    *)
(* never better than the price it was modelled at, and an order that is     *)
(* sized or fitted keeps every cap.  Then the account: what a stop costs is *)
(* what was planned, no entry takes the open positions over a limit, an     *)
(* account with positions is within the loss limits, and the books balance. *)
(***************************************************************************)
EXTENDS BacktestAccount, FiniteSetTheorems, WellFoundedInduction, TLAPS

USE SizingAssumption DEF SizingAssumption, LONG, SHORT, Directions
-----------------------------------------------------------------------------
(* Integers *)

LEMMA Division ==
  ASSUME NEW a \in Int, NEW b \in Nat \ {0}
  PROVE  /\ a \div b \in Int
         /\ b * (a \div b) <= a /\ a < b * (a \div b) + b
         /\ a >= 0 => a \div b >= 0
         /\ a >= b => a \div b >= 1
         /\ a >= 0 /\ a < b => a \div b = 0
  OBVIOUS

LEMMA Signs ==
  ASSUME NEW a \in Int, NEW b \in Int
  PROVE  /\ a * b \in Int /\ 0 * b = 0
         /\ a > 0 /\ b > 0 => a * b > 0
         /\ a >= 0 /\ b >= 0 => a * b >= 0
         /\ a > 0 /\ a * b > 0 => b > 0
  <1>1. a * b \in Int /\ 0 * b = 0
    OBVIOUS
  <1>2. a > 0 /\ b > 0 => a * b > 0
    OBVIOUS
  <1>3. a >= 0 /\ b >= 0 => a * b >= 0
    OBVIOUS
  <1>4. a > 0 /\ a * b > 0 => b > 0
    OBVIOUS
  <1> QED BY <1>1, <1>2, <1>3, <1>4

LEMMA LeastExists ==
  ASSUME NEW S, S \subseteq Nat, S # {}
  PROVE  \E x \in S : \A y \in S : x <= y
  <1>1. PICK m \in S : \A x \in S : ~(<<x, m>> \in OpToRel(<, Nat))
    BY NatLessThanWellFounded, WFMin
  <1>2. OpToRel(<, Nat) = {ss \in Nat \X Nat : ss[1] < ss[2]}
    BY DEF OpToRel
  <1>3. \A x \in S : ~(x < m)
    BY <1>1, <1>2
  <1> QED BY <1>3

LEMMA MaxExists ==
  ASSUME NEW a \in Int, NEW b \in Int, NEW S, S \subseteq a..b, S # {}
  PROVE  Max(S) \in S /\ \A y \in S : Max(S) >= y
  <1> DEFINE gaps == {b - x : x \in S}
  <1>1. gaps \subseteq Nat /\ gaps # {}
    <2>1. \A x \in S : b - x \in Nat
      OBVIOUS
    <2> QED BY <2>1
  <1>2. PICK g \in gaps : \A h \in gaps : g <= h
    BY <1>1, LeastExists
  <1>3. PICK x \in S : g = b - x
    BY <1>2
  <1>4. ASSUME NEW y \in S PROVE x >= y
    <2>1. b - y \in gaps /\ x \in Int /\ y \in Int
      OBVIOUS
    <2>2. b - x <= b - y
      BY <1>2, <1>3, <2>1
    <2> QED BY <2>1, <2>2
  <1> QED BY <1>4 DEF Max
LEMMA MinExists ==
  ASSUME NEW a \in Int, NEW b \in Int, NEW S, S \subseteq a..b, S # {}
  PROVE  Min(S) \in S /\ \A y \in S : Min(S) <= y
  <1> DEFINE gaps == {x - a : x \in S}
  <1>1. gaps \subseteq Nat /\ gaps # {}
    <2>1. \A x \in S : x - a \in Nat
      OBVIOUS
    <2> QED BY <2>1
  <1>2. PICK g \in gaps : \A h \in gaps : g <= h
    BY <1>1, LeastExists
  <1>3. PICK x \in S : g = x - a
    BY <1>2
  <1>4. ASSUME NEW y \in S PROVE x <= y
    <2>1. y - a \in gaps /\ x \in Int /\ y \in Int
      OBVIOUS
    <2>2. x - a <= y - a
      BY <1>2, <1>3, <2>1
    <2> QED BY <2>1, <2>2
  <1> QED BY <1>4 DEF Min
-----------------------------------------------------------------------------
(* Prices *)

LEMMA RoundedIsInteger ==
  ASSUME NEW num \in Int, NEW up \in BOOLEAN
  PROVE  RoundToTick(num, up) \in Int
  <1>1. Unit * PRICE_TICK \in Nat \ {0} /\ PRICE_TICK \in Int
    OBVIOUS
  <1>2. (IF up THEN num + Unit * PRICE_TICK - 1 ELSE num) \in Int
    BY <1>1
  <1> QED BY <1>1, <1>2, Division DEF RoundToTick

LEMMA FillIsInteger ==
  ASSUME NEW price \in Int, NEW buy \in BOOLEAN
  PROVE  FillPrice(price, buy) \in Int
  <1>1. price * (IF buy THEN Unit + SLIPPAGE_RATE ELSE Unit - SLIPPAGE_RATE) \in Int
    OBVIOUS
  <1> QED BY <1>1, RoundedIsInteger DEF FillPrice

LEMMA LossIsInteger ==
  ASSUME NEW direction \in Directions, NEW entry \in Int, NEW stop \in Int
  PROVE  LossPerQuantity(direction, entry, stop) \in Int
  <1>1. FillPrice(stop, direction = SHORT) \in Int
    BY FillIsInteger
  <1>2. Move(direction, entry, FillPrice(stop, direction = SHORT)) \in Int
    BY <1>1 DEF Move
  <1> QED BY <1>1, <1>2 DEF LossPerQuantity
\* Rounding goes up or down, never the other way.
LEMMA Rounding ==
  ASSUME NEW num \in Int
  PROVE  /\ Unit * RoundToTick(num, TRUE) >= num
         /\ Unit * RoundToTick(num, FALSE) <= num
  <1> DEFINE tick == Unit * PRICE_TICK
  <1>1. tick \in Nat \ {0} /\ num + tick - 1 \in Int
    OBVIOUS
  <1>2. tick * ((num + tick - 1) \div tick) >= num
    <2> HIDE DEF tick
    <2>1. (num + tick - 1) < tick * ((num + tick - 1) \div tick) + tick
      BY <1>1, Division
    <2>2. tick * ((num + tick - 1) \div tick) \in Int
      BY <1>1, Division
    <2> QED BY <1>1, <2>1, <2>2
  <1>3. tick * (num \div tick) <= num
    <2> HIDE DEF tick
    <2> QED BY <1>1, Division
  <1>4. (num + tick - 1) \div tick \in Int /\ num \div tick \in Int
    <2> HIDE DEF tick
    <2> QED BY <1>1, Division
  <1>5. \A k \in Int : Unit * (PRICE_TICK * k) = tick * k
    OBVIOUS
  <1>6. /\ Unit * RoundToTick(num, TRUE) = tick * ((num + tick - 1) \div tick)
        /\ Unit * RoundToTick(num, FALSE) = tick * (num \div tick)
    BY <1>4, <1>5 DEF RoundToTick
  <1> QED BY <1>2, <1>3, <1>6

(* A modelled fill is never better than the price with its slippage:        *)
(* rounding goes against the trader on both sides (fill_price).             *)
THEOREM FillIsNoBetter ==
  ASSUME NEW price \in Int
  PROVE  /\ Unit * FillPrice(price, TRUE) >= price * (Unit + SLIPPAGE_RATE)
         /\ Unit * FillPrice(price, FALSE) <= price * (Unit - SLIPPAGE_RATE)
  <1>1. price * (Unit + SLIPPAGE_RATE) \in Int /\ price * (Unit - SLIPPAGE_RATE) \in Int
    OBVIOUS
  <1> QED BY <1>1, Rounding DEF FillPrice

\* Nothing costs something only if its price does.
LEMMA FillOfZero == FillPrice(0, TRUE) = 0 /\ RoundToTick(0, TRUE) = 0
  <1> DEFINE tick == Unit * PRICE_TICK
  <1>1. tick \in Nat \ {0}
    OBVIOUS
  <1>2. (0 + tick - 1) \div tick = 0
    <2> HIDE DEF tick
    <2>1. 0 + tick - 1 \in Int /\ 0 + tick - 1 >= 0 /\ 0 + tick - 1 < tick
      BY <1>1
    <2> QED BY <1>1, <2>1, Division
  <1>3. RoundToTick(0, TRUE) = 0
    BY <1>2 DEF RoundToTick
  <1>4. 0 * (Unit + SLIPPAGE_RATE) = 0
    OBVIOUS
  <1> QED BY <1>3, <1>4 DEF FillPrice

LEMMA FillSign ==
  ASSUME NEW price \in Int, price >= 0
  PROVE  /\ FillPrice(price, FALSE) >= 0
         /\ price > 0 => FillPrice(price, TRUE) > 0
  <1> DEFINE tick == Unit * PRICE_TICK
             cheap == price * (Unit - SLIPPAGE_RATE)
  <1>1. FillPrice(price, TRUE) \in Int
    BY FillIsInteger
  <1>2. ASSUME price > 0 PROVE FillPrice(price, TRUE) > 0
    <2>1. Unit + SLIPPAGE_RATE \in Int /\ Unit + SLIPPAGE_RATE > 0 /\ Unit \in Int /\ Unit > 0
      OBVIOUS
    <2>2. price * (Unit + SLIPPAGE_RATE) > 0 /\ price * (Unit + SLIPPAGE_RATE) \in Int
      BY <1>2, <2>1, Signs
    <2>3. Unit * FillPrice(price, TRUE) >= price * (Unit + SLIPPAGE_RATE)
      BY FillIsNoBetter
    <2>4. Unit * FillPrice(price, TRUE) \in Int
      BY <1>1, <2>1, Signs
    <2> DEFINE paid == Unit * FillPrice(price, TRUE)
               asked == price * (Unit + SLIPPAGE_RATE)
    <2>5. paid > 0
      <3>1. paid \in Int /\ asked \in Int /\ paid >= asked /\ asked > 0
        BY <2>2, <2>3, <2>4
      <3> HIDE DEF paid, asked
      <3> QED BY <3>1
    <2> QED BY <1>1, <2>1, <2>5, Signs
  <1>3. tick \in Nat \ {0}
    OBVIOUS
  <1>4. cheap \in Int /\ cheap >= 0
    <2>1. Unit - SLIPPAGE_RATE \in Int /\ Unit - SLIPPAGE_RATE >= 0
      OBVIOUS
    <2> QED BY <2>1, Signs
  <1>5. cheap \div tick \in Int /\ cheap \div tick >= 0
    <2> HIDE DEF cheap, tick
    <2> QED BY <1>3, <1>4, Division
  <1>6. PRICE_TICK * (cheap \div tick) >= 0
    <2>1. PRICE_TICK \in Int /\ PRICE_TICK >= 0
      OBVIOUS
    <2> HIDE DEF cheap, tick
    <2> QED BY <1>5, <2>1, Signs
  <1>7. FillPrice(price, FALSE) = PRICE_TICK * (cheap \div tick)
    BY DEF FillPrice, RoundToTick
  <1> QED BY <1>2, <1>6, <1>7
-----------------------------------------------------------------------------
(* Orders *)

Left == [position : Int, aggregate : Int, notional : Int]

\* What an order is when there is one: a whole quantity at those prices, within
\* every cap.
IsOrder(order, direction, entry, stop, takeProfit, left) ==
  \E q \in Nat \ {0} :
    /\ order = Order(direction, q, entry, stop, takeProfit)
    /\ WithinCaps(q, entry, LossPerQuantity(direction, entry, stop), left)

(* Whatever is left of the limits, an order that is made is within all of   *)
(* them at once, after every rounding (size_order, fit_executable).         *)
THEOREM FittedKeepsCaps ==
  ASSUME NEW limit \in Int, NEW direction \in Directions, NEW entry \in Int,
         NEW stop \in Int, NEW takeProfit \in Int, NEW left \in Left,
         Fitted(limit, direction, entry, stop, takeProfit, left) # None
  PROVE  IsOrder(Fitted(limit, direction, entry, stop, takeProfit, left),
                 direction, entry, stop, takeProfit, left)
  <1> DEFINE loss == LossPerQuantity(direction, entry, stop)
             fits == {q \in MIN_QUANTITY..limit :
                        q % QUANTITY_STEP = 0 /\ WithinCaps(q, entry, loss, left)}
  <1>1. /\ fits # {}
        /\ Fitted(limit, direction, entry, stop, takeProfit, left)
             = Order(direction, Max(fits), entry, stop, takeProfit)
    BY DEF Fitted
  <1>2. fits \subseteq MIN_QUANTITY..limit
    OBVIOUS
  <1>3. MIN_QUANTITY \in Int
    OBVIOUS
  <1>4. Max(fits) \in fits
    <2> HIDE DEF fits
    <2> QED BY <1>1, <1>2, <1>3, MaxExists
  <1>5. Max(fits) \in Nat \ {0} /\ WithinCaps(Max(fits), entry, loss, left)
    BY <1>4
  <1> QED BY <1>1, <1>5 DEF IsOrder
LEMMA RemainingIsLeft ==
  ASSUME NEW equity \in Int, NEW risk \in Int, NEW notional \in Int
  PROVE  Remaining(equity, risk, notional) \in Left
  <1>1. PER_POSITION_RISK * equity \in Int
    OBVIOUS
  <1>2. AGGREGATE_PLANNED_RISK * equity - Unit * risk \in Int
    OBVIOUS
  <1>3. GROSS_LEVERAGE_CEILING * equity - Unit * notional \in Int
    OBVIOUS
  <1> QED BY <1>1, <1>2, <1>3 DEF Remaining, Left

\* size_order
LEMMA SizedIsOrder ==
  ASSUME NEW equity \in Int, NEW direction \in Directions, NEW reference \in Nat \ {0},
         NEW risk \in Int, NEW notional \in Int,
         SizeOrder(equity, direction, reference, risk, notional) # None
  PROVE  \E entry, stop, takeProfit \in Int :
           IsOrder(SizeOrder(equity, direction, reference, risk, notional),
                   direction, entry, stop, takeProfit, Remaining(equity, risk, notional))
  <1> DEFINE long   == direction = LONG
             entry  == FillPrice(reference, long)
             sign   == IF long THEN 1 ELSE -1
             stop   == RoundToTick(entry * (Unit - sign * STOP_PCT), ~long)
             target == RoundToTick(entry * (Unit + sign * STOP_PCT * TAKE_PROFIT_R), ~long)
             left   == Remaining(equity, risk, notional)
             limit  == left.notional \div (Unit * entry)
  <1>1. /\ SizeOrder(equity, direction, reference, risk, notional)
             = Fitted(limit, direction, entry, stop, target, left)
        /\ Fitted(limit, direction, entry, stop, target, left) # None
    BY DEF SizeOrder
  <1>2. reference \in Int /\ reference > 0 /\ long \in BOOLEAN /\ (~long) \in BOOLEAN
    OBVIOUS
  <1>3. entry \in Int /\ entry >= 0 /\ (long => entry > 0)
    <2> DEFINE bought == FillPrice(reference, TRUE)
               sold   == FillPrice(reference, FALSE)
    <2>1. bought \in Int /\ bought > 0 /\ sold \in Int /\ sold >= 0
      <3>1. FillPrice(reference, TRUE) \in Int
        BY <1>2, FillIsInteger
      <3>2. FillPrice(reference, FALSE) \in Int
        BY <1>2, FillIsInteger
      <3>3. FillPrice(reference, FALSE) >= 0 /\ FillPrice(reference, TRUE) > 0
        <4>1. reference \in Int /\ reference >= 0 /\ reference > 0
          BY <1>2
        <4> QED BY <4>1, FillSign
      <3> QED BY <3>1, <3>2, <3>3
    <2>2. long => entry = bought
      OBVIOUS
    <2>3. ~long => entry = sold
      OBVIOUS
    <2> HIDE DEF bought, sold, entry, long
    <2> QED BY <2>1, <2>2, <2>3
  <1>4. stop \in Int /\ target \in Int
    <2> HIDE DEF entry
    <2>1. sign \in Int
      OBVIOUS
    <2>2. /\ entry * (Unit - sign * STOP_PCT) \in Int
          /\ entry * (Unit + sign * STOP_PCT * TAKE_PROFIT_R) \in Int
      <3> HIDE DEF sign
      <3> QED BY <1>3, <2>1
    <2> HIDE DEF sign, long
    <2> QED BY <1>2, <2>2, RoundedIsInteger
  <1>5. left \in Left
    BY RemainingIsLeft
  <1>6. entry > 0
    <2>1. SUFFICES ASSUME ~long, entry = 0 PROVE FALSE
      BY <1>3
    <2>2. stop = 0
      <3>1. 0 * (Unit - (-1) * STOP_PCT) = 0
        OBVIOUS
      <3>2. stop = RoundToTick(0 * (Unit - (-1) * STOP_PCT), TRUE)
        BY <2>1
      <3> QED BY <3>1, <3>2, FillOfZero
    <2>3. direction = SHORT
      BY <2>1
    <2> HIDE DEF long, entry, sign, stop, target, left, limit
    <2>4. Move(direction, entry, FillPrice(stop, direction = SHORT)) = 0
      <3>1. FillPrice(0, direction = SHORT) = 0
        BY <2>3, FillOfZero
      <3>2. direction # LONG
        BY <2>3
      <3> QED BY <2>1, <2>2, <3>1, <3>2 DEF Move
    <2>5. Fitted(limit, direction, entry, stop, target, left) = None
      BY <2>4 DEF Fitted
    <2> QED BY <1>1, <2>5
  <1>7. limit \in Int
    <2>1. Unit * entry \in Nat \ {0}
      <3> HIDE DEF entry
      <3> QED BY <1>3, <1>6, Signs
    <2>2. left.notional \in Int
      BY <1>5 DEF Left
    <2> HIDE DEF entry, left
    <2> QED BY <2>1, <2>2, Division
  <1> HIDE DEF long, entry, sign, stop, target, left, limit
  <1>8. IsOrder(Fitted(limit, direction, entry, stop, target, left),
                direction, entry, stop, target, left)
    BY <1>1, <1>3, <1>4, <1>5, <1>7, FittedKeepsCaps
  <1>9. IsOrder(SizeOrder(equity, direction, reference, risk, notional),
                direction, entry, stop, target, left)
    BY <1>1, <1>8
  <1> QED BY <1>3, <1>4, <1>9 DEF left

\* Executable prices, as many as the books and the prints show.
Prices == {seen \in SUBSET (Nat \ {0}) : seen = {} \/ \E lo, hi \in seen : seen \subseteq lo..hi}

(* The price an entry is booked at is no better than the modelled fill, nor *)
(* than any executable price seen (conservative_fill).                      *)
THEOREM ConservativeFillIsNoBetter ==
  ASSUME NEW reference \in Int, NEW seen \in Prices
  PROVE  /\ \A buy \in BOOLEAN : ConservativeFill(reference, buy, seen) \in Int
         /\ \A x \in seen \union {FillPrice(reference, TRUE)} :
              ConservativeFill(reference, TRUE, seen) >= x
         /\ \A x \in seen \union {FillPrice(reference, FALSE)} :
              ConservativeFill(reference, FALSE, seen) <= x
  <1>1. ASSUME NEW model \in Int
        PROVE  \E a, b \in Int : seen \union {model} \subseteq a..b
    <2>1. CASE seen = {}
      BY <2>1
    <2>2. CASE seen # {}
      <3>1. PICK lo, hi \in seen : seen \subseteq lo..hi
        BY <2>2 DEF Prices
      <3> DEFINE a == IF lo < model THEN lo ELSE model
                 b == IF hi > model THEN hi ELSE model
      <3>2. lo \in Int /\ hi \in Int
        BY DEF Prices
      <3>3. a \in Int /\ b \in Int /\ model \in a..b
        BY <3>2
      <3>4. ASSUME NEW x \in seen PROVE x \in a..b
        BY <3>1, <3>2
      <3> QED BY <3>3, <3>4
    <2> QED BY <2>1, <2>2
  <1>2. ASSUME NEW buy \in BOOLEAN
        PROVE  LET prices == seen \union {FillPrice(reference, buy)}
               IN /\ Max(prices) \in Int /\ \A y \in prices : Max(prices) >= y
                  /\ Min(prices) \in Int /\ \A y \in prices : Min(prices) <= y
                  /\ prices \subseteq Int
    <2> DEFINE prices == seen \union {FillPrice(reference, buy)}
    <2>1. FillPrice(reference, buy) \in Int
      BY FillIsInteger
    <2>2. PICK a, b \in Int : prices \subseteq a..b
      BY <1>1, <2>1
    <2>3. prices # {} /\ prices \subseteq Int
      BY <2>2
    <2> HIDE DEF prices
    <2>4. Max(prices) \in prices /\ Min(prices) \in prices
          /\ \A y \in prices : Max(prices) >= y /\ Min(prices) <= y
      BY <2>2, <2>3, MaxExists, MinExists
    <2>5. /\ Max(prices) \in Int /\ \A y \in prices : Max(prices) >= y
          /\ Min(prices) \in Int /\ \A y \in prices : Min(prices) <= y
      BY <2>3, <2>4
    <2> QED BY <2>3, <2>5 DEF prices
  <1>3. ASSUME NEW p \in Int
        PROVE  /\ RoundToTick(Unit * p, TRUE) \in Int /\ RoundToTick(Unit * p, FALSE) \in Int
               /\ RoundToTick(Unit * p, TRUE) >= p /\ RoundToTick(Unit * p, FALSE) <= p
    <2> DEFINE up == RoundToTick(Unit * p, TRUE)
               down == RoundToTick(Unit * p, FALSE)
    <2>1. Unit * p \in Int
      OBVIOUS
    <2>2. up \in Int /\ down \in Int
      BY <2>1, RoundedIsInteger
    <2>3. Unit * up >= Unit * p /\ Unit * down <= Unit * p
      BY <2>1, Rounding
    <2> HIDE DEF up, down
    <2>4. \A x, y \in Int : Unit * x >= Unit * y => x >= y
      OBVIOUS
    <2>5. up >= p /\ down <= p
      BY <2>2, <2>3, <2>4
    <2> QED BY <2>2, <2>5 DEF up, down
  <1>4. ASSUME NEW buy \in BOOLEAN PROVE ConservativeFill(reference, buy, seen) \in Int
    BY <1>2, <1>3 DEF ConservativeFill
  <1>5. ASSUME NEW x \in seen \union {FillPrice(reference, TRUE)}
        PROVE  ConservativeFill(reference, TRUE, seen) >= x
    <2> DEFINE worst == Max(seen \union {FillPrice(reference, TRUE)})
    <2>1. worst \in Int /\ worst >= x /\ x \in Int
      BY <1>2
    <2>2. ConservativeFill(reference, TRUE, seen) = RoundToTick(Unit * worst, TRUE)
      BY DEF ConservativeFill
    <2> HIDE DEF worst
    <2> DEFINE fill == RoundToTick(Unit * worst, TRUE)
    <2>3. fill \in Int /\ fill >= worst
      BY <1>3, <2>1
    <2>4. ConservativeFill(reference, TRUE, seen) = fill
      BY <2>2
    <2> HIDE DEF fill
    <2>5. fill >= x
      BY <2>1, <2>3
    <2> QED BY <2>4, <2>5
  <1>6. ASSUME NEW x \in seen \union {FillPrice(reference, FALSE)}
        PROVE  ConservativeFill(reference, FALSE, seen) <= x
    <2> DEFINE worst == Min(seen \union {FillPrice(reference, FALSE)})
    <2>1. worst \in Int /\ worst <= x /\ x \in Int
      BY <1>2
    <2>2. ConservativeFill(reference, FALSE, seen) = RoundToTick(Unit * worst, FALSE)
      BY DEF ConservativeFill
    <2> HIDE DEF worst
    <2> DEFINE fill == RoundToTick(Unit * worst, FALSE)
    <2>3. fill \in Int /\ fill <= worst
      BY <1>3, <2>1
    <2>4. ConservativeFill(reference, FALSE, seen) = fill
      BY <2>2
    <2> HIDE DEF fill
    <2>5. fill <= x
      BY <2>1, <2>3
    <2> QED BY <2>4, <2>5
  <1> QED BY <1>4, <1>5, <1>6

\* fit_executable, of an order size_order made.
LEMMA FittedToPricesIsOrder ==
  ASSUME NEW order, NEW direction \in Directions, order.direction = direction,
         order.quantity \in Int, order.stop \in Int, order.takeProfit \in Int,
         NEW reference \in Int, NEW seen \in Prices, NEW equity \in Int,
         NEW risk \in Int, NEW notional \in Int,
         FitExecutable(order, reference, seen, equity, risk, notional) # None
  PROVE  \E entry, stop, takeProfit \in Int :
           IsOrder(FitExecutable(order, reference, seen, equity, risk, notional),
                   direction, entry, stop, takeProfit, Remaining(equity, risk, notional))
  <1> DEFINE entry == ConservativeFill(reference, direction = LONG, seen)
             left  == Remaining(equity, risk, notional)
  <1>1. entry \in Int
    BY ConservativeFillIsNoBetter
  <1>2. left \in Left
    BY RemainingIsLeft
  <1>3. FitExecutable(order, reference, seen, equity, risk, notional)
          = Fitted(order.quantity, direction, entry, order.stop, order.takeProfit, left)
    BY DEF FitExecutable
  <1> HIDE DEF entry, left
  <1>4. IsOrder(Fitted(order.quantity, direction, entry, order.stop, order.takeProfit, left),
                direction, entry, order.stop, order.takeProfit, left)
    BY <1>1, <1>2, <1>3, FittedKeepsCaps
  <1> QED BY <1>1, <1>3, <1>4 DEF left

-----------------------------------------------------------------------------
(* Sums over the symbols.  Total is a sum by recursion on the index; that the *)
(* recursion has a solution, and what it is, comes from a least              *)
(* counterexample.                                                          *)

Sums(amount, n, f) ==
  /\ f \in [0..n -> Int] /\ f[0] = 0
  /\ \A i \in 1..n : f[i] = f[i - 1] + amount[SUPPORTED_SYMBOLS[i]]

LEMMA Indices ==
  /\ N \in Nat /\ \A i \in 1..N : SUPPORTED_SYMBOLS[i] \in Symbols
  /\ \A s \in Symbols : \E k \in 1..N : /\ SUPPORTED_SYMBOLS[k] = s
                                        /\ \A i \in 1..N : SUPPORTED_SYMBOLS[i] = s => i = k
  <1>1. /\ SUPPORTED_SYMBOLS \in Seq(Symbols)
        /\ \A i, j \in 1..N : SUPPORTED_SYMBOLS[i] = SUPPORTED_SYMBOLS[j] => i = j
    BY AccountAssumption DEF AccountAssumption
  <1>2. N \in Nat /\ DOMAIN SUPPORTED_SYMBOLS = 1..N
    BY <1>1 DEF N
  <1>3. \A i \in 1..N : SUPPORTED_SYMBOLS[i] \in Symbols
    BY <1>2 DEF Symbols
  <1>4. \A s \in Symbols : \E k \in 1..N : SUPPORTED_SYMBOLS[k] = s
    BY <1>2 DEF Symbols
  <1> QED BY <1>1, <1>2, <1>3, <1>4

LEMMA SumsExist ==
  ASSUME NEW amount \in [Symbols -> Int]
  PROVE  \E f : Sums(amount, N, f)
  <1> DEFINE bad == {n \in 0..N : ~\E f : Sums(amount, n, f)}
  <1>1. SUFFICES ASSUME bad # {} PROVE FALSE
    <2>1. N \in 0..N
      BY Indices
    <2> QED BY <2>1
  <1>2. bad \subseteq Nat
    BY Indices
  <1>3. PICK m \in bad : \A n \in bad : m <= n
    <2> HIDE DEF bad
    <2> QED BY <1>1, <1>2, LeastExists
  <1>4. m \in 0..N /\ m \in Nat /\ ~\E f : Sums(amount, m, f)
    BY <1>2, <1>3
  <1>5. CASE m = 0
    <2>1. Sums(amount, 0, [i \in 0..0 |-> 0])
      BY DEF Sums
    <2> QED BY <1>4, <1>5, <2>1
  <1>6. CASE m # 0
    <2>1. m - 1 \in 0..N /\ ~(m <= m - 1) /\ m \in 1..N
      BY <1>4, <1>6, Indices
    <2>2. \E f : Sums(amount, m - 1, f)
      BY <1>3, <2>1
    <2>3. PICK f : Sums(amount, m - 1, f)
      BY <2>2
    <2>4. amount[SUPPORTED_SYMBOLS[m]] \in Int
      BY <2>1, Indices
    <2> DEFINE last == f[m - 1] + amount[SUPPORTED_SYMBOLS[m]]
               g == [i \in 0..m |-> IF i = m THEN last ELSE f[i]]
    <2>5. last \in Int
      BY <2>1, <2>3, <2>4 DEF Sums
    <2>6. g \in [0..m -> Int]
      <3>1. \A i \in 0..m : i # m => f[i] \in Int
        BY <1>4, <2>1, <2>3 DEF Sums
      <3> HIDE DEF last
      <3> QED BY <2>5, <3>1
    <2>7. g[0] = 0
      BY <1>4, <1>6, <2>3 DEF Sums
    <2>8. ASSUME NEW i \in 1..m PROVE g[i] = g[i - 1] + amount[SUPPORTED_SYMBOLS[i]]
      <3>1. CASE i = m
        BY <1>4, <2>1, <3>1
      <3>2. CASE i # m
        <4>1. i \in 1..(m - 1) /\ i \in 0..m /\ i - 1 \in 0..m /\ i - 1 # m
          BY <1>4, <3>2
        <4>2. f[i] = f[i - 1] + amount[SUPPORTED_SYMBOLS[i]]
          BY <2>3, <4>1 DEF Sums
        <4>3. g[i] = f[i] /\ g[i - 1] = f[i - 1]
          BY <3>2, <4>1
        <4> QED BY <4>2, <4>3
      <3> QED BY <3>1, <3>2
    <2> HIDE DEF g
    <2>9. Sums(amount, m, g)
      BY <2>6, <2>7, <2>8 DEF Sums
    <2> QED BY <1>4, <2>9
  <1> QED BY <1>5, <1>6

LEMMA TotalIsSum ==
  ASSUME NEW amount \in [Symbols -> Int]
  PROVE  \E f : Sums(amount, N, f) /\ Total(amount) = f[N]
  <1> DEFINE Recurrence(u) ==
        u = [i \in 0..N |-> IF i = 0 THEN 0 ELSE u[i - 1] + amount[SUPPORTED_SYMBOLS[i]]]
      upTo == CHOOSE u : Recurrence(u)
  <1>1. Total(amount) = upTo[N]
    BY DEF Total
  <1>2. PICK f : Sums(amount, N, f)
    BY SumsExist
  <1>3. Recurrence(f)
    <2> DEFINE r == [i \in 0..N |-> IF i = 0 THEN 0 ELSE f[i - 1] + amount[SUPPORTED_SYMBOLS[i]]]
    <2>1. f = [i \in 0..N |-> f[i]]
      BY <1>2 DEF Sums
    <2>2. \A i \in 0..N : f[i] = r[i]
      BY <1>2, Indices DEF Sums
    <2> QED BY <2>1, <2>2
  <1>4. Recurrence(upTo)
    <2> HIDE DEF Recurrence
    <2> QED BY <1>3
  <1> DEFINE bad == {i \in 0..N : upTo[i] # f[i]}
  <1>5. ASSUME bad # {} PROVE FALSE
    <2> HIDE DEF upTo
    <2>1. bad \subseteq Nat
      BY Indices
    <2>2. PICK m \in bad : \A i \in bad : m <= i
      <3> HIDE DEF bad
      <3> QED BY <1>5, <2>1, LeastExists
    <2>3. m \in 0..N /\ m \in Nat /\ upTo[m] # f[m]
      BY <2>1, <2>2
    <2>4. m # 0
      <3>1. upTo[0] = 0
        BY <1>4, Indices
      <3>2. f[0] = 0
        BY <1>2 DEF Sums
      <3> QED BY <2>3, <3>1, <3>2
    <2>5. m - 1 \in 0..N /\ ~(m <= m - 1) /\ m \in 1..N
      BY <2>3, <2>4, Indices
    <2>6. upTo[m - 1] = f[m - 1]
      BY <2>2, <2>5
    <2>7. upTo[m] = upTo[m - 1] + amount[SUPPORTED_SYMBOLS[m]]
      BY <1>4, <2>3, <2>4
    <2>8. f[m] = f[m - 1] + amount[SUPPORTED_SYMBOLS[m]]
      BY <1>2, <2>5 DEF Sums
    <2> QED BY <2>3, <2>6, <2>7, <2>8
  <1>6. upTo[N] = f[N]
    <2>1. N \in 0..N
      BY Indices
    <2> HIDE DEF upTo
    <2> QED BY <1>5, <2>1
  <1> QED BY <1>1, <1>2, <1>6

LEMMA TotalIsInteger ==
  ASSUME NEW amount \in [Symbols -> Int]
  PROVE  Total(amount) \in Int
  <1>1. PICK f : Sums(amount, N, f) /\ Total(amount) = f[N]
    BY TotalIsSum
  <1>2. N \in 0..N
    BY Indices
  <1> QED BY <1>1, <1>2 DEF Sums

\* A sum changes by what the amount of one symbol changes by.
LEMMA TotalOfOne ==
  ASSUME NEW g \in [Symbols -> Int], NEW h \in [Symbols -> Int], NEW s \in Symbols,
         \A x \in Symbols \ {s} : h[x] = g[x]
  PROVE  Total(h) = Total(g) + (h[s] - g[s])
  <1>1. PICK f : Sums(g, N, f) /\ Total(g) = f[N]
    BY TotalIsSum
  <1>2. PICK e : Sums(h, N, e) /\ Total(h) = e[N]
    BY TotalIsSum
  <1>3. PICK k \in 1..N : /\ SUPPORTED_SYMBOLS[k] = s
                          /\ \A i \in 1..N : SUPPORTED_SYMBOLS[i] = s => i = k
    BY Indices
  <1> DEFINE more(i) == IF k <= i THEN h[s] - g[s] ELSE 0
             bad == {i \in 0..N : e[i] # f[i] + more(i)}
  <1>4. ASSUME bad # {} PROVE FALSE
    <2>1. bad \subseteq Nat
      BY Indices
    <2>2. PICK m \in bad : \A i \in bad : m <= i
      <3> HIDE DEF bad
      <3> QED BY <1>4, <2>1, LeastExists
    <2>3. m \in 0..N /\ m \in Nat /\ e[m] # f[m] + more(m)
      BY <2>1, <2>2
    <2>4. m # 0
      <3>1. e[0] = 0 /\ f[0] = 0
        BY <1>1, <1>2 DEF Sums
      <3> QED BY <1>3, <2>3, <3>1, Indices
    <2>5. m - 1 \in 0..N /\ ~(m <= m - 1) /\ m \in 1..N
      BY <2>3, <2>4, Indices
    <2>6. e[m - 1] = f[m - 1] + more(m - 1)
      BY <2>2, <2>5
    <2>7. e[m] = e[m - 1] + h[SUPPORTED_SYMBOLS[m]] /\ f[m] = f[m - 1] + g[SUPPORTED_SYMBOLS[m]]
      BY <1>1, <1>2, <2>5 DEF Sums
    <2>8. /\ h[SUPPORTED_SYMBOLS[m]] \in Int /\ g[SUPPORTED_SYMBOLS[m]] \in Int
          /\ e[m - 1] \in Int /\ f[m - 1] \in Int /\ h[s] \in Int /\ g[s] \in Int
      <3>1. SUPPORTED_SYMBOLS[m] \in Symbols
        BY <2>5, Indices
      <3>2. e[m - 1] \in Int /\ f[m - 1] \in Int
        BY <1>1, <1>2, <2>5 DEF Sums
      <3> QED BY <3>1, <3>2
    <2>9. CASE m = k
      <3>1. more(m) = h[s] - g[s] /\ more(m - 1) = 0
        BY <2>5, <2>9, Indices
      <3>2. SUPPORTED_SYMBOLS[m] = s
        BY <1>3, <2>9
      <3> HIDE DEF more
      <3> QED BY <2>3, <2>6, <2>7, <2>8, <3>1, <3>2
    <2>10. CASE m # k
      <3>1. more(m) = more(m - 1) /\ more(m) \in Int
        <4>1. m \in Int /\ k \in Int /\ (k <= m <=> k <= m - 1)
          BY <2>3, <2>10, Indices
        <4> QED BY <2>8, <4>1
      <3>2. h[SUPPORTED_SYMBOLS[m]] = g[SUPPORTED_SYMBOLS[m]]
        BY <1>3, <2>5, <2>10, Indices
      <3> HIDE DEF more
      <3> QED BY <2>3, <2>6, <2>7, <2>8, <3>1, <3>2
    <2> QED BY <2>9, <2>10
  <1>5. e[N] = f[N] + more(N)
    <2>1. N \in 0..N
      BY Indices
    <2> HIDE DEF more
    <2> QED BY <1>4, <2>1
  <1>6. more(N) = h[s] - g[s]
    BY <1>3, Indices
  <1> HIDE DEF more
  <1> QED BY <1>1, <1>2, <1>5, <1>6

LEMMA TotalOfSum ==
  ASSUME NEW g \in [Symbols -> Int], NEW h \in [Symbols -> Int], NEW k \in [Symbols -> Int],
         \A s \in Symbols : k[s] = g[s] + h[s]
  PROVE  Total(k) = Total(g) + Total(h)
  <1>1. PICK d : Sums(g, N, d) /\ Total(g) = d[N]
    BY TotalIsSum
  <1>2. PICK e : Sums(h, N, e) /\ Total(h) = e[N]
    BY TotalIsSum
  <1>3. PICK f : Sums(k, N, f) /\ Total(k) = f[N]
    BY TotalIsSum
  <1> DEFINE bad == {i \in 0..N : f[i] # d[i] + e[i]}
  <1>4. ASSUME bad # {} PROVE FALSE
    <2>1. bad \subseteq Nat
      BY Indices
    <2>2. PICK m \in bad : \A i \in bad : m <= i
      <3> HIDE DEF bad
      <3> QED BY <1>4, <2>1, LeastExists
    <2>3. m \in 0..N /\ m \in Nat /\ f[m] # d[m] + e[m]
      BY <2>1, <2>2
    <2>4. m # 0
      BY <1>1, <1>2, <1>3, <2>3 DEF Sums
    <2>5. m - 1 \in 0..N /\ ~(m <= m - 1) /\ m \in 1..N
      BY <2>3, <2>4, Indices
    <2>6. f[m - 1] = d[m - 1] + e[m - 1]
      BY <2>2, <2>5
    <2> DEFINE s == SUPPORTED_SYMBOLS[m]
    <2>7. s \in Symbols
      BY <2>5, Indices
    <2>8. f[m] = f[m - 1] + k[s] /\ d[m] = d[m - 1] + g[s] /\ e[m] = e[m - 1] + h[s]
      BY <1>1, <1>2, <1>3, <2>5 DEF Sums
    <2>9. d[m - 1] \in Int /\ e[m - 1] \in Int
      BY <1>1, <1>2, <2>5 DEF Sums
    <2> HIDE DEF s
    <2>10. g[s] \in Int /\ h[s] \in Int /\ k[s] = g[s] + h[s]
      BY <2>7
    <2> QED BY <2>3, <2>6, <2>8, <2>9, <2>10
  <1>5. f[N] = d[N] + e[N]
    <2>1. N \in 0..N
      BY Indices
    <2> QED BY <1>4, <2>1
  <1> QED BY <1>1, <1>2, <1>3, <1>5

LEMMA TotalOfNothing ==
  ASSUME NEW c \in [Symbols -> Int], \A s \in Symbols : c[s] = 0
  PROVE  Total(c) = 0
  <1>1. \A s \in Symbols : c[s] = c[s] + c[s]
    OBVIOUS
  <1>2. \A g, h, k \in [Symbols -> Int] :
          (\A s \in Symbols : k[s] = g[s] + h[s]) => Total(k) = Total(g) + Total(h)
    BY TotalOfSum
  <1>3. Total(c) = Total(c) + Total(c)
    BY <1>1, <1>2
  <1>4. PICK t \in Int : t = Total(c)
    BY TotalIsInteger
  <1>5. t = t + t
    BY <1>3, <1>4
  <1>6. t = 0
    BY <1>5
  <1> QED BY <1>4, <1>6
-----------------------------------------------------------------------------
(* Sums over a finite set, as MapThenSumSet takes them: by a recursion on     *)
(* subsets, whose value does not depend on the order of the members.          *)

Additive(T, amount, g) ==
  /\ g \in [SUBSET T -> Int] /\ g[{}] = 0
  /\ \A s \in SUBSET T : \A x \in s : g[s] = amount[x] + g[s \ {x}]

LEMMA AdditiveExists ==
  ASSUME NEW S, IsFiniteSet(S), NEW amount, \A x \in S : amount[x] \in Int
  PROVE  \E g : Additive(S, amount, g)
  <1> DEFINE Bad(k) == \E T \in SUBSET S : Cardinality(T) = k /\ ~\E g : Additive(T, amount, g)
             bad == {k \in Nat : Bad(k)}
  <1>1. SUFFICES ASSUME bad # {} PROVE FALSE
    <2>1. Cardinality(S) \in Nat
      BY FS_CardinalityType
    <2> QED BY <2>1
  <1>2. PICK k \in bad : \A j \in bad : k <= j
    <2>1. bad \subseteq Nat
      OBVIOUS
    <2> HIDE DEF bad
    <2> QED BY <1>1, <2>1, LeastExists
  <1>3. PICK T \in SUBSET S : Cardinality(T) = k /\ ~\E g : Additive(T, amount, g)
    BY <1>2
  <1>4. IsFiniteSet(T)
    BY <1>3, FS_Subset
  <1>5. CASE T = {}
    <2>1. Additive({}, amount, [s \in SUBSET {} |-> 0])
      BY DEF Additive
    <2> QED BY <1>3, <1>5, <2>1
  <1>6. CASE T # {}
    <2>1. PICK x \in T : TRUE
      BY <1>6
    <2> DEFINE U == T \ {x}
    <2>2. U \in SUBSET S /\ Cardinality(U) = k - 1 /\ k - 1 \in Nat
      <3>1. Cardinality(U) = k - 1
        BY <1>3, <1>4, <2>1, FS_RemoveElement
      <3>2. Cardinality(U) \in Nat
        BY <1>4, FS_RemoveElement, FS_CardinalityType
      <3> QED BY <3>1, <3>2
    <2>3. \E g : Additive(U, amount, g)
      <3> HIDE DEF U
      <3>1. ~(k <= k - 1)
        BY <1>2
      <3>2. k - 1 \notin bad
        BY <1>2, <3>1
      <3> QED BY <2>2, <3>2
    <2>4. PICK g : Additive(U, amount, g)
      BY <2>3
    <2> DEFINE h == [s \in SUBSET T |-> IF x \in s THEN amount[x] + g[s \ {x}] ELSE g[s]]
    <2>5. amount[x] \in Int
      BY <1>3, <2>1
    <2>6. \A s \in SUBSET T : s \ {x} \in SUBSET U /\ g[s \ {x}] \in Int
      BY <2>4 DEF Additive
    <2>7. \A s \in SUBSET T : x \notin s => s \in SUBSET U /\ g[s] \in Int
      BY <2>4 DEF Additive
    <2>8. h \in [SUBSET T -> Int] /\ h[{}] = 0
      BY <2>4, <2>5, <2>6, <2>7 DEF Additive
    <2>9. ASSUME NEW s \in SUBSET T, NEW y \in s
          PROVE  h[s] = amount[y] + h[s \ {y}]
      <3>1. CASE y = x
        BY <3>1
      <3>2. CASE y # x /\ x \in s
        <4>1. /\ s \ {x} \in SUBSET U /\ y \in s \ {x}
              /\ (s \ {x}) \ {y} = (s \ {y}) \ {x} /\ x \in s \ {y}
          BY <3>2
        <4>2. g[s \ {x}] = amount[y] + g[(s \ {y}) \ {x}]
          <5> DEFINE u == s \ {x}
          <5>1. u \in SUBSET U /\ y \in u /\ u \ {y} = (s \ {y}) \ {x}
            BY <4>1
          <5> HIDE DEF u, U, h
          <5>2. g[u] = amount[y] + g[u \ {y}]
            BY <2>4, <5>1 DEF Additive
          <5> QED BY <5>1, <5>2 DEF u
        <4>3. h[s] = amount[x] + g[s \ {x}] /\ h[s \ {y}] = amount[x] + g[(s \ {y}) \ {x}]
          BY <3>2, <4>1
        <4>4. g[s \ {x}] \in Int /\ g[(s \ {y}) \ {x}] \in Int /\ amount[y] \in Int
          BY <1>3, <2>6
        <4> HIDE DEF h
        <4> QED BY <2>5, <4>2, <4>3, <4>4
      <3>3. CASE x \notin s
        BY <2>4, <2>7, <3>3 DEF Additive
      <3> QED BY <3>1, <3>2, <3>3
    <2> HIDE DEF h
    <2>10. Additive(T, amount, h)
      BY <2>8, <2>9 DEF Additive
    <2> QED BY <1>3, <2>10
  <1> QED BY <1>5, <1>6

\* What the recursion computes when next picks the member to take away.
Iterated(S, amount, next, iter) ==
  /\ iter[{}] = 0
  /\ \A s \in SUBSET S : s # {} =>
       next[s] \in s /\ iter[s] = amount[next[s]] + iter[s \ {next[s]}]

\* A solution of the recursion is the additive function.
LEMMA SolutionIsAdditive ==
  ASSUME NEW S, IsFiniteSet(S), NEW amount, NEW g, Additive(S, amount, g),
         NEW next, NEW iter, Iterated(S, amount, next, iter)
  PROVE  iter[S] = g[S]
  <1> DEFINE Bad(k) == \E T \in SUBSET S : Cardinality(T) = k /\ iter[T] # g[T]
             bad == {k \in Nat : Bad(k)}
  <1>1. ASSUME bad # {} PROVE FALSE
    <2>1. PICK k \in bad : \A j \in bad : k <= j
      <3>1. bad \subseteq Nat
        OBVIOUS
      <3> HIDE DEF bad
      <3> QED BY <1>1, <3>1, LeastExists
    <2>2. PICK T \in SUBSET S : Cardinality(T) = k /\ iter[T] # g[T]
      BY <2>1
    <2>3. IsFiniteSet(T)
      BY <2>2, FS_Subset
    <2>4. T # {}
      <3>1. iter[{}] = 0 /\ g[{}] = 0
        BY DEF Additive, Iterated
      <3> QED BY <2>2, <3>1
    <2> DEFINE x == next[T]
    <2>5. x \in T
      BY <2>2, <2>4 DEF Iterated
    <2>6. iter[T] = amount[x] + iter[T \ {x}]
      BY <2>2, <2>4 DEF Iterated
    <2> HIDE DEF x
    <2>7. g[T] = amount[x] + g[T \ {x}]
      BY <2>2, <2>5 DEF Additive
    <2> DEFINE U == T \ {x}
    <2>8. U \in SUBSET S /\ Cardinality(U) = k - 1 /\ k - 1 \in Nat
      <3>1. Cardinality(U) = k - 1
        BY <2>2, <2>3, <2>5, FS_RemoveElement
      <3>2. Cardinality(U) \in Nat
        BY <2>3, FS_RemoveElement, FS_CardinalityType
      <3> QED BY <3>1, <3>2
    <2>9. iter[U] = g[U]
      <3> HIDE DEF U
      <3>1. ~(k <= k - 1)
        BY <2>1
      <3>2. k - 1 \notin bad
        BY <2>1, <3>1
      <3> QED BY <2>8, <3>2
    <2> QED BY <2>2, <2>6, <2>7, <2>9
  <1>2. iter[S] = g[S]
    <2>1. Cardinality(S) \in Nat
      BY FS_CardinalityType
    <2> QED BY <1>1, <2>1
  <1> QED BY <1>2

LEMMA NetIsAdditive ==
  ASSUME NEW S, IsFiniteSet(S), NEW amount, \A x \in S : amount[x] = x.net,
         NEW g, Additive(S, amount, g)
  PROVE  Net(S) = g[S]
  <1> DEFINE Recurrence(u) ==
        u = [s \in SUBSET S |->
               IF s = {} THEN 0 ELSE (CHOOSE x \in s : TRUE).net + u[s \ {CHOOSE x \in s : TRUE}]]
      iter == CHOOSE u : Recurrence(u)
  <1>1. Net(S) = iter[S]
    BY DEF Net, MapThenSumSet, MapThenFoldSet
  <1>2. Recurrence(g)
    <2> DEFINE r == [s \in SUBSET S |->
               IF s = {} THEN 0 ELSE (CHOOSE x \in s : TRUE).net + g[s \ {CHOOSE x \in s : TRUE}]]
    <2>1. g = [s \in SUBSET S |-> g[s]]
      BY DEF Additive
    <2>2. ASSUME NEW s \in SUBSET S PROVE g[s] = r[s]
      <3>1. s # {} => (CHOOSE x \in s : TRUE) \in s
        OBVIOUS
      <3> QED BY <3>1 DEF Additive
    <2> QED BY <2>1, <2>2
  <1>3. Recurrence(iter)
    <2> HIDE DEF Recurrence
    <2> QED BY <1>2
  <1> DEFINE next == [s \in SUBSET S |-> CHOOSE x \in s : TRUE]
  <1>4. iter[{}] = 0 /\ \A s \in SUBSET S : s # {} => next[s] \in s
    <2> HIDE DEF iter
    <2> QED BY <1>3
  <1>5. ASSUME NEW s \in SUBSET S, s # {}
        PROVE  iter[s] = amount[next[s]] + iter[s \ {next[s]}]
    <2> HIDE DEF iter
    <2>1. next[s] \in S /\ amount[next[s]] = next[s].net
      BY <1>4, <1>5
    <2> QED BY <1>3, <1>5, <2>1
  <1> HIDE DEF iter, next
  <1>6. Iterated(S, amount, next, iter)
    BY <1>4, <1>5 DEF Iterated
  <1> QED BY <1>1, <1>6, SolutionIsAdditive

LEMMA NetOfNone == Net({}) = 0
  <1> DEFINE amount == [x \in {} |-> 0]
             g == [s \in SUBSET {} |-> 0]
  <1>1. Additive({}, amount, g)
    BY DEF Additive
  <1>2. g[{}] = 0
    OBVIOUS
  <1>3. \A x \in {} : amount[x] = x.net
    OBVIOUS
  <1> HIDE DEF amount, g
  <1>4. Net({}) = g[{}]
    BY <1>1, <1>3, FS_EmptySet, NetIsAdditive
  <1> QED BY <1>2, <1>4

LEMMA NetIsInteger ==
  ASSUME NEW S, IsFiniteSet(S), \A x \in S : x.net \in Int
  PROVE  Net(S) \in Int
  <1> DEFINE amount == [x \in S |-> x.net]
  <1>1. PICK g : Additive(S, amount, g)
    BY AdditiveExists
  <1>2. Net(S) = g[S]
    BY <1>1, NetIsAdditive
  <1> QED BY <1>1, <1>2 DEF Additive

LEMMA NetOfOneMore ==
  ASSUME NEW S, IsFiniteSet(S), NEW x, x \notin S, \A y \in S \union {x} : y.net \in Int
  PROVE  Net(S \union {x}) = Net(S) + x.net
  <1> DEFINE T == S \union {x}
  <1>1. IsFiniteSet(T)
    BY FS_AddElement
  <1> DEFINE amount == [y \in T |-> y.net]
  <1>2. \A y \in T : amount[y] = y.net /\ amount[y] \in Int
    OBVIOUS
  <1> HIDE DEF amount
  <1>3. PICK g : Additive(T, amount, g)
    BY <1>1, <1>2, AdditiveExists
  <1> DEFINE h == [s \in SUBSET S |-> g[s]]
  <1>4. Additive(S, amount, h)
    <2>1. \A s \in SUBSET S : s \in SUBSET T /\ h[s] = g[s]
      OBVIOUS
    <2>2. h \in [SUBSET S -> Int] /\ h[{}] = 0
      BY <1>3 DEF Additive
    <2>3. ASSUME NEW s \in SUBSET S, NEW y \in s
          PROVE  h[s] = amount[y] + h[s \ {y}]
      <3>1. s \in SUBSET T /\ s \ {y} \in SUBSET S
        OBVIOUS
      <3>2. g[s] = amount[y] + g[s \ {y}]
        BY <1>3, <3>1 DEF Additive
      <3> QED BY <3>1, <3>2
    <2> HIDE DEF h
    <2> QED BY <2>2, <2>3 DEF Additive
  <1>5. Net(S) = g[S] /\ Net(T) = g[T]
    <2>1. Net(S) = h[S]
      <3> HIDE DEF h
      <3>1. \A y \in S : amount[y] = y.net
        BY <1>2
      <3> QED BY <1>4, <3>1, NetIsAdditive
    <2>2. Net(T) = g[T]
      <3> HIDE DEF T
      <3> QED BY <1>1, <1>3, <1>2, NetIsAdditive
    <2> QED BY <2>1, <2>2
  <1>6. g[T] = x.net + g[S]
    <2>1. T \in SUBSET T /\ x \in T /\ T \ {x} = S /\ amount[x] = x.net
      BY <1>2
    <2> HIDE DEF T
    <2> QED BY <1>3, <2>1 DEF Additive
  <1>7. g[S] \in Int /\ x.net \in Int
    BY <1>3 DEF Additive
  <1> QED BY <1>5, <1>6, <1>7

\* h has a trade of each symbol of H that is not in S, and amount their nets.
NewTrades(S, H, h, amount) ==
  /\ \A s \in H : h[s] \notin S /\ h[s].symbol = s /\ h[s].net \in Int
  /\ amount \in [Symbols -> Int]
  /\ \A s \in Symbols : amount[s] = IF s \in H THEN h[s].net ELSE 0

\* Adding to a set one new trade of each symbol of H adds the sum of their nets.
LEMMA NetOfEach ==
  ASSUME NEW S, IsFiniteSet(S), \A x \in S : x.net \in Int, NEW H \in SUBSET Symbols,
         NEW h, NEW amount, NewTrades(S, H, h, amount)
  PROVE  LET all == S \union {h[s] : s \in H}
         IN IsFiniteSet(all) /\ Net(all) = Net(S) + Total(amount)
  <1> USE DEF NewTrades
  <1>2. PICK f : Sums(amount, N, f) /\ Total(amount) = f[N]
    BY TotalIsSum
  <1> DEFINE first(i) == {SUPPORTED_SYMBOLS[j] : j \in 1..i}
             part(i)  == S \union {h[s] : s \in H \intersect first(i)}
             good(i)  == IsFiniteSet(part(i)) /\ Net(part(i)) = Net(S) + f[i]
             bad      == {i \in 0..N : ~good(i)}
  <1>3. Net(S) \in Int
    BY NetIsInteger
  <1>4. ASSUME bad # {} PROVE FALSE
    <2>1. bad \subseteq Nat
      BY Indices
    <2>2. PICK m \in bad : \A i \in bad : m <= i
      <3> HIDE DEF bad
      <3> QED BY <1>4, <2>1, LeastExists
    <2>3. m \in 0..N /\ m \in Nat /\ ~good(m)
      BY <2>1, <2>2
    <2>4. m # 0
      <3>1. part(0) = S
        OBVIOUS
      <3>2. f[0] = 0
        BY <1>2 DEF Sums
      <3>3. good(0)
        <4> HIDE DEF part
        <4> QED BY <1>3, <3>1, <3>2
      <3> HIDE DEF good
      <3> QED BY <2>3, <3>3
    <2>5. m - 1 \in 0..N /\ ~(m <= m - 1) /\ m \in 1..N
      BY <2>3, <2>4, Indices
    <2>6. good(m - 1)
      <3> HIDE DEF good
      <3> QED BY <2>2, <2>5
    <2> DEFINE s == SUPPORTED_SYMBOLS[m]
    <2>7. s \in Symbols
      BY <2>5, Indices
    <2>8. first(m) = first(m - 1) \union {s}
      <3>1. 1..m = (1..(m - 1)) \union {m}
        BY <2>3, <2>5
      <3> QED BY <3>1
    <2>9. s \notin first(m - 1)
      <3>1. \A j \in 1..(m - 1) : j \in 1..N /\ j # m
        BY <2>3, <2>5, Indices
      <3> QED BY <2>5, <2>7, <3>1, Indices
    <2>10. f[m] = f[m - 1] + amount[s] /\ f[m - 1] \in Int
      BY <1>2, <2>5 DEF Sums
    <2> HIDE DEF first, s
    <2>11. CASE s \notin H
      <3>1. part(m) = part(m - 1)
        BY <2>8, <2>11
      <3>2. amount[s] = 0
        BY <2>7, <2>11
      <3>3. f[m] = f[m - 1]
        BY <2>10, <3>2
      <3>4. good(m)
        <4> HIDE DEF part
        <4> QED BY <2>6, <3>1, <3>3
      <3> HIDE DEF good
      <3> QED BY <2>3, <3>4
    <2>12. CASE s \in H
      <3>1. part(m) = part(m - 1) \union {h[s]}
        BY <2>8, <2>12
      <3>2. h[s] \notin part(m - 1)
        BY <2>9, <2>12
      <3>3. \A y \in part(m - 1) \union {h[s]} : y.net \in Int
        BY <2>12
      <3>4. amount[s] = h[s].net
        BY <2>7, <2>12
      <3> HIDE DEF part
      <3>5. IsFiniteSet(part(m - 1))
        BY <2>6
      <3>6. IsFiniteSet(part(m))
        BY <3>1, <3>5, FS_AddElement
      <3>7. Net(part(m)) = Net(part(m - 1)) + h[s].net
        BY <3>1, <3>2, <3>3, <3>5, NetOfOneMore
      <3>8. h[s].net \in Int
        BY <2>12
      <3>9. good(m)
        BY <1>3, <2>6, <2>10, <3>4, <3>6, <3>7, <3>8
      <3> HIDE DEF good
      <3> QED BY <2>3, <3>9
    <2> QED BY <2>11, <2>12
  <1>5. good(N)
    <2>1. N \in 0..N
      BY Indices
    <2> HIDE DEF good
    <2> QED BY <1>4, <2>1
  <1>6. part(N) = S \union {h[s] : s \in H}
    <2>1. H \subseteq first(N)
      BY Indices
    <2> HIDE DEF first
    <2> QED BY <2>1
  <1> HIDE DEF part
  <1> QED BY <1>2, <1>5, <1>6
-----------------------------------------------------------------------------
(* Types.  A position knows what its stop will cost, and a trade the stop    *)
(* closed has cost it.                                                      *)

Position ==
  {p \in [direction : Directions, quantity : Int, entry : Int, stop : Int, takeProfit : Int,
          risk : Int, time : Int, fee : Int, funding : Int] :
     /\ p.risk = p.quantity * LossPerQuantity(p.direction, p.entry, p.stop)
     /\ p.fee = p.entry * p.quantity * FEE_RATE}
Intent == [direction : Directions, time : Int]
Account ==
  [balance : Int, highWater : Int, dayStart : Int, halted : BOOLEAN, paused : BOOLEAN,
   positions : [Symbols -> Position \union {None}], pending : [Symbols -> Intent \union {None}]]
Reasons == {"stop", "take_profit", "mdd_halt", "daily_stop", "end_of_window"}
Closed ==
  {t \in [symbol : Symbols, entryTime : Int, exitTime : Int, reason : Reasons,
          risk : Int, funding : Int, net : Int] :
     t.reason = "stop" => t.net - t.funding = -t.risk}
Book == [acct : Account, trades : SUBSET Closed]
Marks == [Symbols -> Int \union {None}]
Bar == [open : Nat \ {0}, high : Nat, low : Nat, close : Nat]

\* Every open position has a price.
Marked(a, m) == \A s \in Symbols : a.positions[s] # None => m[s] \in Int

Inv ==
  /\ clock \in Nat /\ turn \in 0..(N + 1) /\ done \in BOOLEAN
  /\ [acct |-> acct, trades |-> trades] \in Book
  /\ marks \in Marks /\ sizing \in Int /\ Marked(acct, marks)

LEMMA MoveIsInteger ==
  ASSUME NEW direction, NEW entry \in Int, NEW exit \in Int
  PROVE  Move(direction, entry, exit) \in Int
  BY DEF Move

LEMMA GainIsInteger ==
  ASSUME NEW p \in Position, NEW price \in Int
  PROVE  PositionGain(p, price) \in Int
  <1>1. p.entry \in Int /\ p.quantity \in Int
    BY DEF Position
  <1>2. Move(p.direction, p.entry, price) \in Int
    BY <1>1, MoveIsInteger
  <1> QED BY <1>1, <1>2, SizingAssumption DEF PositionGain, SizingAssumption

LEMMA ExitIsInteger ==
  ASSUME NEW p \in Position, NEW level \in Int
  PROVE  ExitPrice(p, level) \in Int /\ Proceeds(p, level) \in Int
  <1>1. ExitPrice(p, level) \in Int
    BY FillIsInteger DEF ExitPrice
  <1>2. p.quantity \in Int
    BY DEF Position
  <1>3. PositionGain(p, ExitPrice(p, level)) \in Int
    BY <1>1, GainIsInteger
  <1> DEFINE price == ExitPrice(p, level)
  <1>4. Proceeds(p, level) = PositionGain(p, price) - price * p.quantity * FEE_RATE
    BY DEF Proceeds
  <1>5. price \in Int /\ PositionGain(p, price) \in Int
    BY <1>1, <1>3
  <1> HIDE DEF price
  <1>6. price * p.quantity * FEE_RATE \in Int
    BY <1>2, <1>5, SizingAssumption DEF SizingAssumption
  <1> QED BY <1>1, <1>4, <1>5, <1>6

LEMMA OfPositionsIsInteger ==
  ASSUME NEW a, NEW amount,
         \A s \in Symbols : a.positions[s] # None => amount[s] \in Int
  PROVE  /\ OfPositions(a, amount) \in [Symbols -> Int]
         /\ Total(OfPositions(a, amount)) \in Int
  <1>1. OfPositions(a, amount) \in [Symbols -> Int]
    BY DEF OfPositions
  <1> QED BY <1>1, TotalIsInteger

LEMMA EquityIsInteger ==
  ASSUME NEW a \in Account, NEW m, Marked(a, m)
  PROVE  Equity(a, m) \in Int
  <1> DEFINE gain == [s \in Symbols |-> PositionGain(a.positions[s], m[s])]
  <1>1. ASSUME NEW s \in Symbols, a.positions[s] # None PROVE gain[s] \in Int
    <2>1. a.positions[s] \in Position /\ m[s] \in Int
      BY <1>1 DEF Account, Marked
    <2> QED BY <2>1, GainIsInteger
  <1> HIDE DEF gain
  <1>2. Total(OfPositions(a, gain)) \in Int
    BY <1>1, OfPositionsIsInteger
  <1>3. Equity(a, m) = a.balance + Total(OfPositions(a, gain))
    BY DEF Equity, Unrealized, gain
  <1> QED BY <1>2, <1>3 DEF Account

LEMMA OpenSumsAreIntegers ==
  ASSUME NEW a \in Account
  PROVE  OpenPlannedRisk(a) \in Int /\ OpenNotional(a) \in Int
  <1>1. ASSUME NEW s \in Symbols, a.positions[s] # None
        PROVE  a.positions[s].risk \in Int /\ a.positions[s].quantity * a.positions[s].entry \in Int
    <2>1. a.positions[s] \in Position
      BY <1>1 DEF Account
    <2> QED BY <2>1 DEF Position
  <1> DEFINE risk == [s \in Symbols |-> a.positions[s].risk]
             notional == [s \in Symbols |-> a.positions[s].quantity * a.positions[s].entry]
  <1>2. \A s \in Symbols : a.positions[s] # None => risk[s] \in Int /\ notional[s] \in Int
    BY <1>1
  <1> HIDE DEF risk, notional
  <1>3. Total(OfPositions(a, risk)) \in Int /\ Total(OfPositions(a, notional)) \in Int
    BY <1>2, OfPositionsIsInteger
  <1> QED BY <1>3 DEF OpenPlannedRisk, OpenNotional, risk, notional

LEMMA TradeIsClosed ==
  ASSUME NEW s \in Symbols, NEW p \in Position, NEW level \in Int, NEW reason \in Reasons,
         clock \in Nat, reason = "stop" => level = p.stop
  PROVE  Trade(s, p, ExitPrice(p, level), reason) \in Closed
  <1> DEFINE price == ExitPrice(p, level)
             gain  == PositionGain(p, price)
             fee   == price * p.quantity * FEE_RATE
             net   == gain + p.funding - p.fee - fee
  <1>1. /\ p.quantity \in Int /\ p.entry \in Int /\ p.risk \in Int /\ p.time \in Int
        /\ p.funding \in Int /\ p.fee \in Int /\ p.stop \in Int /\ p.direction \in Directions
        /\ p.risk = p.quantity * LossPerQuantity(p.direction, p.entry, p.stop)
        /\ p.fee = p.entry * p.quantity * FEE_RATE
    BY DEF Position
  <1>2. price \in Int /\ gain \in Int
    BY ExitIsInteger, GainIsInteger
  <1>3. FEE_RATE \in Int /\ Unit \in Int
    BY SizingAssumption DEF SizingAssumption
  <1>4. fee \in Int
    <2> HIDE DEF price
    <2> QED BY <1>1, <1>2, <1>3
  <1>5. Now \in Int
    BY AccountAssumption DEF Now, AccountAssumption
  <1>6. Trade(s, p, price, reason)
          = [symbol |-> s, entryTime |-> p.time, exitTime |-> Now, reason |-> reason,
             risk |-> p.risk, funding |-> p.funding, net |-> net]
    BY DEF Trade
  <1>7. reason = "stop" => net - p.funding = -p.risk
    <2> SUFFICES ASSUME reason = "stop" PROVE net - p.funding = -p.risk
      OBVIOUS
    <2> DEFINE move == Move(p.direction, p.entry, price)
    <2>1. price = FillPrice(p.stop, p.direction = SHORT)
      BY DEF ExitPrice
    <2>2. p.risk = p.quantity * ((p.entry + price) * FEE_RATE - Unit * move)
      BY <1>1, <2>1 DEF LossPerQuantity
    <2>3. gain = Unit * p.quantity * move
      BY DEF PositionGain
    <2>4. move \in Int
      BY <1>1, <1>2, MoveIsInteger
    <2> HIDE DEF move, gain, price
    <2>5. p.quantity * ((p.entry + price) * FEE_RATE - Unit * move)
            = p.entry * p.quantity * FEE_RATE + fee - gain
      <3> DEFINE q == p.quantity
                 e == p.entry
      <3>1. q \in Int /\ e \in Int
        BY <1>1
      <3>2. gain = Unit * q * move /\ fee = price * q * FEE_RATE
        BY <2>3
      <3> HIDE DEF q, e, fee
      <3>3. q * ((e + price) * FEE_RATE - Unit * move)
              = e * q * FEE_RATE + price * q * FEE_RATE - Unit * q * move
        BY <1>2, <1>3, <2>4, <3>1
      <3>4. q * ((e + price) * FEE_RATE - Unit * move) = e * q * FEE_RATE + fee - gain
        BY <3>2, <3>3
      <3> QED BY <3>4 DEF q, e
    <2> HIDE DEF fee
    <2> QED BY <1>1, <1>2, <1>4, <2>2, <2>5
  <1>8. net \in Int
    <2> HIDE DEF gain, fee
    <2> QED BY <1>1, <1>2, <1>4
  <1> HIDE DEF net
  <1>9. Trade(s, p, price, reason) \in Closed
    BY <1>1, <1>5, <1>6, <1>7, <1>8 DEF Closed
  <1> QED BY <1>9
-----------------------------------------------------------------------------
(* What each operation makes of a book. *)

LEMMA BookParts ==
  ASSUME NEW book \in Book
  PROVE  /\ book = [acct |-> book.acct, trades |-> book.trades]
         /\ book.acct \in Account /\ book.trades \subseteq Closed
  BY DEF Book

LEMMA BookOf ==
  ASSUME NEW a \in Account, NEW ts, ts \subseteq Closed
  PROVE  [acct |-> a, trades |-> ts] \in Book
  BY DEF Book

With(a, ps, v) == [a EXCEPT !.positions = ps, !.balance = v]
Halted(book, x) == [book EXCEPT !.acct.halted = x]
Paused(book, x) == [book EXCEPT !.acct.paused = x]

LEMMA AccountWith ==
  ASSUME NEW a \in Account, NEW ps \in [Symbols -> Position \union {None}],
         NEW v \in Int
  PROVE  /\ With(a, ps, v) \in Account
         /\ With(a, ps, v).positions = ps /\ With(a, ps, v).balance = v
         /\ With(a, ps, v).pending = a.pending
  BY DEF Account, With

LEMMA StopFlags ==
  ASSUME NEW book \in Book, NEW x \in BOOLEAN
  PROVE  /\ Halted(book, x) \in Book
         /\ Halted(book, x).acct.positions = book.acct.positions
         /\ Halted(book, x).acct.balance = book.acct.balance
         /\ Halted(book, x).trades = book.trades
         /\ Paused(book, x) \in Book
         /\ Paused(book, x).acct.positions = book.acct.positions
         /\ Paused(book, x).acct.balance = book.acct.balance
         /\ Paused(book, x).trades = book.trades
  <1> DEFINE h == [book.acct EXCEPT !.halted = x]
             d == [book.acct EXCEPT !.paused = x]
  <1>1. h \in Account /\ d \in Account
    <2>1. book.acct \in Account
      BY BookParts
    <2>2. h \in Account
      BY <2>1 DEF Account
    <2>3. d \in Account
      BY <2>1 DEF Account
    <2> QED BY <2>2, <2>3
  <1>2. /\ h.positions = book.acct.positions /\ d.positions = book.acct.positions
        /\ h.balance = book.acct.balance /\ d.balance = book.acct.balance
    BY BookParts DEF Account
  <1>3. Halted(book, x) = [acct |-> h, trades |-> book.trades]
    BY DEF Halted, Book
  <1>4. Paused(book, x) = [acct |-> d, trades |-> book.trades]
    BY DEF Paused, Book
  <1> HIDE DEF h, d
  <1>5. /\ [acct |-> h, trades |-> book.trades] \in Book
        /\ [acct |-> d, trades |-> book.trades] \in Book
    BY <1>1, BookParts, BookOf
  <1> QED BY <1>2, <1>3, <1>4, <1>5

LEMMA PositionOf ==
  ASSUME NEW a \in Account, NEW s \in Symbols, a.positions[s] # None
  PROVE  a.positions[s] \in Position
  BY DEF Account

LEMMA CloseKeepsBook ==
  ASSUME NEW book \in Book, NEW s \in Symbols, NEW level \in Int, NEW reason \in Reasons,
         book.acct.positions[s] # None, clock \in Nat,
         reason = "stop" => level = book.acct.positions[s].stop
  PROVE  /\ Close(book, s, level, reason) \in Book
         /\ Close(book, s, level, reason).acct.positions
              = [book.acct.positions EXCEPT ![s] = None]
  <1> DEFINE p == book.acct.positions[s]
             a == [book.acct EXCEPT !.positions[s] = None, !.balance = @ + Proceeds(p, level)]
             t == Trade(s, p, ExitPrice(p, level), reason)
  <1>1. p \in Position /\ book.acct \in Account /\ book.trades \subseteq Closed
    BY BookParts, PositionOf
  <1>2. t \in Closed
    <2> HIDE DEF p
    <2>1. reason = "stop" => level = p.stop
      BY DEF p
    <2> QED BY <1>1, <2>1, TradeIsClosed
  <1>3. Proceeds(p, level) \in Int
    <2> HIDE DEF p
    <2> QED BY <1>1, ExitIsInteger
  <1>4. a \in Account /\ a.positions = [book.acct.positions EXCEPT ![s] = None]
    <2> DEFINE v  == book.acct.balance + Proceeds(p, level)
               ps == [book.acct.positions EXCEPT ![s] = None]
    <2>1. v \in Int /\ ps \in [Symbols -> Position \union {None}]
      BY <1>1, <1>3 DEF Account
    <2>2. a = With(book.acct, ps, v)
      BY <1>1 DEF Account, With
    <2> HIDE DEF v, ps, a
    <2>3. a \in Account /\ a.positions = ps
      BY <1>1, <2>1, <2>2, AccountWith
    <2> QED BY <2>3 DEF ps
  <1>5. Close(book, s, level, reason) = [acct |-> a, trades |-> book.trades \union {t}]
    BY DEF Close
  <1> HIDE DEF a, t
  <1>6. [acct |-> a, trades |-> book.trades \union {t}] \in Book
    BY <1>1, <1>2, <1>4, BookOf
  <1> QED BY <1>4, <1>5, <1>6

LEMMA CloseAllKeepsBook ==
  ASSUME NEW book \in Book, NEW m, Marked(book.acct, m), NEW reason \in Reasons,
         reason # "stop", clock \in Nat
  PROVE  /\ CloseAll(book, m, reason) \in Book
         /\ CloseAll(book, m, reason).acct.positions = Flat
  <1> DEFINE p == book.acct.positions
             level == [s \in Symbols |-> Proceeds(p[s], m[s])]
             proceeds == Total(OfPositions(book.acct, level))
             a  == [book.acct EXCEPT !.positions = Flat, !.balance = @ + proceeds]
             ts == {Trade(s, p[s], ExitPrice(p[s], m[s]), reason) : s \in Holding(book.acct)}
  <1>1. book.acct \in Account /\ book.trades \subseteq Closed
    BY BookParts
  <1>2. ASSUME NEW s \in Symbols, p[s] # None PROVE p[s] \in Position /\ m[s] \in Int
    BY <1>1, <1>2, PositionOf DEF Marked
  <1>3. proceeds \in Int
    <2>1. \A s \in Symbols : book.acct.positions[s] # None => level[s] \in Int
      BY <1>2, ExitIsInteger
    <2> HIDE DEF level
    <2> QED BY <2>1, OfPositionsIsInteger
  <1>4. ts \subseteq Closed
    <2>1. ASSUME NEW s \in Holding(book.acct)
          PROVE  Trade(s, p[s], ExitPrice(p[s], m[s]), reason) \in Closed
      <3>1. s \in Symbols /\ p[s] # None
        BY DEF Holding
      <3>2. p[s] \in Position /\ m[s] \in Int
        BY <1>2, <3>1
      <3> HIDE DEF p
      <3> QED BY <3>1, <3>2, TradeIsClosed
    <2> QED BY <2>1
  <1>5. CloseAll(book, m, reason) = [acct |-> a, trades |-> book.trades \union ts]
    BY DEF CloseAll
  <1>6. a \in Account /\ a.positions = Flat
    <2> DEFINE v == book.acct.balance + proceeds
    <2>1. Flat \in [Symbols -> Position \union {None}] /\ v \in Int
      <3> HIDE DEF proceeds
      <3> QED BY <1>1, <1>3 DEF Flat, Account
    <2>2. a = With(book.acct, Flat, v)
      BY DEF With
    <2> HIDE DEF v, a
    <2> QED BY <1>1, <2>1, <2>2, AccountWith
  <1> HIDE DEF a, ts
  <1>7. [acct |-> a, trades |-> book.trades \union ts] \in Book
    BY <1>1, <1>4, <1>6, BookOf
  <1> QED BY <1>5, <1>6, <1>7

LEMMA FlattenKeepsBook ==
  ASSUME NEW book \in Book, NEW m, Marked(book.acct, m), NEW reason \in Reasons,
         reason # "stop", clock \in Nat
  PROVE  /\ Flatten(book, m, reason) \in Book
         /\ Flatten(book, m, reason).acct.positions = Flat
         /\ Flatten(book, m, reason).acct.balance = CloseAll(book, m, reason).acct.balance
         /\ Flatten(book, m, reason).trades = CloseAll(book, m, reason).trades
  <1> DEFINE all == CloseAll(book, m, reason)
  <1>1. all \in Book /\ all.acct.positions = Flat
    BY CloseAllKeepsBook
  <1>2. Flatten(book, m, reason) = [all EXCEPT !.acct.pending = NoIntent]
    BY DEF Flatten
  <1>3. NoIntent \in [Symbols -> Intent \union {None}]
    BY DEF NoIntent
  <1> HIDE DEF all
  <1> DEFINE a == [all.acct EXCEPT !.pending = NoIntent]
  <1>4. all.acct \in Account
    BY <1>1, BookParts
  <1>5. a \in Account /\ a.positions = all.acct.positions /\ a.balance = all.acct.balance
    BY <1>3, <1>4 DEF Account
  <1>6. Flatten(book, m, reason) = [acct |-> a, trades |-> all.trades]
    BY <1>1, <1>2 DEF Book
  <1> HIDE DEF a
  <1>7. [acct |-> a, trades |-> all.trades] \in Book
    BY <1>1, <1>5, BookParts, BookOf
  <1> QED BY <1>1, <1>5, <1>6, <1>7 DEF all

\* An account no limit stops at the marks m, or that is stopped already.
Quiet(a, m) ==
  \/ a.halted
  \/ ~ShouldHalt(a, Equity(a, m)) /\ (a.paused \/ ~DailyLoss(a, Equity(a, m)))

\* Noting the equity raises the high water mark at most.
LEMMA NotedAccount ==
  ASSUME NEW a \in Account, NEW equity \in Int
  PROVE  LET noted == NoteEquity(a, equity)
         IN /\ noted \in Account /\ noted.positions = a.positions
            /\ noted.balance = a.balance /\ noted.pending = a.pending
            /\ noted.halted = a.halted /\ noted.paused = a.paused
  BY DEF Account, NoteEquity

LEMMA EquityOfBooks ==
  ASSUME NEW a, NEW b, NEW m, a.positions = b.positions, a.balance = b.balance
  PROVE  Equity(a, m) = Equity(b, m)
  BY DEF Equity, Unrealized, OfPositions

\* _enforce_stops closes every position, or none and then no limit is reached.
LEMMA EnforceKeepsBook ==
  ASSUME NEW book \in Book, NEW m, Marked(book.acct, m), clock \in Nat
  PROVE  /\ EnforceStops(book, m) \in Book
         /\ EnforceStops(book, m).acct.positions \in {book.acct.positions, Flat}
         /\ \/ EnforceStops(book, m).acct.positions = Flat
            \/ /\ EnforceStops(book, m).acct.halted = book.acct.halted
               /\ EnforceStops(book, m).acct.paused = book.acct.paused
               /\ Quiet(EnforceStops(book, m).acct, m)
  <1> DEFINE equity == Equity(book.acct, m)
             noted  == [book EXCEPT !.acct = NoteEquity(@, equity)]
             halt   == Flatten(noted, m, "mdd_halt")
             pause  == Flatten(noted, m, "daily_stop")
  <1>1. book.acct \in Account
    BY BookParts
  <1>2. equity \in Int
    BY <1>1, EquityIsInteger
  <1>3. /\ noted \in Book /\ noted.acct.positions = book.acct.positions
        /\ noted.acct.halted = book.acct.halted /\ noted.acct.paused = book.acct.paused
        /\ Equity(noted.acct, m) = equity
    <2> DEFINE a == NoteEquity(book.acct, equity)
    <2>1. noted = [acct |-> a, trades |-> book.trades]
      BY DEF Book
    <2>2. /\ a \in Account /\ a.positions = book.acct.positions /\ a.balance = book.acct.balance
          /\ a.halted = book.acct.halted /\ a.paused = book.acct.paused
      <3> HIDE DEF equity
      <3> QED BY <1>1, <1>2, NotedAccount
    <2>3. Equity(a, m) = equity
      <3> HIDE DEF a
      <3> QED BY <2>2, EquityOfBooks
    <2> HIDE DEF a, noted, equity
    <2>4. [acct |-> a, trades |-> book.trades] \in Book
      BY <2>2, BookParts, BookOf
    <2> QED BY <2>1, <2>2, <2>3, <2>4
  <1>4. Marked(noted.acct, m)
    BY <1>3 DEF Marked
  <1> DEFINE stopped == [halt EXCEPT !.acct.halted = TRUE]
             resting == [pause EXCEPT !.acct.paused = TRUE]
  <1>5. \/ EnforceStops(book, m) \in {stopped, resting}
        \/ EnforceStops(book, m) = noted /\ Quiet(noted.acct, m)
    <2> DEFINE over == ShouldHalt(noted.acct, equity)
               lost == DailyLoss(noted.acct, equity)
    <2>1. EnforceStops(book, m) = IF noted.acct.halted THEN noted ELSE IF over THEN stopped
                                  ELSE IF ~noted.acct.paused /\ lost THEN resting ELSE noted
      BY DEF EnforceStops
    <2>2. Quiet(noted.acct, m) <=> noted.acct.halted \/ (~over /\ (noted.acct.paused \/ ~lost))
      BY <1>3 DEF Quiet
    <2> HIDE DEF over, lost, stopped, resting, noted
    <2> QED BY <2>1, <2>2
  <1> HIDE DEF noted
  <1>6. halt \in Book /\ halt.acct.positions = Flat
    <2> DEFINE why == "mdd_halt"
    <2>1. why \in Reasons
      BY DEF Reasons
    <2>2. why # "stop"
      OBVIOUS
    <2>3. halt = Flatten(noted, m, why)
      OBVIOUS
    <2> HIDE DEF why, halt
    <2> QED BY <1>3, <1>4, <2>1, <2>2, <2>3, FlattenKeepsBook
  <1>7. pause \in Book /\ pause.acct.positions = Flat
    <2> DEFINE why == "daily_stop"
    <2>1. why \in Reasons
      BY DEF Reasons
    <2>2. why # "stop"
      OBVIOUS
    <2>3. pause = Flatten(noted, m, why)
      OBVIOUS
    <2> HIDE DEF why, pause
    <2> QED BY <1>3, <1>4, <2>1, <2>2, <2>3, FlattenKeepsBook
  <1> HIDE DEF halt, pause
  <1> DEFINE yes == TRUE
  <1>8. yes \in BOOLEAN /\ stopped = Halted(halt, yes) /\ resting = Paused(pause, yes)
    BY DEF Halted, Paused
  <1> HIDE DEF stopped, resting, yes
  <1>9. /\ stopped \in Book /\ stopped.acct.positions = Flat
        /\ resting \in Book /\ resting.acct.positions = Flat
    BY <1>6, <1>7, <1>8, StopFlags
  <1>10. CASE EnforceStops(book, m) = noted /\ Quiet(noted.acct, m)
    BY <1>3, <1>10
  <1>11. CASE EnforceStops(book, m) = stopped
    BY <1>9, <1>11
  <1>12. CASE EnforceStops(book, m) = resting
    BY <1>9, <1>12
  <1> QED BY <1>5, <1>10, <1>11, <1>12

LEMMA FundingKeepsBook ==
  ASSUME NEW book \in Book, NEW s \in Symbols, NEW bar \in Bar, NEW rate \in Int
  PROVE  /\ ApplyFunding(book, s, bar, rate) \in Book
         /\ \A x \in Symbols : ApplyFunding(book, s, bar, rate).acct.positions[x] # None
                                 => book.acct.positions[x] # None
         /\ book.acct.positions[s] = None => ApplyFunding(book, s, bar, rate) = book
  <1> DEFINE p == book.acct.positions[s]
             payment == p.quantity * bar.open * rate * (IF p.direction = LONG THEN -1 ELSE 1)
  <1>1. CASE p = None
    BY <1>1 DEF ApplyFunding
  <1>2. CASE p # None
    <2>1. p \in Position /\ book.acct \in Account
      BY <1>2, BookParts, PositionOf
    <2>2. payment \in Int
      <3>1. p.quantity \in Int /\ bar.open \in Int
        BY <2>1 DEF Position, Bar
      <3>2. p.quantity * bar.open * rate \in Int
        BY <3>1
      <3> DEFINE paid == p.quantity * bar.open * rate
      <3> HIDE DEF paid
      <3>3. paid \in Int
        BY <3>2 DEF paid
      <3>4. paid * (IF p.direction = LONG THEN -1 ELSE 1) \in Int
        BY <3>3
      <3> QED BY <3>4 DEF paid
    <2> DEFINE balance == book.acct.balance + payment
               funding == p.funding + payment
               paidFor == [p EXCEPT !.funding = funding]
               ps == [book.acct.positions EXCEPT ![s] = paidFor]
               a  == [book.acct EXCEPT !.positions = ps, !.balance = balance]
    <2>3. balance \in Int /\ funding \in Int
      <3> HIDE DEF payment, p
      <3> QED BY <2>1, <2>2 DEF Account, Position
    <2>4. paidFor \in Position
      <3> HIDE DEF funding, p
      <3> QED BY <2>1, <2>3 DEF Position
    <2>5. ApplyFunding(book, s, bar, rate) = [acct |-> a, trades |-> book.trades]
      <3> DEFINE raw == [book.acct EXCEPT !.balance = @ + payment,
                                          !.positions[s].funding = @ + payment]
      <3>1. ApplyFunding(book, s, bar, rate) 
              = IF p = None THEN book ELSE [book EXCEPT !.acct = raw]
        BY DEF ApplyFunding
      <3>2. raw = a
        <4> HIDE DEF payment
        <4> QED BY <2>1 DEF Account
      <3> HIDE DEF a, raw, p
      <3> QED BY <1>2, <3>1, <3>2, BookParts
    <2>6. ps \in [Symbols -> Position \union {None}]
      <3> HIDE DEF paidFor
      <3> QED BY <2>1, <2>4 DEF Account
    <2>7. \A x \in Symbols : ps[x] # None => book.acct.positions[x] # None
      <3> HIDE DEF paidFor
      <3> QED BY <1>2, <2>1 DEF Account
    <2> HIDE DEF ps, balance
    <2>8. a \in Account /\ a.positions = ps
      <3>1. a = With(book.acct, ps, balance)
        BY DEF With
      <3> HIDE DEF a, p
      <3> QED BY <2>1, <2>3, <2>6, <3>1, AccountWith
    <2> HIDE DEF a
    <2>9. [acct |-> a, trades |-> book.trades] \in Book
      BY <2>8, BookParts, BookOf
    <2> HIDE DEF p
    <2> QED BY <1>2, <2>5, <2>7, <2>8, <2>9 DEF p
  <1> QED BY <1>1, <1>2

\* _manage_exits closes the symbol's position or leaves it.
LEMMA ExitsKeepBook ==
  ASSUME NEW book \in Book, NEW s \in Symbols, NEW bar, clock \in Nat
  PROVE  /\ ManageExits(book, s, bar) \in Book
         /\ ManageExits(book, s, bar).acct.positions
              \in {book.acct.positions, [book.acct.positions EXCEPT ![s] = None]}
  <1> DEFINE p == book.acct.positions[s]
  <1>1. CASE p = None
    BY <1>1 DEF ManageExits
  <1>2. CASE p # None
    <2>1. p \in Position
      BY <1>2, BookParts, PositionOf
    <2>2. p.stop \in Int /\ p.takeProfit \in Int
      BY <2>1 DEF Position
    <2> DEFINE gain == "take_profit"
               loss == "stop"
               low  == p.stop
               high == p.takeProfit
    <2>3. ManageExits(book, s, bar)
            \in {book, Close(book, s, low, loss), Close(book, s, high, gain)}
      BY <1>2 DEF ManageExits
    <2>4. gain \in Reasons /\ loss \in Reasons
      BY DEF Reasons
    <2>5. gain # "stop" /\ low = book.acct.positions[s].stop /\ low \in Int /\ high \in Int
      BY <2>2
    <2> HIDE DEF gain, loss, low, high
    <2>6. /\ Close(book, s, low, loss) \in Book
          /\ Close(book, s, low, loss).acct.positions = [book.acct.positions EXCEPT ![s] = None]
      BY <1>2, <2>4, <2>5, CloseKeepsBook
    <2>7. /\ Close(book, s, high, gain) \in Book
          /\ Close(book, s, high, gain).acct.positions = [book.acct.positions EXCEPT ![s] = None]
      <3>1. gain = "stop" => high = book.acct.positions[s].stop
        BY <2>5
      <3>2. high \in Int
        BY <2>5
      <3>3. gain \in Reasons
        BY <2>4
      <3>4. book.acct.positions[s] # None
        BY <1>2
      <3> QED BY <3>1, <3>2, <3>3, <3>4, CloseKeepsBook
    <2> HIDE DEF p
    <2>8. CASE ManageExits(book, s, bar) = book
      BY <2>8
    <2>9. CASE ManageExits(book, s, bar) = Close(book, s, low, loss)
      BY <2>6, <2>9
    <2>10. CASE ManageExits(book, s, bar) = Close(book, s, high, gain)
      BY <2>7, <2>10
    <2> QED BY <2>3, <2>8, <2>9, <2>10
  <1> QED BY <1>1, <1>2

\* The order of an entry, on either path (size_order, then fit_executable).
LEMMA EntryOrderIsOrder ==
  ASSUME NEW a \in Account, NEW direction \in Directions, NEW bar \in Bar,
         NEW seen \in Prices, sizing \in Int,
         EntryOrder(a, direction, bar, seen) # None
  PROVE  \E entry, stop, takeProfit \in Int :
           IsOrder(EntryOrder(a, direction, bar, seen), direction, entry, stop, takeProfit,
                   Remaining(sizing, OpenPlannedRisk(a), OpenNotional(a)))
  <1> DEFINE risk     == OpenPlannedRisk(a)
             notional == OpenNotional(a)
             sized    == SizeOrder(sizing, direction, bar.open, risk, notional)
             fitted   == FitExecutable(sized, bar.open, seen, sizing, risk, notional)
  <1>1. risk \in Int /\ notional \in Int /\ bar.open \in Nat \ {0} /\ bar.open \in Int
    BY OpenSumsAreIntegers DEF Bar
  <1>2. /\ EntryOrder(a, direction, bar, seen) \in {sized, fitted}
        /\ sized # None
    BY DEF EntryOrder
  <1> HIDE DEF risk, notional
  <1>3. PICK entry, stop, takeProfit \in Int :
          IsOrder(sized, direction, entry, stop, takeProfit, Remaining(sizing, risk, notional))
    BY <1>1, <1>2, SizedIsOrder
  <1>4. CASE EntryOrder(a, direction, bar, seen) = sized
    BY <1>3, <1>4 DEF risk, notional
  <1>5. CASE EntryOrder(a, direction, bar, seen) = fitted
    <2> HIDE DEF sized
    <2>1. PICK q \in Nat \ {0} : sized = Order(direction, q, entry, stop, takeProfit)
      BY <1>3 DEF IsOrder
    <2>2. /\ sized.direction = direction /\ sized.quantity \in Int
          /\ sized.stop \in Int /\ sized.takeProfit \in Int
      BY <2>1 DEF Order
    <2>3. fitted # None
      BY <1>5
    <2>4. \E e, o, t \in Int :
            IsOrder(fitted, direction, e, o, t, Remaining(sizing, risk, notional))
      BY <1>1, <2>2, <2>3, FittedToPricesIsOrder
    <2> HIDE DEF fitted
    <2> QED BY <1>5, <2>4 DEF risk, notional
  <1> QED BY <1>2, <1>4, <1>5

\* A position that fits into what is left of the limits.
Within(p, left) ==
  /\ Unit * p.risk <= left.position /\ Unit * p.risk <= left.aggregate
  /\ Unit * (p.quantity * p.entry) <= left.notional

LEMMA OrderIsPosition ==
  ASSUME NEW order, NEW direction \in Directions, NEW entry \in Int, NEW stop \in Int,
         NEW takeProfit \in Int, NEW left,
         IsOrder(order, direction, entry, stop, takeProfit, left), clock \in Nat
  PROVE  LET fee == order.entry * order.quantity * FEE_RATE
             p == [direction |-> order.direction, quantity |-> order.quantity,
                   entry |-> order.entry, stop |-> order.stop, takeProfit |-> order.takeProfit,
                   risk |-> order.risk, time |-> clock, fee |-> fee, funding |-> 0]
         IN fee \in Int /\ p \in Position /\ Within(p, left)
  <1>1. PICK q \in Nat \ {0} :
          /\ order = Order(direction, q, entry, stop, takeProfit)
          /\ WithinCaps(q, entry, LossPerQuantity(direction, entry, stop), left)
    BY DEF IsOrder
  <1> DEFINE loss == LossPerQuantity(direction, entry, stop)
             risk == q * loss
             fee  == entry * q * FEE_RATE
             p    == [direction |-> direction, quantity |-> q, entry |-> entry, stop |-> stop,
                      takeProfit |-> takeProfit, risk |-> risk, time |-> clock, fee |-> fee,
                      funding |-> 0]
  <1>2. loss \in Int
    BY LossIsInteger
  <1>3. FEE_RATE \in Int /\ Unit \in Int
    BY SizingAssumption DEF SizingAssumption
  <1>4. risk \in Int /\ fee \in Int
    <2> HIDE DEF loss
    <2> QED BY <1>2, <1>3
  <1>5. /\ order.direction = direction /\ order.quantity = q /\ order.entry = entry
        /\ order.stop = stop /\ order.takeProfit = takeProfit /\ order.risk = risk
    BY <1>1 DEF Order
  <1>6. p \in Position
    <2>1. risk = q * LossPerQuantity(direction, entry, stop) /\ fee = entry * q * FEE_RATE
      OBVIOUS
    <2> HIDE DEF risk, fee
    <2> QED BY <1>4, <2>1 DEF Position
  <1>7. Within(p, left)
    <2>1. Unit * q * loss = Unit * risk /\ Unit * q * entry = Unit * (q * entry)
      <3> HIDE DEF loss
      <3> QED BY <1>2, <1>3
    <2>2. /\ Unit * risk <= left.position /\ Unit * risk <= left.aggregate
          /\ Unit * (q * entry) <= left.notional
      BY <1>1, <2>1 DEF WithinCaps
    <2> HIDE DEF risk, fee
    <2> QED BY <2>2 DEF Within
  <1> HIDE DEF p, risk
  <1> QED BY <1>4, <1>5, <1>6, <1>7 DEF p

LEMMA SumsOfPositions ==
  ASSUME NEW a, NEW b, a.positions = b.positions
  PROVE  OpenPlannedRisk(a) = OpenPlannedRisk(b) /\ OpenNotional(a) = OpenNotional(b)
  BY DEF OpenPlannedRisk, OpenNotional, OfPositions

\* _try_enter opens nothing, or a position within what is left of the limits.
Enters(book, s, after) ==
  /\ after.trades = book.trades
  /\ \/ /\ after.acct.positions = book.acct.positions
        /\ after.acct.balance = book.acct.balance
     \/ \E p \in Position :
          /\ book.acct.positions[s] = None
          /\ Within(p, Remaining(sizing, OpenPlannedRisk(book.acct), OpenNotional(book.acct)))
          /\ after.acct.positions = [book.acct.positions EXCEPT ![s] = p]
          /\ after.acct.balance = book.acct.balance - p.fee
          /\ p.time = clock /\ p.funding = 0

LEMMA EnterKeepsBook ==
  ASSUME NEW book \in Book, NEW s \in Symbols, NEW bar \in Bar, NEW seen \in Prices,
         sizing \in Int, clock \in Nat
  PROVE  /\ TryEnter(book, s, bar, seen) \in Book
         /\ Enters(book, s, TryEnter(book, s, bar, seen))
  <1> DEFINE intent == book.acct.pending[s]
             spent  == [book EXCEPT !.acct.pending[s] = None]
             a      == spent.acct
             order  == EntryOrder(a, intent.direction, bar, seen)
             fee    == order.entry * order.quantity * FEE_RATE
             p == [direction |-> order.direction, quantity |-> order.quantity,
                   entry |-> order.entry, stop |-> order.stop, takeProfit |-> order.takeProfit,
                   risk |-> order.risk, time |-> clock, fee |-> fee, funding |-> 0]
             entered == [book EXCEPT !.acct = [a EXCEPT !.balance = @ - fee, !.positions[s] = p]]
  <1>1. book.acct \in Account /\ book.trades \subseteq Closed
    BY BookParts
  <1>2. CASE intent = None
    BY <1>2 DEF TryEnter, Enters
  <1>3. CASE intent # None
    <2>1. intent \in Intent
      BY <1>1, <1>3 DEF Account
    <2>2. /\ spent \in Book /\ a \in Account /\ a.positions = book.acct.positions
          /\ a.balance = book.acct.balance /\ spent.trades = book.trades
      <3> DEFINE left == [book.acct.pending EXCEPT ![s] = None]
                 b == [book.acct EXCEPT !.pending = left]
      <3>1. left \in [Symbols -> Intent \union {None}]
        BY <1>1 DEF Account
      <3>2. spent = [acct |-> b, trades |-> book.trades]
        BY DEF Book
      <3> HIDE DEF left
      <3>3. /\ b \in Account /\ b.positions = book.acct.positions
            /\ b.balance = book.acct.balance
        BY <1>1, <3>1 DEF Account
      <3> HIDE DEF b, spent
      <3>4. [acct |-> b, trades |-> book.trades] \in Book
        BY <1>1, <3>3, BookOf
      <3> QED BY <3>2, <3>3, <3>4
    <2>3. TryEnter(book, s, bar, seen) \in {book, spent, entered}
      BY DEF TryEnter
    <2>4. CASE TryEnter(book, s, bar, seen) \in {book, spent}
      <3> HIDE DEF spent, a
      <3> QED BY <2>2, <2>4 DEF a, Enters
    <2>5. CASE TryEnter(book, s, bar, seen) \notin {book, spent}
      <3>1. order # None /\ a.positions[s] = None /\ TryEnter(book, s, bar, seen) = entered
        <4> HIDE DEF order, spent, a, entered
        <4>1. TryEnter(book, s, bar, seen)
                = IF intent = None \/ intent.time # clock THEN book
                  ELSE IF a.halted \/ a.paused \/ a.positions[s] # None \/ order = None THEN spent
                  ELSE entered
          BY DEF TryEnter, order, spent, a, entered
        <4> QED BY <2>5, <4>1
      <3> HIDE DEF spent, a
      <3>2. intent.direction \in Directions
        BY <2>1 DEF Intent
      <3> HIDE DEF intent
      <3>3. PICK entry, stop, takeProfit \in Int :
              IsOrder(order, intent.direction, entry, stop, takeProfit,
                      Remaining(sizing, OpenPlannedRisk(a), OpenNotional(a)))
        BY <2>2, <3>1, <3>2, EntryOrderIsOrder
      <3> HIDE DEF order
      <3>4. /\ fee \in Int /\ p \in Position
            /\ Within(p, Remaining(sizing, OpenPlannedRisk(a), OpenNotional(a)))
        BY <3>2, <3>3, OrderIsPosition
      <3>14. p.fee = fee /\ p.time = clock /\ p.funding = 0
        OBVIOUS
      <3> HIDE DEF fee, p
      <3>5. Within(p, Remaining(sizing, OpenPlannedRisk(book.acct), OpenNotional(book.acct)))
        BY <2>2, <3>4, SumsOfPositions
      <3> DEFINE v  == a.balance - fee
                 ps == [a.positions EXCEPT ![s] = p]
                 b  == [a EXCEPT !.balance = @ - fee, !.positions[s] = p]
      <3>6. v \in Int /\ ps \in [Symbols -> Position \union {None}]
        BY <2>2, <3>4 DEF Account
      <3>7. b = With(a, ps, v)
        BY <2>2 DEF Account, With
      <3>8. entered = [acct |-> b, trades |-> book.trades]
        BY BookParts
      <3>9. ps = [book.acct.positions EXCEPT ![s] = p]
        BY <2>2
      <3> HIDE DEF b, ps, v, entered
      <3>10. b \in Account /\ b.positions = ps /\ b.balance = book.acct.balance - p.fee
        BY <2>2, <3>6, <3>7, <3>14, AccountWith DEF v
      <3>11. [acct |-> b, trades |-> book.trades] \in Book
        BY <1>1, <3>10, BookOf
      <3>12. /\ entered \in Book /\ entered.acct.positions = [book.acct.positions EXCEPT ![s] = p]
             /\ entered.acct.balance = book.acct.balance - p.fee /\ entered.trades = book.trades
        BY <3>8, <3>9, <3>10, <3>11
      <3>13. book.acct.positions[s] = None
        BY <2>2, <3>1
      <3> QED BY <3>1, <3>4, <3>5, <3>12, <3>13, <3>14 DEF Enters
    <2> QED BY <2>4, <2>5
  <1> QED BY <1>2, <1>3

\* What the limits are then.
LEMMA LimitsHold ==
  ASSUME NEW a \in Account, NEW b, NEW s \in Symbols, NEW p \in Position, p # None,
         a.positions[s] = None, b.positions = [a.positions EXCEPT ![s] = p], sizing \in Int,
         Within(p, Remaining(sizing, OpenPlannedRisk(a), OpenNotional(a)))
  PROVE  /\ Unit * p.risk <= PER_POSITION_RISK * sizing
         /\ Unit * OpenPlannedRisk(b) <= AGGREGATE_PLANNED_RISK * sizing
         /\ Unit * OpenNotional(b) <= GROSS_LEVERAGE_CEILING * sizing
  <1> DEFINE risk(c) == OfPositions(c, [x \in Symbols |-> c.positions[x].risk])
             notional(c) ==
               OfPositions(c, [x \in Symbols |-> c.positions[x].quantity * c.positions[x].entry])
  <1>1. p.risk \in Int /\ p.quantity * p.entry \in Int
    BY DEF Position
  <1>2. ASSUME NEW x \in Symbols, a.positions[x] # None
        PROVE  a.positions[x].risk \in Int /\ a.positions[x].quantity * a.positions[x].entry \in Int
    <2>1. a.positions[x] \in Position
      BY <1>2, PositionOf
    <2> QED BY <2>1 DEF Position
  <1>3. b.positions[s] = p /\ \A x \in Symbols \ {s} : b.positions[x] = a.positions[x]
    BY DEF Account
  <1>4. /\ risk(a) \in [Symbols -> Int] /\ notional(a) \in [Symbols -> Int]
        /\ risk(a)[s] = 0 /\ notional(a)[s] = 0
    BY <1>2 DEF OfPositions
  <1>5. /\ risk(b) \in [Symbols -> Int] /\ notional(b) \in [Symbols -> Int]
        /\ risk(b)[s] = p.risk /\ notional(b)[s] = p.quantity * p.entry
    BY <1>1, <1>2, <1>3 DEF OfPositions
  <1>6. \A x \in Symbols \ {s} : risk(b)[x] = risk(a)[x] /\ notional(b)[x] = notional(a)[x]
    BY <1>3 DEF OfPositions
  <1>7. /\ OpenPlannedRisk(a) = Total(risk(a)) /\ OpenPlannedRisk(b) = Total(risk(b))
        /\ OpenNotional(a) = Total(notional(a)) /\ OpenNotional(b) = Total(notional(b))
    BY DEF OpenPlannedRisk, OpenNotional
  <1> HIDE DEF risk, notional
  <1>8. Total(risk(b)) = Total(risk(a)) + (p.risk - 0)
    BY <1>4, <1>5, <1>6, TotalOfOne
  <1>9. Total(notional(b)) = Total(notional(a)) + (p.quantity * p.entry - 0)
    BY <1>4, <1>5, <1>6, TotalOfOne
  <1>10. Total(risk(a)) \in Int /\ Total(notional(a)) \in Int
    BY <1>4, TotalIsInteger
  <1> DEFINE r == Total(risk(a))
             n == Total(notional(a))
             worth == p.quantity * p.entry
  <1>11. /\ Unit * p.risk <= PER_POSITION_RISK * sizing
         /\ Unit * p.risk <= AGGREGATE_PLANNED_RISK * sizing - Unit * r
         /\ Unit * worth <= GROSS_LEVERAGE_CEILING * sizing - Unit * n
    BY <1>7 DEF Within, Remaining
  <1>12. r \in Int /\ n \in Int /\ p.risk \in Int /\ worth \in Int
    BY <1>1, <1>10
  <1>13. OpenPlannedRisk(b) = r + p.risk /\ OpenNotional(b) = n + worth
    BY <1>7, <1>8, <1>9, <1>12
  <1>14. /\ Unit \in Int /\ AGGREGATE_PLANNED_RISK * sizing \in Int
         /\ GROSS_LEVERAGE_CEILING * sizing \in Int
    BY SizingAssumption DEF SizingAssumption
  <1> DEFINE loss == p.risk
             most == AGGREGATE_PLANNED_RISK * sizing
             gross == GROSS_LEVERAGE_CEILING * sizing
  <1>15. loss \in Int /\ most \in Int /\ gross \in Int
         /\ Unit * loss <= most - Unit * r /\ Unit * worth <= gross - Unit * n
    BY <1>11, <1>12, <1>14
  <1>16. OpenPlannedRisk(b) = r + loss
    BY <1>13
  <1> HIDE DEF r, n, worth, loss, most, gross
  <1>17. Unit * (r + loss) <= most /\ Unit * (n + worth) <= gross
    BY <1>12, <1>14, <1>15
  <1> QED BY <1>11, <1>13, <1>16, <1>17 DEF most, gross
-----------------------------------------------------------------------------
(* The loss limits.  A stopped account is flat; any other one that holds      *)
(* positions was within both limits when it was last looked at.              *)

Rests(a) == a.halted \/ a.paused => a.positions = Flat
WithinLimits(a, m) ==
  a.positions # Flat => ~ShouldHalt(a, Equity(a, m)) /\ ~DailyLoss(a, Equity(a, m))

LEMMA FundingRests ==
  ASSUME NEW book \in Book, NEW s \in Symbols, NEW bar, NEW rate, Rests(book.acct)
  PROVE  Rests(ApplyFunding(book, s, bar, rate).acct)
  <1>1. CASE book.acct.positions[s] = None
    BY <1>1 DEF ApplyFunding
  <1>2. CASE book.acct.positions[s] # None
    <2>1. ~(book.acct.halted \/ book.acct.paused)
      BY <1>2 DEF Rests, Flat
    <2>2. /\ ApplyFunding(book, s, bar, rate).acct.halted = book.acct.halted
          /\ ApplyFunding(book, s, bar, rate).acct.paused = book.acct.paused
      <3> DEFINE payment == book.acct.positions[s].quantity * bar.open * rate
                              * (IF book.acct.positions[s].direction = LONG THEN -1 ELSE 1)
      <3>1. ApplyFunding(book, s, bar, rate)
              = [book EXCEPT !.acct = [book.acct EXCEPT !.balance = @ + payment,
                                                        !.positions[s].funding = @ + payment]]
        BY <1>2 DEF ApplyFunding
      <3>2. book = [acct |-> book.acct, trades |-> book.trades] /\ book.acct \in Account
        BY BookParts
      <3> HIDE DEF payment
      <3> QED BY <3>1, <3>2 DEF Account
    <2> QED BY <2>1, <2>2 DEF Rests
  <1> QED BY <1>1, <1>2

LEMMA EnterRests ==
  ASSUME NEW book \in Book, NEW s \in Symbols, NEW bar, NEW seen, Rests(book.acct)
  PROVE  Rests(TryEnter(book, s, bar, seen).acct)
  <1> DEFINE after == TryEnter(book, s, bar, seen).acct
             stopped == book.acct.halted \/ book.acct.paused
  <1>1. book.acct \in Account
    BY BookParts
  <1>2. after.halted = book.acct.halted /\ after.paused = book.acct.paused
    BY <1>1 DEF TryEnter, Account
  <1>3. stopped => after.positions = book.acct.positions
    BY <1>1 DEF TryEnter, Account
  <1> HIDE DEF after
  <1> QED BY <1>2, <1>3 DEF Rests, after

LEMMA ExitsRest ==
  ASSUME NEW book \in Book, NEW s \in Symbols, NEW bar, Rests(book.acct)
  PROVE  Rests(ManageExits(book, s, bar).acct)
  <1>1. CASE book.acct.positions[s] = None
    BY <1>1 DEF ManageExits
  <1>2. CASE book.acct.positions[s] # None
    <2>1. ~(book.acct.halted \/ book.acct.paused)
      BY <1>2 DEF Rests, Flat
    <2>2. /\ ManageExits(book, s, bar).acct.halted = book.acct.halted
          /\ ManageExits(book, s, bar).acct.paused = book.acct.paused
      <3>1. ASSUME NEW level, NEW reason
            PROVE  /\ Close(book, s, level, reason).acct.halted = book.acct.halted
                   /\ Close(book, s, level, reason).acct.paused = book.acct.paused
        BY BookParts DEF Close, Account
      <3> QED BY <3>1 DEF ManageExits
    <2> QED BY <2>1, <2>2 DEF Rests
  <1> QED BY <1>1, <1>2

LEMMA EnforceRests ==
  ASSUME NEW book \in Book, NEW m, Marked(book.acct, m), clock \in Nat, Rests(book.acct)
  PROVE  /\ Rests(EnforceStops(book, m).acct)
         /\ WithinLimits(EnforceStops(book, m).acct, m)
  <1> DEFINE after == EnforceStops(book, m).acct
  <1>1. /\ after.positions \in {book.acct.positions, Flat}
        /\ \/ after.positions = Flat
           \/ /\ after.halted = book.acct.halted /\ after.paused = book.acct.paused
              /\ Quiet(after, m)
    BY EnforceKeepsBook
  <1> HIDE DEF after
  <1>2. CASE after.positions = Flat
    BY <1>2 DEF Rests, WithinLimits, after
  <1>3. CASE after.positions # Flat
    <2>1. ~after.halted /\ ~after.paused
      BY <1>1, <1>3 DEF Rests
    <2> QED BY <1>1, <1>3, <2>1 DEF Rests, WithinLimits, Quiet, after
  <1> QED BY <1>2, <1>3
-----------------------------------------------------------------------------
(* The books.  A trade is told from the others by its symbol and the time its *)
(* position was opened at, so a set of trades loses none of them.             *)

\* What an open position has received less what it has paid.
Carry(p) == IF p = None THEN 0 ELSE p.funding - p.fee
Carried(a) == [s \in Symbols |-> Carry(a.positions[s])]
Books(book) ==
  book.acct.balance = StartingEquity + Net(book.trades) + Total(Carried(book.acct))

\* Of a symbol, no trade or position is later than `latest`, and no trade has
\* the time of its open position.
Dated(book, latest) ==
  /\ \A t \in book.trades : t.entryTime <= latest[t.symbol]
  /\ \A s \in Symbols : book.acct.positions[s] # None =>
       /\ book.acct.positions[s].time <= latest[s]
       /\ \A t \in book.trades :
            t.symbol = s => t.entryTime # book.acct.positions[s].time

Kept(book, latest) == IsFiniteSet(book.trades) /\ Books(book) /\ Dated(book, latest)

LEMMA CarriedIsInteger ==
  ASSUME NEW a \in Account
  PROVE  Carried(a) \in [Symbols -> Int] /\ Total(Carried(a)) \in Int
  <1>1. ASSUME NEW s \in Symbols PROVE Carry(a.positions[s]) \in Int
    BY DEF Account, Carry, Position
  <1>2. Carried(a) \in [Symbols -> Int]
    BY <1>1 DEF Carried
  <1> QED BY <1>2, TotalIsInteger

LEMMA TradesHaveNets ==
  ASSUME NEW book \in Book
  PROVE  \A t \in book.trades : t.net \in Int /\ t.entryTime \in Int /\ t.symbol \in Symbols
  BY DEF Book, Closed

\* What the books say depends on positions, balance and trades alone.
LEMMA SameBooks ==
  ASSUME NEW book, NEW after, NEW latest,
         after.acct.positions = book.acct.positions, after.acct.balance = book.acct.balance,
         after.trades = book.trades, Kept(book, latest)
  PROVE  Kept(after, latest)
  <1>1. Carried(after.acct) = Carried(book.acct)
    BY DEF Carried
  <1> QED BY <1>1 DEF Kept, Books, Dated

\* The books stay balanced when one position becomes q, with v of money and w
\* of net, and what it carries accounts for the difference.
LEMMA BooksOfOne ==
  ASSUME NEW book \in Book, NEW after \in Book, NEW s \in Symbols, NEW q, NEW v \in Int,
         NEW w \in Int, Books(book), IsFiniteSet(book.trades),
         after.acct.positions = [book.acct.positions EXCEPT ![s] = q],
         after.acct.balance = book.acct.balance + v,
         Net(after.trades) = Net(book.trades) + w,
         Carry(q) = Carry(book.acct.positions[s]) + (v - w)
  PROVE  Books(after)
  <1> DEFINE g == Carried(book.acct)
             h == Carried(after.acct)
  <1>1. book.acct \in Account /\ after.acct \in Account
    BY BookParts
  <1>2. g \in [Symbols -> Int] /\ h \in [Symbols -> Int] /\ Total(g) \in Int
    BY <1>1, CarriedIsInteger
  <1>3. h[s] = g[s] + (v - w) /\ \A x \in Symbols \ {s} : h[x] = g[x]
    BY <1>1 DEF Carried, Account
  <1> HIDE DEF g, h
  <1>4. Total(h) = Total(g) + (h[s] - g[s])
    BY <1>2, <1>3, TotalOfOne
  <1>5. h[s] - g[s] = v - w
    BY <1>2, <1>3
  <1>6. Net(book.trades) \in Int /\ book.acct.balance \in Int /\ StartingEquity \in Int
    BY <1>1, NetIsInteger, TradesHaveNets, AccountAssumption DEF Account, AccountAssumption
  <1>7. book.acct.balance = StartingEquity + Net(book.trades) + Total(g)
    BY DEF Books, g
  <1>8. after.acct.balance = StartingEquity + Net(after.trades) + Total(h)
    BY <1>2, <1>4, <1>5, <1>6, <1>7
  <1> QED BY <1>8 DEF Books, h

LEMMA FundingKept ==
  ASSUME NEW book \in Book, NEW s \in Symbols, NEW bar \in Bar, NEW rate \in Int, NEW latest,
         Kept(book, latest)
  PROVE  Kept(ApplyFunding(book, s, bar, rate), latest)
  <1> DEFINE p == book.acct.positions[s]
             payment == p.quantity * bar.open * rate * (IF p.direction = LONG THEN -1 ELSE 1)
             after == ApplyFunding(book, s, bar, rate)
  <1>1. CASE p = None
    BY <1>1 DEF ApplyFunding
  <1>2. CASE p # None
    <2>1. p \in Position /\ book.acct \in Account
      BY <1>2, BookParts, PositionOf
    <2>2. payment \in Int
      <3> DEFINE paid == p.quantity * bar.open * rate
      <3>1. p.quantity \in Int /\ bar.open \in Int
        BY <2>1 DEF Position, Bar
      <3>2. paid \in Int
        BY <3>1
      <3> HIDE DEF paid
      <3>3. paid * (IF p.direction = LONG THEN -1 ELSE 1) \in Int
        BY <3>2
      <3> QED BY <3>3 DEF paid
    <2>3. after = [book EXCEPT !.acct = [book.acct EXCEPT !.balance = @ + payment,
                                          !.positions[s].funding = @ + payment]]
      BY <1>2 DEF ApplyFunding
    <2> HIDE DEF payment
    <2> DEFINE q == [p EXCEPT !.funding = @ + payment]
    <2>4. /\ after.trades = book.trades
          /\ after.acct.balance = book.acct.balance + payment
          /\ after.acct.positions = [book.acct.positions EXCEPT ![s] = q]
      <3> DEFINE ps == [book.acct.positions EXCEPT ![s] = q]
                 bal == book.acct.balance + payment
                 raw == [book.acct EXCEPT !.balance = @ + payment,
                                          !.positions[s].funding = @ + payment]
      <3>1. raw = With(book.acct, ps, bal)
        BY <2>1 DEF Account, With
      <3>2. after = [acct |-> raw, trades |-> book.trades]
        <4> HIDE DEF raw, after
        <4> QED BY <2>3, BookParts DEF raw
      <3>3. bal \in Int /\ ps \in [Symbols -> Position \union {None}]
        <4>1. q \in Position
          <5> HIDE DEF p
          <5> QED BY <2>1, <2>2 DEF Position
        <4> HIDE DEF q
        <4> QED BY <2>1, <2>2, <4>1 DEF Account
      <3> HIDE DEF raw, after, ps, bal
      <3>4. raw.positions = ps /\ raw.balance = bal
        BY <2>1, <3>1, <3>3, AccountWith
      <3> QED BY <3>2, <3>4 DEF ps, bal
    <2>5. /\ q.time = p.time /\ q.funding = p.funding + payment /\ q.fee = p.fee
          /\ q \in Position /\ p.funding \in Int /\ p.fee \in Int
      <3> HIDE DEF p
      <3> QED BY <2>1, <2>2 DEF Position
    <2>6. q # None
      <3> HIDE DEF q
      <3> QED BY <2>5, PositionsAssumption DEF Position
    <2>7. Carry(q) = Carry(p) + (payment - 0)
      <3> HIDE DEF p, q
      <3> QED BY <1>2, <2>2, <2>5, <2>6 DEF Carry
    <2>8. after \in Book
      BY FundingKeepsBook
    <2>9. Net(book.trades) \in Int
      BY NetIsInteger, TradesHaveNets DEF Kept
    <2> HIDE DEF q, after
    <2>10. Books(after)
      <3>1. PICK w \in Int : w = 0
        OBVIOUS
      <3>2. PICK v \in Int : v = payment
        BY <2>2
      <3>3. PICK next : next = q
        OBVIOUS
      <3>4. /\ after.acct.positions = [book.acct.positions EXCEPT ![s] = next]
            /\ after.acct.balance = book.acct.balance + v
            /\ Net(after.trades) = Net(book.trades) + w
            /\ Carry(next) = Carry(book.acct.positions[s]) + (v - w)
        BY <2>4, <2>7, <2>9, <3>1, <3>2, <3>3
      <3>5. Books(book) /\ IsFiniteSet(book.trades)
        BY DEF Kept
      <3> QED BY <2>8, <3>4, <3>5, BooksOfOne
    <2>11. Dated(after, latest)
      <3>1. \A x \in Symbols : after.acct.positions[x] # None =>
               /\ book.acct.positions[x] # None
               /\ after.acct.positions[x].time = book.acct.positions[x].time
        BY <1>2, <2>1, <2>4, <2>5 DEF Account
      <3> QED BY <2>4, <3>1 DEF Kept, Dated
    <2> QED BY <2>4, <2>10, <2>11 DEF Kept, after
  <1> QED BY <1>1, <1>2

\* An entry: the fee is paid and the position carries it.
LEMMA EnterKept ==
  ASSUME NEW book \in Book, NEW after \in Book, NEW s \in Symbols,
         NEW latest \in [Symbols -> Int], Kept(book, latest), Enters(book, s, after),
         clock \in Nat, latest[s] < clock
  PROVE  Kept(after, [latest EXCEPT ![s] = clock])
  <1> DEFINE later == [latest EXCEPT ![s] = clock]
  <1>1. later \in [Symbols -> Int] /\ later[s] = clock
        /\ \A x \in Symbols : latest[x] <= later[x] /\ (x # s => later[x] = latest[x])
    OBVIOUS
  <1>2. book.acct \in Account /\ after.trades = book.trades
    BY BookParts DEF Enters
  <1> HIDE DEF later
  <1>3. \A t \in after.trades : t.entryTime <= later[t.symbol]
    BY <1>1, <1>2, TradesHaveNets DEF Kept, Dated
  <1>4. CASE /\ after.acct.positions = book.acct.positions
             /\ after.acct.balance = book.acct.balance
    <2>1. Kept(after, latest)
      BY <1>2, <1>4, SameBooks
    <2>2. \A x \in Symbols : after.acct.positions[x] # None =>
             after.acct.positions[x].time <= later[x]
      <3> SUFFICES ASSUME NEW x \in Symbols, after.acct.positions[x] # None
                   PROVE  after.acct.positions[x].time <= later[x]
        OBVIOUS
      <3>1. after.acct.positions[x] \in Position
        BY <1>2, <1>4, PositionOf
      <3>2. after.acct.positions[x].time \in Int
        BY <3>1 DEF Position
      <3> QED BY <1>1, <2>1, <3>2 DEF Kept, Dated
    <2> QED BY <1>3, <2>1, <2>2 DEF Kept, Dated, later
  <1>5. ASSUME NEW p \in Position, book.acct.positions[s] = None,
               after.acct.positions = [book.acct.positions EXCEPT ![s] = p],
               after.acct.balance = book.acct.balance - p.fee, p.time = clock, p.funding = 0
        PROVE  Kept(after, later)
    <2>1. p # None
      BY PositionsAssumption DEF Position
    <2> DEFINE v == - p.fee
    <2>2. v \in Int /\ after.acct.balance = book.acct.balance + v
      <3>1. p.fee \in Int
        BY DEF Position
      <3>2. book.acct.balance \in Int
        BY <1>2 DEF Account
      <3> QED BY <1>5, <3>1, <3>2
    <2>3. Carry(p) = Carry(book.acct.positions[s]) + (v - 0)
      BY <1>5, <2>1 DEF Carry, Position
    <2>4. Net(after.trades) = Net(book.trades) + 0 /\ 0 \in Int
      BY <1>2, NetIsInteger, TradesHaveNets DEF Kept
    <2> HIDE DEF v
    <2>5. Books(after)
      BY <1>5, <2>2, <2>3, <2>4, BooksOfOne DEF Kept
    <2>6. ASSUME NEW x \in Symbols, after.acct.positions[x] # None
          PROVE  /\ after.acct.positions[x].time <= later[x]
                 /\ \A t \in after.trades :
                      t.symbol = x => t.entryTime # after.acct.positions[x].time
      <3>1. CASE x = s
        <4>1. after.acct.positions[x] = p
          BY <1>2, <1>5, <3>1 DEF Account
        <4>2. \A t \in after.trades : t.symbol = s => t.entryTime < clock
          BY <1>2, TradesHaveNets DEF Kept, Dated
        <4> QED BY <1>1, <1>2, <1>5, <3>1, <4>1, <4>2, TradesHaveNets
      <3>2. CASE x # s
        <4>1. after.acct.positions[x] = book.acct.positions[x]
          BY <1>2, <1>5, <3>2 DEF Account
        <4> QED BY <1>1, <1>2, <2>6, <3>2, <4>1 DEF Kept, Dated
      <3> QED BY <3>1, <3>2
    <2> QED BY <1>2, <1>3, <2>5, <2>6 DEF Kept, Dated
  <1> QED BY <1>4, <1>5 DEF Enters, later

\* What a closed position earned is what its close brings and what it carried.
LEMMA NetOfTrade ==
  ASSUME NEW s \in Symbols, NEW p \in Position, NEW level \in Int, NEW reason
  PROVE  LET t == Trade(s, p, ExitPrice(p, level), reason)
         IN /\ t.net = Proceeds(p, level) + Carry(p)
            /\ t.symbol = s /\ t.entryTime = p.time
  <1> DEFINE price == ExitPrice(p, level)
             gain  == PositionGain(p, price)
             fee   == price * p.quantity * FEE_RATE
             t     == Trade(s, p, price, reason)
  <1>1. t.net = gain + p.funding - p.fee - fee /\ t.symbol = s /\ t.entryTime = p.time
    BY DEF Trade
  <1>2. Proceeds(p, level) = gain - fee
    BY DEF Proceeds
  <1>3. gain \in Int
    BY ExitIsInteger, GainIsInteger
  <1>4. fee \in Int
    <2>1. price \in Int /\ p.quantity \in Int
      BY ExitIsInteger DEF Position
    <2> HIDE DEF price
    <2> QED BY <2>1, SizingAssumption DEF SizingAssumption
  <1>5. Carry(p) = p.funding - p.fee /\ p.funding \in Int /\ p.fee \in Int
    BY PositionsAssumption DEF Carry, Position
  <1> HIDE DEF gain, fee, price, t
  <1>6. t.net = Proceeds(p, level) + Carry(p)
    BY <1>1, <1>2, <1>3, <1>4, <1>5
  <1> QED BY <1>1, <1>6 DEF t, price

LEMMA CloseKept ==
  ASSUME NEW book \in Book, NEW s \in Symbols, NEW level \in Int, NEW reason \in Reasons,
         book.acct.positions[s] # None, clock \in Nat,
         reason = "stop" => level = book.acct.positions[s].stop,
         NEW latest, Kept(book, latest)
  PROVE  Kept(Close(book, s, level, reason), latest)
  <1> DEFINE p == book.acct.positions[s]
             t == Trade(s, p, ExitPrice(p, level), reason)
             v == Proceeds(p, level)
             after == Close(book, s, level, reason)
  <1>1. p \in Position /\ book.acct \in Account
    BY BookParts, PositionOf
  <1>2. after \in Book /\ after.acct.positions = [book.acct.positions EXCEPT ![s] = None]
    BY CloseKeepsBook
  <1>3. after.acct.balance = book.acct.balance + v /\ after.trades = book.trades \union {t}
    <2> HIDE DEF t, v
    <2> QED BY <1>1 DEF Close, Account, t, v
  <1>4. t.net = v + Carry(p) /\ t.symbol = s /\ t.entryTime = p.time
    <2> HIDE DEF p
    <2> QED BY <1>1, NetOfTrade
  <1>5. v \in Int /\ Carry(p) \in Int
    <2> HIDE DEF p
    <2> QED BY <1>1, ExitIsInteger DEF Carry, Position
  <1>6. p.time <= latest[s] /\ \A x \in book.trades : x.symbol = s => x.entryTime # p.time
    BY DEF Kept, Dated
  <1> HIDE DEF t, v, p, after
  <1>7. t \notin book.trades
    BY <1>4, <1>6
  <1>8. \A x \in book.trades \union {t} : x.net \in Int
    BY <1>4, <1>5, TradesHaveNets
  <1>9. IsFiniteSet(after.trades) /\ Net(after.trades) = Net(book.trades) + t.net
    BY <1>3, <1>7, <1>8, FS_AddElement, NetOfOneMore DEF Kept
  <1>10. Books(after)
    <2>1. t.net \in Int /\ Carry(None) = Carry(p) + (v - t.net)
      BY <1>4, <1>5 DEF Carry
    <2>2. PICK none : none = None
      OBVIOUS
    <2>3. PICK w \in Int : w = t.net
      BY <2>1
    <2>4. /\ Carry(none) = Carry(book.acct.positions[s]) + (v - w)
          /\ after.acct.positions = [book.acct.positions EXCEPT ![s] = none]
          /\ Net(after.trades) = Net(book.trades) + w
      BY <1>2, <1>9, <2>1, <2>2, <2>3 DEF p
    <2>5. Books(book) /\ IsFiniteSet(book.trades)
      BY DEF Kept
    <2>6. after.acct.balance = book.acct.balance + v
      BY <1>3
    <2> QED BY <1>2, <1>5, <2>4, <2>5, <2>6, BooksOfOne
  <1>11. Dated(after, latest)
    <2>1. \A x \in Symbols : after.acct.positions[x] # None =>
             x # s /\ after.acct.positions[x] = book.acct.positions[x]
      BY <1>1, <1>2 DEF Account
    <2> QED BY <1>3, <1>4, <1>6, <2>1 DEF Kept, Dated
  <1> QED BY <1>9, <1>10, <1>11 DEF Kept, after

LEMMA CloseAllKept ==
  ASSUME NEW book \in Book, NEW m, Marked(book.acct, m), NEW reason \in Reasons,
         reason # "stop", clock \in Nat, NEW latest, Kept(book, latest)
  PROVE  Kept(CloseAll(book, m, reason), latest)
  <1> DEFINE p == book.acct.positions
             H == Holding(book.acct)
             level == [s \in Symbols |-> Proceeds(p[s], m[s])]
             v == Total(OfPositions(book.acct, level))
             t == [s \in Symbols |-> Trade(s, p[s], ExitPrice(p[s], m[s]), reason)]
             net == [s \in Symbols |-> IF s \in H THEN t[s].net ELSE 0]
             after == CloseAll(book, m, reason)
  <1>1. book.acct \in Account
    BY BookParts
  <1>2. after \in Book /\ after.acct.positions = Flat
    BY CloseAllKeepsBook
  <1>3. /\ after.acct.balance = book.acct.balance + v
        /\ after.trades = book.trades \union {t[s] : s \in H}
    <2>1. {t[s] : s \in H} = {Trade(s, p[s], ExitPrice(p[s], m[s]), reason) : s \in H}
      BY DEF Holding
    <2> HIDE DEF t, H
    <2> QED BY <1>1, <2>1 DEF CloseAll, Account, H
  <1>4. H \in SUBSET Symbols /\ \A s \in Symbols : s \in H <=> p[s] # None
    BY DEF Holding
  <1>5. ASSUME NEW s \in H
        PROVE  /\ t[s].net = level[s] + Carry(p[s]) /\ t[s].symbol = s
               /\ t[s].entryTime = p[s].time /\ level[s] \in Int /\ Carry(p[s]) \in Int
    <2>1. s \in Symbols /\ p[s] \in Position /\ m[s] \in Int
      BY <1>1, <1>4, PositionOf DEF Marked
    <2> DEFINE ps == p[s]
               l  == m[s]
    <2>2. t[s] = Trade(s, ps, ExitPrice(ps, l), reason) /\ level[s] = Proceeds(ps, l)
      BY <2>1
    <2>3. ps \in Position /\ l \in Int
      BY <2>1
    <2>4. Carry(ps) \in Int
      BY <2>3 DEF Carry, Position
    <2> HIDE DEF ps, l, t, level
    <2> QED BY <2>1, <2>2, <2>3, <2>4, NetOfTrade, ExitIsInteger DEF ps
  <1>6. \A s \in H : t[s] \notin book.trades /\ t[s].net \in Int
    <2>1. \A s \in H : \A x \in book.trades : x.symbol = s => x.entryTime # p[s].time
      BY <1>4 DEF Kept, Dated
    <2> HIDE DEF t, H, p, level
    <2> QED BY <1>5, <2>1
  <1>7. /\ IsFiniteSet(after.trades)
        /\ Net(after.trades) = Net(book.trades) + Total(net)
    <2>1. IsFiniteSet(book.trades) /\ \A x \in book.trades : x.net \in Int
      BY TradesHaveNets DEF Kept
    <2>2. \A s \in H : t[s] \notin book.trades /\ t[s].symbol = s /\ t[s].net \in Int
      <3> HIDE DEF t, H
      <3> QED BY <1>5, <1>6
    <2>3. /\ net \in [Symbols -> Int]
          /\ \A s \in Symbols : net[s] = IF s \in H THEN t[s].net ELSE 0
      <3> HIDE DEF t, H
      <3> QED BY <2>2
    <2> DEFINE all == book.trades \union {t[s] : s \in H}
    <2> HIDE DEF t, H, after, net
    <2>4. NewTrades(book.trades, H, t, net)
      BY <2>2, <2>3 DEF NewTrades
    <2>5. IsFiniteSet(all) /\ Net(all) = Net(book.trades) + Total(net)
      BY <1>4, <2>1, <2>4, NetOfEach
    <2> QED BY <1>3, <2>5
  <1>8. Total(net) = v + Total(Carried(book.acct)) /\ v \in Int /\ Total(net) \in Int
    <2> DEFINE g == OfPositions(book.acct, level)
               c == Carried(book.acct)
    <2>1. g \in [Symbols -> Int] /\ c \in [Symbols -> Int] /\ v \in Int
      <3>1. \A s \in Symbols : book.acct.positions[s] # None => level[s] \in Int
        BY <1>4, <1>5
      <3> HIDE DEF level
      <3> QED BY <1>1, <3>1, OfPositionsIsInteger, CarriedIsInteger
    <2>2. net \in [Symbols -> Int]
      <3> HIDE DEF t, H
      <3> QED BY <1>6
    <2>3. ASSUME NEW s \in Symbols PROVE net[s] = g[s] + c[s]
      <3>1. CASE s \in H
        <4>1. net[s] = t[s].net /\ g[s] = level[s] /\ c[s] = Carry(p[s])
          BY <1>4, <3>1 DEF OfPositions, Carried
        <4> HIDE DEF net, g, c, t, level
        <4> QED BY <1>5, <3>1, <4>1
      <3>2. CASE s \notin H
        BY <1>4, <3>2 DEF OfPositions, Carried, Carry
      <3> QED BY <3>1, <3>2
    <2>4. v = Total(g)
      OBVIOUS
    <2> HIDE DEF net, g, c, v
    <2> QED BY <2>1, <2>2, <2>3, <2>4, TotalOfSum, TotalIsInteger DEF c
  <1>9. Total(Carried(after.acct)) = 0
    <2> DEFINE c == Carried(after.acct)
    <2>1. c \in [Symbols -> Int] /\ \A s \in Symbols : c[s] = 0
      BY <1>2 DEF Carried, Carry, Flat
    <2> HIDE DEF c
    <2>2. Total(c) = 0
      BY <2>1, TotalOfNothing
    <2> QED BY <2>2 DEF c
  <1>10. Books(after)
    <2> DEFINE old == Net(book.trades)
               carried == Total(Carried(book.acct))
               bal == book.acct.balance
    <2>1. old \in Int /\ carried \in Int /\ bal \in Int /\ StartingEquity \in Int
      BY <1>1, NetIsInteger, TradesHaveNets, CarriedIsInteger, AccountAssumption
      DEF Kept, Account, AccountAssumption
    <2>2. bal = StartingEquity + old + carried
      BY DEF Kept, Books
    <2>3. /\ after.acct.balance = bal + v
          /\ Net(after.trades) = old + Total(net) /\ Total(net) = v + carried
      BY <1>3, <1>7, <1>8
    <2> HIDE DEF old, carried, bal, v, net, after
    <2>4. after.acct.balance = StartingEquity + Net(after.trades) + 0
      BY <1>8, <2>1, <2>2, <2>3
    <2> QED BY <1>9, <2>4 DEF Books
  <1>11. Dated(after, latest)
    <2>1. ASSUME NEW x \in after.trades PROVE x.entryTime <= latest[x.symbol]
      <3>1. CASE x \in book.trades
        BY <3>1 DEF Kept, Dated
      <3>2. CASE x \notin book.trades
        <4>1. PICK s \in H : x = t[s]
          BY <1>3, <3>2
        <4>2. p[s].time <= latest[s]
          BY <1>4 DEF Kept, Dated
        <4> HIDE DEF t, H, p, level
        <4> QED BY <1>5, <4>1, <4>2
      <3> QED BY <3>1, <3>2
    <2> QED BY <1>2, <2>1 DEF Dated, Flat
  <1> QED BY <1>7, <1>10, <1>11 DEF Kept

LEMMA EnforceKept ==
  ASSUME NEW book \in Book, NEW m, Marked(book.acct, m), clock \in Nat,
         NEW latest, Kept(book, latest)
  PROVE  Kept(EnforceStops(book, m), latest)
  <1> DEFINE equity == Equity(book.acct, m)
             noted  == [book EXCEPT !.acct = NoteEquity(@, equity)]
  <1>1. book.acct \in Account /\ equity \in Int
    BY BookParts, EquityIsInteger
  <1>2. /\ noted \in Book /\ noted.acct.positions = book.acct.positions
        /\ noted.acct.balance = book.acct.balance /\ noted.trades = book.trades
    <2> DEFINE a == NoteEquity(book.acct, equity)
    <2>1. noted = [acct |-> a, trades |-> book.trades]
      BY DEF Book
    <2>2. a \in Account /\ a.positions = book.acct.positions /\ a.balance = book.acct.balance
      <3> HIDE DEF equity
      <3> QED BY <1>1, NotedAccount
    <2> HIDE DEF a, noted, equity
    <2>3. [acct |-> a, trades |-> book.trades] \in Book
      BY <2>2, BookParts, BookOf
    <2> QED BY <2>1, <2>2, <2>3
  <1>3. Marked(noted.acct, m)
    BY <1>2 DEF Marked
  <1>4. Kept(noted, latest)
    <2> HIDE DEF noted
    <2> QED BY <1>2, SameBooks
  <1>5. ASSUME NEW why \in Reasons, why # "stop"
        PROVE  /\ Flatten(noted, m, why) \in Book
               /\ Kept(Flatten(noted, m, why), latest)
    <2> DEFINE all  == CloseAll(noted, m, why)
               flat == Flatten(noted, m, why)
    <2> HIDE DEF noted
    <2>1. Kept(all, latest) /\ all.acct.positions = Flat
      BY <1>2, <1>3, <1>4, <1>5, CloseAllKept, CloseAllKeepsBook
    <2>2. /\ flat \in Book /\ flat.acct.positions = Flat
          /\ flat.acct.balance = all.acct.balance /\ flat.trades = all.trades
      BY <1>2, <1>3, <1>5, FlattenKeepsBook
    <2> HIDE DEF all, flat
    <2>3. Kept(flat, latest)
      BY <2>1, <2>2, SameBooks
    <2> QED BY <2>2, <2>3 DEF flat
  <1> DEFINE halt == Flatten(noted, m, "mdd_halt")
             pause == Flatten(noted, m, "daily_stop")
             stopped == [halt EXCEPT !.acct.halted = TRUE]
             resting == [pause EXCEPT !.acct.paused = TRUE]
  <1>6. EnforceStops(book, m) \in {noted, stopped, resting}
    BY DEF EnforceStops
  <1> HIDE DEF noted
  <1>7. halt \in Book /\ Kept(halt, latest)
    <2> DEFINE why == "mdd_halt"
    <2>1. why \in Reasons /\ halt = Flatten(noted, m, why)
      BY DEF Reasons
    <2>2. why # "stop"
      OBVIOUS
    <2> HIDE DEF why, halt
    <2> QED BY <1>5, <2>1, <2>2
  <1>8. pause \in Book /\ Kept(pause, latest)
    <2> DEFINE why == "daily_stop"
    <2>1. why \in Reasons /\ pause = Flatten(noted, m, why)
      BY DEF Reasons
    <2>2. why # "stop"
      OBVIOUS
    <2> HIDE DEF why, pause
    <2> QED BY <1>5, <2>1, <2>2
  <1> HIDE DEF halt, pause
  <1> DEFINE yes == TRUE
  <1>9. yes \in BOOLEAN /\ stopped = Halted(halt, yes) /\ resting = Paused(pause, yes)
    BY DEF Halted, Paused
  <1> HIDE DEF stopped, resting, yes
  <1>10. Kept(stopped, latest)
    BY <1>7, <1>9, StopFlags, SameBooks
  <1>11. Kept(resting, latest)
    BY <1>8, <1>9, StopFlags, SameBooks
  <1> QED BY <1>4, <1>6, <1>10, <1>11

LEMMA ExitsKept ==
  ASSUME NEW book \in Book, NEW s \in Symbols, NEW bar, clock \in Nat,
         NEW latest, Kept(book, latest)
  PROVE  Kept(ManageExits(book, s, bar), latest)
  <1> DEFINE p == book.acct.positions[s]
  <1>1. CASE p = None
    BY <1>1 DEF ManageExits
  <1>2. CASE p # None
    <2>1. p \in Position
      BY <1>2, BookParts, PositionOf
    <2> DEFINE gain == "take_profit"
               loss == "stop"
               low  == p.stop
               high == p.takeProfit
    <2>2. ManageExits(book, s, bar)
            \in {book, Close(book, s, low, loss), Close(book, s, high, gain)}
      BY <1>2 DEF ManageExits
    <2>3. gain \in Reasons /\ loss \in Reasons
      BY DEF Reasons
    <2>4. gain # "stop" /\ low = book.acct.positions[s].stop /\ low \in Int /\ high \in Int
      BY <2>1 DEF Position
    <2> HIDE DEF gain, loss, low, high
    <2>5. Kept(Close(book, s, low, loss), latest)
      BY <1>2, <2>3, <2>4, CloseKept
    <2>6. Kept(Close(book, s, high, gain), latest)
      BY <1>2, <2>3, <2>4, CloseKept
    <2> QED BY <2>2, <2>5, <2>6
  <1> QED BY <1>1, <1>2
-----------------------------------------------------------------------------
(* The run *)

\* What EntriesWithinCaps says of a step.
Caps ==
  \A s \in Symbols : (acct.positions[s] = None /\ acct'.positions[s] # None) =>
    /\ Unit * acct'.positions[s].risk <= PER_POSITION_RISK * sizing
    /\ Unit * OpenPlannedRisk(acct') <= AGGREGATE_PLANNED_RISK * sizing
    /\ Unit * OpenNotional(acct') <= GROSS_LEVERAGE_CEILING * sizing

LEMMA EnvironmentTypes ==
  /\ \A bar \in Bars : bar \in Bar /\ bar.open \in Int /\ bar.close \in Int
  /\ FundingRates \subseteq Int /\ Observed \subseteq Prices
  <1>1. ASSUME NEW bar \in Bars PROVE bar \in Bar /\ bar.open \in Int /\ bar.close \in Int
    <2>1. bar \in [open : Nat, high : Nat, low : Nat, close : Nat]
      BY AccountAssumption DEF AccountAssumption
    <2>2. 0 < bar.low /\ bar.open \in bar.low..bar.high
      BY AccountAssumption DEF AccountAssumption
    <2>3. bar.open \in Nat \ {0}
      BY <2>1, <2>2
    <2> QED BY <2>1, <2>3 DEF Bar
  <1>2. FundingRates \subseteq Int
    BY AccountAssumption DEF AccountAssumption
  <1>3. ASSUME NEW seen \in Observed PROVE seen \in Prices
    BY AccountAssumption DEF AccountAssumption, Prices
  <1> QED BY <1>1, <1>2, <1>3

LEMMA InitInv == Init => Inv
  <1> SUFFICES ASSUME Init PROVE Inv
    OBVIOUS
  <1>1. StartingEquity \in Int
    BY AccountAssumption DEF AccountAssumption
  <1>2. NewAccount \in Account /\ NewAccount.positions = Flat
    <2>1. /\ Flat \in [Symbols -> Position \union {None}]
          /\ NoIntent \in [Symbols -> Intent \union {None}]
      BY DEF Flat, NoIntent
    <2> QED BY <1>1, <2>1 DEF NewAccount, Account
  <1>3. [acct |-> acct, trades |-> trades] \in Book
    BY <1>2, BookOf DEF Init
  <1>4. Marked(acct, marks)
    BY <1>2 DEF Init, Marked, Flat
  <1>5. clock \in Nat /\ turn \in 0..(N + 1) /\ done \in BOOLEAN /\ sizing \in Int
    <2>1. clock = 0 /\ turn = 0 /\ done = FALSE /\ sizing = StartingEquity
      BY DEF Init
    <2>2. N \in Nat
      BY Indices
    <2>3. 0 \in 0..(N + 1) /\ 0 \in Nat
      BY <2>2
    <2>4. FALSE \in BOOLEAN
      OBVIOUS
    <2>5. done \in BOOLEAN
      BY <2>1, <2>4, Zenon
    <2> QED BY <1>1, <2>1, <2>3, <2>5
  <1>6. marks \in Marks
    BY DEF Init, Marks
  <1> QED BY <1>3, <1>4, <1>5, <1>6 DEF Inv

LEMMA BeginStep == ASSUME Inv, BeginTimestamp PROVE Inv' /\ Caps
  <1>1. acct \in Account /\ trades \subseteq Closed
    BY DEF Inv, Book
  <1> DEFINE equity == Equity(acct, marks)
  <1>2. equity \in Int
    BY <1>1, EquityIsInteger DEF Inv
  <1>3. acct' \in Account /\ acct'.positions = acct.positions
    <2> DEFINE fresh == [acct EXCEPT !.paused = FALSE, !.dayStart = equity]
    <2>1. acct' \in {acct, fresh}
      BY DEF BeginTimestamp
    <2>2. fresh \in Account /\ fresh.positions = acct.positions
      <3> DEFINE no == FALSE
      <3>1. no \in BOOLEAN /\ fresh = [acct EXCEPT !.paused = no, !.dayStart = equity]
        OBVIOUS
      <3> HIDE DEF equity, no
      <3> QED BY <1>1, <1>2, <3>1 DEF Account
    <2> HIDE DEF fresh
    <2> QED BY <1>1, <2>1, <2>2
  <1>4. [acct |-> acct', trades |-> trades'] \in Book
    BY <1>1, <1>3, BookOf DEF BeginTimestamp
  <1>5. Marked(acct, marks)' /\ Caps
    BY <1>3 DEF BeginTimestamp, Inv, Marked, Caps
  <1>6. sizing' = equity
    BY DEF BeginTimestamp
  <1> HIDE DEF equity
  <1>7. sizing' \in Int
    BY <1>2, <1>6
  <1>8. turn' \in 0..(N + 1)
    BY Indices DEF BeginTimestamp
  <1>9. clock' \in Nat /\ done' \in BOOLEAN /\ marks' \in Marks
    BY DEF BeginTimestamp, Inv
  <1> QED BY <1>4, <1>5, <1>7, <1>8, <1>9 DEF Inv

LEMMA EndStep ==
  ASSUME Inv, NEW signals \in [Symbols -> Directions \union {None}], EndMinute(signals)
  PROVE  Inv' /\ Caps
  <1>1. acct \in Account /\ trades \subseteq Closed /\ clock \in Nat
    BY DEF Inv, Book
  <1> DEFINE asked == [s \in Symbols |->
                         IF \/ acct.positions[s] # None
                            \/ acct.pending[s] # None \/ signals[s] = None
                         THEN acct.pending[s]
                         ELSE [direction |-> signals[s], time |-> clock + 1]]
             heard == [acct EXCEPT !.pending = asked]
  <1>2. asked \in [Symbols -> Intent \union {None}]
    <2>1. ASSUME NEW s \in Symbols PROVE asked[s] \in Intent \union {None}
      BY <1>1 DEF Account, Intent
    <2> HIDE DEF asked
    <2>2. asked = [s \in Symbols |-> asked[s]]
      BY DEF asked
    <2> QED BY <2>1, <2>2
  <1>3. acct' \in {acct, heard}
    BY DEF EndMinute, Hour
  <1>4. heard \in Account /\ heard.positions = acct.positions
    <2> HIDE DEF asked
    <2> QED BY <1>1, <1>2 DEF Account
  <1> HIDE DEF heard
  <1>5. acct' \in Account /\ acct'.positions = acct.positions
    BY <1>1, <1>3, <1>4
  <1>6. [acct |-> acct', trades |-> trades'] \in Book
    BY <1>1, <1>5, BookOf DEF EndMinute
  <1>7. Marked(acct, marks)' /\ Caps
    BY <1>5 DEF EndMinute, Inv, Marked, Caps
  <1>8. turn' \in 0..(N + 1) /\ clock' \in Nat
    BY <1>1, Indices DEF EndMinute
  <1>9. sizing' \in Int /\ done' \in BOOLEAN /\ marks' \in Marks
    BY DEF EndMinute, Inv
  <1> QED BY <1>6, <1>7, <1>8, <1>9 DEF Inv

LEMMA FinishStep == ASSUME Inv, Finish PROVE Inv' /\ Caps
  <1> DEFINE book  == [acct |-> acct, trades |-> trades]
             why   == "end_of_window"
             final == CloseAll(book, marks, why)
  <1>1. book \in Book /\ Marked(book.acct, marks) /\ clock \in Nat
    BY DEF Inv
  <1>2. why \in Reasons
    BY DEF Reasons
  <1>3. why # "stop"
    OBVIOUS
  <1>4. acct' = final.acct /\ trades' = final.trades
    BY DEF Finish
  <1> HIDE DEF book, why
  <1>5. final \in Book /\ final.acct.positions = Flat
    BY <1>1, <1>2, <1>3, CloseAllKeepsBook
  <1> HIDE DEF final
  <1>6. [acct |-> acct', trades |-> trades'] \in Book /\ acct'.positions = Flat
    BY <1>4, <1>5, BookParts
  <1>7. Marked(acct, marks)' /\ Caps
    BY <1>6 DEF Marked, Caps, Flat
  <1>8. /\ clock' \in Nat /\ done' \in BOOLEAN /\ marks' \in Marks
        /\ turn' \in 0..(N + 1) /\ sizing' \in Int
    BY DEF Finish, Inv
  <1> QED BY <1>6, <1>7, <1>8 DEF Inv

\* The books of a minute of the driven symbol, from the one that begins it to
\* the one it ends with, and the marks at its two prices.
DrivenSymbol == SUPPORTED_SYMBOLS[turn]
AtOpen(bar)  == [marks EXCEPT ![DrivenSymbol] = bar.open]
AtClose(bar) == [marks EXCEPT ![DrivenSymbol] = bar.close]
Before == [acct |-> acct, trades |-> trades]
Funded(bar, rate) == ApplyFunding(Before, DrivenSymbol, bar, rate)
Entered(bar, rate, seen) == TryEnter(Funded(bar, rate), DrivenSymbol, bar, seen)
Opened(bar, rate, seen) == EnforceStops(Entered(bar, rate, seen), AtOpen(bar))
Exited(bar, rate, seen) == ManageExits(Opened(bar, rate, seen), DrivenSymbol, bar)
Settled(bar, rate, seen) == EnforceStops(Exited(bar, rate, seen), AtClose(bar))

LEMMA MinuteEffect ==
  ASSUME Inv, NEW bar \in Bars, NEW rate \in FundingRates, NEW seen \in Observed,
         OnMinute(bar, rate, seen)
  PROVE  /\ turn \in 1..N /\ DrivenSymbol \in Symbols
         /\ bar \in Bar /\ rate \in Int /\ seen \in Prices
         /\ clock \in Nat /\ sizing \in Int /\ Before \in Book /\ Before.acct = acct
         /\ acct' = Settled(bar, rate, seen).acct /\ trades' = Settled(bar, rate, seen).trades
         /\ marks' = AtClose(bar) /\ AtClose(bar) \in Marks
         /\ done' = Settled(bar, rate, seen).acct.halted
         /\ turn' = IF Settled(bar, rate, seen).acct.halted THEN 0 ELSE turn + 1
         /\ clock' = clock /\ sizing' = sizing
  <1>1. turn \in 1..N /\ clock' = clock /\ sizing' = sizing
    BY DEF OnMinute
  <1>2. DrivenSymbol \in Symbols
    BY <1>1, Indices DEF DrivenSymbol
  <1>3. bar \in Bar /\ rate \in Int /\ seen \in Prices /\ bar.close \in Int
    BY EnvironmentTypes
  <1>4. clock \in Nat /\ sizing \in Int /\ marks \in Marks /\ Before \in Book /\ Before.acct = acct
    BY DEF Inv, Before
  <1>5. AtClose(bar) \in Marks
    BY <1>2, <1>3, <1>4 DEF Marks, AtClose
  <1>6. /\ acct' = Settled(bar, rate, seen).acct /\ trades' = Settled(bar, rate, seen).trades
        /\ marks' = AtClose(bar)
        /\ done' = Settled(bar, rate, seen).acct.halted
        /\ turn' = IF Settled(bar, rate, seen).acct.halted THEN 0 ELSE turn + 1
    BY DEF OnMinute, Settled, Exited, Opened, Entered, Funded, Before, AtOpen, AtClose, DrivenSymbol
  <1> QED BY <1>1, <1>2, <1>3, <1>4, <1>5, <1>6

\* Each operation of a minute gets a book, and marks for what is open in it.
LEMMA MinuteChain ==
  ASSUME Inv, NEW bar \in Bars, NEW rate \in FundingRates, NEW seen \in Observed,
         OnMinute(bar, rate, seen)
  PROVE  LET funded  == Funded(bar, rate)
             entered == Entered(bar, rate, seen)
             opened  == Opened(bar, rate, seen)
             exited  == Exited(bar, rate, seen)
             settled == Settled(bar, rate, seen)
         IN /\ funded \in Book /\ entered \in Book /\ opened \in Book
            /\ exited \in Book /\ settled \in Book
            /\ Marked(entered.acct, AtOpen(bar)) /\ Marked(exited.acct, AtClose(bar))
            /\ \A x \in Symbols : funded.acct.positions[x] # None => acct.positions[x] # None
            /\ acct.positions[DrivenSymbol] = None => funded = Before
            /\ Enters(funded, DrivenSymbol, entered)
            /\ \A x \in Symbols : exited.acct.positions[x] # None =>
                 /\ opened.acct.positions = entered.acct.positions
                 /\ x = DrivenSymbol => exited.acct.positions = entered.acct.positions
                 /\ entered.acct.positions[x] # None
            /\ settled.acct.positions \in {exited.acct.positions, Flat}
  <1> DEFINE s       == DrivenSymbol
             atOpen  == AtOpen(bar)
             atClose == AtClose(bar)
             book    == Before
             funded  == Funded(bar, rate)
             entered == Entered(bar, rate, seen)
             opened  == Opened(bar, rate, seen)
             exited  == Exited(bar, rate, seen)
             settled == Settled(bar, rate, seen)
  <1>1. /\ s \in Symbols /\ bar \in Bar /\ rate \in Int /\ seen \in Prices
        /\ bar.open \in Int /\ bar.close \in Int
    BY MinuteEffect, EnvironmentTypes
  <1>2. /\ clock \in Nat /\ sizing \in Int /\ marks \in Marks /\ acct \in Account
        /\ book \in Book /\ book.acct = acct /\ Marked(acct, marks)
    BY MinuteEffect DEF Inv, Book
  <1>3. /\ atOpen[s] \in Int /\ atClose[s] \in Int
        /\ \A x \in Symbols \ {s} : atOpen[x] = marks[x] /\ atClose[x] = marks[x]
    BY <1>1, <1>2 DEF Marks, AtOpen, AtClose
  <1>4. /\ funded = ApplyFunding(book, s, bar, rate) /\ entered = TryEnter(funded, s, bar, seen)
        /\ opened = EnforceStops(entered, atOpen) /\ exited = ManageExits(opened, s, bar)
        /\ settled = EnforceStops(exited, atClose)
    BY DEF Settled, Exited, Opened, Entered, Funded
  <1> HIDE DEF s, atOpen, atClose, book, funded, entered, opened, exited, settled
  <1>6. /\ funded \in Book
        /\ \A x \in Symbols : funded.acct.positions[x] # None => acct.positions[x] # None
        /\ acct.positions[s] = None => funded = book
    BY <1>1, <1>2, <1>4, FundingKeepsBook
  <1>7. entered \in Book /\ Enters(funded, s, entered)
    BY <1>1, <1>2, <1>4, <1>6, EnterKeepsBook
  <1>8. funded.acct \in Account /\ entered.acct \in Account
    BY <1>6, <1>7, BookParts
  <1>9. ASSUME NEW x \in Symbols \ {s}
        PROVE  entered.acct.positions[x] = funded.acct.positions[x]
    BY <1>7, <1>8 DEF Account, Enters
  <1>10. \A x \in Symbols \ {s} : entered.acct.positions[x] # None => marks[x] \in Int
    BY <1>2, <1>6, <1>9 DEF Marked
  <1>11. Marked(entered.acct, atOpen)
    BY <1>3, <1>10 DEF Marked
  <1>12. /\ opened \in Book
         /\ opened.acct.positions \in {entered.acct.positions, Flat}
    BY <1>2, <1>4, <1>7, <1>11, EnforceKeepsBook
  <1>13. /\ exited \in Book
         /\ exited.acct.positions
              \in {opened.acct.positions, [opened.acct.positions EXCEPT ![s] = None]}
    BY <1>1, <1>2, <1>4, <1>12, ExitsKeepBook
  <1>14. ASSUME NEW x \in Symbols, exited.acct.positions[x] # None
         PROVE  opened.acct.positions = entered.acct.positions
                /\ (x = s => exited.acct.positions = entered.acct.positions)
                /\ entered.acct.positions[x] # None
    <2>1. opened.acct \in Account
      BY <1>12, BookParts
    <2>2. opened.acct.positions[x] # None
      BY <1>13, <1>14, <2>1 DEF Account
    <2>3. opened.acct.positions = entered.acct.positions
      BY <1>12, <2>2 DEF Flat
    <2>4. ASSUME x = s PROVE exited.acct.positions = opened.acct.positions
      BY <1>13, <1>14, <2>1, <2>4 DEF Account
    <2> QED BY <2>2, <2>3, <2>4
  <1>15. Marked(exited.acct, atClose)
    BY <1>3, <1>10, <1>14 DEF Marked
  <1>16. /\ settled \in Book
         /\ settled.acct.positions \in {exited.acct.positions, Flat}
    BY <1>2, <1>4, <1>13, <1>15, EnforceKeepsBook
  <1> QED BY <1>6, <1>7, <1>11, <1>12, <1>13, <1>14, <1>15, <1>16
        DEF s, atOpen, atClose, book, funded, entered, opened, exited, settled

LEMMA MinuteStep ==
  ASSUME Inv, NEW bar \in Bars, NEW rate \in FundingRates, NEW seen \in Observed,
         OnMinute(bar, rate, seen)
  PROVE  Inv' /\ Caps
  <1> DEFINE s       == DrivenSymbol
             funded  == Funded(bar, rate)
             entered == Entered(bar, rate, seen)
             exited  == Exited(bar, rate, seen)
             settled == Settled(bar, rate, seen)
  <1>1. /\ turn \in 1..N /\ s \in Symbols /\ clock' = clock /\ sizing' = sizing
        /\ acct' = settled.acct /\ trades' = settled.trades
        /\ marks' = AtClose(bar) /\ AtClose(bar) \in Marks
        /\ done' = settled.acct.halted
        /\ turn' = IF settled.acct.halted THEN 0 ELSE turn + 1
    BY MinuteEffect
  <1>2. /\ clock \in Nat /\ sizing \in Int /\ acct \in Account /\ Before.acct = acct
    BY MinuteEffect DEF Inv, Book
  <1>3. /\ funded \in Book /\ entered \in Book /\ exited \in Book /\ settled \in Book
        /\ Marked(exited.acct, AtClose(bar))
    BY MinuteChain
  <1>4. /\ \A x \in Symbols : funded.acct.positions[x] # None => acct.positions[x] # None
        /\ acct.positions[s] = None => funded = Before
        /\ Enters(funded, s, entered)
    BY MinuteChain
  <1>5. /\ \A x \in Symbols : exited.acct.positions[x] # None =>
             /\ x = s => exited.acct.positions = entered.acct.positions
             /\ entered.acct.positions[x] # None
        /\ settled.acct.positions \in {exited.acct.positions, Flat}
    BY MinuteChain
  <1> HIDE DEF s, funded, entered, exited, settled
  <1>6. funded.acct \in Account /\ entered.acct \in Account
    BY <1>3, BookParts
  <1>7. ASSUME NEW x \in Symbols \ {s}
        PROVE  entered.acct.positions[x] = funded.acct.positions[x]
    BY <1>4, <1>6 DEF Account, Enters
  <1>8. ASSUME NEW x \in Symbols, acct'.positions[x] # None
         PROVE  acct'.positions = exited.acct.positions /\ exited.acct.positions[x] # None
    BY <1>1, <1>5, <1>8 DEF Flat
  <1>9. Caps
    <2> SUFFICES ASSUME NEW x \in Symbols, acct.positions[x] = None, acct'.positions[x] # None
                 PROVE  /\ Unit * acct'.positions[x].risk <= PER_POSITION_RISK * sizing
                        /\ Unit * OpenPlannedRisk(acct') <= AGGREGATE_PLANNED_RISK * sizing
                        /\ Unit * OpenNotional(acct') <= GROSS_LEVERAGE_CEILING * sizing
      BY DEF Caps
    <2>1. acct'.positions = exited.acct.positions /\ exited.acct.positions[x] # None
      BY <1>8
    <2>2. entered.acct.positions[x] # None /\ funded.acct.positions[x] = None
      BY <1>4, <1>5, <2>1
    <2>3. x = s
      BY <1>7, <2>2
    <2>4. acct'.positions = entered.acct.positions
      BY <1>5, <2>1, <2>3
    <2>5. funded = Before
      BY <1>4, <2>3
    <2>6. funded.acct = acct
      BY <1>2, <2>5
    <2>7. PICK p \in Position :
            /\ Within(p, Remaining(sizing, OpenPlannedRisk(acct), OpenNotional(acct)))
            /\ entered.acct.positions = [acct.positions EXCEPT ![s] = p]
      <3>1. entered.acct.positions # funded.acct.positions
        BY <2>2
      <3> QED BY <1>4, <2>6, <3>1 DEF Enters
    <2>8. acct'.positions[x] = p /\ acct'.positions = [acct.positions EXCEPT ![x] = p]
      BY <1>2, <2>3, <2>4, <2>7 DEF Account
    <2>9. p # None
      BY <2>8
    <2> QED BY <1>2, <2>7, <2>8, <2>9, LimitsHold
  <1>10. [acct |-> acct', trades |-> trades'] \in Book
    BY <1>1, <1>3, BookParts
  <1>11. Marked(acct, marks)'
    BY <1>1, <1>3, <1>8 DEF Marked
  <1>12. done' \in BOOLEAN /\ marks' \in Marks
    BY <1>1, <1>3, BookParts DEF Account
  <1>13. turn' \in 0..(N + 1)
    <2>1. 0 \in 0..(N + 1) /\ turn + 1 \in 0..(N + 1)
      BY <1>1, Indices
    <2> QED BY <1>1, <2>1
  <1>14. clock' \in Nat /\ sizing' \in Int
    BY <1>1, <1>2
  <1> QED BY <1>9, <1>10, <1>11, <1>12, <1>13, <1>14 DEF Inv

LEMMA NextInv == Inv /\ [Next]_vars => Inv' /\ (Caps \/ UNCHANGED vars)
  <1> SUFFICES ASSUME Inv, [Next]_vars PROVE Inv' /\ (Caps \/ UNCHANGED vars)
    OBVIOUS
  <1>1. CASE BeginTimestamp
    BY <1>1, BeginStep
  <1>2. CASE \E bar \in Bars, rate \in FundingRates, seen \in Observed : OnMinute(bar, rate, seen)
    BY <1>2, MinuteStep
  <1>3. CASE \E signals \in [Symbols -> Directions \union {None}] : EndMinute(signals)
    BY <1>3, EndStep
  <1>4. CASE Finish
    BY <1>4, FinishStep
  <1>5. CASE UNCHANGED vars
    BY <1>5 DEF vars, Inv, Marked, Marks
  <1> QED BY <1>1, <1>2, <1>3, <1>4, <1>5 DEF Next

(* The account's types, its planned risks among them, are kept by every      *)
(* operation of the lifecycle (account.py, execution.py).                   *)
THEOREM AccountInvariant == Spec => []Inv
  <1>1. Init => Inv
    BY InitInv
  <1>2. Inv /\ [Next]_vars => Inv'
    BY NextInv
  <1> QED BY <1>1, <1>2, PTL DEF Spec

(* The risk reserved for a position is exactly what its stop costs          *)
(* (size_order, fit_executable, _try_enter, _close).                        *)
THEOREM StopCosts == Spec => []StopCostsWhatWasPlanned
  <1>1. Inv => StopCostsWhatWasPlanned
    <2> SUFFICES ASSUME Inv, NEW t \in trades, t.reason = "stop"
                 PROVE  t.net - t.funding = -t.risk
      BY DEF StopCostsWhatWasPlanned
    <2>1. t \in Closed
      BY DEF Inv, Book
    <2> QED BY <2>1 DEF Closed
  <1> QED BY <1>1, AccountInvariant, PTL

(* No entry takes the open positions over a limit (_try_enter).             *)
THEOREM EntriesKeepCaps == Spec => EntriesWithinCaps
  <1>1. Inv /\ [Next]_vars => [Caps]_vars
    BY NextInv
  <1>2. [Caps]_vars =>
          [\A s \in Symbols : (acct.positions[s] = None /\ acct'.positions[s] # None) =>
             /\ Unit * acct'.positions[s].risk <= PER_POSITION_RISK * sizing
             /\ Unit * OpenPlannedRisk(acct') <= AGGREGATE_PLANNED_RISK * sizing
             /\ Unit * OpenNotional(acct') <= GROSS_LEVERAGE_CEILING * sizing]_vars
    BY DEF Caps
  <1> QED BY <1>1, <1>2, AccountInvariant, PTL DEF Spec, EntriesWithinCaps

\* At any moment but a minute's first, when the day may just have begun, an
\* account with positions is within the limits at the marks.
LimitInv == Rests(acct) /\ (turn # 1 => WithinLimits(acct, marks))

LEMMA MinuteLimits ==
  ASSUME Inv, LimitInv, NEW bar \in Bars, NEW rate \in FundingRates, NEW seen \in Observed,
         OnMinute(bar, rate, seen)
  PROVE  LimitInv'
  <1> DEFINE s       == DrivenSymbol
             funded  == Funded(bar, rate)
             entered == Entered(bar, rate, seen)
             opened  == Opened(bar, rate, seen)
             exited  == Exited(bar, rate, seen)
             settled == Settled(bar, rate, seen)
  <1>1. /\ clock \in Nat /\ Before \in Book /\ s \in Symbols /\ Rests(Before.acct)
        /\ acct' = settled.acct /\ marks' = AtClose(bar)
    BY MinuteEffect DEF LimitInv
  <1>2. /\ funded \in Book /\ entered \in Book /\ opened \in Book /\ exited \in Book
        /\ Marked(entered.acct, AtOpen(bar)) /\ Marked(exited.acct, AtClose(bar))
    BY MinuteChain
  <1>3. Rests(funded.acct)
    BY <1>1, FundingRests DEF Funded
  <1>4. Rests(entered.acct)
    BY <1>1, <1>2, <1>3, EnterRests DEF Entered
  <1>5. Rests(opened.acct)
    BY <1>1, <1>2, <1>4, EnforceRests DEF Opened
  <1>6. Rests(exited.acct)
    BY <1>1, <1>2, <1>5, ExitsRest DEF Exited
  <1>7. Rests(settled.acct) /\ WithinLimits(settled.acct, AtClose(bar))
    BY <1>1, <1>2, <1>6, EnforceRests DEF Settled
  <1> HIDE DEF settled
  <1>8. Rests(acct') /\ WithinLimits(acct', marks')
    BY <1>1, <1>7
  <1>9. Rests(acct') = Rests(acct)' /\ WithinLimits(acct', marks') = WithinLimits(acct, marks)'
    BY DEF Rests, WithinLimits
  <1> QED BY <1>8, <1>9 DEF LimitInv

LEMMA NextLimits == Inv /\ LimitInv /\ [Next]_vars => LimitInv'
  <1> SUFFICES ASSUME Inv, LimitInv, [Next]_vars PROVE LimitInv'
    OBVIOUS
  <1>1. acct \in Account
    BY DEF Inv, Book
  <1>2. CASE BeginTimestamp
    <2>1. turn' = 1
      BY <1>2 DEF BeginTimestamp
    <2>2. acct'.positions = acct.positions
      BY <1>1, <1>2 DEF BeginTimestamp, Account
    <2>3. acct'.halted = acct.halted /\ (acct'.paused => acct.paused)
      BY <1>1, <1>2 DEF BeginTimestamp, Account
    <2> QED BY <2>1, <2>2, <2>3 DEF LimitInv, Rests
  <1>3. CASE \E bar \in Bars, rate \in FundingRates, seen \in Observed : OnMinute(bar, rate, seen)
    BY <1>3, MinuteLimits
  <1>4. ASSUME NEW signals \in [Symbols -> Directions \union {None}], EndMinute(signals)
        PROVE  LimitInv'
    <2>1. /\ acct'.positions = acct.positions /\ acct'.balance = acct.balance
          /\ acct'.highWater = acct.highWater /\ acct'.dayStart = acct.dayStart
          /\ acct'.halted = acct.halted /\ acct'.paused = acct.paused
      BY <1>1, <1>4 DEF EndMinute, Hour, Account
    <2>2. marks' = marks /\ turn = N + 1
      BY <1>4 DEF EndMinute
    <2>3. WithinLimits(acct, marks)
      <3>1. CASE N = 0
        <4>1. Symbols = {}
          BY <3>1, Indices
        <4>2. acct.positions = Flat
          BY <1>1, <4>1 DEF Flat, Account
        <4> QED BY <4>2 DEF WithinLimits
      <3>2. CASE N # 0
        BY <2>2, <3>2, Indices DEF LimitInv
      <3> QED BY <3>1, <3>2
    <2>4. Equity(acct', marks') = Equity(acct, marks)
      BY <2>1, <2>2, EquityOfBooks
    <2>5. /\ ShouldHalt(acct', Equity(acct, marks)) = ShouldHalt(acct, Equity(acct, marks))
          /\ DailyLoss(acct', Equity(acct, marks)) = DailyLoss(acct, Equity(acct, marks))
      BY <2>1 DEF ShouldHalt, DailyLoss
    <2>6. WithinLimits(acct', marks') /\ Rests(acct')
      BY <2>1, <2>3, <2>4, <2>5 DEF WithinLimits, Rests, LimitInv
    <2>7. Rests(acct') = Rests(acct)' /\ WithinLimits(acct', marks') = WithinLimits(acct, marks)'
      BY DEF Rests, WithinLimits
    <2> QED BY <2>6, <2>7 DEF LimitInv
  <1>5. CASE Finish
    <2>1. acct'.positions = Flat
      BY <1>1, <1>5 DEF Finish, CloseAll, Account
    <2> QED BY <2>1 DEF LimitInv, Rests, WithinLimits
  <1>6. CASE UNCHANGED vars
    BY <1>6 DEF vars, LimitInv, Rests, WithinLimits, Equity, Unrealized, OfPositions
  <1> QED BY <1>2, <1>3, <1>4, <1>5, <1>6 DEF Next

(* Between two minutes an account that holds positions is within both loss  *)
(* limits at the last prices (_enforce_stops at every open and close).       *)
THEOREM OpenAccountWithinLimits == Spec => []OpenAccountIsWithinLimits
  <1>1. Init => LimitInv
    <2> SUFFICES ASSUME Init PROVE LimitInv
      OBVIOUS
    <2>1. acct.positions = Flat
      BY DEF Init, NewAccount
    <2> QED BY <2>1 DEF LimitInv, Rests, WithinLimits
  <1>2. Inv /\ LimitInv /\ [Next]_vars => LimitInv'
    BY NextLimits
  <1>3. LimitInv => OpenAccountIsWithinLimits
    <2> SUFFICES ASSUME LimitInv, turn = 0, Holding(acct) # {}
                 PROVE  /\ ~ShouldHalt(acct, Equity(acct, marks))
                        /\ ~DailyLoss(acct, Equity(acct, marks))
      BY DEF OpenAccountIsWithinLimits
    <2>1. acct.positions # Flat
      BY DEF Holding, Flat
    <2> QED BY <2>1 DEF LimitInv, WithinLimits
  <1> QED BY <1>1, <1>2, <1>3, AccountInvariant, PTL DEF Spec
-----------------------------------------------------------------------------
(* The books of the run. *)

\* The latest time an entry of a symbol can have: this minute's, once its bar
\* has been driven.
Latest ==
  [s \in Symbols |-> IF \E i \in 1..(turn - 1) : SUPPORTED_SYMBOLS[i] = s
                     THEN clock ELSE clock - 1]

BooksInv == BooksBalance /\ (~done => Kept(Before, Latest))

LEMMA BooksOfAccount == BooksBalance <=> Books(Before)
  <1>1. Carried(acct) = OfPositions(acct, [s \in Symbols |-> acct.positions[s].funding
                                                              - acct.positions[s].fee])
    BY DEF Carried, Carry, OfPositions
  <1>2. Before.acct = acct /\ Before.trades = trades
    BY DEF Before
  <1> QED BY <1>1, <1>2 DEF BooksBalance, Books

\* The same of the next state.
LEMMA NextBooks ==
  ASSUME NEW book, NEW latest, book.acct = acct', book.trades = trades', latest = Latest',
         book = Before', Books(book), ~done' => Kept(book, latest)
  PROVE  BooksInv'
  <1>1. Books(Before)' /\ (~done' => Kept(Before, Latest)')
    BY DEF Books, Kept, Dated, Carried
  <1>2. (BooksBalance <=> Books(Before))'
    BY BooksOfAccount, PTL
  <1> QED BY <1>1, <1>2 DEF BooksInv

LEMMA LaterKept ==
  ASSUME NEW book \in Book, NEW latest \in [Symbols -> Int], NEW later \in [Symbols -> Int],
         Kept(book, latest), \A s \in Symbols : latest[s] <= later[s]
  PROVE  Kept(book, later)
  <1>1. ASSUME NEW t \in book.trades PROVE t.entryTime <= later[t.symbol]
    <2>1. t.symbol \in Symbols /\ t.entryTime \in Int
      BY TradesHaveNets
    <2>2. t.entryTime <= latest[t.symbol] /\ latest[t.symbol] <= later[t.symbol]
      BY <2>1 DEF Kept, Dated
    <2>3. latest[t.symbol] \in Int /\ later[t.symbol] \in Int
      BY <2>1
    <2> QED BY <2>1, <2>2, <2>3
  <1>2. ASSUME NEW s \in Symbols, book.acct.positions[s] # None
        PROVE  book.acct.positions[s].time <= later[s]
    <2>1. book.acct.positions[s] \in Position
      BY <1>2, BookParts, PositionOf
    <2>2. book.acct.positions[s].time \in Int
      BY <2>1 DEF Position
    <2>3. book.acct.positions[s].time <= latest[s]
      BY <1>2 DEF Kept, Dated
    <2> QED BY <2>2, <2>3
  <1> QED BY <1>1, <1>2 DEF Kept, Dated

LEMMA MinuteBooks ==
  ASSUME Inv, BooksInv, NEW bar \in Bars, NEW rate \in FundingRates, NEW seen \in Observed,
         OnMinute(bar, rate, seen)
  PROVE  BooksInv'
  <1> DEFINE s       == DrivenSymbol
             funded  == Funded(bar, rate)
             entered == Entered(bar, rate, seen)
             opened  == Opened(bar, rate, seen)
             exited  == Exited(bar, rate, seen)
             settled == Settled(bar, rate, seen)
             later   == [Latest EXCEPT ![s] = clock]
  <1>1. /\ turn \in 1..N /\ s \in Symbols /\ clock \in Nat /\ Before \in Book
        /\ bar \in Bar /\ rate \in Int /\ seen \in Prices
        /\ acct' = settled.acct /\ trades' = settled.trades /\ clock' = clock
        /\ done' = settled.acct.halted /\ turn' = IF settled.acct.halted THEN 0 ELSE turn + 1
    BY MinuteEffect
  <1>2. /\ funded \in Book /\ entered \in Book /\ opened \in Book /\ exited \in Book
        /\ Marked(entered.acct, AtOpen(bar)) /\ Marked(exited.acct, AtClose(bar))
        /\ Enters(funded, s, entered) /\ settled \in Book
    BY MinuteChain
  <1>3. Kept(Before, Latest)
    BY DEF BooksInv, OnMinute
  <1>4. Latest \in [Symbols -> Int] /\ Latest[s] < clock
    <2>1. \A i \in 1..(turn - 1) : i \in 1..N /\ i # turn
      BY <1>1, Indices
    <2>2. \A i \in 1..(turn - 1) : SUPPORTED_SYMBOLS[i] # s
      BY <1>1, <2>1, AccountAssumption DEF AccountAssumption, DrivenSymbol
    <2>3. Latest[s] = clock - 1
      BY <1>1, <2>2 DEF Latest
    <2>4. Latest \in [Symbols -> Int]
      BY <1>1 DEF Latest
    <2> QED BY <1>1, <2>3, <2>4
  <1> HIDE DEF s
  <1>5. Kept(funded, Latest)
    BY <1>1, <1>3, FundingKept DEF Funded, s
  <1>6. Kept(entered, later)
    BY <1>1, <1>2, <1>4, <1>5, EnterKept
  <1> HIDE DEF later
  <1>7. Kept(opened, later)
    BY <1>1, <1>2, <1>6, EnforceKept DEF Opened
  <1>8. Kept(exited, later)
    BY <1>1, <1>2, <1>7, ExitsKept DEF Exited, s
  <1>9. Kept(settled, later)
    BY <1>1, <1>2, <1>8, EnforceKept DEF Settled
  <1> HIDE DEF settled
  <1>10. settled = Before'
    BY <1>1, <1>2, BookParts DEF Before
  <1>11. ASSUME ~done' PROVE later = Latest'
    <2>1. turn' = turn + 1 /\ clock' = clock
      BY <1>1, <1>11
    <2>2. \A x \in Symbols : (\E i \in 1..turn : SUPPORTED_SYMBOLS[i] = x)
                               <=> x = s \/ \E i \in 1..(turn - 1) : SUPPORTED_SYMBOLS[i] = x
      <3>1. turn \in Nat /\ turn \in 1..turn
        BY <1>1, Indices
      <3>2. 1..turn = (1..(turn - 1)) \union {turn}
        BY <1>1, Indices
      <3> QED BY <3>2 DEF s, DrivenSymbol
    <2>3. turn' - 1 = turn
      BY <1>1, <2>1, Indices
    <2>4. Latest' = [x \in Symbols |-> IF \E i \in 1..turn : SUPPORTED_SYMBOLS[i] = x
                                       THEN clock ELSE clock - 1]
      BY <2>1, <2>3 DEF Latest
    <2>5. \A x \in Symbols : later[x] = Latest'[x]
      BY <1>1, <1>4, <2>2, <2>4 DEF later, Latest
    <2> QED BY <1>4, <2>4, <2>5 DEF later, Latest
  <1>12. Books(settled) /\ settled.acct = acct' /\ settled.trades = trades'
    BY <1>1, <1>9 DEF Kept
  <1>13. CASE done'
    <2>1. PICK latest : latest = Latest'
      OBVIOUS
    <2> QED BY <1>10, <1>12, <1>13, <2>1, NextBooks
  <1>14. CASE ~done'
    BY <1>9, <1>10, <1>11, <1>12, <1>14, NextBooks
  <1> QED BY <1>13, <1>14

\* A step that leaves positions, balance and trades alone, and brings no symbol's
\* latest time back.
LEMMA QuietBooks ==
  ASSUME Inv, Inv', BooksInv, ~done, acct'.positions = acct.positions,
         acct'.balance = acct.balance, trades' = trades,
         Latest \in [Symbols -> Int], Latest' \in [Symbols -> Int],
         \A s \in Symbols : Latest[s] <= Latest'[s]
  PROVE  BooksInv'
  <1>1. PICK book : book = Before'
    OBVIOUS
  <1>2. book \in Book /\ book.acct = acct' /\ book.trades = trades'
    BY <1>1 DEF Inv, Before
  <1>3. Kept(Before, Latest) /\ Before.acct = acct /\ Before.trades = trades
    BY DEF BooksInv, Before
  <1>4. Kept(book, Latest)
    BY <1>2, <1>3, SameBooks
  <1>5. PICK later \in [Symbols -> Int] : later = Latest'
    OBVIOUS
  <1>6. \A s \in Symbols : Latest[s] <= later[s]
    BY <1>5
  <1>7. Kept(book, later)
    BY <1>2, <1>4, <1>6, LaterKept
  <1> QED BY <1>1, <1>2, <1>5, <1>7, NextBooks DEF Kept

LEMMA NextBooksInv == Inv /\ BooksInv /\ [Next]_vars => BooksInv'
  <1> SUFFICES ASSUME Inv, BooksInv, [Next]_vars PROVE BooksInv'
    OBVIOUS
  <1>1. Inv' /\ acct \in Account /\ clock \in Nat
    BY NextInv DEF Inv, Book
  <1>2. Latest \in [Symbols -> Int]
    BY <1>1 DEF Latest
  <1>3. CASE BeginTimestamp
    <2>1. turn = 0 /\ turn' = 1 /\ clock' = clock /\ trades' = trades /\ ~done
      BY <1>3 DEF BeginTimestamp
    <2>2. acct'.positions = acct.positions /\ acct'.balance = acct.balance
      BY <1>1, <1>3 DEF BeginTimestamp, Account
    <2>3. Latest' = [s \in Symbols |-> clock - 1]
      BY <2>1 DEF Latest
    <2>4. Latest = [s \in Symbols |-> clock - 1]
      BY <2>1 DEF Latest
    <2> QED BY <1>1, <1>2, <2>1, <2>2, <2>3, <2>4, QuietBooks
  <1>4. CASE \E bar \in Bars, rate \in FundingRates, seen \in Observed : OnMinute(bar, rate, seen)
    BY <1>4, MinuteBooks
  <1>5. ASSUME NEW signals \in [Symbols -> Directions \union {None}], EndMinute(signals)
        PROVE  BooksInv'
    <2>1. turn' = 0 /\ clock' = clock + 1 /\ trades' = trades /\ ~done
      BY <1>5 DEF EndMinute
    <2>2. acct'.positions = acct.positions /\ acct'.balance = acct.balance
      BY <1>1, <1>5 DEF EndMinute, Hour, Account
    <2>3. Latest' = [s \in Symbols |-> clock]
      BY <1>1, <2>1 DEF Latest
    <2>4. \A s \in Symbols : Latest[s] <= clock
      BY <1>1 DEF Latest
    <2> QED BY <1>1, <1>2, <2>1, <2>2, <2>3, <2>4, QuietBooks
  <1>6. CASE Finish
    <2> DEFINE why   == "end_of_window"
               final == CloseAll(Before, marks, why)
    <2>1. acct' = final.acct /\ trades' = final.trades /\ done'
      BY <1>6 DEF Finish, Before
    <2>2. why # "stop"
      OBVIOUS
    <2>3. why \in Reasons
      BY DEF Reasons
    <2>4. Before \in Book /\ Marked(Before.acct, marks) /\ Kept(Before, Latest)
      BY <1>6 DEF Inv, Before, BooksInv, Finish
    <2> HIDE DEF why
    <2>5. Kept(final, Latest) /\ final \in Book
      BY <1>1, <2>2, <2>3, <2>4, CloseAllKept, CloseAllKeepsBook
    <2> HIDE DEF final
    <2>6. final = Before' /\ Books(final)
      BY <2>1, <2>5, BookParts DEF Before, Kept
    <2>7. PICK latest : latest = Latest'
      OBVIOUS
    <2> QED BY <2>1, <2>6, <2>7, NextBooks
  <1>7. CASE UNCHANGED vars
    <2>1. acct' = acct /\ trades' = trades /\ clock' = clock /\ turn' = turn /\ done' = done
      BY <1>7 DEF vars
    <2>2. PICK latest : latest = Latest'
      OBVIOUS
    <2>3. latest = Latest /\ Before' = Before
      BY <2>1, <2>2 DEF Latest, Before
    <2>4. Books(Before) /\ (~done => Kept(Before, Latest))
      BY BooksOfAccount DEF BooksInv
    <2>5. Before.acct = acct /\ Before.trades = trades
      BY DEF Before
    <2> QED BY <2>1, <2>2, <2>3, <2>4, <2>5, NextBooks
  <1> QED BY <1>3, <1>4, <1>5, <1>6, <1>7 DEF Next

LEMMA InitBooks == Init => BooksInv
  <1> SUFFICES ASSUME Init PROVE BooksInv
    OBVIOUS
  <1>1. /\ Before.acct = NewAccount /\ Before.trades = {} /\ NewAccount \in Account
        /\ NewAccount.positions = Flat /\ NewAccount.balance = StartingEquity
    <2>1. Before.acct = acct /\ acct \in Account
      BY InitInv DEF Inv, Book, Before
    <2> QED BY <2>1 DEF Init, Before, NewAccount
  <1>2. Total(Carried(NewAccount)) = 0
    <2> DEFINE c == Carried(NewAccount)
    <2>1. c \in [Symbols -> Int] /\ \A s \in Symbols : c[s] = 0
      BY <1>1 DEF Carried, Carry, Flat
    <2> HIDE DEF c
    <2>2. Total(c) = 0
      BY <2>1, TotalOfNothing
    <2> QED BY <2>2 DEF c
  <1>3. StartingEquity \in Int
    BY AccountAssumption DEF AccountAssumption
  <1>4. Books(Before)
    BY <1>1, <1>2, <1>3, NetOfNone DEF Books
  <1>5. Dated(Before, Latest) /\ IsFiniteSet(Before.trades)
    BY <1>1, FS_EmptySet DEF Dated, Flat
  <1> QED BY <1>4, <1>5, BooksOfAccount DEF BooksInv, Kept

(* Every amount is accounted for, to the last unit: what the account holds is *)
(* what it began with, what its closed trades report and what its open        *)
(* positions carry (_close, _flatten_all, _apply_funding, _try_enter).         *)
THEOREM BooksAlwaysBalance == Spec => []BooksBalance
  <1>1. Inv /\ BooksInv /\ [Next]_vars => BooksInv'
    BY NextBooksInv
  <1>2. BooksInv => BooksBalance
    BY DEF BooksInv
  <1> QED BY <1>1, <1>2, InitBooks, AccountInvariant, PTL DEF Spec
=============================================================================
