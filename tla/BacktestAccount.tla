-------------------------- MODULE BacktestAccount --------------------------
(***************************************************************************)
(* The account a backtest drives, in money: PaperLifecycle under            *)
(* BacktestEngine.run.  At each minute the bars of all symbols come in their*)
(* fixed order; each settles funding, fills the pending entry, is marked at *)
(* its open, exits at its levels and is marked at its close; after the last *)
(* minute of an hour the strategy may ask for entries at the next minute.   *)
(* The account is that of OrderSizing's units.  The prices, the funding     *)
(* rates and the strategy's signals are the environment.                    *)
(*                                                                          *)
(* `Observed` are the executable prices an entry may meet: {} is the        *)
(* backtest, which fills at the modelled price; the paper engine runs the   *)
(* same lifecycle and fits its order to the prices it has seen.             *)
(***************************************************************************)
EXTENDS OrderSizing, Sequences

CONSTANTS
  SUPPORTED_SYMBOLS,                        \* a sequence
  StartingEquity,                           \* in 1/Unit, as all money
  DAILY_LOSS_STOP, MDD_HALT,
  MinutesPerHour, MinutesPerDay, FundingInterval,
  Bars, FundingRates, Observed,             \* what the environment offers
  End                                       \* bound: the first minute after the data

Symbols == {SUPPORTED_SYMBOLS[i] : i \in DOMAIN SUPPORTED_SYMBOLS}
N == Len(SUPPORTED_SYMBOLS)

ASSUME AccountAssumption ==
  /\ SUPPORTED_SYMBOLS \in Seq(Symbols) /\ None \notin Symbols
  /\ \A i, j \in 1..N : SUPPORTED_SYMBOLS[i] = SUPPORTED_SYMBOLS[j] => i = j
  /\ StartingEquity \in Nat \ {0} /\ DAILY_LOSS_STOP \in Nat /\ MDD_HALT \in Nat
  /\ MinutesPerHour \in Nat \ {0} /\ MinutesPerDay \in Nat \ {0}
  /\ FundingInterval \in Nat \ {0} /\ End \in Nat
  /\ Bars \subseteq [open : Nat, high : Nat, low : Nat, close : Nat]
  /\ \A b \in Bars : 0 < b.low /\ {b.open, b.close} \subseteq b.low..b.high
  /\ FundingRates \subseteq Int
  /\ \A seen \in Observed :
       /\ seen \subseteq Nat \ {0}
       /\ seen = {} \/ \E lo, hi \in seen : seen \subseteq lo..hi

\* An absent position is no position.
ASSUME PositionsAssumption ==
  None \notin [direction : Directions, quantity : Int, entry : Int, stop : Int,
               takeProfit : Int, risk : Int, time : Int, fee : Int, funding : Int]

VARIABLES
  clock,                     \* the minute under way
  turn,                      \* 0: it begins; i: the bar of symbol i; N + 1: the hour's end
  acct,                      \* Account
  marks,                     \* the last price of each symbol, None before its first bar
  sizing,                    \* _sizing_equity
  trades,                    \* closed trades
  done                       \* the run is over

vars == <<clock, turn, acct, marks, sizing, trades, done>>

Flat == [s \in Symbols |-> None]
NoIntent == [s \in Symbols |-> None]
NewAccount ==
  [balance |-> StartingEquity, highWater |-> StartingEquity, dayStart |-> StartingEquity,
   halted |-> FALSE, paused |-> FALSE, positions |-> Flat, pending |-> NoIntent]

Init ==
  /\ clock = 0 /\ turn = 0 /\ acct = NewAccount
  /\ marks = [s \in Symbols |-> None] /\ sizing = StartingEquity
  /\ trades = {} /\ done = FALSE
-----------------------------------------------------------------------------
(* Account *)

Holding(a) == {s \in Symbols : a.positions[s] # None}

\* The sum of an amount of each symbol, and of each open position.
Total(amount) ==
  LET upTo[i \in 0..N] ==
        IF i = 0 THEN 0 ELSE upTo[i - 1] + amount[SUPPORTED_SYMBOLS[i]]
  IN upTo[N]
OfPositions(a, amount) == [s \in Symbols |-> IF a.positions[s] = None THEN 0 ELSE amount[s]]

OpenPlannedRisk(a) == Total(OfPositions(a, [s \in Symbols |-> a.positions[s].risk]))
OpenNotional(a) ==
  Total(OfPositions(a, [s \in Symbols |-> a.positions[s].quantity * a.positions[s].entry]))

PositionGain(p, price) == Unit * p.quantity * Move(p.direction, p.entry, price)
Unrealized(a, m) ==
  Total(OfPositions(a, [s \in Symbols |-> PositionGain(a.positions[s], m[s])]))
Equity(a, m) == a.balance + Unrealized(a, m)

NoteEquity(a, equity) == [a EXCEPT !.highWater = IF equity > @ THEN equity ELSE @]
ShouldHalt(a, equity) == Unit * (a.highWater - equity) >= MDD_HALT * a.highWater
DailyLoss(a, equity) ==
  a.dayStart > 0 /\ Unit * (a.dayStart - equity) >= DAILY_LOSS_STOP * a.dayStart
-----------------------------------------------------------------------------
(* PaperLifecycle.  A step works on a book: the account and its trades. *)

\* The time of the bar under way; the last bar's when the data are used up.
Now == IF clock = End THEN End - 1 ELSE clock

\* Mutant: the fee paid to open is not part of the trade.
TradeExitFeeOnly(s, p, price, reason) ==
  LET fee == price * p.quantity * FEE_RATE
  IN [symbol |-> s, entryTime |-> p.time, exitTime |-> Now, reason |-> reason,
      risk |-> p.risk, funding |-> p.funding,
      net |-> PositionGain(p, price) + p.funding - fee]
Trade(s, p, price, reason) ==
  LET fee == price * p.quantity * FEE_RATE
  IN [symbol |-> s, entryTime |-> p.time, exitTime |-> Now, reason |-> reason,
      risk |-> p.risk, funding |-> p.funding,
      net |-> PositionGain(p, price) + p.funding - p.fee - fee]

\* _close: the closing order slips and pays its fee like any other.
ExitPrice(p, level) == FillPrice(level, p.direction = SHORT)
Proceeds(p, level) ==
  LET price == ExitPrice(p, level)
  IN PositionGain(p, price) - price * p.quantity * FEE_RATE
Close(book, s, level, reason) ==
  LET p == book.acct.positions[s]
  IN [acct |-> [book.acct EXCEPT !.positions[s] = None, !.balance = @ + Proceeds(p, level)],
      trades |-> book.trades \union {Trade(s, p, ExitPrice(p, level), reason)}]

\* _flatten_all: every symbol closes at the last price seen of it.
CloseAll(book, m, reason) ==
  LET p == book.acct.positions
      proceeds == OfPositions(book.acct, [s \in Symbols |-> Proceeds(p[s], m[s])])
  IN [acct |-> [book.acct EXCEPT !.positions = Flat, !.balance = @ + Total(proceeds)],
      trades |-> book.trades
                   \union {Trade(s, p[s], ExitPrice(p[s], m[s]), reason) : s \in Holding(book.acct)}]
\* With _cancel_pending, on a stop.
Flatten(book, m, reason) == [CloseAll(book, m, reason) EXCEPT !.acct.pending = NoIntent]

\* Mutant: the limits are compared with realized money only.
EnforceStopsRealized(book, m) ==
  LET equity == book.acct.balance
      noted  == [book EXCEPT !.acct = NoteEquity(@, equity)]
  IN IF noted.acct.halted THEN noted
     ELSE IF ShouldHalt(noted.acct, equity)
     THEN [Flatten(noted, m, "mdd_halt") EXCEPT !.acct.halted = TRUE]
     ELSE IF ~noted.acct.paused /\ DailyLoss(noted.acct, equity)
     THEN [Flatten(noted, m, "daily_stop") EXCEPT !.acct.paused = TRUE]
     ELSE noted
\* _enforce_stops on the marks m.
EnforceStops(book, m) ==
  LET equity == Equity(book.acct, m)
      noted  == [book EXCEPT !.acct = NoteEquity(@, equity)]
  IN IF noted.acct.halted THEN noted
     ELSE IF ShouldHalt(noted.acct, equity)
     THEN [Flatten(noted, m, "mdd_halt") EXCEPT !.acct.halted = TRUE]
     ELSE IF ~noted.acct.paused /\ DailyLoss(noted.acct, equity)
     THEN [Flatten(noted, m, "daily_stop") EXCEPT !.acct.paused = TRUE]
     ELSE noted

\* _apply_funding: a long pays a positive rate, a short receives it.
ApplyFunding(book, s, bar, rate) ==
  LET a == book.acct
      p == a.positions[s]
      payment == p.quantity * bar.open * rate * (IF p.direction = LONG THEN -1 ELSE 1)
  IN IF p = None THEN book
     ELSE [book EXCEPT !.acct = [a EXCEPT !.balance = @ + payment,
                                          !.positions[s].funding = @ + payment]]

\* The order _try_enter sends: sized at the open, fitted to what was observed.
EntryOrder(a, direction, bar, seen) ==
  LET sized == SizeOrder(sizing, direction, bar.open, OpenPlannedRisk(a), OpenNotional(a))
  IN IF sized = None \/ seen = {} THEN sized
     ELSE FitExecutable(sized, bar.open, seen, sizing, OpenPlannedRisk(a), OpenNotional(a))

\* _try_enter: the intent is spent whether or not a position comes of it.
TryEnter(book, s, bar, seen) ==
  LET intent == book.acct.pending[s]
      spent == [book EXCEPT !.acct.pending[s] = None]
      a     == spent.acct
      order == EntryOrder(a, intent.direction, bar, seen)
      fee   == order.entry * order.quantity * FEE_RATE
  IN IF intent = None \/ intent.time # clock THEN book
     ELSE IF a.halted \/ a.paused \/ a.positions[s] # None \/ order = None THEN spent
     ELSE [book EXCEPT !.acct = [a EXCEPT
             !.balance = @ - fee,
             !.positions[s] =
               [direction |-> order.direction, quantity |-> order.quantity,
                entry |-> order.entry, stop |-> order.stop, takeProfit |-> order.takeProfit,
                risk |-> order.risk, time |-> clock, fee |-> fee, funding |-> 0]]]

\* _manage_exits: in a minute that touches both levels the stop counts.
ManageExits(book, s, bar) ==
  LET p == book.acct.positions[s]
      long == p.direction = LONG
  IN IF p = None THEN book
     ELSE IF IF long THEN bar.low <= p.stop ELSE bar.high >= p.stop
     THEN Close(book, s, p.stop, "stop")
     ELSE IF IF long THEN bar.high >= p.takeProfit ELSE bar.low <= p.takeProfit
     THEN Close(book, s, p.takeProfit, "take_profit")
     ELSE book
-----------------------------------------------------------------------------
(* BacktestEngine.run *)

\* A minute begins: at midnight on_day_open, which asks for the equity only
\* when the account is not halted, and it is not here; then begin_timestamp.
BeginTimestamp ==
  /\ ~done /\ turn = 0 /\ clock < End
  /\ acct' = IF clock % MinutesPerDay = 0
             THEN [acct EXCEPT !.paused = FALSE, !.dayStart = Equity(acct, marks)]
             ELSE acct
  /\ sizing' = Equity(acct, marks)
  /\ turn' = 1
  /\ UNCHANGED <<clock, marks, trades, done>>

\* on_minute for the symbol whose turn it is.  Funding comes at its slots only,
\* and only an order meets prices.  A halt ends the run at once.
OnMinute(bar, rate, seen) ==
  LET s == SUPPORTED_SYMBOLS[turn]
      atOpen  == [marks EXCEPT ![s] = bar.open]
      atClose == [marks EXCEPT ![s] = bar.close]
      book    == [acct |-> acct, trades |-> trades]
      funded  == ApplyFunding(book, s, bar, rate)
      opened  == EnforceStops(TryEnter(funded, s, bar, seen), atOpen)
      closed  == EnforceStops(ManageExits(opened, s, bar), atClose)
  IN /\ ~done /\ turn \in 1..N
     /\ rate # 0 => clock % FundingInterval = 0
     /\ seen # {} => acct.pending[s] # None
     /\ acct' = closed.acct /\ trades' = closed.trades
     /\ marks' = atClose
     /\ done' = closed.acct.halted
     /\ turn' = IF closed.acct.halted THEN 0 ELSE turn + 1
     /\ UNCHANGED <<clock, sizing>>

\* on_hour_complete for each symbol, with what the strategy says of the closes.
Hour(a, signals) ==
  IF a.halted \/ a.paused THEN a
  ELSE [a EXCEPT !.pending =
         [s \in Symbols |->
            IF a.positions[s] # None \/ @[s] # None \/ signals[s] = None THEN @[s]
            ELSE [direction |-> signals[s], time |-> clock + 1]]]

EndMinute(signals) ==
  /\ ~done /\ turn = N + 1
  /\ (clock + 1) % MinutesPerHour # 0 => signals = NoIntent
  /\ acct' = IF (clock + 1) % MinutesPerHour = 0 THEN Hour(acct, signals) ELSE acct
  /\ clock' = clock + 1 /\ turn' = 0
  /\ UNCHANGED <<marks, sizing, trades, done>>

\* The data are used up: _flatten_open_positions, at the last bar's time.
Finish ==
  LET final == CloseAll([acct |-> acct, trades |-> trades], marks, "end_of_window")
  IN /\ ~done /\ turn = 0 /\ clock = End
     /\ acct' = final.acct /\ trades' = final.trades
     /\ done' = TRUE
     /\ UNCHANGED <<clock, turn, marks, sizing>>

Next ==
  \/ BeginTimestamp
  \/ \E bar \in Bars, rate \in FundingRates, seen \in Observed : OnMinute(bar, rate, seen)
  \/ \E signals \in [Symbols -> Directions \union {None}] : EndMinute(signals)
  \/ Finish

Spec == Init /\ [][Next]_vars
-----------------------------------------------------------------------------
(* Properties *)

\* What a set of trades has earned.
Net(S) == MapThenSumSet(LAMBDA t : t.net, S)

\* Every amount is accounted for: the balance is what the account began with,
\* what its closed trades report they earned, and what the open positions have
\* paid and received so far.
BooksBalance ==
  acct.balance = StartingEquity + Net(trades)
                 + Total(OfPositions(acct, [s \in Symbols |-> acct.positions[s].funding
                                                                - acct.positions[s].fee]))

\* The risk reserved when a position is opened is exactly what it loses when its
\* stop fills, fees and slippage included, funding aside: rounding, the price an
\* entry met and the cut of its size have all been counted.
StopCostsWhatWasPlanned ==
  \A t \in trades : t.reason = "stop" => t.net - t.funding = -t.risk

\* A position is opened within the limits on the equity of the minute's begin,
\* together with all that are open then, whatever closed or opened before it in
\* the same minute and whatever price its order met.
EntriesWithinCaps ==
  [][\A s \in Symbols : (acct.positions[s] = None /\ acct'.positions[s] # None) =>
       /\ Unit * acct'.positions[s].risk <= PER_POSITION_RISK * sizing
       /\ Unit * OpenPlannedRisk(acct') <= AGGREGATE_PLANNED_RISK * sizing
       /\ Unit * OpenNotional(acct') <= GROSS_LEVERAGE_CEILING * sizing]_vars

\* Between two minutes an account with positions is within both loss limits at
\* the last price of every symbol; only one flattened may have been pushed past
\* the drawdown limit, by the costs of flattening.
OpenAccountIsWithinLimits ==
  (turn = 0 /\ Holding(acct) # {}) =>
    /\ ~ShouldHalt(acct, Equity(acct, marks))
    /\ ~DailyLoss(acct, Equity(acct, marks))
=============================================================================
