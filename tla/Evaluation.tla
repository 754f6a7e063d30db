----------------------------- MODULE Evaluation -----------------------------
(***************************************************************************)
(* What validation makes of a finished backtest: the curve of its closed    *)
(* trades, its drawdown over the whole and over the walk-forward windows,   *)
(* and the two drawdown gates of evaluate_gates.  Pure operators over the   *)
(* trades of BacktestAccount.                                               *)
(***************************************************************************)
EXTENDS BacktestAccount, WalkForward

CONSTANTS
  ByName,                                   \* the symbols in the order of their names
  Starts,                                   \* the midnights an evaluation may start at
  WindowMonths, MaxDrawdown                 \* policy_v2.yaml; a rate in parts of Unit

ASSUME EvaluationAssumption ==
  /\ DayLength = MinutesPerDay
  /\ {ByName[i] : i \in 1..N} = Symbols
  /\ Starts \subseteq Nat /\ WindowMonths \in Nat \ {0} /\ MaxDrawdown \in Nat

\* _span and the windows: an evaluation starts at minute 0 of the account's clock.
EvaluationWindows(start) == Windows(start, start + End, WindowMonths)

\* Trades are sorted by exit time and symbol.
Rank(t) == 1 + t.exitTime * N + CHOOSE i \in 0..(N - 1) : ByName[i + 1] = t.symbol

\* reconstruct_equity_curve: the start, then one point after each trade.  The
\* point it repeats at the end adds nothing here.
Curve(start) ==
  {[rank |-> 0, time |-> start, equity |-> StartingEquity]}
    \union {[rank |-> Rank(t), time |-> start + t.exitTime,
             equity |-> StartingEquity + Net({x \in trades : Rank(x) <= Rank(t)})] : t \in trades}

First(points) == CHOOSE p \in points : \A q \in points : p.rank <= q.rank
Last(points) == CHOOSE p \in points : \A q \in points : q.rank <= p.rank

\* window_equities: the last point before the window, or the start, and those in it.
WindowPoints(curve, w) ==
  LET before == {p \in curve : p.time < w[1]}
  IN {IF before = {} THEN First(curve) ELSE Last(before)}
       \union {p \in curve : InHalfOpen(p.time, w)}

\* max_drawdown(points) < limit: no point lies that far below an earlier one.
DrawdownBelow(points, limit) ==
  \A p, q \in points : (p.rank <= q.rank /\ p.equity > 0) =>
    Unit * (p.equity - q.equity) < limit * p.equity

\* The gates max_drawdown_aggregate and max_drawdown_windows.
AggregateGate(start) == DrawdownBelow(Curve(start), MaxDrawdown)
WindowsGate(start) ==
  /\ EvaluationWindows(start) # {}
  /\ \A w \in EvaluationWindows(start) :
       DrawdownBelow(WindowPoints(Curve(start), w), MaxDrawdown)
-----------------------------------------------------------------------------
(* Properties *)

\* What was gained over a window's points, and over all windows.
Gained(points) == Last(points).equity - First(points).equity
GainedInWindows(start) ==
  MapThenSumSet(LAMBDA w : Gained(WindowPoints(Curve(start), w)), EvaluationWindows(start))

\* The windows cut the evaluation and nothing else: wherever in the calendar it
\* starts, a trade is counted in exactly one of them, what they gained adds up
\* to what the account gained, and a drawdown too deep for a window is too deep
\* for the whole.  An evaluation without a minute has no window and fails.
WindowsAgreeWithWhole ==
  done => \A start \in Starts :
    /\ \A t \in trades :
         Cardinality({w \in EvaluationWindows(start) : InHalfOpen(start + t.exitTime, w)}) = 1
    /\ GainedInWindows(start) = acct.balance - StartingEquity
    /\ AggregateGate(start) => WindowsGate(start) \/ End = 0

\* Documentation (design, 9.2): a backtest that reaches the drawdown limit fails,
\* because the hard gate is strictly MDD < 15%.
HaltedFailsDrawdownGate ==
  (done /\ acct.halted) => \A start \in Starts : ~AggregateGate(start)
=============================================================================
