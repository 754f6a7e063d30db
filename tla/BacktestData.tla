---------------------------- MODULE BacktestData ----------------------------
(***************************************************************************)
(* What the backtest is given to see: a snapshot of one-minute bars, funding*)
(* rows and contract metadata is validated, hourly and daily bars are       *)
(* derived from it, an evaluation start is chosen, and at each minute of the*)
(* run the engine looks up what it needs.  Pure functions throughout; the   *)
(* one step of the module hands a snapshot over.                            *)
(*                                                                         *)
(* Minutes are counted from a UTC midnight.  A bar is its minute and whether*)
(* its own values are in order (OHLC relations, volume); a derived bar is   *)
(* its opening minute.  Hashes and macro events are left out.               *)
(***************************************************************************)
EXTENDS Integers, Sequences, FiniteSets

CONSTANTS
  SUPPORTED_SYMBOLS,
  HOUR, DAY, FUNDING_INTERVAL,   \* in minutes: 60, 1440, 480 in the code
  EMA_200_WARMUP_DAYS,
  Snapshots,                     \* the snapshots a backtest may be given
  None

ASSUME DataAssumption ==
  /\ HOUR \in Nat \ {0} /\ DAY \in Nat \ {0} /\ FUNDING_INTERVAL \in Nat \ {0}
  /\ DAY % HOUR = 0 /\ DAY % FUNDING_INTERVAL = 0
  /\ EMA_200_WARMUP_DAYS \in Nat \ {0}
  /\ None \notin Snapshots /\ IsFiniteSet(SUPPORTED_SYMBOLS)
  /\ Snapshots \subseteq [klines   : [SUPPORTED_SYMBOLS -> Seq([time : Nat, valid : BOOLEAN])],
                          funding  : [SUPPORTED_SYMBOLS -> Seq(Nat)],
                          metadata : [SUPPORTED_SYMBOLS ->
                                        Seq([from : Nat, knowable : BOOLEAN])]]

VARIABLE snapshot                \* the snapshot under backtest

Least(S) == CHOOSE m \in S : \A x \in S : m <= x
Greatest(S) == CHOOSE m \in S : \A x \in S : x <= m
Floor(t, size) == t - (t % size)
Multiples(size, from, to) == {t \in from..to : t % size = 0}
Elements(q) == {q[i] : i \in DOMAIN q}
-----------------------------------------------------------------------------
(* validate_snapshot *)

TimesOf(bars) == {bars[i].time : i \in DOMAIN bars}
First(bars) == Least(TimesOf(bars))
Last(bars) == Greatest(TimesOf(bars))
Repeats(q) == Cardinality(Elements(q)) < Len(q)

\* Mutant: time running backwards is not reported.
KlineReasonsUnsorted(bars) ==
  IF bars = <<>> THEN {"missing bar"}
  ELSE {why \in {"invalid OHLC", "reversed", "duplicate", "missing bar"} :
    CASE why = "invalid OHLC" -> \E i \in DOMAIN bars : ~bars[i].valid
      [] why = "reversed"     -> FALSE
      [] why = "duplicate"    -> Cardinality(TimesOf(bars)) < Len(bars)
      [] why = "missing bar"  -> \E t \in TimesOf(bars) :
                                   t # Last(bars) /\ t + 1 \notin TimesOf(bars)}
\* kline_reasons, for the bars of one symbol in their order.
KlineReasons(bars) ==
  IF bars = <<>> THEN {"missing bar"}
  ELSE {why \in {"invalid OHLC", "reversed", "duplicate", "missing bar"} :
    CASE why = "invalid OHLC" -> \E i \in DOMAIN bars : ~bars[i].valid
      [] why = "reversed"     -> \E i \in 1..Len(bars) - 1 : bars[i + 1].time < bars[i].time
      [] why = "duplicate"    -> Cardinality(TimesOf(bars)) < Len(bars)
      [] why = "missing bar"  -> \E t \in TimesOf(bars) :
                                   t # Last(bars) /\ t + 1 \notin TimesOf(bars)}

\* Every slot from the one that contains the first bar on needs its row.
ExpectedFundingTimes(bars) ==
  Multiples(FUNDING_INTERVAL, Floor(First(bars), FUNDING_INTERVAL), Last(bars))

\* funding_reasons: rows outside the slots are allowed.
FundingReasons(bars, rows) ==
  {why \in {"duplicate funding", "missing funding"} :
    CASE why = "duplicate funding" -> Repeats(rows)
      [] why = "missing funding"   -> ~(ExpectedFundingTimes(bars) \subseteq Elements(rows))}

\* _metadata_at: the last row that is effective at minute t.
MetadataAt(rows, t) ==
  LET past == {r \in Elements(rows) : r.from <= t}
  IN IF past = {} THEN None ELSE CHOOSE r \in past : \A x \in past : x.from <= r.from

\* Mutant: sizes are only looked at where a row begins.
MetadataReasonsFirstBar(bars, rows) ==
  {why \in {"duplicate metadata", "metadata gap"} :
    CASE why = "duplicate metadata" ->
           \E i, j \in DOMAIN rows : i # j /\ rows[i].from = rows[j].from
      [] why = "metadata gap" ->
           MetadataAt(rows, First(bars)) = None \/ ~MetadataAt(rows, First(bars)).knowable}
\* metadata_reasons
MetadataReasons(bars, rows) ==
  {why \in {"duplicate metadata", "metadata gap"} :
    CASE why = "duplicate metadata" ->
           \E i, j \in DOMAIN rows : i # j /\ rows[i].from = rows[j].from
      [] why = "metadata gap" ->
           \E t \in TimesOf(bars) : MetadataAt(rows, t) = None \/ ~MetadataAt(rows, t).knowable}

ValidSnapshot(sn) ==
  \A s \in SUPPORTED_SYMBOLS :
    /\ KlineReasons(sn.klines[s]) = {}
    /\ FundingReasons(sn.klines[s], sn.funding[s]) = {}
    /\ MetadataReasons(sn.klines[s], sn.metadata[s]) = {}
-----------------------------------------------------------------------------
(* _derive_bars *)

Buckets(bars, size) == {Floor(t, size) : t \in TimesOf(bars)}

\* Mutant: a bucket counts as complete without its last minutes.
CompleteByStart(bars, b, size) == b \in TimesOf(bars)
\* As many bars as minutes, from the first to the last of the bucket.
Complete(bars, b, size) ==
  LET group == {i \in DOMAIN bars : Floor(bars[i].time, size) = b}
  IN /\ Cardinality(group) = size
     /\ b \in TimesOf(bars) /\ b + size - 1 \in TimesOf(bars)

\* A bucket that begins before the series or ends after it is dropped.
Edge(bars, b, size) == b < First(bars) \/ b + size > Last(bars) + 1

DeriveBars(bars, size) == {b \in Buckets(bars, size) : Complete(bars, b, size)}
DeriveBlocked(bars, size) ==
  \E b \in Buckets(bars, size) : ~Complete(bars, b, size) /\ ~Edge(bars, b, size)
-----------------------------------------------------------------------------
(* common_evaluation_start and BacktestEngine.run *)

\* Mutant: the day on which a series begins counts, however late it begins.
FirstCompletedUtcDayFloor(t) == Floor(t, DAY)
\* A partial day does not count.
FirstCompletedUtcDay(t) == IF t % DAY = 0 THEN t ELSE Floor(t, DAY) + DAY

EvaluationStart(sn) ==
  FirstCompletedUtcDay(Greatest({First(sn.klines[s]) : s \in SUPPORTED_SYMBOLS}))
    + EMA_200_WARMUP_DAYS * DAY

\* The snapshot is built and the backtest starts.
Accepted(sn) ==
  /\ ValidSnapshot(sn)
  /\ \A s \in SUPPORTED_SYMBOLS :
       /\ ~DeriveBlocked(sn.klines[s], HOUR) /\ ~DeriveBlocked(sn.klines[s], DAY)
       /\ Cardinality(DeriveBars(sn.klines[s], DAY)) >= EMA_200_WARMUP_DAYS

\* The minutes the engine runs through: those at which some symbol has a bar.
Stamps(sn) ==
  {t \in UNION {TimesOf(sn.klines[s]) : s \in SUPPORTED_SYMBOLS} : t >= EvaluationStart(sn)}

\* The hour that ends with minute t, and the closes handed to the strategy.
HourEnds(sn, s, t) == t % HOUR = HOUR - 1 /\ Floor(t, HOUR) \in DeriveBars(sn.klines[s], HOUR)
HourlyCloses(sn, s, t) == {b \in DeriveBars(sn.klines[s], HOUR) : b <= Floor(t, HOUR)}
\* Mutant: the day that is under way is shown as well.
DailyClosesOpen(sn, s, t) == {b \in DeriveBars(sn.klines[s], DAY) : b <= t + 1}
DailyCloses(sn, s, t) == {b \in DeriveBars(sn.klines[s], DAY) : b + DAY <= t + 1}
-----------------------------------------------------------------------------
Init == snapshot = None
Load(sn) == snapshot = None /\ snapshot' = sn
Next == \E sn \in Snapshots : Load(sn)
Spec == Init /\ [][Next]_snapshot

Given == snapshot # None
Symbols == SUPPORTED_SYMBOLS
-----------------------------------------------------------------------------
(* Properties *)

\* The list-based checks together accept exactly the series that are one run of
\* consecutive minutes in order, each with valid values.
KlinesAcceptedIffContiguous ==
  Given => \A s \in Symbols :
    LET bars == snapshot.klines[s]
    IN (KlineReasons(bars) = {}) <=>
         /\ bars # <<>>
         /\ \A i \in DOMAIN bars : bars[i].valid /\ bars[i].time = bars[1].time + i - 1

\* For accepted bars derivation never blocks, and a derived bar is exactly a
\* bucket whose minutes are all there: partial hours and days at either end of
\* the series are dropped, never filled.
DerivedBarsAreWhole ==
  Given => \A s \in Symbols, size \in {HOUR, DAY} :
    LET bars == snapshot.klines[s]
    IN KlineReasons(bars) = {} =>
         /\ ~DeriveBlocked(bars, size)
         /\ DeriveBars(bars, size) =
              {b \in Multiples(size, First(bars), Last(bars)) :
                 b..(b + size - 1) \subseteq TimesOf(bars)}

\* A strategy is asked at the end of an hour and sees that hour, no bar that
\* contains a later minute, and as the last daily close that of the day before.
SignalSeesCompletedBars ==
  (Given /\ Accepted(snapshot)) =>
    \A s \in Symbols, t \in Stamps(snapshot) : HourEnds(snapshot, s, t) =>
      /\ Greatest(HourlyCloses(snapshot, s, t)) + HOUR = t + 1
      /\ Greatest(DailyCloses(snapshot, s, t)) + DAY = Floor(t + 1, DAY)

\* From the evaluation start on every symbol has its warm-up days behind it.
SignalsAreWarmedUp ==
  (Given /\ Accepted(snapshot)) =>
    \A s \in Symbols, t \in Stamps(snapshot) : HourEnds(snapshot, s, t) =>
      Cardinality(DailyCloses(snapshot, s, t)) >= EMA_200_WARMUP_DAYS

\* What validation accepted the engine finds: sizes for every bar it drives, and
\* one funding row at every slot it settles.
RowsAreFound ==
  (Given /\ Accepted(snapshot)) =>
    \A s \in Symbols : \A t \in Stamps(snapshot) \intersect TimesOf(snapshot.klines[s]) :
      /\ MetadataAt(snapshot.metadata[s], t) # None
      /\ MetadataAt(snapshot.metadata[s], t).knowable
      /\ t % FUNDING_INTERVAL = 0 =>
           Cardinality({i \in DOMAIN snapshot.funding[s] : snapshot.funding[s][i] = t}) = 1
=============================================================================
