# A verification project for the trading desk

TLA+ models of the self-improving trading desk under `src/src/trading_desk/`,
the TLC runs that check them and the proofs about them. Paths below are relative
to `src/src/trading_desk/` unless they begin with `docs/`.

## 1. The system

The desk researches trading strategies and trades them on paper. A *family* of
strategies has *versions*, a version has *runs*; a run goes through development,
once per family through a sealed out-of-sample (OOS) evaluation, and then into
paper trading, under the control of one owner. Everything durable is in one SQLite
database and one content-addressed artifact store.

| Component | State | Operations | Interacts with |
|---|---|---|---|
| Transition table (`state/transitions.py` `RULES`) | none | which edge is legal, what it costs, what it requires | read by `transition()` |
| State database (`state/db.py`, `state/schema.sql`, `transition()`) | families, budgets, versions, runs, transition rows, approvals, paper_state, outbox | create/register/run, `transition`, budgets, alerts | every other part, in `BEGIN IMMEDIATE` transactions |
| Approvals (`state/approvals.py`) | approvals rows | `validate_approval`, `approve_new_family` | called by `transition`, PaperEngine, the owner |
| Outbox and publication (`state/outbox.py`, `publish/publisher.py`) | outbox rows; a worker's claims in memory; the wiki | enqueue, claim with backoff, warn, publish, mark | artifact store, wiki (external) |
| Paper engine (`paper/reconcile.py`, `paper/feeds.py`) | flags, last bars, repair state in memory; paper_state payload | process_bar, repair_gaps, queue_signal, three resumptions, snapshot/load | lifecycle, feed, `transition` |
| Account lifecycle (`backtest/execution.py`, `backtest/account.py`) | positions, pending intents, halted/paused | on_minute, on_hour_complete, stops, flatten | driven by the paper engine and the backtest |
| Research workflow (`workflows/research_loop.py`) | a call's locals | run_development_cycle, run_sealed_oos, propose_successor_mutation | database, store, outbox, evaluations |
| Agent jobs (`agents/hermes.py`, `agents/schemas.py`) | a call's locals; the job's mutable bundle | submit with one retry on the pinned job, on_success | transport (external), artifact store |
| Fills and sizing (`backtest/account.py`, `paper/fills.py`) | none | round_to_step, fill_price, size_order, conservative_fill, fit_executable | lifecycle |
| Market data (`data/validate.py`, `data/aggregate.py`, `data/snapshot.py`) | none | validate, derive hourly and daily bars, evaluation start | backtest, research workflow |
| Backtest engine (`backtest/execution.py`) | a run's locals | run over history, minute by minute | market data, lifecycle, strategy |
| Drawdown gates and windows (`validation/walk_forward.py`, `metrics.py`, `gates.py`) | none | add_months, windows, equity curve, max_drawdown | closed trades of a backtest, research workflow |
| Other gates, metrics and statistics, strategy, ledger bundle, contracts, schemas, capabilities, config | none | pure or declarative | research workflow |
| Artifact store (`storage/artifacts.py`) | files by digest | put, read | research workflow, publication |

Interaction is by function call inside one process and through the database
between processes. The hard parts are these.

* *Concurrency.* Several processes call the research workflow, publication workers
  and the paper engine over one database. Each database call is one transaction, but
  a handler is several: it reads the state, evaluates, transitions, then stores.
* *Crashes.* A process may die between two of these. The paper engine resumes from
  a snapshot that was written after, not with, the transition; an outbox claim is
  taken up again when its backoff ends; nothing takes up a development cycle again.
* *Idempotency keys.* A repeated key makes `transition()` return as if it had happened.
  This makes retries safe, and lets a stale caller believe it has acted.
* *Ordering and time.* Bars of several symbols arrive late or not at all; freshness is a
  60 second window; a daily pause ends on the next UTC day; approvals live a day.
* *Units.* Budgets and paper_state are per family, states per run, alerts per row.

What makes each part correct:

* State database: one sealed evaluation per family; budgets count exactly what was
  charged; rejection is final; paper_state agrees with the rows; halts are
  alerted; every start and resumption is controlled.
* Publication: what is marked published is visible; claims are leases; a pending
  row is published in the end, and warned about after a day.
* Paper engine: a stopped account is flat and the ledger learns of it; no entry
  unless the ledger says running, over fresh feeds and without an open gap; no minute is
  skipped under a position; no resumption over an unrepaired gap.
* Research workflow: concurrent callers unseal one run per family, a sealed run has its
  evidence stored, a sealed run found interrupted is decided by retries.
* Account: the money adds up; a position loses at its stop what was reserved for it; entries
  keep three caps together with everything open; an account with positions is within its limits.
* Agent jobs: at most two attempts, on the same pinned job; a submission that reports OK has
  stored its result, one that reports AGENT_ERROR has stored nothing.
* Artifact store: a digest names all of its content or nothing, whoever races, dies or loses
  power, and a digest that was returned can be read.
* Market data and backtest: validation accepts exactly whole series; derived bars are
  whole; a signal sees completed bars and a full warm-up; lookups find their rows.
* Walk-forward windows: every trade of an evaluation is counted in exactly one, and their
  gains add up to the account's.
* Drawdown gates: a run that reached the limit fails (it does not, see findings).

## 2. The modules

| Module | Models | Remarks |
|---|---|---|
| `DeskRules` | `RULES`, `PAPER_STATES`, approval actions | constant part, shared by `DeskState`, `PaperEngine` and `ResearchLoop` |
| `FamilyGate` | abstract: what the desk promises of a family | phases absent, research, oos, rejected, ready, live, suspended |
| `DeskState` | the database, approvals and `transition()` | an action per operation, one transaction each; implements `FamilyGate` |
| `DeskStateProofs`, `PublishOutboxProofs`, `PaperEngineProofs`, `ResearchLoopProofs`, `BacktestDataProofs`, `BacktestAccountProofs`, `EvaluationProofs`, `AgentJobProofs` | | theorems about the module each is named after; `BacktestAccountProofs` has those about `OrderSizing` too, `AgentJobProofs` those about `ArtifactStore`, `EvaluationProofs` those about `WalkForward` |
| `Publication` | abstract: visible once, then acknowledged | |
| `PublishOutbox` | `publish_revision`, `process_publish_outbox`, claims | implements `Publication` |
| `PaperEngine` | `PaperEngine`, `WiredPaperLifecycle`, `PaperFeed` | a handler is a sequence of steps cut at commits and bars |
| `ResearchLoop` | the three calls of the research workflow | implements `FamilyGate` again, through the callers |
| `BacktestData` | validation, aggregation, evaluation start, the engine's lookups | pure operators; the one step hands a snapshot over |
| `OrderSizing` | prices, sizes and caps of `account.py` and `fills.py` | pure operators over integers |
| `BacktestAccount` | `PaperLifecycle` and `Account` in money, under `BacktestEngine.run` | extends `OrderSizing`; a step per bar |
| `WalkForward` | `walk_forward.py` | pure operators over any calendar |
| `Evaluation` | the equity curve and the two drawdown gates | composes `BacktestAccount` and `WalkForward` |
| `ContentStore` | abstract: all of a content or nothing, and what was returned stays | |
| `ArtifactStore` | `put_bytes` for many writers | a step per system call; implements `ContentStore` |
| `AgentJob` | `HermesAdapter.submit`, its on_success assumed to store | composed with `ArtifactStore`, whose steps it takes |
| `MC*` | instances for TLC | symmetry sets and the sequences a cfg cannot write |

### DeskState

`families`, `versionFamily`, `runVersion`, `approvals`, `rows` are the tables; `perfUsed`
and `oosUsed` the two counters of `budgets`; `state` the last row of a run, kept beside
`rows` because `rows` is a set; `newest` is the last version of a family by
`created_at` (the code compares timestamps, and the model takes the clock to be monotone
and to tell two registrations apart). `paper` and `pausedAt` are the status and the
`paused_at` of paper_state, `alerts` the alert rows of the outbox. Nothing under
`src/` claims alert rows or analysis requests, so they are only written.

An operation that raises is rolled back and is no step; so is a key that exists already.
A key is `<<run, target, number>>`, the shape all callers under `src/` give it. The eight
content hashes an approval names are immutable, so naming them is naming the run.
`DeskRules.RULES` is the table itself; `Legal`, `BudgetLeft`, `NextUtcDay`, `ValidApproval` are
the checks in `transition()`, and `Commit` is all it writes.

### PublishOutbox

A worker's `pc` names its next transaction or call to the wiki: store, enqueue, claim,
publish, mark. Time is kept relative (`wait` until `next_attempt_at`, `age` since `created_at`), so
it is unbounded in a finite model. `PublishRaises` may have shown the page: the answer is
lost. Claims carry the lease that the backoff of the claim amounts to. `FakeWikiSink`,
the only sink under `src/`, stands for the wiki: publishing an id again is harmless.

### PaperEngine

`mem` is the engine and its account, `snap` what `_persist_snapshot` wrote last, `status`,
`pausedDay` and `keys` the ledger. `pc` is `bar`, `replay` or `persist` in the middle of a
handler; a crash may strike at each. Amounts are abstracted: `Outcomes` says whether
the order of a bar is filled, whether a stop level is touched and which loss limit the
equity reaches at its open and its close, and `EnforceStops` allows a limit only where the
equity can have moved. `gapOpen` and `mem.tape` are history variables, read by properties only.
`repair_gaps` is called by `process_bar` and, as `docs/operations/recovery.md` describes, by an operator
for the minutes from the first missing one to now. Contract metadata is taken as
configured, approvals as validated (`DeskState`), and no second process writes the family's
paper_state. A resumption whose key exists already is let through unchecked (`Resumable`), as
`transition()` returns before any check; this takes several crashes to come about.

### ResearchLoop

A caller's `pc` is its next step; between two steps everything else may happen. Each
run has a version of its own; an evaluation is its verdict, and the sealed evidence of a
run always gives the same one. `taken` holds the targets whose key `<run>:<target>` exists.
`stored` is what the artifact store holds of a run.

### BacktestData

Minutes are counted from a UTC midnight, a bar is its minute and whether its values are in
order, a derived bar its opening minute. `KlineReasons`, `FundingReasons` and `MetadataReasons` are
the sets of reasons the checks return; `DeriveBars` is the aggregation of either timeframe;
`Accepted` says that a snapshot is built and `BacktestEngine.run` starts on it; `Stamps`,
`HourlyCloses` and `DailyCloses` are what the engine looks up. The properties compare them with
reference definitions (a run of consecutive minutes, a bucket with all its minutes).
Hashes, macro events and the arithmetic of OHLC values are left out. Time zones are
too: every row is UTC and aligned to the minute, which the code checks first.

### OrderSizing and BacktestAccount

Decimal arithmetic becomes exact integer arithmetic: a rate is so many parts of `Unit`, prices
and quantities are integers, money is counted in 1/`Unit`, and the risk caps, which multiply two
rates' worth, in 1/`Unit`^2. So nothing is rounded but what the code rounds (`RoundToTick`, whole
steps of quantity). `Fitted` says what `size_order`'s division and countdown and `fit_executable`'s
countdown have in common: the largest whole number of steps within the caps, or none. Decimal's own
rounding, at 28 digits, is not modelled.

`acct` is `Account` (`balance`, `highWater`, `dayStart`, `halted`, `paused`, `positions`,
`pending`), `marks` is `_marks`, `sizing` is `_sizing_equity`, `trades` the closed trades, `clock`
and `turn` the place in `run`'s two loops. `OnMinute` is the whole of `on_minute` for one symbol:
funding, the entry, the stops at the open, the exits, the stops at the close, in the code's order,
on any bar; `BeginTimestamp` is `on_day_open` and `begin_timestamp`; `EndMinute` the hour's signals,
whatever they are; `Finish` the flattening of `research_loop.py` after the last bar. `Observed` are
executable prices an entry meets: none in the backtest, some in the paper engine, whose `_try_enter`
fits the order to them. Every symbol has a bar in every minute and one contract size for good. The
latency cut-off and the walk through a book's levels end in that set of prices. Margin (reported
only), rejected orders, the list of fills and the account's own `max_drawdown` are left out.

### WalkForward and Evaluation

Times are minutes of a calendar whose months have any repeating lengths; `AddMonths` clips the day
as `calendar.monthrange` does, `Windows` is the set of half-open windows. `Curve` is
`reconstruct_equity_curve` (no caller under `src/` passes a curve), `WindowPoints` is
`window_equities`, `DrawdownBelow` compares `max_drawdown` with its limit without dividing.

### ArtifactStore and AgentJob

A content stands for its bytes and their digest. `dest` is what reading a digest gives, `dirty` the
names whose bytes no fsync flushed (none, as long as `Sync` is there), `temps` the temporary files.
`Check` is the comparison before and after the write, `Leave` a return or an exception through
`finally`, `Fail` an `OSError` of any call, `Crash` the death of one process at any step, `PowerLoss` that
of all, with the loss of any names (the directory is not synced). A failing `unlink` in `finally` is left
out.

A caller's `phase` is its place in `submit`; `bundle` is the job's mutable `input_bundle`, a version of
which stands for its pin. `Mutate` changes it at any time. An answer is accepted with the pin it echoes
or not, for whatever reason; `Accept` hands the result to on_success. That is the
caller's (`hermes.py:278`); nothing under `src/` passes one that stores, and `tests/agents/test_boundaries.py`
collects results with `commits.append` and puts them afterwards. The put in `Accept` is therefore an
assumed caller, one for which the order of storing and reporting matters. There is no timeout in `submit`: a late
answer is one that comes after a mutation.

## 3. The runs

Bounds are the constants of the cfg. CHECK_DEADLOCK is off where keys, clocks, minutes or
runs are finite: there the bounded system really comes to an end.

| Run | Question | Bounds |
|---|---|---|
| `DeskFamilies` | the per-family gate under all interleavings; refinement of `FamilyGate` | 2 families, 2 versions, 3 runs, a key per target, budget 2: two runs of one family compete for its seal, a family is rejected, another is granted; the counters of a family over all its runs |
| `DeskPaper` | halts and their alerts, resumptions | 1 run, 2 keys, 2 approval keys, 2 actors, clock up to 2 with days of 2 units: technical reruns, a later day, an expired approval, a superseding version, a foreign actor |
| `Outbox` | published means visible; leases; refinement of `Publication`; published or warned about in the end | 2 workers, 2 revisions, delays 1 and 2, a warning at age 2, 1 crash |
| `PaperDesk` | stops, gaps, repairs and resumptions of two symbols with one account; an open gap keeps entries off whatever was resumed meanwhile | minutes 1 to 3, days of 2 minutes and so one day boundary, 2 counter values, no crash |
| `PaperCrash` | entries and flatness with the engine dying up to three times; the bar that ends a stale period | 1 symbol, 3 crashes; few transition counter values, so that keys are reused, a resumption's too |
| `PaperLaggingSymbol`, `PaperHaltCrash` | two statements of the design | see findings |
| `Loop` | concurrent callers keep the gate and the development evidence; a sealed run is decided | 2 callers, 2 families, 2 runs, a technical failure, a crash |
| `Data` | the checks and derivations against their references | hours of 2 minutes, days of 4, a warm-up of 1 day; any two series of 6 to 13 minutes; any series of up to 4 bars; a bar, funding row or metadata row wrong in one place |
| `Account` | money, caps, limits and windows under every sequence of bars | 2 symbols, 5 bars (quiet, rise, both levels touched, gap down, slump), funding 0 or 1, entries that meet prices 96 and 104 or none, any signals, 3 minutes, days of 2, hours of 1, months of 2 and 1 days, evaluations starting at two midnights |
| `AccountHaltedGate` | a statement of the design | see findings; the same bounds |
| `Agents` | submissions and the store under crashes, failures, power loss | 2 writers, of which 1 submits jobs, 2 versions of a bundle and so 4 contents |

`DeskFamilies` and `DeskPaper` use symmetry of runs, keys and versions, the paper runs that of the
symbols, `Agents` of the versions; no property names one of them, and the runs with liveness use none.

Two competitors are enough for each race in the code: every check is about one family,
one row or one run, and a third competitor finds what the second one finds. Budgets of
1 and 2 reach exhaustion. Two units make a day, and both its edges are reached. For the pure
functions the sizes of hour and day only matter by what divides what; a bucket of 2
minutes has a first, a last and no other minute, one of 4 also some in between. The rates of
`Account` are coarse (fees and slippage of 1 %, a stop at 10 %, caps of 8 % and 12 % of equity) so that
three minutes suffice for what takes hours in the desk: a stop out, both levels in one bar, a daily
stop, a halt, a second position cut by what the first leaves of the aggregate cap, a position
held over midnight and over funding. Two symbols give every order of their bars a first and a last, and
the months of 2 and 1 days clip a day.

Every property of a passing run has a mutant, a plausible bug of a definition that TLC
shows to violate it.

*Fairness.* `Outbox` assumes that the scheduler keeps calling `process_publish_outbox`
(`docs/operations/recovery.md` asks for it), that a call runs to its end unless its process dies, and that time
passes; nothing of the wiki, which must only stay up in the end for publication and
not even that for the warning. `Loop` assumes that a call under way goes on and that a
run found in OOS_RUNNING is retried, as `recovery.md` asks. Crashes are bounded in both:
a process that always dies gets nothing done.

## 4. Findings

* `PaperLaggingSymbol`: `repair_gaps` uses the last bar of the symbol that found the gap for
  all symbols; one that lags further behind skips minutes under a position. The symbol
  that is ahead skips none (`LeaderSkipsNoMinute`).
* `PaperHaltCrash`: the ledger says halted, the engine dies before its snapshot, and holds its
  positions again after the restart.
* `AccountHaltedGate`: the engine halts on mark-to-market equity, validation takes the drawdown of a
  curve with one point per closed trade and looks neither at `halted` nor at the account's
  `max_drawdown`. A run halted 15 % below an unrealized peak passes both drawdown gates, where the design
  says that it fails by them.

Observed while modelling, without a run of their own:

* A stored resume_mdd command, repeated under its own key within a day, ends a second
  drawdown halt of that day.
* The window of `PaperHaltCrash` also restores a `gap_repaired` from before the gap.
* A development pass without sealed evidence is not charged, so the next version is evaluated
  under the same trial number, while the design counts every evaluated version.
* Two callers with one failed cycle store two successor manifests: the second transition
  is a silent repeat.
* The rejection gate is asked when a family is created (`db.py:159`), not when its seal is broken: a family
  created before another one's rejection enters its sealed evaluation afterwards without the approval the
  design (line 274) asks for. `FamilyAfterRejectionApproved` is about the creation only.
* A gap found during a daily pause changes no ledger state, raises no alert, and the next day's automatic
  resumption says PAPER_RUNNING over it (design, line 153). The engine's own flag still keeps entries off
  until a reconciliation succeeds (`OpenGapBarsEntries`).
* A symbol whose bars end before the others' passes validation and is silently absent from the rest of
  the backtest (design, line 126: all four are evaluated together).
* `_manage_exits` fills a stop at its level even when the bar opened beyond it. That is why
  `StopCostsWhatWasPlanned` holds, and why a backtest's stops are better than a market's.
* When a stop of the account flattens everything, the symbols whose bar is still to come close at
  their previous close. The costs of a daily stop can push the equity past the drawdown limit; the
  halt comes with the next mark. The costs of the last flattening are in no drawdown.
* The aggregate cap counts the planned risk of open positions as it was at their entry, whatever
  has become of their distance to the stop.
* The gate over windows is implied by the aggregate gate (`WindowsAgreeWithWhole`), unless the
  evaluation has no minute and so no window.
* `_book_executable` returns the worst level of a book that is too thin for the order.
* The store does not sync its directories: a digest that was returned may be gone after a power loss, with
  whatever the database says of it.
* A transport that changes the bundle during the accepted attempt, with an answer that echoes the changed
  pin, is accepted under the submitted pin. Bytes that are not UTF-8 raise out of `submit`: no second
  attempt, no AGENT_ERROR, where the design has malformed output retried and then reported.
* `walk_forward_windows` from a day 29 to 31 clips month by month, `month_span` at once, and the two can
  count one window differently.

## 5. The proofs

`DeskStateProofs` proves, for every number of families, versions, runs, keys, approvals and every
budget (assumption: `ConstantsAssumption`), the type invariant and that each action
preserves the inductive invariant. `OneSealedRunPerFamily` is not inductive: that a
family's seal is unused must be known of the counter, so the invariant adds that a
sealed run's family has used its sealed budget. `PaperMatchesRun` and `RejectedNeverPapers` need
that one, and that rows and references stay consistent (a version never changes its
family, a run never its version, a row with REJECTED means its run is rejected).

What a paper run owes to its owner rests on approvals: an approval is only ever added, never
replaced (`ApprovalsKept`), so what justified PAPER_RUNNING is still there later
(`PaperApproved`), and `PaperEdges` lists the only edges of the table that lead between paper states,
from which `AlertsComplete` and `ResumptionControlled` follow. The refinement of `FamilyGate`
(`Refinement`) needs `RowsTellState`: a run past its first state has a row that says so. With it the phase of
a family is decided by its one sealed run, as in `ResearchLoopProofs`. These also assume
`CommandsAssumption`: the code's None names no approval action and no command.
`BudgetsCounted` is about the cardinality of the set of charged rows of each family: a transition adds
one row at most, whose key is new, and that row is charged exactly when the counter moves; the rest of the
families' sets stay as they are.

`PublishOutboxProofs` proves all safety of `PublishOutbox` for every finite set of revisions, any
workers, any positive backoff sequence and any number of crashes (`OutboxAssumption`,
`NoneAssumption`): types, `PublishedIsVisible`, both lease properties, `WarnedLate`, and that the outbox
implements `Publication`. None of them is inductive by itself. The invariant adds what a
worker holds between two transactions (`HeldOK`: about to enqueue, its artifacts are
stored; about to mark, its page is shown and its row exists; with a claim in hand, it has one),
that artifacts precede rows and rows precede pages (`StoredFirst`), and that a row never
claimed is due (`UntriedIsDue`). `LeaseExclusion` rests on `LeaseIsScheduled`: a due row waits for
nothing, so every older lease on it has run out. `NextClaim` picks a least `outbox_id`, which
exists because the order of the naturals is well-founded.

`PaperEngineProofs` proves, for any symbols, lengths of hour and day and any bounds (`PaperAssumption`),
first what holds under crashes at every step: types, `StoppedAccountIsFlat`,
`EntriesNeedRunning` and `StaleBarOpensNothing`. What a bar does is argued once: each step of `DriveBar` only shrinks the
account or is gated by `status = "PAPER_RUNNING"` (`DriveBarSound`); the memory and the snapshot are then
sound because each step copies one to the other or changes it in one of these ways.
`StaleBarOpensNothing` needs one thing more (`StaleOK`): from `check_freshness` to the end of the handler the
engine stays stale and without intents, although its own bar makes its feed fresh; a barred engine
`Idles` through a bar, which `DriveBarSound` says of each step.
The other five are proved of an engine that does not die (`MaxCrashes = 0`, assumed in the
statement). That is no convenience: after a crash between a commit and its snapshot the restart loads
an account from before the stop and a counter behind the keys, which is what `PaperHaltCrash` shows of a halt.
While the process lives the counter is ahead of every key (`KeysBehind`), so no commit is
swallowed, a loss stop in the ledger is a stop of the account (`StopFlat`), and a failed reconciliation leaves
`gapRepaired` false (`GapHonest`). `OpenGapBarsEntries` adds that it leaves `unrepaired` true (`GapKnown`):
every resumption but that of the gap keeps the flag, and that one needs a repair. `LeaderSkipsNoMinute` adds that a symbol with a position has its last
minute on the tape (`Seen`; a resumption forgets it, but only of a flat desk) and that a waiting
bar or a repair's window starts where some symbol's tape ends (`WindowsOK`).

`ResearchLoopProofs` proves all safety of `ResearchLoop` for any callers, families, runs,
performance budget and bounds on failures and crashes (`LoopAssumption`), the refinement of
`FamilyGate` included. A call acts on what it read some steps ago, so the invariant says what
still holds by then (`CallsOK`): a call on its way to the seal or to the request has its run's
bundle stored, one that looks at the sealed evidence has a run past the seal. `OneRunUnsealed`
follows from `OutcomeSealed` (only such runs were looked at) and `SealHeld` (they are alone in
their family, whose sealed unit is used; a run that took OOS_RUNNING once never comes back, which
is why a repeated step may go on to the verdict). For the refinement, that uniqueness makes the
phase of a family the state of one run: a step of another run is a stutter, the unsealing finds
the family in research, and a new family opens when no phase is `rejected`.

`AgentJobProofs` first proves, for any writers and contents (`StoreAssumption`), that the store implements
`ContentStore` and that `TempsAreOwned`. The invariant adds that a writer past fsync has flushed
its file, so that no name is ever given to dirty bytes and a power loss can tear none, and that what
was returned is there. The composition takes only steps of the store (`Composition`), so these theorems
hold of it, and for any callers and versions (`JobAssumption`) `SubmitIsAllOrNothing` follows (of
submissions that report an outcome; one that raises or dies may have stored its result or not): where a caller
is in `submit` agrees with its put, with how often it committed and with whether its bundle has changed.

`BacktestDataProofs` proves what validation, derivation and lookups promise, for any symbols, series of any
length, hour, day and warm-up (`DataAssumption`: a day is whole hours, and a snapshot has the shape
of its record). The invariant is only that the snapshot in hand is one of those given; the rest are facts
about the operators. Validation compares neighbours, the reference says that the minutes are an
interval: a series without duplicates is injective (its length is the cardinality of its set), and the
first minute missing from it would be a gap between two neighbours, found as a least counterexample. A derived
bar is whole because the bucket of a minute is its `Floor`, a multiple of the step, and an interval
has all minutes of a multiple or lacks one. A warm-up is there because the days behind a signal are as
many as the multiples of a day between the first bar and the evaluation's start.

`BacktestAccountProofs` proves for every rate, step, minimum and cap (`SizingAssumption`: slippage and the
distances to stop and target are below 100 %) that fills round against the trader, that a sized or fitted order
keeps all caps, and that a conservative fill is no better than anything observed; and then of the account,
for any number of symbols and any bars, rates and signals (`AccountAssumption`; `PositionsAssumption`:
None is no position), its four properties.
* `StopCosts` and `EntriesKeepCaps`: the invariant is that every position carries the loss its stop
  causes, whichever way its order came about, that its fee is the one paid, and that its symbol has a
  mark. The caps need that adding one position adds its risk to a sum over all symbols.
* `OpenAccountWithinLimits`: every bar ends with `_enforce_stops` on the marks it leaves, and the end of
  an hour moves neither money nor marks. That alone is not inductive: `_enforce_stops` does not look at an
  account that is halted or paused, so the invariant (`LimitInv`) adds `Rests`, that such an account
  is flat, and excepts the time between a minute's begin, where midnight moves `dayStart`, and its first bar.
* `BooksAlwaysBalance`: `trades` is a set, and two equal trades would be counted once. The invariant
  (`BooksInv`) therefore says of the dates that no trade of a symbol has the entry time of its open
  position, and that no trade or position of it is later than its last bar (`Dated`), so a
  trade that closes is always new. Each of funding, entry, exit, flattening and end moves the balance
  by what it moves the trades' net and the open positions' funding and fees.

`EvaluationProofs` proves `WindowsAgreeWithWhole` for any calendar, start, length of window and any run of the
account (`CalendarAssumption`, `EvaluationAssumption`). `add_months` moves forward whatever the day it
clips (`AddMonthsIsLater`), so the boundaries grow until they meet the end and the windows are the
pieces between them (`WindowsCut`); a time between start and end is in one piece (`OneWindow`). The last
point of the curve before a time has the start's equity and the net of every trade that closed earlier
(`LastEquity`, because ranks order points by exit time and equal ranks are equal points), so what a window
gains is a difference of two such nets, and the differences cancel to the net of all trades
(`CutsTelescope`), which is the account's gain by `BooksBalance` once it is flat. The invariant `RunInv` adds
what this needs of a run: trades are finitely many and close in its minutes, and a run that is over has
nothing open, which needs `LimitInv` of one that was halted. With `End = 0` there is no window and the gate
over windows fails where the aggregate one holds; a proof attempt showed this, and the property says it.

Induction theorems with an operator parameter cannot be used, so whatever is defined by recursion (`Total`,
`MapThenSumSet`, `MonthStart`, `Boundary`) is shown to satisfy its equation, by building the function
(`SumsExist`, `AdditiveExists`, `RecursionExists`), and is then argued about by a least counterexample. The
non-linear arithmetic of the amounts is done in lemmas of one product each.

Every module with a proof module has its types proved; of these only `PaperEngine` has them in a run as well.

Every safety invariant and every action property of a passing run is a theorem. `PaperWasApproved` and
`RequestHasBundle` are theorems without a run: each is close to a guard of one action. Only model-checked: liveness
under fairness (`EventuallyPublished`, `EventuallyWarned`, `OosEventuallyDecided`), which with ENABLED
is out of the prover's reach; and what crashes leave of the paper engine's properties beyond the three
that are proved with them.

## 6. Not modelled

Statistics and the gates other than the two drawdown gates, CAGR, stress and neighbourhood cases
(numeric functions of one argument each, beyond bounded integers); strategy indicators (a signal is
a free choice); the ledger bundle, schemas, capabilities, contracts and configuration (pure
records and checks of one value); `commit_transition_and_budget`, which only tests call; the
latency and depth of order books, of which only the resulting prices matter.

Hazards without a property are listed in `PROJECT.json` with the reason: among them a second
process writing paper_state between the read and the write of `_persist_snapshot`, and
`claim_outbox_due` called without a topic, which spends the attempts of wiki rows.

## 7. Plan

1. Done: `DeskRules`, `FamilyGate`, `DeskState`, its first theorems.
2. Done: `Publication`, `PublishOutbox`.
3. Done: `PaperEngine`.
4. Done: `ResearchLoop`.
5. Done: `BacktestData`, what the backtest is given to see.
6. Done: `OrderSizing` and `BacktestAccount`, `WalkForward` and `Evaluation`, `ArtifactStore` and
   `AgentJob`, with their proofs.
7. Next: `PaperEngine` with a second writer of paper_state, composed with the approvals of `DeskState`,
   and a `BacktestAccount` whose symbols may have no bar in a minute, as `BacktestData` accepts.
8. Done: proofs of the safety of every module. Next: which properties of `PaperEngine` survive a
   crash outside the window between a commit and its snapshot, stated and proved as such.
