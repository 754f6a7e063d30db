---------------------------- MODULE PaperEngine ----------------------------
(***************************************************************************)
(* One paper-trading engine: a single-threaded process that drives closed   *)
(* one-minute bars into a simulated account, detects stale feeds and missing*)
(* minutes, stops on losses and resumes.  Its memory survives a restart only*)
(* through the payload of its paper_state row, which _persist_snapshot      *)
(* writes in a transaction of its own after the transition was committed.   *)
(*                                                                          *)
(* A handler is a sequence of steps: `pc` names the next one, nothing else  *)
(* runs in between, and the process may die before each.  A step ends at a  *)
(* commit or at the end of one bar.  Minutes are numbered from 1; 0 stands  *)
(* for "none".  Prices are abstracted to what a bar does to the account: the*)
(* order is filled or not, a stop level is touched, the equity falls to the *)
(* daily or to the drawdown limit.  The owner's approvals are DeskState's;  *)
(* here a resume is given one or is refused.                                *)
(***************************************************************************)
EXTENDS DeskRules, Integers, FiniteSets

CONSTANTS
  Symbols,
  MinutesPerHour, MinutesPerDay,
  MaxMinute,           \* bound on time
  MaxSeq,              \* bound on the transition counter at which resumptions stop
  MaxCrashes           \* bound on restarts

ASSUME PaperAssumption ==
  /\ MinutesPerHour \in Nat \ {0} /\ MinutesPerDay \in Nat \ {0}
  /\ MaxMinute \in Nat \ {0} /\ MaxSeq \in Nat /\ MaxCrashes \in Nat
  /\ Symbols # {}
  /\ "account" \notin Symbols /\ None \notin Symbols \union States

VARIABLES
  status, pausedDay,   \* paper_state.status, the UTC day of its paused_at
  keys,                \* <<seq, to>> of the transition rows the engine wrote
  snap,                \* the engine part of paper_state.payload_json, or None
  mem,                 \* the engine and its account, in memory
  fresh,               \* streams seen within STALE_AFTER
  now,                 \* the minute of the clock
  pc, work,            \* the step the running handler is at, what it works on
  crashes,
  gapOpen              \* history: a failed reconciliation not followed by a good one

ledger == <<status, pausedDay, keys>>
vars == <<ledger, snap, mem, fresh, now, pc, work, crashes, gapOpen>>

DATA_STALE == "DATA_STALE"
Minutes == 1..MaxMinute
Day(m) == m \div MinutesPerDay
NoPending == [s \in Symbols |-> 0]

\* PaperEngine and Account attributes.  `costs`: a stop flattened positions and
\* charged fees no stop check has seen yet.  `tape` is history: the last minute
\* driven into this account, never cleared.
Engine ==
  [engine : {"PAPER_RUNNING", DATA_STALE}, seq : Nat,
   last : [Symbols -> 0..MaxMinute],
   gapRepaired : BOOLEAN, unrepaired : BOOLEAN, ok : BOOLEAN, freshStart : BOOLEAN,
   positions : SUBSET Symbols, pending : [Symbols -> 0..MaxMinute + 1],
   halted : BOOLEAN, paused : BOOLEAN, costs : BOOLEAN,
   tape : [Symbols -> 0..MaxMinute]]

\* A first start: paper_state holds no snapshot of an account.
NewEngine ==
  [engine |-> "PAPER_RUNNING", seq |-> 0, last |-> [s \in Symbols |-> 0],
   gapRepaired |-> FALSE, unrepaired |-> FALSE, ok |-> TRUE, freshStart |-> TRUE,
   positions |-> {}, pending |-> NoPending,
   halted |-> FALSE, paused |-> FALSE, costs |-> FALSE,
   tape |-> [s \in Symbols |-> 0]]

\* The bar a handler drives last (None for a repair called on its own) and the
\* repair window start..end-1.
Idle == [symbol |-> None, start |-> 0, end |-> 0]
Work == [symbol : Symbols \union {None}, start : 0..MaxMinute, end : 0..MaxMinute]

Init ==
  /\ status = "PAPER_RUNNING" /\ pausedDay = 0 /\ keys = {}
  /\ snap = None /\ mem = NewEngine
  /\ fresh = {} /\ now = 1
  /\ pc = "idle" /\ work = Idle
  /\ crashes = 0 /\ gapOpen = FALSE
-----------------------------------------------------------------------------
(* Feeds and the entry gate *)

RequiredFresh(f) == f = Symbols \union {"account"}

\* Mutant: the engine trusts its own flags and does not read the ledger.
MayOpenRiskUnledgered(e, f) ==
  /\ e.freshStart \/ e.ok
  /\ e.engine # DATA_STALE /\ ~e.unrepaired
  /\ RequiredFresh(f)
  /\ ~e.halted /\ ~e.paused
\* may_open_risk
MayOpenRisk(e, f) ==
  /\ e.freshStart \/ e.ok
  /\ e.engine # DATA_STALE /\ ~e.unrepaired
  /\ RequiredFresh(f)
  /\ ~e.halted /\ ~e.paused
  /\ status = "PAPER_RUNNING"

\* Mutant: intents are dropped, but the engine does not stay stale for the bar.
CheckFreshnessUnmarked(e) ==
  IF RequiredFresh(fresh) /\ ~e.unrepaired
  THEN [e EXCEPT !.engine = "PAPER_RUNNING"]
  ELSE [e EXCEPT !.pending = NoPending]
\* check_freshness
CheckFreshness(e) ==
  IF RequiredFresh(fresh) /\ ~e.unrepaired
  THEN [e EXCEPT !.engine = "PAPER_RUNNING"]
  ELSE [e EXCEPT !.engine = DATA_STALE, !.pending = NoPending]
-----------------------------------------------------------------------------
(* PaperLifecycle: what one bar does to the account *)

\* on_day_open: a halt is not lifted by midnight, a daily pause is.
DayOpen(e) == IF e.halted THEN e ELSE [e EXCEPT !.paused = FALSE]

\* _try_enter: the intent is spent whether or not a position comes of it.
TryEnter(e, s, m, f, filled) ==
  IF e.pending[s] # m THEN e
  ELSE [e EXCEPT !.pending[s] = 0,
                 !.positions = IF filled /\ MayOpenRisk(e, f) THEN @ \union {s} ELSE @]

\* Mutant: only the current symbol is closed on a stop.
FlattenOne(e, s) ==
  [e EXCEPT !.positions = @ \ {s}, !.pending = NoPending, !.costs = e.positions # {}]
\* _flatten_all and _cancel_pending.
Flatten(e, s) ==
  [e EXCEPT !.positions = {}, !.pending = NoPending, !.costs = e.positions # {}]

\* _enforce_stops on a mark of symbol s at which the equity is at the limit
\* `loss`.  Equity moves only with a position, with one just closed in the same
\* bar, or by the costs of the last flattening (which count as drawdown).
EnforceStops(e, s, loss, closed) ==
  LET exposed == e.positions # {} \/ closed
      seen == [e EXCEPT !.costs = FALSE]
  IN IF e.halted THEN seen
     ELSE IF loss = "mdd" /\ (exposed \/ e.costs) THEN [Flatten(seen, s) EXCEPT !.halted = TRUE]
     ELSE IF loss = "daily" /\ exposed /\ ~e.paused THEN [Flatten(seen, s) EXCEPT !.paused = TRUE]
     ELSE seen

\* _manage_exits: stop loss or take profit of the bar's own symbol.
ManageExits(e, s, touched) == [e EXCEPT !.positions = IF touched THEN @ \ {s} ELSE @]

\* Mutant: the entry gate is not asked.
HourCompleteUngated(e, s, m, f, signal) ==
  IF signal /\ (m + 1) % MinutesPerHour = 0 /\ s \notin e.positions /\ e.pending[s] = 0
  THEN [e EXCEPT !.pending[s] = m + 1] ELSE e
\* on_hour_complete: a signal becomes an intent for the next minute.
HourComplete(e, s, m, f, signal) ==
  IF /\ signal /\ (m + 1) % MinutesPerHour = 0
     /\ MayOpenRisk(e, f) /\ s \notin e.positions /\ e.pending[s] = 0
  THEN [e EXCEPT !.pending[s] = m + 1] ELSE e

\* What the market and the strategy make of a bar.
Outcomes == [filled : BOOLEAN, open : {"calm", "daily", "mdd"}, touched : BOOLEAN,
             close : {"calm", "daily", "mdd"}, signal : BOOLEAN]

\* Only an order can be filled, only a position touched, only an account that
\* is exposed or has costs to see meets a limit; signals come on the hour.
Possible(e, s, m, o) ==
  LET exposed == e.positions # {} \/ o.filled
  IN /\ o.filled => e.pending[s] = m
     /\ o.touched => s \in e.positions \/ o.filled
     /\ o.open # "calm" \/ o.close # "calm" => exposed \/ e.costs
     /\ o.signal => (m + 1) % MinutesPerHour = 0

\* _drive_bar and on_minute for the bar of symbol s that opens at minute m.
DriveBar(e, s, m, f, o) ==
  LET opened  == IF m % MinutesPerDay = 0 THEN DayOpen(e) ELSE e
      entered == TryEnter(opened, s, m, f, o.filled)
      marked  == EnforceStops(entered, s, o.open, FALSE)
      exited  == ManageExits(marked, s, o.touched)
      closed  == EnforceStops(exited, s, o.close, exited # marked)
  IN HourComplete([closed EXCEPT !.last[s] = m, !.tape[s] = m], s, m, f, o.signal)
-----------------------------------------------------------------------------
(* The ledger *)

\* Mutant: paused_at is not written.
CommitUndated(e, to) ==
  LET key == <<e.seq + 1, to>>
  IN /\ mem' = [e EXCEPT !.seq = @ + 1]
     /\ keys' = keys \union {key}
     /\ status' = IF key \in keys THEN status ELSE to
     /\ pausedDay' = IF to = "PAPER_DAILY_PAUSED" THEN None ELSE pausedDay
\* _transition: the counter is advanced, and a key that exists already makes
\* transition() return without a word.
Commit(e, to) ==
  LET key == <<e.seq + 1, to>>
  IN /\ mem' = [e EXCEPT !.seq = @ + 1]
     /\ keys' = keys \union {key}
     /\ status' = IF key \in keys THEN status ELSE to
     /\ pausedDay' = IF to = "PAPER_DAILY_PAUSED" /\ key \notin keys
                     THEN Day(now) ELSE pausedDay

NoCommit(e) == mem' = e /\ UNCHANGED ledger

\* Mutant: a pause is recorded in place of a halt.
SyncRunStatePauseFirst(e) ==
  IF status # "PAPER_RUNNING" THEN NoCommit(e)
  ELSE IF e.paused THEN Commit(e, "PAPER_DAILY_PAUSED")
  ELSE IF e.halted THEN Commit(e, "PAPER_MDD_HALTED")
  ELSE NoCommit(e)
\* _sync_run_state, up to the snapshot.
SyncRunState(e) ==
  IF status # "PAPER_RUNNING" THEN NoCommit(e)
  ELSE IF e.halted THEN Commit(e, "PAPER_MDD_HALTED")
  ELSE IF e.paused THEN Commit(e, "PAPER_DAILY_PAUSED")
  ELSE NoCommit(e)

\* _enter_data_gap, up to the snapshot.
EnterDataGap(e) ==
  LET gap == [e EXCEPT !.gapRepaired = FALSE, !.unrepaired = TRUE,
                       !.pending = NoPending, !.ok = FALSE]
  IN /\ IF status = "PAPER_RUNNING" THEN Commit(gap, "PAPER_DATA_GAP") ELSE NoCommit(gap)
     /\ gapOpen' = TRUE
     /\ pc' = "persist" /\ work' = Idle

\* _persist_snapshot: the status it read and writes back has not changed.
Persist ==
  /\ pc = "persist"
  /\ snap' = mem
  /\ pc' = IF work.symbol = None THEN "idle" ELSE "bar"
  /\ UNCHANGED <<ledger, mem, fresh, now, work, crashes, gapOpen>>
-----------------------------------------------------------------------------
(* process_bar *)

\* Mutant: a window leaves its first minute out.
WindowStartLate(e, s, start) ==
  IF e.last[s] + 1 > start THEN e.last[s] + 1 ELSE start + 1
\* The first minute of symbol s that repair_gaps(start, ...) asks for.
WindowStart(e, s, start) ==
  IF e.last[s] + 1 > start THEN e.last[s] + 1 ELSE start

\* The bar of minute m arrives: freshness is checked before the bar counts as
\* news, a bar not newer than the last one is dropped, and a missing minute is
\* fetched from REST, which has every minute of the window or not (external).
ProcessBar(s, m) ==
  LET e == CheckFreshness(mem)
      gap == e.last[s] # 0 /\ m > e.last[s] + 1
  IN /\ pc = "idle"
     /\ \/ /\ e.last[s] # 0 /\ m <= e.last[s]
           /\ NoCommit(e) /\ UNCHANGED <<pc, work, gapOpen>>
        \/ /\ e.last[s] = 0 \/ m = e.last[s] + 1
           /\ NoCommit(e) /\ UNCHANGED gapOpen
           /\ pc' = "bar" /\ work' = [symbol |-> s, start |-> m, end |-> m]
        \/ /\ gap
           /\ NoCommit(e) /\ UNCHANGED gapOpen
           /\ pc' = "replay" /\ work' = [symbol |-> s, start |-> e.last[s] + 1, end |-> m]
        \/ /\ gap
           /\ EnterDataGap(e)
     /\ UNCHANGED <<snap, fresh, now, crashes>>

\* The bar itself: it makes its price fresh, is driven, and reconciles.
LiveBar ==
  LET s == work.symbol
      f == fresh \union {s}
  IN /\ pc = "bar"
     /\ fresh' = f
     /\ \E o \in Outcomes :
          /\ Possible(mem, s, work.end, o)
          /\ SyncRunState([DriveBar(mem, s, work.end, f, o) EXCEPT !.ok = TRUE])
     /\ pc' = "persist" /\ work' = Idle
     /\ UNCHANGED <<snap, now, crashes, gapOpen>>
-----------------------------------------------------------------------------
(* repair_gaps *)

FirstMissing == 1 + CHOOSE m \in {mem.tape[s] : s \in Symbols} :
                      \A s \in Symbols : m <= mem.tape[s]

\* Called on its own by an operator (recovery.md), for the minutes from the
\* first one some symbol misses up to the clock's.  When no symbol has a window
\* in that range the code covers it by nothing, which is a gap.
RepairGaps ==
  /\ pc = "idle" /\ FirstMissing < now
  /\ \/ /\ \E s \in Symbols : WindowStart(mem, s, FirstMissing) < now
        /\ pc' = "replay"
        /\ work' = [symbol |-> None, start |-> FirstMissing, end |-> now]
        /\ UNCHANGED <<mem, ledger, gapOpen>>
     \/ EnterDataGap(mem)
  /\ UNCHANGED <<snap, fresh, now, crashes>>

\* The fetched bars, earliest first, symbol by symbol.
Missing(s) == pc = "replay" /\ WindowStart(mem, s, work.start) < work.end

ReplayBar(s) ==
  LET m == WindowStart(mem, s, work.start)
  IN /\ Missing(s)
     /\ \A x \in Symbols : Missing(x) => m <= WindowStart(mem, x, work.start)
     /\ \E o \in Outcomes :
          Possible(mem, s, m, o) /\ mem' = DriveBar(mem, s, m, fresh, o)
     /\ UNCHANGED <<ledger, snap, fresh, now, pc, work, crashes, gapOpen>>

\* The window is reconciled; a waiting live bar follows the snapshot.
RepairDone ==
  /\ pc = "replay" /\ \A s \in Symbols : ~Missing(s)
  /\ SyncRunState([mem EXCEPT !.gapRepaired = TRUE, !.unrepaired = FALSE, !.ok = TRUE])
  /\ gapOpen' = FALSE
  /\ pc' = "persist"
  /\ UNCHANGED <<snap, fresh, now, work, crashes>>
-----------------------------------------------------------------------------
(* Intents and resumptions *)

\* queue_signal, for a signal published now, before the bar of this minute.
QueueSignal(s) ==
  LET e == CheckFreshness(mem)
  IN /\ pc = "idle" /\ mem.last[s] < now
     /\ mem' = IF MayOpenRisk(e, fresh) /\ s \notin e.positions /\ e.pending[s] = 0
               THEN [e EXCEPT !.pending[s] = now] ELSE e
     /\ UNCHANGED <<ledger, snap, fresh, now, pc, work, crashes, gapOpen>>

\* A resumption is legal from one state under a condition; with a key that
\* exists already transition() returns before it looks at either.
Resumable(from, allowed) ==
  /\ pc = "idle" /\ mem.seq < MaxSeq
  /\ \/ <<mem.seq + 1, "PAPER_RUNNING">> \in keys
     \/ status = from /\ allowed

Resumed(e) ==
  /\ Commit(e, "PAPER_RUNNING")
  /\ pc' = "persist"
  /\ UNCHANGED <<snap, fresh, now, work, crashes, gapOpen>>

\* Mutant: the pause's end is taken for the end of a gap found during it.
ResumeDailyForgetsGap ==
  /\ Resumable("PAPER_DAILY_PAUSED", Day(now) > pausedDay)
  /\ Resumed([mem EXCEPT !.paused = FALSE, !.unrepaired = FALSE,
                         !.last = [s \in Symbols |-> 0], !.ok = TRUE])
\* maybe_resume_daily
ResumeDaily ==
  /\ Resumable("PAPER_DAILY_PAUSED", Day(now) > pausedDay)
  /\ Resumed([mem EXCEPT !.paused = FALSE, !.last = [s \in Symbols |-> 0], !.ok = TRUE])

\* resume_after_mdd, with the owner's approval.
ResumeMdd ==
  /\ Resumable("PAPER_MDD_HALTED", TRUE)
  /\ Resumed([mem EXCEPT !.halted = FALSE, !.paused = FALSE, !.costs = FALSE,
                         !.last = [s \in Symbols |-> 0], !.ok = TRUE])

\* Mutant: the repair is not required.
ResumeDataGapUnrepaired ==
  /\ Resumable("PAPER_DATA_GAP", TRUE)
  /\ Resumed([mem EXCEPT !.unrepaired = FALSE, !.engine = "PAPER_RUNNING", !.ok = TRUE])
\* resume_after_data_gap, with the owner's approval and after a repair.
ResumeDataGap ==
  /\ Resumable("PAPER_DATA_GAP", mem.gapRepaired)
  /\ Resumed([mem EXCEPT !.unrepaired = FALSE, !.engine = "PAPER_RUNNING", !.ok = TRUE])

\* A resumption that transition() refuses raises after the counter moved.
ResumeRefused ==
  /\ pc = "idle" /\ mem.seq < MaxSeq
  /\ <<mem.seq + 1, "PAPER_RUNNING">> \notin keys
  /\ mem' = [mem EXCEPT !.seq = @ + 1]
  /\ UNCHANGED <<ledger, snap, fresh, now, pc, work, crashes, gapOpen>>
-----------------------------------------------------------------------------
(* Environment *)

\* A price or account update that is not a closed bar (external).
FeedUpdate(x) ==
  /\ pc = "idle"
  /\ fresh' = fresh \union {x}
  /\ UNCHANGED <<ledger, snap, mem, now, pc, work, crashes, gapOpen>>

\* A minute passes (external): what was seen is now STALE_AFTER old.
Tick ==
  /\ pc = "idle" /\ now < MaxMinute
  /\ now' = now + 1 /\ fresh' = {}
  /\ UNCHANGED <<ledger, snap, mem, pc, work, crashes, gapOpen>>

\* The process dies and is started again: _load_snapshot.
Restart ==
  /\ crashes < MaxCrashes
  /\ crashes' = crashes + 1
  /\ mem' = IF snap = None THEN NewEngine
            ELSE [snap EXCEPT !.freshStart = FALSE, !.ok = @ /\ ~snap.unrepaired]
  /\ fresh' = {} /\ pc' = "idle" /\ work' = Idle
  /\ UNCHANGED <<ledger, snap, now, gapOpen>>

Next ==
  \/ \E s \in Symbols, m \in {now - 1, now} \ {0} : ProcessBar(s, m)
  \/ LiveBar
  \/ RepairGaps
  \/ \E s \in Symbols : ReplayBar(s)
  \/ RepairDone
  \/ Persist
  \/ \E s \in Symbols : QueueSignal(s)
  \/ ResumeDaily
  \/ ResumeMdd
  \/ ResumeDataGap
  \/ ResumeRefused
  \/ \E x \in Symbols \union {"account"} : FeedUpdate(x)
  \/ Tick
  \/ Restart

Spec == Init /\ [][Next]_vars
-----------------------------------------------------------------------------
(* Properties *)

\* Every variable stays in its domain.
TypeOK ==
  /\ status \in PaperStates /\ pausedDay \in 0..MaxMinute
  /\ keys \subseteq Nat \X PaperStates
  /\ snap \in Engine \union {None} /\ mem \in Engine
  /\ fresh \subseteq Symbols \union {"account"} /\ now \in Minutes
  /\ pc \in {"idle", "bar", "replay", "persist"} /\ work \in Work
  /\ crashes \in 0..MaxCrashes /\ gapOpen \in BOOLEAN

Flat(e) == e.positions = {} /\ e.pending = NoPending

\* An account that hit a loss limit holds nothing and intends nothing, in
\* memory and in the snapshot a restart will load.
StoppedAccountIsFlat ==
  /\ mem.halted \/ mem.paused => Flat(mem)
  /\ snap # None => (snap.halted \/ snap.paused => Flat(snap))

\* A position is opened only while the ledger says PAPER_RUNNING, whatever the
\* engine believes of itself after a restart or a repeated transition key.
EntriesNeedRunning ==
  [][(pc \in {"bar", "replay"} /\ pc' # "idle"
        /\ ~(mem'.positions \subseteq mem.positions)) => status = "PAPER_RUNNING"]_vars

\* The bar that ends a stale period, and the bars replayed before it, open
\* nothing and leave no intent, old or new, although the bar itself makes its
\* symbol fresh before it is driven (process_bar).
StaleBarOpensNothing ==
  [][(pc \in {"bar", "replay"} /\ work.symbol # None /\ ~RequiredFresh(fresh) /\ pc' # "idle") =>
       mem'.positions \subseteq mem.positions /\ mem'.pending = NoPending]_vars

\* After a reconciliation that failed, until one succeeds, nothing is opened
\* and no intent is added: not by a bar, a replay or a published signal, and
\* not when the gap was found while the desk was paused or halted, so that the
\* ledger never heard of it, and the pause or halt was resumed over it.
OpenGapBarsEntries ==
  [][gapOpen =>
       /\ mem'.positions \subseteq mem.positions
       /\ \A s \in Symbols : mem'.pending[s] \in {0, mem.pending[s]}]_vars

\* Once a bar is processed the ledger knows of a stop the account made, and of
\* a halt not as of a mere pause, unless it is stopped for another reason.
StopsReachLedger ==
  [][(pc = "bar" /\ pc' = "persist" /\ status = "PAPER_RUNNING") =>
       /\ mem'.halted => status' = "PAPER_MDD_HALTED"
       /\ (mem'.paused /\ ~mem'.halted) => status' = "PAPER_DAILY_PAUSED"]_vars

\* While the ledger says paused for the day or halted, the account is flat.
LedgerStopIsFlat ==
  (pc = "idle" /\ status \in {"PAPER_DAILY_PAUSED", "PAPER_MDD_HALTED"}) => Flat(mem)

\* A position sees every minute: a bar driven into it is the next one.
NoMinuteSkipped ==
  [][\A s \in Symbols :
       (s \in mem.positions /\ mem'.tape[s] # mem.tape[s] /\ pc \in {"bar", "replay"}
          /\ pc' # "idle") => mem'.tape[s] = mem.tape[s] + 1]_vars

\* The same for several symbols: one that no other is ahead of skips no minute,
\* through live bars, gaps found by either symbol, repairs and resumptions.
LeaderSkipsNoMinute ==
  [][\A s \in Symbols :
       (/\ s \in mem.positions /\ mem'.tape[s] # mem.tape[s] /\ pc \in {"bar", "replay"}
        /\ pc' # "idle" /\ \A x \in Symbols : mem.tape[x] <= mem.tape[s])
       => mem'.tape[s] = mem.tape[s] + 1]_vars

\* PAPER_DATA_GAP is left only after a reconciliation that came after the one
\* that failed.
RepairBeforeResume ==
  [][(status = "PAPER_DATA_GAP" /\ status' = "PAPER_RUNNING") => ~gapOpen]_vars

\* Documentation (design, 9.2): at the drawdown limit positions are closed and
\* PAPER_MDD_HALTED is entered, so a halted desk is flat, restarted or not.
MddHaltIsFlat == (pc = "idle" /\ status = "PAPER_MDD_HALTED") => mem.positions = {}
=============================================================================
