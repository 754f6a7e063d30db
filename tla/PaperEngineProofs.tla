------------------------- MODULE PaperEngineProofs -------------------------
(***************************************************************************)
(* Proofs about PaperEngine, for any symbols, lengths of the hour and of    *)
(* the day, and bounds.  What a handler does to the account is a composition*)
(* of functions of the engine's memory; each has a lemma saying what it     *)
(* keeps, and the invariants follow action by action.                       *)
(***************************************************************************)
EXTENDS PaperEngine, WellFoundedInduction, TLAPS

USE PaperAssumption DEF PaperAssumption

\* A memory whose stopped account holds nothing and intends nothing.
Sound(e) == e \in Engine /\ (e.halted \/ e.paused => Flat(e))

LedgerOK ==
  /\ status \in PaperStates /\ pausedDay \in 0..MaxMinute
  /\ keys \subseteq Nat \X PaperStates

\* A handler at a bar or a replay works on minutes from 1 on, a waiting live bar
\* is of some symbol.
WorkOK ==
  /\ pc = "replay" => work.start >= 1
  /\ (pc # "idle" /\ work.symbol # None) => work.end >= 1
  /\ pc = "bar" => work.symbol \in Symbols
  /\ pc = "idle" => work.symbol = None

RestOK ==
  /\ fresh \subseteq Symbols \union {"account"} /\ now \in Minutes
  /\ pc \in {"idle", "bar", "replay", "persist"} /\ work \in Work
  /\ crashes \in 0..MaxCrashes /\ gapOpen \in BOOLEAN

IInv ==
  /\ LedgerOK /\ RestOK /\ WorkOK
  /\ Sound(mem) /\ (snap # None => Sound(snap))
-----------------------------------------------------------------------------
(* The clock *)

LEMMA DayInRange == ASSUME NEW m \in Minutes PROVE Day(m) \in 0..MaxMinute
  <1> DEFINE d == m \div MinutesPerDay
  <1>1. m \in Nat /\ MinutesPerDay \in Nat \ {0} /\ m <= MaxMinute
    BY DEF Minutes
  <1>2. d \in Int /\ MinutesPerDay * d <= m /\ d >= 0
    BY <1>1
  <1>3. d <= MinutesPerDay * d
    <2> HIDE DEF d
    <2>1. d * 1 <= d * MinutesPerDay
      BY <1>1, <1>2
    <2> QED BY <1>1, <1>2, <2>1
  <1> QED BY <1>1, <1>2, <1>3 DEF Day
-----------------------------------------------------------------------------
(* What one bar does to the account *)

\* Memory t is e as far as the counter, the repairs and the bars seen go.
Kept(e, t) ==
  /\ t.seq = e.seq /\ t.gapRepaired = e.gapRepaired
  /\ t.last = e.last /\ t.tape = e.tape

\* From e to t positions are closed and intents dropped at most.
Shrinks(e, t) ==
  /\ Sound(t) /\ Kept(e, t)
  /\ t.positions \subseteq e.positions
  /\ Flat(e) => Flat(t)

LEMMA DayOpenShrinks == ASSUME NEW e, Sound(e) PROVE Shrinks(e, DayOpen(e))
  BY DEF Sound, DayOpen, Engine, Flat, Kept, Shrinks

\* _try_enter opens a position only while the ledger says PAPER_RUNNING.
LEMMA TryEnterSound ==
  ASSUME NEW e, Sound(e), NEW s \in Symbols, NEW m \in Minutes, NEW f, NEW filled
  PROVE  LET t == TryEnter(e, s, m, f, filled)
         IN /\ Sound(t) /\ Kept(e, t)
            /\ t.positions \subseteq e.positions \union {s}
            /\ status # "PAPER_RUNNING" => Shrinks(e, t)
  <1>1. CASE e.pending[s] # m
    BY <1>1 DEF TryEnter, Shrinks, Kept
  <1>2. CASE e.pending[s] = m
    <2>1. ~e.halted /\ ~e.paused /\ ~Flat(e)
      BY <1>2 DEF Sound, Flat, NoPending, Minutes
    <2>2. [e.pending EXCEPT ![s] = 0] \in [Symbols -> 0..MaxMinute + 1]
      BY DEF Sound, Engine
    <2>3. e.positions \union {s} \subseteq Symbols
      BY DEF Sound, Engine
    <2>4. CASE filled /\ MayOpenRisk(e, f)
      <3>1. TryEnter(e, s, m, f, filled) =
              [e EXCEPT !.pending[s] = 0, !.positions = e.positions \union {s}]
        BY <1>2, <2>4 DEF TryEnter, Sound, Engine
      <3>2. status = "PAPER_RUNNING"
        BY <2>4 DEF MayOpenRisk
      <3> QED BY <2>1, <2>2, <2>3, <3>1, <3>2 DEF Sound, Engine, Kept
    <2>5. CASE ~(filled /\ MayOpenRisk(e, f))
      <3>1. TryEnter(e, s, m, f, filled) = [e EXCEPT !.pending[s] = 0]
        BY <1>2, <2>5 DEF TryEnter, Sound, Engine
      <3> QED BY <2>1, <2>2, <3>1 DEF Sound, Engine, Kept, Shrinks
    <2> QED BY <2>4, <2>5
  <1> QED BY <1>1, <1>2

LEMMA FlattenFlat ==
  ASSUME NEW e, e \in Engine, NEW s
  PROVE  LET t == Flatten(e, s)
         IN t \in Engine /\ Flat(t) /\ Kept(e, t)
  <1> DEFINE spent == e.positions # {}
             t == [e EXCEPT !.positions = {}, !.pending = NoPending, !.costs = spent]
  <1>1. spent \in BOOLEAN
    OBVIOUS
  <1>2. NoPending \in [Symbols -> 0..MaxMinute + 1]
    BY DEF NoPending
  <1>3. t \in Engine /\ Flat(t) /\ Kept(e, t)
    <2> HIDE DEF spent
    <2> QED BY <1>1, <1>2 DEF Engine, Flat, Kept
  <1> QED BY <1>3 DEF Flatten

\* _enforce_stops only ever closes.
LEMMA EnforceStopsShrinks ==
  ASSUME NEW e, Sound(e), NEW s, NEW loss, NEW closed
  PROVE  Shrinks(e, EnforceStops(e, s, loss, closed))
  <1> DEFINE seen == [e EXCEPT !.costs = FALSE]
             flat == Flatten(seen, s)
  <1>1. Sound(seen) /\ Kept(e, seen) /\ seen.positions = e.positions /\ (Flat(e) => Flat(seen))
    BY DEF Sound, Engine, Flat, Kept
  <1>2. flat \in Engine /\ Flat(flat) /\ Kept(seen, flat)
    <2> HIDE DEF seen
    <2> QED BY <1>1, FlattenFlat DEF Sound
  <1>3. Shrinks(e, [flat EXCEPT !.halted = TRUE]) /\ Shrinks(e, [flat EXCEPT !.paused = TRUE])
    <2> HIDE DEF seen, flat
    <2> QED BY <1>1, <1>2 DEF Sound, Engine, Flat, Kept, Shrinks
  <1>4. Shrinks(e, seen)
    BY <1>1 DEF Shrinks
  <1>5. EnforceStops(e, s, loss, closed) \in
          {seen, [flat EXCEPT !.halted = TRUE], [flat EXCEPT !.paused = TRUE]}
    <2> HIDE DEF seen, flat
    <2> QED BY DEF EnforceStops, seen, flat
  <1> HIDE DEF seen, flat
  <1> QED BY <1>3, <1>4, <1>5

LEMMA ManageExitsShrinks ==
  ASSUME NEW e, Sound(e), NEW s, NEW touched
  PROVE  Shrinks(e, ManageExits(e, s, touched))
  BY DEF Sound, ManageExits, Engine, Flat, Kept, Shrinks

\* on_hour_complete adds an intent, and that only while the ledger says running.
LEMMA HourCompleteSound ==
  ASSUME NEW e, Sound(e), NEW s \in Symbols, NEW m \in Minutes, NEW f, NEW signal
  PROVE  LET t == HourComplete(e, s, m, f, signal)
         IN /\ Sound(t) /\ Kept(e, t) /\ t.positions = e.positions
            /\ status # "PAPER_RUNNING" => t = e
  <1>1. CASE MayOpenRisk(e, f)
    <2>1. ~e.halted /\ ~e.paused /\ status = "PAPER_RUNNING"
      BY <1>1 DEF MayOpenRisk
    <2> QED BY <2>1 DEF Sound, HourComplete, Engine, Minutes, Kept
  <1>2. CASE ~MayOpenRisk(e, f)
    BY <1>2 DEF HourComplete, Kept
  <1> QED BY <1>1, <1>2

\* An engine that neither a bar nor a replay may open anything with: it knows of a
\* gap, or found its feeds stale.
Barred(e) == e.unrepaired \/ e.engine = DATA_STALE

\* From e to t nothing was opened and no intent added.
OpensNothing(e, t) ==
  /\ t.positions \subseteq e.positions
  /\ \A x \in Symbols : t.pending[x] \in {0, e.pending[x]}

\* The same, and what bars e was kept.
Idles(e, t) ==
  /\ t.unrepaired = e.unrepaired /\ t.engine = e.engine
  /\ OpensNothing(e, t)

LEMMA DayOpenIdles == ASSUME NEW e, Sound(e) PROVE Idles(e, DayOpen(e))
  BY DEF Sound, DayOpen, Engine, Idles, OpensNothing

LEMMA TryEnterIdles ==
  ASSUME NEW e, Sound(e), Barred(e), NEW s \in Symbols, NEW m, NEW f, NEW filled
  PROVE  Idles(e, TryEnter(e, s, m, f, filled))
  <1>1. ~MayOpenRisk(e, f)
    BY DEF Barred, MayOpenRisk
  <1>2. TryEnter(e, s, m, f, filled) \in {e, [e EXCEPT !.pending[s] = 0]}
    BY <1>1 DEF TryEnter, Sound, Engine
  <1> QED BY <1>2 DEF Sound, Engine, Idles, OpensNothing

LEMMA EnforceStopsIdles ==
  ASSUME NEW e, Sound(e), NEW s, NEW loss, NEW closed
  PROVE  Idles(e, EnforceStops(e, s, loss, closed))
  <1> DEFINE seen == [e EXCEPT !.costs = FALSE]
             spent == seen.positions # {}
             flat == [seen EXCEPT !.positions = {}, !.pending = NoPending, !.costs = spent]
  <1>1. seen \in Engine /\ Idles(e, seen)
    BY DEF Sound, Engine, Idles, OpensNothing
  <1>2. /\ Idles(e, [flat EXCEPT !.halted = TRUE])
        /\ Idles(e, [flat EXCEPT !.paused = TRUE])
    <2> HIDE DEF seen, spent
    <2> QED BY <1>1 DEF Engine, Idles, OpensNothing, NoPending
  <1>3. EnforceStops(e, s, loss, closed) \in
          {seen, [flat EXCEPT !.halted = TRUE], [flat EXCEPT !.paused = TRUE]}
    <2>1. flat = Flatten(seen, s)
      BY DEF Flatten
    <2> HIDE DEF flat, seen
    <2> QED BY <2>1 DEF EnforceStops, seen
  <1> HIDE DEF seen, flat
  <1> QED BY <1>1, <1>2, <1>3

LEMMA ManageExitsIdles ==
  ASSUME NEW e, Sound(e), NEW s, NEW touched PROVE Idles(e, ManageExits(e, s, touched))
  BY DEF Sound, ManageExits, Engine, Idles, OpensNothing

LEMMA HourCompleteIdles ==
  ASSUME NEW e, Sound(e), Barred(e), NEW s, NEW m, NEW f, NEW signal
  PROVE  HourComplete(e, s, m, f, signal) = e
  BY DEF Barred, MayOpenRisk, HourComplete

LEMMA IdlesTwice ==
  ASSUME NEW e, NEW t, NEW u, Idles(e, t), Idles(t, u)
  PROVE  Idles(e, u) /\ (Barred(e) => Barred(u))
  BY DEF Idles, OpensNothing, Barred

\* From e to t one bar of symbol s opening at minute m was driven.
Driven(e, t, s, m) ==
  /\ Sound(t) /\ t.seq = e.seq /\ t.gapRepaired = e.gapRepaired
  /\ t.last = [e.last EXCEPT ![s] = m] /\ t.tape = [e.tape EXCEPT ![s] = m]
  /\ t.positions \subseteq e.positions \union {s}
  /\ status # "PAPER_RUNNING" => t.positions \subseteq e.positions /\ (Flat(e) => Flat(t))
  /\ Barred(e) => Idles(e, t)

\* A bar keeps the account sound, counts as the last of its symbol, and opens at
\* most its own symbol, nothing unless the ledger says PAPER_RUNNING and the engine
\* is not barred.
LEMMA DriveBarSound ==
  ASSUME NEW e, Sound(e), NEW s \in Symbols, NEW m \in Minutes, NEW f, NEW o
  PROVE  Driven(e, DriveBar(e, s, m, f, o), s, m)
  <1>1. PICK opened : opened = IF m % MinutesPerDay = 0 THEN DayOpen(e) ELSE e
    OBVIOUS
  <1>2. PICK entered : entered = TryEnter(opened, s, m, f, o.filled)
    OBVIOUS
  <1>3. PICK marked : marked = EnforceStops(entered, s, o.open, FALSE)
    OBVIOUS
  <1>4. PICK exited : exited = ManageExits(marked, s, o.touched)
    OBVIOUS
  <1>5. PICK closed : closed = EnforceStops(exited, s, o.close, exited # marked)
    OBVIOUS
  <1>6. PICK driven : driven = [closed EXCEPT !.last[s] = m, !.tape[s] = m]
    OBVIOUS
  <1>7. PICK done : done = HourComplete(driven, s, m, f, o.signal)
    OBVIOUS
  <1>8. DriveBar(e, s, m, f, o) = done
    BY <1>1, <1>2, <1>3, <1>4, <1>5, <1>6, <1>7 DEF DriveBar
  <1>9. Sound(opened) /\ Shrinks(e, opened)
    BY <1>1, DayOpenShrinks DEF Shrinks, Kept
  <1>10. /\ Sound(entered) /\ Kept(opened, entered)
         /\ entered.positions \subseteq opened.positions \union {s}
         /\ status # "PAPER_RUNNING" => Shrinks(opened, entered)
    BY <1>2, <1>9, TryEnterSound
  <1>11. Sound(marked) /\ Shrinks(entered, marked)
    BY <1>3, <1>10, EnforceStopsShrinks DEF Shrinks
  <1>12. Sound(exited) /\ Shrinks(marked, exited)
    BY <1>4, <1>11, ManageExitsShrinks DEF Shrinks
  <1>13. Sound(closed) /\ Shrinks(exited, closed)
    <2>1. PICK changed : changed = (exited # marked)
      OBVIOUS
    <2> QED BY <1>5, <1>12, <2>1, EnforceStopsShrinks DEF Shrinks
  <1>14. /\ Sound(driven) /\ driven.positions = closed.positions /\ driven.pending = closed.pending
         /\ driven.seq = closed.seq /\ driven.gapRepaired = closed.gapRepaired
         /\ driven.last = [closed.last EXCEPT ![s] = m]
         /\ driven.tape = [closed.tape EXCEPT ![s] = m]
    <2>1. /\ [closed.last EXCEPT ![s] = m] \in [Symbols -> 0..MaxMinute]
          /\ [closed.tape EXCEPT ![s] = m] \in [Symbols -> 0..MaxMinute]
      BY <1>13 DEF Sound, Engine, Minutes
    <2> QED BY <1>6, <1>13, <2>1 DEF Sound, Engine, Flat
  <1>15. /\ Sound(done) /\ Kept(driven, done) /\ done.positions = driven.positions
         /\ status # "PAPER_RUNNING" => done = driven
    BY <1>7, <1>14, HourCompleteSound
  <1>16. /\ done.seq = e.seq /\ done.gapRepaired = e.gapRepaired
         /\ done.last = [e.last EXCEPT ![s] = m] /\ done.tape = [e.tape EXCEPT ![s] = m]
    BY <1>9, <1>10, <1>11, <1>12, <1>13, <1>14, <1>15 DEF Shrinks, Kept
  <1>17. done.positions \subseteq e.positions \union {s}
    BY <1>9, <1>10, <1>11, <1>12, <1>13, <1>14, <1>15 DEF Shrinks
  <1>18. ASSUME status # "PAPER_RUNNING"
         PROVE  done.positions \subseteq e.positions /\ (Flat(e) => Flat(done))
    <2>1. done = driven /\ Shrinks(opened, entered)
      BY <1>10, <1>15, <1>18
    <2>2. done.positions \subseteq e.positions
      BY <2>1, <1>9, <1>11, <1>12, <1>13, <1>14 DEF Shrinks
    <2>3. Flat(e) => Flat(closed)
      BY <2>1, <1>9, <1>11, <1>12, <1>13 DEF Shrinks
    <2> QED BY <2>1, <2>2, <2>3, <1>14 DEF Flat
  <1>19. ASSUME Barred(e) PROVE Idles(e, done)
    <2>1. Idles(e, opened) /\ Barred(opened)
      BY <1>1, <1>19, DayOpenIdles DEF Idles, OpensNothing, Barred
    <2>2. Idles(e, entered) /\ Barred(entered)
      BY <1>2, <1>9, <1>19, <2>1, TryEnterIdles, IdlesTwice
    <2>3. Idles(e, marked) /\ Barred(marked)
      <3>1. PICK no : no = FALSE
        OBVIOUS
      <3>2. Idles(entered, marked)
        BY <1>3, <1>10, <3>1, EnforceStopsIdles
      <3> QED BY <1>19, <2>2, <3>2, IdlesTwice
    <2>4. Idles(e, exited) /\ Barred(exited)
      BY <1>4, <1>11, <1>19, <2>3, ManageExitsIdles, IdlesTwice
    <2>5. Idles(e, closed) /\ Barred(closed)
      <3>1. PICK changed : changed = (exited # marked)
        OBVIOUS
      <3> QED BY <1>5, <1>12, <1>19, <2>4, <3>1, EnforceStopsIdles, IdlesTwice
    <2>6. Idles(closed, driven)
      BY <1>6, <1>13 DEF Sound, Engine, Idles, OpensNothing
    <2>7. Idles(e, driven) /\ Barred(driven)
      BY <1>19, <2>5, <2>6, IdlesTwice
    <2> QED BY <1>7, <1>14, <2>7, HourCompleteIdles
  <1> QED BY <1>8, <1>15, <1>16, <1>17, <1>18, <1>19 DEF Driven
-----------------------------------------------------------------------------
(* The ledger, the feeds, the windows *)

\* t is e but for the counter and for what the engine's start was like.
Same(e, t) ==
  /\ t.positions = e.positions /\ t.pending = e.pending
  /\ t.last = e.last /\ t.tape = e.tape
  /\ t.halted = e.halted /\ t.paused = e.paused
  /\ t.gapRepaired = e.gapRepaired
  /\ t.unrepaired = e.unrepaired /\ t.engine = e.engine

LEMMA CommitSound ==
  ASSUME LedgerOK, now \in Minutes, NEW e, Sound(e), NEW to \in PaperStates, Commit(e, to)
  PROVE  Sound(mem') /\ LedgerOK' /\ Same(e, mem') /\ mem'.seq = e.seq + 1
  <1>1. e.seq + 1 \in Nat
    BY DEF Sound, Engine
  <1>2. mem' = [e EXCEPT !.seq = e.seq + 1]
    BY DEF Commit, Sound, Engine
  <1>3. Sound(mem') /\ Same(e, mem') /\ mem'.seq = e.seq + 1
    BY <1>1, <1>2 DEF Sound, Engine, Flat, Same
  <1>4. LedgerOK'
    BY <1>1, DayInRange DEF Commit, LedgerOK
  <1> QED BY <1>3, <1>4

LEMMA NoCommitSound ==
  ASSUME LedgerOK, NEW e, Sound(e), NoCommit(e)
  PROVE  Sound(mem') /\ LedgerOK' /\ Same(e, mem') /\ mem'.seq = e.seq
  BY DEF NoCommit, LedgerOK, ledger, Same

\* _sync_run_state commits a stop or nothing.
LEMMA SyncSound ==
  ASSUME LedgerOK, now \in Minutes, NEW e, Sound(e), SyncRunState(e)
  PROVE  Sound(mem') /\ LedgerOK' /\ Same(e, mem')
  <1>1. \/ NoCommit(e)
        \/ Commit(e, "PAPER_MDD_HALTED")
        \/ Commit(e, "PAPER_DAILY_PAUSED")
    BY DEF SyncRunState
  <1>2. {"PAPER_MDD_HALTED", "PAPER_DAILY_PAUSED"} \subseteq PaperStates
    BY DEF PaperStates
  <1> QED BY <1>1, <1>2, CommitSound, NoCommitSound

LEMMA CheckFreshnessShrinks ==
  ASSUME NEW e, Sound(e) PROVE Shrinks(e, CheckFreshness(e))
  <1>1. NoPending \in [Symbols -> 0..MaxMinute + 1]
    BY DEF NoPending
  <1> QED BY <1>1 DEF Sound, CheckFreshness, Engine, Flat, DATA_STALE, Kept, Shrinks

\* What _enter_data_gap makes of the memory before it commits.
Gapped(e) == [e EXCEPT !.gapRepaired = FALSE, !.unrepaired = TRUE,
                       !.pending = NoPending, !.ok = FALSE]

LEMMA EnterDataGapSound ==
  ASSUME LedgerOK, now \in Minutes, NEW e, Sound(e), EnterDataGap(e)
  PROVE  /\ Sound(mem') /\ LedgerOK' /\ Same(Gapped(e), mem')
         /\ gapOpen' = TRUE /\ pc' = "persist" /\ work' = Idle
  <1>1. NoPending \in [Symbols -> 0..MaxMinute + 1]
    BY DEF NoPending
  <1>2. Sound(Gapped(e))
    BY <1>1 DEF Sound, Engine, Flat, Gapped
  <1>3. \/ NoCommit(Gapped(e))
        \/ Commit(Gapped(e), "PAPER_DATA_GAP")
    BY DEF EnterDataGap, Gapped
  <1>4. "PAPER_DATA_GAP" \in PaperStates
    BY DEF PaperStates
  <1>5. Sound(mem') /\ LedgerOK' /\ Same(Gapped(e), mem')
    BY <1>2, <1>3, <1>4, CommitSound, NoCommitSound
  <1> QED BY <1>5 DEF EnterDataGap

LEMMA NatOrder ==
  OpToRel(<, Nat) = {ss \in Nat \X Nat : ss[1] < ss[2]}
  BY DEF OpToRel

LEMMA LeastExists ==
  ASSUME NEW S, S \subseteq Nat, S # {}
  PROVE  \E x \in S : \A y \in S : x <= y
  <1>1. PICK m \in S : \A x \in S : ~(<<x, m>> \in OpToRel(<, Nat))
    BY NatLessThanWellFounded, WFMin
  <1>2. \A x \in S : ~(<<x, m>> \in {ss \in Nat \X Nat : ss[1] < ss[2]})
    BY <1>1, NatOrder
  <1>3. \A x \in S : ~(x < m)
    BY <1>2
  <1> QED BY <1>3

\* The first minute that some symbol misses follows the last one it was driven.
LEMMA FirstMissingOfSome ==
  ASSUME Sound(mem)
  PROVE  \E x \in Symbols : FirstMissing = mem.tape[x] + 1 /\ mem.tape[x] \in 0..MaxMinute
  <1> DEFINE S == {mem.tape[s] : s \in Symbols}
             least == CHOOSE m \in S : \A s \in Symbols : m <= mem.tape[s]
  <1>1. \A s \in Symbols : mem.tape[s] \in 0..MaxMinute
    BY DEF Sound, Engine
  <1>2. S \subseteq Nat /\ S # {}
    BY <1>1
  <1>3. PICK m \in S : \A y \in S : m <= y
    <2> HIDE DEF S
    <2> QED BY <1>2, LeastExists
  <1>4. \E y \in S : \A s \in Symbols : y <= mem.tape[s]
    BY <1>3
  <1>5. least \in S
    <2> HIDE DEF S
    <2> QED BY <1>4
  <1>6. FirstMissing = 1 + least
    BY DEF FirstMissing
  <1>7. PICK x \in Symbols : least = mem.tape[x]
    <2> HIDE DEF least
    <2> QED BY <1>5
  <1> HIDE DEF least
  <1> QED BY <1>1, <1>6, <1>7

\* A minute a replay drives lies in its window.
LEMMA WindowInRange ==
  ASSUME Sound(mem), RestOK, WorkOK, NEW s \in Symbols, Missing(s)
  PROVE  /\ WindowStart(mem, s, work.start) \in Minutes
         /\ WindowStart(mem, s, work.start) >= work.start
         /\ WindowStart(mem, s, work.start) >= mem.last[s] + 1
         /\ WindowStart(mem, s, work.start) \in {mem.last[s] + 1, work.start}
         /\ WindowStart(mem, s, work.start) < work.end
  BY DEF Sound, Engine, RestOK, WorkOK, Work, Missing, WindowStart, Minutes
-----------------------------------------------------------------------------
(* The invariant *)

LEMMA InitIInv == Init => IInv
  <1> SUFFICES ASSUME Init PROVE IInv
    OBVIOUS
  <1>1. Sound(NewEngine)
    BY DEF Sound, Engine, NewEngine, Flat, NoPending
  <1>2. LedgerOK
    BY DEF Init, LedgerOK, PaperStates
  <1>3. RestOK
    <2>1. now \in Minutes /\ work \in Work /\ crashes \in 0..MaxCrashes
      BY DEF Init, Work, Idle, Minutes
    <2> QED BY <2>1 DEF Init, RestOK
  <1>4. WorkOK
    BY DEF Init, WorkOK, Idle
  <1> QED BY <1>1, <1>2, <1>3, <1>4 DEF Init, IInv

LEMMA ProcessBarIInv ==
  ASSUME IInv, NEW s \in Symbols, NEW m \in {now - 1, now} \ {0}, ProcessBar(s, m)
  PROVE  IInv'
  <1> DEFINE e == CheckFreshness(mem)
  <1>1. Sound(e) /\ e.last[s] \in 0..MaxMinute /\ e.last[s] \in Nat
    BY CheckFreshnessShrinks DEF IInv, Shrinks, Sound, Engine
  <1>2. m \in Minutes
    BY DEF IInv, RestOK, Minutes
  <1>3. UNCHANGED <<snap, fresh, now, crashes>>
    BY DEF ProcessBar
  <1>4. CASE EnterDataGap(e)
    <2>1. Sound(mem') /\ LedgerOK' /\ gapOpen' = TRUE /\ pc' = "persist" /\ work' = Idle
      <3> HIDE DEF e
      <3> QED BY <1>1, <1>4, EnterDataGapSound DEF IInv, RestOK
    <2> QED BY <1>3, <2>1 DEF IInv, RestOK, WorkOK, Idle, Work
  <1>5. CASE NoCommit(e) /\ UNCHANGED <<pc, work, gapOpen>>
    <2>1. Sound(mem') /\ LedgerOK'
      <3> HIDE DEF e
      <3> QED BY <1>1, <1>5, NoCommitSound DEF IInv
    <2> QED BY <1>3, <1>5, <2>1 DEF IInv, RestOK, WorkOK
  <1>6. ASSUME NoCommit(e), UNCHANGED gapOpen, pc' \in {"bar", "replay"},
               NEW start \in Minutes, work' = [symbol |-> s, start |-> start, end |-> m]
        PROVE  IInv'
    <2>1. Sound(mem') /\ LedgerOK'
      <3> HIDE DEF e
      <3> QED BY <1>1, <1>6, NoCommitSound DEF IInv
    <2>2. RestOK'
      BY <1>2, <1>3, <1>6 DEF IInv, RestOK, Work, Minutes
    <2>3. WorkOK'
      BY <1>2, <1>6 DEF WorkOK, Minutes
    <2> QED BY <1>3, <2>1, <2>2, <2>3 DEF IInv
  <1>7. CASE /\ e.last[s] # 0 /\ m > e.last[s] + 1
             /\ NoCommit(e) /\ UNCHANGED gapOpen
             /\ pc' = "replay" /\ work' = [symbol |-> s, start |-> e.last[s] + 1, end |-> m]
    <2>1. e.last[s] + 1 \in Minutes
      BY <1>1, <1>2, <1>7 DEF Minutes
    <2> HIDE DEF e
    <2> QED BY <1>6, <1>7, <2>1
  <1>8. CASE /\ NoCommit(e) /\ UNCHANGED gapOpen
             /\ pc' = "bar" /\ work' = [symbol |-> s, start |-> m, end |-> m]
    BY <1>2, <1>6, <1>8
  <1> QED BY <1>4, <1>5, <1>7, <1>8 DEF ProcessBar

\* process_bar drives the waiting bar and syncs the ledger with the result.
LEMMA LiveBarDrives ==
  ASSUME IInv, LiveBar
  PROVE  /\ work.symbol \in Symbols /\ work.end \in Minutes
         /\ \E t : Driven(mem, t, work.symbol, work.end) /\ SyncRunState(t)
  <1>1. PICK s, m, f : s = work.symbol /\ m = work.end /\ f = fresh \union {s}
    OBVIOUS
  <1>2. s \in Symbols /\ m \in Minutes
    BY <1>1 DEF LiveBar, IInv, WorkOK, RestOK, Work, Minutes
  <1>3. PICK o : SyncRunState([DriveBar(mem, s, m, f, o) EXCEPT !.ok = TRUE])
    BY <1>1 DEF LiveBar
  <1>4. PICK t : t = DriveBar(mem, s, m, f, o)
    OBVIOUS
  <1>5. Driven(mem, t, s, m)
    BY <1>2, <1>4, DriveBarSound DEF IInv
  <1>6. PICK u : u = [t EXCEPT !.ok = TRUE]
    OBVIOUS
  <1>7. Driven(mem, u, s, m)
    BY <1>5, <1>6 DEF Driven, Sound, Engine, Flat, Idles, OpensNothing
  <1>8. SyncRunState(u)
    BY <1>3, <1>4, <1>6
  <1> QED BY <1>1, <1>2, <1>7, <1>8

LEMMA LiveBarIInv == ASSUME IInv, LiveBar PROVE IInv'
  <1>1. PICK t : Driven(mem, t, work.symbol, work.end) /\ SyncRunState(t)
    BY LiveBarDrives
  <1>2. Sound(mem') /\ LedgerOK'
    BY <1>1, SyncSound DEF Driven, IInv, RestOK
  <1>3. work.symbol \in Symbols
    BY LiveBarDrives
  <1>4. /\ fresh' = fresh \union {work.symbol} /\ pc' = "persist" /\ work' = Idle
        /\ UNCHANGED <<snap, now, crashes, gapOpen>>
    BY DEF LiveBar
  <1> QED BY <1>2, <1>3, <1>4 DEF IInv, RestOK, WorkOK, Work, Idle

LEMMA RepairGapsIInv == ASSUME IInv, RepairGaps PROVE IInv'
  <1>1. UNCHANGED <<snap, fresh, now, crashes>>
    BY DEF RepairGaps
  <1>2. CASE EnterDataGap(mem)
    <2>1. Sound(mem') /\ LedgerOK' /\ gapOpen' = TRUE /\ pc' = "persist" /\ work' = Idle
      BY <1>2, EnterDataGapSound DEF IInv, RestOK
    <2> QED BY <1>1, <2>1 DEF IInv, RestOK, WorkOK, Idle, Work
  <1>3. CASE /\ pc' = "replay" /\ work' = [symbol |-> None, start |-> FirstMissing, end |-> now]
             /\ UNCHANGED <<mem, ledger, gapOpen>>
    <2>1. PICK start : start = FirstMissing
      OBVIOUS
    <2>2. start \in Minutes
      BY <2>1, FirstMissingOfSome DEF RepairGaps, IInv, RestOK, Minutes
    <2>3. RestOK'
      BY <1>1, <1>3, <2>1, <2>2 DEF IInv, RestOK, Work, Minutes
    <2>4. WorkOK'
      BY <1>3, <2>1, <2>2 DEF WorkOK, Minutes
    <2> QED BY <1>1, <1>3, <2>3, <2>4 DEF IInv, LedgerOK, ledger
  <1> QED BY <1>2, <1>3 DEF RepairGaps

LEMMA ReplayBarDrives ==
  ASSUME IInv, NEW s \in Symbols, ReplayBar(s)
  PROVE  Driven(mem, mem', s, WindowStart(mem, s, work.start))
  <1>1. PICK m : m = WindowStart(mem, s, work.start)
    OBVIOUS
  <1>2. m \in Minutes
    BY <1>1, WindowInRange DEF ReplayBar, IInv
  <1>3. PICK o : mem' = DriveBar(mem, s, m, fresh, o)
    BY <1>1 DEF ReplayBar
  <1> QED BY <1>1, <1>2, <1>3, DriveBarSound DEF IInv

LEMMA ReplayBarIInv == ASSUME IInv, NEW s \in Symbols, ReplayBar(s) PROVE IInv'
  <1>1. Sound(mem')
    BY ReplayBarDrives DEF Driven
  <1>2. UNCHANGED <<ledger, snap, fresh, now, pc, work, crashes, gapOpen>>
    BY DEF ReplayBar
  <1> QED BY <1>1, <1>2 DEF IInv, LedgerOK, RestOK, WorkOK, ledger

LEMMA RepairDoneIInv == ASSUME IInv, RepairDone PROVE IInv'
  <1>1. PICK e : e = [mem EXCEPT !.gapRepaired = TRUE, !.unrepaired = FALSE, !.ok = TRUE]
    OBVIOUS
  <1>2. Sound(e)
    BY <1>1 DEF IInv, Sound, Engine, Flat
  <1>3. Sound(mem') /\ LedgerOK'
    BY <1>1, <1>2, SyncSound DEF RepairDone, IInv, RestOK
  <1> QED BY <1>3 DEF RepairDone, IInv, RestOK, WorkOK

LEMMA QueueSignalIInv == ASSUME IInv, NEW s \in Symbols, QueueSignal(s) PROVE IInv'
  <1>1. PICK e : e = CheckFreshness(mem)
    OBVIOUS
  <1>2. Sound(e)
    BY <1>1, CheckFreshnessShrinks DEF IInv, Shrinks
  <1>3. Sound(mem')
    <2>1. CASE MayOpenRisk(e, fresh)
      <3>1. ~e.halted /\ ~e.paused
        BY <2>1 DEF MayOpenRisk
      <3>2. [e.pending EXCEPT ![s] = now] \in [Symbols -> 0..MaxMinute + 1]
        BY <1>2 DEF Sound, Engine, IInv, RestOK, Minutes
      <3>3. mem' = e \/ mem' = [e EXCEPT !.pending[s] = now]
        BY <1>1 DEF QueueSignal
      <3> QED BY <1>2, <3>1, <3>2, <3>3 DEF Sound, Engine
    <2>2. CASE ~MayOpenRisk(e, fresh)
      BY <1>1, <1>2, <2>2 DEF QueueSignal
    <2> QED BY <2>1, <2>2
  <1> QED BY <1>3 DEF QueueSignal, IInv, LedgerOK, RestOK, WorkOK, ledger

LEMMA ResumedIInv ==
  ASSUME IInv, pc = "idle", NEW e, Sound(e), Resumed(e)
  PROVE  IInv'
  <1>1. "PAPER_RUNNING" \in PaperStates
    BY DEF PaperStates
  <1>2. Sound(mem') /\ LedgerOK'
    BY <1>1, CommitSound DEF IInv, RestOK, Resumed
  <1> QED BY <1>2 DEF Resumed, IInv, RestOK, WorkOK, Work

\* A resumption clears what stopped the account, in any combination.
LEMMA ResumptionsSound ==
  ASSUME Sound(mem)
  PROVE  /\ Sound([mem EXCEPT !.paused = FALSE, !.last = [s \in Symbols |-> 0], !.ok = TRUE])
         /\ Sound([mem EXCEPT !.halted = FALSE, !.paused = FALSE, !.costs = FALSE,
                              !.last = [s \in Symbols |-> 0], !.ok = TRUE])
         /\ Sound([mem EXCEPT !.unrepaired = FALSE, !.engine = "PAPER_RUNNING", !.ok = TRUE])
  <1>1. PICK zero : zero = [s \in Symbols |-> 0]
    OBVIOUS
  <1> zero \in [Symbols -> 0..MaxMinute]
    BY <1>1
  <1>2. Sound([mem EXCEPT !.paused = FALSE, !.last = zero, !.ok = TRUE])
    BY DEF Sound, Engine, Flat
  <1>3. Sound([mem EXCEPT !.halted = FALSE, !.paused = FALSE, !.costs = FALSE,
                          !.last = zero, !.ok = TRUE])
    BY DEF Sound, Engine, Flat
  <1>4. Sound([mem EXCEPT !.unrepaired = FALSE, !.engine = "PAPER_RUNNING", !.ok = TRUE])
    BY DEF Sound, Engine, Flat
  <1> QED BY <1>1, <1>2, <1>3, <1>4

LEMMA RestartIInv == ASSUME IInv, Restart PROVE IInv'
  <1>1. Sound(mem')
    <2>1. CASE snap = None
      BY <2>1 DEF Restart, Sound, Engine, NewEngine, Flat, NoPending
    <2>2. CASE snap # None
      <3>1. PICK b \in BOOLEAN : b = (snap.ok /\ ~snap.unrepaired)
        OBVIOUS
      <3>2. mem' = [snap EXCEPT !.freshStart = FALSE, !.ok = b]
        BY <2>2, <3>1 DEF Restart, IInv, Sound, Engine
      <3> QED BY <2>2, <3>1, <3>2 DEF IInv, Sound, Engine, Flat
    <2> QED BY <2>1, <2>2
  <1>2. crashes' \in 0..MaxCrashes
    BY DEF Restart, IInv, RestOK
  <1> QED BY <1>1, <1>2 DEF Restart, IInv, LedgerOK, ledger, RestOK, WorkOK, Work, Idle

LEMMA StepIInv == IInv /\ [Next]_vars => IInv'
  <1> SUFFICES ASSUME IInv, [Next]_vars PROVE IInv'
    OBVIOUS
  <1>1. CASE \E s \in Symbols : \E m \in {now - 1, now} \ {0} : ProcessBar(s, m)
    BY <1>1, ProcessBarIInv
  <1>2. CASE LiveBar
    BY <1>2, LiveBarIInv
  <1>3. CASE RepairGaps
    BY <1>3, RepairGapsIInv
  <1>4. CASE \E s \in Symbols : ReplayBar(s)
    BY <1>4, ReplayBarIInv
  <1>5. CASE RepairDone
    BY <1>5, RepairDoneIInv
  <1>6. CASE Persist
    BY <1>6 DEF Persist, IInv, LedgerOK, ledger, RestOK, WorkOK, Work
  <1>7. CASE \E s \in Symbols : QueueSignal(s)
    BY <1>7, QueueSignalIInv
  <1>8. CASE ResumeDaily
    BY <1>8, ResumptionsSound, ResumedIInv DEF ResumeDaily, Resumable, IInv
  <1>9. CASE ResumeMdd
    BY <1>9, ResumptionsSound, ResumedIInv DEF ResumeMdd, Resumable, IInv
  <1>10. CASE ResumeDataGap
    BY <1>10, ResumptionsSound, ResumedIInv DEF ResumeDataGap, Resumable, IInv
  <1>11. CASE ResumeRefused
    <2>1. Sound(mem')
      BY <1>11 DEF ResumeRefused, IInv, Sound, Engine, Flat
    <2> QED BY <1>11, <2>1 DEF ResumeRefused, IInv, LedgerOK, ledger, RestOK, WorkOK
  <1>12. CASE \E x \in Symbols \union {"account"} : FeedUpdate(x)
    BY <1>12 DEF FeedUpdate, IInv, LedgerOK, ledger, RestOK, WorkOK
  <1>13. CASE Tick
    BY <1>13 DEF Tick, IInv, LedgerOK, ledger, RestOK, WorkOK, Minutes
  <1>14. CASE Restart
    BY <1>14, RestartIInv
  <1>15. CASE UNCHANGED vars
    BY <1>15 DEF vars, IInv, LedgerOK, ledger, RestOK, WorkOK
  <1> QED BY <1>1, <1>2, <1>3, <1>4, <1>5, <1>6, <1>7, <1>8, <1>9, <1>10, <1>11, <1>12, <1>13,
             <1>14, <1>15 DEF Next

\* What the engine's handlers rely on holds at every step of them, across any
\* number of restarts.
THEOREM InductiveInvariant == Spec => []IInv
  BY InitIInv, StepIInv, PTL DEF Spec

\* Every variable stays in its domain.
THEOREM TypeCorrect == Spec => []TypeOK
  <1>1. IInv => TypeOK
    BY DEF IInv, LedgerOK, RestOK, Sound, TypeOK
  <1> QED BY <1>1, InductiveInvariant, PTL

\* An account stopped at a loss limit holds nothing and intends nothing, in
\* memory and in the snapshot a restart loads, however often the engine dies.
THEOREM StoppedIsFlat == Spec => []StoppedAccountIsFlat
  <1>1. IInv => StoppedAccountIsFlat
    BY DEF IInv, Sound, StoppedAccountIsFlat
  <1> QED BY <1>1, InductiveInvariant, PTL

\* A position is opened only while the ledger says PAPER_RUNNING, whatever the
\* engine believes of itself after a restart or a repeated transition key.
THEOREM EntriesOnlyRunning == Spec => EntriesNeedRunning
  <1> DEFINE EntryStep ==
        (pc \in {"bar", "replay"} /\ pc' # "idle"
           /\ ~(mem'.positions \subseteq mem.positions)) => status = "PAPER_RUNNING"
  <1>1. IInv /\ [Next]_vars => [EntryStep]_vars
    <2> SUFFICES ASSUME IInv, [Next]_vars, pc \in {"bar", "replay"}, pc' # "idle",
                        status # "PAPER_RUNNING"
                 PROVE  mem'.positions \subseteq mem.positions
      OBVIOUS
    <2>1. CASE LiveBar
      <3>1. PICK t : Driven(mem, t, work.symbol, work.end) /\ SyncRunState(t)
        BY <2>1, LiveBarDrives
      <3>2. Same(t, mem')
        BY <3>1, SyncSound DEF Driven, IInv, RestOK
      <3> QED BY <3>1, <3>2 DEF Driven, Same
    <2>2. CASE \E s \in Symbols : ReplayBar(s)
      BY <2>2, ReplayBarDrives DEF Driven
    <2>3. CASE RepairDone
      <3>1. PICK e : e = [mem EXCEPT !.gapRepaired = TRUE, !.unrepaired = FALSE, !.ok = TRUE]
        OBVIOUS
      <3>2. Sound(e) /\ e.positions = mem.positions
        BY <3>1 DEF IInv, Sound, Engine, Flat
      <3>3. Same(e, mem')
        BY <2>3, <3>1, <3>2, SyncSound DEF RepairDone, IInv, RestOK
      <3> QED BY <3>2, <3>3 DEF Same
    <2>4. CASE UNCHANGED vars
      BY <2>4 DEF vars
    <2> QED BY <2>1, <2>2, <2>3, <2>4 DEF Next, ProcessBar, RepairGaps, Persist, QueueSignal,
         ResumeDaily, ResumeMdd, ResumeDataGap, Resumable, ResumeRefused, FeedUpdate, Tick, Restart
  <1> QED BY <1>1, InductiveInvariant, PTL DEF Spec, EntriesNeedRunning

\* While a bar, or the replay before it, is handled that met stale feeds, the engine
\* is stale and has no intent.
StaleOK ==
  (pc # "idle" /\ work.symbol # None /\ ~RequiredFresh(fresh)) =>
    mem.engine = DATA_STALE /\ mem.pending = NoPending

LEMMA IdlesNone ==
  ASSUME NEW e, NEW t, Sound(t), Idles(e, t), e.pending = NoPending
  PROVE  t.pending = NoPending
  <1>1. t.pending \in [Symbols -> 0..MaxMinute + 1]
    BY DEF Sound, Engine
  <1>2. \A x \in Symbols : t.pending[x] = 0
    BY DEF Idles, OpensNothing, NoPending
  <1> QED BY <1>1, <1>2 DEF NoPending

\* What a step of such a handler leaves of the account.
LEMMA StaleStep ==
  ASSUME IInv, StaleOK, [Next]_vars, pc \in {"bar", "replay"}, work.symbol # None,
         ~RequiredFresh(fresh), pc' # "idle"
  PROVE  /\ mem'.positions \subseteq mem.positions
         /\ mem'.pending = NoPending /\ mem'.engine = DATA_STALE
  <1>1. Barred(mem) /\ mem.engine = DATA_STALE /\ mem.pending = NoPending
    BY DEF StaleOK, Barred
  <1>2. CASE LiveBar
    <2>1. PICK t : Driven(mem, t, work.symbol, work.end) /\ SyncRunState(t)
      BY <1>2, LiveBarDrives
    <2>2. Sound(t) /\ Idles(mem, t) /\ t.pending = NoPending
      BY <1>1, <2>1, IdlesNone DEF Driven
    <2>3. Same(t, mem')
      BY <2>1, <2>2, SyncSound DEF IInv, RestOK
    <2> QED BY <1>1, <2>2, <2>3 DEF Same, Idles, OpensNothing
  <1>3. CASE \E s \in Symbols : ReplayBar(s)
    <2>1. Sound(mem') /\ Idles(mem, mem')
      BY <1>1, <1>3, ReplayBarDrives DEF Driven
    <2> QED BY <1>1, <2>1, IdlesNone DEF Idles, OpensNothing
  <1>4. CASE RepairDone
    <2>1. PICK e : e = [mem EXCEPT !.gapRepaired = TRUE, !.unrepaired = FALSE, !.ok = TRUE]
      OBVIOUS
    <2>2. /\ Sound(e) /\ e.positions = mem.positions
          /\ e.pending = mem.pending /\ e.engine = mem.engine
      BY <2>1 DEF IInv, Sound, Engine, Flat
    <2>3. Same(e, mem')
      BY <1>4, <2>1, <2>2, SyncSound DEF RepairDone, IInv, RestOK
    <2> QED BY <1>1, <2>2, <2>3 DEF Same
  <1>5. CASE UNCHANGED vars
    BY <1>1, <1>5 DEF vars
  <1> QED BY <1>2, <1>3, <1>4, <1>5 DEF Next, ProcessBar, RepairGaps, Persist, QueueSignal,
       ResumeDaily, ResumeMdd, ResumeDataGap, Resumable, ResumeRefused, FeedUpdate, Tick, Restart

LEMMA StepStale == IInv /\ StaleOK /\ [Next]_vars => StaleOK'
  <1> SUFFICES ASSUME IInv, StaleOK, [Next]_vars, pc' # "idle", work'.symbol # None,
                      ~RequiredFresh(fresh')
               PROVE  mem'.engine = DATA_STALE /\ mem'.pending = NoPending
    BY DEF StaleOK
  <1>1. CASE pc = "idle"
    <2>1. work.symbol = None
      BY <1>1 DEF IInv, WorkOK
    <2>2. PICK s \in Symbols, m \in {now - 1, now} \ {0} : ProcessBar(s, m)
      <3>1. ~RepairGaps
        <4>1. PICK start : start = FirstMissing
          OBVIOUS
        <4> QED BY <4>1 DEF RepairGaps, EnterDataGap, Idle
      <3>2. ~(\E s \in Symbols : QueueSignal(s))
        BY <1>1 DEF QueueSignal
      <3>3. ~(ResumeDaily \/ ResumeMdd \/ ResumeDataGap)
        BY <2>1 DEF ResumeDaily, ResumeMdd, ResumeDataGap, Resumed
      <3>4. ~(LiveBar \/ (\E s \in Symbols : ReplayBar(s)) \/ RepairDone \/ Persist \/ Restart)
        BY <1>1 DEF LiveBar, ReplayBar, Missing, RepairDone, Persist, Restart
      <3>5. ~(ResumeRefused \/ (\E x \in Symbols \union {"account"} : FeedUpdate(x)) \/ Tick
              \/ UNCHANGED vars)
        BY <1>1 DEF ResumeRefused, FeedUpdate, Tick, vars
      <3> QED BY <3>1, <3>2, <3>3, <3>4, <3>5 DEF Next
    <2>3. PICK e : e = CheckFreshness(mem)
      OBVIOUS
    <2>4. mem' = e /\ fresh' = fresh
      BY <1>1, <2>1, <2>2, <2>3 DEF ProcessBar, EnterDataGap, NoCommit, Idle
    <2>5. e = [mem EXCEPT !.engine = DATA_STALE, !.pending = NoPending]
      BY <2>3, <2>4 DEF CheckFreshness
    <2> QED BY <2>4, <2>5 DEF IInv, Sound, Engine
  <1>2. CASE pc = "persist"
    <2>1. UNCHANGED <<mem, fresh, work>>
      BY <1>2 DEF Next, vars, ProcessBar, LiveBar, RepairGaps, ReplayBar, Missing, RepairDone,
         Persist, QueueSignal, ResumeDaily, ResumeMdd, ResumeDataGap, Resumable, ResumeRefused,
         FeedUpdate, Tick, Restart
    <2> QED BY <1>2, <2>1 DEF StaleOK
  <1>3. CASE pc \in {"bar", "replay"}
    <2>1. UNCHANGED <<fresh, work>>
      BY <1>3 DEF Next, vars, ProcessBar, LiveBar, RepairGaps, ReplayBar, RepairDone,
         Persist, QueueSignal, ResumeDaily, ResumeMdd, ResumeDataGap, Resumable, ResumeRefused,
         FeedUpdate, Tick, Restart, Idle
    <2> QED BY <1>3, <2>1, StaleStep
  <1> QED BY <1>1, <1>2, <1>3 DEF IInv, RestOK

\* The bar that ends a stale period, and the bars replayed before it, open nothing
\* and leave no intent (process_bar), however often the engine dies.
THEOREM StaleBarIdle == Spec => StaleBarOpensNothing
  <1> DEFINE StaleBarStep ==
        (pc \in {"bar", "replay"} /\ work.symbol # None /\ ~RequiredFresh(fresh)
           /\ pc' # "idle") =>
          mem'.positions \subseteq mem.positions /\ mem'.pending = NoPending
  <1>1. Init => StaleOK
    BY DEF Init, StaleOK
  <1>2. IInv /\ StaleOK /\ [Next]_vars => [StaleBarStep]_vars
    BY StaleStep
  <1> QED BY <1>1, <1>2, StepStale, InductiveInvariant, PTL DEF Spec, StaleBarOpensNothing
-----------------------------------------------------------------------------
(* A process that does not die *)

\* The engine's counter is ahead of every key it wrote, so no commit is lost on
\* a key that exists already.
KeysBehind == \A k \in keys : k[1] <= mem.seq

\* The ledger says stopped for a loss only of an account that is flat.
StopFlat == status \in {"PAPER_DAILY_PAUSED", "PAPER_MDD_HALTED"} => Flat(mem)

\* An engine that failed to reconcile does not take itself for repaired.
GapHonest == gapOpen => ~mem.gapRepaired

AliveInv == IInv /\ crashes = 0 /\ KeysBehind /\ StopFlat /\ GapHonest

LEMMA CommitIsNew ==
  ASSUME AliveInv, NEW e, Sound(e), e.seq = mem.seq, NEW to \in PaperStates, Commit(e, to)
  PROVE  status' = to /\ KeysBehind' /\ Same(e, mem')
  <1>1. Same(e, mem') /\ mem'.seq = mem.seq + 1
    BY CommitSound DEF AliveInv, IInv, RestOK
  <1>2. mem.seq \in Nat /\ \A k \in keys : k[1] \in Nat
    BY DEF AliveInv, IInv, Sound, Engine, LedgerOK
  <1>3. <<mem.seq + 1, to>> \notin keys
    BY <1>2 DEF AliveInv, KeysBehind
  <1>4. keys' = keys \union {<<mem.seq + 1, to>>}
    BY DEF Commit
  <1>5. KeysBehind'
    BY <1>1, <1>2, <1>4 DEF AliveInv, KeysBehind
  <1> QED BY <1>1, <1>3, <1>5 DEF Commit

LEMMA NoCommitAlive ==
  ASSUME AliveInv, NEW e, e.seq = mem.seq, NoCommit(e)
  PROVE  status' = status /\ KeysBehind' /\ Same(e, mem')
  BY DEF NoCommit, ledger, AliveInv, KeysBehind, Same

\* A bar's or a repair's sync records the stop the account made.
LEMMA SyncAlive ==
  ASSUME AliveInv, NEW e, Sound(e), e.seq = mem.seq, SyncRunState(e),
         status # "PAPER_RUNNING" => (Flat(mem) => Flat(e))
  PROVE  /\ KeysBehind' /\ StopFlat' /\ Same(e, mem')
         /\ status # "PAPER_RUNNING" => status' = status
         /\ status' = "PAPER_RUNNING" => status = "PAPER_RUNNING"
         /\ (status = "PAPER_RUNNING" /\ e.halted) => status' = "PAPER_MDD_HALTED"
         /\ (status = "PAPER_RUNNING" /\ e.paused /\ ~e.halted) => status' = "PAPER_DAILY_PAUSED"
  <1>1. {"PAPER_MDD_HALTED", "PAPER_DAILY_PAUSED"} \subseteq PaperStates
    BY DEF PaperStates
  <1>2. CASE status # "PAPER_RUNNING"
    <2>1. NoCommit(e)
      BY <1>2 DEF SyncRunState
    <2>2. status' = status /\ KeysBehind' /\ Same(e, mem')
      BY <2>1, NoCommitAlive
    <2> QED BY <1>2, <2>2 DEF AliveInv, StopFlat, Same, Flat
  <1>3. CASE status = "PAPER_RUNNING" /\ e.halted
    <2>1. status' = "PAPER_MDD_HALTED" /\ KeysBehind' /\ Same(e, mem')
      BY <1>1, <1>3, CommitIsNew DEF SyncRunState
    <2> QED BY <1>3, <2>1 DEF StopFlat, Sound, Same, Flat
  <1>4. CASE status = "PAPER_RUNNING" /\ ~e.halted /\ e.paused
    <2>1. status' = "PAPER_DAILY_PAUSED" /\ KeysBehind' /\ Same(e, mem')
      BY <1>1, <1>4, CommitIsNew DEF SyncRunState
    <2> QED BY <1>4, <2>1 DEF StopFlat, Sound, Same, Flat
  <1>5. CASE status = "PAPER_RUNNING" /\ ~e.halted /\ ~e.paused
    <2>1. NoCommit(e)
      BY <1>5 DEF SyncRunState
    <2>2. status' = status /\ KeysBehind' /\ Same(e, mem')
      BY <2>1, NoCommitAlive
    <2> QED BY <1>5, <2>2 DEF StopFlat
  <1> QED BY <1>2, <1>3, <1>4, <1>5

LEMMA EnterDataGapAlive ==
  ASSUME AliveInv, NEW e, Sound(e), e.seq = mem.seq, Flat(mem) => Flat(e), EnterDataGap(e)
  PROVE  /\ KeysBehind' /\ StopFlat' /\ GapHonest'
         /\ status' = "PAPER_RUNNING" => status = "PAPER_RUNNING"
  <1>1. Sound(mem') /\ Same(Gapped(e), mem')
    BY EnterDataGapSound DEF AliveInv, IInv, RestOK
  <1>2. NoPending \in [Symbols -> 0..MaxMinute + 1]
    BY DEF NoPending
  <1>3. PICK g : g = Gapped(e)
    OBVIOUS
  <1>4. Sound(g) /\ g.seq = mem.seq /\ ~g.gapRepaired /\ (Flat(mem) => Flat(g))
    BY <1>2, <1>3 DEF Sound, Engine, Flat, Gapped
  <1>5. GapHonest'
    BY <1>1, <1>3, <1>4 DEF GapHonest, Same
  <1>6. CASE status = "PAPER_RUNNING"
    <2>1. Commit(g, "PAPER_DATA_GAP") /\ "PAPER_DATA_GAP" \in PaperStates
      BY <1>3, <1>6 DEF EnterDataGap, Gapped, PaperStates
    <2>2. status' = "PAPER_DATA_GAP" /\ KeysBehind'
      BY <1>4, <2>1, CommitIsNew
    <2> QED BY <1>5, <1>6, <2>2 DEF StopFlat
  <1>7. CASE status # "PAPER_RUNNING"
    <2>1. NoCommit(g)
      BY <1>3, <1>7 DEF EnterDataGap, Gapped
    <2>2. status' = status /\ KeysBehind' /\ Same(g, mem')
      BY <1>4, <2>1, NoCommitAlive
    <2> QED BY <1>4, <1>5, <1>7, <2>2 DEF AliveInv, StopFlat, Same, Flat
  <1> QED BY <1>6, <1>7

\* A resumption commits PAPER_RUNNING from the very state it is meant for.
LEMMA ResumedAlive ==
  ASSUME AliveInv, NEW from, NEW allowed, Resumable(from, allowed), NEW e, Sound(e),
         e.seq = mem.seq, e.gapRepaired = mem.gapRepaired, Resumed(e)
  PROVE  KeysBehind' /\ StopFlat' /\ GapHonest' /\ crashes' = 0 /\ status = from /\ allowed
  <1>1. "PAPER_RUNNING" \in PaperStates
    BY DEF PaperStates
  <1>2. status' = "PAPER_RUNNING" /\ KeysBehind' /\ Same(e, mem')
    BY <1>1, CommitIsNew DEF Resumed
  <1>3. mem.seq \in Nat /\ \A k \in keys : k[1] \in Nat
    BY DEF AliveInv, IInv, Sound, Engine, LedgerOK
  <1>4. <<mem.seq + 1, "PAPER_RUNNING">> \notin keys
    BY <1>3 DEF AliveInv, KeysBehind
  <1> QED BY <1>2, <1>4 DEF Resumed, Resumable, AliveInv, StopFlat, GapHonest, Same

\* The three resumptions change the counter and the repairs in no way.
LEMMA ResumptionsKeep ==
  ASSUME Sound(mem)
  PROVE  \A e \in {[mem EXCEPT !.paused = FALSE, !.last = [s \in Symbols |-> 0], !.ok = TRUE],
                   [mem EXCEPT !.halted = FALSE, !.paused = FALSE, !.costs = FALSE,
                               !.last = [s \in Symbols |-> 0], !.ok = TRUE],
                   [mem EXCEPT !.unrepaired = FALSE, !.engine = "PAPER_RUNNING", !.ok = TRUE]} :
           Sound(e) /\ e.seq = mem.seq /\ e.gapRepaired = mem.gapRepaired
  <1>1. \A e \in {[mem EXCEPT !.paused = FALSE, !.last = [s \in Symbols |-> 0], !.ok = TRUE],
                  [mem EXCEPT !.halted = FALSE, !.paused = FALSE, !.costs = FALSE,
                              !.last = [s \in Symbols |-> 0], !.ok = TRUE],
                  [mem EXCEPT !.unrepaired = FALSE, !.engine = "PAPER_RUNNING", !.ok = TRUE]} :
          e.seq = mem.seq /\ e.gapRepaired = mem.gapRepaired
    BY DEF Sound, Engine
  <1> QED BY <1>1, ResumptionsSound

\* What holds of an engine that never dies, step by step.  PAPER_DATA_GAP is left
\* only by resume_after_data_gap.
LEMMA StepAlive ==
  ASSUME MaxCrashes = 0, AliveInv, [Next]_vars
  PROVE  /\ AliveInv'
         /\ (status = "PAPER_DATA_GAP" /\ status' = "PAPER_RUNNING") => ~gapOpen
  <1> DEFINE Left == status' = "PAPER_RUNNING" => status # "PAPER_DATA_GAP" \/ ~gapOpen
             Goal == KeysBehind' /\ StopFlat' /\ GapHonest' /\ crashes' = 0 /\ Left
  <1> HIDE DEF Left, Goal
  <1> SUFFICES Goal
    BY StepIInv DEF AliveInv, Left, Goal
  <1>1. Sound(mem) /\ crashes = 0 /\ RestOK /\ LedgerOK
    BY DEF AliveInv, IInv
  <1>2. ASSUME NEW s \in Symbols, NEW m \in {now - 1, now} \ {0}, ProcessBar(s, m) PROVE Goal
    <2>1. PICK e : e = CheckFreshness(mem)
      OBVIOUS
    <2>2. Sound(e) /\ Kept(mem, e) /\ (Flat(mem) => Flat(e))
      BY <1>1, <2>1, CheckFreshnessShrinks DEF Shrinks
    <2>3. CASE EnterDataGap(e)
      BY <1>1, <1>2, <2>2, <2>3, EnterDataGapAlive DEF ProcessBar, Kept, Left, Goal
    <2>4. CASE NoCommit(e) /\ UNCHANGED gapOpen
      <3>1. status' = status /\ KeysBehind' /\ Same(e, mem')
        BY <2>2, <2>4, NoCommitAlive DEF Kept
      <3> QED BY <1>1, <1>2, <2>2, <2>4, <3>1
            DEF ProcessBar, AliveInv, StopFlat, GapHonest, Same, Flat, Kept, Left, Goal
    <2> QED BY <1>2, <2>1, <2>3, <2>4 DEF ProcessBar
  <1>3. CASE LiveBar
    <2>1. PICK t : Driven(mem, t, work.symbol, work.end) /\ SyncRunState(t)
      BY <1>3, LiveBarDrives DEF AliveInv
    <2>2. /\ KeysBehind' /\ StopFlat' /\ Same(t, mem')
          /\ status' = "PAPER_RUNNING" => status = "PAPER_RUNNING"
      BY <2>1, SyncAlive DEF Driven
    <2> QED BY <1>1, <1>3, <2>1, <2>2 DEF LiveBar, AliveInv, GapHonest, Same, Driven, Left, Goal
  <1>4. CASE RepairGaps
    <2>1. CASE EnterDataGap(mem)
      BY <1>1, <1>4, <2>1, EnterDataGapAlive DEF RepairGaps, Left, Goal
    <2>2. CASE UNCHANGED <<mem, ledger, gapOpen>>
      BY <1>1, <1>4, <2>2
        DEF RepairGaps, ledger, AliveInv, KeysBehind, StopFlat, GapHonest, Flat, Left, Goal
    <2> QED BY <1>4, <2>1, <2>2 DEF RepairGaps
  <1>5. ASSUME NEW s \in Symbols, ReplayBar(s) PROVE Goal
    <2>1. Driven(mem, mem', s, WindowStart(mem, s, work.start))
      BY <1>5, ReplayBarDrives DEF AliveInv
    <2>2. UNCHANGED <<ledger, crashes, gapOpen>>
      BY <1>5 DEF ReplayBar
    <2>3. KeysBehind' /\ GapHonest'
      BY <2>1, <2>2 DEF ledger, AliveInv, KeysBehind, GapHonest, Driven
    <2>4. StopFlat'
      BY <2>1, <2>2 DEF ledger, AliveInv, StopFlat, Driven, Flat
    <2> QED BY <1>1, <2>2, <2>3, <2>4 DEF ledger, Left, Goal
  <1>6. CASE RepairDone
    <2>1. PICK e : e = [mem EXCEPT !.gapRepaired = TRUE, !.unrepaired = FALSE, !.ok = TRUE]
      OBVIOUS
    <2>2. Sound(e) /\ e.seq = mem.seq /\ (Flat(mem) => Flat(e))
      BY <1>1, <2>1 DEF Sound, Engine, Flat
    <2>3. KeysBehind' /\ StopFlat' /\ (status' = "PAPER_RUNNING" => status = "PAPER_RUNNING")
      BY <1>6, <2>1, <2>2, SyncAlive DEF RepairDone
    <2> QED BY <1>1, <1>6, <2>3 DEF RepairDone, GapHonest, Left, Goal
  <1>7. ASSUME NEW s \in Symbols, QueueSignal(s) PROVE Goal
    <2>1. PICK e : e = CheckFreshness(mem)
      OBVIOUS
    <2>2. Sound(e) /\ Kept(mem, e) /\ (Flat(mem) => Flat(e))
      BY <1>1, <2>1, CheckFreshnessShrinks DEF Shrinks
    <2>3. mem' = e \/ (mem' = [e EXCEPT !.pending[s] = now] /\ status = "PAPER_RUNNING")
      BY <1>7, <2>1 DEF QueueSignal, MayOpenRisk
    <2>4. mem'.seq = mem.seq /\ mem'.gapRepaired = mem.gapRepaired
      BY <2>2, <2>3 DEF Sound, Engine, Kept
    <2>5. UNCHANGED <<ledger, crashes, gapOpen>>
      BY <1>7 DEF QueueSignal
    <2>6. StopFlat'
      BY <2>2, <2>3, <2>5 DEF ledger, AliveInv, StopFlat, Flat
    <2> QED BY <1>1, <2>4, <2>5, <2>6 DEF ledger, AliveInv, KeysBehind, GapHonest, Left, Goal
  <1>8. CASE ResumeDaily
    <2>1. KeysBehind' /\ StopFlat' /\ GapHonest' /\ crashes' = 0 /\ status = "PAPER_DAILY_PAUSED"
      BY <1>1, <1>8, ResumptionsKeep, ResumedAlive DEF ResumeDaily
    <2> QED BY <2>1 DEF Left, Goal
  <1>9. CASE ResumeMdd
    <2>1. KeysBehind' /\ StopFlat' /\ GapHonest' /\ crashes' = 0 /\ status = "PAPER_MDD_HALTED"
      BY <1>1, <1>9, ResumptionsKeep, ResumedAlive DEF ResumeMdd
    <2> QED BY <2>1 DEF Left, Goal
  <1>10. CASE ResumeDataGap
    <2>1. PICK repaired \in BOOLEAN : repaired = mem.gapRepaired
      BY <1>1 DEF Sound, Engine
    <2>2. Resumable("PAPER_DATA_GAP", repaired)
      BY <1>10, <2>1 DEF ResumeDataGap
    <2>3. /\ KeysBehind' /\ StopFlat' /\ GapHonest' /\ crashes' = 0
          /\ status = "PAPER_DATA_GAP" /\ repaired
      BY <1>1, <1>10, <2>2, ResumptionsKeep, ResumedAlive DEF ResumeDataGap
    <2>4. ~gapOpen
      BY <2>1, <2>3 DEF AliveInv, GapHonest
    <2> QED BY <2>3, <2>4 DEF Left, Goal
  <1>11. CASE ResumeRefused
    <2>1. /\ mem'.seq = mem.seq + 1 /\ mem'.gapRepaired = mem.gapRepaired
          /\ (Flat(mem) => Flat(mem'))
      BY <1>1, <1>11 DEF ResumeRefused, Sound, Engine, Flat
    <2>2. mem.seq \in Nat /\ \A k \in keys : k[1] \in Nat
      BY <1>1 DEF Sound, Engine, LedgerOK
    <2>3. KeysBehind'
      BY <1>11, <2>1, <2>2 DEF ResumeRefused, ledger, AliveInv, KeysBehind
    <2> QED BY <1>1, <1>11, <2>1, <2>3
          DEF ResumeRefused, ledger, AliveInv, StopFlat, GapHonest, Flat, Left, Goal
  <1>12. CASE \/ Persist
              \/ \E x \in Symbols \union {"account"} : FeedUpdate(x)
              \/ Tick
              \/ UNCHANGED vars
    <2>1. UNCHANGED <<mem, ledger, gapOpen, crashes>>
      BY <1>12 DEF Persist, FeedUpdate, Tick, vars
    <2> QED BY <1>1, <2>1
          DEF ledger, AliveInv, KeysBehind, StopFlat, GapHonest, Flat, Left, Goal
  <1>13. ~Restart
    BY <1>1 DEF Restart
  <1> QED BY <1>2, <1>3, <1>4, <1>5, <1>6, <1>7, <1>8, <1>9, <1>10, <1>11, <1>12, <1>13 DEF Next

LEMMA InitAlive == Init => AliveInv
  BY InitIInv DEF Init, AliveInv, KeysBehind, StopFlat, GapHonest

\* While the process lives, its counter, its repairs and the ledger agree.
THEOREM AliveInvariant == ASSUME MaxCrashes = 0 PROVE Spec => []AliveInv
  BY InitAlive, StepAlive, PTL DEF Spec

\* While the process lives, a desk the ledger calls paused or halted is flat.
THEOREM StopsAreFlat == ASSUME MaxCrashes = 0 PROVE Spec => []LedgerStopIsFlat
  <1>1. AliveInv => LedgerStopIsFlat
    BY DEF AliveInv, StopFlat, LedgerStopIsFlat
  <1> QED BY <1>1, AliveInvariant, PTL

\* While the process lives, PAPER_DATA_GAP is left only after a reconciliation
\* that came after the one that failed.
THEOREM RepairedFirst == ASSUME MaxCrashes = 0 PROVE Spec => RepairBeforeResume
  <1>1. AliveInv /\ [Next]_vars =>
          [(status = "PAPER_DATA_GAP" /\ status' = "PAPER_RUNNING") => ~gapOpen]_vars
    BY StepAlive
  <1> QED BY <1>1, AliveInvariant, PTL DEF Spec, RepairBeforeResume

\* While the process lives, the ledger knows of a stop once the bar that caused it
\* is processed, and of a halt not as of a mere pause.
THEOREM StopsRecorded == ASSUME MaxCrashes = 0 PROVE Spec => StopsReachLedger
  <1> DEFINE StopStep ==
        (pc = "bar" /\ pc' = "persist" /\ status = "PAPER_RUNNING") =>
          /\ mem'.halted => status' = "PAPER_MDD_HALTED"
          /\ (mem'.paused /\ ~mem'.halted) => status' = "PAPER_DAILY_PAUSED"
  <1>1. AliveInv /\ [Next]_vars => [StopStep]_vars
    <2> SUFFICES ASSUME AliveInv, [Next]_vars, pc = "bar", pc' = "persist",
                        status = "PAPER_RUNNING"
                 PROVE  /\ mem'.halted => status' = "PAPER_MDD_HALTED"
                        /\ (mem'.paused /\ ~mem'.halted) => status' = "PAPER_DAILY_PAUSED"
      OBVIOUS
    <2>1. LiveBar
      BY DEF Next, vars, ProcessBar, RepairGaps, ReplayBar, Missing, RepairDone, Persist,
         QueueSignal, ResumeDaily, ResumeMdd, ResumeDataGap, Resumable, ResumeRefused,
         FeedUpdate, Tick, Restart
    <2>2. PICK t : Driven(mem, t, work.symbol, work.end) /\ SyncRunState(t)
      BY <2>1, LiveBarDrives DEF AliveInv
    <2>3. /\ Same(t, mem')
          /\ t.halted => status' = "PAPER_MDD_HALTED"
          /\ (t.paused /\ ~t.halted) => status' = "PAPER_DAILY_PAUSED"
      BY <2>2, SyncAlive DEF Driven
    <2> QED BY <2>3 DEF Same
  <1> QED BY <1>1, AliveInvariant, PTL DEF Spec, StopsReachLedger

\* An engine that failed to reconcile knows it until it has reconciled.
GapKnown == gapOpen => mem.unrepaired

LEMMA CheckFreshnessOpensNothing ==
  ASSUME NEW e, Sound(e)
  PROVE  OpensNothing(e, CheckFreshness(e)) /\ CheckFreshness(e).unrepaired = e.unrepaired
  BY DEF Sound, Engine, CheckFreshness, NoPending, OpensNothing

LEMMA EnterDataGapOpensNothing ==
  ASSUME AliveInv, NEW e, Sound(e), OpensNothing(mem, e), EnterDataGap(e)
  PROVE  mem'.unrepaired /\ OpensNothing(mem, mem')
  <1>1. Same(Gapped(e), mem')
    BY EnterDataGapSound DEF AliveInv, IInv, RestOK
  <1>2. /\ Gapped(e).unrepaired /\ Gapped(e).positions = e.positions
        /\ Gapped(e).pending = NoPending
    BY DEF Gapped, Sound, Engine
  <1> QED BY <1>1, <1>2 DEF Same, NoPending, OpensNothing

\* Resumptions but for the one that needs a repair leave what bars the engine.
LEMMA ResumedOpensNothing ==
  ASSUME AliveInv, NEW e, Sound(e), e.positions = mem.positions, e.pending = mem.pending,
         Resumed(e)
  PROVE  OpensNothing(mem, mem') /\ mem'.unrepaired = e.unrepaired /\ gapOpen' = gapOpen
  <1>1. "PAPER_RUNNING" \in PaperStates
    BY DEF PaperStates
  <1>2. Same(e, mem')
    BY <1>1, CommitSound DEF Resumed, AliveInv, IInv, RestOK
  <1> QED BY <1>2 DEF Same, OpensNothing, Resumed

LEMMA StepGap ==
  ASSUME MaxCrashes = 0, AliveInv, GapKnown, [Next]_vars
  PROVE  GapKnown' /\ (gapOpen => OpensNothing(mem, mem'))
  <1> DEFINE Goal == GapKnown' /\ (gapOpen => OpensNothing(mem, mem'))
  <1> HIDE DEF Goal
  <1> SUFFICES Goal
    BY DEF Goal
  <1>1. /\ Sound(mem) /\ crashes = 0
        /\ mem.unrepaired \in BOOLEAN /\ (gapOpen => mem.unrepaired)
    BY DEF AliveInv, IInv, Sound, Engine, GapKnown
  <1>2. ASSUME NEW s \in Symbols, NEW m \in {now - 1, now} \ {0}, ProcessBar(s, m) PROVE Goal
    <2>1. PICK e : e = CheckFreshness(mem)
      OBVIOUS
    <2>2. Sound(e) /\ OpensNothing(mem, e) /\ e.unrepaired = mem.unrepaired
      BY <1>1, <2>1, CheckFreshnessShrinks, CheckFreshnessOpensNothing DEF Shrinks
    <2>3. CASE EnterDataGap(e)
      BY <2>2, <2>3, EnterDataGapOpensNothing DEF GapKnown, Goal
    <2>4. CASE NoCommit(e) /\ UNCHANGED gapOpen
      BY <1>1, <2>2, <2>4 DEF NoCommit, GapKnown, Goal
    <2> QED BY <1>2, <2>1, <2>3, <2>4 DEF ProcessBar
  <1>3. CASE LiveBar
    <2>1. PICK t : Driven(mem, t, work.symbol, work.end) /\ SyncRunState(t)
      BY <1>3, LiveBarDrives DEF AliveInv
    <2>2. Same(t, mem')
      BY <2>1, SyncSound DEF Driven, AliveInv, IInv, RestOK
    <2>3. gapOpen => Idles(mem, t)
      BY <1>1, <2>1 DEF Driven, Barred
    <2>4. gapOpen' = gapOpen
      BY <1>3 DEF LiveBar
    <2> QED BY <1>1, <2>2, <2>3, <2>4 DEF Same, Idles, OpensNothing, GapKnown, Goal
  <1>4. CASE RepairGaps
    <2>1. OpensNothing(mem, mem)
      BY DEF OpensNothing
    <2>2. CASE EnterDataGap(mem)
      BY <1>1, <2>1, <2>2, EnterDataGapOpensNothing DEF GapKnown, Goal
    <2>3. CASE UNCHANGED <<mem, ledger, gapOpen>>
      BY <1>1, <2>1, <2>3 DEF GapKnown, Goal
    <2> QED BY <1>4, <2>2, <2>3 DEF RepairGaps
  <1>5. ASSUME NEW s \in Symbols, ReplayBar(s) PROVE Goal
    <2>1. gapOpen => Idles(mem, mem')
      BY <1>1, <1>5, ReplayBarDrives DEF Driven, Barred, AliveInv
    <2>2. gapOpen' = gapOpen
      BY <1>5 DEF ReplayBar
    <2> QED BY <1>1, <2>1, <2>2 DEF Idles, GapKnown, Goal
  <1>6. CASE RepairDone
    <2>1. PICK e : e = [mem EXCEPT !.gapRepaired = TRUE, !.unrepaired = FALSE, !.ok = TRUE]
      OBVIOUS
    <2>2. Sound(e) /\ e.positions = mem.positions /\ e.pending = mem.pending
      BY <1>1, <2>1 DEF Sound, Engine, Flat
    <2>3. Same(e, mem')
      BY <1>6, <2>1, <2>2, SyncSound DEF RepairDone, AliveInv, IInv, RestOK
    <2>4. ~gapOpen'
      BY <1>6 DEF RepairDone
    <2> QED BY <2>2, <2>3, <2>4 DEF Same, OpensNothing, GapKnown, Goal
  <1>7. ASSUME NEW s \in Symbols, QueueSignal(s) PROVE Goal
    <2>1. PICK e : e = CheckFreshness(mem)
      OBVIOUS
    <2>2. OpensNothing(mem, e) /\ e.unrepaired = mem.unrepaired /\ Sound(e)
      BY <1>1, <2>1, CheckFreshnessShrinks, CheckFreshnessOpensNothing DEF Shrinks
    <2>3. mem' = e \/ (mem' = [e EXCEPT !.pending[s] = now] /\ ~e.unrepaired)
      BY <1>7, <2>1 DEF QueueSignal, MayOpenRisk
    <2>4. mem'.unrepaired = mem.unrepaired
      BY <2>2, <2>3 DEF Sound, Engine
    <2>5. gapOpen' = gapOpen
      BY <1>7 DEF QueueSignal
    <2> QED BY <1>1, <2>2, <2>3, <2>4, <2>5 DEF GapKnown, Goal
  <1>8. CASE ResumeDaily
    <2>1. PICK e : e = [mem EXCEPT !.paused = FALSE, !.last = [s \in Symbols |-> 0], !.ok = TRUE]
      OBVIOUS
    <2>2. /\ Sound(e) /\ e.positions = mem.positions /\ e.pending = mem.pending
          /\ e.unrepaired = mem.unrepaired
      BY <1>1, <2>1, ResumptionsKeep DEF Sound, Engine
    <2> QED BY <1>1, <1>8, <2>1, <2>2, ResumedOpensNothing DEF ResumeDaily, GapKnown, Goal
  <1>9. CASE ResumeMdd
    <2>1. PICK e : e = [mem EXCEPT !.halted = FALSE, !.paused = FALSE, !.costs = FALSE,
                                   !.last = [s \in Symbols |-> 0], !.ok = TRUE]
      OBVIOUS
    <2>2. /\ Sound(e) /\ e.positions = mem.positions /\ e.pending = mem.pending
          /\ e.unrepaired = mem.unrepaired
      BY <1>1, <2>1, ResumptionsKeep DEF Sound, Engine
    <2> QED BY <1>1, <1>9, <2>1, <2>2, ResumedOpensNothing DEF ResumeMdd, GapKnown, Goal
  <1>10. CASE ResumeDataGap
    <2>1. PICK e : e = [mem EXCEPT !.unrepaired = FALSE, !.engine = "PAPER_RUNNING", !.ok = TRUE]
      OBVIOUS
    <2>2. PICK repaired \in BOOLEAN : repaired = mem.gapRepaired
      BY <1>1 DEF Sound, Engine
    <2>3. Sound(e) /\ e.seq = mem.seq /\ e.gapRepaired = mem.gapRepaired
      BY <1>1, <2>1, ResumptionsKeep
    <2>4. Resumable("PAPER_DATA_GAP", repaired) /\ Resumed(e)
      BY <1>10, <2>1, <2>2 DEF ResumeDataGap
    <2>5. mem.gapRepaired
      BY <2>2, <2>3, <2>4, ResumedAlive
    <2>6. ~gapOpen
      BY <2>5 DEF AliveInv, GapHonest
    <2>7. ~gapOpen'
      BY <2>4, <2>6 DEF Resumed
    <2> QED BY <2>6, <2>7 DEF GapKnown, Goal
  <1>11. CASE ResumeRefused
    <2>1. /\ mem'.unrepaired = mem.unrepaired
          /\ mem'.positions = mem.positions /\ mem'.pending = mem.pending
      BY <1>1, <1>11 DEF ResumeRefused, Sound, Engine
    <2> QED BY <1>1, <1>11, <2>1 DEF ResumeRefused, OpensNothing, GapKnown, Goal
  <1>12. CASE \/ Persist
              \/ \E x \in Symbols \union {"account"} : FeedUpdate(x)
              \/ Tick
              \/ UNCHANGED vars
    <2>1. UNCHANGED <<mem, gapOpen>>
      BY <1>12 DEF Persist, FeedUpdate, Tick, vars
    <2> QED BY <1>1, <2>1 DEF OpensNothing, GapKnown, Goal
  <1>13. ~Restart
    BY <1>1 DEF Restart
  <1> QED BY <1>2, <1>3, <1>4, <1>5, <1>6, <1>7, <1>8, <1>9, <1>10, <1>11, <1>12, <1>13 DEF Next

\* While the process lives, nothing is opened and no intent is added from a failed
\* reconciliation to the next good one, whichever resumptions come in between.
THEOREM GapBarsEntries == ASSUME MaxCrashes = 0 PROVE Spec => OpenGapBarsEntries
  <1> DEFINE GapStep ==
        gapOpen => /\ mem'.positions \subseteq mem.positions
                   /\ \A s \in Symbols : mem'.pending[s] \in {0, mem.pending[s]}
  <1>1. Init => GapKnown
    BY DEF Init, GapKnown
  <1>2. AliveInv /\ GapKnown /\ [Next]_vars => GapKnown' /\ [GapStep]_vars
    BY StepGap DEF OpensNothing
  <1> QED BY <1>1, <1>2, AliveInvariant, PTL DEF Spec, OpenGapBarsEntries
-----------------------------------------------------------------------------
(* No minute is skipped *)

\* A symbol's last bar is on the tape unless a resumption forgot it; one with a
\* position has not been forgotten.
Seen(e) ==
  /\ \A s \in Symbols : e.last[s] \in {0, e.tape[s]}
  /\ \A s \in e.positions : e.last[s] = e.tape[s] /\ e.last[s] # 0

\* A waiting bar is the next of its symbol, or follows a replay up to it; a replay
\* starts no later than after the last bar of some symbol.
WindowsOK ==
  /\ (pc \in {"bar", "persist"} /\ work.symbol # None) =>
       mem.last[work.symbol] = 0 \/ work.end = mem.last[work.symbol] + 1
  /\ pc = "replay" => \E x \in Symbols : work.start <= mem.tape[x] + 1
  /\ (pc = "replay" /\ work.symbol # None) =>
       work.start <= mem.last[work.symbol] + 1 /\ mem.last[work.symbol] < work.end

TapeInv == AliveInv /\ Seen(mem) /\ WindowsOK

LEMMA SeenSame ==
  ASSUME NEW e, Seen(e), NEW t, t.last = e.last, t.tape = e.tape, t.positions \subseteq e.positions
  PROVE  Seen(t)
  BY DEF Seen

LEMMA SeenDriven ==
  ASSUME NEW e, Sound(e), Seen(e), NEW t, NEW s \in Symbols, NEW m \in Minutes, Driven(e, t, s, m)
  PROVE  /\ Seen(t) /\ t.last[s] = m /\ t.tape[s] = m
         /\ \A x \in Symbols : x # s => t.last[x] = e.last[x] /\ t.tape[x] = e.tape[x]
  <1>1. /\ t.last[s] = m /\ t.tape[s] = m /\ m # 0
        /\ \A x \in Symbols : x # s => t.last[x] = e.last[x] /\ t.tape[x] = e.tape[x]
    BY DEF Driven, Sound, Engine, Minutes
  <1>2. t.positions \subseteq e.positions \union {s} /\ e.positions \subseteq Symbols
    BY DEF Driven, Sound, Engine
  <1> QED BY <1>1, <1>2 DEF Seen

\* A step that neither works on a window nor touches what was seen.
LEMMA QuietTape ==
  ASSUME TapeInv, mem'.last = mem.last, mem'.tape = mem.tape,
         mem'.positions \subseteq mem.positions,
         \/ pc' \in {"bar", "persist", "idle"} /\ work'.symbol = None
         \/ pc' = pc /\ work' = work
         \/ pc = "persist" /\ pc' = "bar" /\ work' = work
         \/ pc = "persist" /\ pc' = "idle"
  PROVE  Seen(mem)' /\ WindowsOK'
  <1>1. Seen(mem')
    BY SeenSame DEF TapeInv
  <1>2. WindowsOK'
    BY DEF TapeInv, WindowsOK
  <1> QED BY <1>1, <1>2

LEMMA ProcessBarTape ==
  ASSUME TapeInv, NEW s \in Symbols, NEW m \in {now - 1, now} \ {0}, ProcessBar(s, m)
  PROVE  Seen(mem)' /\ WindowsOK'
  <1>1. PICK e : e = CheckFreshness(mem)
    OBVIOUS
  <1>2. Sound(e) /\ Kept(mem, e) /\ e.positions \subseteq mem.positions /\ Sound(mem)
    BY <1>1, CheckFreshnessShrinks DEF TapeInv, AliveInv, IInv, Shrinks
  <1>3. /\ mem.last[s] \in Nat /\ mem.tape[s] \in Nat /\ m \in Nat /\ s # None
        /\ mem.last[s] \in {0, mem.tape[s]}
    BY <1>2 DEF Sound, Engine, TapeInv, Seen, AliveInv, IInv, RestOK, Minutes
  <1>4. CASE EnterDataGap(e)
    <2>1. Same(Gapped(e), mem') /\ pc' = "persist" /\ work' = Idle
      BY <1>2, <1>4, EnterDataGapSound DEF TapeInv, AliveInv, IInv, RestOK
    <2>2. /\ Gapped(e).last = mem.last /\ Gapped(e).tape = mem.tape
          /\ Gapped(e).positions \subseteq mem.positions
      BY <1>2 DEF Gapped, Kept, Sound, Engine
    <2> QED BY <2>1, <2>2, QuietTape DEF Same, Idle
  <1>5. ASSUME NoCommit(e)
        PROVE  mem'.last = mem.last /\ mem'.tape = mem.tape /\ mem'.positions \subseteq mem.positions
    BY <1>2, <1>5 DEF NoCommit, Kept
  <1>6. CASE NoCommit(e) /\ UNCHANGED <<pc, work, gapOpen>>
    BY <1>5, <1>6, QuietTape
  <1>7. CASE /\ e.last[s] = 0 \/ m = e.last[s] + 1
             /\ NoCommit(e)
             /\ pc' = "bar" /\ work' = [symbol |-> s, start |-> m, end |-> m]
    <2>1. Seen(mem')
      BY <1>5, <1>7, SeenSame DEF TapeInv
    <2>2. WindowsOK'
      BY <1>2, <1>3, <1>5, <1>7 DEF WindowsOK, Kept
    <2> QED BY <2>1, <2>2
  <1>8. CASE /\ e.last[s] # 0 /\ m > e.last[s] + 1 /\ NoCommit(e)
             /\ pc' = "replay" /\ work' = [symbol |-> s, start |-> e.last[s] + 1, end |-> m]
    <2>1. Seen(mem')
      BY <1>5, <1>8, SeenSame DEF TapeInv
    <2>2. mem'.last[s] = mem.last[s] /\ mem'.tape[s] = mem.tape[s] /\ e.last[s] = mem.last[s]
      BY <1>2, <1>5, <1>8 DEF Kept
    <2>3. e.last[s] + 1 <= mem'.tape[s] + 1
      BY <1>3, <1>8, <2>2
    <2>4. e.last[s] + 1 <= mem'.last[s] + 1 /\ mem'.last[s] < m
      BY <1>3, <1>8, <2>2
    <2>5. WindowsOK'
      BY <1>3, <1>8, <2>3, <2>4 DEF WindowsOK
    <2> QED BY <2>1, <2>5
  <1> QED BY <1>1, <1>4, <1>6, <1>7, <1>8 DEF ProcessBar

LEMMA LiveBarTape ==
  ASSUME TapeInv, LiveBar
  PROVE  /\ Seen(mem)' /\ WindowsOK'
         /\ work.symbol \in Symbols /\ mem'.tape[work.symbol] = work.end
         /\ \A x \in Symbols : x # work.symbol => mem'.tape[x] = mem.tape[x]
  <1>1. PICK s, m : s = work.symbol /\ m = work.end
    OBVIOUS
  <1>2. s \in Symbols /\ m \in Minutes /\ Sound(mem)
    BY <1>1, LiveBarDrives DEF TapeInv, AliveInv, IInv
  <1>3. PICK t : Driven(mem, t, s, m) /\ SyncRunState(t)
    BY <1>1, LiveBarDrives DEF TapeInv, AliveInv
  <1>4. /\ Seen(t) /\ t.tape[s] = m
        /\ \A x \in Symbols : x # s => t.tape[x] = mem.tape[x]
    BY <1>2, <1>3, SeenDriven DEF TapeInv
  <1>5. Same(t, mem')
    BY <1>3, SyncSound DEF Driven, TapeInv, AliveInv, IInv, RestOK
  <1>6. Seen(mem')
    BY <1>4, <1>5, SeenSame DEF Same
  <1>7. WindowsOK'
    BY DEF LiveBar, WindowsOK, Idle
  <1> QED BY <1>1, <1>2, <1>4, <1>5, <1>6, <1>7 DEF Same

LEMMA ReplayBarTape ==
  ASSUME TapeInv, NEW s \in Symbols, ReplayBar(s)
  PROVE  /\ Seen(mem)' /\ WindowsOK'
         /\ mem'.tape[s] = WindowStart(mem, s, work.start)
         /\ \A x \in Symbols : x # s => mem'.tape[x] = mem.tape[x]
  <1>1. PICK m : m = WindowStart(mem, s, work.start)
    OBVIOUS
  <1>2. m \in Minutes /\ m >= work.start /\ m < work.end /\ Sound(mem)
    BY <1>1, WindowInRange DEF ReplayBar, TapeInv, AliveInv, IInv
  <1>3. Driven(mem, mem', s, m)
    BY <1>1, ReplayBarDrives DEF TapeInv, AliveInv
  <1>4. /\ Seen(mem') /\ mem'.last[s] = m /\ mem'.tape[s] = m
        /\ \A x \in Symbols : x # s => mem'.last[x] = mem.last[x] /\ mem'.tape[x] = mem.tape[x]
    BY <1>2, <1>3, SeenDriven DEF TapeInv
  <1>5. pc = "replay" /\ pc' = pc /\ work' = work
    BY DEF ReplayBar, Missing
  <1>6. m \in Nat /\ work.start \in Nat
    BY <1>2 DEF Minutes, TapeInv, AliveInv, IInv, RestOK, Work
  <1>7. \E x \in Symbols : work.start <= mem'.tape[x] + 1
    <2>1. PICK x \in Symbols : work.start <= mem.tape[x] + 1
      BY <1>5 DEF TapeInv, WindowsOK
    <2>2. CASE x = s
      <3>1. work.start <= mem'.tape[s] + 1
        BY <1>2, <1>4, <1>6
      <3> QED BY <3>1
    <2>3. CASE x # s
      BY <1>4, <2>1, <2>3
    <2> QED BY <2>2, <2>3
  <1>8. ASSUME work.symbol # None
        PROVE  work.start <= mem'.last[work.symbol] + 1 /\ mem'.last[work.symbol] < work.end
    <2>1. work.symbol \in Symbols
      BY <1>8 DEF TapeInv, AliveInv, IInv, RestOK, Work
    <2>2. CASE work.symbol = s
      BY <1>2, <1>4, <1>6, <2>2
    <2>3. CASE work.symbol # s
      BY <1>4, <1>5, <1>8, <2>1, <2>3 DEF TapeInv, WindowsOK
    <2> QED BY <2>2, <2>3
  <1>9. WindowsOK'
    BY <1>5, <1>7, <1>8 DEF WindowsOK
  <1> QED BY <1>1, <1>4, <1>9

LEMMA RepairDoneTape ==
  ASSUME TapeInv, RepairDone
  PROVE  Seen(mem)' /\ WindowsOK' /\ mem'.tape = mem.tape
  <1>1. PICK e : e = [mem EXCEPT !.gapRepaired = TRUE, !.unrepaired = FALSE, !.ok = TRUE]
    OBVIOUS
  <1>2. /\ Sound(e) /\ e.last = mem.last /\ e.tape = mem.tape /\ e.positions = mem.positions
    BY <1>1 DEF TapeInv, AliveInv, IInv, Sound, Engine, Flat
  <1>3. Same(e, mem')
    BY <1>1, <1>2, SyncSound DEF RepairDone, TapeInv, AliveInv, IInv, RestOK
  <1>4. mem'.last = mem.last /\ mem'.tape = mem.tape /\ mem'.positions = mem.positions
    BY <1>2, <1>3 DEF Same
  <1>5. Seen(mem')
    BY <1>4, SeenSame DEF TapeInv
  <1>6. pc = "replay" /\ pc' = "persist" /\ work' = work
    BY DEF RepairDone
  <1>7. ASSUME work.symbol # None PROVE work.end = mem.last[work.symbol] + 1
    <2>1. PICK s \in Symbols : s = work.symbol
      BY <1>7 DEF TapeInv, AliveInv, IInv, RestOK, Work
    <2>2. work.start <= mem.last[s] + 1 /\ mem.last[s] < work.end
      BY <1>6, <1>7, <2>1 DEF TapeInv, WindowsOK
    <2>3. ~(WindowStart(mem, s, work.start) < work.end)
      BY <1>6 DEF RepairDone, Missing
    <2>4. mem.last[s] \in Nat /\ work.start \in Nat /\ work.end \in Nat
      BY DEF TapeInv, AliveInv, IInv, Sound, Engine, RestOK, Work
    <2> QED BY <2>1, <2>2, <2>3, <2>4 DEF WindowStart
  <1>8. WindowsOK'
    BY <1>4, <1>6, <1>7 DEF WindowsOK
  <1> QED BY <1>4, <1>5, <1>8

\* A resumption forgets the last bars only of a desk that is flat.
LEMMA ResumedTape ==
  ASSUME TapeInv, NEW from, NEW allowed, Resumable(from, allowed), NEW e, Sound(e), e.seq = mem.seq,
         e.gapRepaired = mem.gapRepaired, Seen(e), Resumed(e)
  PROVE  Seen(mem)' /\ WindowsOK'
  <1>1. "PAPER_RUNNING" \in PaperStates
    BY DEF PaperStates
  <1>2. Same(e, mem')
    BY <1>1, CommitSound DEF Resumed, TapeInv, AliveInv, IInv, RestOK
  <1>3. Seen(mem')
    BY <1>2, SeenSame DEF Same
  <1>4. work' = work /\ work.symbol = None /\ pc' = "persist"
    BY DEF Resumed, Resumable, TapeInv, AliveInv, IInv, WorkOK
  <1>5. WindowsOK'
    BY <1>4 DEF WindowsOK
  <1> QED BY <1>3, <1>5
LEMMA RepairGapsTape ==
  ASSUME TapeInv, RepairGaps
  PROVE  Seen(mem)' /\ WindowsOK'
  <1>1. Sound(mem) /\ LedgerOK /\ now \in Minutes
    BY DEF TapeInv, AliveInv, IInv, RestOK
  <1>2. CASE EnterDataGap(mem)
    <2>1. Same(Gapped(mem), mem') /\ pc' = "persist" /\ work' = Idle
      BY <1>1, <1>2, EnterDataGapSound
    <2>2. /\ Gapped(mem).last = mem.last /\ Gapped(mem).tape = mem.tape
          /\ Gapped(mem).positions = mem.positions
      BY <1>1 DEF Gapped, Sound, Engine
    <2> QED BY <2>1, <2>2, QuietTape DEF Same, Idle
  <1>3. CASE /\ pc' = "replay" /\ work' = [symbol |-> None, start |-> FirstMissing, end |-> now]
             /\ UNCHANGED <<mem, ledger, gapOpen>>
    <2>1. PICK start : start = FirstMissing
      OBVIOUS
    <2>2. PICK x \in Symbols : start = mem.tape[x] + 1 /\ mem.tape[x] \in 0..MaxMinute
      BY <1>1, <2>1, FirstMissingOfSome
    <2>3. mem' = mem /\ work'.start = start /\ work'.symbol = None
      BY <1>3, <2>1
    <2>4. work'.start <= mem'.tape[x] + 1
      BY <2>2, <2>3
    <2>5. WindowsOK'
      BY <1>3, <2>3, <2>4 DEF WindowsOK
    <2>6. Seen(mem')
      BY <2>3 DEF TapeInv
    <2> QED BY <2>5, <2>6
  <1> QED BY <1>2, <1>3 DEF RepairGaps

LEMMA QueueSignalTape ==
  ASSUME TapeInv, NEW s \in Symbols, QueueSignal(s)
  PROVE  Seen(mem)' /\ WindowsOK'
  <1>1. PICK e : e = CheckFreshness(mem)
    OBVIOUS
  <1>2. Sound(e) /\ Kept(mem, e) /\ e.positions \subseteq mem.positions
    BY <1>1, CheckFreshnessShrinks DEF TapeInv, AliveInv, IInv, Shrinks
  <1>3. mem' = e \/ mem' = [e EXCEPT !.pending[s] = now]
    BY <1>1 DEF QueueSignal
  <1>4. mem'.last = mem.last /\ mem'.tape = mem.tape /\ mem'.positions \subseteq mem.positions
    BY <1>2, <1>3 DEF Kept, Sound, Engine
  <1>5. pc' = pc /\ work' = work
    BY DEF QueueSignal
  <1> QED BY <1>4, <1>5, QuietTape

LEMMA ResumptionsTape ==
  ASSUME TapeInv, ResumeDaily \/ ResumeMdd \/ ResumeDataGap
  PROVE  Seen(mem)' /\ WindowsOK'
  <1>1. Sound(mem)
    BY DEF TapeInv, AliveInv, IInv
  <1>2. ASSUME NEW e, Sound(e), e.seq = mem.seq, e.gapRepaired = mem.gapRepaired,
               e.positions = mem.positions, \A s \in Symbols : e.last[s] = 0, Resumed(e),
               NEW from \in {"PAPER_DAILY_PAUSED", "PAPER_MDD_HALTED"},
               NEW allowed, Resumable(from, allowed)
        PROVE  Seen(mem)' /\ WindowsOK'
    <2>1. status = from
      BY <1>2, ResumedAlive DEF TapeInv
    <2>2. mem.positions = {}
      BY <1>2, <2>1 DEF TapeInv, AliveInv, StopFlat, Flat
    <2>3. Seen(e)
      BY <1>2, <2>2 DEF Seen
    <2> QED BY <1>2, <2>3, ResumedTape
  <1>3. CASE ResumeDaily
    <2>1. PICK e : e = [mem EXCEPT !.paused = FALSE, !.last = [s \in Symbols |-> 0], !.ok = TRUE]
      OBVIOUS
    <2>2. Sound(e) /\ e.seq = mem.seq /\ e.gapRepaired = mem.gapRepaired
      BY <1>1, <2>1, ResumptionsKeep
    <2>3. e.positions = mem.positions /\ \A s \in Symbols : e.last[s] = 0
      BY <1>1, <2>1 DEF Sound, Engine
    <2> QED BY <1>2, <1>3, <2>1, <2>2, <2>3 DEF ResumeDaily
  <1>4. CASE ResumeMdd
    <2>1. PICK e : e = [mem EXCEPT !.halted = FALSE, !.paused = FALSE, !.costs = FALSE,
                                   !.last = [s \in Symbols |-> 0], !.ok = TRUE]
      OBVIOUS
    <2>2. Sound(e) /\ e.seq = mem.seq /\ e.gapRepaired = mem.gapRepaired
      BY <1>1, <2>1, ResumptionsKeep
    <2>3. e.positions = mem.positions /\ \A s \in Symbols : e.last[s] = 0
      BY <1>1, <2>1 DEF Sound, Engine
    <2> QED BY <1>2, <1>4, <2>1, <2>2, <2>3 DEF ResumeMdd
  <1>5. CASE ResumeDataGap
    <2>1. PICK e : e = [mem EXCEPT !.unrepaired = FALSE, !.engine = "PAPER_RUNNING", !.ok = TRUE]
      OBVIOUS
    <2>2. Sound(e) /\ e.seq = mem.seq /\ e.gapRepaired = mem.gapRepaired
      BY <1>1, <2>1, ResumptionsKeep
    <2>3. e.positions = mem.positions /\ e.last = mem.last /\ e.tape = mem.tape
      BY <1>1, <2>1 DEF Sound, Engine
    <2>4. Seen(e)
      BY <2>3, SeenSame DEF TapeInv
    <2> QED BY <1>5, <2>1, <2>2, <2>4, ResumedTape DEF ResumeDataGap
  <1> QED BY <1>3, <1>4, <1>5

LEMMA StepTape == ASSUME MaxCrashes = 0, TapeInv, [Next]_vars PROVE TapeInv'
  <1>1. AliveInv'
    BY StepAlive DEF TapeInv
  <1>2. Seen(mem)' /\ WindowsOK'
    <2>1. CASE \E s \in Symbols, m \in {now - 1, now} \ {0} : ProcessBar(s, m)
      BY <2>1, ProcessBarTape
    <2>2. CASE LiveBar \/ RepairDone
      BY <2>2, LiveBarTape, RepairDoneTape
    <2>3. CASE RepairGaps
      BY <2>3, RepairGapsTape
    <2>4. CASE \E s \in Symbols : ReplayBar(s)
      BY <2>4, ReplayBarTape
    <2>5. CASE \E s \in Symbols : QueueSignal(s)
      BY <2>5, QueueSignalTape
    <2>6. CASE ResumeDaily \/ ResumeMdd \/ ResumeDataGap
      BY <2>6, ResumptionsTape
    <2>7. CASE ResumeRefused
      <3>1. mem'.last = mem.last /\ mem'.tape = mem.tape /\ mem'.positions = mem.positions
        BY <2>7 DEF ResumeRefused, TapeInv, AliveInv, IInv, Sound, Engine
      <3> QED BY <2>7, <3>1, QuietTape DEF ResumeRefused
    <2>8. CASE \/ \E x \in Symbols \union {"account"} : FeedUpdate(x)
               \/ Tick
               \/ UNCHANGED vars
      BY <2>8, QuietTape DEF FeedUpdate, Tick, vars
    <2>9. CASE Persist
      BY <2>9, QuietTape DEF Persist
    <2>10. ~Restart
      BY DEF Restart, TapeInv, AliveInv
    <2> QED BY <2>1, <2>2, <2>3, <2>4, <2>5, <2>6, <2>7, <2>8, <2>9, <2>10 DEF Next
  <1> QED BY <1>1, <1>2 DEF TapeInv

LEMMA InitTape == Init => TapeInv
  <1> SUFFICES ASSUME Init PROVE TapeInv
    OBVIOUS
  <1>1. Seen(mem)
    BY DEF Init, NewEngine, Seen
  <1>2. WindowsOK
    BY DEF Init, WindowsOK
  <1> QED BY <1>1, <1>2, InitAlive DEF TapeInv

\* While the process lives, a position of the symbol no other is ahead of sees
\* every minute, through live bars, repairs and resumptions.
THEOREM LeaderSeesAll == ASSUME MaxCrashes = 0 PROVE Spec => LeaderSkipsNoMinute
  <1> DEFINE LeaderStep ==
        \A s \in Symbols :
          (/\ s \in mem.positions /\ mem'.tape[s] # mem.tape[s] /\ pc \in {"bar", "replay"}
           /\ pc' # "idle" /\ \A x \in Symbols : mem.tape[x] <= mem.tape[s])
          => mem'.tape[s] = mem.tape[s] + 1
  <1>1. TapeInv /\ [Next]_vars => [LeaderStep]_vars
    <2> SUFFICES ASSUME TapeInv, [Next]_vars, NEW s \in Symbols, s \in mem.positions,
                        mem'.tape[s] # mem.tape[s], pc \in {"bar", "replay"}, pc' # "idle",
                        \A x \in Symbols : mem.tape[x] <= mem.tape[s]
                 PROVE  mem'.tape[s] = mem.tape[s] + 1
      OBVIOUS
    <2>1. /\ Sound(mem) /\ RestOK /\ WorkOK
          /\ mem.last[s] = mem.tape[s] /\ mem.last[s] # 0
      BY DEF TapeInv, AliveInv, IInv, Seen
    <2>2. CASE LiveBar
      <3>1. /\ work.symbol \in Symbols /\ mem'.tape[work.symbol] = work.end
            /\ \A x \in Symbols : x # work.symbol => mem'.tape[x] = mem.tape[x]
        BY <2>2, LiveBarTape
      <3>2. work.symbol = s /\ mem'.tape[s] = work.end /\ s # None
        BY <3>1 DEF TapeInv, AliveInv, IInv, RestOK, WorkOK, LiveBar, PaperAssumption
      <3> QED BY <2>1, <2>2, <3>2 DEF TapeInv, WindowsOK, LiveBar
    <2>3. CASE \E q \in Symbols : ReplayBar(q)
      <3>1. PICK q \in Symbols : ReplayBar(q)
        BY <2>3
      <3>2. /\ mem'.tape[q] = WindowStart(mem, q, work.start)
            /\ \A x \in Symbols : x # q => mem'.tape[x] = mem.tape[x]
        BY <3>1, ReplayBarTape
      <3>3. q = s
        BY <3>2
      <3>4. PICK m : m = WindowStart(mem, s, work.start)
        OBVIOUS
      <3>5. /\ m \in Minutes /\ m >= mem.last[s] + 1
            /\ m \in {mem.last[s] + 1, work.start}
        BY <2>1, <3>1, <3>3, <3>4, WindowInRange DEF ReplayBar
      <3>6. PICK x \in Symbols : work.start <= mem.tape[x] + 1
        BY <3>1 DEF ReplayBar, Missing, TapeInv, WindowsOK
      <3>7. /\ mem.tape[x] <= mem.tape[s]
            /\ mem.tape[x] \in Nat /\ mem.tape[s] \in Nat /\ work.start \in Nat /\ m \in Nat
        BY <2>1, <3>5 DEF Sound, Engine, RestOK, Work, Minutes
      <3> QED BY <2>1, <3>2, <3>3, <3>4, <3>5, <3>6, <3>7
    <2>4. CASE RepairDone
      BY <2>4, RepairDoneTape
    <2>5. CASE UNCHANGED vars
      BY <2>5 DEF vars
    <2> QED BY <2>2, <2>3, <2>4, <2>5 DEF Next, ProcessBar, RepairGaps, Persist, QueueSignal,
         ResumeDaily, ResumeMdd, ResumeDataGap, Resumable, ResumeRefused, FeedUpdate, Tick, Restart
  <1>2. ASSUME MaxCrashes = 0 PROVE Spec => []TapeInv
    BY <1>2, InitTape, StepTape, PTL DEF Spec
  <1> QED BY <1>1, <1>2, PTL DEF Spec, LeaderSkipsNoMinute
=============================================================================
