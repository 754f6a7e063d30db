----------------------------- MODULE DeskState -----------------------------
(***************************************************************************)
(* The SQLite state of the trading desk and the operations that write it:  *)
(* strategy families with their budgets, immutable versions, runs, the     *)
(* append-only transition rows, the owner's approvals, the per-family      *)
(* paper status and the alert outbox rows.  Every action is one            *)
(* BEGIN IMMEDIATE transaction; an operation that raises rolls back and is *)
(* not a step.                                                             *)
(*                                                                         *)
(* Abstractions.  A run's eight content hashes are immutable, so an        *)
(* approval that names them names the run; naming other hashes is naming   *)
(* another run.  A transition's idempotency key is <<run, target, number>>,*)
(* the shape every caller under src/ gives it.  Time is counted in units   *)
(* of which UnitsPerDay make a UTC day; an approval lives one day.         *)
(***************************************************************************)
EXTENDS DeskRules, Integers, FiniteSets

CONSTANTS
  Families, Versions, Runs,
  KeyNumbers,          \* numbers that tell apart the keys of one run and target
  ApprovalKeys,        \* idempotency keys of approvals
  Actors, Allowlist,
  MaxPerf,             \* a family's performance budget (8 in the code)
  UnitsPerDay,
  MaxClock             \* bound on time

ASSUME ConstantsAssumption ==
  /\ None \notin Families \union Versions \union Runs \union States
  /\ Allowlist \subseteq Actors
  /\ MaxPerf \in Nat
  /\ UnitsPerDay \in Nat \ {0} /\ MaxClock \in Nat

VARIABLES
  families,            \* rows of families (each with its budgets row)
  perfUsed, oosUsed,   \* budgets.performance_evaluated_versions, .oos_evaluations
  versionFamily,       \* strategy_versions: the family of a registered version
  newest,              \* the last version registered in a family
  runVersion,          \* runs: the version a run was created for
  state,               \* to_state of a run's last transition row
  rows,                \* the transition rows, one per idempotency key
  approvals,           \* approvals by idempotency key
  paper, pausedAt,     \* paper_state.status and its payload's paused_at
  alerts,              \* alert outbox rows, by the transition that wrote them
  now

research == <<families, versionFamily, newest, runVersion>>
lifecycle == <<perfUsed, oosUsed, state, rows, paper, pausedAt, alerts>>
vars == <<research, lifecycle, approvals, now>>

\* Mutant: a second sealed evaluation.
MaxOosTwice == 2
\* max_oos_evaluations, which insert_family_row writes for every family.
MaxOos == 1

Time == 0..MaxClock
Day(t) == t \div UnitsPerDay
Key == [run : Runs, to : States, n : KeyNumbers]

\* What an approval command names: a run, or the pair of families of a retry.
RunCommand == [actor : Actors, action : APPROVAL_ACTIONS, object : Runs, at : Time]
FamilyCommand == [actor : Actors, action : {APPROVE_NEW_FAMILY},
                  object : Families \X Families, at : Time]
Command == RunCommand \union FamilyCommand

\* An approval that is absent is no command, and no action is absent.
ASSUME CommandsAssumption == None \notin Command /\ None \notin APPROVAL_ACTIONS

RegisteredRun(r) == runVersion[r] # None
FamilyOf(r) == versionFamily[runVersion[r]]
RunsOf(f) == {r \in Runs : RegisteredRun(r) /\ FamilyOf(r) = f}

\* family_ids_with_oos_rejection: families with a REJECTED transition row.
RejectedFamilies == {FamilyOf(k.run) : k \in {x \in rows : x.to = "REJECTED"}}

Init ==
  /\ families = {}
  /\ perfUsed = [f \in Families |-> 0] /\ oosUsed = [f \in Families |-> 0]
  /\ versionFamily = [v \in Versions |-> None]
  /\ newest = [f \in Families |-> None]
  /\ runVersion = [r \in Runs |-> None]
  /\ state = [r \in Runs |-> None]
  /\ rows = {} /\ alerts = {}
  /\ approvals = [a \in ApprovalKeys |-> None]
  /\ paper = [f \in Families |-> None] /\ pausedAt = [f \in Families |-> 0]
  /\ now = 0
-----------------------------------------------------------------------------
(* Families, versions and runs *)

\* Mutant: the rejection gate is missing.
CreateFamilyUngated(f) ==
  /\ f \notin families
  /\ families' = families \union {f}
  /\ UNCHANGED <<versionFamily, newest, runVersion, lifecycle, approvals, now>>
\* Database.create_family: refused for good once any family was rejected.
CreateFamily(f) ==
  /\ f \notin families
  /\ RejectedFamilies = {}
  /\ families' = families \union {f}
  /\ UNCHANGED <<versionFamily, newest, runVersion, lifecycle, approvals, now>>

\* Mutant: registering again moves the version to another family.
RegisterVersionOverwrites(v, f) ==
  /\ f \in families
  /\ versionFamily' = [versionFamily EXCEPT ![v] = f]
  /\ newest' = [newest EXCEPT ![f] = v]
  /\ UNCHANGED <<families, runVersion, lifecycle, approvals, now>>
\* Database.register_version: a version id is immutable; registering it
\* again with the same content changes nothing.
RegisterVersion(v, f) ==
  /\ f \in families
  /\ versionFamily[v] = None
  /\ versionFamily' = [versionFamily EXCEPT ![v] = f]
  /\ newest' = [newest EXCEPT ![f] = v]
  /\ UNCHANGED <<families, runVersion, lifecycle, approvals, now>>

\* Database.create_run: a fresh run id for a registered version.
CreateRun(r, v) ==
  /\ ~RegisteredRun(r)
  /\ versionFamily[v] # None
  /\ runVersion' = [runVersion EXCEPT ![r] = v]
  /\ UNCHANGED <<families, versionFamily, newest, lifecycle, approvals, now>>
-----------------------------------------------------------------------------
(* Approvals *)

\* _validate_envelope: allowlisted, not from the future, younger than a day.
ValidEnvelope(c) ==
  /\ c.at <= now
  /\ now - c.at < UnitsPerDay
  /\ c.actor \in Allowlist

\* Mutant: no version is ever superseded.
NeverSuperseded(r) == FALSE
\* _reject_superseded: some version of the family is newer than the run's.
Superseded(r) == newest[FamilyOf(r)] # runVersion[r]

\* A key is free, or already holds this very command (an idempotent replay).
Recordable(a, c) == approvals[a] \in {None, c}

\* validate_approval, for the run the command must name.
ValidApproval(a, c, r) ==
  /\ ValidEnvelope(c)
  /\ c.action \in APPROVAL_ACTIONS
  /\ c.object = r
  /\ RegisteredRun(r) /\ ~Superseded(r)
  /\ Recordable(a, c)

\* validate_approval called on its own: the approval is recorded, nothing moves.
RecordApproval(a, c) ==
  /\ ValidApproval(a, c, c.object)
  /\ approvals' = [approvals EXCEPT ![a] = c]
  /\ UNCHANGED <<research, lifecycle, now>>

\* approve_new_family: the approval row and the family row in one transaction.
\* A replay of the recorded command only re-inserts a family that is missing.
ApproveNewFamily(a, c) ==
  LET rejected == c.object[1]
      proposed == c.object[2]
  IN /\ ValidEnvelope(c)
     /\ rejected # proposed
     /\ rejected \in RejectedFamilies
     /\ Recordable(a, c)
     /\ proposed \notin families
     /\ approvals' = [approvals EXCEPT ![a] = c]
     /\ families' = families \union {proposed}
     /\ UNCHANGED <<versionFamily, newest, runVersion, lifecycle, now>>
-----------------------------------------------------------------------------
(* transition() *)

\* _consume_budget's check for every kind an edge spends.
BudgetLeft(f, to) ==
  /\ SpendsPerformance(to) => perfUsed[f] < MaxPerf
  /\ SpendsOos(to) => oosUsed[f] < MaxOos

\* _require_next_utc_day, on the paper_state row of the family.
NextUtcDay(f) == paper[f] = "PAPER_DAILY_PAUSED" /\ Day(now) > Day(pausedAt[f])

\* The writes of a legal transition of run r to state `to` under key number n.
Commit(r, to, n) ==
  LET f == FamilyOf(r)
      key == [run |-> r, to |-> to, n |-> n]
  IN /\ rows' = rows \union {key}
     /\ state' = [state EXCEPT ![r] = to]
     /\ perfUsed' = IF SpendsPerformance(to)
                    THEN [perfUsed EXCEPT ![f] = @ + 1] ELSE perfUsed
     /\ oosUsed' = IF SpendsOos(to) THEN [oosUsed EXCEPT ![f] = @ + 1] ELSE oosUsed
     /\ paper' = IF to \in MirroredStates THEN [paper EXCEPT ![f] = to] ELSE paper
     /\ pausedAt' = IF to = "PAPER_DAILY_PAUSED"
                    THEN [pausedAt EXCEPT ![f] = now] ELSE pausedAt
     /\ alerts' = IF to \in AlertStates THEN alerts \union {key} ELSE alerts
     /\ UNCHANGED <<research, now>>

\* The checks transition() makes on every edge.  A key already in rows either
\* returns without effect (same run and target) or raises; neither is a step.
Legal(r, to, n, repaired) ==
  /\ RegisteredRun(r)
  /\ [run |-> r, to |-> to, n |-> n] \notin rows
  /\ <<state[r], to>> \in RULES
  /\ RequiresRepaired(state[r], to) => repaired
  /\ RequiresNextDay(state[r], to) => NextUtcDay(FamilyOf(r))
  /\ BudgetLeft(FamilyOf(r), to)

\* Mutant: a transition that fails on its second budget keeps the charge of the first.
TransitionUnrolled(r, to, n) ==
  \/ /\ Legal(r, to, n, FALSE) /\ ApprovalAction(state[r], to) = None
     /\ Commit(r, to, n) /\ UNCHANGED approvals
  \/ /\ RegisteredRun(r) /\ <<state[r], to>> \in RULES
     /\ SpendsOos(to) /\ oosUsed[FamilyOf(r)] = MaxOos /\ perfUsed[FamilyOf(r)] < MaxPerf
     /\ perfUsed' = [perfUsed EXCEPT ![FamilyOf(r)] = @ + 1]
     /\ UNCHANGED <<research, oosUsed, state, rows, paper, pausedAt, alerts, approvals, now>>
\* transition() along an edge that needs no approval.
Transition(r, to, n) ==
  /\ Legal(r, to, n, FALSE)
  /\ ApprovalAction(state[r], to) = None
  /\ Commit(r, to, n)
  /\ UNCHANGED approvals

\* transition() along an edge that needs one: validated and recorded in the
\* same transaction.
ApprovedTransition(r, to, n, a, c, repaired) ==
  /\ Legal(r, to, n, repaired)
  /\ c.action = ApprovalAction(state[r], to)
  /\ ValidApproval(a, c, r)
  /\ approvals' = [approvals EXCEPT ![a] = c]
  /\ Commit(r, to, n)

\* Time passes (external: the UTC clock callers pass as now).
Tick ==
  /\ now < MaxClock
  /\ now' = now + 1
  /\ UNCHANGED <<research, lifecycle, approvals>>

Next ==
  \/ \E f \in Families : CreateFamily(f)
  \/ \E v \in Versions, f \in Families : RegisterVersion(v, f)
  \/ \E r \in Runs, v \in Versions : CreateRun(r, v)
  \/ \E a \in ApprovalKeys, c \in RunCommand : RecordApproval(a, c)
  \/ \E a \in ApprovalKeys, c \in FamilyCommand : ApproveNewFamily(a, c)
  \/ \E r \in Runs, to \in States, n \in KeyNumbers : Transition(r, to, n)
  \/ \E r \in Runs, n \in KeyNumbers, a \in ApprovalKeys, c \in RunCommand,
        repaired \in BOOLEAN :
       ApprovedTransition(r, "PAPER_RUNNING", n, a, c, repaired)
  \/ Tick

Spec == Init /\ [][Next]_vars
-----------------------------------------------------------------------------
(* Properties *)

\* Every variable stays in its domain.
TypeOK ==
  /\ families \subseteq Families
  /\ perfUsed \in [Families -> 0..MaxPerf] /\ oosUsed \in [Families -> 0..MaxOos]
  /\ versionFamily \in [Versions -> Families \union {None}]
  /\ newest \in [Families -> Versions \union {None}]
  /\ runVersion \in [Runs -> Versions \union {None}]
  /\ state \in [Runs -> States \union {None}]
  /\ rows \subseteq Key /\ alerts \subseteq Key
  /\ approvals \in [ApprovalKeys -> Command \union {None}]
  /\ paper \in [Families -> MirroredStates \union {None}]
  /\ pausedAt \in [Families -> Time] /\ now \in Time

RowsOf(f, targets) == {k \in rows : k.to \in targets /\ FamilyOf(k.run) = f}

\* The budgets row of a family counts exactly the evaluations in the
\* append-only rows, whatever rolled back, was replayed or failed technically
\* in between, so a technical error costs nothing.
BudgetsMatchRows ==
  \A f \in Families :
    /\ perfUsed[f] = Cardinality(RowsOf(f, {"ANALYSIS_READY", "OOS_RUNNING"}))
    /\ oosUsed[f] = Cardinality(RowsOf(f, {"OOS_RUNNING"}))

\* A run holds a state past the seal only if its family's single sealed
\* evaluation was its own: no two runs of a family, however interleaved, are
\* both past the seal.
OneSealedRunPerFamily ==
  \A r, s \in Runs :
    (/\ state[r] \in SealedStates /\ state[s] \in SealedStates
     /\ FamilyOf(r) = FamilyOf(s)) => r = s

\* paper_state, which carries one row per family, and the transition rows, which
\* are per run, never disagree about a family in paper trading.
PaperMatchesRun ==
  \A f \in Families :
    /\ paper[f] # None => \E r \in RunsOf(f) : state[r] = paper[f]
    /\ \A r \in RunsOf(f) : state[r] \in MirroredStates => paper[f] = state[r]

\* Out-of-sample rejection is terminal for the whole family: no run of it, of
\* this or of a later version, is ever ready for or in paper trading.
RejectedNeverPapers == \A f \in RejectedFamilies : paper[f] = None

\* A run trades on paper only after the owner approved the start of that run.
PaperWasApproved ==
  \A r \in Runs : state[r] \in PaperStates =>
    \E a \in ApprovalKeys :
      /\ approvals[a] # None
      /\ approvals[a].action = "start_paper" /\ approvals[a].object = r
      /\ approvals[a].actor \in Allowlist

\* Every halt that needs the owner has its alert row, and nothing else has.
HaltsAlerted ==
  alerts = {k \in rows : k.to \in {"PAPER_MDD_HALTED", "PAPER_DATA_GAP"}}

\* After a rejection a family appears only with the owner's approval naming it
\* and a rejected family.
FamilyAfterRejectionApproved ==
  [][\A f \in families' \ families :
       RejectedFamilies # {} =>
         \E a \in ApprovalKeys, g \in RejectedFamilies :
           /\ approvals'[a] # None
           /\ approvals'[a].object = <<g, f>>]_vars

\* A run comes back to PAPER_RUNNING from a halt only on a stored command of the
\* owner for that halt's kind, given within the last day, and only while its
\* version is the family's newest; from a daily pause only on a later UTC day.
ResumeControlled ==
  [][\A r \in Runs : (state'[r] = "PAPER_RUNNING" /\ state[r] # "PAPER_RUNNING") =>
       IF state[r] = "PAPER_DAILY_PAUSED"
       THEN Day(now) > Day(pausedAt[FamilyOf(r)])
       ELSE /\ newest[FamilyOf(r)] = runVersion[r]
            /\ \E a \in ApprovalKeys :
                 /\ approvals'[a] # None
                 /\ approvals'[a].action = ApprovalAction(state[r], "PAPER_RUNNING")
                 /\ approvals'[a].object = r
                 /\ now - approvals'[a].at < UnitsPerDay]_vars

\* The code's promise per family, in terms of FamilyGate.
PhaseOf(s) ==
  CASE s = "OOS_RUNNING"        -> "oos"
    [] s = "REJECTED"           -> "rejected"
    [] s = "READY_FOR_PAPER"    -> "ready"
    [] s = "PAPER_RUNNING"      -> "live"
    [] s = "PAPER_DAILY_PAUSED" -> "daily_paused"
    [] s = "PAPER_MDD_HALTED"   -> "mdd_halted"
    [] s = "PAPER_DATA_GAP"     -> "data_gap"

SealedRuns(f) == {r \in RunsOf(f) : state[r] \in SealedStates}

FamilyPhase ==
  [f \in Families |->
    IF f \notin families THEN "absent"
    ELSE IF SealedRuns(f) = {} THEN "research"
    ELSE PhaseOf(state[CHOOSE r \in SealedRuns(f) : TRUE])]

Granted ==
  {approvals[a].object : a \in {b \in ApprovalKeys :
     approvals[b] # None /\ approvals[b].action = APPROVE_NEW_FAMILY}}

Gate == INSTANCE FamilyGate WITH phase <- FamilyPhase, granted <- Granted

\* The database implements the per-family gate: one unsealing, a terminal
\* rejection, suspension only from live trading, retries by grant.
ImplementsFamilyGate == Gate!GateSpec
=============================================================================
