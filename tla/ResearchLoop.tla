---------------------------- MODULE ResearchLoop ----------------------------
(***************************************************************************)
(* The research workflow: concurrent callers of run_development_cycle,      *)
(* run_sealed_oos and propose_successor_mutation over one database and one  *)
(* artifact store.  A call reads the run's state outside any transaction,   *)
(* evaluates, commits a transition, and then stores what the transition was *)
(* about; its process may die before each of these, and nothing takes up a  *)
(* development cycle again.                                                 *)
(*                                                                          *)
(* Every caller keys its transitions <run>:<target>, so a run takes each    *)
(* target once through this workflow and taking it again is silent.  Each   *)
(* run has a version of its own; evaluations are abstracted to their        *)
(* verdicts, and the sealed evidence of a run gives one verdict however     *)
(* often it is evaluated.                                                   *)
(***************************************************************************)
EXTENDS DeskRules, Integers, FiniteSets

CONSTANTS
  Callers, Families, Runs,
  MaxPerf,             \* performance budget of a family (8 in the code)
  MaxErrors,           \* bound on technical failures of the sealed evaluation
  MaxCrashes           \* bound on callers that die

ASSUME LoopAssumption ==
  /\ None \notin Families \union Runs \union States
  /\ MaxPerf \in Nat \ {0} /\ MaxErrors \in Nat /\ MaxCrashes \in Nat

VARIABLES
  families,            \* rows of families
  runFamily,           \* runs, by their version's family
  state, taken,        \* a run's last to_state, the targets of its keyed rows
  perfUsed, oosUsed,   \* budgets
  stored,              \* kinds of artifacts stored of a run
  requested,           \* runs with an analysis_request row
  pc, job,             \* a caller's next step and the run it works on
  outcome,             \* history: what a run's sealed evidence has shown
  errors, crashes

budgets == <<perfUsed, oosUsed>>
lifecycle == <<state, taken, budgets>>
caller == <<pc, job>>
vars == <<families, runFamily, lifecycle, stored, requested, caller, outcome,
          errors, crashes>>

\* Mutant: a second sealed evaluation.
MaxOosTwice == 2
\* max_oos_evaluations
MaxOos == 1

Steps == {"idle", "draft", "develop", "check", "evaluate", "persist_fail", "request",
          "persist_pass", "oos", "unseal", "verdict", "persist_oos", "propose",
          "persist_mutation"}
Kinds == {"development", "oos", "mutation"}

RejectedFamilies == {runFamily[r] : r \in {x \in Runs : state[x] = "REJECTED"}}

Init ==
  /\ families = {} /\ runFamily = [r \in Runs |-> None]
  /\ state = [r \in Runs |-> None] /\ taken = [r \in Runs |-> {}]
  /\ perfUsed = [f \in Families |-> 0] /\ oosUsed = [f \in Families |-> 0]
  /\ stored = [r \in Runs |-> {}] /\ requested = {}
  /\ pc = [p \in Callers |-> "idle"] /\ job = [p \in Callers |-> None]
  /\ outcome = [r \in Runs |-> None]
  /\ errors = 0 /\ crashes = 0
-----------------------------------------------------------------------------
(* _step: transition() keyed by run and target *)

\* _consume_budget's check for every kind an edge spends.
BudgetLeft(f, to) ==
  /\ SpendsPerformance(to) => perfUsed[f] < MaxPerf
  /\ SpendsOos(to) => oosUsed[f] < MaxOos

Legal(r, to) == <<state[r], to>> \in RULES /\ BudgetLeft(runFamily[r], to)

\* The key is new and the edge legal and affordable.
Take(r, to) ==
  LET f == runFamily[r]
  IN /\ to \notin taken[r] /\ Legal(r, to)
     /\ state' = [state EXCEPT ![r] = to]
     /\ taken' = [taken EXCEPT ![r] = @ \union {to}]
     /\ perfUsed' = IF SpendsPerformance(to) THEN [perfUsed EXCEPT ![f] = @ + 1] ELSE perfUsed
     /\ oosUsed' = IF SpendsOos(to) THEN [oosUsed EXCEPT ![f] = @ + 1] ELSE oosUsed

\* The key exists: the call returns and nothing happens.
Repeat(r, to) == to \in taken[r] /\ UNCHANGED lifecycle

Goto(p, step) == pc' = [pc EXCEPT ![p] = step] /\ UNCHANGED job

\* The call returns or raises to its caller.
Leave(p) ==
  /\ pc' = [pc EXCEPT ![p] = "idle"] /\ job' = [job EXCEPT ![p] = None]

\* One _step of caller p towards `to`: taken or repeated it goes on to `next`,
\* refused it raises out of the call.
Step(p, to, next) ==
  LET r == job[p]
  IN \/ (Take(r, to) \/ Repeat(r, to)) /\ (IF next = "idle" THEN Leave(p) ELSE Goto(p, next))
     \/ to \notin taken[r] /\ ~Legal(r, to) /\ UNCHANGED lifecycle /\ Leave(p)

Rest == <<families, runFamily, stored, requested, outcome, errors, crashes>>
-----------------------------------------------------------------------------
(* run_development_cycle *)

\* The family (an existing one, or a new one while none is rejected), the
\* version and the run are registered.
Begin(p, r, f) ==
  /\ pc[p] = "idle" /\ runFamily[r] = None
  /\ f \in families \/ RejectedFamilies = {}
  /\ families' = families \union {f}
  /\ runFamily' = [runFamily EXCEPT ![r] = f]
  /\ pc' = [pc EXCEPT ![p] = "draft"] /\ job' = [job EXCEPT ![p] = r]
  /\ UNCHANGED <<lifecycle, stored, requested, outcome, errors, crashes>>

Draft(p) == pc[p] = "draft" /\ Step(p, "DRAFT", "develop") /\ UNCHANGED Rest
Develop(p) == pc[p] = "develop" /\ Step(p, "DEVELOPMENT_RUNNING", "check") /\ UNCHANGED Rest

\* Invalid data, a raising backtest, or a technical error of the evaluation.
TechnicalFailure(p) ==
  /\ pc[p] \in {"check", "evaluate"}
  /\ \E to \in {"RUN_ERROR", "DATA_BLOCKED"} : Step(p, to, "idle")
  /\ UNCHANGED Rest

\* The data is good and the backtest ran; the budget, read here for the trial
\* count of this evaluation, plays no part in its control.
Backtest(p) == pc[p] = "check" /\ Goto(p, "evaluate") /\ UNCHANGED <<lifecycle, Rest>>

\* A perturbed or leave-one-out backtest raises outside every handler.
RobustnessRaises(p) ==
  /\ pc[p] = "evaluate"
  /\ Leave(p) /\ UNCHANGED <<lifecycle, Rest>>

\* The failure is charged to the budget by the transition, or raises with it.
DevelopmentFails(p) ==
  /\ pc[p] = "evaluate"
  /\ Step(p, "ANALYSIS_READY", "persist_fail")
  /\ UNCHANGED <<families, runFamily, stored, requested, outcome, errors, crashes>>

Store(p, kind) == stored' = [stored EXCEPT ![job[p]] = @ \union {kind}]
Storing == <<families, runFamily, lifecycle, requested, outcome,
             errors, crashes>>

PersistFailure(p) ==
  pc[p] = "persist_fail" /\ Store(p, "development") /\ Goto(p, "request")
  /\ UNCHANGED Storing

RequestAnalysis(p) ==
  /\ pc[p] = "request"
  /\ requested' = requested \union {job[p]} /\ Leave(p)
  /\ UNCHANGED <<families, runFamily, lifecycle, stored, outcome,
                 errors, crashes>>

\* Mutant: on to the seal at once, the bundle is stored afterwards.
DevelopmentPassesUnstored(p) ==
  /\ pc[p] = "evaluate" /\ Goto(p, "oos")
  /\ UNCHANGED <<families, runFamily, lifecycle, stored, requested, outcome,
                 errors, crashes>>
\* The pass is not a state of its own: the run stays DEVELOPMENT_RUNNING.
DevelopmentPasses(p) ==
  /\ pc[p] = "evaluate" /\ Goto(p, "persist_pass")
  /\ UNCHANGED <<families, runFamily, lifecycle, stored, requested, outcome,
                 errors, crashes>>

\* With the sealed evidence at hand the cycle goes on to it, without it raises.
PersistPass(p) ==
  /\ pc[p] = "persist_pass" /\ Store(p, "development")
  /\ Goto(p, "oos") \/ Leave(p)
  /\ UNCHANGED Storing
-----------------------------------------------------------------------------
(* run_sealed_oos *)

\* Called on its own to retry: recovery.md allows it for a run found OOS_RUNNING.
RetryOos(p, r) ==
  /\ pc[p] = "idle" /\ state[r] = "OOS_RUNNING"
  /\ pc' = [pc EXCEPT ![p] = "oos"] /\ job' = [job EXCEPT ![p] = r]
  /\ UNCHANGED <<lifecycle, Rest>>

\* Mutant: a run found OOS_RUNNING is refused.
ReadStateNoRetry(p) ==
  /\ pc[p] = "oos"
  /\ IF state[job[p]] = "DEVELOPMENT_RUNNING" THEN Goto(p, "unseal") ELSE Leave(p)
  /\ UNCHANGED <<lifecycle, Rest>>
\* _current_state, read before and outside the transition.
ReadState(p) ==
  /\ pc[p] = "oos"
  /\ CASE state[job[p]] = "DEVELOPMENT_RUNNING" -> Goto(p, "unseal")
       [] state[job[p]] = "OOS_RUNNING"         -> Goto(p, "verdict")
       [] OTHER                                 -> Leave(p)
  /\ UNCHANGED <<lifecycle, Rest>>

\* Mutant: an unaffordable unsealing is passed over.
UnsealAnyway(p) ==
  /\ pc[p] = "unseal"
  /\ \/ Take(job[p], "OOS_RUNNING") \/ Repeat(job[p], "OOS_RUNNING")
     \/ ~Legal(job[p], "OOS_RUNNING") /\ UNCHANGED lifecycle
  /\ Goto(p, "verdict") /\ UNCHANGED Rest
\* The unsealing is charged and committed, or raises.
Unseal(p) == pc[p] = "unseal" /\ Step(p, "OOS_RUNNING", "verdict") /\ UNCHANGED Rest

\* A technical failure leaves the run OOS_RUNNING for a retry.
SealedError(p) ==
  /\ pc[p] = "verdict" /\ errors < MaxErrors
  /\ errors' = errors + 1 /\ Leave(p)
  /\ UNCHANGED <<families, runFamily, lifecycle, stored, requested, outcome, crashes>>

EvaluateSealed(p) ==
  /\ pc[p] = "verdict"
  /\ \E to \in {"READY_FOR_PAPER", "REJECTED"} :
       /\ outcome[job[p]] \in {None, to}
       /\ outcome' = [outcome EXCEPT ![job[p]] = to]
       /\ Step(p, to, "persist_oos")
  /\ UNCHANGED <<families, runFamily, stored, requested, errors, crashes>>

PersistOos(p) ==
  pc[p] = "persist_oos" /\ Store(p, "oos") /\ Leave(p) /\ UNCHANGED Storing
-----------------------------------------------------------------------------
(* propose_successor_mutation, by whoever holds the failed cycle's result *)

BeginProposal(p, r) ==
  /\ pc[p] = "idle" /\ r \in requested /\ state[r] = "ANALYSIS_READY"
  /\ pc' = [pc EXCEPT ![p] = "propose"] /\ job' = [job EXCEPT ![p] = r]
  /\ UNCHANGED <<lifecycle, Rest>>

Propose(p) ==
  pc[p] = "propose" /\ Step(p, "MUTATION_PROPOSED", "persist_mutation") /\ UNCHANGED Rest

PersistMutation(p) ==
  pc[p] = "persist_mutation" /\ Store(p, "mutation") /\ Leave(p) /\ UNCHANGED Storing
-----------------------------------------------------------------------------
(* Environment *)

\* The operator's technical rerun (recovery.md), under a key of its own.
Rerun(r) ==
  /\ state[r] \in {"RUN_ERROR", "DATA_BLOCKED"}
  /\ state' = [state EXCEPT ![r] = "DEVELOPMENT_RUNNING"]
  /\ UNCHANGED <<taken, budgets, caller, Rest>>

\* A caller dies; what it held is lost.
Crash(p) ==
  /\ pc[p] # "idle" /\ crashes < MaxCrashes
  /\ crashes' = crashes + 1 /\ Leave(p)
  /\ UNCHANGED <<families, runFamily, lifecycle, stored, requested, outcome, errors>>

\* The steps of a call that is under way.
CallStep(p) ==
  \/ Draft(p) \/ Develop(p) \/ TechnicalFailure(p) \/ Backtest(p) \/ RobustnessRaises(p)
  \/ DevelopmentFails(p) \/ PersistFailure(p) \/ RequestAnalysis(p)
  \/ DevelopmentPasses(p) \/ PersistPass(p)
  \/ ReadState(p) \/ Unseal(p) \/ SealedError(p) \/ EvaluateSealed(p) \/ PersistOos(p)
  \/ Propose(p) \/ PersistMutation(p)

Next ==
  \/ \E p \in Callers : CallStep(p)
  \/ \E p \in Callers, r \in Runs, f \in Families : Begin(p, r, f)
  \/ \E p \in Callers, r \in Runs : RetryOos(p, r)
  \/ \E p \in Callers, r \in Runs : BeginProposal(p, r)
  \/ \E r \in Runs : Rerun(r)
  \/ \E p \in Callers : Crash(p)

Spec == Init /\ [][Next]_vars

\* A call that is under way runs to its end unless its process dies, and a run
\* found OOS_RUNNING is retried, as recovery.md asks.
FairSpec ==
  /\ Spec
  /\ \A p \in Callers : WF_vars(CallStep(p))
  /\ \A r \in Runs : SF_vars(\E p \in Callers : RetryOos(p, r))
-----------------------------------------------------------------------------
(* Properties *)

\* Every variable stays in its domain.
TypeOK ==
  /\ families \subseteq Families /\ runFamily \in [Runs -> Families \union {None}]
  /\ state \in [Runs -> States \union {None}] /\ taken \in [Runs -> SUBSET States]
  /\ perfUsed \in [Families -> 0..MaxPerf] /\ oosUsed \in [Families -> 0..MaxOos]
  /\ stored \in [Runs -> SUBSET Kinds] /\ requested \subseteq Runs
  /\ pc \in [Callers -> Steps] /\ job \in [Callers -> Runs \union {None}]
  /\ outcome \in [Runs -> {None, "READY_FOR_PAPER", "REJECTED"}]
  /\ errors \in 0..MaxErrors /\ crashes \in 0..MaxCrashes

\* The sealed evidence of at most one run of a family is ever looked at, by any
\* number of callers, retries and crashes.
OneRunUnsealed ==
  \A r, s \in Runs :
    (outcome[r] # None /\ outcome[s] # None /\ runFamily[r] = runFamily[s]) => r = s

\* A run stands past the seal only with the bundle of its development pass in
\* the store, and its verdict, once there, is what the sealed evidence showed.
SealedRunHasEvidence ==
  \A r \in Runs :
    /\ state[r] \in SealedStates => "development" \in stored[r]
    /\ state[r] \in {"READY_FOR_PAPER", "REJECTED"} => state[r] = outcome[r]

\* An analysis request names a bundle that can be read.
RequestHasBundle == \A r \in requested : "development" \in stored[r]

\* A sealed evaluation that was entered comes to a verdict, if it is retried
\* after crashes and its technical failures come to an end.
OosEventuallyDecided ==
  \A r \in Runs :
    state[r] = "OOS_RUNNING" ~> state[r] \in {"READY_FOR_PAPER", "REJECTED"}

FamilyPhase ==
  [f \in Families |->
    LET sealed == {r \in Runs : runFamily[r] = f /\ state[r] \in SealedStates}
    IN IF f \notin families THEN "absent"
       ELSE IF sealed = {} THEN "research"
       ELSE CASE state[CHOOSE r \in sealed : TRUE] = "OOS_RUNNING" -> "oos"
              [] state[CHOOSE r \in sealed : TRUE] = "REJECTED"    -> "rejected"
              [] OTHER                                             -> "ready"]

Gate == INSTANCE FamilyGate WITH phase <- FamilyPhase, granted <- {}

\* The workflow, with all its callers, keeps the per-family gate.
ImplementsFamilyGate == Gate!GateSpec
=============================================================================
