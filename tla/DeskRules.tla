----------------------------- MODULE DeskRules -----------------------------
(***************************************************************************)
(* The transition table of the trading desk: which lifecycle edges of a    *)
(* strategy run are legal, and what each of them costs or requires.  It is *)
(* the constant part of the state machine; DeskState, ResearchLoop and     *)
(* PaperEngine all read it.                                                *)
(***************************************************************************)

CONSTANT None          \* the absence of a row, a state or a payload

PaperStates == {"PAPER_RUNNING", "PAPER_DAILY_PAUSED",
                "PAPER_MDD_HALTED", "PAPER_DATA_GAP"}

ResearchStates == {"DRAFT", "DEVELOPMENT_RUNNING", "RUN_ERROR", "DATA_BLOCKED",
                   "ANALYSIS_READY", "MUTATION_PROPOSED"}

\* The states only a run that entered its sealed out-of-sample evaluation has.
SealedStates == {"OOS_RUNNING", "REJECTED", "READY_FOR_PAPER"} \union PaperStates

States == ResearchStates \union SealedStates

\* Mutant: what happens on paper is not mirrored.
MirroredReadyOnly == {"READY_FOR_PAPER"}
\* The states that paper_state.status mirrors.
MirroredStates == PaperStates \union {"READY_FOR_PAPER"}

\* The legal edges; None stands for a run that has no transition row yet.
RULES ==
  { <<None, "DRAFT">>,
    <<"DRAFT", "DEVELOPMENT_RUNNING">>,
    <<"DEVELOPMENT_RUNNING", "RUN_ERROR">>,
    <<"DEVELOPMENT_RUNNING", "DATA_BLOCKED">>,
    <<"RUN_ERROR", "DEVELOPMENT_RUNNING">>,
    <<"DATA_BLOCKED", "DEVELOPMENT_RUNNING">>,
    <<"DEVELOPMENT_RUNNING", "ANALYSIS_READY">>,
    <<"ANALYSIS_READY", "MUTATION_PROPOSED">>,
    <<"DEVELOPMENT_RUNNING", "OOS_RUNNING">>,
    <<"OOS_RUNNING", "REJECTED">>,
    <<"OOS_RUNNING", "READY_FOR_PAPER">>,
    <<"READY_FOR_PAPER", "PAPER_RUNNING">>,
    <<"PAPER_RUNNING", "PAPER_DAILY_PAUSED">>,
    <<"PAPER_DAILY_PAUSED", "PAPER_RUNNING">>,
    <<"PAPER_RUNNING", "PAPER_MDD_HALTED">>,
    <<"PAPER_MDD_HALTED", "PAPER_RUNNING">>,
    <<"PAPER_RUNNING", "PAPER_DATA_GAP">>,
    <<"PAPER_DATA_GAP", "PAPER_RUNNING">> }

\* Mutant: the sealed budget is charged on rejection.
SpendsOosOnVerdict(to) == to = "REJECTED"
\* Edges that consume a unit of the family's performance budget, of its
\* sealed out-of-sample budget.
SpendsPerformance(to) == to \in {"ANALYSIS_READY", "OOS_RUNNING"}
SpendsOos(to) == to = "OOS_RUNNING"

\* The owner's action an edge requires, None for an edge that needs no approval.
ApprovalAction(from, to) ==
  IF to # "PAPER_RUNNING" THEN None
  ELSE CASE from = "READY_FOR_PAPER"  -> "start_paper"
         [] from = "PAPER_MDD_HALTED" -> "resume_mdd"
         [] from = "PAPER_DATA_GAP"   -> "resume_data_gap"
         [] OTHER                     -> None

RequiresRepaired(from, to) == from = "PAPER_DATA_GAP" /\ to = "PAPER_RUNNING"
RequiresNextDay(from, to) == from = "PAPER_DAILY_PAUSED" /\ to = "PAPER_RUNNING"

\* Mutant: the data gap raises no alert.
AlertsMddOnly == {"PAPER_MDD_HALTED"}
\* Entering one of these enqueues an alert for the owner.
AlertStates == {"PAPER_MDD_HALTED", "PAPER_DATA_GAP"}

APPROVAL_ACTIONS == {"start_paper", "resume_mdd", "resume_data_gap"}
APPROVE_NEW_FAMILY == "approve_new_family"
=============================================================================
