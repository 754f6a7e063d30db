-------------------------- MODULE DeskStateProofs --------------------------
(***************************************************************************)
(* Proofs about DeskState, for any families, versions, runs, keys and       *)
(* clock.  The inductive invariant IInv says why one paper_state row per    *)
(* family is enough: a run past the seal holds its family's only unit of    *)
(* the sealed budget.                                                       *)
(***************************************************************************)
EXTENDS DeskState, FiniteSetTheorems, TLAPS

\* A registered run's version is registered, in an existing family; a run that
\* has moved is registered.
ReferencesOK ==
  /\ \A v \in Versions : versionFamily[v] # None => versionFamily[v] \in families
  /\ \A r \in Runs : RegisteredRun(r) => versionFamily[runVersion[r]] # None
  /\ \A r \in Runs : state[r] # None => RegisteredRun(r)

\* A run past the seal has its family's sealed unit, and is the only such run.
SealHeld ==
  /\ \A r \in Runs : state[r] \in SealedStates => oosUsed[FamilyOf(r)] = MaxOos
  /\ OneSealedRunPerFamily

\* A REJECTED row is its run's last one.
RejectionTerminal == \A k \in rows : k.to = "REJECTED" => state[k.run] = "REJECTED"

IInv == TypeOK /\ ReferencesOK /\ SealHeld /\ PaperMatchesRun /\ RejectionTerminal

USE ConstantsAssumption DEF ConstantsAssumption

LEMMA InitTypeOK == Init => TypeOK
  BY DEF Init, TypeOK, Time, MaxOos

LEMMA CommandObject ==
  ASSUME NEW c \in Command
  PROVE  c.action \in APPROVAL_ACTIONS <=> c \in RunCommand
  BY DEF Command, RunCommand, FamilyCommand, APPROVAL_ACTIONS, APPROVE_NEW_FAMILY

\* One more unit on a budget below its limit is within the limit.
LEMMA ChargeInRange ==
  ASSUME NEW limit \in Nat, NEW used \in [Families -> 0..limit], NEW f, used[f] < limit
  PROVE  [used EXCEPT ![f] = @ + 1] \in [Families -> 0..limit]
  <1> SUFFICES ASSUME NEW g \in Families
               PROVE  [used EXCEPT ![f] = @ + 1][g] \in 0..limit
    OBVIOUS
  <1>1. used[g] \in 0..limit
    OBVIOUS
  <1>2. CASE g = f
    BY <1>1, <1>2
  <1>3. CASE g # f
    BY <1>1, <1>3
  <1> QED BY <1>2, <1>3

\* The writes of a legal transition stay in their domains.
LEMMA CommitTypeOK ==
  ASSUME TypeOK,
         NEW r \in Runs, NEW to \in States, NEW n \in KeyNumbers, NEW repaired,
         Legal(r, to, n, repaired), Commit(r, to, n)
  PROVE  /\ perfUsed' \in [Families -> 0..MaxPerf] /\ oosUsed' \in [Families -> 0..MaxOos]
         /\ state' \in [Runs -> States \union {None}]
         /\ rows' \subseteq Key /\ alerts' \subseteq Key
         /\ paper' \in [Families -> MirroredStates \union {None}]
         /\ pausedAt' \in [Families -> Time]
  <1> DEFINE f == FamilyOf(r)
  <1> DEFINE key == [run |-> r, to |-> to, n |-> n]
  <1>1. key \in Key
    BY DEF Key
  <1>2. rows' \subseteq Key /\ alerts' \subseteq Key
    BY <1>1 DEF Commit, TypeOK
  <1>3. state' \in [Runs -> States \union {None}]
    BY DEF Commit, TypeOK
  <1>4. perfUsed' \in [Families -> 0..MaxPerf]
    <2>1. CASE SpendsPerformance(to)
      <3>1. perfUsed[f] < MaxPerf /\ perfUsed' = [perfUsed EXCEPT ![f] = @ + 1]
        BY <2>1 DEF Commit, Legal, BudgetLeft
      <3> QED BY <3>1, ChargeInRange DEF TypeOK
    <2>2. CASE ~SpendsPerformance(to)
      BY <2>2 DEF Commit, TypeOK
    <2> QED BY <2>1, <2>2
  <1>5. oosUsed' \in [Families -> 0..MaxOos]
    <2>1. CASE SpendsOos(to)
      <3>1. oosUsed[f] < MaxOos /\ oosUsed' = [oosUsed EXCEPT ![f] = @ + 1]
        BY <2>1 DEF Commit, Legal, BudgetLeft
      <3> QED BY <3>1, ChargeInRange DEF TypeOK, MaxOos
    <2>2. CASE ~SpendsOos(to)
      BY <2>2 DEF Commit, TypeOK
    <2> QED BY <2>1, <2>2
  <1>6. paper' \in [Families -> MirroredStates \union {None}]
    BY DEF Commit, TypeOK
  <1>7. pausedAt' \in [Families -> Time]
    BY DEF Commit, TypeOK
  <1> QED BY <1>2, <1>3, <1>4, <1>5, <1>6, <1>7

LEMMA StepTypeOK == TypeOK /\ [Next]_vars => TypeOK'
  <1> SUFFICES ASSUME TypeOK, [Next]_vars PROVE TypeOK'
    OBVIOUS
  <1>1. ASSUME NEW f \in Families, CreateFamily(f) PROVE TypeOK'
    BY <1>1 DEF TypeOK, CreateFamily, lifecycle
  <1>2. ASSUME NEW v \in Versions, NEW f \in Families, RegisterVersion(v, f) PROVE TypeOK'
    BY <1>2 DEF TypeOK, RegisterVersion, lifecycle
  <1>3. ASSUME NEW r \in Runs, NEW v \in Versions, CreateRun(r, v) PROVE TypeOK'
    BY <1>3 DEF TypeOK, CreateRun, lifecycle
  <1>4. ASSUME NEW a \in ApprovalKeys, NEW c \in RunCommand, RecordApproval(a, c) PROVE TypeOK'
    BY <1>4 DEF TypeOK, RecordApproval, lifecycle, research, Command
  <1>5. ASSUME NEW a \in ApprovalKeys, NEW c \in FamilyCommand, ApproveNewFamily(a, c) PROVE TypeOK'
    <2>1. c.object[2] \in Families
      BY DEF FamilyCommand
    <2> QED BY <1>5, <2>1 DEF TypeOK, ApproveNewFamily, lifecycle, Command
  <1>6. ASSUME NEW r \in Runs, NEW to \in States, NEW n \in KeyNumbers, Transition(r, to, n)
        PROVE  TypeOK'
    <2>1. Legal(r, to, n, FALSE) /\ Commit(r, to, n)
      BY <1>6 DEF Transition
    <2>2. UNCHANGED <<approvals, research, now>>
      BY <1>6 DEF Transition, Commit
    <2> QED BY <2>1, <2>2, CommitTypeOK DEF TypeOK, research
  <1>7. ASSUME NEW r \in Runs, NEW n \in KeyNumbers, NEW a \in ApprovalKeys, NEW c \in RunCommand,
               NEW repaired \in BOOLEAN,
               ApprovedTransition(r, "PAPER_RUNNING", n, a, c, repaired)
        PROVE  TypeOK'
    <2>1. Legal(r, "PAPER_RUNNING", n, repaired) /\ Commit(r, "PAPER_RUNNING", n)
      BY <1>7 DEF ApprovedTransition
    <2>2. UNCHANGED <<research, now>> /\ approvals' \in [ApprovalKeys -> Command \union {None}]
      BY <1>7 DEF ApprovedTransition, Commit, TypeOK, Command
    <2>3. "PAPER_RUNNING" \in States
      BY DEF States, SealedStates, PaperStates
    <2> QED BY <2>1, <2>2, <2>3, CommitTypeOK DEF TypeOK, research
  <1>8. CASE Tick
    BY <1>8 DEF TypeOK, Tick, research, lifecycle, Time
  <1>9. CASE UNCHANGED vars
    BY <1>9 DEF TypeOK, vars, research, lifecycle
  <1> QED BY <1>1, <1>2, <1>3, <1>4, <1>5, <1>6, <1>7, <1>8, <1>9 DEF Next

\* Every variable stays in its domain, for every value of the constants.
THEOREM TypeCorrect == Spec => []TypeOK
  <1>1. Init => TypeOK
    BY InitTypeOK
  <1>2. TypeOK /\ [Next]_vars => TypeOK'
    BY StepTypeOK
  <1> QED BY <1>1, <1>2, PTL DEF Spec
-----------------------------------------------------------------------------
\* What the legal edges cannot do: leave REJECTED, leave the sealed or the
\* mirrored states, or pass the seal other than through OOS_RUNNING.
LEMMA EdgeShape ==
  ASSUME NEW from, NEW to, <<from, to>> \in RULES
  PROVE  /\ from # "REJECTED"
         /\ from \in SealedStates => to \in SealedStates
         /\ from \in MirroredStates => to \in MirroredStates
         /\ (to \in SealedStates /\ from \notin SealedStates) => to = "OOS_RUNNING"
         /\ to = "OOS_RUNNING" => from \notin SealedStates
  BY DEF RULES, SealedStates, MirroredStates, PaperStates, States

LEMMA MirroredIsSealed == MirroredStates \subseteq SealedStates
  BY DEF SealedStates, MirroredStates

\* No operation moves a registered run to another family.
LEMMA FamilyStable ==
  ASSUME TypeOK, ReferencesOK, [Next]_vars, NEW r \in Runs, RegisteredRun(r)
  PROVE  RegisteredRun(r)' /\ runVersion'[r] = runVersion[r] /\ FamilyOf(r)' = FamilyOf(r)
  <1> DEFINE v == runVersion[r]
  <1>1. v \in Versions /\ versionFamily[v] # None
    BY DEF RegisteredRun, ReferencesOK, TypeOK
  <1>2. versionFamily'[v] = versionFamily[v]
    BY <1>1 DEF Next, vars, research, CreateFamily, RegisterVersion, CreateRun,
      RecordApproval, ApproveNewFamily, Transition, ApprovedTransition, Commit, Tick, TypeOK
  <1>3. runVersion'[r] = runVersion[r]
    BY DEF Next, vars, research, CreateFamily, RegisterVersion, CreateRun, RegisteredRun,
      RecordApproval, ApproveNewFamily, Transition, ApprovedTransition, Commit, Tick, TypeOK
  <1> QED BY <1>2, <1>3 DEF RegisteredRun, FamilyOf

LEMMA StepReferences ==
  ASSUME TypeOK, ReferencesOK, [Next]_vars
  PROVE  ReferencesOK'
  <1>1. ASSUME NEW v \in Versions, versionFamily'[v] # None
        PROVE  versionFamily'[v] \in families'
    BY <1>1 DEF Next, vars, research, CreateFamily, RegisterVersion, CreateRun,
      RecordApproval, ApproveNewFamily, Transition, ApprovedTransition, Commit, Tick,
      TypeOK, ReferencesOK
  <1>2. ASSUME NEW r \in Runs, RegisteredRun(r)'
        PROVE  versionFamily'[runVersion'[r]] # None
    <2>1. CASE RegisteredRun(r)
      BY <2>1, FamilyStable DEF ReferencesOK, FamilyOf
    <2>2. CASE ~RegisteredRun(r)
      <3>1. PICK q \in Runs, v \in Versions : CreateRun(q, v)
        BY <1>2, <2>2 DEF Next, vars, research, CreateFamily, RegisterVersion, RegisteredRun,
          RecordApproval, ApproveNewFamily, Transition, ApprovedTransition, Commit, Tick
      <3>2. runVersion'[r] = v /\ versionFamily'[v] # None
        BY <1>2, <2>2, <3>1 DEF CreateRun, RegisteredRun, TypeOK
      <3> QED BY <3>2
    <2> QED BY <2>1, <2>2
  <1>3. ASSUME NEW r \in Runs, state'[r] # None
        PROVE  RegisteredRun(r)'
    <2>1. state[r] # None => RegisteredRun(r)
      BY DEF ReferencesOK
    <2>2. state'[r] = state[r] \/ RegisteredRun(r)
      <3>1. CASE UNCHANGED lifecycle
        BY <3>1 DEF lifecycle
      <3>2. ASSUME NEW q \in Runs, NEW to, NEW n, NEW repaired,
                   Legal(q, to, n, repaired), Commit(q, to, n)
            PROVE  state'[r] = state[r] \/ RegisteredRun(r)
        BY <3>2 DEF Legal, Commit, TypeOK
      <3>3. UNCHANGED lifecycle
              \/ \E q \in Runs : \E to, n, repaired : Legal(q, to, n, repaired) /\ Commit(q, to, n)
        BY DEF Next, vars, lifecycle, CreateFamily, RegisterVersion, CreateRun,
          RecordApproval, ApproveNewFamily, Transition, ApprovedTransition, Tick
      <3> QED BY <3>1, <3>2, <3>3
    <2> QED BY <1>3, <2>1, <2>2, FamilyStable
  <1> QED BY <1>1, <1>2, <1>3 DEF ReferencesOK

\* An operation that writes no transition preserves what relates the rows.
LEMMA QuietStep ==
  ASSUME IInv, [Next]_vars, UNCHANGED lifecycle
  PROVE  SealHeld' /\ PaperMatchesRun' /\ RejectionTerminal'
  <1>1. \A r \in Runs : state[r] # None =>
           RegisteredRun(r) /\ RegisteredRun(r)' /\ FamilyOf(r)' = FamilyOf(r)
    BY FamilyStable DEF IInv, ReferencesOK
  <1>2. None \notin SealedStates /\ None \notin MirroredStates
    BY MirroredIsSealed DEF States
  <1>3. SealHeld'
    BY <1>1, <1>2 DEF IInv, SealHeld, OneSealedRunPerFamily, lifecycle
  <1>4. PaperMatchesRun'
    <2>1. ASSUME NEW f \in Families, paper[f] # None
          PROVE  \E r \in RunsOf(f)' : state[r] = paper[f]
      BY <2>1, <1>1 DEF IInv, PaperMatchesRun, RunsOf
    <2>2. ASSUME NEW f \in Families, NEW r \in RunsOf(f)', state[r] \in MirroredStates
          PROVE  paper[f] = state[r]
      BY <2>2, <1>1, <1>2 DEF IInv, PaperMatchesRun, RunsOf
    <2> QED BY <2>1, <2>2 DEF PaperMatchesRun, lifecycle, RunsOf
  <1>5. RejectionTerminal'
    BY DEF IInv, RejectionTerminal, lifecycle
  <1> QED BY <1>3, <1>4, <1>5

\* The family of a run is fixed by transition(), which writes no research row.
LEMMA CommitKeepsFamilies ==
  ASSUME NEW r \in Runs, NEW to \in States, NEW n, Commit(r, to, n)
  PROVE  \A s \in Runs : (RegisteredRun(s)' <=> RegisteredRun(s)) /\ FamilyOf(s)' = FamilyOf(s)
  BY DEF Commit, research, RegisteredRun, FamilyOf

\* A legal transition preserves the uniqueness of the sealed run: passing the
\* seal takes the only unit, which no run of the family can have held before.
LEMMA CommitSeal ==
  ASSUME IInv, NEW r \in Runs, NEW to \in States, NEW n \in KeyNumbers, NEW repaired,
         Legal(r, to, n, repaired), Commit(r, to, n)
  PROVE  SealHeld'
  <1> DEFINE f == FamilyOf(r)
  <1>1. /\ <<state[r], to>> \in RULES /\ RegisteredRun(r)
        /\ state' = [state EXCEPT ![r] = to] /\ state'[r] = to
        /\ \A s \in Runs : s # r => state'[s] = state[s]
    BY DEF Legal, Commit, IInv, TypeOK
  <1>2. \A s \in Runs : FamilyOf(s)' = FamilyOf(s)
    BY CommitKeepsFamilies
  <1>3. f \in Families
    <2>1. runVersion[r] \in Versions /\ versionFamily[runVersion[r]] # None
      BY <1>1 DEF RegisteredRun, IInv, TypeOK, ReferencesOK
    <2> QED BY <2>1 DEF FamilyOf, IInv, TypeOK
  <1>4. CASE to = "OOS_RUNNING"
    <2>1. oosUsed[f] < 1 /\ oosUsed[f] \in 0..1
      BY <1>4, <1>3 DEF Legal, BudgetLeft, SpendsOos, MaxOos, IInv, TypeOK
    <2>2. oosUsed' = [oosUsed EXCEPT ![f] = @ + 1]
      BY <1>4 DEF Commit, SpendsOos
    <2>3. oosUsed'[f] = 1 /\ \A g \in Families : g # f => oosUsed'[g] = oosUsed[g]
      BY <2>1, <2>2, <1>3 DEF IInv, TypeOK
    <2>4. \A s \in Runs : state[s] \in SealedStates => FamilyOf(s) # f
      BY <2>1 DEF IInv, SealHeld, MaxOos
    <2>5. \A s \in Runs : (state[s] \in SealedStates /\ s # r) => oosUsed'[FamilyOf(s)] = 1
      <3>1. ASSUME NEW s \in Runs, state[s] \in SealedStates
            PROVE  oosUsed[FamilyOf(s)] = 1
        BY <3>1 DEF IInv, SealHeld, MaxOos
      <3> QED BY <3>1, <2>2, <2>4 DEF IInv, TypeOK
    <2> QED BY <1>1, <1>2, <2>3, <2>4, <2>5
      DEF IInv, SealHeld, OneSealedRunPerFamily, MaxOos
  <1>5. CASE to # "OOS_RUNNING"
    <2>1. oosUsed' = oosUsed
      BY <1>5 DEF Commit, SpendsOos
    <2>2. to \in SealedStates => state[r] \in SealedStates
      BY <1>1, <1>5, EdgeShape
    <2> QED BY <1>1, <1>2, <2>1, <2>2 DEF IInv, SealHeld, OneSealedRunPerFamily, MaxOos
  <1> QED BY <1>4, <1>5

\* A legal transition keeps paper_state and the runs in agreement: the run that
\* moves is the family's only sealed one.
LEMMA CommitPaper ==
  ASSUME IInv, NEW r \in Runs, NEW to \in States, NEW n \in KeyNumbers, NEW repaired,
         Legal(r, to, n, repaired), Commit(r, to, n)
  PROVE  PaperMatchesRun'
  <1> DEFINE f == FamilyOf(r)
  <1>1. /\ <<state[r], to>> \in RULES /\ RegisteredRun(r)
        /\ state'[r] = to
        /\ \A s \in Runs : s # r => state'[s] = state[s]
    BY DEF Legal, Commit, IInv, TypeOK
  <1>2. \A g \in Families : RunsOf(g)' = RunsOf(g)
    BY CommitKeepsFamilies DEF RunsOf
  <1>3. r \in RunsOf(f)
    BY <1>1 DEF RunsOf
  <1>4. \A g \in Families : \A s \in RunsOf(g) : s \in Runs /\ FamilyOf(s) = g
    BY DEF RunsOf
  <1>5. CASE to \in MirroredStates
    <2>1. paper' = [paper EXCEPT ![f] = to]
      BY <1>5 DEF Commit
    <2>2. ASSUME NEW s \in Runs, s # r, FamilyOf(s) = f PROVE state[s] \notin MirroredStates
      <3>1. SealHeld'
        BY CommitSeal
      <3>2. to \in SealedStates
        BY <1>5, MirroredIsSealed
      <3>3. FamilyOf(s)' = FamilyOf(s) /\ FamilyOf(r)' = FamilyOf(r)
        BY CommitKeepsFamilies
      <3>4. state'[s] \notin SealedStates
        BY <3>1, <3>2, <3>3, <1>1, <2>2 DEF SealHeld, OneSealedRunPerFamily
      <3> QED BY <3>4, <1>1, <2>2, MirroredIsSealed
    <2>3. \A g \in Families : paper'[g] = IF g = f THEN to ELSE paper[g]
      BY <2>1 DEF IInv, TypeOK
    <2> QED BY <1>1, <1>2, <1>3, <1>4, <1>5, <2>2, <2>3 DEF IInv, PaperMatchesRun
  <1>6. CASE to \notin MirroredStates
    <2>1. paper' = paper
      BY <1>6 DEF Commit
    <2>2. state[r] \notin MirroredStates
      BY <1>1, <1>6, EdgeShape
    <2>3. \A g \in Families : paper[g] # None => paper[g] \in MirroredStates
      BY DEF IInv, TypeOK
    <2>4. ASSUME NEW g \in Families, paper[g] # None
          PROVE  \E s \in RunsOf(g) : state'[s] = paper[g]
      <3>1. PICK s \in RunsOf(g) : state[s] = paper[g]
        BY <2>4 DEF IInv, PaperMatchesRun
      <3>2. s # r /\ s \in Runs
        BY <3>1, <2>2, <2>3, <2>4, <1>4
      <3> QED BY <3>1, <3>2, <1>1
    <2>5. ASSUME NEW g \in Families, NEW s \in RunsOf(g), state'[s] \in MirroredStates
          PROVE  paper[g] = state'[s]
      <3>1. s # r /\ s \in Runs
        BY <2>5, <1>6, <1>1, <1>4
      <3> QED BY <3>1, <2>5, <1>1 DEF IInv, PaperMatchesRun
    <2> QED BY <2>1, <2>4, <2>5, <1>2 DEF PaperMatchesRun
  <1> QED BY <1>5, <1>6

\* No legal transition leaves REJECTED.
LEMMA CommitRejection ==
  ASSUME IInv, NEW r \in Runs, NEW to \in States, NEW n \in KeyNumbers, NEW repaired,
         Legal(r, to, n, repaired), Commit(r, to, n)
  PROVE  RejectionTerminal'
  <1>1. /\ state[r] # "REJECTED" /\ state'[r] = to
        /\ \A s \in Runs : s # r => state'[s] = state[s]
    BY EdgeShape DEF Legal, Commit, IInv, TypeOK
  <1>2. \A k \in rows : k.run \in Runs
    BY DEF IInv, TypeOK, Key
  <1>3. rows' = rows \union {[run |-> r, to |-> to, n |-> n]}
    BY DEF Commit
  <1> QED BY <1>1, <1>2, <1>3 DEF IInv, RejectionTerminal

LEMMA InitIInv == Init => IInv
  <1> SUFFICES ASSUME Init PROVE IInv
    OBVIOUS
  <1>1. None \notin SealedStates /\ None \notin MirroredStates
    BY MirroredIsSealed DEF States
  <1>2. \A r \in Runs : state[r] = None /\ ~RegisteredRun(r)
    BY DEF Init, RegisteredRun
  <1>3. ReferencesOK
    BY <1>2 DEF Init, ReferencesOK
  <1>4. SealHeld
    BY <1>1, <1>2 DEF SealHeld, OneSealedRunPerFamily
  <1>5. PaperMatchesRun
    BY <1>1, <1>2 DEF Init, PaperMatchesRun, RunsOf
  <1>6. RejectionTerminal
    BY DEF Init, RejectionTerminal
  <1> QED BY <1>3, <1>4, <1>5, <1>6, InitTypeOK DEF IInv

LEMMA StepIInv == IInv /\ [Next]_vars => IInv'
  <1> SUFFICES ASSUME IInv, [Next]_vars PROVE IInv'
    OBVIOUS
  <1>1. TypeOK' /\ ReferencesOK'
    BY StepTypeOK, StepReferences DEF IInv
  <1>2. ASSUME NEW r \in Runs, NEW to \in States, NEW n \in KeyNumbers, NEW repaired,
               Legal(r, to, n, repaired), Commit(r, to, n)
        PROVE  IInv'
    BY <1>1, <1>2, CommitSeal, CommitPaper, CommitRejection DEF IInv
  <1>3. CASE UNCHANGED lifecycle
    BY <1>1, <1>3, QuietStep DEF IInv
  <1>4. ASSUME NEW r \in Runs, NEW to \in States, NEW n \in KeyNumbers, Transition(r, to, n)
        PROVE  IInv'
    BY <1>4, <1>2 DEF Transition
  <1>5. ASSUME NEW r \in Runs, NEW n \in KeyNumbers, NEW a \in ApprovalKeys, NEW c \in RunCommand,
               NEW repaired \in BOOLEAN,
               ApprovedTransition(r, "PAPER_RUNNING", n, a, c, repaired)
        PROVE  IInv'
    <2>1. "PAPER_RUNNING" \in States
      BY DEF States, SealedStates, PaperStates
    <2> QED BY <1>5, <2>1, <1>2 DEF ApprovedTransition
  <1> QED BY <1>3, <1>4, <1>5 DEF Next, vars, CreateFamily, RegisterVersion, CreateRun,
    RecordApproval, ApproveNewFamily, Tick

THEOREM InductiveInvariant == Spec => []IInv
  <1>1. Init => IInv
    BY InitIInv
  <1>2. IInv /\ [Next]_vars => IInv'
    BY StepIInv
  <1> QED BY <1>1, <1>2, PTL DEF Spec

\* No two runs of a family are ever both past the seal, however many versions,
\* runs and workers there are.
THEOREM SealUnique == Spec => []OneSealedRunPerFamily
  <1>1. IInv => OneSealedRunPerFamily
    BY DEF IInv, SealHeld
  <1> QED BY <1>1, InductiveInvariant, PTL

\* paper_state always agrees with the transition rows of the run it stands for.
THEOREM PaperAgreement == Spec => []PaperMatchesRun
  <1>1. IInv => PaperMatchesRun
    BY DEF IInv
  <1> QED BY <1>1, InductiveInvariant, PTL

\* A family with a rejected run never reaches readiness or paper trading.
THEOREM RejectionExcludesPaper == Spec => []RejectedNeverPapers
  <1>1. IInv => RejectedNeverPapers
    <2> SUFFICES ASSUME IInv, NEW k \in rows, k.to = "REJECTED", paper[FamilyOf(k.run)] # None
                 PROVE  FALSE
      BY DEF RejectedNeverPapers, RejectedFamilies
    <2> DEFINE r == k.run
    <2> DEFINE f == FamilyOf(r)
    <2>1. r \in Runs /\ state[r] = "REJECTED"
      BY DEF IInv, TypeOK, Key, RejectionTerminal
    <2>2. f \in Families
      <3>1. RegisteredRun(r)
        BY <2>1 DEF IInv, ReferencesOK, States, SealedStates
      <3> QED BY <2>1, <3>1 DEF RegisteredRun, FamilyOf, IInv, TypeOK, ReferencesOK
    <2>3. PICK s \in RunsOf(f) : state[s] = paper[f]
      BY <2>2 DEF IInv, PaperMatchesRun
    <2>4. paper[f] \in MirroredStates /\ s \in Runs /\ FamilyOf(s) = f
      BY <2>2, <2>3 DEF IInv, TypeOK, RunsOf
    <2>5. s = r
      BY <2>1, <2>3, <2>4, MirroredIsSealed
        DEF IInv, SealHeld, OneSealedRunPerFamily, SealedStates
    <2> QED BY <2>1, <2>3, <2>4, <2>5 DEF MirroredStates, PaperStates
  <1> QED BY <1>1, InductiveInvariant, PTL
-----------------------------------------------------------------------------
(* The owner: what needs an approval has one, and what needs an alert too *)

\* Every step either leaves the lifecycle alone or is one legal transition, along
\* an edge without an approval or with one that names the run.
LEMMA StepCases ==
  ASSUME [Next]_vars
  PROVE  \/ UNCHANGED lifecycle
         \/ \E r \in Runs : \E to \in States : \E n \in KeyNumbers : Transition(r, to, n)
         \/ \E r \in Runs : \E n \in KeyNumbers : \E a \in ApprovalKeys : \E c \in RunCommand :
              \E repaired \in BOOLEAN :
                ApprovedTransition(r, "PAPER_RUNNING", n, a, c, repaired)
  BY DEF Next, vars, lifecycle, CreateFamily, RegisterVersion, CreateRun, RecordApproval,
         ApproveNewFamily, Tick

\* An approval row, once written, never changes.
LEMMA ApprovalsKept ==
  ASSUME TypeOK, [Next]_vars, NEW a \in ApprovalKeys, approvals[a] # None
  PROVE  approvals'[a] = approvals[a]
  <1>1. ASSUME NEW b, NEW c, Recordable(b, c), approvals' = [approvals EXCEPT ![b] = c]
        PROVE  approvals'[a] = approvals[a]
    BY <1>1 DEF Recordable, TypeOK
  <1>2. UNCHANGED approvals
          \/ \E b, c : Recordable(b, c) /\ approvals' = [approvals EXCEPT ![b] = c]
    BY DEF Next, vars, CreateFamily, RegisterVersion, CreateRun, RecordApproval,
           ApproveNewFamily, Transition, ApprovedTransition, ValidApproval, Tick
  <1> QED BY <1>1, <1>2

\* The edges into PAPER_RUNNING, with the action each requires, and where the
\* paper states are entered from.
LEMMA PaperEdges ==
  ASSUME NEW from, NEW to, <<from, to>> \in RULES, to \in PaperStates
  PROVE  /\ from \in PaperStates \union {"READY_FOR_PAPER"}
         /\ from = "READY_FOR_PAPER" =>
              to = "PAPER_RUNNING" /\ ApprovalAction(from, to) = "start_paper"
         /\ (to = "PAPER_RUNNING" /\ ApprovalAction(from, to) = None) =>
              from = "PAPER_DAILY_PAUSED"
  <1>1. /\ from \in PaperStates \union {"READY_FOR_PAPER"}
        /\ from = "READY_FOR_PAPER" => to = "PAPER_RUNNING"
        /\ to = "PAPER_RUNNING" =>
             from \in {"READY_FOR_PAPER", "PAPER_DAILY_PAUSED", "PAPER_MDD_HALTED", "PAPER_DATA_GAP"}
    BY DEF RULES, PaperStates
  <1>2. None \notin {"start_paper", "resume_mdd", "resume_data_gap"}
    BY CommandsAssumption DEF APPROVAL_ACTIONS
  <1>3. CASE to = "PAPER_RUNNING"
    BY <1>1, <1>2, <1>3 DEF ApprovalAction
  <1>4. CASE to # "PAPER_RUNNING"
    BY <1>1, <1>4
  <1> QED BY <1>3, <1>4

\* A run trades on paper only after the owner approved the start of that very
\* run: the approval lies behind an arbitrarily long sequence of halts and
\* resumptions, and no later approval overwrites it.
THEOREM PaperApproved == Spec => []PaperWasApproved
  <1>1. Init => PaperWasApproved
    <2>1. None \notin PaperStates
      BY DEF States, SealedStates
    <2> QED BY <2>1 DEF Init, PaperWasApproved
  <1>2. TypeOK /\ PaperWasApproved /\ [Next]_vars => PaperWasApproved'
    <2> DEFINE Approved(r) == \E a \in ApprovalKeys :
          /\ approvals[a] # None
          /\ approvals[a].action = "start_paper" /\ approvals[a].object = r
          /\ approvals[a].actor \in Allowlist
    <2> SUFFICES ASSUME TypeOK, PaperWasApproved, [Next]_vars,
                        NEW r \in Runs, state'[r] \in PaperStates
                 PROVE  Approved(r)'
      BY DEF PaperWasApproved
    <2>1. ASSUME state[r] \in PaperStates PROVE Approved(r)'
      <3>1. PICK a \in ApprovalKeys :
              /\ approvals[a] # None
              /\ approvals[a].action = "start_paper" /\ approvals[a].object = r
              /\ approvals[a].actor \in Allowlist
        BY <2>1 DEF PaperWasApproved
      <3>2. approvals'[a] = approvals[a]
        BY <3>1, ApprovalsKept
      <3> QED BY <3>1, <3>2
    <2>2. CASE UNCHANGED lifecycle
      BY <2>1, <2>2 DEF lifecycle
    <2>3. ASSUME NEW q \in Runs, NEW to \in States, NEW n \in KeyNumbers, Transition(q, to, n)
          PROVE  Approved(r)'
      <3>1. /\ state' = [state EXCEPT ![q] = to] /\ <<state[q], to>> \in RULES
            /\ ApprovalAction(state[q], to) = None
        BY <2>3 DEF Transition, Commit, Legal
      <3>2. None # "start_paper"
        BY CommandsAssumption DEF APPROVAL_ACTIONS
      <3>3. state[r] \in PaperStates
        <4>1. CASE r = q
          <5>1. to \in PaperStates
            BY <3>1, <4>1 DEF TypeOK
          <5> QED BY <3>1, <3>2, <4>1, <5>1, PaperEdges
        <4>2. CASE r # q
          BY <3>1, <4>2 DEF TypeOK
        <4> QED BY <4>1, <4>2
      <3> QED BY <3>3, <2>1
    <2>4. ASSUME NEW q \in Runs, NEW n \in KeyNumbers, NEW a \in ApprovalKeys,
                 NEW c \in RunCommand, NEW repaired \in BOOLEAN,
                 ApprovedTransition(q, "PAPER_RUNNING", n, a, c, repaired)
          PROVE  Approved(r)'
      <3>1. /\ state' = [state EXCEPT ![q] = "PAPER_RUNNING"]
            /\ <<state[q], "PAPER_RUNNING">> \in RULES
            /\ c.action = ApprovalAction(state[q], "PAPER_RUNNING")
            /\ c.object = q /\ c.actor \in Allowlist
            /\ approvals' = [approvals EXCEPT ![a] = c]
        BY <2>4 DEF ApprovedTransition, Commit, Legal, ValidApproval, ValidEnvelope
      <3>2. "PAPER_RUNNING" \in PaperStates
        BY DEF PaperStates
      <3>3. CASE state[r] \in PaperStates
        BY <2>1, <3>3
      <3>4. CASE state[r] \notin PaperStates
        <4>1. r = q
          BY <3>1, <3>4 DEF TypeOK
        <4>2. c.action = "start_paper" /\ c # None
          <5>1. state[q] = "READY_FOR_PAPER"
            BY <3>1, <3>2, <3>4, <4>1, PaperEdges
          <5>2. c \in Command
            BY DEF Command
          <5> QED BY <3>1, <3>2, <5>1, <5>2, PaperEdges, CommandsAssumption
        <4>3. approvals'[a] = c
          BY <3>1 DEF TypeOK
        <4> QED BY <3>1, <4>1, <4>2, <4>3
      <3> QED BY <3>3, <3>4
    <2> QED BY <2>2, <2>3, <2>4, StepCases
  <1> QED BY <1>1, <1>2, TypeCorrect, PTL DEF Spec

\* Every drawdown halt and every data gap has its alert row, written in the
\* transaction of its transition, and nothing else raises one.
THEOREM AlertsComplete == Spec => []HaltsAlerted
  <1>1. Init => HaltsAlerted
    BY DEF Init, HaltsAlerted
  <1>2. HaltsAlerted /\ [Next]_vars => HaltsAlerted'
    <2> SUFFICES ASSUME HaltsAlerted, [Next]_vars PROVE HaltsAlerted'
      OBVIOUS
    <2>1. CASE UNCHANGED lifecycle
      BY <2>1 DEF HaltsAlerted, lifecycle
    <2>2. ASSUME NEW r, NEW to, NEW n, Commit(r, to, n)
          PROVE  HaltsAlerted'
      BY <2>2 DEF HaltsAlerted, Commit, AlertStates
    <2>3. UNCHANGED lifecycle \/ \E r, to, n : Commit(r, to, n)
      BY StepCases DEF Transition, ApprovedTransition
    <2> QED BY <2>1, <2>2, <2>3
  <1> QED BY <1>1, <1>2, PTL DEF Spec

\* A run comes back to PAPER_RUNNING from a halt only on the owner's stored
\* command for that kind of halt, less than a day old and for the family's newest
\* version, and from a daily pause only on a later UTC day.
THEOREM ResumptionControlled == Spec => ResumeControlled
  <1> DEFINE ResumeStep == \A r \in Runs :
        (state'[r] = "PAPER_RUNNING" /\ state[r] # "PAPER_RUNNING") =>
          IF state[r] = "PAPER_DAILY_PAUSED"
          THEN Day(now) > Day(pausedAt[FamilyOf(r)])
          ELSE /\ newest[FamilyOf(r)] = runVersion[r]
               /\ \E a \in ApprovalKeys :
                    /\ approvals'[a] # None
                    /\ approvals'[a].action = ApprovalAction(state[r], "PAPER_RUNNING")
                    /\ approvals'[a].object = r
                    /\ now - approvals'[a].at < UnitsPerDay
  <1>1. TypeOK /\ [Next]_vars => [ResumeStep]_vars
    <2> SUFFICES ASSUME TypeOK, [Next]_vars, NEW r \in Runs,
                        state'[r] = "PAPER_RUNNING", state[r] # "PAPER_RUNNING"
                 PROVE  IF state[r] = "PAPER_DAILY_PAUSED"
                        THEN Day(now) > Day(pausedAt[FamilyOf(r)])
                        ELSE /\ newest[FamilyOf(r)] = runVersion[r]
                             /\ \E a \in ApprovalKeys :
                                  /\ approvals'[a] # None
                                  /\ approvals'[a].action = ApprovalAction(state[r], "PAPER_RUNNING")
                                  /\ approvals'[a].object = r
                                  /\ now - approvals'[a].at < UnitsPerDay
      OBVIOUS
    <2>1. ASSUME NEW n, NEW repaired, Legal(r, "PAPER_RUNNING", n, repaired),
                 state[r] = "PAPER_DAILY_PAUSED"
          PROVE  Day(now) > Day(pausedAt[FamilyOf(r)])
      BY <2>1 DEF Legal, RequiresNextDay, NextUtcDay
    <2>2. ~UNCHANGED lifecycle
      BY DEF lifecycle
    <2>3. ASSUME NEW q \in Runs, NEW to \in States, NEW n \in KeyNumbers, Transition(q, to, n)
          PROVE  state[r] = "PAPER_DAILY_PAUSED" /\ Day(now) > Day(pausedAt[FamilyOf(r)])
      <3>1. q = r /\ to = "PAPER_RUNNING"
        BY <2>3 DEF Transition, Commit, TypeOK
      <3>2. /\ Legal(r, "PAPER_RUNNING", n, FALSE)
            /\ <<state[r], "PAPER_RUNNING">> \in RULES
            /\ ApprovalAction(state[r], "PAPER_RUNNING") = None
        BY <2>3, <3>1 DEF Transition, Legal
      <3>3. state[r] = "PAPER_DAILY_PAUSED"
        BY <3>2, PaperEdges DEF PaperStates
      <3> QED BY <3>2, <3>3, <2>1
    <2>4. ASSUME NEW q \in Runs, NEW n \in KeyNumbers, NEW a \in ApprovalKeys,
                 NEW c \in RunCommand, NEW repaired \in BOOLEAN,
                 ApprovedTransition(q, "PAPER_RUNNING", n, a, c, repaired)
          PROVE  /\ Legal(r, "PAPER_RUNNING", n, repaired)
                 /\ newest[FamilyOf(r)] = runVersion[r]
                 /\ approvals'[a] # None
                 /\ approvals'[a].action = ApprovalAction(state[r], "PAPER_RUNNING")
                 /\ approvals'[a].object = r
                 /\ now - approvals'[a].at < UnitsPerDay
      <3>1. q = r
        BY <2>4 DEF ApprovedTransition, Commit, TypeOK
      <3>2. approvals'[a] = c /\ c # None
        <4>1. c \in Command
          BY DEF Command
        <4> QED BY <2>4, <4>1, CommandsAssumption DEF ApprovedTransition, TypeOK
      <3> QED BY <2>4, <3>1, <3>2
            DEF ApprovedTransition, ValidApproval, ValidEnvelope, Superseded
    <2> QED BY <2>1, <2>2, <2>3, <2>4, StepCases
  <1> QED BY <1>1, TypeCorrect, PTL DEF Spec, ResumeControlled

\* After a rejection a family appears only in the transaction that stores the
\* owner's command naming it and a rejected family.
THEOREM RetriesApproved == Spec => FamilyAfterRejectionApproved
  <1> DEFINE RetryStep == \A f \in families' \ families :
        RejectedFamilies # {} =>
          \E a \in ApprovalKeys, g \in RejectedFamilies :
            /\ approvals'[a] # None
            /\ approvals'[a].object = <<g, f>>
  <1>1. TypeOK /\ [Next]_vars => [RetryStep]_vars
    <2> SUFFICES ASSUME TypeOK, [Next]_vars, NEW f \in families' \ families,
                        RejectedFamilies # {}
                 PROVE  \E a \in ApprovalKeys : \E g \in RejectedFamilies :
                          /\ approvals'[a] # None
                          /\ approvals'[a].object = <<g, f>>
      OBVIOUS
    <2>1. PICK a \in ApprovalKeys, c \in FamilyCommand : ApproveNewFamily(a, c)
      BY DEF Next, vars, research, CreateFamily, RegisterVersion, CreateRun, RecordApproval,
             Transition, ApprovedTransition, Commit, Tick
    <2>2. c.object[2] = f /\ c.object[1] \in RejectedFamilies
      BY <2>1 DEF ApproveNewFamily
    <2>3. c.object = <<c.object[1], f>>
      BY <2>2 DEF FamilyCommand
    <2>4. approvals'[a] = c /\ c # None
      <3>1. c \in Command
        BY DEF Command
      <3> QED BY <2>1, <3>1, CommandsAssumption DEF ApproveNewFamily, TypeOK
    <2> QED BY <2>2, <2>3, <2>4
  <1> QED BY <1>1, TypeCorrect, PTL DEF Spec, FamilyAfterRejectionApproved
-----------------------------------------------------------------------------
(* Budgets *)

\* The rows are finitely many, each of a registered run, and the budgets count
\* them.
RowsCounted ==
  /\ IsFiniteSet(rows)
  /\ \A k \in rows : RegisteredRun(k.run)
  /\ BudgetsMatchRows

\* A fresh row is one more row of its family if its target is among those
\* counted, and changes no other count.
LEMMA OneMoreRow ==
  ASSUME TypeOK, IsFiniteSet(rows),
         NEW r \in Runs, NEW to \in States, NEW n \in KeyNumbers, NEW repaired,
         Legal(r, to, n, repaired), Commit(r, to, n),
         NEW f \in Families, NEW targets
  PROVE  Cardinality(RowsOf(f, targets)') =
           IF to \in targets /\ f = FamilyOf(r) THEN Cardinality(RowsOf(f, targets)) + 1
           ELSE Cardinality(RowsOf(f, targets))
  <1> DEFINE key == [run |-> r, to |-> to, n |-> n]
  <1>1. key \notin rows /\ rows' = rows \union {key}
    BY DEF Legal, Commit
  <1>2. \A k \in rows' : FamilyOf(k.run)' = FamilyOf(k.run)
    BY <1>1 DEF Commit, research, FamilyOf
  <1>3. RowsOf(f, targets)' = {k \in rows' : k.to \in targets /\ FamilyOf(k.run) = f}
    BY <1>2 DEF RowsOf
  <1>4. IsFiniteSet(RowsOf(f, targets)) /\ key \notin RowsOf(f, targets)
    BY <1>1, FS_Subset DEF RowsOf
  <1>5. key.to = to /\ key.run = r
    OBVIOUS
  <1> HIDE DEF key
  <1>6. CASE to \in targets /\ f = FamilyOf(r)
    <2>1. RowsOf(f, targets)' = RowsOf(f, targets) \union {key}
      BY <1>1, <1>3, <1>5, <1>6 DEF RowsOf
    <2> QED BY <1>4, <1>6, <2>1, FS_AddElement
  <1>7. CASE ~(to \in targets /\ f = FamilyOf(r))
    <2>1. RowsOf(f, targets)' = RowsOf(f, targets)
      BY <1>1, <1>3, <1>5, <1>7 DEF RowsOf
    <2> QED BY <1>7, <2>1
  <1> QED BY <1>6, <1>7

\* A legal transition charges exactly the budgets whose rows it adds to.
LEMMA CommitCounts ==
  ASSUME IInv, RowsCounted,
         NEW r \in Runs, NEW to \in States, NEW n \in KeyNumbers, NEW repaired,
         Legal(r, to, n, repaired), Commit(r, to, n)
  PROVE  RowsCounted'
  <1>1. IsFiniteSet(rows') /\ \A k \in rows' : RegisteredRun(k.run)'
    <2>1. rows' = rows \union {[run |-> r, to |-> to, n |-> n]}
      BY DEF Commit
    <2>2. \A k \in rows : RegisteredRun(k.run)'
      BY DEF RowsCounted, RegisteredRun, Commit, research
    <2>3. RegisteredRun(r)'
      BY DEF Legal, RegisteredRun, Commit, research
    <2>4. \A k \in rows' : RegisteredRun(k.run)'
      BY <2>1, <2>2, <2>3
    <2>5. IsFiniteSet(rows')
      BY <2>1, FS_AddElement DEF RowsCounted
    <2> QED BY <2>4, <2>5
  <1>2. ASSUME NEW f \in Families
        PROVE  /\ perfUsed'[f] = IF SpendsPerformance(to) /\ f = FamilyOf(r)
                                 THEN perfUsed[f] + 1 ELSE perfUsed[f]
               /\ oosUsed'[f] = IF SpendsOos(to) /\ f = FamilyOf(r)
                                THEN oosUsed[f] + 1 ELSE oosUsed[f]
    BY DEF Commit, IInv, TypeOK
  <1>3. ASSUME NEW f \in Families
        PROVE  /\ perfUsed'[f] = Cardinality(RowsOf(f, {"ANALYSIS_READY", "OOS_RUNNING"})')
               /\ oosUsed'[f] = Cardinality(RowsOf(f, {"OOS_RUNNING"})')
    <2>1. TypeOK /\ IsFiniteSet(rows)
      BY DEF IInv, RowsCounted
    <2>2. /\ perfUsed[f] = Cardinality(RowsOf(f, {"ANALYSIS_READY", "OOS_RUNNING"}))
          /\ oosUsed[f] = Cardinality(RowsOf(f, {"OOS_RUNNING"}))
      BY DEF RowsCounted, BudgetsMatchRows
    <2>3. /\ SpendsPerformance(to) <=> to \in {"ANALYSIS_READY", "OOS_RUNNING"}
          /\ SpendsOos(to) <=> to \in {"OOS_RUNNING"}
      BY DEF SpendsPerformance, SpendsOos
    <2>4. Cardinality(RowsOf(f, {"ANALYSIS_READY", "OOS_RUNNING"})') =
            IF to \in {"ANALYSIS_READY", "OOS_RUNNING"} /\ f = FamilyOf(r)
            THEN Cardinality(RowsOf(f, {"ANALYSIS_READY", "OOS_RUNNING"})) + 1
            ELSE Cardinality(RowsOf(f, {"ANALYSIS_READY", "OOS_RUNNING"}))
      BY <2>1, OneMoreRow
    <2>5. Cardinality(RowsOf(f, {"OOS_RUNNING"})') =
            IF to \in {"OOS_RUNNING"} /\ f = FamilyOf(r)
            THEN Cardinality(RowsOf(f, {"OOS_RUNNING"})) + 1
            ELSE Cardinality(RowsOf(f, {"OOS_RUNNING"}))
      BY <2>1, OneMoreRow
    <2> QED BY <1>2, <2>2, <2>3, <2>4, <2>5
  <1> QED BY <1>1, <1>3 DEF RowsCounted, BudgetsMatchRows

\* An operation that writes no transition moves no row to another family.
LEMMA QuietCounts ==
  ASSUME IInv, RowsCounted, [Next]_vars, UNCHANGED lifecycle
  PROVE  RowsCounted'
  <1>1. rows' = rows /\ perfUsed' = perfUsed /\ oosUsed' = oosUsed
    BY DEF lifecycle
  <1>2. \A k \in rows : RegisteredRun(k.run)' /\ FamilyOf(k.run)' = FamilyOf(k.run)
    <2> SUFFICES ASSUME NEW k \in rows
                 PROVE  RegisteredRun(k.run)' /\ FamilyOf(k.run)' = FamilyOf(k.run)
      OBVIOUS
    <2>1. k.run \in Runs /\ RegisteredRun(k.run)
      BY DEF IInv, TypeOK, Key, RowsCounted
    <2> QED BY <1>1, <2>1, FamilyStable DEF IInv, RegisteredRun, FamilyOf
  <1>3. \A f, targets : RowsOf(f, targets)' = RowsOf(f, targets)
    BY <1>1, <1>2 DEF RowsOf
  <1> QED BY <1>1, <1>2, <1>3 DEF RowsCounted, BudgetsMatchRows

\* However its transitions interleave with retries, replays and rollbacks, a
\* family's budgets row counts exactly its evaluations in the append-only rows.
THEOREM BudgetsCounted == Spec => []BudgetsMatchRows
  <1>1. Init => RowsCounted
    <2> SUFFICES ASSUME Init PROVE RowsCounted
      OBVIOUS
    <2>1. rows = {} /\ \A f, targets : RowsOf(f, targets) = {}
      BY DEF Init, RowsOf
    <2> QED BY <2>1, FS_EmptySet DEF Init, RowsCounted, BudgetsMatchRows
  <1>2. IInv /\ RowsCounted /\ [Next]_vars => RowsCounted'
    <2> SUFFICES ASSUME IInv, RowsCounted, [Next]_vars PROVE RowsCounted'
      OBVIOUS
    <2>1. CASE UNCHANGED lifecycle
      BY <2>1, QuietCounts
    <2>2. ASSUME NEW r \in Runs, NEW to \in States, NEW n \in KeyNumbers, Transition(r, to, n)
          PROVE  RowsCounted'
      BY <2>2, CommitCounts DEF Transition
    <2>3. ASSUME NEW r \in Runs, NEW n \in KeyNumbers, NEW a \in ApprovalKeys,
                 NEW c \in RunCommand, NEW repaired \in BOOLEAN,
                 ApprovedTransition(r, "PAPER_RUNNING", n, a, c, repaired)
          PROVE  RowsCounted'
      <3>1. "PAPER_RUNNING" \in States
        BY DEF States, SealedStates, PaperStates
      <3> QED BY <2>3, <3>1, CommitCounts DEF ApprovedTransition
    <2> QED BY <2>1, <2>2, <2>3, StepCases
  <1>3. RowsCounted => BudgetsMatchRows
    BY DEF RowsCounted
  <1> QED BY <1>1, <1>2, <1>3, InductiveInvariant, PTL DEF Spec
-----------------------------------------------------------------------------
(* Refinement: the database implements FamilyGate *)

\* The state of a run that has moved is the target of one of its rows.
StateHasRow == \A r \in Runs : state[r] # None => \E k \in rows : k.run = r /\ k.to = state[r]

RInv == IInv /\ StateHasRow

\* The append-only rows tell the state of every run.
THEOREM RowsTellState == Spec => []RInv
  <1>1. Init => StateHasRow
    BY DEF Init, StateHasRow
  <1>2. TypeOK /\ StateHasRow /\ [Next]_vars => StateHasRow'
    <2> SUFFICES ASSUME TypeOK, StateHasRow, [Next]_vars PROVE StateHasRow'
      OBVIOUS
    <2>1. CASE UNCHANGED lifecycle
      BY <2>1 DEF StateHasRow, lifecycle
    <2>2. ASSUME NEW q \in Runs, NEW to, NEW n, Commit(q, to, n)
          PROVE  StateHasRow'
      <3> SUFFICES ASSUME NEW r \in Runs, state'[r] # None
                   PROVE  \E k \in rows' : k.run = r /\ k.to = state'[r]
        BY DEF StateHasRow
      <3>1. /\ rows' = rows \union {[run |-> q, to |-> to, n |-> n]}
            /\ state' = [state EXCEPT ![q] = to]
        BY <2>2 DEF Commit
      <3>2. CASE r = q
        <4> DEFINE key == [run |-> q, to |-> to, n |-> n]
        <4>1. state'[r] = to
          BY <3>1, <3>2 DEF TypeOK
        <4>2. key \in rows' /\ key.run = r /\ key.to = to
          BY <3>1, <3>2
        <4> HIDE DEF key
        <4> QED BY <4>1, <4>2
      <3>3. CASE r # q
        <4>1. state'[r] = state[r]
          BY <3>1, <3>3 DEF TypeOK
        <4> QED BY <3>1, <4>1 DEF StateHasRow
      <3> QED BY <3>2, <3>3
    <2>3. UNCHANGED lifecycle \/ \E q \in Runs : \E to, n : Commit(q, to, n)
      BY StepCases DEF Transition, ApprovedTransition
    <2> QED BY <2>1, <2>2, <2>3
  <1>3. IInv => TypeOK
    BY DEF IInv
  <1> QED BY <1>1, <1>2, <1>3, InductiveInvariant, PTL DEF Spec, RInv

\* The sealed run of a family is unique, so its phase is that run's.
PhaseFacts ==
  \A f \in Families :
    /\ f \notin families => FamilyPhase[f] = "absent"
    /\ (f \in families /\ SealedRuns(f) = {}) => FamilyPhase[f] = "research"
    /\ \A r \in SealedRuns(f) : f \in families /\ FamilyPhase[f] = PhaseOf(state[r])

LEMMA PhaseIsRuns == IInv => PhaseFacts
  <1> SUFFICES ASSUME IInv, NEW f \in Families
               PROVE  /\ f \notin families => FamilyPhase[f] = "absent"
                      /\ (f \in families /\ SealedRuns(f) = {}) => FamilyPhase[f] = "research"
                      /\ \A r \in SealedRuns(f) :
                           f \in families /\ FamilyPhase[f] = PhaseOf(state[r])
    BY DEF PhaseFacts
  <1>1. FamilyPhase[f] = IF f \notin families THEN "absent"
                         ELSE IF SealedRuns(f) = {} THEN "research"
                         ELSE PhaseOf(state[CHOOSE r \in SealedRuns(f) : TRUE])
    BY DEF FamilyPhase
  <1>2. ASSUME NEW r \in SealedRuns(f)
        PROVE  f \in families /\ FamilyPhase[f] = PhaseOf(state[r])
    <2>1. f \in families
      <3>1. r \in Runs /\ RegisteredRun(r) /\ FamilyOf(r) = f
        BY <1>2 DEF SealedRuns, RunsOf
      <3> QED BY <3>1 DEF IInv, ReferencesOK, RegisteredRun, FamilyOf, TypeOK
    <2>2. \A s \in SealedRuns(f) : s = r
      BY <1>2 DEF IInv, SealHeld, OneSealedRunPerFamily, SealedRuns, RunsOf
    <2>3. (CHOOSE s \in SealedRuns(f) : TRUE) = r
      BY <1>2, <2>2
    <2> QED BY <1>1, <1>2, <2>1, <2>3
  <1> QED BY <1>1, <1>2

LEMMA PhaseIsRunsNext == IInv' => PhaseFacts'
  BY PhaseIsRuns, PTL

\* The family of a run past the seal is the one it was created in.
LEMMA SealedNext ==
  ASSUME IInv, [Next]_vars, NEW f
  PROVE  \A r : r \in SealedRuns(f)' <=>
           r \in Runs /\ RegisteredRun(r) /\ FamilyOf(r) = f /\ state'[r] \in SealedStates
  <1>1. \A r \in Runs : RegisteredRun(r) => RegisteredRun(r)' /\ FamilyOf(r)' = FamilyOf(r)
    BY FamilyStable DEF IInv
  <1>2. ASSUME NEW r \in Runs, state'[r] \in SealedStates PROVE RegisteredRun(r)
    <2>1. state[r] # None => RegisteredRun(r)
      BY DEF IInv, ReferencesOK
    <2>2. None \notin SealedStates
      BY DEF States
    <2>3. CASE UNCHANGED lifecycle
      BY <1>2, <2>1, <2>2, <2>3 DEF lifecycle
    <2>4. ASSUME NEW q \in Runs, NEW to, NEW n, NEW repaired,
                 Legal(q, to, n, repaired), Commit(q, to, n)
          PROVE  RegisteredRun(r)
      BY <1>2, <2>1, <2>2, <2>4 DEF Legal, Commit, IInv, TypeOK
    <2>5. UNCHANGED lifecycle
            \/ \E q \in Runs : \E to, n, repaired : Legal(q, to, n, repaired) /\ Commit(q, to, n)
      BY StepCases DEF Transition, ApprovedTransition
    <2> QED BY <2>3, <2>4, <2>5
  <1> QED BY <1>1, <1>2 DEF SealedRuns, RunsOf

\* A family that exists as before, and whose sealed run did not move, shows what it
\* showed.
LEMMA SamePhase ==
  ASSUME IInv, IInv', NEW f \in Families, f \in families' <=> f \in families,
         \A r : r \in SealedRuns(f)' <=> r \in SealedRuns(f),
         \A r \in SealedRuns(f) : state'[r] = state[r]
  PROVE  FamilyPhase'[f] = FamilyPhase[f]
  <1>1. PhaseFacts /\ PhaseFacts'
    BY PhaseIsRuns, PhaseIsRunsNext
  <1>2. SealedRuns(f)' = SealedRuns(f)
    BY DEF SealedRuns
  <1>3. CASE SealedRuns(f) = {}
    BY <1>1, <1>2, <1>3 DEF PhaseFacts
  <1>4. ASSUME NEW r \in SealedRuns(f) PROVE FamilyPhase'[f] = FamilyPhase[f]
    <2>1. FamilyPhase[f] = PhaseOf(state[r])
      BY <1>1, <1>4 DEF PhaseFacts
    <2>2. FamilyPhase'[f] = PhaseOf(state'[r])
      BY <1>1, <1>2, <1>4 DEF PhaseFacts, PhaseOf
    <2> QED BY <1>4, <2>1, <2>2
  <1> QED BY <1>3, <1>4

LEMMA PhaseDomain == FamilyPhase = [f \in Families |-> FamilyPhase[f]]
  BY DEF FamilyPhase

LEMMA PhaseDomainNext == FamilyPhase' = [f \in Families |-> FamilyPhase'[f]]
  BY DEF FamilyPhase

\* Only the phase of family f changes.
LEMMA OnePhase ==
  ASSUME NEW f \in Families, NEW x, FamilyPhase'[f] = x,
         \A g \in Families : g # f => FamilyPhase'[g] = FamilyPhase[g]
  PROVE  FamilyPhase' = [FamilyPhase EXCEPT ![f] = x]
  <1> DEFINE P == FamilyPhase  Q == FamilyPhase'
  <1>1. P = [g \in Families |-> P[g]] /\ Q = [g \in Families |-> Q[g]]
    BY PhaseDomain, PhaseDomainNext
  <1>2. Q[f] = x /\ \A g \in Families : g # f => Q[g] = P[g]
    OBVIOUS
  <1> HIDE DEF P, Q
  <1>3. Q = [P EXCEPT ![f] = x]
    BY <1>1, <1>2
  <1> QED BY <1>3 DEF P, Q

LEMMA SamePhases ==
  ASSUME \A g \in Families : FamilyPhase'[g] = FamilyPhase[g]
  PROVE  FamilyPhase' = FamilyPhase
  BY PhaseDomain, PhaseDomainNext

\* Recording a command adds to what is granted only if it approves a new family.
LEMMA RecordedGrant ==
  ASSUME TypeOK, NEW a \in ApprovalKeys, NEW c \in Command, Recordable(a, c),
         approvals' = [approvals EXCEPT ![a] = c]
  PROVE  Granted' = IF c.action = APPROVE_NEW_FAMILY THEN Granted \union {c.object} ELSE Granted
  <1>1. c # None
    BY CommandsAssumption
  <1>2. \A b \in ApprovalKeys : approvals'[b] = IF b = a THEN c ELSE approvals[b]
    BY DEF TypeOK
  <1>3. approvals[a] = None \/ approvals[a] = c
    BY DEF Recordable
  <1>4. \A x : x \in Granted' <=>
          \E b \in ApprovalKeys : /\ approvals'[b] # None
                                  /\ approvals'[b].action = APPROVE_NEW_FAMILY
                                  /\ approvals'[b].object = x
    BY DEF Granted
  <1>5. \A x : x \in Granted <=>
          \E b \in ApprovalKeys : /\ approvals[b] # None
                                  /\ approvals[b].action = APPROVE_NEW_FAMILY
                                  /\ approvals[b].object = x
    BY DEF Granted
  <1>6. \A x : x \in Granted' <=>
          x \in Granted \/ (c.action = APPROVE_NEW_FAMILY /\ x = c.object)
    BY <1>1, <1>2, <1>3, <1>4, <1>5
  <1> QED BY <1>6

\* Every edge of the transition table is an edge of the gate, or of the research
\* before it.
LEMMA EdgePhases ==
  ASSUME NEW from, NEW to, <<from, to>> \in RULES
  PROVE  \/ from \notin SealedStates /\ to \notin SealedStates
         \/ from \notin SealedStates /\ to = "OOS_RUNNING"
         \/ from = "OOS_RUNNING" /\ to \in {"READY_FOR_PAPER", "REJECTED"}
         \/ from = "READY_FOR_PAPER" /\ to = "PAPER_RUNNING"
         \/ from = "PAPER_RUNNING" /\ to \in {"PAPER_DAILY_PAUSED", "PAPER_MDD_HALTED", "PAPER_DATA_GAP"}
         \/ from \in {"PAPER_DAILY_PAUSED", "PAPER_MDD_HALTED", "PAPER_DATA_GAP"} /\ to = "PAPER_RUNNING"
  <1>1. None \notin SealedStates
    BY DEF States
  <1> QED BY <1>1 DEF RULES, SealedStates, PaperStates

\* A legal transition of run r is the gate's step of its family, or no step of it.
LEMMA CommitRefines ==
  ASSUME IInv, IInv', [Next]_vars, Granted' = Granted,
         NEW r \in Runs, NEW to \in States, NEW n \in KeyNumbers, NEW repaired,
         Legal(r, to, n, repaired), Commit(r, to, n)
  PROVE  Gate!GateNext \/ (FamilyPhase' = FamilyPhase /\ Granted' = Granted)
  <1> PICK f : f = FamilyOf(r)
    OBVIOUS
  <1>1. /\ <<state[r], to>> \in RULES /\ RegisteredRun(r)
        /\ state'[r] = to
        /\ \A s \in Runs : s # r => state'[s] = state[s]
        /\ families' = families
    BY DEF Legal, Commit, research, IInv, TypeOK
  <1>2. f \in Families /\ f \in families
    <2>1. runVersion[r] \in Versions /\ versionFamily[runVersion[r]] # None
      BY <1>1 DEF RegisteredRun, IInv, TypeOK, ReferencesOK
    <2> QED BY <2>1 DEF FamilyOf, IInv, TypeOK, ReferencesOK
  <1>3. \A g : \A s : s \in SealedRuns(g)' <=>
          s \in Runs /\ RegisteredRun(s) /\ FamilyOf(s) = g /\ state'[s] \in SealedStates
    BY SealedNext
  <1>4. \A g : \A s : s \in SealedRuns(g) <=>
          s \in Runs /\ RegisteredRun(s) /\ FamilyOf(s) = g /\ state[s] \in SealedStates
    BY DEF SealedRuns, RunsOf
  <1>5. ASSUME NEW g \in Families, g # f PROVE FamilyPhase'[g] = FamilyPhase[g]
    <2>1. \A s : s \in SealedRuns(g)' <=> s \in SealedRuns(g)
      BY <1>1, <1>3, <1>4, <1>5
    <2>2. \A s \in SealedRuns(g) : state'[s] = state[s]
      BY <1>1, <1>4, <1>5
    <2> QED BY <1>1, <2>1, <2>2, SamePhase
  <1>6. PhaseFacts /\ PhaseFacts'
    BY PhaseIsRuns, PhaseIsRunsNext
  <1>7. CASE state[r] \notin SealedStates /\ to \notin SealedStates
    <2>1. \A s : s \in SealedRuns(f)' <=> s \in SealedRuns(f)
      BY <1>1, <1>3, <1>4, <1>7
    <2>2. \A s \in SealedRuns(f) : state'[s] = state[s]
      BY <1>1, <1>4, <1>7
    <2>3. FamilyPhase'[f] = FamilyPhase[f]
      BY <1>1, <1>2, <2>1, <2>2, SamePhase
    <2> QED BY <1>5, <2>3, SamePhases
  <1>8. CASE state[r] \notin SealedStates /\ to = "OOS_RUNNING"
    <2>1. r \in SealedRuns(f)'
      BY <1>1, <1>3, <1>8 DEF SealedStates
    <2>2. SealedRuns(f) = {}
      <3> SUFFICES ASSUME NEW s \in SealedRuns(f) PROVE FALSE
        OBVIOUS
      <3>1. s # r /\ s \in Runs
        BY <1>4, <1>8
      <3>2. s \in SealedRuns(f)'
        BY <1>1, <1>3, <1>4, <3>1
      <3>3. s = r
        BY <2>1, <3>2 DEF IInv, SealHeld, OneSealedRunPerFamily, SealedRuns, RunsOf
      <3> QED BY <3>1, <3>3
    <2>3. FamilyPhase[f] = "research"
      BY <1>2, <1>6, <2>2 DEF PhaseFacts
    <2>4. FamilyPhase'[f] = "oos"
      BY <1>1, <1>2, <1>6, <1>8, <2>1 DEF PhaseFacts, PhaseOf
    <2>5. FamilyPhase' = [FamilyPhase EXCEPT ![f] = "oos"]
      BY <1>2, <1>5, <2>4, OnePhase
    <2>6. Gate!Unseal(f)
      BY <2>3, <2>5 DEF Gate!Unseal, Gate!Move
    <2> QED BY <1>2, <2>6 DEF Gate!GateNext
  <1>9. ASSUME state[r] \in SealedStates, to \in SealedStates
        PROVE  /\ FamilyPhase[f] = PhaseOf(state[r])
               /\ FamilyPhase' = [FamilyPhase EXCEPT ![f] = PhaseOf(to)]
    <2>1. r \in SealedRuns(f) /\ r \in SealedRuns(f)'
      BY <1>1, <1>3, <1>4, <1>9
    <2>2. FamilyPhase[f] = PhaseOf(state[r])
      BY <1>2, <1>6, <2>1 DEF PhaseFacts
    <2>3. FamilyPhase'[f] = PhaseOf(to)
      BY <1>1, <1>2, <1>6, <2>1 DEF PhaseFacts, PhaseOf
    <2> QED BY <1>2, <1>5, <2>2, <2>3, OnePhase
  <1>10. CASE state[r] = "OOS_RUNNING" /\ to \in {"READY_FOR_PAPER", "REJECTED"}
    <2>1. PhaseOf(state[r]) = "oos" /\ PhaseOf(to) \in {"rejected", "ready"}
      BY <1>10 DEF PhaseOf
    <2>2. Gate!Verdict(f)
      BY <1>9, <1>10, <2>1 DEF Gate!Verdict, Gate!Move, SealedStates
    <2> QED BY <1>2, <2>2 DEF Gate!GateNext
  <1>11. CASE state[r] = "READY_FOR_PAPER" /\ to = "PAPER_RUNNING"
    <2>1. PhaseOf(state[r]) = "ready" /\ PhaseOf(to) = "live"
      BY <1>11 DEF PhaseOf
    <2>2. Gate!Start(f)
      BY <1>9, <1>11, <2>1 DEF Gate!Start, Gate!Move, SealedStates, PaperStates
    <2> QED BY <1>2, <2>2 DEF Gate!GateNext
  <1>12. CASE state[r] = "PAPER_RUNNING"
              /\ to \in {"PAPER_DAILY_PAUSED", "PAPER_MDD_HALTED", "PAPER_DATA_GAP"}
    <2>1. PhaseOf(state[r]) = "live" /\ PhaseOf(to) \in Gate!Suspended
      BY <1>12 DEF PhaseOf, Gate!Suspended
    <2>2. Gate!Suspend(f)
      BY <1>9, <1>12, <2>1 DEF Gate!Suspend, Gate!Move, SealedStates, PaperStates
    <2> QED BY <1>2, <2>2 DEF Gate!GateNext
  <1>13. CASE state[r] \in {"PAPER_DAILY_PAUSED", "PAPER_MDD_HALTED", "PAPER_DATA_GAP"}
              /\ to = "PAPER_RUNNING"
    <2>1. PhaseOf(to) = "live" /\ PhaseOf(state[r]) \in Gate!Suspended
      BY <1>13 DEF PhaseOf, Gate!Suspended
    <2>2. Gate!Resume(f)
      BY <1>9, <1>13, <2>1 DEF Gate!Resume, Gate!Move, SealedStates, PaperStates
    <2> QED BY <1>2, <2>2 DEF Gate!GateNext
  <1> QED BY <1>1, <1>7, <1>8, <1>10, <1>11, <1>12, <1>13, EdgePhases

\* An operation that writes no transition moves no family that existed.
LEMMA QuietPhases ==
  ASSUME IInv, IInv', [Next]_vars, UNCHANGED lifecycle, NEW f \in Families,
         f \in families' <=> f \in families
  PROVE  FamilyPhase'[f] = FamilyPhase[f]
  <1>1. state' = state
    BY DEF lifecycle
  <1>2. \A r : r \in SealedRuns(f)' <=> r \in SealedRuns(f)
    BY <1>1, SealedNext DEF SealedRuns, RunsOf
  <1> QED BY <1>1, <1>2, SamePhase

\* The rejected families of the rows are those of the gate.
LEMMA RejectedAgree == RInv => RejectedFamilies = Gate!Rejected
  <1> SUFFICES ASSUME RInv PROVE RejectedFamilies = Gate!Rejected
    OBVIOUS
  <1>1. PhaseFacts
    BY PhaseIsRuns DEF RInv
  <1>2. ASSUME NEW g \in RejectedFamilies PROVE g \in Gate!Rejected
    <2>1. PICK k \in rows : k.to = "REJECTED" /\ g = FamilyOf(k.run)
      BY <1>2 DEF RejectedFamilies
    <2> DEFINE r == k.run
    <2>2. r \in Runs /\ state[r] = "REJECTED"
      BY <2>1 DEF RInv, IInv, TypeOK, Key, RejectionTerminal
    <2>3. RegisteredRun(r)
      BY <2>2 DEF RInv, IInv, ReferencesOK, States, SealedStates
    <2>4. g \in Families
      BY <2>1, <2>2, <2>3 DEF RegisteredRun, FamilyOf, RInv, IInv, TypeOK, ReferencesOK
    <2>5. r \in SealedRuns(g)
      BY <2>1, <2>2, <2>3 DEF SealedRuns, RunsOf, SealedStates
    <2>6. FamilyPhase[g] = "rejected"
      BY <1>1, <2>2, <2>4, <2>5 DEF PhaseFacts, PhaseOf
    <2> QED BY <2>4, <2>6 DEF Gate!Rejected
  <1>3. ASSUME NEW g \in Gate!Rejected PROVE g \in RejectedFamilies
    <2>1. g \in Families /\ FamilyPhase[g] = "rejected"
      BY <1>3 DEF Gate!Rejected
    <2>2. PICK r \in SealedRuns(g) : TRUE
      BY <1>1, <2>1 DEF PhaseFacts
    <2>3. r \in Runs /\ FamilyOf(r) = g /\ state[r] \in SealedStates
      BY <2>2 DEF SealedRuns, RunsOf
    <2>4. state[r] = "REJECTED"
      <3>1. PhaseOf(state[r]) = "rejected"
        BY <1>1, <2>1, <2>2 DEF PhaseFacts
      <3> QED BY <2>3, <3>1 DEF PhaseOf, SealedStates, PaperStates
    <2>5. state[r] # None
      BY <2>3 DEF States
    <2>6. PICK k \in rows : k.run = r /\ k.to = "REJECTED"
      BY <2>3, <2>4, <2>5 DEF RInv, StateHasRow
    <2> QED BY <2>3, <2>6 DEF RejectedFamilies
  <1> QED BY <1>2, <1>3

\* A family is opened by create_family or approve_new_family.
LEMMA OpenRefines ==
  ASSUME RInv, RInv', [Next]_vars, UNCHANGED lifecycle, NEW f \in Families,
         f \notin families, families' = families \union {f},
         \/ RejectedFamilies = {} /\ Granted' = Granted
         \/ \E g \in RejectedFamilies : Granted' = Granted \union {<<g, f>>}
  PROVE  Gate!GateNext
  <1>1. PhaseFacts /\ PhaseFacts'
    BY PhaseIsRuns, PhaseIsRunsNext DEF RInv
  <1>2. FamilyPhase[f] = "absent"
    BY <1>1 DEF PhaseFacts
  <1>3. SealedRuns(f)' = {}
    <2> SUFFICES ASSUME NEW r \in SealedRuns(f)' PROVE FALSE
      OBVIOUS
    <2>1. r \in SealedRuns(f)
      BY SealedNext DEF RInv, lifecycle, SealedRuns, RunsOf
    <2> QED BY <1>1, <2>1 DEF PhaseFacts
  <1>4. FamilyPhase'[f] = "research"
    BY <1>1, <1>3 DEF PhaseFacts
  <1>5. \A g \in Families : g # f => FamilyPhase'[g] = FamilyPhase[g]
    BY QuietPhases DEF RInv
  <1>6. FamilyPhase' = [FamilyPhase EXCEPT ![f] = "research"]
    BY <1>4, <1>5, OnePhase
  <1>7. Gate!Open(f)
    BY <1>2, <1>6, RejectedAgree DEF Gate!Open, Gate!Move
  <1> QED BY <1>7 DEF Gate!GateNext

LEMMA StepRefines == RInv /\ RInv' /\ [Next]_vars => [Gate!GateNext]_(Gate!gateVars)
  <1> DEFINE Goal == Gate!GateNext \/ (FamilyPhase' = FamilyPhase /\ Granted' = Granted)
  <1> SUFFICES ASSUME RInv, RInv', [Next]_vars PROVE Goal
    BY DEF Gate!gateVars
  <1>1. IInv /\ IInv' /\ TypeOK
    BY DEF RInv, IInv
  <1>2. ASSUME UNCHANGED <<lifecycle, families, approvals>> PROVE Goal
    <2>1. \A g \in Families : FamilyPhase'[g] = FamilyPhase[g]
      BY <1>1, <1>2, QuietPhases
    <2>2. Granted' = Granted
      BY <1>2 DEF Granted
    <2> QED BY <2>1, <2>2, SamePhases
  <1>3. ASSUME NEW f \in Families, CreateFamily(f) PROVE Goal
    <2>1. Granted' = Granted
      BY <1>3 DEF CreateFamily, Granted
    <2> QED BY <1>3, <2>1, OpenRefines DEF CreateFamily
  <1>4. ASSUME NEW a \in ApprovalKeys, NEW c \in RunCommand, Recordable(a, c),
               approvals' = [approvals EXCEPT ![a] = c]
        PROVE  Granted' = Granted
    <2>1. c \in Command /\ c.action # APPROVE_NEW_FAMILY
      BY DEF Command, RunCommand, APPROVAL_ACTIONS, APPROVE_NEW_FAMILY
    <2> QED BY <1>1, <1>4, <2>1, RecordedGrant
  <1>5. ASSUME NEW a \in ApprovalKeys, NEW c \in RunCommand, RecordApproval(a, c) PROVE Goal
    <2>1. Granted' = Granted
      BY <1>4, <1>5 DEF RecordApproval, ValidApproval
    <2>2. \A g \in Families : FamilyPhase'[g] = FamilyPhase[g]
      BY <1>1, <1>5, QuietPhases DEF RecordApproval, research
    <2> QED BY <2>1, <2>2, SamePhases
  <1>6. ASSUME NEW a \in ApprovalKeys, NEW c \in FamilyCommand, ApproveNewFamily(a, c) PROVE Goal
    <2> DEFINE f == c.object[2]
    <2>1. /\ c \in Command /\ c.action = APPROVE_NEW_FAMILY
          /\ f \in Families /\ c.object = <<c.object[1], f>>
      BY DEF Command, FamilyCommand
    <2>2. /\ c.object[1] \in RejectedFamilies /\ Recordable(a, c)
          /\ approvals' = [approvals EXCEPT ![a] = c]
          /\ f \notin families /\ families' = families \union {f}
          /\ UNCHANGED lifecycle
      BY <1>6 DEF ApproveNewFamily
    <2>3. Granted' = Granted \union {c.object}
      BY <1>1, <2>1, <2>2, RecordedGrant
    <2>4. \E g \in RejectedFamilies : Granted' = Granted \union {<<g, f>>}
      BY <2>1, <2>2, <2>3
    <2> QED BY <2>1, <2>2, <2>4, OpenRefines
  <1>7. ASSUME NEW r \in Runs, NEW to \in States, NEW n \in KeyNumbers, Transition(r, to, n)
        PROVE  Goal
    <2>1. Granted' = Granted
      BY <1>7 DEF Transition, Granted
    <2> QED BY <1>1, <1>7, <2>1, CommitRefines DEF Transition
  <1>8. ASSUME NEW r \in Runs, NEW n \in KeyNumbers, NEW a \in ApprovalKeys, NEW c \in RunCommand,
               NEW repaired \in BOOLEAN,
               ApprovedTransition(r, "PAPER_RUNNING", n, a, c, repaired)
        PROVE  Goal
    <2>1. Granted' = Granted
      BY <1>4, <1>8 DEF ApprovedTransition, ValidApproval
    <2>2. "PAPER_RUNNING" \in States
      BY DEF States, SealedStates, PaperStates
    <2> QED BY <1>1, <1>8, <2>1, <2>2, CommitRefines DEF ApprovedTransition
  <1>9. CASE \/ \E v \in Versions, f \in Families : RegisterVersion(v, f)
             \/ \E r \in Runs, v \in Versions : CreateRun(r, v)
             \/ Tick
             \/ UNCHANGED vars
    <2>1. UNCHANGED <<lifecycle, families, approvals>>
      BY <1>9 DEF RegisterVersion, CreateRun, Tick, vars, research
    <2> QED BY <1>2, <2>1
  <1> HIDE DEF Goal
  <1> QED BY <1>3, <1>5, <1>6, <1>7, <1>8, <1>9 DEF Next

LEMMA InitRefines == Init => Gate!GateInit
  BY DEF Init, FamilyPhase, Granted, Gate!GateInit

\* The database keeps the gate of every family: one unsealing, a terminal
\* rejection, suspension only from live trading, and after a rejection new
\* families only by the owner's grant.
THEOREM Refinement == Spec => ImplementsFamilyGate
  BY RowsTellState, InitRefines, StepRefines, PTL
     DEF Spec, ImplementsFamilyGate, Gate!GateSpec
=============================================================================
