------------------------- MODULE ResearchLoopProofs -------------------------
(***************************************************************************)
(* Proofs about ResearchLoop, for any callers, families, runs and budgets.  *)
(* A call acts on what it read some steps ago; the invariant says what is   *)
(* still true of its run by then: that it is registered, that its bundle is *)
(* stored once the call is on its way to the seal, and that it is past the  *)
(* seal, for good, once the call looks at the sealed evidence.              *)
(***************************************************************************)
EXTENDS ResearchLoop, TLAPS

Sealed(r) == state[r] \in SealedStates
HasBundle(r) == "development" \in stored[r]

\* Runs are of existing families, calls and states of registered runs.
RunsOK ==
  /\ \A r \in Runs : runFamily[r] # None => runFamily[r] \in families
  /\ \A r \in Runs : state[r] # None => runFamily[r] # None
  /\ \A p \in Callers : pc[p] # "idle" => job[p] \in Runs /\ runFamily[job[p]] # None

\* A run past the seal has its family's sealed unit, and is the only such run;
\* one that took OOS_RUNNING once is past the seal.
SealHeld ==
  /\ \A r \in Runs : Sealed(r) => oosUsed[runFamily[r]] = MaxOos
  /\ \A r, s \in Runs : Sealed(r) /\ Sealed(s) /\ runFamily[r] = runFamily[s] => r = s
  /\ \A r \in Runs : "OOS_RUNNING" \in taken[r] => Sealed(r)

\* What sealed evidence was looked at is that of runs past the seal.
OutcomeSealed == \A r \in Runs : outcome[r] # None => Sealed(r)

\* What a call relies on from its earlier steps.
CallsOK ==
  \A p \in Callers :
    /\ pc[p] \in {"oos", "unseal", "request"} => HasBundle(job[p])
    /\ pc[p] = "verdict" => Sealed(job[p])

IInv ==
  /\ TypeOK /\ RunsOK /\ SealHeld /\ OutcomeSealed /\ CallsOK
  /\ SealedRunHasEvidence /\ RequestHasBundle

USE LoopAssumption DEF LoopAssumption
-----------------------------------------------------------------------------
(* One transition *)

\* The seal is entered by OOS_RUNNING alone, for a unit of the sealed budget,
\* and not left.
LEMMA RulesAndSeal ==
  ASSUME NEW from \in States \union {None}, NEW to \in States, <<from, to>> \in RULES
  PROVE  /\ from \in SealedStates => to \in SealedStates /\ to # "OOS_RUNNING"
         /\ from \notin SealedStates /\ to \in SealedStates => to = "OOS_RUNNING"
  BY DEF RULES, States, SealedStates, ResearchStates, PaperStates

LEMMA ChargeInRange ==
  ASSUME NEW limit \in Nat, NEW used \in [Families -> 0..limit], NEW f, used[f] < limit
  PROVE  [used EXCEPT ![f] = @ + 1] \in [Families -> 0..limit]
  <1> SUFFICES ASSUME NEW g \in Families
               PROVE  [used EXCEPT ![f] = @ + 1][g] \in 0..limit
    OBVIOUS
  <1>1. used[g] \in 0..limit
    OBVIOUS
  <1>2. CASE g = f
    BY <1>1, <1>2
  <1>3. CASE g # f
    BY <1>1, <1>3
  <1> QED BY <1>2, <1>3

LEMMA TakeOK ==
  ASSUME IInv, NEW r \in Runs, NEW to \in States, runFamily[r] # None,
         runFamily' = runFamily, Take(r, to)
  PROVE  /\ state' = [state EXCEPT ![r] = to] /\ state' \in [Runs -> States \union {None}]
         /\ taken' \in [Runs -> SUBSET States] /\ to \in taken'[r]
         /\ perfUsed' \in [Families -> 0..MaxPerf] /\ oosUsed' \in [Families -> 0..MaxOos]
         /\ \A s \in Runs : Sealed(s) => Sealed(s)'
         /\ Sealed(r)' /\ ~Sealed(r) => to = "OOS_RUNNING"
         /\ SealHeld'
  <1> DEFINE f == runFamily[r]
  <1>1. f \in Families /\ state[r] \in States \union {None} /\ <<state[r], to>> \in RULES
    BY DEF IInv, TypeOK, Take, Legal
  <1>2. state' = [state EXCEPT ![r] = to] /\ state' \in [Runs -> States \union {None}]
    BY DEF IInv, TypeOK, Take
  <1>3. taken' = [taken EXCEPT ![r] = @ \union {to}] /\ taken' \in [Runs -> SUBSET States]
    BY DEF IInv, TypeOK, Take
  <1>4. perfUsed' \in [Families -> 0..MaxPerf]
    <2>1. CASE SpendsPerformance(to)
      <3>1. perfUsed[f] < MaxPerf /\ perfUsed' = [perfUsed EXCEPT ![f] = @ + 1]
        BY <2>1 DEF Take, Legal, BudgetLeft
      <3> QED BY <3>1, ChargeInRange DEF IInv, TypeOK
    <2>2. CASE ~SpendsPerformance(to)
      BY <2>2 DEF Take, IInv, TypeOK
    <2> QED BY <2>1, <2>2
  <1>5. CASE to = "OOS_RUNNING"
    <2>1. ~Sealed(r) /\ to \in SealedStates
      BY <1>1, <1>5, RulesAndSeal DEF Sealed, SealedStates
    <2>2. oosUsed[f] = 0 /\ oosUsed' = [oosUsed EXCEPT ![f] = 1]
      <3>1. oosUsed[f] < 1 /\ oosUsed[f] \in 0..1
        BY <1>1, <1>5 DEF Take, Legal, BudgetLeft, SpendsOos, MaxOos, IInv, TypeOK
      <3>2. oosUsed' = [oosUsed EXCEPT ![f] = oosUsed[f] + 1]
        BY <1>5 DEF Take, SpendsOos
      <3>3. oosUsed[f] = 0 /\ oosUsed[f] + 1 = 1
        BY <3>1
      <3> HIDE DEF f
      <3> QED BY <3>2, <3>3
    <2>3. \A s \in Runs : runFamily[s] = f => ~Sealed(s)
      BY <2>2 DEF IInv, SealHeld, MaxOos
    <2>4. oosUsed' \in [Families -> 0..MaxOos]
      BY <2>2 DEF IInv, TypeOK, MaxOos
    <2>5. \A s \in Runs : Sealed(s)' <=> (s = r \/ Sealed(s))
      BY <1>2, <2>1 DEF Sealed, IInv, TypeOK
    <2>6. \A s \in Runs : Sealed(s)' => oosUsed'[runFamily[s]] = MaxOos
      BY <1>1, <2>2, <2>5 DEF IInv, TypeOK, SealHeld, MaxOos
    <2>7. \A s, t \in Runs : Sealed(s)' /\ Sealed(t)' /\ runFamily[s] = runFamily[t] => s = t
      BY <2>3, <2>5 DEF IInv, SealHeld
    <2>8. \A s \in Runs : "OOS_RUNNING" \in taken'[s] => Sealed(s)'
      BY <1>3, <2>5 DEF IInv, TypeOK, SealHeld
    <2> QED BY <1>2, <1>3, <1>4, <1>5, <2>4, <2>5, <2>6, <2>7, <2>8 DEF SealHeld, IInv, TypeOK
  <1>6. CASE to # "OOS_RUNNING"
    <2>1. oosUsed' = oosUsed
      BY <1>6 DEF Take, SpendsOos
    <2>2. Sealed(r) <=> to \in SealedStates
      BY <1>1, <1>6, RulesAndSeal DEF Sealed
    <2>3. \A s \in Runs : Sealed(s)' <=> Sealed(s)
      BY <1>2, <2>2 DEF Sealed, IInv, TypeOK
    <2>4. \A s \in Runs : "OOS_RUNNING" \in taken'[s] => "OOS_RUNNING" \in taken[s]
      BY <1>3, <1>6 DEF IInv, TypeOK
    <2>5. SealHeld'
      BY <2>1, <2>3, <2>4 DEF IInv, SealHeld
    <2> QED BY <1>2, <1>3, <1>4, <2>1, <2>3, <2>5 DEF IInv, TypeOK
  <1> QED BY <1>5, <1>6

\* What a caller's _step does to the runs and to the caller.
LEMMA StepOK ==
  ASSUME IInv, NEW p \in Callers, pc[p] # "idle", NEW to \in States, NEW next \in Steps,
         runFamily' = runFamily, Step(p, to, next)
  PROVE  /\ state' \in [Runs -> States \union {None}] /\ taken' \in [Runs -> SUBSET States]
         /\ perfUsed' \in [Families -> 0..MaxPerf] /\ oosUsed' \in [Families -> 0..MaxOos]
         /\ \A r \in Runs : r # job[p] => state'[r] = state[r]
         /\ state'[job[p]] \in {state[job[p]], to}
         /\ \A r \in Runs : Sealed(r) => Sealed(r)'
         /\ \A r \in Runs : Sealed(r)' /\ ~Sealed(r) => r = job[p] /\ to = "OOS_RUNNING"
         /\ SealHeld'
         /\ pc' \in [Callers -> Steps] /\ job' \in [Callers -> Runs \union {None}]
         /\ \A q \in Callers : q # p => pc'[q] = pc[q] /\ job'[q] = job[q]
         /\ \/ pc'[p] = "idle"
            \/ pc'[p] = next /\ job'[p] = job[p] /\ to \in taken'[job[p]]
  <1> DEFINE r == job[p]
  <1>1. r \in Runs /\ runFamily[r] # None
    BY DEF IInv, RunsOK
  <1>2. \/ pc' = [pc EXCEPT ![p] = "idle"] /\ job' = [job EXCEPT ![p] = None]
        \/ pc' = [pc EXCEPT ![p] = next] /\ job' = job /\ (Take(r, to) \/ Repeat(r, to))
    BY DEF Step, Goto, Leave
  <1>3. /\ pc' \in [Callers -> Steps] /\ job' \in [Callers -> Runs \union {None}]
        /\ \A q \in Callers : q # p => pc'[q] = pc[q] /\ job'[q] = job[q]
        /\ \/ pc'[p] = "idle"
           \/ pc'[p] = next /\ job'[p] = job[p] /\ (Take(r, to) \/ Repeat(r, to))
    BY <1>2 DEF IInv, TypeOK, Steps
  <1>4. CASE Take(r, to)
    <2>1. state' = [state EXCEPT ![r] = to] /\ to \in taken'[r]
      BY <1>1, <1>4, TakeOK
    <2>2. \A s \in Runs : s # r => state'[s] = state[s]
      BY <2>1 DEF IInv, TypeOK
    <2>3. state'[r] = to
      BY <1>1, <2>1 DEF IInv, TypeOK
    <2>4. \A s \in Runs : Sealed(s)' /\ ~Sealed(s) => s = r /\ to = "OOS_RUNNING"
      <3>1. state[r] \in States \union {None} /\ <<state[r], to>> \in RULES
        BY <1>1, <1>4 DEF Take, Legal, IInv, TypeOK
      <3>2. to \in SealedStates /\ state[r] \notin SealedStates => to = "OOS_RUNNING"
        BY <3>1, RulesAndSeal
      <3> QED BY <2>2, <2>3, <3>2 DEF Sealed
    <2> HIDE DEF r
    <2> QED BY <1>1, <1>3, <1>4, <2>1, <2>2, <2>3, <2>4, TakeOK DEF r
  <1>5. CASE ~Take(r, to)
    <2>1. UNCHANGED lifecycle
      BY <1>5 DEF Step, Repeat
    <2>2. pc'[p] = "idle" \/ to \in taken'[r]
      BY <1>3, <1>5 DEF Repeat, lifecycle
    <2>3. state' = state /\ taken' = taken /\ perfUsed' = perfUsed /\ oosUsed' = oosUsed
      BY <2>1 DEF lifecycle, budgets
    <2>4. SealHeld'
      BY <2>3 DEF IInv, SealHeld, Sealed
    <2> QED BY <1>3, <2>2, <2>3, <2>4 DEF IInv, TypeOK, Sealed
  <1> QED BY <1>4, <1>5
-----------------------------------------------------------------------------
(* The invariant *)

LEMMA InitIInv == Init => IInv
  <1> SUFFICES ASSUME Init PROVE IInv
    OBVIOUS
  <1>1. TypeOK
    BY DEF Init, TypeOK, Steps, MaxOos
  <1>2. None \notin SealedStates
    BY DEF States
  <1>3. \A r \in Runs : ~Sealed(r)
    BY <1>2 DEF Init, Sealed
  <1>4. RunsOK /\ SealHeld /\ OutcomeSealed /\ CallsOK /\ RequestHasBundle
    BY <1>3 DEF Init, RunsOK, SealHeld, OutcomeSealed, CallsOK, RequestHasBundle
  <1>5. SealedRunHasEvidence
    BY <1>3 DEF SealedRunHasEvidence, Sealed, SealedStates
  <1> QED BY <1>1, <1>4, <1>5 DEF IInv

\* A caller's step that takes an edge and stores nothing, other than a verdict.
LEMMA StepIInv ==
  ASSUME IInv, NEW p \in Callers, pc[p] # "idle",
         NEW to \in States \ {"READY_FOR_PAPER", "REJECTED"},
         NEW next \in Steps \ {"oos", "unseal", "request"},
         to = "OOS_RUNNING" => HasBundle(job[p]),
         next = "verdict" => to = "OOS_RUNNING",
         Step(p, to, next), UNCHANGED Rest
  PROVE  IInv'
  <1>1. /\ families' = families /\ runFamily' = runFamily /\ stored' = stored
        /\ requested' = requested /\ outcome' = outcome
        /\ errors' = errors /\ crashes' = crashes
    BY DEF Rest
  <1>2. job[p] \in Runs /\ runFamily[job[p]] # None
    BY DEF IInv, RunsOK
  <1>3. TypeOK'
    BY <1>1, StepOK DEF IInv, TypeOK
  <1>4. RunsOK'
    <2>1. \A r \in Runs : state'[r] # None => runFamily[r] # None
      BY <1>1, <1>2, StepOK DEF IInv, RunsOK
    <2>2. \A q \in Callers : pc'[q] # "idle" => job'[q] = job[q] /\ pc[q] # "idle"
      BY <1>1, StepOK
    <2> QED BY <1>1, <2>1, <2>2 DEF IInv, RunsOK
  <1>5. SealHeld'
    BY <1>1, StepOK
  <1>6. OutcomeSealed'
    BY <1>1, StepOK DEF IInv, OutcomeSealed
  <1>7. CallsOK'
    <2> SUFFICES ASSUME NEW q \in Callers
                 PROVE  /\ pc'[q] \in {"oos", "unseal", "request"} => "development" \in stored'[job'[q]]
                        /\ pc'[q] = "verdict" => state'[job'[q]] \in SealedStates
      BY DEF CallsOK, HasBundle, Sealed
    <2>1. CASE q # p
      <3>1. pc'[q] = pc[q] /\ job'[q] = job[q]
        BY <1>1, <2>1, StepOK
      <3>2. pc[q] = "verdict" => job[q] \in Runs /\ Sealed(job[q])
        BY DEF IInv, RunsOK, CallsOK
      <3>3. \A r \in Runs : Sealed(r) => state'[r] \in SealedStates
        BY <1>1, StepOK DEF Sealed
      <3> QED BY <1>1, <3>1, <3>2, <3>3 DEF IInv, CallsOK, HasBundle
    <2>2. CASE q = p
      <3>1. pc'[p] = "idle" \/ (pc'[p] = next /\ job'[p] = job[p] /\ to \in taken'[job[p]])
        BY <1>1, StepOK
      <3>2. \A r \in Runs : "OOS_RUNNING" \in taken'[r] => state'[r] \in SealedStates
        BY <1>5 DEF SealHeld, Sealed
      <3> QED BY <1>2, <2>2, <3>1, <3>2
    <2> QED BY <2>1, <2>2
  <1>8. SealedRunHasEvidence'
    <2> SUFFICES ASSUME NEW r \in Runs
                 PROVE  /\ state'[r] \in SealedStates => "development" \in stored[r]
                        /\ state'[r] \in {"READY_FOR_PAPER", "REJECTED"} => state'[r] = outcome[r]
      BY <1>1 DEF SealedRunHasEvidence
    <2>1. state'[r] = state[r] \/ state'[r] = to
      BY <1>1, StepOK
    <2>2. state'[r] \in SealedStates /\ state[r] \notin SealedStates =>
            r = job[p] /\ to = "OOS_RUNNING"
      BY <1>1, StepOK DEF Sealed
    <2> QED BY <2>1, <2>2 DEF IInv, SealedRunHasEvidence, HasBundle
  <1>9. RequestHasBundle'
    BY <1>1 DEF IInv, RequestHasBundle
  <1> QED BY <1>3, <1>4, <1>5, <1>6, <1>7, <1>8, <1>9 DEF IInv

\* A caller's step between transitions: it goes to step s with run j, and may
\* store and request.
LEMMA MoveIInv ==
  ASSUME IInv, NEW p \in Callers, NEW s \in Steps, NEW j \in Runs \union {None},
         pc' = [pc EXCEPT ![p] = s], job' = [job EXCEPT ![p] = j],
         s # "idle" => j \in Runs /\ runFamily[j] # None,
         s \in {"oos", "unseal", "request"} => "development" \in stored'[j],
         s = "verdict" => Sealed(j),
         UNCHANGED <<families, runFamily, lifecycle, outcome>>,
         stored' \in [Runs -> SUBSET Kinds], \A r \in Runs : stored[r] \subseteq stored'[r],
         requested' \subseteq Runs, \A r \in requested' : "development" \in stored'[r],
         errors' \in 0..MaxErrors, crashes' \in 0..MaxCrashes
  PROVE  IInv'
  <1>1. /\ families' = families /\ runFamily' = runFamily /\ outcome' = outcome
        /\ state' = state /\ taken' = taken /\ perfUsed' = perfUsed /\ oosUsed' = oosUsed
    BY DEF lifecycle, budgets
  <1>2. /\ pc'[p] = s /\ job'[p] = j
        /\ \A q \in Callers : q # p => pc'[q] = pc[q] /\ job'[q] = job[q]
    BY DEF IInv, TypeOK
  <1>3. TypeOK'
    BY <1>1 DEF IInv, TypeOK
  <1>4. RunsOK'
    BY <1>1, <1>2 DEF IInv, RunsOK
  <1>5. SealHeld' /\ OutcomeSealed'
    BY <1>1 DEF IInv, SealHeld, OutcomeSealed, Sealed
  <1>6. CallsOK'
    <2> SUFFICES ASSUME NEW q \in Callers
                 PROVE  /\ pc'[q] \in {"oos", "unseal", "request"} => "development" \in stored'[job'[q]]
                        /\ pc'[q] = "verdict" => state[job'[q]] \in SealedStates
      BY <1>1 DEF CallsOK, HasBundle, Sealed
    <2>1. CASE q = p
      BY <1>2, <2>1 DEF Sealed
    <2>2. CASE q # p
      BY <1>2, <2>2 DEF IInv, RunsOK, CallsOK, HasBundle, Sealed
    <2> QED BY <2>1, <2>2
  <1>7. SealedRunHasEvidence' /\ RequestHasBundle'
    BY <1>1 DEF IInv, SealedRunHasEvidence, RequestHasBundle
  <1> QED BY <1>3, <1>4, <1>5, <1>6, <1>7 DEF IInv

LEMMA BeginIInv ==
  ASSUME IInv, NEW p \in Callers, NEW r \in Runs, NEW f \in Families, Begin(p, r, f)
  PROVE  IInv'
  <1>1. /\ runFamily' = [runFamily EXCEPT ![r] = f] /\ runFamily[r] = None
        /\ state' = state /\ taken' = taken /\ perfUsed' = perfUsed /\ oosUsed' = oosUsed
        /\ stored' = stored /\ requested' = requested /\ outcome' = outcome
        /\ pc' = [pc EXCEPT ![p] = "draft"] /\ job' = [job EXCEPT ![p] = r]
    BY DEF Begin, lifecycle, budgets
  <1>2. state[r] = None /\ None \notin SealedStates
    BY <1>1 DEF IInv, RunsOK, States
  <1>3. \A s \in Runs : Sealed(s) => s # r /\ runFamily'[s] = runFamily[s]
    BY <1>1, <1>2 DEF Sealed, IInv, TypeOK
  <1>4. TypeOK'
    BY <1>1 DEF Begin, IInv, TypeOK, Steps
  <1>5. RunsOK'
    <2>1. families' = families \union {f}
      BY DEF Begin
    <2> QED BY <1>1, <2>1 DEF IInv, TypeOK, RunsOK
  <1>6. SealHeld'
    BY <1>1, <1>3 DEF IInv, SealHeld, Sealed
  <1>7. CallsOK'
    BY <1>1 DEF IInv, TypeOK, CallsOK, HasBundle, Sealed
  <1>8. OutcomeSealed' /\ SealedRunHasEvidence' /\ RequestHasBundle'
    BY <1>1 DEF IInv, OutcomeSealed, SealedRunHasEvidence, RequestHasBundle, Sealed
  <1> QED BY <1>4, <1>5, <1>6, <1>7, <1>8 DEF IInv

\* A verdict is that of the sealed evidence, for a run past the seal.
LEMMA EvaluateSealedIInv ==
  ASSUME IInv, NEW p \in Callers, EvaluateSealed(p)
  PROVE  IInv'
  <1> DEFINE r == job[p]
  <1>1. PICK to \in {"READY_FOR_PAPER", "REJECTED"} :
          /\ outcome[r] \in {None, to} /\ outcome' = [outcome EXCEPT ![r] = to]
          /\ Step(p, to, "persist_oos")
    BY DEF EvaluateSealed
  <1>2. /\ pc[p] = "verdict" /\ families' = families /\ runFamily' = runFamily
        /\ stored' = stored /\ requested' = requested
        /\ errors' = errors /\ crashes' = crashes
    BY DEF EvaluateSealed
  <1>3. r \in Runs /\ runFamily[r] # None /\ Sealed(r)
    BY <1>2 DEF IInv, RunsOK, CallsOK
  <1>4. to \in States /\ to # "OOS_RUNNING" /\ "persist_oos" \in Steps /\ pc[p] # "idle"
    BY <1>2 DEF States, SealedStates, Steps
  <1>5. /\ state' \in [Runs -> States \union {None}] /\ taken' \in [Runs -> SUBSET States]
        /\ perfUsed' \in [Families -> 0..MaxPerf] /\ oosUsed' \in [Families -> 0..MaxOos]
        /\ \A x \in Runs : x # r => state'[x] = state[x]
        /\ state'[r] \in {state[r], to}
        /\ \A x \in Runs : state[x] \in SealedStates <=> state'[x] \in SealedStates
        /\ SealHeld'
        /\ pc' \in [Callers -> Steps] /\ job' \in [Callers -> Runs \union {None}]
        /\ \A q \in Callers : q # p => pc'[q] = pc[q] /\ job'[q] = job[q]
        /\ \/ pc'[p] = "idle"
           \/ pc'[p] = "persist_oos" /\ job'[p] = r
    BY <1>1, <1>2, <1>4, StepOK DEF Sealed
  <1> HIDE DEF r
  <1>6. outcome' \in [Runs -> {None, "READY_FOR_PAPER", "REJECTED"}]
    BY <1>1 DEF IInv, TypeOK
  <1>7. TypeOK'
    BY <1>2, <1>5, <1>6 DEF IInv, TypeOK
  <1>8. RunsOK'
    BY <1>2, <1>3, <1>5 DEF IInv, RunsOK
  <1>9. OutcomeSealed'
    BY <1>1, <1>3, <1>5 DEF IInv, TypeOK, OutcomeSealed, Sealed
  <1>10. CallsOK'
    BY <1>2, <1>5 DEF IInv, RunsOK, CallsOK, HasBundle, Sealed
  <1>11. SealedRunHasEvidence'
    <2> SUFFICES ASSUME NEW x \in Runs
                 PROVE  /\ state'[x] \in SealedStates => "development" \in stored[x]
                        /\ state'[x] \in {"READY_FOR_PAPER", "REJECTED"} => state'[x] = outcome'[x]
      BY <1>2 DEF SealedRunHasEvidence
    <2>1. CASE x # r
      BY <1>1, <1>5, <2>1 DEF IInv, TypeOK, SealedRunHasEvidence
    <2>2. CASE x = r
      <3>1. outcome'[r] = to
        BY <1>1, <1>3 DEF IInv, TypeOK
      <3>2. "development" \in stored[r]
        BY <1>3 DEF IInv, SealedRunHasEvidence, Sealed
      <3>3. state[r] \in {"READY_FOR_PAPER", "REJECTED"} => state[r] = to
        <4>1. None \notin {"READY_FOR_PAPER", "REJECTED"}
          BY DEF States, SealedStates
        <4> QED BY <1>1, <1>3, <4>1 DEF IInv, SealedRunHasEvidence
      <3> QED BY <1>5, <2>2, <3>1, <3>2, <3>3
    <2> QED BY <2>1, <2>2
  <1>12. RequestHasBundle'
    BY <1>2 DEF IInv, RequestHasBundle
  <1> QED BY <1>5, <1>7, <1>8, <1>9, <1>10, <1>11, <1>12 DEF IInv

LEMMA RerunIInv ==
  ASSUME IInv, NEW r \in Runs, Rerun(r)
  PROVE  IInv'
  <1>1. /\ state' = [state EXCEPT ![r] = "DEVELOPMENT_RUNNING"]
        /\ state[r] \in {"RUN_ERROR", "DATA_BLOCKED"}
        /\ taken' = taken /\ perfUsed' = perfUsed /\ oosUsed' = oosUsed
        /\ pc' = pc /\ job' = job
        /\ families' = families /\ runFamily' = runFamily /\ stored' = stored
        /\ requested' = requested /\ outcome' = outcome
        /\ errors' = errors /\ crashes' = crashes
    BY DEF Rerun, budgets, caller, Rest
  <1>2. \A s \in Runs : state'[s] \in SealedStates <=> state[s] \in SealedStates
    BY <1>1 DEF IInv, TypeOK, SealedStates, PaperStates
  <1>3. TypeOK'
    BY <1>1 DEF IInv, TypeOK, States, ResearchStates
  <1>4. RunsOK'
    <2>1. state[r] # None
      BY <1>1 DEF States, ResearchStates
    <2> QED BY <1>1, <2>1 DEF IInv, TypeOK, RunsOK
  <1>5. SealHeld' /\ OutcomeSealed'
    BY <1>1, <1>2 DEF IInv, SealHeld, OutcomeSealed, Sealed
  <1>6. CallsOK'
    BY <1>1, <1>2 DEF IInv, RunsOK, CallsOK, HasBundle, Sealed
  <1>7. SealedRunHasEvidence'
    <2>1. \A s \in Runs : state'[s] \in {"READY_FOR_PAPER", "REJECTED"} => state'[s] = state[s]
      BY <1>1 DEF IInv, TypeOK
    <2> QED BY <1>1, <1>2, <2>1 DEF IInv, SealedRunHasEvidence
  <1>8. RequestHasBundle'
    BY <1>1 DEF IInv, RequestHasBundle
  <1> QED BY <1>3, <1>4, <1>5, <1>6, <1>7, <1>8 DEF IInv

\* The steps of a call, by the lemma that fits each.
LEMMA CallStepIInv ==
  ASSUME IInv, NEW p \in Callers, CallStep(p)
  PROVE  IInv'
  <1>1. CASE Draft(p)
    BY <1>1, StepIInv DEF Draft, States, ResearchStates, Steps
  <1>2. CASE Develop(p)
    BY <1>2, StepIInv DEF Develop, States, ResearchStates, Steps
  <1>3. CASE TechnicalFailure(p)
    BY <1>3, StepIInv DEF TechnicalFailure, States, ResearchStates, Steps
  <1>4. CASE DevelopmentFails(p)
    BY <1>4, StepIInv DEF DevelopmentFails, Rest, States, ResearchStates, Steps
  <1>5. CASE Unseal(p)
    BY <1>5, StepIInv DEF Unseal, IInv, CallsOK, States, SealedStates, Steps
  <1>6. CASE Propose(p)
    BY <1>6, StepIInv DEF Propose, States, ResearchStates, Steps
  <1>7. CASE EvaluateSealed(p)
    BY <1>7, EvaluateSealedIInv
  <1>8. ASSUME NEW s \in Steps, Goto(p, s) \/ (s = "idle" /\ Leave(p)),
               pc[p] # "idle",
               s \in {"oos", "unseal", "request"} => "development" \in stored'[job[p]],
               s = "verdict" => Sealed(job[p]),
               UNCHANGED <<families, runFamily, lifecycle, outcome>>,
               stored' \in [Runs -> SUBSET Kinds], \A r \in Runs : stored[r] \subseteq stored'[r],
               requested' \subseteq Runs, \A r \in requested' : "development" \in stored'[r],
               errors' \in 0..MaxErrors, crashes' \in 0..MaxCrashes
        PROVE  IInv'
    \* A step of the call between transitions.
    <2>1. job[p] \in Runs /\ runFamily[job[p]] # None
      BY <1>8 DEF IInv, RunsOK
    <2>2. CASE Goto(p, s)
      <3>1. pc' = [pc EXCEPT ![p] = s] /\ job' = [job EXCEPT ![p] = job[p]]
        BY <2>2 DEF Goto, IInv, TypeOK
      <3> QED BY <1>8, <2>1, <3>1, MoveIInv
    <2>3. CASE s = "idle" /\ Leave(p)
      <3>1. pc' = [pc EXCEPT ![p] = "idle"] /\ job' = [job EXCEPT ![p] = None]
        BY <2>3 DEF Leave
      <3>2. "idle" \in Steps /\ None \in Runs \union {None}
        BY DEF Steps
      <3> QED BY <1>8, <3>1, <3>2, MoveIInv
    <2> QED BY <1>8, <2>2, <2>3
  <1>9. /\ stored \in [Runs -> SUBSET Kinds] /\ requested \subseteq Runs
        /\ \A r \in requested : "development" \in stored[r]
        /\ errors \in 0..MaxErrors /\ crashes \in 0..MaxCrashes
        /\ pc[p] # "idle" => job[p] \in Runs
    BY DEF IInv, TypeOK, RunsOK, RequestHasBundle
  <1>10. ASSUME UNCHANGED <<stored, requested, errors, crashes>>
         PROVE  /\ stored' \in [Runs -> SUBSET Kinds] /\ \A r \in Runs : stored[r] \subseteq stored'[r]
                /\ requested' \subseteq Runs /\ \A r \in requested' : "development" \in stored'[r]
                /\ errors' \in 0..MaxErrors /\ crashes' \in 0..MaxCrashes
    BY <1>9, <1>10
  <1>11. CASE Backtest(p)
    BY <1>8, <1>9, <1>11 DEF Backtest, Rest, Steps
  <1>12. CASE RobustnessRaises(p)
    BY <1>8, <1>9, <1>12 DEF RobustnessRaises, Rest, Steps
  <1>13. CASE DevelopmentPasses(p)
    BY <1>8, <1>9, <1>13 DEF DevelopmentPasses, Steps
  <1>14. CASE ReadState(p)
    <2>1. "development" \in stored[job[p]]
      BY <1>14 DEF ReadState, IInv, CallsOK, HasBundle
    <2>2. CASE Goto(p, "unseal")
      BY <1>8, <1>9, <1>14, <2>1, <2>2 DEF ReadState, Rest, Steps
    <2>3. CASE Goto(p, "verdict") /\ state[job[p]] = "OOS_RUNNING"
      BY <1>8, <1>9, <1>14, <2>3 DEF ReadState, Rest, Steps, Sealed, SealedStates
    <2>4. CASE Leave(p)
      BY <1>8, <1>9, <1>14, <2>4 DEF ReadState, Rest, Steps
    <2> QED BY <1>14, <2>2, <2>3, <2>4 DEF ReadState
  <1>15. CASE SealedError(p)
    <2>1. errors' \in 0..MaxErrors
      BY <1>9, <1>15 DEF SealedError
    <2> QED BY <1>8, <1>9, <1>15, <2>1 DEF SealedError, Steps
  <1>16. CASE RequestAnalysis(p)
    <2>1. "development" \in stored[job[p]] /\ job[p] \in Runs
      BY <1>9, <1>16 DEF RequestAnalysis, IInv, CallsOK, HasBundle
    <2> QED BY <1>8, <1>9, <1>16, <2>1 DEF RequestAnalysis, Steps
  <1>17. ASSUME NEW kind \in Kinds, Store(p, kind), job[p] \in Runs
         PROVE  /\ stored' \in [Runs -> SUBSET Kinds]
                /\ \A r \in Runs : stored[r] \subseteq stored'[r]
                /\ kind \in stored'[job[p]]
    BY <1>9, <1>17 DEF Store
  <1>18. CASE PersistFailure(p)
    <2>1. Store(p, "development") /\ "development" \in Kinds /\ job[p] \in Runs
      BY <1>9, <1>18 DEF PersistFailure, Kinds
    <2> QED BY <1>8, <1>9, <1>17, <1>18, <2>1 DEF PersistFailure, Storing, Steps
  <1>19. CASE PersistPass(p)
    <2>1. Store(p, "development") /\ "development" \in Kinds /\ job[p] \in Runs
      BY <1>9, <1>19 DEF PersistPass, Kinds
    <2> QED BY <1>8, <1>9, <1>17, <1>19, <2>1 DEF PersistPass, Storing, Steps
  <1>20. CASE PersistOos(p)
    <2>1. Store(p, "oos") /\ "oos" \in Kinds /\ job[p] \in Runs
      BY <1>9, <1>20 DEF PersistOos, Kinds
    <2> QED BY <1>8, <1>9, <1>17, <1>20, <2>1 DEF PersistOos, Storing, Steps
  <1>21. CASE PersistMutation(p)
    <2>1. Store(p, "mutation") /\ "mutation" \in Kinds /\ job[p] \in Runs
      BY <1>9, <1>21 DEF PersistMutation, Kinds
    <2> QED BY <1>8, <1>9, <1>17, <1>21, <2>1 DEF PersistMutation, Storing, Steps
  <1> QED BY <1>1, <1>2, <1>3, <1>4, <1>5, <1>6, <1>7, <1>11, <1>12, <1>13, <1>14, <1>15,
             <1>16, <1>18, <1>19, <1>20, <1>21 DEF CallStep

LEMMA NextIInv == IInv /\ [Next]_vars => IInv'
  <1> SUFFICES ASSUME IInv, [Next]_vars PROVE IInv'
    OBVIOUS
  <1>1. ASSUME NEW p \in Callers, CallStep(p) PROVE IInv'
    BY <1>1, CallStepIInv
  <1>2. ASSUME NEW p \in Callers, NEW r \in Runs, NEW f \in Families, Begin(p, r, f) PROVE IInv'
    BY <1>2, BeginIInv
  \* What a step between transitions leaves as it was.
  <1>3. /\ stored \in [Runs -> SUBSET Kinds] /\ requested \subseteq Runs
        /\ \A r \in requested : "development" \in stored[r]
        /\ errors \in 0..MaxErrors /\ crashes \in 0..MaxCrashes
    BY DEF IInv, TypeOK, RequestHasBundle
  <1>4. ASSUME NEW p \in Callers, NEW r \in Runs, RetryOos(p, r) PROVE IInv'
    <2>1. state[r] = "OOS_RUNNING" /\ None # "OOS_RUNNING"
      BY <1>4 DEF RetryOos, States, SealedStates
    <2>2. runFamily[r] # None /\ "development" \in stored[r]
      BY <2>1 DEF IInv, RunsOK, SealedRunHasEvidence, SealedStates
    <2> QED BY <1>3, <1>4, <2>2, MoveIInv DEF RetryOos, Rest, Steps
  <1>5. ASSUME NEW p \in Callers, NEW r \in Runs, BeginProposal(p, r) PROVE IInv'
    <2>1. state[r] = "ANALYSIS_READY" /\ None # "ANALYSIS_READY"
      BY <1>5 DEF BeginProposal, States, ResearchStates
    <2>2. runFamily[r] # None
      BY <2>1 DEF IInv, RunsOK
    <2> QED BY <1>3, <1>5, <2>2, MoveIInv DEF BeginProposal, Rest, Steps
  <1>6. ASSUME NEW r \in Runs, Rerun(r) PROVE IInv'
    BY <1>6, RerunIInv
  <1>7. ASSUME NEW p \in Callers, Crash(p) PROVE IInv'
    <2>1. crashes' \in 0..MaxCrashes /\ "idle" \in Steps /\ None \in Runs \union {None}
      BY <1>3, <1>7 DEF Crash, Steps
    <2> QED BY <1>3, <1>7, <2>1, MoveIInv DEF Crash, Leave
  <1>8. CASE UNCHANGED vars
    BY <1>8 DEF vars, lifecycle, budgets, caller, IInv, TypeOK, RunsOK, SealHeld, OutcomeSealed,
                CallsOK, SealedRunHasEvidence, RequestHasBundle, Sealed, HasBundle
  <1> QED BY <1>1, <1>2, <1>4, <1>5, <1>6, <1>7, <1>8 DEF Next

\* The workflow keeps what its calls rely on, however they interleave and die.
THEOREM InductiveInvariant == Spec => []IInv
  BY InitIInv, NextIInv, PTL DEF Spec
-----------------------------------------------------------------------------
(* What follows from it *)

\* Every variable stays in its domain.
THEOREM TypeCorrect == Spec => []TypeOK
  <1>1. IInv => TypeOK
    BY DEF IInv
  <1> QED BY <1>1, InductiveInvariant, PTL

\* run_sealed_oos looks at the sealed evidence of at most one run of a family.
THEOREM UnsealedOnce == Spec => []OneRunUnsealed
  <1>1. IInv => OneRunUnsealed
    BY DEF IInv, OutcomeSealed, SealHeld, OneRunUnsealed
  <1> QED BY <1>1, InductiveInvariant, PTL

\* run_development_cycle has stored the bundle of a run before it is unsealed, and
\* a verdict is what the sealed evidence showed.
THEOREM EvidenceStored == Spec => []SealedRunHasEvidence
  <1>1. IInv => SealedRunHasEvidence
    BY DEF IInv
  <1> QED BY <1>1, InductiveInvariant, PTL

\* An analysis request names a bundle in the store.
THEOREM RequestsReadable == Spec => []RequestHasBundle
  <1>1. IInv => RequestHasBundle
    BY DEF IInv
  <1> QED BY <1>1, InductiveInvariant, PTL
-----------------------------------------------------------------------------
(* Refinement *)

\* What a family with a run in state s past the seal shows of itself.
Shown(s) ==
  CASE s = "OOS_RUNNING" -> "oos"
    [] s = "REJECTED"    -> "rejected"
    [] OTHER             -> "ready"

SealedOf(f) == {r \in Runs : runFamily[r] = f /\ Sealed(r)}

\* The sealed run of a family is unique, so its phase is that run's.
PhaseFacts ==
  \A f \in Families :
    /\ f \notin families => FamilyPhase[f] = "absent"
    /\ f \in families /\ SealedOf(f) = {} => FamilyPhase[f] = "research"
    /\ \A r \in SealedOf(f) : FamilyPhase[f] = Shown(state[r])

LEMMA PhaseIsShown == IInv => PhaseFacts
  <1> SUFFICES ASSUME IInv, NEW f \in Families
               PROVE  /\ f \notin families => FamilyPhase[f] = "absent"
                      /\ f \in families /\ SealedOf(f) = {} => FamilyPhase[f] = "research"
                      /\ \A r \in SealedOf(f) : FamilyPhase[f] = Shown(state[r])
    BY DEF PhaseFacts
  <1>1. FamilyPhase[f] = IF f \notin families THEN "absent"
                         ELSE IF SealedOf(f) = {} THEN "research"
                         ELSE Shown(state[CHOOSE r \in SealedOf(f) : TRUE])
    BY DEF FamilyPhase, SealedOf, Sealed, Shown
  <1>2. ASSUME NEW r \in SealedOf(f) PROVE FamilyPhase[f] = Shown(state[r])
    <2>1. f \in families
      <3>1. r \in Runs /\ runFamily[r] = f
        BY <1>2 DEF SealedOf
      <3> QED BY <3>1 DEF IInv, RunsOK
    <2>2. \A s \in SealedOf(f) : s = r
      BY <1>2 DEF IInv, SealHeld, SealedOf
    <2>3. (CHOOSE s \in SealedOf(f) : TRUE) = r
      BY <1>2, <2>2
    <2> QED BY <1>1, <1>2, <2>1, <2>3
  <1> QED BY <1>1, <1>2

LEMMA PhaseIsShownNext == IInv' => PhaseFacts'
  BY PhaseIsShown, PTL

LEMMA EdgeShown ==
  ASSUME NEW from \in States \union {None}, NEW to \in States \ PaperStates, <<from, to>> \in RULES
  PROVE  \/ from \notin SealedStates /\ to \notin SealedStates
         \/ from \notin SealedStates /\ to = "OOS_RUNNING"
         \/ from = "OOS_RUNNING" /\ to \in {"READY_FOR_PAPER", "REJECTED"}
  BY DEF RULES, States, SealedStates, ResearchStates, PaperStates

\* Run r takes the edge to `to`, and no other run moves.
Moves(r, to) ==
  /\ <<state[r], to>> \in RULES /\ to \in States \ PaperStates
  /\ state' = [state EXCEPT ![r] = to]

\* A call's steps move its run at most, and no run of paper trading.
LEMMA CallStepMoves ==
  ASSUME IInv, NEW p \in Callers, CallStep(p)
  PROVE  /\ families' = families /\ runFamily' = runFamily
         /\ state' = state \/ \E r \in Runs, to \in States : Moves(r, to)
  <1>1. families' = families /\ runFamily' = runFamily
    BY DEF CallStep, Draft, Develop, TechnicalFailure, Backtest, RobustnessRaises,
           DevelopmentFails, PersistFailure, RequestAnalysis, DevelopmentPasses, PersistPass,
           ReadState, Unseal, SealedError, EvaluateSealed, PersistOos, Propose, PersistMutation,
           Rest, Storing
  <1>2. ASSUME NEW to \in States \ PaperStates, NEW next \in Steps, pc[p] # "idle", Step(p, to, next)
        PROVE  state' = state \/ \E r \in Runs, t \in States : Moves(r, t)
    <2>1. job[p] \in Runs
      BY <1>2 DEF IInv, RunsOK
    <2>2. CASE Take(job[p], to)
      <3>1. Moves(job[p], to)
        BY <2>2 DEF Take, Legal, Moves
      <3> QED BY <2>1, <3>1
    <2>3. CASE ~Take(job[p], to)
      BY <1>2, <2>3 DEF Step, Repeat, lifecycle
    <2> QED BY <2>2, <2>3
  <1>3. /\ {"DRAFT", "DEVELOPMENT_RUNNING", "RUN_ERROR", "DATA_BLOCKED", "ANALYSIS_READY",
            "OOS_RUNNING", "READY_FOR_PAPER", "REJECTED", "MUTATION_PROPOSED"}
             \subseteq States \ PaperStates
        /\ {"develop", "check", "idle", "persist_fail", "verdict", "persist_oos",
            "persist_mutation"} \subseteq Steps
    BY DEF States, ResearchStates, SealedStates, PaperStates, Steps
  <1> DEFINE Done == state' = state \/ \E r \in Runs, t \in States : Moves(r, t)
  <1> HIDE DEF Done
  <1>S. ASSUME NEW to \in States \ PaperStates, NEW next \in Steps, pc[p] # "idle", Step(p, to, next)
        PROVE  Done
    BY <1>2, <1>S DEF Done
  <1>4. ASSUME Draft(p) PROVE Done
    BY <1>S, <1>3, <1>4 DEF Draft
  <1>5. ASSUME Develop(p) PROVE Done
    BY <1>S, <1>3, <1>5 DEF Develop
  <1>6. ASSUME DevelopmentFails(p) PROVE Done
    BY <1>S, <1>3, <1>6 DEF DevelopmentFails
  <1>7. ASSUME Unseal(p) PROVE Done
    BY <1>S, <1>3, <1>7 DEF Unseal
  <1>8. ASSUME Propose(p) PROVE Done
    BY <1>S, <1>3, <1>8 DEF Propose
  <1>9. ASSUME TechnicalFailure(p) PROVE Done
    <2>1. PICK to \in {"RUN_ERROR", "DATA_BLOCKED"} : Step(p, to, "idle")
      BY <1>9 DEF TechnicalFailure
    <2>2. pc[p] # "idle"
      BY <1>9 DEF TechnicalFailure
    <2> QED BY <1>S, <1>3, <2>1, <2>2
  <1>10. ASSUME EvaluateSealed(p) PROVE Done
    <2>1. PICK to \in {"READY_FOR_PAPER", "REJECTED"} : Step(p, to, "persist_oos")
      BY <1>10 DEF EvaluateSealed
    <2>2. pc[p] # "idle"
      BY <1>10 DEF EvaluateSealed
    <2> QED BY <1>S, <1>3, <2>1, <2>2
  <1>11. ASSUME \/ Backtest(p) \/ RobustnessRaises(p) \/ PersistFailure(p) \/ RequestAnalysis(p)
                \/ DevelopmentPasses(p) \/ PersistPass(p) \/ ReadState(p) \/ SealedError(p)
                \/ PersistOos(p) \/ PersistMutation(p)
         PROVE  Done
    <2>1. UNCHANGED lifecycle
      BY <1>11 DEF Backtest, RobustnessRaises, PersistFailure, RequestAnalysis,
                   DevelopmentPasses, PersistPass, ReadState, SealedError, PersistOos,
                   PersistMutation, Storing
    <2> QED BY <2>1 DEF lifecycle, Done
  <1>12. Done
    BY <1>4, <1>5, <1>6, <1>7, <1>8, <1>9, <1>10, <1>11 DEF CallStep
  <1> QED BY <1>1, <1>12 DEF Done

LEMMA PhaseDomain == FamilyPhase = [f \in Families |-> FamilyPhase[f]]
  BY DEF FamilyPhase

LEMMA PhaseDomainNext == FamilyPhase' = [f \in Families |-> FamilyPhase'[f]]
  BY DEF FamilyPhase

\* A family whose sealed run did not move shows what it showed.
LEMMA SameShown ==
  ASSUME IInv, IInv', NEW f \in Families, f \in families' <=> f \in families,
         \A r \in Runs : r \in SealedOf(f)' <=> r \in SealedOf(f),
         \A r \in SealedOf(f) : state'[r] = state[r]
  PROVE  FamilyPhase'[f] = FamilyPhase[f]
  <1>1. PhaseFacts /\ PhaseFacts'
    BY PhaseIsShown, PhaseIsShownNext
  <1>2. SealedOf(f)' = SealedOf(f)
    BY DEF SealedOf
  <1>3. CASE SealedOf(f) = {}
    BY <1>1, <1>2, <1>3 DEF PhaseFacts
  <1>4. ASSUME NEW r \in SealedOf(f) PROVE FamilyPhase'[f] = FamilyPhase[f]
    <2>1. FamilyPhase[f] = Shown(state[r])
      BY <1>1, <1>4 DEF PhaseFacts
    <2>2. FamilyPhase'[f] = Shown(state'[r])
      BY <1>1, <1>2, <1>4 DEF PhaseFacts, Shown
    <2> QED BY <1>4, <2>1, <2>2
  <1> QED BY <1>3, <1>4

\* A run that moves without touching the seal, enters it, or gets its verdict:
\* its family stutters, is unsealed, or is decided.
LEMMA MoveRefines ==
  ASSUME IInv, IInv', families' = families, runFamily' = runFamily,
         NEW r \in Runs, NEW to \in States, Moves(r, to)
  PROVE  Gate!GateNext \/ FamilyPhase' = FamilyPhase
  <1> DEFINE f == runFamily[r]
  <1>1. /\ state[r] \in States \union {None} /\ to \in States \ PaperStates /\ <<state[r], to>> \in RULES
        /\ state'[r] = to /\ \A s \in Runs : s # r => state'[s] = state[s]
    BY DEF Moves, IInv, TypeOK
  <1>2. \A g \in Families : SealedOf(g)' = {s \in Runs : runFamily[s] = g /\ state'[s] \in SealedStates}
    BY DEF SealedOf, Sealed
  <1>3. ASSUME NEW g \in Families, g # f PROVE FamilyPhase'[g] = FamilyPhase[g]
    <2>1. \A s \in Runs : s \in SealedOf(g)' <=> s \in SealedOf(g)
      BY <1>1, <1>2, <1>3 DEF SealedOf, Sealed
    <2>2. \A s \in SealedOf(g) : state'[s] = state[s]
      BY <1>1, <1>3 DEF SealedOf
    <2> QED BY <2>1, <2>2, SameShown
  <1>4. CASE state[r] \notin SealedStates /\ to \notin SealedStates
    <2>1. ASSUME NEW g \in Families PROVE FamilyPhase'[g] = FamilyPhase[g]
      <3>1. \A s \in Runs : s \in SealedOf(g)' <=> s \in SealedOf(g)
        BY <1>1, <1>2, <1>4 DEF SealedOf, Sealed
      <3>2. \A s \in SealedOf(g) : state'[s] = state[s]
        BY <1>1, <1>4 DEF SealedOf, Sealed
      <3> QED BY <3>1, <3>2, SameShown
    <2> QED BY <2>1, PhaseDomain, PhaseDomainNext
  <1>5. ASSUME state[r] # None PROVE f \in Families /\ f \in families
    BY <1>5 DEF IInv, TypeOK, RunsOK
  <1>6. None \notin SealedStates /\ <<None, "OOS_RUNNING">> \notin RULES
    BY DEF States, ResearchStates, RULES
  <1>7. ASSUME NEW x, f \in Families, FamilyPhase'[f] = x
        PROVE  FamilyPhase' = [FamilyPhase EXCEPT ![f] = x]
    <2> DEFINE P == FamilyPhase  Q == FamilyPhase'
    <2>1. P = [g \in Families |-> P[g]] /\ Q = [g \in Families |-> Q[g]]
      BY PhaseDomain, PhaseDomainNext
    <2>2. \A g \in Families : g # f => Q[g] = P[g]
      BY <1>3
    <2>3. Q[f] = x
      BY <1>7
    <2> HIDE DEF P, Q, f
    <2>4. Q = [P EXCEPT ![f] = x]
      BY <1>7, <2>1, <2>2, <2>3
    <2> QED BY <2>4 DEF P, Q
  <1>8. PhaseFacts /\ PhaseFacts'
    BY PhaseIsShown, PhaseIsShownNext
  <1>9. CASE state[r] \notin SealedStates /\ to = "OOS_RUNNING"
    <2>1. f \in Families /\ f \in families
      BY <1>1, <1>5, <1>6, <1>9
    <2>2. r \in SealedOf(f)'
      BY <1>1, <1>2, <1>9, <2>1 DEF SealedStates
    <2>3. SealedOf(f) = {}
      <3> SUFFICES ASSUME NEW s \in SealedOf(f) PROVE FALSE
        OBVIOUS
      <3>1. s # r /\ s \in Runs /\ runFamily[s] = f
        BY <1>9 DEF SealedOf, Sealed
      <3>2. Sealed(s)' /\ Sealed(r)'
        BY <1>1, <1>9, <3>1 DEF SealedOf, Sealed, SealedStates
      <3>3. s = r
        BY <3>1, <3>2 DEF IInv, SealHeld
      <3> QED BY <3>1, <3>3
    <2>4. FamilyPhase[f] = "research"
      BY <1>8, <2>1, <2>3 DEF PhaseFacts
    <2>5. FamilyPhase'[f] = "oos"
      BY <1>1, <1>8, <1>9, <2>1, <2>2 DEF PhaseFacts, Shown
    <2>6. FamilyPhase' = [FamilyPhase EXCEPT ![f] = "oos"]
      BY <1>7, <2>1, <2>5
    <2>7. Gate!Unseal(f)
      BY <2>4, <2>6 DEF Gate!Unseal, Gate!Move
    <2> QED BY <2>1, <2>7 DEF Gate!GateNext
  <1>10. CASE state[r] = "OOS_RUNNING" /\ to \in {"READY_FOR_PAPER", "REJECTED"}
    <2>1. f \in Families /\ f \in families
      BY <1>5, <1>10 DEF States, SealedStates
    <2>2. r \in SealedOf(f) /\ r \in SealedOf(f)'
      BY <1>1, <1>2, <1>10, <2>1 DEF SealedOf, Sealed, SealedStates
    <2>3. FamilyPhase[f] = "oos"
      BY <1>8, <1>10, <2>1, <2>2 DEF PhaseFacts, Shown
    <2>4. FamilyPhase'[f] = Shown(to)
      BY <1>1, <1>8, <2>1, <2>2 DEF PhaseFacts, Shown
    <2>5. Shown(to) \in {"rejected", "ready"}
      BY <1>10 DEF Shown
    <2>6. FamilyPhase' = [FamilyPhase EXCEPT ![f] = Shown(to)]
      BY <1>7, <2>1, <2>4
    <2>7. Gate!Verdict(f)
      BY <2>3, <2>5, <2>6 DEF Gate!Verdict, Gate!Move
    <2> QED BY <2>1, <2>7 DEF Gate!GateNext
  <1> QED BY <1>1, <1>4, <1>9, <1>10, EdgeShown

\* A new family opens while none is rejected; a further run of one is no step of it.
LEMMA BeginRefines ==
  ASSUME IInv, IInv', NEW p \in Callers, NEW r \in Runs, NEW f \in Families, Begin(p, r, f)
  PROVE  Gate!GateNext \/ FamilyPhase' = FamilyPhase
  <1>1. /\ runFamily' = [runFamily EXCEPT ![r] = f] /\ runFamily[r] = None
        /\ state' = state /\ families' = families \union {f}
        /\ f \in families \/ RejectedFamilies = {}
    BY DEF Begin, lifecycle
  <1>2. state[r] = None /\ None \notin SealedStates
    BY <1>1 DEF IInv, RunsOK, States
  <1>3. \A g \in Families, s \in Runs : s \in SealedOf(g)' <=> s \in SealedOf(g)
    BY <1>1, <1>2 DEF IInv, TypeOK, SealedOf, Sealed
  <1>4. ASSUME NEW g \in Families, g # f \/ f \in families PROVE FamilyPhase'[g] = FamilyPhase[g]
    <2>1. g \in families' <=> g \in families
      BY <1>1, <1>4
    <2> QED BY <1>1, <1>3, <2>1, SameShown
  <1>5. CASE f \in families
    BY <1>4, <1>5, PhaseDomain, PhaseDomainNext
  <1>6. CASE f \notin families
    <2>1. PhaseFacts /\ PhaseFacts'
      BY PhaseIsShown, PhaseIsShownNext
    <2>2. SealedOf(f) = {} /\ SealedOf(f)' = {}
      <3>1. SealedOf(f) = {}
        BY <1>6 DEF IInv, RunsOK, SealedOf
      <3>2. SealedOf(f)' = SealedOf(f)
        BY <1>3 DEF SealedOf
      <3> QED BY <3>1, <3>2
    <2>3. FamilyPhase[f] = "absent" /\ FamilyPhase'[f] = "research"
      BY <1>1, <1>6, <2>1, <2>2 DEF PhaseFacts
    <2>4. FamilyPhase' = [FamilyPhase EXCEPT ![f] = "research"]
      <3> DEFINE P == FamilyPhase  Q == FamilyPhase'
      <3>1. P = [g \in Families |-> P[g]] /\ Q = [g \in Families |-> Q[g]]
        BY PhaseDomain, PhaseDomainNext
      <3>2. Q[f] = "research" /\ \A g \in Families : g # f => Q[g] = P[g]
        BY <1>4, <2>3
      <3> HIDE DEF P, Q
      <3>3. Q = [P EXCEPT ![f] = "research"]
        BY <3>1, <3>2
      <3> QED BY <3>3 DEF P, Q
    <2>5. ASSUME NEW g \in Families PROVE FamilyPhase[g] # "rejected"
      <3>1. CASE SealedOf(g) = {}
        BY <2>1, <3>1 DEF PhaseFacts
      <3>2. ASSUME NEW s \in SealedOf(g) PROVE FamilyPhase[g] # "rejected"
        <4>1. state[s] # "REJECTED"
          BY <1>1, <1>6, <3>2 DEF RejectedFamilies, SealedOf
        <4>2. Shown(state[s]) # "rejected"
          BY <4>1 DEF Shown
        <4> QED BY <2>1, <3>2, <4>2 DEF PhaseFacts
      <3> QED BY <3>1, <3>2
    <2>6. Gate!Rejected = {}
      BY <2>5 DEF Gate!Rejected
    <2>7. Gate!Open(f)
      BY <2>3, <2>4, <2>6 DEF Gate!Open, Gate!Move
    <2> QED BY <2>7 DEF Gate!GateNext
  <1> QED BY <1>5, <1>6

LEMMA StepRefines == IInv /\ IInv' /\ [Next]_vars => [Gate!GateNext]_(Gate!gateVars)
  <1> SUFFICES ASSUME IInv, IInv', [Next]_vars
               PROVE  Gate!GateNext \/ FamilyPhase' = FamilyPhase
    BY DEF Gate!gateVars
  <1>1. ASSUME state' = state, families' = families, runFamily' = runFamily
        PROVE  FamilyPhase' = FamilyPhase
    BY <1>1 DEF FamilyPhase
  <1>2. CASE \E p \in Callers : CallStep(p)
    <2>1. /\ families' = families /\ runFamily' = runFamily
          /\ state' = state \/ \E r \in Runs, to \in States : Moves(r, to)
      BY <1>2, CallStepMoves
    <2> QED BY <1>1, <2>1, MoveRefines
  <1>3. CASE \E p \in Callers, r \in Runs, f \in Families : Begin(p, r, f)
    BY <1>3, BeginRefines
  <1>4. CASE \E r \in Runs : Rerun(r)
    <2>1. PICK r \in Runs : Rerun(r)
      BY <1>4
    <2>2. families' = families /\ runFamily' = runFamily
      BY <2>1 DEF Rerun, Rest
    <2>3. Moves(r, "DEVELOPMENT_RUNNING") /\ "DEVELOPMENT_RUNNING" \in States
      BY <2>1 DEF Rerun, Moves, RULES, States, ResearchStates, SealedStates, PaperStates
    <2> QED BY <2>2, <2>3, MoveRefines
  <1>5. CASE \/ \E p \in Callers, r \in Runs : RetryOos(p, r)
             \/ \E p \in Callers, r \in Runs : BeginProposal(p, r)
             \/ \E p \in Callers : Crash(p)
             \/ UNCHANGED vars
    <2>1. state' = state /\ families' = families /\ runFamily' = runFamily
      BY <1>5 DEF RetryOos, BeginProposal, Crash, vars, lifecycle, Rest
    <2> QED BY <1>1, <2>1
  <1> QED BY <1>2, <1>3, <1>4, <1>5 DEF Next

LEMMA InitRefines == Init => Gate!GateInit
  BY DEF Init, FamilyPhase, Gate!GateInit

\* The workflow, with all its callers, retries and crashes, keeps the gate of
\* every family: run_sealed_oos unseals it once, and register_family opens it
\* while no family is rejected.
THEOREM Refinement == Spec => ImplementsFamilyGate
  BY InductiveInvariant, InitRefines, StepRefines, PTL
     DEF Spec, ImplementsFamilyGate, Gate!GateSpec
=============================================================================
