--------------------------- MODULE AgentJobProofs ---------------------------
(***************************************************************************)
(* Proofs about ArtifactStore and AgentJob, for any writers, contents,      *)
(* agents and versions.                                                     *)
(*                                                                          *)
(* The store comes first.  IInv adds to its properties what put_bytes       *)
(* relies on between its steps: a writer past fsync has flushed its file,   *)
(* so no name is ever given to dirty bytes, and nothing returned is missing.*)
(* The composition takes only steps of the store, so the store's theorems   *)
(* hold in it; JInv adds to SubmitIsAllOrNothing what submit relies on      *)
(* while its answer is awaited and while on_success is under way.           *)
(***************************************************************************)
EXTENDS AgentJob, TLAPS

-----------------------------------------------------------------------------
(* The store *)

Steps == {"idle", "lookup", "mktemp"} \union WithTemp

TypeOK ==
  /\ dest \in [Contents -> {"absent", "whole"}] /\ dirty = {}
  /\ temps \subseteq {Abandoned} \union (Writers \X Contents) /\ synced \subseteq Writers
  /\ pc \in [Writers -> Steps] /\ content \in [Writers -> Contents \union {None}]
  /\ outcome \in [Writers -> {"none", "returned", "raised"}]
  /\ acked \subseteq Contents /\ crashed \in BOOLEAN

\* What a put relies on from its earlier steps.
AtWork ==
  \A w \in Writers :
    /\ pc[w] # "idle" => content[w] \in Contents
    /\ pc[w] \in {"recheck", "replace"} => w \in synced

AckedIsStored == \A c \in acked : dest[c] = "whole"

IInv == TypeOK /\ AtWork /\ AckedIsStored /\ TempsAreOwned

USE StoreAssumption DEF StoreAssumption
-----------------------------------------------------------------------------
\* Leaving a put keeps the invariant, once the name is there if it returned.
LEMMA LeaveKeeps ==
  ASSUME IInv, NEW w \in Writers, pc[w] # "idle", NEW how \in {"returned", "raised"},
         Leave(w, how), crashed' = crashed, dirty' = dirty,
         dest' \in [Contents -> {"absent", "whole"}],
         \A c \in Contents : dest[c] = "whole" => dest'[c] = "whole",
         how = "returned" => dest'[content[w]] = "whole"
  PROVE  IInv'
  <1>1. content[w] \in Contents
    BY DEF IInv, AtWork
  <1>2. TypeOK'
    BY <1>1 DEF IInv, TypeOK, Leave, Goto, Steps
  <1>3. AtWork'
    BY DEF IInv, TypeOK, AtWork, Leave, Goto
  <1>4. AckedIsStored'
    BY <1>1 DEF IInv, TypeOK, AckedIsStored, Leave
  <1>5. TempsAreOwned'
    BY DEF IInv, TypeOK, TempsAreOwned, Leave, Goto, WithTemp, Abandoned
  <1> QED BY <1>2, <1>3, <1>4, <1>5 DEF IInv

\* A put goes on to its next step, its temporary file written or flushed.
LEMMA StepKeeps ==
  ASSUME IInv, NEW w \in Writers, NEW step \in Steps, pc[w] # "idle", step # "idle",
         Goto(w, step), step \in {"recheck", "replace"} => w \in synced',
         synced' \in {synced, synced \union {w}},
         \/ temps' = temps /\ (pc[w] \in WithTemp => step \in WithTemp)
         \/ temps' = temps \union {<<w, content[w]>>} /\ step \in WithTemp,
         UNCHANGED <<names, content, outcome, acked, crashed>>
  PROVE  IInv'
  <1>1. content[w] \in Contents
    BY DEF IInv, AtWork
  <1>2. TypeOK'
    BY <1>1 DEF IInv, TypeOK, Goto, names
  <1>3. AtWork'
    BY DEF IInv, TypeOK, AtWork, Goto
  <1>4. AckedIsStored'
    BY DEF IInv, AckedIsStored, names
  <1>5. TempsAreOwned'
    BY <1>1 DEF IInv, TypeOK, TempsAreOwned, Goto, Abandoned
  <1> QED BY <1>2, <1>3, <1>4, <1>5 DEF IInv

LEMMA CheckKeeps ==
  ASSUME IInv, NEW w \in Writers, NEW step, NEW next,
         <<step, next>> \in {<<"lookup", "mktemp">>, <<"recheck", "replace">>},
         Check(w, step, next)
  PROVE  IInv'
  <1>1. pc[w] = step /\ step # "idle" /\ UNCHANGED <<names, crashed>>
    BY DEF Check
  <1>2. content[w] \in Contents
    BY <1>1 DEF IInv, AtWork
  <1>3. ASSUME Goto(w, next), UNCHANGED <<temps, synced, content, outcome, acked>>
        PROVE  IInv'
    BY <1>1, <1>3, StepKeeps DEF IInv, AtWork, Steps, WithTemp
  <1>4. ASSUME dest[content[w]] = "whole", Leave(w, "returned")
        PROVE  IInv'
    BY <1>1, <1>2, <1>4, LeaveKeeps DEF IInv, TypeOK, names
  <1>5. dest[content[w]] # "torn"
    BY <1>2 DEF IInv, TypeOK
  <1> QED BY <1>3, <1>4, <1>5 DEF Check
-----------------------------------------------------------------------------
LEMMA InitKeeps == Init => IInv
  <1> SUFFICES ASSUME Init PROVE IInv
    OBVIOUS
  <1>1. TypeOK
    BY DEF Init, TypeOK, Steps
  <1>2. AtWork /\ AckedIsStored /\ TempsAreOwned
    BY DEF Init, AtWork, AckedIsStored, TempsAreOwned
  <1> QED BY <1>1, <1>2 DEF IInv

LEMMA PutKeeps ==
  ASSUME IInv, NEW w \in Writers, NEW c \in Contents, Put(w, c)
  PROVE  IInv'
  <1>1. TypeOK'
    BY DEF IInv, TypeOK, Put, Goto, names, Steps
  <1>2. AtWork'
    BY DEF IInv, TypeOK, AtWork, Put, Goto
  <1>3. AckedIsStored'
    BY DEF IInv, AckedIsStored, Put, names
  <1>4. TempsAreOwned'
    BY DEF IInv, TypeOK, TempsAreOwned, Put, Goto, WithTemp, Abandoned
  <1> QED BY <1>1, <1>2, <1>3, <1>4 DEF IInv

LEMMA PutStepKeeps ==
  ASSUME IInv, NEW w \in Writers, PutStep(w)
  PROVE  IInv'
  <1>1. CASE Lookup(w)
    BY <1>1, CheckKeeps DEF Lookup
  <1>2. CASE MakeTemp(w)
    BY <1>2, StepKeeps DEF MakeTemp, Steps, WithTemp
  <1>3. CASE Write(w)
    BY <1>3, StepKeeps DEF Write, Steps, WithTemp
  <1>4. CASE Sync(w)
    BY <1>4, StepKeeps DEF Sync, Steps, WithTemp
  <1>5. CASE Recheck(w)
    BY <1>5, CheckKeeps DEF Recheck
  <1>6. CASE Replace(w)
    <2>1. content[w] \in Contents /\ w \in synced /\ pc[w] # "idle"
      BY <1>6 DEF Replace, IInv, AtWork
    <2>2. dirty' = dirty /\ dest' = [dest EXCEPT ![content[w]] = "whole"]
      BY <1>6, <2>1 DEF Replace, IInv, TypeOK
    <2>3. Leave(w, "returned") /\ crashed' = crashed
      BY <1>6 DEF Replace
    <2>4. /\ dest' \in [Contents -> {"absent", "whole"}]
          /\ \A c \in Contents : dest[c] = "whole" => dest'[c] = "whole"
          /\ dest'[content[w]] = "whole"
      BY <2>1, <2>2 DEF IInv, TypeOK
    <2> QED BY <2>1, <2>2, <2>3, <2>4, LeaveKeeps
  <1>7. CASE Fail(w)
    BY <1>7, LeaveKeeps DEF Fail, names, IInv, TypeOK
  <1> QED BY <1>1, <1>2, <1>3, <1>4, <1>5, <1>6, <1>7 DEF PutStep

LEMMA CrashKeeps ==
  ASSUME IInv, NEW w \in Writers, Crash(w)
  PROVE  IInv'
  <1>1. TypeOK'
    BY DEF IInv, TypeOK, Crash, Goto, names, Steps
  <1>2. AtWork'
    BY DEF IInv, TypeOK, AtWork, Crash, Goto
  <1>3. AckedIsStored'
    BY DEF IInv, AckedIsStored, Crash, names
  <1>4. TempsAreOwned'
    BY DEF IInv, TypeOK, TempsAreOwned, Crash, Goto, Abandoned
  <1> QED BY <1>1, <1>2, <1>3, <1>4 DEF IInv

LEMMA PowerLossKeeps ==
  ASSUME IInv, PowerLoss
  PROVE  IInv'
  <1>1. dest' \in [Contents -> {"absent", "whole"}]
    BY DEF IInv, TypeOK, PowerLoss
  <1>2. temps' \subseteq {Abandoned} /\ crashed'
    BY DEF PowerLoss
  <1>3. TypeOK'
    BY <1>1, <1>2 DEF TypeOK, PowerLoss, Steps
  <1>4. AtWork' /\ AckedIsStored'
    BY DEF AtWork, AckedIsStored, PowerLoss
  <1>5. TempsAreOwned'
    BY <1>2 DEF TempsAreOwned, Abandoned
  <1> QED BY <1>3, <1>4, <1>5 DEF IInv

LEMMA StutterKeeps ==
  ASSUME IInv, UNCHANGED storeVars
  PROVE  IInv'
  BY DEF storeVars, names, IInv, TypeOK, AtWork, AckedIsStored, TempsAreOwned, Abandoned

LEMMA NextKeeps == IInv /\ [Next]_storeVars => IInv'
  BY PutKeeps, PutStepKeeps, CrashKeeps, PowerLossKeeps, StutterKeeps DEF Next

(* What put_bytes relies on between its steps holds in every reachable      *)
(* state, whatever dies or fails and whenever the power goes.               *)
THEOREM InductiveInvariant == Spec => []IInv
  BY InitKeeps, NextKeeps, PTL DEF Spec

(* No return and no error of put_bytes leaves a temporary file behind: each *)
(* belongs to a put under way, or to a process that died.                   *)
THEOREM TempsOwned == Spec => []TempsAreOwned
  <1>1. IInv => TempsAreOwned
    BY DEF IInv
  <1> QED BY <1>1, InductiveInvariant, PTL
-----------------------------------------------------------------------------
(* Refinement *)

LEMMA LeaveRefines ==
  ASSUME IInv, NEW w \in Writers, NEW how \in {"returned", "raised"}, Leave(w, how),
         pc[w] # "idle", dest' = dest, how = "returned" => dest[content[w]] = "whole"
  PROVE  [Promise!Next]_<<dest, acked>>
  <1>1. content[w] \in Contents
    BY DEF IInv, AtWork
  <1>2. CASE how = "returned"
    BY <1>1, <1>2 DEF Leave, Promise!Next, Promise!Acknowledge
  <1>3. CASE how = "raised"
    BY <1>3 DEF Leave
  <1> QED BY <1>2, <1>3

LEMMA CheckRefines ==
  ASSUME IInv, NEW w \in Writers, NEW step \in {"lookup", "recheck"}, NEW next,
         Check(w, step, next)
  PROVE  [Promise!Next]_<<dest, acked>>
  <1>1. pc[w] # "idle" /\ dest' = dest
    BY DEF Check, names
  <1>2. CASE acked' = acked
    BY <1>1, <1>2
  <1>3. CASE dest[content[w]] = "whole" /\ Leave(w, "returned")
    BY <1>1, <1>3, LeaveRefines
  <1>4. CASE Leave(w, "raised")
    BY <1>1, <1>4, LeaveRefines
  <1> QED BY <1>2, <1>3, <1>4 DEF Check

LEMMA ReplaceRefines ==
  ASSUME IInv, NEW w \in Writers, Replace(w)
  PROVE  [Promise!Next]_<<dest, acked>>
  <1>1. content[w] \in Contents
    BY DEF Replace, IInv, AtWork
  <1>2. dest' = [dest EXCEPT ![content[w]] = "whole"] /\ acked' = acked \union {content[w]}
    BY DEF Replace, Leave
  <1>3. CASE dest[content[w]] = "absent"
    BY <1>1, <1>2, <1>3 DEF Promise!Next, Promise!Store
  <1>4. CASE dest[content[w]] = "whole"
    <2>1. dest' = dest
      BY <1>1, <1>2, <1>4 DEF IInv, TypeOK
    <2> QED BY <1>1, <1>2, <1>4, <2>1 DEF Promise!Next, Promise!Acknowledge
  <1> QED BY <1>1, <1>3, <1>4 DEF IInv, TypeOK

LEMMA PowerLossRefines ==
  ASSUME IInv, PowerLoss
  PROVE  Promise!PowerLoss
  <1>1. PICK lost \in SUBSET Contents :
               dest' = [c \in Contents |-> IF c \in lost THEN "absent" ELSE dest[c]]
    BY DEF PowerLoss, IInv, TypeOK
  <1> QED BY <1>1 DEF PowerLoss, Promise!PowerLoss

LEMMA StepRefines == IInv /\ [Next]_storeVars => [Promise!Next]_<<dest, acked>>
  <1> SUFFICES ASSUME IInv, Next PROVE [Promise!Next]_<<dest, acked>>
    BY DEF storeVars, names
  <1>1. ASSUME NEW w \in Writers, PutStep(w) PROVE [Promise!Next]_<<dest, acked>>
    <2>1. CASE Lookup(w) \/ Recheck(w)
      BY <2>1, CheckRefines DEF Lookup, Recheck
    <2>2. CASE MakeTemp(w) \/ Write(w) \/ Sync(w)
      BY <2>2 DEF MakeTemp, Write, Sync, names
    <2>3. CASE Replace(w)
      BY <2>3, ReplaceRefines
    <2>4. CASE Fail(w)
      BY <2>4, LeaveRefines DEF Fail, names
    <2> QED BY <1>1, <2>1, <2>2, <2>3, <2>4 DEF PutStep
  <1>2. ASSUME NEW w \in Writers, NEW c \in Contents, Put(w, c)
        PROVE  [Promise!Next]_<<dest, acked>>
    BY <1>2 DEF Put, names
  <1>3. ASSUME NEW w \in Writers, Crash(w) PROVE [Promise!Next]_<<dest, acked>>
    BY <1>3 DEF Crash, names
  <1>4. CASE PowerLoss
    BY <1>4, PowerLossRefines DEF Promise!Next
  <1> QED BY <1>1, <1>2, <1>3, <1>4 DEF Next

(* put_bytes implements the store it promises: reads are all or nothing,    *)
(* what was returned stays readable until the power fails.                  *)
THEOREM Refinement == Spec => ImplementsContentStore
  <1>1. Init => Promise!Init
    BY DEF Init, Promise!Init
  <1> QED BY <1>1, StepRefines, InductiveInvariant, PTL
       DEF Spec, ImplementsContentStore, Promise!Spec
-----------------------------------------------------------------------------
(* Submissions *)

JobTypes ==
  /\ phase \in [Agents -> {"idle", "ask", "answer", "commit"}]
  /\ attempt \in [Agents -> 1..2] /\ bundle \in [Agents -> Versions]
  /\ pin \in [Agents -> Versions] /\ answered \in [Agents -> Versions]
  /\ disturbed \in [Agents -> BOOLEAN] /\ commits \in [Agents -> Nat]
  /\ result \in [Agents -> {"none", "OK", "AGENT_ERROR", "raised"}]

ResultOf(a) == <<pin[a], attempt[a]>>

\* Nothing is stored before an answer is accepted, and then one result is.
Submission(a) ==
  /\ pc[a] # "idle" => phase[a] = "commit" /\ content[a] = ResultOf(a)
  /\ phase[a] \in {"ask", "answer"} => commits[a] = 0
  /\ phase[a] # "idle" => result[a] = "none"
  /\ phase[a] = "answer" => disturbed[a] \/ bundle[a] = pin[a]
  /\ phase[a] = "commit" =>
       /\ commits[a] = 1 /\ (disturbed[a] \/ answered[a] = pin[a])
       /\ pc[a] = "idle" /\ outcome[a] = "returned" => ResultOf(a) \in acked

Reported(a) ==
  /\ result[a] = "AGENT_ERROR" => commits[a] = 0
  /\ result[a] = "OK" => /\ commits[a] = 1 /\ ResultOf(a) \in acked
                         /\ disturbed[a] \/ answered[a] = pin[a]

JInv == IInv /\ JobTypes /\ \A a \in Agents : Submission(a) /\ Reported(a)

USE JobAssumption DEF JobAssumption
-----------------------------------------------------------------------------
(* Composition *)

LEMMA StoreInit == JobInit => Init
  BY DEF JobInit

LEMMA StoreStep == JobTypes /\ [JobNext]_vars => [Next]_storeVars
  <1> SUFFICES ASSUME JobTypes, JobNext PROVE [Next]_storeVars
    BY DEF vars
  <1>1. ASSUME NEW a \in Agents, JobStep(a) PROVE [Next]_storeVars
    <2>1. CASE Submit(a) \/ Ask(a) \/ Fails(a) \/ Reject(a) \/ Committed(a)
      BY <2>1 DEF Submit, Ask, Fails, Reject, Committed
    <2>2. ASSUME NEW v \in Versions, Accept(a, v) PROVE [Next]_storeVars
      <3>1. Put(a, <<pin[a], attempt[a]>>)
        BY <2>2 DEF Accept
      <3>2. a \in Writers /\ <<pin[a], attempt[a]>> \in Contents
        BY DEF JobTypes
      <3> QED BY <3>1, <3>2 DEF Next
    <2>3. ASSUME NEW v \in Versions, Mutate(a, v) PROVE [Next]_storeVars
      BY <2>3 DEF Mutate
    <2> QED BY <1>1, <2>1, <2>2, <2>3 DEF JobStep
  <1> QED BY <1>1 DEF JobNext, Next

\* What a step of a put changes, for the writer and for the others.
LEMMA PutStepFacts ==
  ASSUME IInv, NEW w \in Writers, PutStep(w)
  PROVE  /\ pc[w] # "idle" /\ acked \subseteq acked'
         /\ \A x \in Writers \ {w} :
              pc'[x] = pc[x] /\ content'[x] = content[x] /\ outcome'[x] = outcome[x]
         /\ \/ pc'[w] # "idle" /\ content'[w] = content[w]
            \/ pc'[w] = "idle" /\ (outcome'[w] = "returned" => content[w] \in acked')
  <1>1. pc \in [Writers -> Steps] /\ content \in [Writers -> Contents \union {None}]
        /\ outcome \in [Writers -> {"none", "returned", "raised"}]
    BY DEF IInv, TypeOK
  <1>2. CASE pc[w] # "idle" /\ \E how \in {"returned", "raised"} : Leave(w, how)
    BY <1>1, <1>2 DEF Leave, Goto
  <1>3. CASE /\ pc[w] # "idle" /\ \E step \in Steps \ {"idle"} : Goto(w, step)
             /\ UNCHANGED <<content, outcome, acked>>
    BY <1>1, <1>3 DEF Goto
  <1>4. CASE Lookup(w) \/ Recheck(w) \/ Fail(w) \/ Replace(w)
    BY <1>2, <1>3, <1>4 DEF Lookup, Recheck, Check, Fail, Replace, Steps, WithTemp
  <1>5. CASE MakeTemp(w) \/ Write(w) \/ Sync(w)
    BY <1>3, <1>5 DEF MakeTemp, Write, Sync, Steps, WithTemp
  <1> QED BY <1>4, <1>5 DEF PutStep
-----------------------------------------------------------------------------
(* The submission *)

LEMMA JobInitKeeps == JobInit => JInv
  <1> SUFFICES ASSUME JobInit PROVE JInv
    OBVIOUS
  <1>1. IInv
    BY InitKeeps DEF JobInit
  <1>2. JobTypes
    BY DEF JobInit, JobTypes
  <1>3. \A a \in Agents : Submission(a) /\ Reported(a)
    BY DEF JobInit, Init, Submission, Reported
  <1> QED BY <1>1, <1>2, <1>3 DEF JInv

\* A step of agent a that leaves the store alone keeps the others' part.
LEMMA OwnStep ==
  ASSUME JInv, NEW a \in Agents, UNCHANGED storeVars, JobTypes',
         Submission(a)', Reported(a)',
         \A b \in Agents \ {a} :
           /\ phase'[b] = phase[b] /\ attempt'[b] = attempt[b] /\ bundle'[b] = bundle[b]
           /\ pin'[b] = pin[b] /\ answered'[b] = answered[b]
           /\ disturbed'[b] = disturbed[b] /\ commits'[b] = commits[b]
           /\ result'[b] = result[b]
  PROVE  JInv'
  <1>1. IInv'
    BY StutterKeeps DEF JInv
  <1>2. ASSUME NEW b \in Agents, b # a PROVE Submission(b)' /\ Reported(b)'
    BY <1>2 DEF JInv, Submission, Reported, ResultOf, storeVars
  <1> QED BY <1>1, <1>2 DEF JInv

LEMMA SubmitKeeps ==
  ASSUME JInv, NEW a \in Agents, Submit(a)
  PROVE  JInv'
  <1>1. JobTypes'
    BY DEF JInv, JobTypes, Submit
  <1>2. Submission(a)' /\ Reported(a)'
    BY DEF JInv, JobTypes, Submit, Submission, Reported, ResultOf, storeVars
  <1> QED BY <1>1, <1>2, OwnStep DEF JInv, JobTypes, Submit

LEMMA AskKeeps ==
  ASSUME JInv, NEW a \in Agents, Ask(a)
  PROVE  JInv'
  <1>1. JobTypes'
    BY DEF JInv, JobTypes, Ask, End
  <1>2. Submission(a)' /\ Reported(a)'
    BY DEF JInv, JobTypes, Ask, End, Submission, Reported, ResultOf, storeVars
  <1> QED BY <1>1, <1>2, OwnStep DEF JInv, JobTypes, Ask, End

LEMMA FailsKeeps ==
  ASSUME JInv, NEW a \in Agents, Fails(a)
  PROVE  JInv'
  <1>1. JobTypes'
    BY DEF JInv, JobTypes, Fails, End
  <1>2. Submission(a)' /\ Reported(a)'
    BY DEF JInv, JobTypes, Fails, End, Submission, Reported, ResultOf, storeVars
  <1> QED BY <1>1, <1>2, OwnStep DEF JInv, JobTypes, Fails, End

LEMMA RejectKeeps ==
  ASSUME JInv, NEW a \in Agents, Reject(a)
  PROVE  JInv'
  <1>1. JobTypes'
    BY DEF JInv, JobTypes, Reject, End
  <1>2. Submission(a)' /\ Reported(a)'
    BY DEF JInv, JobTypes, Reject, End, Submission, Reported, ResultOf, storeVars
  <1> QED BY <1>1, <1>2, OwnStep DEF JInv, JobTypes, Reject, End

LEMMA CommittedKeeps ==
  ASSUME JInv, NEW a \in Agents, Committed(a)
  PROVE  JInv'
  <1>1. JobTypes'
    BY DEF JInv, JobTypes, Committed, End
  <1>2. Submission(a)' /\ Reported(a)'
    BY DEF JInv, JobTypes, Committed, End, Submission, Reported, ResultOf, storeVars
  <1> QED BY <1>1, <1>2, OwnStep DEF JInv, JobTypes, Committed, End

LEMMA MutateKeeps ==
  ASSUME JInv, NEW a \in Agents, NEW v \in Versions, Mutate(a, v)
  PROVE  JInv'
  <1>1. JobTypes'
    BY DEF JInv, JobTypes, Mutate
  <1>2. Submission(a)' /\ Reported(a)'
    BY DEF JInv, JobTypes, Mutate, Submission, Reported, ResultOf, storeVars
  <1> QED BY <1>1, <1>2, OwnStep DEF JInv, JobTypes, Mutate

LEMMA AcceptKeeps ==
  ASSUME JInv, NEW a \in Agents, NEW v \in Versions, Accept(a, v)
  PROVE  JInv'
  <1>1. a \in Writers /\ <<pin[a], attempt[a]>> \in Contents
    BY DEF JInv, JobTypes
  <1>2. Put(a, <<pin[a], attempt[a]>>)
    BY DEF Accept
  <1>3. IInv'
    BY <1>1, <1>2, PutKeeps DEF JInv
  <1>4. JobTypes'
    BY DEF JInv, JobTypes, Accept
  <1>5. /\ pc'[a] = "lookup" /\ content'[a] = ResultOf(a) /\ acked' = acked
        /\ \A b \in Agents \ {a} :
             pc'[b] = pc[b] /\ content'[b] = content[b] /\ outcome'[b] = outcome[b]
    BY <1>1, <1>2 DEF Put, Goto, ResultOf, JInv, IInv, TypeOK
  <1>6. ASSUME NEW b \in Agents, b # a PROVE Submission(b)' /\ Reported(b)'
    BY <1>5, <1>6 DEF JInv, JobTypes, Accept, Submission, Reported, ResultOf
  <1>7. Submission(a)' /\ Reported(a)'
    <2>1. disturbed[a] \/ v = pin[a]
      BY DEF Accept, Echoes, JInv, Submission
    <2> QED BY <1>5, <2>1 DEF JInv, JobTypes, Accept, Submission, Reported, ResultOf
  <1> QED BY <1>3, <1>4, <1>6, <1>7 DEF JInv

\* A put of a writer that submits no job.
LEMMA OtherPutKeeps ==
  ASSUME JInv, NEW w \in Writers \ Agents, NEW c \in Contents, Put(w, c), UNCHANGED jobVars
  PROVE  JInv'
  <1>1. IInv'
    BY PutKeeps DEF JInv
  <1>2. JobTypes'
    BY DEF JInv, JobTypes, jobVars
  <1>3. acked' = acked /\ \A a \in Agents :
          pc'[a] = pc[a] /\ content'[a] = content[a] /\ outcome'[a] = outcome[a]
    BY DEF Put, Goto, JInv, IInv, TypeOK
  <1>4. ASSUME NEW a \in Agents PROVE Submission(a)' /\ Reported(a)'
    BY <1>3 DEF JInv, Submission, Reported, ResultOf, jobVars
  <1> QED BY <1>1, <1>2, <1>4 DEF JInv

LEMMA JobPutStepKeeps ==
  ASSUME JInv, NEW w \in Writers, PutStep(w), UNCHANGED jobVars
  PROVE  JInv'
  <1>1. IInv'
    BY PutStepKeeps DEF JInv
  <1>2. JobTypes'
    BY DEF JInv, JobTypes, jobVars
  <1>3. ASSUME NEW a \in Agents PROVE Submission(a)' /\ Reported(a)'
    BY PutStepFacts DEF JInv, Submission, Reported, ResultOf, jobVars
  <1> QED BY <1>1, <1>2, <1>3 DEF JInv

LEMMA JobCrashKeeps ==
  ASSUME JInv, NEW w \in Writers, Crash(w), Forget({w})
  PROVE  JInv'
  <1>1. IInv'
    BY CrashKeeps DEF JInv
  <1>2. JobTypes'
    BY DEF JInv, JobTypes, Forget
  <1>3. /\ pc'[w] = "idle" /\ acked' = acked
        /\ \A x \in Writers \ {w} :
             pc'[x] = pc[x] /\ content'[x] = content[x] /\ outcome'[x] = outcome[x]
    BY DEF Crash, Goto, JInv, IInv, TypeOK
  <1>4. ASSUME NEW a \in Agents PROVE Submission(a)' /\ Reported(a)'
    <2>1. CASE a = w
      BY <1>3, <2>1 DEF Forget, Submission, Reported
    <2>2. CASE a # w
      BY <1>3, <2>2 DEF JInv, Forget, Submission, Reported, ResultOf
    <2> QED BY <2>1, <2>2
  <1> QED BY <1>1, <1>2, <1>4 DEF JInv

LEMMA JobPowerLossKeeps ==
  ASSUME JInv, PowerLoss, Forget(Agents)
  PROVE  JInv'
  <1>1. IInv'
    BY PowerLossKeeps DEF JInv
  <1>2. JobTypes'
    BY DEF JInv, JobTypes, Forget
  <1>3. ASSUME NEW a \in Agents PROVE Submission(a)' /\ Reported(a)'
    BY DEF PowerLoss, Forget, Submission, Reported
  <1> QED BY <1>1, <1>2, <1>3 DEF JInv

LEMMA JobNextKeeps == JInv /\ [JobNext]_vars => JInv'
  <1> SUFFICES ASSUME JInv, [JobNext]_vars PROVE JInv'
    OBVIOUS
  <1>1. ASSUME NEW a \in Agents, JobStep(a) PROVE JInv'
    BY <1>1, SubmitKeeps, AskKeeps, FailsKeeps, RejectKeeps, CommittedKeeps, AcceptKeeps,
       MutateKeeps DEF JobStep
  <1>2. CASE UNCHANGED vars
    <2>1. UNCHANGED storeVars /\ UNCHANGED jobVars
      BY <1>2 DEF vars
    <2>2. IInv'
      BY <2>1, StutterKeeps DEF JInv
    <2>3. JobTypes' /\ \A a \in Agents : Submission(a)' /\ Reported(a)'
      BY <2>1 DEF JInv, JobTypes, Submission, Reported, ResultOf, jobVars, storeVars
    <2> QED BY <2>2, <2>3 DEF JInv
  <1> QED BY <1>1, <1>2, OtherPutKeeps, JobPutStepKeeps, JobCrashKeeps, JobPowerLossKeeps
       DEF JobNext

(* What submit relies on while an answer is awaited and while its result is *)
(* being stored holds in every reachable state.                             *)
THEOREM JobInvariant == JobSpec => []JInv
  BY JobInitKeeps, JobNextKeeps, PTL DEF JobSpec

(* Submissions drive the store through put_bytes only, so what is proved of *)
(* the store holds under them.                                              *)
THEOREM Composition == JobSpec => Spec
  <1>1. JInv => JobTypes
    BY DEF JInv
  <1> QED BY <1>1, StoreInit, StoreStep, JobInvariant, PTL DEF JobSpec, Spec

(* A submission that reports OK has stored its result, once, under the pin  *)
(* it was submitted with and for an answer echoing that pin unless the      *)
(* bundle changed meanwhile; one that reports AGENT_ERROR, nothing.         *)
THEOREM SubmitAllOrNothing == JobSpec => []SubmitIsAllOrNothing
  <1>1. JInv => SubmitIsAllOrNothing
    BY DEF JInv, Reported, ResultOf, SubmitIsAllOrNothing
  <1> QED BY <1>1, JobInvariant, PTL

(* The store keeps its promise under submissions, retries and crashes.      *)
THEOREM JobsKeepThePromise == JobSpec => ImplementsContentStore
  BY Composition, Refinement, PTL

(* No submission leaves a temporary file behind.                            *)
THEOREM JobsLeaveNoTemps == JobSpec => []TempsAreOwned
  BY Composition, TempsOwned, PTL
=============================================================================
