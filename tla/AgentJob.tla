------------------------------ MODULE AgentJob ------------------------------
(***************************************************************************)
(* HermesAdapter.submit over the artifact store: callers in several         *)
(* processes submit the same pinned job, each with an object of its own,    *)
(* and hand the result of an accepted answer to on_success.  An answer is   *)
(* late, foreign, malformed, raises, or is good; the job's input bundle is  *)
(* a mutable dict, its pin is computed anew at each use, and whoever shares *)
(* the bundle may change it at any time.                                    *)
(*                                                                          *)
(* The caller supplies on_success, and nothing under src/ does.  Here it    *)
(* puts the result into the store, the slowest thing it could do: an        *)
(* assumption about the caller, not code that is modelled.                  *)
(*                                                                          *)
(* A version of the bundle stands for its pin.  What makes an answer with   *)
(* the right pin unacceptable (schema, status, model, dependencies, tests,  *)
(* credentials) is one outcome, "invalid".                                  *)
(***************************************************************************)
EXTENDS ArtifactStore, Naturals

CONSTANTS
  Agents,              \* the writers that submit jobs
  Versions             \* of the job's input bundle

\* A stored result has the pin and the number of its attempt.
ASSUME JobAssumption == Agents \subseteq Writers /\ Versions \X (1..2) \subseteq Contents

VARIABLES
  phase, attempt,
  bundle,              \* what a caller's job object holds now
  pin,                 \* the pin taken when the job was submitted
  disturbed,           \* history: the bundle changed while the answer was awaited
  answered,            \* history: the pin of the answer accepted
  commits,             \* history: on_success calls of this submission
  result               \* "none" | "OK" | "AGENT_ERROR" | "raised"

jobVars == <<phase, attempt, bundle, pin, disturbed, answered, commits, result>>
vars == <<storeVars, jobVars>>

JobInit ==
  /\ Init
  /\ phase = [a \in Agents |-> "idle"] /\ attempt = [a \in Agents |-> 1]
  /\ bundle \in [Agents -> Versions] /\ pin = bundle
  /\ disturbed = [a \in Agents |-> FALSE] /\ answered = bundle
  /\ commits = [a \in Agents |-> 0] /\ result = [a \in Agents |-> "none"]

\* submit returns or raises.
End(a, how) ==
  /\ phase' = [phase EXCEPT ![a] = "idle"] /\ result' = [result EXCEPT ![a] = how]
-----------------------------------------------------------------------------
Submit(a) ==
  /\ phase[a] = "idle"
  /\ phase' = [phase EXCEPT ![a] = "ask"] /\ attempt' = [attempt EXCEPT ![a] = 1]
  /\ pin' = [pin EXCEPT ![a] = bundle[a]] /\ answered' = [answered EXCEPT ![a] = bundle[a]]
  /\ disturbed' = [disturbed EXCEPT ![a] = FALSE]
  /\ commits' = [commits EXCEPT ![a] = 0] /\ result' = [result EXCEPT ![a] = "none"]
  /\ UNCHANGED <<bundle, storeVars>>

\* Before each attempt the pin is compared with the one submitted.
Ask(a) ==
  /\ phase[a] = "ask"
  /\ \/ /\ bundle[a] = pin[a]
        /\ phase' = [phase EXCEPT ![a] = "answer"]
        /\ disturbed' = [disturbed EXCEPT ![a] = FALSE] /\ UNCHANGED result
     \/ bundle[a] # pin[a] /\ End(a, "AGENT_ERROR") /\ UNCHANGED disturbed
  /\ UNCHANGED <<attempt, bundle, pin, answered, commits, storeVars>>

\* ProviderError ends the job; any other exception of the transport, or bytes
\* that are not UTF-8, leave submit without a result.
Fails(a) ==
  /\ phase[a] = "answer" /\ \E how \in {"AGENT_ERROR", "raised"} : End(a, how)
  /\ UNCHANGED <<attempt, bundle, pin, disturbed, answered, commits, storeVars>>

\* An answer _interpret turns down is asked for again once.
Reject(a) ==
  /\ phase[a] = "answer"
  /\ \/ /\ attempt[a] = 1 /\ attempt' = [attempt EXCEPT ![a] = 2]
        /\ phase' = [phase EXCEPT ![a] = "ask"] /\ UNCHANGED result
     \/ attempt[a] = 2 /\ End(a, "AGENT_ERROR") /\ UNCHANGED attempt
  /\ UNCHANGED <<bundle, pin, disturbed, answered, commits, storeVars>>

\* Mutant: the answer's pin is not looked at.
EchoesAny(a, v) == TRUE
\* parsed["pin"] is compared with the pin of the job as it is now.
Echoes(a, v) == v = bundle[a]

\* A good answer is handed to on_success; that it stores it is assumed.
Accept(a, v) ==
  /\ phase[a] = "answer" /\ Echoes(a, v)
  /\ Put(a, <<pin[a], attempt[a]>>)
  /\ phase' = [phase EXCEPT ![a] = "commit"]
  /\ answered' = [answered EXCEPT ![a] = v] /\ commits' = [commits EXCEPT ![a] = @ + 1]
  /\ UNCHANGED <<attempt, bundle, pin, disturbed, result>>

\* on_success returns, or raises out of submit.
Committed(a) ==
  /\ phase[a] = "commit" /\ pc[a] = "idle"
  /\ End(a, IF outcome[a] = "returned" THEN "OK" ELSE "raised")
  /\ UNCHANGED <<attempt, bundle, pin, disturbed, answered, commits, storeVars>>

\* Whoever shares the bundle changes it.
Mutate(a, v) ==
  /\ bundle[a] # v /\ bundle' = [bundle EXCEPT ![a] = v]
  /\ disturbed' = [disturbed EXCEPT ![a] = @ \/ phase[a] = "answer"]
  /\ UNCHANGED <<phase, attempt, pin, answered, commits, result, storeVars>>

\* The processes in `dead` die with their submissions.
Forget(dead) ==
  /\ phase' = [a \in Agents |-> IF a \in dead THEN "idle" ELSE phase[a]]
  /\ result' = [a \in Agents |-> IF a \in dead THEN "none" ELSE result[a]]
  /\ UNCHANGED <<attempt, bundle, pin, disturbed, answered, commits>>

JobStep(a) ==
  \/ Submit(a) \/ Ask(a) \/ Fails(a) \/ Reject(a) \/ Committed(a)
  \/ \E v \in Versions : Accept(a, v) \/ Mutate(a, v)

JobNext ==
  \/ \E a \in Agents : JobStep(a)
  \/ \E w \in Writers \ Agents, c \in Contents : Put(w, c) /\ UNCHANGED jobVars
  \/ \E w \in Writers : PutStep(w) /\ UNCHANGED jobVars
  \/ \E w \in Writers : Crash(w) /\ Forget({w})
  \/ PowerLoss /\ Forget(Agents)

JobSpec == JobInit /\ [][JobNext]_vars
-----------------------------------------------------------------------------
(* What a submission that reports an outcome has stored (submit): with OK   *)
(* its result, once, under the pin it was submitted with, and for an answer *)
(* that echoes that pin unless the bundle was changed while the answer was  *)
(* awaited; with AGENT_ERROR, of any attempt, nothing.  A submission that   *)
(* raises or dies with its process reports none, and may have stored its    *)
(* result or not.                                                           *)
SubmitIsAllOrNothing ==
  \A a \in Agents :
    /\ result[a] = "AGENT_ERROR" => commits[a] = 0
    /\ result[a] = "OK" =>
         /\ commits[a] = 1 /\ <<pin[a], attempt[a]>> \in acked
         /\ disturbed[a] \/ answered[a] = pin[a]
=============================================================================
