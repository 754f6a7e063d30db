----------------------------- MODULE FamilyGate -----------------------------
(***************************************************************************)
(* What the desk promises of a strategy family, without runs, keys, budgets *)
(* or clocks: a family is researched, may unseal its out-of-sample window   *)
(* once, and either ends there or goes on to paper trading, which it leaves *)
(* only to be suspended.  Once a family was rejected, a new one needs the   *)
(* owner's word naming both.                                                *)
(***************************************************************************)
CONSTANTS Families

VARIABLES
  phase,      \* where each family stands
  granted     \* pairs <<rejected, proposed>> the owner has approved

gateVars == <<phase, granted>>

Suspended == {"daily_paused", "mdd_halted", "data_gap"}
Phases == {"absent", "research", "oos", "rejected", "ready", "live"} \union Suspended

GateInit == phase = [f \in Families |-> "absent"] /\ granted = {}

Rejected == {f \in Families : phase[f] = "rejected"}

Move(f, from, to) == phase[f] = from /\ phase' = [phase EXCEPT ![f] = to]

\* A family opens freely while none is rejected, afterwards by the owner's grant.
Open(f) ==
  /\ Move(f, "absent", "research")
  /\ \/ Rejected = {} /\ UNCHANGED granted
     \/ \E g \in Rejected : granted' = granted \union {<<g, f>>}

Unseal(f) == Move(f, "research", "oos") /\ UNCHANGED granted

Verdict(f) ==
  /\ \E verdict \in {"rejected", "ready"} : Move(f, "oos", verdict)
  /\ UNCHANGED granted

Start(f) == Move(f, "ready", "live") /\ UNCHANGED granted

Suspend(f) ==
  /\ \E why \in Suspended : Move(f, "live", why)
  /\ UNCHANGED granted

Resume(f) ==
  /\ \E why \in Suspended : Move(f, why, "live")
  /\ UNCHANGED granted

GateNext ==
  \E f \in Families :
    Open(f) \/ Unseal(f) \/ Verdict(f) \/ Start(f) \/ Suspend(f) \/ Resume(f)

GateSpec == GateInit /\ [][GateNext]_gateVars
=============================================================================
