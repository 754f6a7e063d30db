---------------------------- MODULE Publication ----------------------------
(***************************************************************************)
(* What publishing promises: a revision is asked for, becomes visible in    *)
(* the wiki at most once and only then counts as published; nothing is ever *)
(* taken back.                                                              *)
(***************************************************************************)
CONSTANT Revisions

VARIABLES asked, visible, acknowledged

pubVars == <<asked, visible, acknowledged>>

PubInit == asked = {} /\ visible = {} /\ acknowledged = {}

Ask(r) ==
  /\ r \notin asked /\ asked' = asked \union {r}
  /\ UNCHANGED <<visible, acknowledged>>

Show(r) ==
  /\ r \in asked \ visible /\ visible' = visible \union {r}
  /\ UNCHANGED <<asked, acknowledged>>

Acknowledge(r) ==
  /\ r \in visible \ acknowledged /\ acknowledged' = acknowledged \union {r}
  /\ UNCHANGED <<asked, visible>>

PubSpec ==
  PubInit /\ [][\E r \in Revisions : Ask(r) \/ Show(r) \/ Acknowledge(r)]_pubVars
=============================================================================
