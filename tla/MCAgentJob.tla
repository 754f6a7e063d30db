---------------------------- MODULE MCAgentJob ----------------------------
(* A process submits a job whose bundle has two versions; another one may   *)
(* store the same results at the same time.                                 *)
EXTENDS AgentJob, TLC

MCContents == Versions \X (1..2)
MCSymmetry == Permutations(Versions)
=============================================================================
