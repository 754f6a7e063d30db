--------------------------- MODULE MCResearchLoop ---------------------------
(* Instances of ResearchLoop for TLC.  Liveness is checked with safety, so    *)
(* no symmetry is used.                                                       *)
EXTENDS ResearchLoop, TLC
=============================================================================
