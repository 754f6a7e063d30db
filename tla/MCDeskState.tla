---------------------------- MODULE MCDeskState ----------------------------
(* Instances of DeskState for TLC. *)
EXTENDS DeskState, TLC

\* Runs, keys and versions are interchangeable as long as no property names one.
RunSymmetry == Permutations(Runs)
KeySymmetry ==
  Permutations(KeyNumbers) \union Permutations(ApprovalKeys) \union Permutations(Versions)
=============================================================================
