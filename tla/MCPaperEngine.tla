--------------------------- MODULE MCPaperEngine ---------------------------
(* Instances of PaperEngine for TLC. *)
EXTENDS PaperEngine, TLC

\* The symbols are interchangeable.
SymbolSymmetry == Permutations(Symbols)
=============================================================================
