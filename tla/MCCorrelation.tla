---------------------------- MODULE MCCorrelation ----------------------------
(* Handlers, nodes and failure codes are told apart by nothing but their   *)
(* names, and no property is temporal.                                     *)
EXTENDS Correlation, TLC

Symmetry == Permutations(Handlers) \cup Permutations(Reporters) \cup Permutations(Codes)
=============================================================================
