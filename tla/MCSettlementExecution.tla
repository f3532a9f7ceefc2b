------------------------ MODULE MCSettlementExecution ------------------------
(* SettlementExecution for TLC: symmetry over payments and request slots. *)
EXTENDS SettlementExecution, TLC

Symmetry == Permutations(Requests) \cup Permutations(Payments)
=============================================================================
