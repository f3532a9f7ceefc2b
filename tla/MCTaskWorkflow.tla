--------------------------- MODULE MCTaskWorkflow ---------------------------
(* TaskWorkflow for TLC: symmetry over wallets and over request slots. *)
EXTENDS TaskWorkflow, TLC

Symmetry == Permutations(Actors) \cup Permutations(Requests)
=============================================================================
