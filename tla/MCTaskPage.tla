----------------------------- MODULE MCTaskPage -----------------------------
(* TaskPage for TLC; liveness is checked, so no symmetry. *)
EXTENDS TaskPage

(* The page's last change of identity and the reviews it asks for itself,     *)
(* which may open another round, are in different behaviours: neither is a    *)
(* step that fairness is about.                                              *)
Bounded ==
  switches' = 2 =>
    /\ srv'.revisions = 0
    /\ \A s \in Slots : posts'[s].kind # "review"
=============================================================================
