--------------------------- MODULE MCRefreshLease ---------------------------
(* Instances of RefreshLease for TLC. *)
EXTENDS RefreshLease, TLC

Symmetry == Permutations(Tasks) \cup Permutations(Contents)
=============================================================================
