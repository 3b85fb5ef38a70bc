-------------------------- MODULE MCSessionTracker --------------------------
(* Small instances of SessionTracker for TLC. *)
EXTENDS SessionTracker, TLC

Symmetry == Permutations(Tabs) \cup Permutations(Sids)
=============================================================================
