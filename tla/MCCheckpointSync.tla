-------------------------- MODULE MCCheckpointSync --------------------------
(* Small instances of CheckpointSync for TLC. *)
EXTENDS CheckpointSync, TLC

Symmetry == Permutations(Tabs) \cup Permutations(Readers) \cup Permutations(Sids)

\* Parts of a second and whole ones: 0.4 s rounds to 0, 1.2 s to 1, 1.6 s to 2.
MCInstants == {0, 400, 1600}
\* For the liveness run: a run of nothing and one that is worth a credit.
LiveInstants == {0, 1600}
=============================================================================
