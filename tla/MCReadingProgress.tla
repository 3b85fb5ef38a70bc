------------------------- MODULE MCReadingProgress -------------------------
(* Small instances of ReadingProgress for TLC. *)
EXTENDS ReadingProgress, TLC

Symmetry == Permutations(Devices)

\* Two positions one percentage apart.
MCPositions == 1 .. 2
MCPercent == [p \in MCPositions |-> 10 * p]
=============================================================================
