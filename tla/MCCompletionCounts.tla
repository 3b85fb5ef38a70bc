------------------------- MODULE MCCompletionCounts -------------------------
(* Instances of CompletionCounts for TLC. *)
EXTENDS CompletionCounts, TLC

=============================================================================
