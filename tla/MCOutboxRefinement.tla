------------------------- MODULE MCOutboxRefinement -------------------------
(* Model-checking instance of OutboxRefinement. *)
EXTENDS OutboxRefinement, TLC

WorkerSymmetry == Permutations(Workers)
=============================================================================
