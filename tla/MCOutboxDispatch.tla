-------------------------- MODULE MCOutboxDispatch --------------------------
(* Model-checking instances of OutboxDispatch. *)
EXTENDS OutboxDispatch, TLC

WorkerSymmetry == Permutations(Workers)
=============================================================================
