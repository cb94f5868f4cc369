-------------------------- MODULE MCMessageContent --------------------------
(* Model-checking instances of MessageContent. *)
EXTENDS MessageContent
=============================================================================
