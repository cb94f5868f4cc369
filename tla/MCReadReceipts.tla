--------------------------- MODULE MCReadReceipts ---------------------------
(* Model-checking instances of ReadReceipts. *)
EXTENDS ReadReceipts
=============================================================================
