----------------------------- MODULE MCTimeline -----------------------------
(* Model-checking instances of Timeline. *)
EXTENDS Timeline, TLC
=============================================================================
