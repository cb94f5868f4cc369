--------------------------- MODULE MCGroupRoster ---------------------------
(* Model-checking instances of GroupRoster. *)
EXTENDS GroupRoster, TLC

Symmetry == Permutations(Events) \cup Permutations(Workers)
=============================================================================
