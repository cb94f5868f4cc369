------------------------ MODULE MCDeliveryWatermark ------------------------
(* Model-checking instances of DeliveryWatermark. *)
EXTENDS DeliveryWatermark, TLC

EventSymmetry == Permutations(Events)
=============================================================================
