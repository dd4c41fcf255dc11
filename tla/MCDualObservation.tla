------------------------- MODULE MCDualObservation -------------------------
(* One attempt of DualObservation for TLC, with no mediated dispatch.      *)
EXTENDS DualObservation, TLC

CONSTANT attempt

MCKind == <<>>
=============================================================================
