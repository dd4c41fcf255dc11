--------------------------- MODULE MCSpawnHelper ---------------------------
(* A small instance of SpawnHelper for TLC: one Decision executed twice,   *)
(* through each backend, by a broker that is not root and by one that is,  *)
(* each with a uid of its own.                                             *)
EXTENDS SpawnHelper, TLC

CONSTANTS d1, d2, i1, n1

MCExecutionId == d1 :> i1 @@ d2 :> i1
MCUsername == i1 :> n1
MCIdLength == i1 :> 32
MCUidRange == d1 :> {1} @@ d2 :> {2}
=============================================================================
