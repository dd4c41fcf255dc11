---------------------------- MODULE MCUidCgroup ----------------------------
(* Three dispatches: two execute the same Decision, and the third has an   *)
(* execution id of its own.                                                *)
EXTENDS UidCgroup

CONSTANTS d1, d2, d3, x, y, nx, ny

MCExecutionId == [d \in Dispatches |-> IF d = d3 THEN y ELSE x]
MCUsername == [i \in ExecutionIds |-> IF i = x THEN nx ELSE ny]
=============================================================================
