----------------------------- MODULE MCCheckin -----------------------------
(* Two dispatches of one backend instance, each with its own uid.          *)
EXTENDS Checkin

CONSTANTS e1, e2, u1, u2

MCExpectedUid == [e \in Executions |-> IF e = e1 THEN u1 ELSE u2]
=============================================================================
