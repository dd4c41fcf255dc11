---------------------------- MODULE Attestation ----------------------------
(* What the check-in protocol of siphonophore_core/identity.py promises,   *)
(* without connections, threads or timeouts.  A registration is opened     *)
(* once, attested at most once and only while open, and closed once, with  *)
(* a verdict that is "verified" only for an attested one.  The code a      *)
(* registration guards begins only after the attestation.                  *)
CONSTANT Executions

VARIABLES
  status,    \* "new", "open", then the verdict: "verified" or "timeout"
  attested,  \* executions whose process proved who it is
  begun      \* executions whose artifact code started

avars == <<status, attested, begun>>

Init == /\ status = [e \in Executions |-> "new"]
        /\ attested = {}
        /\ begun = {}

Open(e) == /\ status[e] = "new"
           /\ status' = [status EXCEPT ![e] = "open"]
           /\ UNCHANGED <<attested, begun>>

Attest(e) == /\ status[e] = "open"
             /\ e \notin attested
             /\ attested' = attested \cup {e}
             /\ UNCHANGED <<status, begun>>

Close(e) == /\ status[e] = "open"
            /\ \/ e \in attested /\ status' = [status EXCEPT ![e] = "verified"]
               \/ status' = [status EXCEPT ![e] = "timeout"]
            /\ UNCHANGED <<attested, begun>>

Begin(e) == /\ e \in attested \ begun
            /\ begun' = begun \cup {e}
            /\ UNCHANGED <<status, attested>>

Next == \E e \in Executions : Open(e) \/ Attest(e) \/ Close(e) \/ Begin(e)

Spec == Init /\ [][Next]_avars
=============================================================================
