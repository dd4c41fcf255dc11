--------------------------- MODULE Checkin_proofs ---------------------------
(* Theorems about Checkin, for any number of dispatches and uids: its      *)
(* safety properties, and that each of its steps is a step of Attestation. *)
EXTENDS Checkin, TLAPS

\* How far a dispatch is says whether its registration is in the table, what the wait
\* answered, and whether its child may live.
Stages(e) ==
  /\ broker[e] = "idle" => e \notin pending /\ verdict[e] = "none"
  /\ broker[e] \in {"idle", "registered"} => child[e] = "none"
  /\ broker[e] # "idle" => (e \in pending <=> verdict[e] = "none")
  /\ broker[e] \in {"registered", "spawned", "waiting", "woken", "expired"} =>
       verdict[e] = "none"
  /\ broker[e] = "failing" => verdict[e] = "timeout"
  /\ broker[e] = "reading" => verdict[e] = "verified"
  /\ broker[e] = "woken" => peer[e] # NoUid
  /\ broker[e] = "settled" => child[e] \notin Alive
  /\ broker[e] = "settled" /\ verdict[e] = "none" => outcome[e] = "raised"
  /\ broker[e] # "settled" => outcome[e] = "none"

\* The registration, the connection of the child and the answers given agree.
Answers(e) ==
  /\ peer[e] \in {NoUid, ExpectedUid[e]}
  /\ told[e] = IF peer[e] = NoUid THEN <<>> ELSE <<ExpectedUid[e]>>
  /\ peer[e] # NoUid <=> conn[e] = "yes"
  /\ verdict[e] = "verified" => peer[e] # NoUid
  /\ conn[e] = "no" => verdict[e] = "timeout"

\* The child begins artifact_code once, after a yes.
Bodies(e) ==
  /\ child[e] \in {"none", "started"} => conn[e] = "none"
  /\ child[e] \in {"none", "started", "asking"} => e \notin begun
  /\ child[e] \in {"body", "exited"} => e \in begun
  /\ e \in begun => conn[e] = "yes"
  /\ outcome[e] = "effect" => verdict[e] = "verified" /\ child[e] = "exited"

\* What holds of each dispatch.
Local(e) == Stages(e) /\ Answers(e) /\ Bodies(e)

\* The inductive invariant.
Inv == TypeOK /\ \A e \in Executions : Local(e)

USE DEF registry, Alive

-----------------------------------------------------------------------------
(* The initial state and the types.                                        *)

\* The invariant holds initially.
LEMMA InitInv == Init => Inv
  BY NoUidAssumption DEF Init, Inv, TypeOK, Local, Stages, Answers, Bodies

\* Every step keeps the types.
LEMMA TypeStep == TypeOK /\ [Next]_vars => TypeOK'
<1> SUFFICES ASSUME TypeOK, [Next]_vars PROVE TypeOK'
  OBVIOUS
<1> USE ExpectedUidAssumption DEF TypeOK
<1>1. ASSUME NEW e \in Executions, BrokerStep(e) PROVE TypeOK'
  <2>1. CASE register_pending(e)  BY <2>1 DEF register_pending
  <2>2. CASE spawn(e)  BY <2>2 DEF spawn
  <2>3. CASE spawn_fails(e)  BY <2>3 DEF spawn_fails, Settle
  <2>4. CASE confine(e)  BY <2>4 DEF confine
  <2>5. CASE confine_fails(e)  BY <2>5 DEF confine_fails, Settle
  <2>6. CASE event_set(e)  BY <2>6 DEF event_set
  <2>7. CASE event_timeout(e)  BY <2>7 DEF event_timeout
  <2>8. CASE collect(e)  BY <2>8 DEF collect
  <2>9. CASE checkin_failed(e)  BY <2>9 DEF checkin_failed, Settle
  <2>10. CASE finish(e)  BY <2>10 DEF finish, Settle
  <2> QED BY <1>1, <2>1, <2>2, <2>3, <2>4, <2>5, <2>6, <2>7, <2>8, <2>9, <2>10 DEF BrokerStep
<1>2. ASSUME NEW e \in Executions, ChildStep(e) PROVE TypeOK'
  <2>1. CASE connect(e)  BY <2>1 DEF connect, ChildMoves
  <2>2. CASE start_fails(e)  BY <2>2 DEF start_fails, ChildMoves
  <2>3. CASE admitted(e)  BY <2>3 DEF admitted, ChildMoves
  <2>4. CASE turned_away(e)  BY <2>4 DEF turned_away, ChildMoves
  <2>5. CASE body_ends(e)  BY <2>5 DEF body_ends, ChildMoves
  <2> QED BY <1>2, <2>1, <2>2, <2>3, <2>4, <2>5 DEF ChildStep
<1>3. ASSUME NEW e \in Executions, HandlerStep(e) PROVE TypeOK'
  <2>1. CASE accept(e)  BY <2>1 DEF accept
  <2>2. CASE handle_conn(e)
    BY <2>2 DEF handle_conn, handle_checkin, Verifies, Mismatch, Unfinished
  <2>3. ASSUME NEW uid \in Uids, handle_other(e, uid) PROVE TypeOK'
    BY <2>3 DEF handle_other, handle_checkin, Verifies, Mismatch, Unfinished
  <2> QED BY <1>3, <2>1, <2>2, <2>3 DEF HandlerStep
<1>4. CASE stop  BY <1>4 DEF stop
<1>5. CASE UNCHANGED vars  BY <1>5 DEF vars
<1> QED BY <1>1, <1>2, <1>3, <1>4, <1>5 DEF Next

-----------------------------------------------------------------------------
(* What each operation of a dispatch e does to the invariant of f.         *)

\* A step of the broker thread of e.
LEMMA BrokerLocal ==
  ASSUME Inv, NEW e \in Executions, NEW f \in Executions, BrokerStep(e)
  PROVE  Local(f)'
<1> USE DEF Inv, TypeOK, Local, Stages, Answers, Bodies
<1>1. CASE register_pending(e)  BY <1>1 DEF register_pending
<1>2. CASE spawn(e)  BY <1>2 DEF spawn
<1>3. CASE spawn_fails(e)  BY <1>3 DEF spawn_fails, Settle
<1>4. CASE confine(e)  BY <1>4 DEF confine
<1>5. CASE confine_fails(e)  BY <1>5 DEF confine_fails, Settle
<1>6. CASE event_set(e)  BY <1>6 DEF event_set
<1>7. CASE event_timeout(e)  BY <1>7 DEF event_timeout
<1>8. CASE collect(e)  BY <1>8 DEF collect
<1>9. CASE checkin_failed(e)  BY <1>9 DEF checkin_failed, Settle
<1>10. CASE finish(e)  BY <1>10 DEF finish, Settle
<1> QED BY <1>1, <1>2, <1>3, <1>4, <1>5, <1>6, <1>7, <1>8, <1>9, <1>10 DEF BrokerStep

\* A step of the child of e.
LEMMA ChildLocal ==
  ASSUME Inv, NEW e \in Executions, NEW f \in Executions, ChildStep(e)
  PROVE  Local(f)'
<1> USE DEF Inv, TypeOK, Local, Stages, Answers, Bodies
<1>1. CASE connect(e)  BY <1>1 DEF connect, ChildMoves
<1>2. CASE start_fails(e)  BY <1>2 DEF start_fails, ChildMoves
<1>3. CASE admitted(e)  BY <1>3 DEF admitted, ChildMoves
<1>4. CASE turned_away(e)  BY <1>4 DEF turned_away, ChildMoves
<1>5. CASE body_ends(e)  BY <1>5 DEF body_ends, ChildMoves
<1> QED BY <1>1, <1>2, <1>3, <1>4, <1>5 DEF ChildStep

\* An attempt by anything but the child's first connection changes no answer: the uid is
\* wrong, or the body that presents the nonce runs because it was answered already.
LEMMA OtherChangesNothing ==
  ASSUME Inv, NEW e \in Executions, NEW uid \in Uids, handle_other(e, uid)
  PROVE  UNCHANGED <<pending, peer, told>>
<1>1. ~Verifies(e, uid)
  BY DEF handle_other, Verifies, Unfinished, Inv, Local, Answers, Bodies
<1> QED BY <1>1 DEF handle_other, handle_checkin

\* A step of the listener on a connection that presents the nonce of e.
LEMMA HandlerLocal ==
  ASSUME Inv, NEW e \in Executions, NEW f \in Executions, HandlerStep(e)
  PROVE  Local(f)'
<1> USE DEF Inv, TypeOK, Local, Stages, Answers, Bodies
<1>1. CASE accept(e)  BY <1>1 DEF accept
<1>2. CASE handle_conn(e)
  <2>1. CASE Verifies(e, ExpectedUid[e])
    <3>1. Append(<<>>, ExpectedUid[e]) = <<ExpectedUid[e]>>
      OBVIOUS
    <3>2. told[e] = <<>>
      BY <2>1 DEF Verifies, Unfinished
    <3>3. told' = [told EXCEPT ![e] = <<ExpectedUid[e]>>]
      BY <1>2, <2>1, <3>1, <3>2 DEF handle_conn, handle_checkin
    <3>4. /\ peer' = [peer EXCEPT ![e] = ExpectedUid[e]]
          /\ conn' = [conn EXCEPT ![e] = "yes"]
          /\ UNCHANGED <<pending, broker, verdict, outcome, child, begun>>
      BY <1>2, <2>1 DEF handle_conn, handle_checkin
    <3>5. /\ ExpectedUid[e] # NoUid
          /\ verdict[e] = "none"
          /\ child[e] \notin {"none", "started"}
      BY <1>2, <2>1, ExpectedUidAssumption, NoUidAssumption
      DEF handle_conn, Verifies, Unfinished
    <3> QED  BY <3>3, <3>4, <3>5
  <2>2. CASE ~Verifies(e, ExpectedUid[e])
    BY <1>2, <2>2 DEF handle_conn, handle_checkin, Verifies, Mismatch, Unfinished
  <2> QED BY <2>1, <2>2
<1>3. ASSUME NEW uid \in Uids, handle_other(e, uid) PROVE Local(f)'
  BY <1>3, OtherChangesNothing DEF handle_other
<1> QED BY <1>1, <1>2, <1>3 DEF HandlerStep

\* CheckinListener.stop.
LEMMA StopLocal ==
  ASSUME Inv, NEW f \in Executions, stop
  PROVE  Local(f)'
  BY DEF Inv, TypeOK, Local, Stages, Answers, Bodies, stop

\* The invariant is inductive.
LEMMA NextInv == Inv /\ [Next]_vars => Inv'
<1> SUFFICES ASSUME Inv, [Next]_vars PROVE Inv'
  OBVIOUS
<1>1. TypeOK'
  BY TypeStep DEF Inv
<1>2. ASSUME NEW f \in Executions PROVE Local(f)'
  <2>1. ASSUME NEW e \in Executions, BrokerStep(e) PROVE Local(f)'
    BY <2>1, BrokerLocal
  <2>2. ASSUME NEW e \in Executions, ChildStep(e) PROVE Local(f)'
    BY <2>2, ChildLocal
  <2>3. ASSUME NEW e \in Executions, HandlerStep(e) PROVE Local(f)'
    BY <2>3, HandlerLocal
  <2>4. CASE stop  BY <2>4, StopLocal
  <2>5. CASE UNCHANGED vars
    BY <2>5 DEF vars, Inv, Local, Stages, Answers, Bodies
  <2> QED BY <2>1, <2>2, <2>3, <2>4, <2>5 DEF Next
<1> QED BY <1>1, <1>2 DEF Inv

\* So it holds always.
LEMMA Invariance == Spec => []Inv
  BY InitInv, NextInv, PTL DEF Spec

-----------------------------------------------------------------------------
(* Theorems.                                                               *)

\* The registry, the dispatches, the children and the listener hold values of their
\* declared kinds.
THEOREM TypeCorrectness == Spec => []TypeOK
<1>1. Inv => TypeOK  BY DEF Inv
<1> QED BY <1>1, Invariance, PTL

\* CheckinRegistry.handle_checkin says yes once at most for a nonce, to the uid the
\* broker provisioned, whoever presents it however often.
THEOREM OneAnswer == Spec => []AnsweredOnce
<1>1. Inv => AnsweredOnce  BY DEF Inv, Local, Answers, AnsweredOnce
<1> QED BY <1>1, Invariance, PTL

\* The spawned child is refused only after its own registration expired unanswered:
\* no sequence of other connections can use it up.
THEOREM OnlyLateTurnedAway == Spec => []TurnedAwayOnlyLate
<1>1. Inv => TurnedAwayOnlyLate
  BY DEF Inv, Local, Answers, TurnedAwayOnlyLate
<1> QED BY <1>1, Invariance, PTL

\* A nonce is answered and used up by the child it was given to alone.
THEOREM NonceOfItsChild == Spec => []NonceIsItsChilds
<1>1. AnsweredOnce /\ TurnedAwayOnlyLate => NonceIsItsChilds  BY DEF NonceIsItsChilds
<1> QED BY <1>1, OneAnswer, OnlyLateTurnedAway, PTL

\* An Effect of CheckedInUidCgroupBackend.run belongs to a child that was verified as
\* the provisioned uid before it began artifact_code and ended by itself.
THEOREM Attribution == Spec => []EffectAttributed
<1>1. Inv => EffectAttributed
  BY DEF Inv, Local, Answers, Bodies, EffectAttributed
<1> QED BY <1>1, Invariance, PTL

\* No way out of run() leaves a child alive, and only an exception before the wait
\* leaves a registration behind.
THEOREM NoOrphans == Spec => []NothingOutlivesRun
<1>1. Inv => NothingOutlivesRun
  BY DEF Inv, Local, Stages, NothingOutlivesRun
<1> QED BY <1>1, Invariance, PTL

-----------------------------------------------------------------------------
(* Steps: the answers, and the refinement of Attestation.                  *)

\* What a step of the dispatch or of the child leaves alone.
LEMMA OthersKeepAnswers ==
  ASSUME NEW e \in Executions, BrokerStep(e) \/ ChildStep(e)
  PROVE  UNCHANGED <<peer, told>>
  BY DEF BrokerStep, ChildStep, register_pending, spawn, spawn_fails, confine, confine_fails, event_set,
    event_timeout, collect, checkin_failed, finish, Settle, connect, start_fails,
    admitted, turned_away, body_ends, ChildMoves

\* wait_for_result's answer is final: whatever it answered the broker, the registry
\* says yes to nobody for that nonce afterwards.
THEOREM FinalAnswer == Spec => NoLateAnswer
<1>1. ASSUME Inv, [Next]_vars, NEW f \in Executions, verdict[f] # "none"
      PROVE  told'[f] = told[f]
  <2>1. ASSUME NEW e \in Executions, HandlerStep(e) PROVE told'[f] = told[f]
    <3>1. CASE accept(e)  BY <3>1 DEF accept
    <3>2. CASE handle_conn(e)
      <4>1. Verifies(e, ExpectedUid[e]) => e # f
        BY <1>1 DEF Verifies, Unfinished, Inv, Local, Stages
      <4> QED BY <3>2, <4>1 DEF handle_conn, handle_checkin, Inv, TypeOK
    <3>3. ASSUME NEW uid \in Uids, handle_other(e, uid) PROVE told'[f] = told[f]
      BY <1>1, <3>3, OtherChangesNothing
    <3> QED BY <2>1, <3>1, <3>2, <3>3 DEF HandlerStep
  <2>2. CASE stop  BY <2>2 DEF stop
  <2>3. CASE UNCHANGED vars  BY <2>3 DEF vars
  <2> QED BY <1>1, <2>1, <2>2, <2>3, OthersKeepAnswers DEF Next
<1>2. Inv /\ [Next]_vars =>
        [\A e \in Executions : verdict[e] # "none" => told'[e] = told[e]]_vars
  BY <1>1
<1> QED BY <1>2, Invariance, PTL DEF Spec, NoLateAnswer

Attested == {e \in Executions : peer[e] # NoUid}

\* The two halves of a step that changes nothing of what Attestation sees.
LEMMA Stutter ==
  ASSUME UNCHANGED <<pending, verdict, peer, begun>>
  PROVE  UNCHANGED Promise!avars
  BY DEF Promise!avars, Status

\* A step of a broker thread is a step of the promise, or one it does not see.
LEMMA BrokerPromise ==
  ASSUME Inv, NEW e \in Executions, BrokerStep(e)
  PROVE  [Promise!Next]_(Promise!avars)
<1>1. CASE register_pending(e)
  <2>1. Promise!Open(e)
    BY <1>1 DEF register_pending, Promise!Open, Status, Inv, TypeOK, Local, Stages
  <2> QED BY <2>1 DEF Promise!Next
<1>2. CASE collect(e)
  <2>1. e \in pending /\ verdict[e] = "none"
    BY <1>2 DEF collect, Inv, Local, Stages
  <2>2. Status' = [Status EXCEPT ![e] = verdict'[e]]
    BY <1>2, <2>1 DEF collect, Status, Inv, TypeOK
  <2>3. Status[e] = "open"  BY <2>1 DEF Status
  <2>4. verdict'[e] = IF broker[e] = "woken" THEN "verified" ELSE "timeout"
    BY <1>2 DEF collect, Inv, TypeOK
  <2>5. broker[e] = "woken" => e \in Attested
    BY DEF Attested, Inv, Local, Stages
  <2>6. Promise!Close(e)
    BY <1>2, <2>2, <2>3, <2>4, <2>5 DEF collect, Promise!Close, Attested
  <2> QED BY <2>6 DEF Promise!Next
<1>3. CASE ~register_pending(e) /\ ~collect(e)
  <2>1. UNCHANGED <<pending, verdict, peer, begun>>
    BY <1>3 DEF BrokerStep, register_pending, spawn, spawn_fails, confine, confine_fails, event_set,
      event_timeout, collect, checkin_failed, finish, Settle
  <2> QED BY <2>1, Stutter
<1> QED BY <1>1, <1>2, <1>3

\* So is a step of a child.
LEMMA ChildPromise ==
  ASSUME Inv, NEW e \in Executions, ChildStep(e)
  PROVE  [Promise!Next]_(Promise!avars)
<1>1. CASE admitted(e)
  <2>1. Promise!Begin(e)
    BY <1>1 DEF admitted, ChildMoves, Promise!Begin, Status, Inv, Local, Answers, Bodies
  <2> QED BY <2>1 DEF Promise!Next
<1>2. CASE ~admitted(e)
  <2>1. UNCHANGED <<pending, verdict, peer, begun>>
    BY <1>2 DEF ChildStep, connect, start_fails, admitted, turned_away, body_ends, ChildMoves
  <2> QED BY <2>1, Stutter
<1> QED BY <1>1, <1>2

\* So is a step of a handler thread.
LEMMA HandlerPromise ==
  ASSUME Inv, NEW e \in Executions, HandlerStep(e)
  PROVE  [Promise!Next]_(Promise!avars)
<1>1. CASE accept(e)  BY <1>1, Stutter DEF accept
<1>2. CASE handle_conn(e) /\ Verifies(e, ExpectedUid[e])
  <2>1. peer' = [peer EXCEPT ![e] = ExpectedUid[e]] /\ peer[e] = NoUid
    BY <1>2 DEF handle_conn, handle_checkin, Verifies, Unfinished
  <2>2. Attested' = Attested \cup {e} /\ e \notin Attested
    BY <2>1, NoUidAssumption, ExpectedUidAssumption DEF Attested, Inv, TypeOK
  <2>3. Status[e] = "open"
    BY <1>2 DEF Status, Verifies, Unfinished
  <2>4. UNCHANGED <<Status, begun>>
    BY <1>2 DEF handle_conn, handle_checkin, Status
  <2>5. Promise!Attest(e)
    BY <2>2, <2>3, <2>4 DEF Promise!Attest, Attested
  <2> QED BY <2>5 DEF Promise!Next
<1>3. CASE handle_conn(e) /\ ~Verifies(e, ExpectedUid[e])
  BY <1>3, Stutter DEF handle_conn, handle_checkin
<1>4. ASSUME NEW uid \in Uids, handle_other(e, uid)
      PROVE  UNCHANGED Promise!avars
  BY <1>4, OtherChangesNothing, Stutter DEF handle_other
<1> QED BY <1>1, <1>2, <1>3, <1>4 DEF HandlerStep

\* The protocol of identity.py implements its promise: open once, attested at most once
\* and only while open, verified only if attested, and code that begins after it.
THEOREM Refinement == Spec => ImplementsAttestation
<1>1. Init => Promise!Init
  BY DEF Init, Promise!Init, Status
<1>2. Inv /\ [Next]_vars => [Promise!Next]_(Promise!avars)
  <2> SUFFICES ASSUME Inv, [Next]_vars PROVE [Promise!Next]_(Promise!avars)
    OBVIOUS
  <2>1. CASE stop  BY <2>1, Stutter DEF stop
  <2>2. CASE UNCHANGED vars  BY <2>2, Stutter DEF vars
  <2> QED BY <2>1, <2>2, BrokerPromise, ChildPromise, HandlerPromise DEF Next
<1> QED BY <1>1, <1>2, Invariance, PTL DEF Spec, ImplementsAttestation, Promise!Spec

=============================================================================
