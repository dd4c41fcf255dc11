------------------------------ MODULE Checkin ------------------------------
(* The check-in protocol: CheckinRegistry and CheckinListener              *)
(* (siphonophore_core/identity.py), the dispatch that registers, spawns    *)
(* and waits (CheckedInUidCgroupBackend.run), and the child wrapper that   *)
(* checks in before it reaches artifact_code.  One registry and one        *)
(* listener serve every dispatch at once; each dispatch runs on a broker   *)
(* thread of its own, each accepted connection on a handler thread.        *)
(*                                                                         *)
(* A dispatch draws a fresh 256-bit nonce, so the dispatch itself stands   *)
(* for its nonce.  The nonce reaches its own child only, over the          *)
(* inherited pipe; other processes may present it from other uids.         *)
(* Provisioning and release of the uid and the cgroup are module           *)
(* UidCgroup's subject.                                                    *)
EXTENDS Integers, Sequences

CONSTANTS
  Executions,   \* dispatches, and the nonces they register
  Uids,
  NoUid,        \* a registration without a result
  ExpectedUid   \* the uid provisioned for a dispatch; live ones may share none

ASSUME ExpectedUidAssumption == ExpectedUid \in [Executions -> Uids]
ASSUME NoUidAssumption == NoUid \notin Uids

VARIABLES
  listening,  \* the accept loop is running
  pending,    \* keys of CheckinRegistry._pending
  peer,       \* entry.result: the uid that verified, or NoUid
  rejected,   \* entry.rejected_attempts
  broker,     \* where the dispatch is in run()
  verdict,    \* what wait_for_result returned
  outcome,    \* how run() ended
  child,      \* the spawned process
  conn,       \* its connection, as the listener sees it
  told,       \* history: uids answered "1" for a nonce, in order
  begun       \* history: dispatches whose artifact_code started

vars == <<listening, pending, peer, rejected, broker, verdict, outcome, child, conn,
          told, begun>>

registry == <<pending, peer, rejected, told>>

Alive == {"started", "asking", "body"}

-----------------------------------------------------------------------------
(* CheckinRegistry: each operation is one critical section.                *)

\* Mutant: a registration that has its result is still answered.
Unfinished_while_pending(e) == e \in pending

\* The uid column of handle_checkin's table: a pending, unfinished registration.
Unfinished(e) == e \in pending /\ peer[e] = NoUid

Verifies(e, uid) == Unfinished(e) /\ uid = ExpectedUid[e]
Mismatch(e, uid) == Unfinished(e) /\ uid # ExpectedUid[e]

\* Mutant: an attempt with the wrong uid consumes the registration.
handle_checkin_consuming(e, uid) ==
  /\ peer' = IF Verifies(e, uid) THEN [peer EXCEPT ![e] = uid] ELSE peer
  /\ told' = IF Verifies(e, uid) THEN [told EXCEPT ![e] = Append(@, uid)] ELSE told
  /\ rejected' = IF Mismatch(e, uid)
                   THEN [rejected EXCEPT ![e] = @ \cup {uid}] ELSE rejected
  /\ pending' = IF Mismatch(e, uid) THEN pending \ {e} ELSE pending

handle_checkin(e, uid) ==
  /\ peer' = IF Verifies(e, uid) THEN [peer EXCEPT ![e] = uid] ELSE peer
  /\ told' = IF Verifies(e, uid) THEN [told EXCEPT ![e] = Append(@, uid)] ELSE told
  /\ rejected' = IF Mismatch(e, uid)
                   THEN [rejected EXCEPT ![e] = @ \cup {uid}] ELSE rejected
  /\ UNCHANGED pending

-----------------------------------------------------------------------------
(* The dispatch: CheckedInUidCgroupBackend.run.                            *)

register_pending(e) ==
  /\ broker[e] = "idle"
  /\ broker' = [broker EXCEPT ![e] = "registered"]
  /\ pending' = pending \cup {e}
  /\ UNCHANGED <<listening, peer, rejected, verdict, outcome, child, conn, told, begun>>

\* Mutant: the child is left to itself.
Settle_without_kill(e, how) ==
  /\ broker' = [broker EXCEPT ![e] = "settled"]
  /\ outcome' = [outcome EXCEPT ![e] = how]
  /\ UNCHANGED <<listening, registry, verdict, child, conn, begun>>

\* The end of run(): the inner finally kills a child that is still alive.
Settle(e, how) ==
  /\ broker' = [broker EXCEPT ![e] = "settled"]
  /\ outcome' = [outcome EXCEPT ![e] = how]
  /\ child' = [child EXCEPT ![e] = IF @ \in Alive THEN "killed" ELSE @]
  /\ UNCHANGED <<listening, registry, verdict, conn, begun>>

spawn(e) ==
  /\ broker[e] = "registered"
  /\ broker' = [broker EXCEPT ![e] = "spawned"]
  /\ child' = [child EXCEPT ![e] = "started"]
  /\ UNCHANGED <<listening, registry, verdict, outcome, conn, begun>>

\* nonce_pipe or Popen raises: the registration stays behind.
spawn_fails(e) == broker[e] = "registered" /\ Settle(e, "raised")

\* add_pid_to_cgroup and read_real_uid_from_proc, while the child already runs; then
\* wait_for_result looks its entry up.
confine(e) ==
  /\ broker[e] = "spawned"
  /\ broker' = [broker EXCEPT ![e] = "waiting"]
  /\ UNCHANGED <<listening, registry, verdict, outcome, child, conn, begun>>

\* Either of them raises: the registration stays behind.
confine_fails(e) == broker[e] = "spawned" /\ Settle(e, "raised")

\* entry.event.wait(timeout) returns, outside the lock.
event_set(e) ==
  /\ broker[e] = "waiting"
  /\ peer[e] # NoUid
  /\ broker' = [broker EXCEPT ![e] = "woken"]
  /\ UNCHANGED <<listening, registry, verdict, outcome, child, conn, begun>>

\* Mutant: the wait has no timeout.
event_timeout_never(e) == FALSE /\ UNCHANGED vars

event_timeout(e) ==
  /\ broker[e] = "waiting"
  /\ peer[e] = NoUid
  /\ broker' = [broker EXCEPT ![e] = "expired"]
  /\ UNCHANGED <<listening, registry, verdict, outcome, child, conn, begun>>

\* Mutant: a registration whose wait expired stays in the table.
collect_keeping_expired(e) ==
  /\ broker[e] \in {"woken", "expired"}
  /\ verdict' = [verdict EXCEPT ![e] = IF broker[e] = "woken" THEN "verified" ELSE "timeout"]
  /\ broker' = [broker EXCEPT ![e] = IF @ = "woken" THEN "reading" ELSE "failing"]
  /\ pending' = IF broker[e] = "woken" THEN pending \ {e} ELSE pending
  /\ UNCHANGED <<listening, peer, rejected, outcome, child, conn, told, begun>>

\* Mutant: the uid is returned in place of the verdict.
collect_the_uid(e) ==
  /\ broker[e] \in {"woken", "expired"}
  /\ verdict' = [verdict EXCEPT ![e] = peer[e]]
  /\ broker' = [broker EXCEPT ![e] = IF @ = "woken" THEN "reading" ELSE "failing"]
  /\ pending' = pending \ {e}
  /\ UNCHANGED <<listening, peer, rejected, outcome, child, conn, told, begun>>

\* The second critical section of wait_for_result: what the event said is the
\* verdict, and the registration is consumed either way.
collect(e) ==
  /\ broker[e] \in {"woken", "expired"}
  /\ verdict' = [verdict EXCEPT ![e] = IF broker[e] = "woken" THEN "verified" ELSE "timeout"]
  /\ broker' = [broker EXCEPT ![e] = IF @ = "woken" THEN "reading" ELSE "failing"]
  /\ pending' = pending \ {e}
  /\ UNCHANGED <<listening, peer, rejected, outcome, child, conn, told, begun>>

\* The child is killed and the failure raised.
checkin_failed(e) == broker[e] = "failing" /\ Settle(e, "CheckinFailedError")

\* Mutant: the child's return code is not checked.
finish_unchecked(e) ==
  /\ broker[e] = "reading"
  /\ \/ child[e] \in {"exited", "failed"} /\ Settle(e, "effect")
     \/ Settle(e, "TimeoutExpired")

\* communicate(): the child ended, or the 10 seconds did before it and whatever holds
\* its output.  A self-report whose JSON is a list, or an outdir that cannot be listed,
\* raises after a clean exit.
finish(e) ==
  /\ broker[e] = "reading"
  /\ \/ child[e] = "exited" /\ Settle(e, "effect")
     \/ child[e] = "exited" /\ Settle(e, "raised")
     \/ child[e] = "failed" /\ Settle(e, "ExecutionError")
     \/ Settle(e, "TimeoutExpired")

-----------------------------------------------------------------------------
(* The child: perform_checkin, then artifact_code.                         *)

ChildMoves(e, to) ==
  /\ child' = [child EXCEPT ![e] = to]
  /\ UNCHANGED <<listening, registry, broker, verdict, outcome, conn>>

connect(e) ==
  /\ child[e] = "started"
  /\ IF listening
       THEN /\ child' = [child EXCEPT ![e] = "asking"]
            /\ conn' = [conn EXCEPT ![e] = "queued"]
            /\ UNCHANGED <<listening, registry, broker, verdict, outcome, begun>>
       ELSE ChildMoves(e, "failed") /\ UNCHANGED begun

\* The interpreter or the wrapper's import fails before it connects.
start_fails(e) ==
  /\ child[e] = "started"
  /\ ChildMoves(e, "failed")
  /\ UNCHANGED begun

\* Mutant: the wrapper takes any answer for a yes.
admitted_on_any_answer(e) ==
  /\ child[e] = "asking"
  /\ conn[e] \in {"yes", "no"}
  /\ begun' = begun \cup {e}
  /\ ChildMoves(e, "body")

\* recv(1) of "1": artifact_code begins.
admitted(e) ==
  /\ child[e] = "asking"
  /\ conn[e] = "yes"
  /\ begun' = begun \cup {e}
  /\ ChildMoves(e, "body")

\* recv(1) of "0" (exit 97), or the listener's socket closed under the connection.
turned_away(e) ==
  /\ child[e] = "asking"
  /\ conn[e] \in {"no", "reset"}
  /\ ChildMoves(e, "failed")
  /\ UNCHANGED begun

body_ends(e) ==
  /\ child[e] = "body"
  /\ \E to \in {"exited", "failed"} : ChildMoves(e, to)
  /\ UNCHANGED begun

-----------------------------------------------------------------------------
(* CheckinListener.                                                        *)

accept(e) ==
  /\ listening
  /\ conn[e] = "queued"
  /\ conn' = [conn EXCEPT ![e] = "accepted"]
  /\ UNCHANGED <<listening, registry, broker, verdict, outcome, child, begun>>

\* The handler thread of the child's connection; what it received outlives the child.
handle_conn(e) ==
  /\ conn[e] = "accepted"
  /\ handle_checkin(e, ExpectedUid[e])
  /\ conn' = [conn EXCEPT ![e] = IF Verifies(e, ExpectedUid[e]) THEN "yes" ELSE "no"]
  /\ UNCHANGED <<listening, broker, verdict, outcome, child, begun>>

\* Another connection that presents the nonce of e: from a process with another uid, or
\* from artifact_code, which has the wrapper's nonce in scope, checking in again.  It
\* may have been accepted before the listener stopped.
handle_other(e, uid) ==
  /\ uid # ExpectedUid[e] \/ child[e] = "body"
  /\ handle_checkin(e, uid)
  /\ UNCHANGED <<listening, broker, verdict, outcome, child, conn, begun>>

stop ==
  /\ listening
  /\ listening' = FALSE
  /\ conn' = [e \in Executions |-> IF conn[e] = "queued" THEN "reset" ELSE conn[e]]
  /\ UNCHANGED <<registry, broker, verdict, outcome, child, begun>>

-----------------------------------------------------------------------------

Init ==
  /\ listening = TRUE
  /\ pending = {}
  /\ peer = [e \in Executions |-> NoUid]
  /\ rejected = [e \in Executions |-> {}]
  /\ broker = [e \in Executions |-> "idle"]
  /\ verdict = [e \in Executions |-> "none"]
  /\ outcome = [e \in Executions |-> "none"]
  /\ child = [e \in Executions |-> "none"]
  /\ conn = [e \in Executions |-> "none"]
  /\ told = [e \in Executions |-> <<>>]
  /\ begun = {}

BrokerStep(e) ==
  \/ register_pending(e)
  \/ spawn(e)
  \/ spawn_fails(e)
  \/ confine(e)
  \/ confine_fails(e)
  \/ event_set(e)
  \/ event_timeout(e)
  \/ collect(e)
  \/ checkin_failed(e)
  \/ finish(e)

ChildStep(e) ==
  \/ connect(e)
  \/ start_fails(e)
  \/ admitted(e)
  \/ turned_away(e)
  \/ body_ends(e)

HandlerStep(e) ==
  \/ accept(e)
  \/ handle_conn(e)
  \/ \E uid \in Uids : handle_other(e, uid)

Next ==
  \/ \E e \in Executions : BrokerStep(e) \/ ChildStep(e) \/ HandlerStep(e)
  \/ stop

Spec == Init /\ [][Next]_vars

\* Broker threads keep running, and every wait of theirs has a timeout.  Nothing is
\* assumed of children, of the listener or of when a timeout expires.
FairSpec == Spec /\ \A e \in Executions : WF_vars(BrokerStep(e))
-----------------------------------------------------------------------------
(* Properties.                                                             *)

TypeOK ==
  /\ listening \in BOOLEAN
  /\ pending \subseteq Executions
  /\ peer \in [Executions -> Uids \cup {NoUid}]
  /\ rejected \in [Executions -> SUBSET Uids]
  /\ broker \in [Executions -> {"idle", "registered", "spawned", "waiting", "woken",
                                "expired", "failing", "reading", "settled"}]
  /\ verdict \in [Executions -> {"none", "verified", "timeout"}]
  /\ outcome \in [Executions -> {"none", "effect", "raised", "CheckinFailedError",
                                 "ExecutionError", "TimeoutExpired"}]
  /\ child \in [Executions -> Alive \cup {"none", "exited", "failed", "killed"}]
  /\ conn \in [Executions -> {"none", "queued", "accepted", "yes", "no", "reset"}]
  /\ told \in [Executions -> Seq(Uids)]
  /\ begun \subseteq Executions

\* Of all the connections that present a nonce, from any uid and in any order, one at
\* most is ever told "1", and it is held by the uid the broker provisioned.
AnsweredOnce ==
  \A e \in Executions : told[e] \in {<<>>, <<ExpectedUid[e]>>}

\* Once wait_for_result has answered the broker, no connection is told "1" for that
\* nonce: the two never disagree afterwards ("consumed either way", identity.py:149).
NoLateAnswer ==
  [][\A e \in Executions : verdict[e] # "none" => told'[e] = told[e]]_vars

\* The child that was spawned is turned away only when its registration expired first.
\* However many others connect before it with its nonce and the wrong uid, they cannot
\* consume or fail its registration (identity.py:102).
TurnedAwayOnlyLate ==
  \A e \in Executions : conn[e] = "no" =>
    /\ verdict[e] = "timeout"
    /\ told[e] = <<>>

\* A nonce is settled by the child it was given to, whoever else presents it.
NonceIsItsChilds == AnsweredOnce /\ TurnedAwayOnlyLate

\* An Effect is returned only for a child that was verified as the provisioned uid,
\* that began artifact_code after that, and that has exited by itself.
EffectAttributed ==
  \A e \in Executions : outcome[e] = "effect" =>
    /\ verdict[e] = "verified"
    /\ told[e] = <<ExpectedUid[e]>>
    /\ e \in begun
    /\ child[e] = "exited"

\* No path out of run(), the failing ones included, leaves the child running, and none
\* leaves a registration behind except an exception raised before the wait.
NothingOutlivesRun ==
  \A e \in Executions : broker[e] = "settled" =>
    /\ child[e] \notin Alive
    /\ e \in pending => outcome[e] = "raised" /\ verdict[e] = "none"

\* A dispatch that registered returns or raises, whether or not its child ever
\* connects, the listener still runs, or the artifact ends.
Settles ==
  \A e \in Executions : broker[e] = "registered" ~> broker[e] = "settled"

\* A failed check-in cannot co-occur with an already-performed artifact effect
\* (DESIGN.md:570, execution_uid_cgroup_checkin.py:86).
NoEffectOnFailedCheckin ==
  \A e \in Executions : outcome[e] = "CheckinFailedError" => e \notin begun

\* The protocol implements what it promises.
Status ==
  [e \in Executions |->
     IF e \in pending THEN "open" ELSE IF verdict[e] = "none" THEN "new" ELSE verdict[e]]

Promise == INSTANCE Attestation
             WITH status <- Status, attested <- {e \in Executions : peer[e] # NoUid}

ImplementsAttestation == Promise!Spec
=============================================================================
