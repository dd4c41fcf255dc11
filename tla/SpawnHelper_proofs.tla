-------------------------- MODULE SpawnHelper_proofs -------------------------
(* Theorems about SpawnHelper, for any number of dispatches through either *)
(* backend, any execution ids and usernames they share, and any uids.      *)
EXTENDS SpawnHelper, TLAPS

\* What the process of a dispatch has from each of its stages on.
Confined == {"joined", "sealed", "received", "dropped", "bootstrap", "body"}
Identified == {"found", "made", "leafed"} \cup Confined

\* A helper is launched once, and how far it is says which flags it has set.
Stage(d) ==
  /\ pc[d] \in {"idle", "provisioned"} => stage[d] = "none"
  /\ stage[d] \in {"none", "started", "found", "made"} => d \notin created
  /\ stage[d] \in {"leafed"} \cup Confined => d \in created
  /\ d \in spawned => stage[d] \in {"bootstrap", "body"} \cup Ended
  /\ stage[d] \in {"bootstrap", "body"} => d \in spawned /\ d \notin armed
  /\ d \in joined => stage[d] # "none"
  /\ stage[d] \in Confined => d \in joined
  /\ stage[d] \in {"dropped", "bootstrap", "body"} => d \notin root
  /\ stage[d] \in Identified => target[d] = uid[d] /\ uid[d] \in Nat

\* A registration is open only until the wait is over, and a dispatch that is not checked
\* in does not come back before its process has ended.
Wait(d) ==
  /\ d \in pending \cup verified => d \in Checked
  /\ d \in pending /\ stage[d] # "none" => pc[d] \in {"waiting", "expired"}
  /\ d \notin Checked /\ HasProcess(d) => pc[d] \in {"waiting", "reaping"}

\* While run() is between provisioning and release its user exists, for it alone.
Holds(d) == pc[d] \notin {"idle", "settled"}
Owner(d) == Holds(d) => users[Name(d)] = uid[d] /\ uid[d] \in Nat
Exclusive == \A d, e \in Dispatches : Holds(d) /\ Holds(e) /\ Name(d) = Name(e) => d = e
BodyUser(d) == stage[d] = "body" => users[Name(d)] = target[d]

\* The helper that made a leaf has it until its cleanup, for good once it has spawned.
HasLeaf(d) ==
  \/ stage[d] \in {"made", "leafed"} \cup Confined
  \/ stage[d] = "failing" /\ d \in created
  \/ d \in spawned

Leaf(d) ==
  /\ HasLeaf(d) /\ ~ Reentered(Id(d)) => leaves[Id(d)] = d
  /\ d \in joined /\ HasProcess(d) => leaves[Id(d)] # None
  /\ d \in joined /\ HasProcess(d) /\ ~ Reentered(Id(d)) => leaves[Id(d)] = d
  /\ /\ stage[d] \in {"cleaned", "exited"} /\ ~ Reentered(Id(d))
     /\ d \in (created \cap root) \ (spawned \cup joined)
     => leaves[Id(d)] # d
Named == \A id \in ExecutionIds : leaves[id] # None => Id(leaves[id]) = id

\* The inductive invariant.
Inv ==
  /\ TypeOK
  /\ \A d \in Dispatches : Stage(d) /\ Wait(d) /\ Owner(d) /\ BodyUser(d) /\ Leaf(d)
  /\ Exclusive
  /\ Named

USE DEF Ended, Reading, Working, Cleaning, Confined, Identified

-----------------------------------------------------------------------------
(* The constants, and one step of one dispatch.                            *)

\* What the assumptions on the constants say of one dispatch.
LEMMA Constants ==
  /\ \A d \in Dispatches : Id(d) \in ExecutionIds /\ Name(d) \in Usernames
  /\ \A d \in Dispatches : UidRange[d] \subseteq Nat
  /\ HelperUids \subseteq Nat
  /\ None \notin Dispatches /\ None \notin Nat
  BY ExecutionIdAssumption, UsernameAssumption, UidRangeAssumption, NoneAssumption DEF Id, Name

Step(d) ==
  \/ provision(d) \/ provision_fails(d)
  \/ BrokerStep(d) \/ HelperStep(d) \/ ProcessStep(d) \/ on_timeout(d)

USE DEF BrokerStep, HelperStep, ProcessStep, Goto, Ending, Enter, broker, registry, cgroups, helper

\* The helper refuses what it was sent with one of three statuses, or takes the uid that
\* passwd gives to the username, which is then the provisioned one.
LEMMA IdentifyCases ==
  ASSUME NEW d \in Dispatches, identify(d)
  PROVE  /\ stage[d] = "started"
         /\ UNCHANGED <<broker, registry, cgroups, created, root, armed, spawned, again>>
         /\ \/ (\E status \in {13, 14, 17} : Fail(d, status)) /\ UNCHANGED target
            \/ /\ users[Name(d)] = uid[d] /\ uid[d] \in Nat
               /\ target' = [target EXCEPT ![d] = uid[d]]
               /\ stage' = [stage EXCEPT ![d] = "found"]
               /\ UNCHANGED code
<1>0. Refusal(d) \in {0, 13, 14, 17}
  BY DEF Refusal, parse_envelope, valid_username, valid_execution_id
<1>a. uid[d] \notin HelperUids => Refusal(d) # 0
  BY DEF Refusal, parse_envelope
<1>1. Refusal(d) = 0 => uid[d] \in Nat
  BY <1>a, UidRangeAssumption
<1>2. CASE Refusal(d) # 0  BY <1>0, <1>2 DEF identify
<1>3. CASE Refusal(d) = 0 /\ users[Name(d)] # uid[d]  BY <1>3 DEF identify
<1>4. CASE Refusal(d) = 0 /\ users[Name(d)] = uid[d]  BY <1>1, <1>4 DEF identify
<1> QED BY <1>2, <1>3, <1>4

-----------------------------------------------------------------------------
(* The initial state and the types.                                        *)

\* The invariant holds before any dispatch.
LEMMA InitInv == Init => Inv
  BY Constants DEF Init, Inv, TypeOK, Stage, Wait, Owner, Exclusive, BodyUser, Leaf, HasLeaf,
     Named, Holds, HasProcess

\* Every step keeps the types.
LEMMA TypeStep ==
  ASSUME TypeOK, NEW d \in Dispatches, Step(d)
  PROVE  TypeOK'
<1> USE Constants DEF TypeOK
<1>1. CASE provision(d)  BY <1>1 DEF provision, FreeUids
<1>2. CASE provision_fails(d)  BY <1>2 DEF provision_fails
<1>3. CASE launch(d)  BY <1>3 DEF launch
<1>4. CASE launch_fails(d)  BY <1>4 DEF launch_fails
<1>5. CASE run_returns(d)  BY <1>5 DEF run_returns, Returned
<1>6. CASE run_times_out(d)  BY <1>6 DEF run_times_out, Kill
<1>7. CASE reaped(d)  BY <1>7 DEF reaped
<1>8. CASE checkin_event(d)  BY <1>8 DEF checkin_event
<1>9. CASE checkin_expires(d)  BY <1>9 DEF checkin_expires
<1>10. CASE checkin_popped(d)  BY <1>10 DEF checkin_popped
<1>11. CASE checkin_failed(d)  BY <1>11 DEF checkin_failed, Kill
<1>12. CASE read_output(d)  BY <1>12 DEF read_output, Returned
<1>13. CASE release(d)  BY <1>13 DEF release
<1>14. CASE release_fails(d)  BY <1>14 DEF release_fails
<1>15. CASE make_leaf(d)  BY <1>15 DEF make_leaf, Fail
<1>16. CASE remember_leaf(d)  BY <1>16 DEF remember_leaf
<1>17. CASE join_leaf(d)  BY <1>17 DEF join_leaf, Fail
<1>18. CASE drop_privilege(d)  BY <1>18 DEF drop_privilege
<1>19. CASE exec_bootstrap(d)  BY <1>19 DEF exec_bootstrap
<1>20. CASE exec_fails(d)  BY <1>20 DEF exec_fails
<1>21. CASE cleanup_before_exit(d)  BY <1>21 DEF cleanup_before_exit
<1>22. CASE exit(d)  BY <1>22 DEF exit
<1>23. CASE identify(d)  BY <1>23, IdentifyCases DEF Fail
<1>24. CASE seal_and_expose(d)  BY <1>24 DEF seal_and_expose
<1>25. CASE finish_stdin(d)  BY <1>25 DEF finish_stdin
<1>26. CASE fails(d)  BY <1>26 DEF fails, Fail
<1>27. CASE bootstrap_main(d)  BY <1>27 DEF bootstrap_main
<1>28. CASE bootstrap_fails(d)  BY <1>28 DEF bootstrap_fails
<1>29. CASE body_ends(d)  BY <1>29 DEF body_ends
<1>30. CASE on_timeout(d)  BY <1>30 DEF on_timeout, Fail
<1> QED BY <1>1, <1>2, <1>3, <1>4, <1>5, <1>6, <1>7, <1>8, <1>9, <1>10, <1>11, <1>12, 
         <1>13, <1>14, <1>15, <1>16, <1>17, <1>18, <1>19, <1>20, <1>21, <1>22, <1>23, 
         <1>24, <1>25, <1>26, <1>27, <1>28, <1>29, <1>30 DEF Step

\* A step leaves every other dispatch where it is.
LEMMA Others ==
  ASSUME TypeOK, NEW d \in Dispatches, Step(d), NEW f \in Dispatches, f # d
  PROVE  /\ pc'[f] = pc[f] /\ uid'[f] = uid[f] /\ stage'[f] = stage[f] /\ target'[f] = target[f]
         /\ f \in pending' <=> f \in pending
         /\ f \in verified' <=> f \in verified
         /\ f \in joined' <=> f \in joined
         /\ f \in created' <=> f \in created
         /\ f \in root' <=> f \in root
         /\ f \in armed' <=> f \in armed
         /\ f \in spawned' <=> f \in spawned
         /\ f \in again' <=> f \in again
<1> USE DEF TypeOK
<1>1. CASE provision(d)  BY <1>1 DEF provision, FreeUids
<1>2. CASE provision_fails(d)  BY <1>2 DEF provision_fails
<1>3. CASE launch(d)  BY <1>3 DEF launch
<1>4. CASE launch_fails(d)  BY <1>4 DEF launch_fails
<1>5. CASE run_returns(d)  BY <1>5 DEF run_returns, Returned
<1>6. CASE run_times_out(d)  BY <1>6 DEF run_times_out, Kill
<1>7. CASE reaped(d)  BY <1>7 DEF reaped
<1>8. CASE checkin_event(d)  BY <1>8 DEF checkin_event
<1>9. CASE checkin_expires(d)  BY <1>9 DEF checkin_expires
<1>10. CASE checkin_popped(d)  BY <1>10 DEF checkin_popped
<1>11. CASE checkin_failed(d)  BY <1>11 DEF checkin_failed, Kill
<1>12. CASE read_output(d)  BY <1>12 DEF read_output, Returned
<1>13. CASE release(d)  BY <1>13 DEF release
<1>14. CASE release_fails(d)  BY <1>14 DEF release_fails
<1>15. CASE make_leaf(d)  BY <1>15 DEF make_leaf, Fail
<1>16. CASE remember_leaf(d)  BY <1>16 DEF remember_leaf
<1>17. CASE join_leaf(d)  BY <1>17 DEF join_leaf, Fail
<1>18. CASE drop_privilege(d)  BY <1>18 DEF drop_privilege
<1>19. CASE exec_bootstrap(d)  BY <1>19 DEF exec_bootstrap
<1>20. CASE exec_fails(d)  BY <1>20 DEF exec_fails
<1>21. CASE cleanup_before_exit(d)  BY <1>21 DEF cleanup_before_exit
<1>22. CASE exit(d)  BY <1>22 DEF exit
<1>23. CASE identify(d)  BY <1>23, IdentifyCases DEF Fail
<1>24. CASE seal_and_expose(d)  BY <1>24 DEF seal_and_expose
<1>25. CASE finish_stdin(d)  BY <1>25 DEF finish_stdin
<1>26. CASE fails(d)  BY <1>26 DEF fails, Fail
<1>27. CASE bootstrap_main(d)  BY <1>27 DEF bootstrap_main
<1>28. CASE bootstrap_fails(d)  BY <1>28 DEF bootstrap_fails
<1>29. CASE body_ends(d)  BY <1>29 DEF body_ends
<1>30. CASE on_timeout(d)  BY <1>30 DEF on_timeout, Fail
<1> QED BY <1>1, <1>2, <1>3, <1>4, <1>5, <1>6, <1>7, <1>8, <1>9, <1>10, <1>11, <1>12, 
         <1>13, <1>14, <1>15, <1>16, <1>17, <1>18, <1>19, <1>20, <1>21, <1>22, <1>23, 
         <1>24, <1>25, <1>26, <1>27, <1>28, <1>29, <1>30 DEF Step

-----------------------------------------------------------------------------
(* The stages of a helper and of the wait for it.                          *)

\* Every step keeps how far each helper is in line with its flags and with the wait for it.
LEMMA StageStep ==
  ASSUME Inv, NEW d \in Dispatches, Step(d)
  PROVE  \A f \in Dispatches : Stage(f)' /\ Wait(f)'
<1> SUFFICES Stage(d)' /\ Wait(d)'
  BY Others DEF Inv, Stage, Wait, HasProcess
<1>0. TypeOK /\ Stage(d) /\ Wait(d)  BY DEF Inv
<1> USE <1>0 DEF TypeOK, Stage, Wait, HasProcess
<1>1. CASE provision(d)  BY <1>1 DEF provision, FreeUids
<1>2. CASE provision_fails(d)  BY <1>2 DEF provision_fails
<1>3. CASE launch(d)  BY <1>3 DEF launch
<1>4. CASE launch_fails(d)  BY <1>4 DEF launch_fails
<1>5. CASE run_returns(d)  BY <1>5 DEF run_returns, Returned
<1>6. CASE run_times_out(d)  BY <1>6 DEF run_times_out, Kill
<1>7. CASE reaped(d)  BY <1>7 DEF reaped
<1>8. CASE checkin_event(d)  BY <1>8 DEF checkin_event
<1>9. CASE checkin_expires(d)  BY <1>9 DEF checkin_expires
<1>10. CASE checkin_popped(d)  BY <1>10 DEF checkin_popped
<1>11. CASE checkin_failed(d)  BY <1>11 DEF checkin_failed, Kill
<1>12. CASE read_output(d)  BY <1>12 DEF read_output, Returned
<1>13. CASE release(d)  BY <1>13 DEF release
<1>14. CASE release_fails(d)  BY <1>14 DEF release_fails
<1>15. CASE make_leaf(d)  BY <1>15 DEF make_leaf, Fail
<1>16. CASE remember_leaf(d)  BY <1>16 DEF remember_leaf
<1>17. CASE join_leaf(d)  BY <1>17 DEF join_leaf, Fail
<1>18. CASE drop_privilege(d)  BY <1>18 DEF drop_privilege
<1>19. CASE exec_bootstrap(d)  BY <1>19 DEF exec_bootstrap
<1>20. CASE exec_fails(d)  BY <1>20 DEF exec_fails
<1>21. CASE cleanup_before_exit(d)  BY <1>21 DEF cleanup_before_exit
<1>22. CASE exit(d)  BY <1>22 DEF exit
<1>23. CASE identify(d)  BY <1>23, IdentifyCases DEF Fail
<1>24. CASE seal_and_expose(d)  BY <1>24 DEF seal_and_expose
<1>25. CASE finish_stdin(d)  BY <1>25 DEF finish_stdin
<1>26. CASE fails(d)  BY <1>26 DEF fails, Fail
<1>27. CASE bootstrap_main(d)  BY <1>27 DEF bootstrap_main
<1>28. CASE bootstrap_fails(d)  BY <1>28 DEF bootstrap_fails
<1>29. CASE body_ends(d)  BY <1>29 DEF body_ends
<1>30. CASE on_timeout(d)  BY <1>30 DEF on_timeout, Fail
<1> QED BY <1>1, <1>2, <1>3, <1>4, <1>5, <1>6, <1>7, <1>8, <1>9, <1>10, <1>11, <1>12, 
         <1>13, <1>14, <1>15, <1>16, <1>17, <1>18, <1>19, <1>20, <1>21, <1>22, <1>23, 
         <1>24, <1>25, <1>26, <1>27, <1>28, <1>29, <1>30 DEF Step

-----------------------------------------------------------------------------
(* Users.                                                                  *)

\* Only provision and release write passwd, and only they give a dispatch a user or
\* take it away.
LEMMA UsersKept ==
  ASSUME TypeOK, NEW d \in Dispatches, Step(d), ~ provision(d), ~ release(d)
  PROVE  /\ UNCHANGED <<users, uid>>
         /\ \A f \in Dispatches : Holds(f)' => Holds(f)
<1> SUFFICES UNCHANGED <<users, uid>> /\ (Holds(d)' => Holds(d))
  BY Others DEF Holds
<1> USE DEF TypeOK, Holds
<1>1. CASE provision_fails(d)  BY <1>1 DEF provision_fails
<1>2. CASE launch(d)  BY <1>2 DEF launch
<1>3. CASE launch_fails(d)  BY <1>3 DEF launch_fails
<1>4. CASE run_returns(d)  BY <1>4 DEF run_returns, Returned
<1>5. CASE run_times_out(d)  BY <1>5 DEF run_times_out, Kill
<1>6. CASE reaped(d)  BY <1>6 DEF reaped
<1>7. CASE checkin_event(d)  BY <1>7 DEF checkin_event
<1>8. CASE checkin_expires(d)  BY <1>8 DEF checkin_expires
<1>9. CASE checkin_popped(d)  BY <1>9 DEF checkin_popped
<1>10. CASE checkin_failed(d)  BY <1>10 DEF checkin_failed, Kill
<1>11. CASE read_output(d)  BY <1>11 DEF read_output, Returned
<1>12. CASE release_fails(d)  BY <1>12 DEF release_fails
<1>13. CASE make_leaf(d)  BY <1>13 DEF make_leaf, Fail
<1>14. CASE remember_leaf(d)  BY <1>14 DEF remember_leaf
<1>15. CASE join_leaf(d)  BY <1>15 DEF join_leaf, Fail
<1>16. CASE drop_privilege(d)  BY <1>16 DEF drop_privilege
<1>17. CASE exec_bootstrap(d)  BY <1>17 DEF exec_bootstrap
<1>18. CASE exec_fails(d)  BY <1>18 DEF exec_fails
<1>19. CASE cleanup_before_exit(d)  BY <1>19 DEF cleanup_before_exit
<1>20. CASE exit(d)  BY <1>20 DEF exit
<1>21. CASE identify(d)  BY <1>21, IdentifyCases DEF Fail
<1>22. CASE seal_and_expose(d)  BY <1>22 DEF seal_and_expose
<1>23. CASE finish_stdin(d)  BY <1>23 DEF finish_stdin
<1>24. CASE fails(d)  BY <1>24 DEF fails, Fail
<1>25. CASE bootstrap_main(d)  BY <1>25 DEF bootstrap_main
<1>26. CASE bootstrap_fails(d)  BY <1>26 DEF bootstrap_fails
<1>27. CASE body_ends(d)  BY <1>27 DEF body_ends
<1>28. CASE on_timeout(d)  BY <1>28 DEF on_timeout, Fail
<1> QED BY <1>1, <1>2, <1>3, <1>4, <1>5, <1>6, <1>7, <1>8, <1>9, <1>10, <1>11, <1>12, 
         <1>13, <1>14, <1>15, <1>16, <1>17, <1>18, <1>19, <1>20, <1>21, <1>22, <1>23, 
         <1>24, <1>25, <1>26, <1>27, <1>28 DEF Step

\* Code enters its body from bootstrap alone.
LEMMA BodyEntered ==
  ASSUME TypeOK, NEW d \in Dispatches, Step(d), stage'[d] = "body"
  PROVE  target'[d] = target[d] /\ (stage[d] = "body" \/ bootstrap_main(d))
<1> USE DEF TypeOK
<1>1. CASE provision(d)  BY <1>1 DEF provision, FreeUids
<1>2. CASE provision_fails(d)  BY <1>2 DEF provision_fails
<1>3. CASE launch(d)  BY <1>3 DEF launch
<1>4. CASE launch_fails(d)  BY <1>4 DEF launch_fails
<1>5. CASE run_returns(d)  BY <1>5 DEF run_returns, Returned
<1>6. CASE run_times_out(d)  BY <1>6 DEF run_times_out, Kill
<1>7. CASE reaped(d)  BY <1>7 DEF reaped
<1>8. CASE checkin_event(d)  BY <1>8 DEF checkin_event
<1>9. CASE checkin_expires(d)  BY <1>9 DEF checkin_expires
<1>10. CASE checkin_popped(d)  BY <1>10 DEF checkin_popped
<1>11. CASE checkin_failed(d)  BY <1>11 DEF checkin_failed, Kill
<1>12. CASE read_output(d)  BY <1>12 DEF read_output, Returned
<1>13. CASE release(d)  BY <1>13 DEF release
<1>14. CASE release_fails(d)  BY <1>14 DEF release_fails
<1>15. CASE make_leaf(d)  BY <1>15 DEF make_leaf, Fail
<1>16. CASE remember_leaf(d)  BY <1>16 DEF remember_leaf
<1>17. CASE join_leaf(d)  BY <1>17 DEF join_leaf, Fail
<1>18. CASE drop_privilege(d)  BY <1>18 DEF drop_privilege
<1>19. CASE exec_bootstrap(d)  BY <1>19 DEF exec_bootstrap
<1>20. CASE exec_fails(d)  BY <1>20 DEF exec_fails
<1>21. CASE cleanup_before_exit(d)  BY <1>21 DEF cleanup_before_exit
<1>22. CASE exit(d)  BY <1>22 DEF exit
<1>23. CASE identify(d)  BY <1>23, IdentifyCases DEF Fail
<1>24. CASE seal_and_expose(d)  BY <1>24 DEF seal_and_expose
<1>25. CASE finish_stdin(d)  BY <1>25 DEF finish_stdin
<1>26. CASE fails(d)  BY <1>26 DEF fails, Fail
<1>27. CASE bootstrap_main(d)  BY <1>27 DEF bootstrap_main
<1>28. CASE bootstrap_fails(d)  BY <1>28 DEF bootstrap_fails
<1>29. CASE body_ends(d)  BY <1>29 DEF body_ends
<1>30. CASE on_timeout(d)  BY <1>30 DEF on_timeout, Fail
<1> QED BY <1>1, <1>2, <1>3, <1>4, <1>5, <1>6, <1>7, <1>8, <1>9, <1>10, <1>11, <1>12, 
         <1>13, <1>14, <1>15, <1>16, <1>17, <1>18, <1>19, <1>20, <1>21, <1>22, <1>23, 
         <1>24, <1>25, <1>26, <1>27, <1>28, <1>29, <1>30 DEF Step

\* A username has one dispatch at a time, and a body keeps the uid passwd gives it: the
\* registration that let it in was still waited for, and userdel is refused meanwhile.
LEMMA OwnerStep ==
  ASSUME Inv, NEW d \in Dispatches, Step(d)
  PROVE  (\A f \in Dispatches : Owner(f)' /\ BodyUser(f)') /\ Exclusive'
<1>0. /\ TypeOK /\ Exclusive /\ Named
      /\ \A f \in Dispatches : Stage(f) /\ Wait(f) /\ Owner(f) /\ BodyUser(f)
  BY DEF Inv
<1>1. CASE provision(d)
  <2>1. PICK u \in Nat : /\ users' = [users EXCEPT ![Name(d)] = u]
                         /\ uid' = [uid EXCEPT ![d] = u]
    BY <1>1, Constants DEF provision, FreeUids
  <2>2. /\ users[Name(d)] = None /\ pc[d] = "idle"
        /\ pc' = [pc EXCEPT ![d] = "provisioned"] /\ UNCHANGED <<stage, target>>
    BY <1>1 DEF provision
  <2>3. \A f \in Dispatches : Holds(f) \/ stage[f] = "body" => Name(f) # Name(d)
    BY <1>0, <2>2, Constants DEF Owner, BodyUser, Stage
  <2>4. Name(d) \in Usernames /\ \A f \in Dispatches : Name(f) \in Usernames
    BY Constants
  <2>5. Owner(d)' /\ BodyUser(d)'
    BY <1>0, <2>1, <2>2, <2>4 DEF Owner, BodyUser, Stage, TypeOK, Name, Id
  <2>6. ASSUME NEW f \in Dispatches, f # d  PROVE Owner(f)' /\ BodyUser(f)'
    <3>1. pc'[f] = pc[f] /\ uid'[f] = uid[f] /\ stage'[f] = stage[f] /\ target'[f] = target[f]
      BY <2>1, <2>2, <2>6, <1>0 DEF TypeOK
    <3>2. Holds(f) \/ stage[f] = "body" => users'[Name(f)] = users[Name(f)]
      BY <2>1, <2>3, <2>4, <1>0 DEF TypeOK
    <3>3. Holds(f)' => Holds(f)
      BY <3>1 DEF Holds
    <3>4. Owner(f) /\ BodyUser(f)
      BY <1>0
    <3> QED BY <3>1, <3>2, <3>3, <3>4 DEF Owner, BodyUser, Name, Id
  <2>7. \A f \in Dispatches : f # d => (Holds(f)' <=> Holds(f))
    BY <1>0, <2>2 DEF Holds, TypeOK
  <2>8. Exclusive'
    BY <1>0, <2>3, <2>7 DEF Exclusive, Name, Id
  <2> QED BY <2>5, <2>6, <2>8
<1>2. CASE release(d)
  <2>1. /\ pc[d] = "releasing" /\ users' = [users EXCEPT ![Name(d)] = None]
        /\ pc' = [pc EXCEPT ![d] = "settled"] /\ UNCHANGED <<uid, stage, target>>
    BY <1>2 DEF release
  <2>2. \A f \in Dispatches : HasProcess(f) /\ f \notin root => target[f] # users[Name(d)]
    BY <1>2 DEF release
  <2>3. \A f \in Dispatches : (Holds(f)' => Holds(f) /\ f # d)
    BY <1>0, <2>1 DEF Holds, TypeOK
  <2>4. \A f \in Dispatches : Holds(f) /\ f # d => Name(f) # Name(d)
    BY <1>0, <2>1 DEF Exclusive, Holds
  <2>5. \A f \in Dispatches : stage[f] = "body" => Name(f) # Name(d)
    BY <1>0, <2>2 DEF BodyUser, Stage, HasProcess
  <2>6. ASSUME NEW f \in Dispatches  PROVE Owner(f)' /\ BodyUser(f)'
    <3>1. Name(f) # Name(d) => users'[Name(f)] = users[Name(f)]
      BY <2>1, <1>0, Constants DEF TypeOK
    <3>2. Owner(f) /\ BodyUser(f)
      BY <1>0
    <3> QED BY <2>1, <2>3, <2>4, <2>5, <3>1, <3>2 DEF Owner, BodyUser, Name, Id
  <2>7. Exclusive'
    BY <1>0, <2>3 DEF Exclusive, Name, Id
  <2> QED BY <2>6, <2>7
<1>3. CASE ~ provision(d) /\ ~ release(d)
  <2>1. UNCHANGED <<users, uid>> /\ \A f \in Dispatches : Holds(f)' => Holds(f)
    BY <1>0, <1>3, UsersKept
  <2>2. (\A f \in Dispatches : Owner(f)') /\ Exclusive'
    BY <1>0, <2>1 DEF Owner, Exclusive, Name, Id
  <2>3. ASSUME NEW f \in Dispatches, f # d  PROVE BodyUser(f)'
    BY <1>0, <2>1, <2>3, Others DEF BodyUser, Name, Id
  <2>4. ASSUME stage[d] = "body"  PROVE BodyUser(d)'
    BY <1>0, <2>1, <2>4, BodyEntered DEF BodyUser, Name, Id
  <2>5. ASSUME bootstrap_main(d)  PROVE BodyUser(d)'
    <3>1. target[d] = uid[d] /\ target' = target
      BY <1>0, <2>5 DEF bootstrap_main, Stage
    <3>2. stage'[d] = "body" => Holds(d)
      BY <1>0, <2>5 DEF bootstrap_main, Wait, HasProcess, Holds, TypeOK
    <3>3. Owner(d)
      BY <1>0
    <3> QED BY <2>1, <3>1, <3>2, <3>3 DEF Owner, BodyUser, Name, Id
  <2>6. BodyUser(d)'
    BY <1>0, <2>4, <2>5, BodyEntered DEF BodyUser
  <2> QED BY <2>2, <2>3, <2>6
<1> QED BY <1>1, <1>2, <1>3

-----------------------------------------------------------------------------
(* Leaves.                                                                 *)

\* A cleanup that was re-entered stays so.
LEMMA AgainGrows ==
  ASSUME TypeOK, NEW d \in Dispatches, Step(d)
  PROVE  \A id : Reentered(id) => Reentered(id)'
<1> SUFFICES again \subseteq again'  BY DEF Reentered, TypeOK, Id
<1> USE DEF TypeOK
<1>1. CASE provision(d)  BY <1>1 DEF provision, FreeUids
<1>2. CASE provision_fails(d)  BY <1>2 DEF provision_fails
<1>3. CASE launch(d)  BY <1>3 DEF launch
<1>4. CASE launch_fails(d)  BY <1>4 DEF launch_fails
<1>5. CASE run_returns(d)  BY <1>5 DEF run_returns, Returned
<1>6. CASE run_times_out(d)  BY <1>6 DEF run_times_out, Kill
<1>7. CASE reaped(d)  BY <1>7 DEF reaped
<1>8. CASE checkin_event(d)  BY <1>8 DEF checkin_event
<1>9. CASE checkin_expires(d)  BY <1>9 DEF checkin_expires
<1>10. CASE checkin_popped(d)  BY <1>10 DEF checkin_popped
<1>11. CASE checkin_failed(d)  BY <1>11 DEF checkin_failed, Kill
<1>12. CASE read_output(d)  BY <1>12 DEF read_output, Returned
<1>13. CASE release(d)  BY <1>13 DEF release
<1>14. CASE release_fails(d)  BY <1>14 DEF release_fails
<1>15. CASE make_leaf(d)  BY <1>15 DEF make_leaf, Fail
<1>16. CASE remember_leaf(d)  BY <1>16 DEF remember_leaf
<1>17. CASE join_leaf(d)  BY <1>17 DEF join_leaf, Fail
<1>18. CASE drop_privilege(d)  BY <1>18 DEF drop_privilege
<1>19. CASE exec_bootstrap(d)  BY <1>19 DEF exec_bootstrap
<1>20. CASE exec_fails(d)  BY <1>20 DEF exec_fails
<1>21. CASE cleanup_before_exit(d)  BY <1>21 DEF cleanup_before_exit
<1>22. CASE exit(d)  BY <1>22 DEF exit
<1>23. CASE identify(d)  BY <1>23, IdentifyCases DEF Fail
<1>24. CASE seal_and_expose(d)  BY <1>24 DEF seal_and_expose
<1>25. CASE finish_stdin(d)  BY <1>25 DEF finish_stdin
<1>26. CASE fails(d)  BY <1>26 DEF fails, Fail
<1>27. CASE bootstrap_main(d)  BY <1>27 DEF bootstrap_main
<1>28. CASE bootstrap_fails(d)  BY <1>28 DEF bootstrap_fails
<1>29. CASE body_ends(d)  BY <1>29 DEF body_ends
<1>30. CASE on_timeout(d)  BY <1>30 DEF on_timeout, Fail
<1> QED BY <1>1, <1>2, <1>3, <1>4, <1>5, <1>6, <1>7, <1>8, <1>9, <1>10, <1>11, <1>12, 
         <1>13, <1>14, <1>15, <1>16, <1>17, <1>18, <1>19, <1>20, <1>21, <1>22, <1>23, 
         <1>24, <1>25, <1>26, <1>27, <1>28, <1>29, <1>30 DEF Step

\* Only mkdir and the cleanup write leaves.
LEMMA LeavesKept ==
  ASSUME TypeOK, NEW d \in Dispatches, Step(d), ~ make_leaf(d), ~ cleanup_before_exit(d)
  PROVE  leaves' = leaves
<1>1. CASE provision(d)  BY <1>1 DEF provision, FreeUids
<1>2. CASE provision_fails(d)  BY <1>2 DEF provision_fails
<1>3. CASE launch(d)  BY <1>3 DEF launch
<1>4. CASE launch_fails(d)  BY <1>4 DEF launch_fails
<1>5. CASE run_returns(d)  BY <1>5 DEF run_returns, Returned
<1>6. CASE run_times_out(d)  BY <1>6 DEF run_times_out, Kill
<1>7. CASE reaped(d)  BY <1>7 DEF reaped
<1>8. CASE checkin_event(d)  BY <1>8 DEF checkin_event
<1>9. CASE checkin_expires(d)  BY <1>9 DEF checkin_expires
<1>10. CASE checkin_popped(d)  BY <1>10 DEF checkin_popped
<1>11. CASE checkin_failed(d)  BY <1>11 DEF checkin_failed, Kill
<1>12. CASE read_output(d)  BY <1>12 DEF read_output, Returned
<1>13. CASE release(d)  BY <1>13 DEF release
<1>14. CASE release_fails(d)  BY <1>14 DEF release_fails
<1>15. CASE remember_leaf(d)  BY <1>15 DEF remember_leaf
<1>16. CASE join_leaf(d)  BY <1>16 DEF join_leaf, Fail
<1>17. CASE drop_privilege(d)  BY <1>17 DEF drop_privilege
<1>18. CASE exec_bootstrap(d)  BY <1>18 DEF exec_bootstrap
<1>19. CASE exec_fails(d)  BY <1>19 DEF exec_fails
<1>20. CASE exit(d)  BY <1>20 DEF exit
<1>21. CASE identify(d)  BY <1>21, IdentifyCases DEF Fail
<1>22. CASE seal_and_expose(d)  BY <1>22 DEF seal_and_expose
<1>23. CASE finish_stdin(d)  BY <1>23 DEF finish_stdin
<1>24. CASE fails(d)  BY <1>24 DEF fails, Fail
<1>25. CASE bootstrap_main(d)  BY <1>25 DEF bootstrap_main
<1>26. CASE bootstrap_fails(d)  BY <1>26 DEF bootstrap_fails
<1>27. CASE body_ends(d)  BY <1>27 DEF body_ends
<1>28. CASE on_timeout(d)  BY <1>28 DEF on_timeout, Fail
<1> QED BY <1>1, <1>2, <1>3, <1>4, <1>5, <1>6, <1>7, <1>8, <1>9, <1>10, <1>11, <1>12, 
         <1>13, <1>14, <1>15, <1>16, <1>17, <1>18, <1>19, <1>20, <1>21, <1>22, <1>23, 
         <1>24, <1>25, <1>26, <1>27, <1>28 DEF Step

\* What the other dispatches have of a leaf that is not written, they keep.
LEMMA LeafOthers ==
  ASSUME Inv, NEW d \in Dispatches, Step(d), leaves' = leaves
  PROVE  Named' /\ \A f \in Dispatches : f # d => Leaf(f)'
<1>1. Named'  BY DEF Inv, Named, Id
<1>2. ASSUME NEW f \in Dispatches, f # d  PROVE Leaf(f)'
  <2>1. TypeOK /\ Leaf(f)  BY DEF Inv
  <2>2. Reentered(Id(f)) => Reentered(Id(f))'  BY <2>1, AgainGrows
  <2>3. Id(f)' = Id(f)  BY DEF Id
  <2> QED BY <1>2, <2>1, <2>2, <2>3, Others DEF Leaf, HasLeaf, HasProcess
<1> QED BY <1>1, <1>2

\* A helper that neither makes nor removes its leaf keeps what it has of it.
LEMMA LeafKept ==
  ASSUME Inv, NEW d \in Dispatches, Step(d), ~ make_leaf(d), ~ cleanup_before_exit(d)
  PROVE  Leaf(d)'
<1>a. TypeOK /\ Stage(d) /\ Leaf(d)  BY DEF Inv
<1>b. leaves' = leaves  BY <1>a, LeavesKept
<1>c. Reentered(Id(d)) => Reentered(Id(d))'  BY <1>a, AgainGrows
<1>d. Id(d)' = Id(d)  BY DEF Id
<1>e. d \in again' => Reentered(Id(d))'  BY DEF Reentered, Id
<1>f. Id(d) \in ExecutionIds /\ None \notin Dispatches  BY Constants
<1> USE <1>a, <1>b, <1>c, <1>d, <1>e, <1>f DEF TypeOK, Stage, Leaf, HasLeaf, HasProcess
<1>1. CASE provision(d)  BY <1>1 DEF provision, FreeUids
<1>2. CASE provision_fails(d)  BY <1>2 DEF provision_fails
<1>3. CASE launch(d)  BY <1>3 DEF launch
<1>4. CASE launch_fails(d)  BY <1>4 DEF launch_fails
<1>5. CASE run_returns(d)  BY <1>5 DEF run_returns, Returned
<1>6. CASE run_times_out(d)  BY <1>6 DEF run_times_out, Kill
<1>7. CASE reaped(d)  BY <1>7 DEF reaped
<1>8. CASE checkin_event(d)  BY <1>8 DEF checkin_event
<1>9. CASE checkin_expires(d)  BY <1>9 DEF checkin_expires
<1>10. CASE checkin_popped(d)  BY <1>10 DEF checkin_popped
<1>11. CASE checkin_failed(d)  BY <1>11 DEF checkin_failed, Kill
<1>12. CASE read_output(d)  BY <1>12 DEF read_output, Returned
<1>13. CASE release(d)  BY <1>13 DEF release
<1>14. CASE release_fails(d)  BY <1>14 DEF release_fails
<1>15. CASE remember_leaf(d)  BY <1>15 DEF remember_leaf
<1>16. CASE join_leaf(d)  BY <1>16 DEF join_leaf, Fail
<1>17. CASE drop_privilege(d)  BY <1>17 DEF drop_privilege
<1>18. CASE exec_bootstrap(d)  BY <1>18 DEF exec_bootstrap
<1>19. CASE exec_fails(d)  BY <1>19 DEF exec_fails
<1>20. CASE exit(d)  BY <1>20 DEF exit
<1>21. CASE identify(d)  BY <1>21, IdentifyCases DEF Fail
<1>22. CASE seal_and_expose(d)  BY <1>22 DEF seal_and_expose
<1>23. CASE finish_stdin(d)  BY <1>23 DEF finish_stdin
<1>24. CASE fails(d)  BY <1>24 DEF fails, Fail
<1>25. CASE bootstrap_main(d)  BY <1>25 DEF bootstrap_main
<1>26. CASE bootstrap_fails(d)  BY <1>26 DEF bootstrap_fails
<1>27. CASE body_ends(d)  BY <1>27 DEF body_ends
<1>28. CASE on_timeout(d)  BY <1>28 DEF on_timeout, Fail
<1> QED BY <1>1, <1>2, <1>3, <1>4, <1>5, <1>6, <1>7, <1>8, <1>9, <1>10, <1>11, <1>12, 
         <1>13, <1>14, <1>15, <1>16, <1>17, <1>18, <1>19, <1>20, <1>21, <1>22, <1>23, 
         <1>24, <1>25, <1>26, <1>27, <1>28 DEF Step

\* A mkdir gives the leaf to its helper and takes none from another: one that has it made
\* it, so it exists.
LEMMA LeafMade ==
  ASSUME Inv, NEW d \in Dispatches, Step(d), make_leaf(d)
  PROVE  Named' /\ \A f \in Dispatches : Leaf(f)'
<1>0. TypeOK /\ Named /\ \A f \in Dispatches : Stage(f) /\ Leaf(f)  BY DEF Inv
<1>1. \A f \in Dispatches : Id(f) \in ExecutionIds /\ Id(f)' = Id(f) /\ None # f
  BY Constants DEF Id
<1>2. \A id : Reentered(id) => Reentered(id)'  BY <1>0, AgainGrows
<1>3. /\ stage[d] = "found" /\ UNCHANGED <<joined, created, root, spawned>>
  BY DEF make_leaf
<1>4. CASE leaves[Id(d)] = None
  <2>1. leaves' = [leaves EXCEPT ![Id(d)] = d] /\ stage' = [stage EXCEPT ![d] = "made"]
    BY <1>4 DEF make_leaf
  <2>2. Named'
    BY <1>0, <1>1, <2>1 DEF Named, TypeOK, Id
  <2>3. ASSUME NEW f \in Dispatches, f # d  PROVE Leaf(f)'
    <3>1. stage'[f] = stage[f]  BY <2>1, <2>3, <1>0 DEF TypeOK
    <3>2. leaves'[Id(f)] = IF Id(f) = Id(d) THEN d ELSE leaves[Id(f)]
      BY <2>1, <1>0, <1>1 DEF TypeOK
    <3>3. Leaf(f)  BY <1>0
    <3> QED BY <1>1, <1>2, <1>3, <1>4, <2>3, <3>1, <3>2, <3>3 DEF Leaf, HasLeaf, HasProcess
  <2>4. Leaf(d)'
    <3>1. leaves'[Id(d)] = d /\ stage'[d] = "made"  BY <2>1, <1>0, <1>1 DEF TypeOK
    <3> QED BY <1>1, <3>1 DEF Leaf
  <2> QED BY <2>2, <2>3, <2>4
<1>5. CASE leaves[Id(d)] # None
  <2>1. leaves' = leaves /\ stage' = [stage EXCEPT ![d] = "failing"]
    BY <1>5 DEF make_leaf, Fail
  <2>2. Leaf(d)'
    BY <1>0, <1>1, <1>2, <1>3, <2>1 DEF Leaf, HasLeaf, HasProcess, Stage, TypeOK
  <2> QED BY <2>1, <2>2, LeafOthers
<1> QED BY <1>4, <1>5

\* The cleanup removes the leaf its helper made, or another's that is empty of helpers.
LEMMA LeafCleaned ==
  ASSUME Inv, NEW d \in Dispatches, Step(d), cleanup_before_exit(d)
  PROVE  Named' /\ \A f \in Dispatches : Leaf(f)'
<1>0. TypeOK /\ Named /\ \A f \in Dispatches : Stage(f) /\ Leaf(f)  BY DEF Inv
<1>1. \A f \in Dispatches : Id(f) \in ExecutionIds /\ Id(f)' = Id(f) /\ None # f
  BY Constants DEF Id
<1>2. \A id : Reentered(id) => Reentered(id)'  BY <1>0, AgainGrows
<1>3. /\ stage[d] = "failing" /\ stage' = [stage EXCEPT ![d] = "cleaned"]
      /\ UNCHANGED <<created, root, spawned>>
  BY DEF cleanup_before_exit
<1>4. CASE d \notin created \cap root
  <2>1. UNCHANGED <<leaves, joined>>  BY <1>4 DEF cleanup_before_exit
  <2>2. Leaf(d)'
    BY <1>0, <1>1, <1>2, <1>3, <1>4, <2>1 DEF Leaf, HasLeaf, HasProcess, Stage, TypeOK
  <2> QED BY <2>1, <2>2, LeafOthers
<1>5. CASE d \in created \cap root
  <2>1. joined' \in {joined, joined \ {d}}  BY <1>5 DEF cleanup_before_exit
  <2>2. CASE Members(Id(d)) \cap joined' = {}
    <3>1. leaves' = [leaves EXCEPT ![Id(d)] = None]
      BY <1>5, <2>2 DEF cleanup_before_exit
    <3>2. Named'
      BY <1>0, <1>1, <3>1 DEF Named, TypeOK, Id
    <3>3. \A f \in Dispatches : f \in joined' /\ HasProcess(f) => Id(f) # Id(d)
      BY <2>1, <2>2 DEF Members
    <3>4. ASSUME NEW f \in Dispatches  PROVE Leaf(f)'
      <4>1. leaves'[Id(f)] = IF Id(f) = Id(d) THEN None ELSE leaves[Id(f)]
        BY <3>1, <1>0, <1>1 DEF TypeOK
      <4>2. HasLeaf(f)' => HasLeaf(f) /\ f # d
        BY <1>0, <1>3 DEF HasLeaf, Stage, TypeOK
      <4>3. HasProcess(f)' => HasProcess(f)
        BY <1>0, <1>3 DEF HasProcess, TypeOK
      <4>4. HasLeaf(f)' /\ ~ Reentered(Id(f)) => Id(f) # Id(d)
        BY <1>0, <1>3, <1>5, <4>2 DEF Leaf, HasLeaf
      <4>5. f # d /\ stage'[f] \in {"cleaned", "exited"} => stage[f] \in {"cleaned", "exited"}
        BY <1>0, <1>3 DEF TypeOK
      <4>6. f = d => Id(f) = Id(d)
        OBVIOUS
      <4>7. f # d => (f \in joined' <=> f \in joined)
        BY <2>1
      <4>8. Leaf(f)
        BY <1>0
      <4>9. HasLeaf(f)' /\ ~ Reentered(Id(f))' => leaves'[Id(f)] = f
        BY <1>1, <1>2, <4>1, <4>2, <4>4, <4>8 DEF Leaf
      <4>10. f \in joined' /\ HasProcess(f)' =>
               leaves'[Id(f)] # None /\ (~ Reentered(Id(f))' => leaves'[Id(f)] = f)
        BY <1>1, <1>2, <2>1, <3>3, <4>1, <4>3, <4>8 DEF Leaf
      <4>11. /\ stage'[f] \in {"cleaned", "exited"} /\ ~ Reentered(Id(f))'
             /\ f \in (created' \cap root') \ (spawned' \cup joined')
             => leaves'[Id(f)] # f
        BY <1>1, <1>2, <1>3, <4>1, <4>5, <4>6, <4>7, <4>8 DEF Leaf
      <4> QED BY <1>1, <4>9, <4>10, <4>11 DEF Leaf
    <3> QED BY <3>2, <3>4
  <2>3. CASE Members(Id(d)) \cap joined' # {}
    <3>1. leaves' = leaves
      BY <1>5, <2>3 DEF cleanup_before_exit
    <3>2. PICK m \in Dispatches : m \in joined /\ m \in joined' /\ Id(m) = Id(d) /\ HasProcess(m)
      BY <1>0, <2>1, <2>3 DEF Members, TypeOK
    <3>3. Leaf(d) /\ Leaf(m) /\ Stage(d)
      BY <1>0
    <3>4. Leaf(d)'
      BY <1>0, <1>1, <1>2, <1>3, <2>1, <3>1, <3>2, <3>3 DEF Leaf, HasLeaf, HasProcess, Stage, TypeOK
    <3> QED BY <3>1, <3>4, LeafOthers
  <2> QED BY <2>2, <2>3
<1> QED BY <1>4, <1>5

\* Every step keeps who has which leaf.
LEMMA LeafStep ==
  ASSUME Inv, NEW d \in Dispatches, Step(d)
  PROVE  Named' /\ \A f \in Dispatches : Leaf(f)'
<1>1. CASE make_leaf(d)  BY <1>1, LeafMade
<1>2. CASE cleanup_before_exit(d)  BY <1>2, LeafCleaned
<1>3. CASE ~ make_leaf(d) /\ ~ cleanup_before_exit(d)
  <2>1. leaves' = leaves  BY <1>3, LeavesKept DEF Inv
  <2> QED BY <1>3, <2>1, LeafOthers, LeafKept
<1> QED BY <1>1, <1>2, <1>3

-----------------------------------------------------------------------------
(* The theorems.                                                           *)

\* What holds of users, leaves and processes together, in every reachable state.
THEOREM Invariance == Spec => []Inv
<1>1. Init => Inv  BY InitInv
<1>2. Inv /\ [Next]_vars => Inv'
  <2> SUFFICES ASSUME Inv, [Next]_vars  PROVE Inv'
    OBVIOUS
  <2>1. CASE Next
    <3>1. PICK d \in Dispatches : Step(d)
      BY <2>1 DEF Next, Step
    <3>2. TypeOK'  BY <3>1, TypeStep DEF Inv
    <3> QED BY <3>1, <3>2, StageStep, OwnerStep, LeafStep DEF Inv
  <2>2. CASE UNCHANGED vars
    BY <2>2 DEF vars, Inv, TypeOK, Stage, Wait, Owner, Exclusive, BodyUser, Leaf, HasLeaf, Named,
       Holds, HasProcess, Reentered, Id, Name
  <2> QED BY <2>1, <2>2
<1> QED BY <1>1, <1>2, PTL DEF Spec

\* TypeOK: the types of passwd, of the leaves and of where each helper and run() is.
THEOREM TypeCorrectness == Spec => []TypeOK
<1>1. Inv => TypeOK  BY DEF Inv
<1> QED BY <1>1, Invariance, PTL

\* OneSpawn: however many brokers dispatch one execution id, and however their helpers'
\* failures and cleanups interleave, it is spawned once and stays consumed, unless an
\* alarm re-entered a cleanup of that id.
THEOREM SpawnedOnce == Spec => []OneSpawn
<1>1. Inv => OneSpawn
  BY DEF Inv, TypeOK, OneSpawn, Leaf, HasLeaf
<1> QED BY <1>1, Invariance, PTL

\* ConfinedBeforeCode: bootstrap and the body run in a leaf of their id, as the
\* provisioned uid, without root and without an alarm; the body while passwd names it.
THEOREM ConfinedThenRun == Spec => []ConfinedBeforeCode
<1>1. Inv => ConfinedBeforeCode
  <2> SUFFICES ASSUME Inv, NEW d \in Dispatches, stage[d] \in {"bootstrap", "body"}
               PROVE  /\ d \in joined /\ leaves[Id(d)] # None
                      /\ d \notin root /\ target[d] = uid[d]
                      /\ d \notin armed
                      /\ stage[d] = "body" => users[Name(d)] = target[d]
    BY DEF ConfinedBeforeCode
  <2>1. Stage(d) /\ Leaf(d) /\ BodyUser(d)
    BY DEF Inv
  <2> QED BY <2>1 DEF Stage, Leaf, BodyUser, HasProcess
<1> QED BY <1>1, Invariance, PTL

\* LeafReleased: a helper that ends without a spawn has removed its leaf, outside of the
\* ways out that the property names.
THEOREM ReleasedOrNamed == Spec => []LeafReleased
<1>1. Inv => LeafReleased
  <2> SUFFICES ASSUME Inv, NEW id \in ExecutionIds, NEW d \in Dispatches,
                      leaves[id] = d, stage[d] \in Ended, ~ Reentered(id),
                      d \notin spawned, stage[d] # "killed",
                      d \in created, d \in root, d \notin joined
               PROVE  FALSE
    BY DEF LeafReleased
  <2>1. Id(d) = id
    BY Constants DEF Inv, Named
  <2>2. Leaf(d)
    BY DEF Inv
  <2> QED BY <2>1, <2>2 DEF Leaf
<1> QED BY <1>1, Invariance, PTL
=============================================================================
