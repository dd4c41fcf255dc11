-------------------------- MODULE UidCgroup_proofs --------------------------
(* Theorems about UidCgroup, for any number of dispatches, any execution   *)
(* ids and usernames they share, and any range of uids.                    *)
EXTENDS UidCgroup, WellFoundedInduction, TLAPS

\* While a dispatch is between useradd and userdel, and as long as a process of it
\* lives, the user it made exists with the uid it was given.
Owner(d) ==
  Holds(d) \/ HasProcess(d) =>
    /\ uid[d] \in Uids
    /\ users[Name(d)] = uid[d]
    /\ creator[Name(d)] = d

\* Two users never have one uid.
Distinct ==
  \A n, m \in Usernames : users[n] # None /\ users[n] = users[m] => n = m

\* How far a dispatch is says whether its child may live, whether the leaf is its own,
\* and what the child was given.
Stage(d) ==
  /\ pc[d] \in {"idle", "picked", "added", "leafed"} => child[d] = "none" /\ d \notin joined
  /\ child[d] \in Alive => pc[d] \in {"spawned", "confined", "communicating"}
  /\ pc[d] \in {"leafed", "spawned", "confined", "communicating", "release_cgroup"}
       => leaves[Id(d)] = d
  /\ pc[d] \in {"confined", "communicating"} => d \in joined
  /\ d \in synced => d \in joined
  /\ child[d] = "body" => d \in synced
  /\ d \in stray => d \in joined
  /\ pc[d] = "release_user" /\ leaves[Id(d)] = d => d \in outlived

\* The inductive invariant.
Inv ==
  /\ TypeOK
  /\ Distinct
  /\ \A d \in Dispatches : Owner(d) /\ Stage(d)
  /\ TryReleases

USE DEF Alive

-----------------------------------------------------------------------------
(* _find_free_uid and the constants.                                       *)

\* A range that is not exhausted has a lowest free uid, the one _find_free_uid answers.
LEMMA LowestFree ==
  ASSUME FreeUids # {}
  PROVE  (CHOOSE u \in FreeUids : \A v \in FreeUids : u <= v) \in Uids
<1>1. FreeUids \subseteq Nat /\ FreeUids \subseteq Uids
  BY RangeAssumption DEF FreeUids, Uids
<1>2. PICK u \in FreeUids : \A v \in FreeUids : <<v, u>> \notin OpToRel(<, Nat)
  <2>1. IsWellFoundedOn(OpToRel(<, Nat), Nat)
    BY NatLessThanWellFounded
  <2> QED  BY <1>1, <2>1, WFMin
<1>3. \A v \in FreeUids : u <= v
  <2> SUFFICES ASSUME NEW v \in FreeUids, ~(u <= v) PROVE FALSE
    OBVIOUS
  <2>1. u \in Nat /\ v \in Nat /\ v < u
    BY <1>1
  <2>2. <<v, u>> \in OpToRel(<, Nat)
    BY <2>1 DEF OpToRel
  <2> QED  BY <1>2, <2>2
<1> QED  BY <1>1, <1>3

\* A dispatch has one execution id and one username, and None is not a uid.
LEMMA Constants ==
  /\ \A d \in Dispatches : Id(d) \in ExecutionIds /\ Name(d) \in Usernames
  /\ \A d, f \in Dispatches : Id(d) = Id(f) => Name(d) = Name(f)
  /\ None \notin Uids
  /\ None \notin Dispatches
  BY ExecutionIdAssumption, UsernameAssumption, RangeAssumption, NoneAssumption
  DEF Id, Name, Uids

-----------------------------------------------------------------------------
(* The initial state and the types.                                        *)

\* The invariant holds initially.
LEMMA InitInv == Init => Inv
  BY Constants DEF Init, Inv, TypeOK, Distinct, Owner, Stage, TryReleases, Holds, HasProcess

\* Every step keeps the types.
LEMMA TypeStep == TypeOK /\ [Next]_vars => TypeOK'
<1> SUFFICES ASSUME TypeOK, [Next]_vars PROVE TypeOK'
  OBVIOUS
<1> USE Constants DEF TypeOK, passwd, kernel
<1>1. ASSUME NEW d \in Dispatches, BrokerStep(d) PROVE TypeOK'
  <2>1. CASE find_free_uid(d)
    <3>1. CASE FreeUids = {}  BY <2>1, <3>1 DEF find_free_uid, Escape, Goto, Ending
    <3>2. CASE FreeUids # {}
      <4>1. PICK u \in Uids : uid' = [uid EXCEPT ![d] = u]
        BY <2>1, <3>2, LowestFree DEF find_free_uid
      <4>2. /\ pc' = [pc EXCEPT ![d] = "picked"]
            /\ UNCHANGED <<users, creator, leaves, joined, synced, child, stray, outcome,
                           outlived>>
        BY <2>1, <3>2 DEF find_free_uid, Goto
      <4> QED BY <4>1, <4>2
    <3> QED BY <3>1, <3>2
  <2>2. CASE useradd(d)  BY <2>2 DEF useradd, Goto, FreeUids
  <2>3. CASE useradd_fails(d)  BY <2>3 DEF useradd_fails, Escape, Goto, Ending
  <2>4. CASE provision_cgroup(d)  BY <2>4 DEF provision_cgroup, Goto
  <2>5. CASE provision_cgroup_fails(d)  BY <2>5 DEF provision_cgroup_fails, Escape, Goto, Ending
  <2>6. CASE open_pipe_fails(d)  BY <2>6 DEF open_pipe_fails, Escape, Goto, Ending
  <2>7. CASE spawn(d)  BY <2>7 DEF spawn, Goto
  <2>8. CASE add_pid_to_cgroup(d)  BY <2>8 DEF add_pid_to_cgroup, Goto
  <2>9. CASE release_child(d)  BY <2>9 DEF release_child, Goto
  <2>10. CASE try_raises(d)  BY <2>10 DEF try_raises, Leave, Goto, Ending
  <2>11. CASE communicate(d)  BY <2>11 DEF communicate, Leave, Goto, Ending
  <2>12. CASE release_cgroup(d)  BY <2>12 DEF release_cgroup, Goto
  <2>13. CASE release_cgroup_raises(d)  BY <2>13 DEF release_cgroup_raises, Goto, Ending
  <2>14. CASE release_ephemeral_user(d)  BY <2>14 DEF release_ephemeral_user, Goto
  <2>15. CASE release_user_fails(d)  BY <2>15 DEF release_user_fails, Goto, Ending
  <2> QED BY <1>1, <2>1, <2>2, <2>3, <2>4, <2>5, <2>6, <2>7, <2>8, <2>9, <2>10, <2>11, <2>12,
             <2>13, <2>14, <2>15 DEF BrokerStep
<1>2. ASSUME NEW d \in Dispatches, ChildStep(d) PROVE TypeOK'
  BY <1>2 DEF ChildStep, begin_body, child_ends, body_forks, stray_ends
<1>3. CASE UNCHANGED vars  BY <1>3 DEF vars
<1> QED BY <1>1, <1>2, <1>3 DEF Next

-----------------------------------------------------------------------------
(* The passwd database.                                                    *)

\* Only useradd and userdel write it.
LEMMA PasswdWriters ==
  ASSUME NEW d \in Dispatches, BrokerStep(d) \/ ChildStep(d)
  PROVE  useradd(d) \/ release_ephemeral_user(d) \/ UNCHANGED passwd
  BY DEF BrokerStep, ChildStep, find_free_uid, useradd_fails, provision_cgroup,
         provision_cgroup_fails, open_pipe_fails, spawn, add_pid_to_cgroup, release_child,
         try_raises, communicate, Leave, release_cgroup, release_cgroup_raises,
         release_user_fails, begin_body, child_ends, body_forks, stray_ends, passwd

\* useradd takes a uid no user has, so users stay distinct however late it runs after
\* _find_free_uid.
LEMMA DistinctStep ==
  ASSUME Inv, NEW d \in Dispatches, BrokerStep(d) \/ ChildStep(d)
  PROVE  Distinct'
<1> USE Constants DEF Inv, TypeOK, Distinct
<1>1. CASE useradd(d)  BY <1>1 DEF useradd, FreeUids
<1>2. CASE release_ephemeral_user(d)  BY <1>2 DEF release_ephemeral_user
<1>3. CASE UNCHANGED passwd  BY <1>3 DEF passwd
<1> QED BY <1>1, <1>2, <1>3, PasswdWriters

\* Nothing but useradd makes a dispatch depend on a user: a process begins under a user
\* that is held, and whoever depends on a user keeps its uid.
LEMMA Dependants ==
  ASSUME Inv, NEW d \in Dispatches, BrokerStep(d) \/ ChildStep(d), ~useradd(d),
         NEW f \in Dispatches, Holds(f)' \/ HasProcess(f)'
  PROVE  (Holds(f) \/ HasProcess(f)) /\ uid'[f] = uid[f]
<1> USE DEF Inv, TypeOK, Holds, HasProcess, Goto, kernel
<1>1. CASE find_free_uid(d)  BY <1>1 DEF find_free_uid, Escape, Stage
<1>2. CASE useradd_fails(d) \/ provision_cgroup_fails(d) \/ open_pipe_fails(d)
  BY <1>2 DEF useradd_fails, provision_cgroup_fails, open_pipe_fails, Escape
<1>3. CASE provision_cgroup(d) \/ spawn(d)  BY <1>3 DEF provision_cgroup, spawn
<1>4. CASE add_pid_to_cgroup(d) \/ release_child(d)
  BY <1>4 DEF add_pid_to_cgroup, release_child
<1>5. CASE try_raises(d) \/ communicate(d)  BY <1>5 DEF try_raises, communicate, Leave
<1>6. CASE release_cgroup(d) \/ release_cgroup_raises(d) \/ release_ephemeral_user(d)
             \/ release_user_fails(d)
  BY <1>6 DEF release_cgroup, release_cgroup_raises, release_ephemeral_user, release_user_fails
<1>7. CASE ChildStep(d)
  BY <1>7 DEF ChildStep, begin_body, child_ends, body_forks, stray_ends
<1> QED BY <1>1, <1>2, <1>3, <1>4, <1>5, <1>6, <1>7 DEF BrokerStep

\* The user of f is not touched by a dispatch d whose user it is not.
LEMMA OwnerStep ==
  ASSUME Inv, NEW d \in Dispatches, BrokerStep(d) \/ ChildStep(d), NEW f \in Dispatches
  PROVE  Owner(f)'
<1> USE Constants DEF Inv, TypeOK, Owner, Name, Id
<1>1. CASE useradd(d)
  BY <1>1 DEF useradd, FreeUids, Goto, Stage, kernel, Holds, HasProcess
<1>2. ASSUME ~useradd(d), Holds(f)' \/ HasProcess(f)'
      PROVE  /\ uid'[f] \in Uids
             /\ users'[Name(f)] = uid'[f]
             /\ creator'[Name(f)] = f
  <2>1. /\ Holds(f) \/ HasProcess(f)
        /\ uid'[f] = uid[f]
    BY <1>2, Dependants
  <2>2. CASE release_ephemeral_user(d)
    <3>1. CASE f = d
      BY <1>2, <2>1, <2>2, <3>1 DEF release_ephemeral_user, InUse, Goto, kernel, Holds, HasProcess
    <3>2. CASE f # d
      BY <2>1, <2>2, <3>2 DEF release_ephemeral_user, Holds
    <3> QED BY <3>1, <3>2
  <2>3. CASE UNCHANGED passwd  BY <2>1, <2>3 DEF passwd
  <2> QED BY <1>2, <2>2, <2>3, PasswdWriters
<1> QED BY <1>1, <1>2

-----------------------------------------------------------------------------
(* The leaf, the child and the way out.                                    *)

\* Only the dispatch that made a leaf removes it, and no child outlives the try block.
LEMMA StageStep ==
  ASSUME Inv, NEW d \in Dispatches, BrokerStep(d) \/ ChildStep(d), NEW f \in Dispatches
  PROVE  Stage(f)'
<1> USE Constants DEF Inv, TypeOK, Stage, Goto, Id, Name, passwd, kernel
<1>1. CASE find_free_uid(d)  BY <1>1 DEF find_free_uid, Escape
<1>2. CASE useradd(d)  BY <1>2 DEF useradd
<1>3. CASE useradd_fails(d)  BY <1>3 DEF useradd_fails, Escape
<1>4. CASE provision_cgroup(d)  BY <1>4 DEF provision_cgroup
<1>5. CASE provision_cgroup_fails(d)  BY <1>5 DEF provision_cgroup_fails, Escape
<1>6. CASE open_pipe_fails(d)  BY <1>6 DEF open_pipe_fails, Escape
<1>7. CASE spawn(d)  BY <1>7 DEF spawn
<1>8. CASE add_pid_to_cgroup(d)  BY <1>8 DEF add_pid_to_cgroup
<1>9. CASE release_child(d)  BY <1>9 DEF release_child
<1>10. CASE try_raises(d)  BY <1>10 DEF try_raises, Leave
<1>11. CASE communicate(d)  BY <1>11 DEF communicate, Leave
<1>12. CASE release_cgroup(d)
  <2>1. CASE Members(d) = {}  BY <1>12, <2>1 DEF release_cgroup
  <2>2. CASE Members(d) # {}
    <3>1. PICK g \in joined : Id(g) = Id(d) /\ HasProcess(g)
      BY <2>2 DEF Members
    <3>2. creator[Name(d)] = g /\ creator[Name(d)] = d
      BY <1>12, <3>1 DEF release_cgroup, Owner, Holds, Name
    <3>3. d \in stray
      BY <1>12, <3>1, <3>2 DEF release_cgroup, HasProcess
    <3> QED BY <1>12, <2>2, <3>3 DEF release_cgroup
  <2> QED BY <2>1, <2>2
<1>13. CASE release_cgroup_raises(d)  BY <1>13 DEF release_cgroup_raises
<1>14. CASE release_ephemeral_user(d)  BY <1>14 DEF release_ephemeral_user
<1>15. CASE release_user_fails(d)  BY <1>15 DEF release_user_fails
<1>16. CASE ChildStep(d)
  BY <1>16 DEF ChildStep, begin_body, child_ends, body_forks, stray_ends
<1> QED BY <1>1, <1>2, <1>3, <1>4, <1>5, <1>6, <1>7, <1>8, <1>9, <1>10, <1>11, <1>12,
           <1>13, <1>14, <1>15, <1>16 DEF BrokerStep

\* A dispatch that settles has no child left, has removed its leaf unless a process of
\* its own is in it, and its user unless the system refused.
LEMMA ReleaseStep ==
  ASSUME Inv, NEW d \in Dispatches, BrokerStep(d) \/ ChildStep(d)
  PROVE  TryReleases'
<1> USE Constants DEF Inv, TypeOK, TryReleases, ReleaseRefused, Goto, Id, Name, passwd, kernel
<1>1. CASE find_free_uid(d)  BY <1>1 DEF find_free_uid, Escape, Ending
<1>2. CASE useradd(d)  BY <1>2 DEF useradd
<1>3. CASE useradd_fails(d)  BY <1>3 DEF useradd_fails, Escape, Ending
<1>4. CASE provision_cgroup(d)  BY <1>4 DEF provision_cgroup
<1>5. CASE provision_cgroup_fails(d)  BY <1>5 DEF provision_cgroup_fails, Escape, Ending
<1>6. CASE open_pipe_fails(d)  BY <1>6 DEF open_pipe_fails, Escape, Ending
<1>7. CASE spawn(d)  BY <1>7 DEF spawn
<1>8. CASE add_pid_to_cgroup(d)  BY <1>8 DEF add_pid_to_cgroup
<1>9. CASE release_child(d)  BY <1>9 DEF release_child
<1>10. CASE try_raises(d)  BY <1>10 DEF try_raises, Leave, Ending
<1>11. CASE communicate(d)  BY <1>11 DEF communicate, Leave, Ending
<1>12. CASE release_cgroup(d)  BY <1>12 DEF release_cgroup
<1>13. CASE release_cgroup_raises(d)  BY <1>13 DEF release_cgroup_raises, Ending, Stage
<1>14. CASE release_ephemeral_user(d)  BY <1>14 DEF release_ephemeral_user, Stage
<1>15. CASE release_user_fails(d)  BY <1>15 DEF release_user_fails, Ending, Stage
<1>16. CASE ChildStep(d)
  BY <1>16 DEF ChildStep, begin_body, child_ends, body_forks, stray_ends
<1> QED BY <1>1, <1>2, <1>3, <1>4, <1>5, <1>6, <1>7, <1>8, <1>9, <1>10, <1>11, <1>12,
           <1>13, <1>14, <1>15, <1>16 DEF BrokerStep

\* The invariant is inductive.
LEMMA NextInv == Inv /\ [Next]_vars => Inv'
<1> SUFFICES ASSUME Inv, [Next]_vars PROVE Inv'
  OBVIOUS
<1>1. TypeOK'
  BY TypeStep DEF Inv
<1>2. ASSUME NEW d \in Dispatches, BrokerStep(d) \/ ChildStep(d) PROVE Inv'
  BY <1>1, <1>2, DistinctStep, OwnerStep, StageStep, ReleaseStep DEF Inv
<1>3. CASE UNCHANGED vars
  BY <1>1, <1>3 DEF vars, Inv, Distinct, Owner, Stage, TryReleases, ReleaseRefused, Holds,
                    HasProcess, Name, Id
<1> QED BY <1>2, <1>3 DEF Next

\* So it holds always.
LEMMA Invariance == Spec => []Inv
  BY InitInv, NextInv, PTL DEF Spec

-----------------------------------------------------------------------------
(* Theorems.                                                               *)

\* passwd, the cgroup tree, the dispatches and the processes hold values of their kinds;
\* in particular _find_free_uid answers in the reserved range.
THEOREM TypeCorrectness == Spec => []TypeOK
<1>1. Inv => TypeOK  BY DEF Inv
<1> QED BY <1>1, Invariance, PTL

\* A uid identifies one execution, however many dispatches look for one at once and
\* whatever earlier executions left running.
THEOREM UidsIdentify == Spec => []UidIdentifiesExecution
<1>1. Inv => UidIdentifiesExecution
  <2> SUFFICES ASSUME Inv, NEW d \in Dispatches, NEW f \in Dispatches,
                      HasProcess(d), HasProcess(f), uid[d] = uid[f]
               PROVE  d = f
    BY DEF UidIdentifiesExecution
  <2>1. /\ users[Name(d)] = uid[d] /\ creator[Name(d)] = d
        /\ users[Name(f)] = uid[f] /\ creator[Name(f)] = f
        /\ uid[d] # None
    BY Constants DEF Inv, Owner
  <2>2. Name(d) = Name(f)
    BY <2>1, Constants DEF Inv, Distinct
  <2> QED BY <2>1, <2>2
<1> QED BY <1>1, Invariance, PTL

\* No dispatch deletes or replaces the user of another, even one of the same username.
THEOREM UsersKept == Spec => []UserKept
<1>1. Inv => UserKept  BY DEF Inv, Owner, UserKept
<1> QED BY <1>1, Invariance, PTL

\* artifact_code runs confined to the leaf of its own dispatch, under a user that exists.
THEOREM Confinement == Spec => []BodyConfined
<1>1. Inv => BodyConfined  BY DEF Inv, Owner, Stage, HasProcess, BodyConfined
<1> QED BY <1>1, Invariance, PTL

\* Every way out of the try block kills the child and releases what can be released.
THEOREM TryBlockReleases == Spec => []TryReleases
<1>1. Inv => TryReleases  BY DEF Inv
<1> QED BY <1>1, Invariance, PTL
=============================================================================
