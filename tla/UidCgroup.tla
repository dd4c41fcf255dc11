----------------------------- MODULE UidCgroup -----------------------------
(* UidCgroupBackend.run (siphonophore_core/execution_uid_cgroup.py):       *)
(* dispatches, from threads or brokers that share a uid range and a cgroup *)
(* root, each provision a user and a cgroup leaf, spawn a child that waits *)
(* on a pipe, confine it, release it, and release what they provisioned.   *)
(* The passwd database, the cgroup tree and the processes are what they    *)
(* share.                                                                  *)
(*                                                                         *)
(* A child may leave a process behind when it ends (a daemon), which keeps *)
(* its uid and its cgroup.  Each dispatch's pipe is its own; the broker    *)
(* outlives its dispatches.                                                *)
EXTENDS Integers, FiniteSets

CONSTANTS
  Dispatches,
  ExecutionIds, Usernames,
  ExecutionId,     \* decision.intent_id of a dispatch; a Decision can be executed twice
  Username,        \* "sipho-core-" and the first 8 characters of an execution id
  SafeIds,         \* execution ids that match _EXECUTION_ID_RE
  UidMin, UidMax,  \* the reserved range
  Forking,         \* dispatches whose artifact may start a process that outlives it
  None

ASSUME ExecutionIdAssumption == ExecutionId \in [Dispatches -> ExecutionIds]
ASSUME UsernameAssumption == Username \in [ExecutionIds -> Usernames]
ASSUME ForkingAssumption == Forking \subseteq Dispatches
ASSUME RangeAssumption == UidMin \in Nat /\ UidMax \in Nat
ASSUME NoneAssumption == None \notin Dispatches /\ None \notin Nat

Uids == UidMin .. UidMax
Id(d) == ExecutionId[d]
Name(d) == Username[Id(d)]

VARIABLES
  users,    \* passwd: the uid of each username, or None
  creator,  \* history: the dispatch whose useradd made that user, or None
  leaves,   \* cgroup leaves exec-<id>: the dispatch that made it, or None
  joined,   \* dispatches whose child was written to cgroup.procs of their leaf
  pc,       \* where run() is
  uid,      \* the uid _find_free_uid answered, or None
  synced,   \* dispatches that wrote the byte the child waits for
  child,    \* the child of each dispatch
  stray,    \* dispatches with a process that outlived the child
  outcome,  \* how run() ended, or is ending
  outlived  \* history: dispatches with a stray when their leaf was to be released

vars == <<users, creator, leaves, joined, pc, uid, synced, child, stray, outcome,
          outlived>>

passwd == <<users, creator>>
kernel == <<child, stray>>

Alive == {"blocked", "body"}
HasProcess(d) == child[d] \in Alive \/ d \in stray
Members(d) == {f \in joined : Id(f) = Id(d) /\ HasProcess(f)}

Goto(d, label) == pc' = [pc EXCEPT ![d] = label]
Ending(d, how) == outcome' = [outcome EXCEPT ![d] = how]

-----------------------------------------------------------------------------
(* Provisioning, before the try block.                                     *)

\* Mutant: the range is one too long.
FreeUids_one_more == (UidMin .. UidMax + 1) \ {users[n] : n \in Usernames}

FreeUids == Uids \ {users[n] : n \in Usernames}

\* An exception outside the try block: run() ends and releases nothing.
Escape(d) ==
  /\ Goto(d, "settled")
  /\ Ending(d, "ProvisioningError")

\* getpwall() is a snapshot: the answer may be taken by the time useradd runs.
find_free_uid(d) ==
  /\ pc[d] = "idle"
  /\ IF FreeUids = {}
       THEN Escape(d) /\ UNCHANGED uid
       ELSE /\ uid' = [uid EXCEPT ![d] = CHOOSE u \in FreeUids : \A v \in FreeUids : u <= v]
            /\ Goto(d, "picked")
            /\ UNCHANGED outcome
  /\ UNCHANGED <<passwd, leaves, joined, synced, kernel, outlived>>

\* Mutant: useradd -o, which takes a uid that exists.
useradd_non_unique(d) ==
  /\ pc[d] = "picked"
  /\ users[Name(d)] = None
  /\ users' = [users EXCEPT ![Name(d)] = uid[d]]
  /\ creator' = [creator EXCEPT ![Name(d)] = d]
  /\ Goto(d, "added")
  /\ UNCHANGED <<leaves, joined, uid, synced, kernel, outcome, outlived>>

\* useradd refuses a username or a uid that exists; getpwnam confirms what it made.
useradd(d) ==
  /\ pc[d] = "picked"
  /\ users[Name(d)] = None
  /\ uid[d] \in FreeUids
  /\ users' = [users EXCEPT ![Name(d)] = uid[d]]
  /\ creator' = [creator EXCEPT ![Name(d)] = d]
  /\ Goto(d, "added")
  /\ UNCHANGED <<leaves, joined, uid, synced, kernel, outcome, outlived>>

\* Mutant: the exit status of useradd is ignored.
useradd_fails_ignored(d) ==
  /\ pc[d] = "picked"
  /\ Goto(d, "added")
  /\ UNCHANGED <<passwd, leaves, joined, uid, synced, kernel, outcome, outlived>>

\* It fails for those reasons, or because another holds the passwd lock.
useradd_fails(d) ==
  /\ pc[d] = "picked"
  /\ Escape(d)
  /\ UNCHANGED <<passwd, leaves, joined, uid, synced, kernel, outlived>>

provision_cgroup(d) ==
  /\ pc[d] = "added"
  /\ Id(d) \in SafeIds
  /\ leaves[Id(d)] = None
  /\ leaves' = [leaves EXCEPT ![Id(d)] = d]
  /\ Goto(d, "leafed")
  /\ UNCHANGED <<passwd, joined, uid, synced, kernel, outcome, outlived>>

\* An unsafe id, a leaf that exists, or mkdir refused by the filesystem.
provision_cgroup_fails(d) ==
  /\ pc[d] = "added"
  /\ Escape(d)
  /\ UNCHANGED <<passwd, leaves, joined, uid, synced, kernel, outlived>>

\* os.pipe() finds no descriptor.
open_pipe_fails(d) ==
  /\ pc[d] = "leafed"
  /\ Escape(d)
  /\ UNCHANGED <<passwd, leaves, joined, uid, synced, kernel, outlived>>

-----------------------------------------------------------------------------
(* The try block.                                                          *)

\* os.pipe, then Popen: the child drops to its uid and waits for the byte.
spawn(d) ==
  /\ pc[d] = "leafed"
  /\ child' = [child EXCEPT ![d] = "blocked"]
  /\ Goto(d, "spawned")
  /\ UNCHANGED <<passwd, leaves, joined, uid, synced, stray, outcome, outlived>>

\* add_pid_to_cgroup, then read_real_uid_from_proc and read_cgroup_procs.
add_pid_to_cgroup(d) ==
  /\ pc[d] = "spawned"
  /\ child[d] \in Alive
  /\ joined' = joined \cup {d}
  /\ Goto(d, "confined")
  /\ UNCHANGED <<passwd, leaves, uid, synced, kernel, outcome, outlived>>

\* Mutant: the child is released before it is confined.
release_child_early(d) ==
  /\ pc[d] \in {"spawned", "confined"}
  /\ child[d] \in Alive
  /\ synced' = synced \cup {d}
  /\ Goto(d, "communicating")
  /\ UNCHANGED <<passwd, leaves, joined, uid, kernel, outcome, outlived>>

release_child(d) ==
  /\ pc[d] = "confined"
  /\ child[d] \in Alive
  /\ synced' = synced \cup {d}
  /\ Goto(d, "communicating")
  /\ UNCHANGED <<passwd, leaves, joined, uid, kernel, outcome, outlived>>

\* The way out of the try block: the inner finally kills a child still alive.
Leave(d, how) ==
  /\ Ending(d, how)
  /\ child' = [child EXCEPT ![d] = IF @ \in Alive THEN "killed" ELSE @]
  /\ Goto(d, "release_cgroup")
  /\ UNCHANGED <<passwd, leaves, joined, uid, synced, stray, outlived>>

\* Popen, cgroup.procs, /proc or the pipe raises.
try_raises(d) ==
  /\ pc[d] \in {"leafed", "spawned", "confined"}
  /\ Leave(d, "raised")

\* Mutant: communicate() without a timeout.
communicate_unbounded(d) ==
  /\ pc[d] = "communicating"
  /\ \/ child[d] = "exited" /\ Leave(d, "effect")
     \/ child[d] = "failed" /\ Leave(d, "ExecutionError")

\* communicate(timeout=10) waits for the child, and for whatever holds its output.
communicate(d) ==
  /\ pc[d] = "communicating"
  /\ \/ child[d] = "exited" /\ Leave(d, "effect")
     \/ child[d] = "failed" /\ Leave(d, "ExecutionError")
     \/ HasProcess(d) /\ Leave(d, "TimeoutExpired")

-----------------------------------------------------------------------------
(* The outer finally.                                                      *)

\* Mutant: the leaf is released after a success only.
release_cgroup_of_success(d) ==
  /\ pc[d] = "release_cgroup"
  /\ leaves' = IF Members(d) = {} /\ outcome[d] = "effect"
                 THEN [leaves EXCEPT ![Id(d)] = None] ELSE leaves
  /\ outlived' = IF d \in stray THEN outlived \cup {d} ELSE outlived
  /\ Goto(d, "release_user")
  /\ UNCHANGED <<passwd, joined, uid, synced, kernel, outcome>>

\* With live members it raises ProvisioningError, which run() swallows.
release_cgroup(d) ==
  /\ pc[d] = "release_cgroup"
  /\ leaves' = IF Members(d) = {} THEN [leaves EXCEPT ![Id(d)] = None] ELSE leaves
  /\ outlived' = IF d \in stray THEN outlived \cup {d} ELSE outlived
  /\ Goto(d, "release_user")
  /\ UNCHANGED <<passwd, joined, uid, synced, kernel, outcome>>

\* cgroup.procs or rmdir raises OSError, which run() lets through: the user is not
\* released either.
release_cgroup_raises(d) ==
  /\ pc[d] = "release_cgroup"
  /\ Ending(d, "OSError")
  /\ Goto(d, "settled")
  /\ UNCHANGED <<passwd, leaves, joined, uid, synced, kernel, outlived>>

\* userdel refuses a user that some process runs as.
InUse(n) == \E f \in Dispatches : uid[f] = users[n] /\ HasProcess(f)

release_ephemeral_user(d) ==
  /\ pc[d] = "release_user"
  /\ ~InUse(Name(d))
  /\ users' = [users EXCEPT ![Name(d)] = None]
  /\ creator' = [creator EXCEPT ![Name(d)] = None]
  /\ Goto(d, "settled")
  /\ UNCHANGED <<leaves, joined, uid, synced, kernel, outcome, outlived>>

\* Refused, or the passwd lock is held: ProvisioningError replaces what run() had.
release_user_fails(d) ==
  /\ pc[d] = "release_user"
  /\ Ending(d, "UserNotReleased")
  /\ Goto(d, "settled")
  /\ UNCHANGED <<passwd, leaves, joined, uid, synced, kernel, outlived>>

-----------------------------------------------------------------------------
(* The child: _CHILD_WRAPPER, then artifact_code.                          *)

begin_body(d) ==
  /\ child[d] = "blocked"
  /\ d \in synced
  /\ child' = [child EXCEPT ![d] = "body"]
  /\ UNCHANGED <<passwd, leaves, joined, pc, uid, synced, stray, outcome, outlived>>

child_ends(d) ==
  /\ child[d] \in Alive
  /\ \/ child' = [child EXCEPT ![d] = "failed"]
     \/ child[d] = "body" /\ child' = [child EXCEPT ![d] = "exited"]
  /\ UNCHANGED <<passwd, leaves, joined, pc, uid, synced, stray, outcome, outlived>>

\* artifact_code starts a process that will outlive it.
body_forks(d) ==
  /\ child[d] = "body"
  /\ d \in Forking \ stray
  /\ stray' = stray \cup {d}
  /\ UNCHANGED <<passwd, leaves, joined, pc, uid, synced, child, outcome, outlived>>

stray_ends(d) ==
  /\ d \in stray
  /\ stray' = stray \ {d}
  /\ UNCHANGED <<passwd, leaves, joined, pc, uid, synced, child, outcome, outlived>>

-----------------------------------------------------------------------------

Init ==
  /\ users = [n \in Usernames |-> None]
  /\ creator = [n \in Usernames |-> None]
  /\ leaves = [i \in ExecutionIds |-> None]
  /\ joined = {}
  /\ pc = [d \in Dispatches |-> "idle"]
  /\ uid = [d \in Dispatches |-> None]
  /\ synced = {}
  /\ child = [d \in Dispatches |-> "none"]
  /\ stray = {}
  /\ outcome = [d \in Dispatches |-> "none"]
  /\ outlived = {}

BrokerStep(d) ==
  \/ find_free_uid(d)
  \/ useradd(d)
  \/ useradd_fails(d)
  \/ provision_cgroup(d)
  \/ provision_cgroup_fails(d)
  \/ open_pipe_fails(d)
  \/ spawn(d)
  \/ add_pid_to_cgroup(d)
  \/ release_child(d)
  \/ try_raises(d)
  \/ communicate(d)
  \/ release_cgroup(d)
  \/ release_cgroup_raises(d)
  \/ release_ephemeral_user(d)
  \/ release_user_fails(d)

ChildStep(d) ==
  \/ begin_body(d)
  \/ child_ends(d)
  \/ body_forks(d)
  \/ stray_ends(d)

Next == \E d \in Dispatches : BrokerStep(d) \/ ChildStep(d)

Spec == Init /\ [][Next]_vars

\* run() keeps running once it is called; its one unbounded wait has a timeout.
FairSpec ==
  Spec /\ \A d \in Dispatches : WF_vars(pc[d] # "idle" /\ BrokerStep(d))

-----------------------------------------------------------------------------
(* Properties.                                                             *)

TypeOK ==
  /\ users \in [Usernames -> Uids \cup {None}]
  /\ creator \in [Usernames -> Dispatches \cup {None}]
  /\ leaves \in [ExecutionIds -> Dispatches \cup {None}]
  /\ joined \subseteq Dispatches
  /\ pc \in [Dispatches -> {"idle", "picked", "added", "leafed", "spawned",
                            "confined", "communicating", "release_cgroup", "release_user", "settled"}]
  /\ uid \in [Dispatches -> Uids \cup {None}]
  /\ synced \subseteq Dispatches
  /\ child \in [Dispatches -> Alive \cup {"none", "exited", "failed", "killed"}]
  /\ stray \subseteq Dispatches
  /\ outcome \in [Dispatches -> {"none", "ProvisioningError", "raised", "effect",
                                 "ExecutionError", "TimeoutExpired", "OSError", "UserNotReleased"}]
  /\ outlived \subseteq Dispatches

\* Between useradd and userdel.
Holds(d) == pc[d] \notin {"idle", "picked", "settled"}

\* Two dispatches never have processes under one uid, although picking a uid and
\* creating its user are two steps: a uid identifies one execution.
UidIdentifiesExecution ==
  \A d, f \in Dispatches :
    d # f /\ HasProcess(d) /\ HasProcess(f) => uid[d] # uid[f]

\* While a dispatch is between useradd and userdel the user it made exists with the uid
\* it was given; no other dispatch, one of the same username included, deletes or
\* replaces it.
UserKept ==
  \A d \in Dispatches : Holds(d) =>
    users[Name(d)] = uid[d] /\ creator[Name(d)] = d

\* artifact_code runs only inside the leaf its own dispatch made, under a uid whose
\* user still exists ("confirms real cgroup membership", execution_uid_cgroup.py:5).
BodyConfined ==
  \A d \in Dispatches : child[d] = "body" =>
    /\ d \in joined
    /\ leaves[Id(d)] = d
    /\ users[Name(d)] = uid[d]

\* The operating system refused the release itself.
ReleaseRefused(d) == outcome[d] \in {"OSError", "UserNotReleased"}

\* Once the try block is entered, every way out kills the child and releases the leaf,
\* unless a process the dispatch's own artifact started was still alive when the leaf was
\* to be removed, and the user; or the operating system refused.
TryReleases ==
  \A d \in Dispatches :
    pc[d] = "settled" /\ outcome[d] # "ProvisioningError" =>
      /\ child[d] \notin Alive
      /\ leaves[Id(d)] = d => d \in outlived \/ outcome[d] = "OSError"
      /\ creator[Name(d)] = d => ReleaseRefused(d)

\* A call of run() returns or raises, whatever the artifact does.
Settles == \A d \in Dispatches : pc[d] = "picked" ~> pc[d] = "settled"

\* execution_uid_cgroup.py:5: "releases both on every exit path".  A process left
\* behind, or a refused release, is not held against it.
ReleasesOnEveryExit ==
  \A d \in Dispatches :
    pc[d] = "settled" /\ d \notin outlived /\ ~ReleaseRefused(d) =>
      creator[Name(d)] # d /\ leaves[Id(d)] # d
=============================================================================
