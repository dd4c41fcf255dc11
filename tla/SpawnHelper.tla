---------------------------- MODULE SpawnHelper ----------------------------
(* siphonophore-spawn (spawn_helper/siphonophore-spawn.c), the root helper *)
(* that makes a cgroup leaf, joins it, drops to the provisioned uid and    *)
(* execs bootstrap.py, together with the two backends that invoke it:      *)
(* SpawnHelperBackend.run and CheckedInSpawnHelperBackend.run.             *)
(*                                                                         *)
(* The helper, the bootstrap it execs and the artifact body are one        *)
(* process; an alarm may interrupt the helper between any two of its       *)
(* steps.  Provisioning is one step here (its race is UidCgroup's subject) *)
(* and the registry's lock is Checkin's; what the artifact forks is left   *)
(* out.                                                                    *)
EXTENDS Integers, FiniteSets

CONSTANTS
  Dispatches,
  ExecutionIds, Usernames,
  ExecutionId,   \* decision.intent_id of a dispatch; a Decision can be executed twice
  Username,      \* "sipho-core-" and the first 8 characters of an execution id
  UidRange,      \* the uids the backend of a dispatch provisions from
  HelperUids,    \* UID_MIN .. UID_MAX, compiled into the helper
  Checked,       \* dispatches through CheckedInSpawnHelperBackend
  Unprivileged,  \* dispatches of a broker that is not root: sudo runs the helper
  Oversized,     \* dispatches with more source or payload than the helper accepts
  IdLength,      \* the length of an execution id
  SafeLength,    \* how many of its characters, from the first, are in [A-Za-z0-9_-]
  EscapedIds,    \* execution ids json.dumps writes with an escape
  None

ASSUME ExecutionIdAssumption == ExecutionId \in [Dispatches -> ExecutionIds]
ASSUME UsernameAssumption == Username \in [ExecutionIds -> Usernames]
ASSUME UidRangeAssumption ==
  /\ UidRange \in [Dispatches -> SUBSET Nat]
  /\ HelperUids \subseteq Nat
  \* SpawnHelperBackend.__init__ refuses a range the helper would; the other does not look.
  /\ \A d \in Dispatches \ Checked : UidRange[d] \subseteq HelperUids
ASSUME LengthAssumption ==
  IdLength \in [ExecutionIds -> Nat] /\ SafeLength \in [ExecutionIds -> Nat]
ASSUME NoneAssumption == None \notin Dispatches /\ None \notin Nat

Id(d) == ExecutionId[d]
Name(d) == Username[Id(d)]

VARIABLES
  users,     \* passwd: the uid of each username, or None
  leaves,    \* cgroup leaves exec-<id>: the dispatch whose helper made it, or None
  joined,    \* dispatches whose helper process is in the leaf of its id
  pc,        \* where run() is
  uid,       \* the uid provisioned for a dispatch, or None
  pending,   \* registrations of CheckinRegistry, by dispatch
  verified,  \* dispatches whose process was answered "1"
  outcome,   \* how run() ended, or is ending
  stage,     \* where the helper process is
  target,    \* pw_uid of the getpwnam lookup, or None
  created,   \* g_cleanup.cgroup_created of each helper
  root,      \* dispatches whose helper has not dropped privilege
  armed,     \* dispatches whose alarm is pending
  code,      \* the exit status the process ended, or is ending, with
  spawned,   \* history: dispatches whose execve succeeded
  again      \* history: dispatches whose cleanup was entered twice

broker == <<users, pc, uid, outcome>>
registry == <<pending, verified>>
cgroups == <<leaves, joined>>
helper == <<stage, target, created, root, armed, code, spawned, again>>
vars == <<broker, registry, cgroups, helper>>

Ended == {"exited", "killed"}
Reading == {"started", "found", "made", "leafed", "joined", "sealed"}  \* stdin not drained yet
Working == Reading \cup {"received", "dropped"}
Cleaning == {"failing", "cleaned"}
HasProcess(d) == stage[d] \notin Ended \cup {"none"}
Members(id) == {d \in joined : Id(d) = id /\ HasProcess(d)}

Goto(d, label) == pc' = [pc EXCEPT ![d] = label]
Ending(d, how) == outcome' = [outcome EXCEPT ![d] = how]
Enter(d, label) == stage' = [stage EXCEPT ![d] = label]

-----------------------------------------------------------------------------
(* The helper, from main().                                                *)

\* fail(): the status is decided, the cleanup is still to do.
Fail(d, status) ==
  /\ Enter(d, "failing")
  /\ code' = [code EXCEPT ![d] = status]

\* parse_envelope wants each of seven keys once, as the backends send them; its strings
\* have no escapes and fit 63 bytes.
parse_envelope(d) == Id(d) \notin EscapedIds /\ IdLength[Id(d)] <= 63

\* The backends' usernames have the prefix; the suffix is the id's first 8 characters.
valid_username(d) ==
  LET suffix == IF IdLength[Id(d)] < 8 THEN IdLength[Id(d)] ELSE 8
  IN suffix >= 1 /\ SafeLength[Id(d)] >= suffix

valid_execution_id(d) ==
  IdLength[Id(d)] \in 1 .. 63 /\ SafeLength[Id(d)] = IdLength[Id(d)]

\* What the envelope alone is refused for, in the order it is looked at; 0 accepts it.
\* The backends send version 1.
Refusal(d) ==
  IF ~ parse_envelope(d) THEN 13
  ELSE IF d \in Oversized THEN 14
  ELSE IF uid[d] \notin HelperUids \/ ~ valid_username(d) \/ ~ valid_execution_id(d) THEN 17
  ELSE 0

\* The header line is read and parsed, checked, and its user looked up in passwd.
identify(d) ==
  /\ stage[d] = "started"
  /\ CASE Refusal(d) # 0 -> Fail(d, Refusal(d)) /\ UNCHANGED target
       [] Refusal(d) = 0 /\ users[Name(d)] # uid[d] -> Fail(d, 17) /\ UNCHANGED target
       [] OTHER -> /\ target' = [target EXCEPT ![d] = users[Name(d)]]
                   /\ Enter(d, "found")
                   /\ UNCHANGED code
  /\ UNCHANGED <<broker, registry, cgroups, created, root, armed, spawned, again>>

\* Mutant: mkdir -p, which takes a leaf that exists.
make_leaf_exist_ok(d) ==
  /\ stage[d] = "found"
  /\ leaves' = [leaves EXCEPT ![Id(d)] = IF @ = None THEN d ELSE @]
  /\ Enter(d, "made")
  /\ UNCHANGED code
  /\ UNCHANGED <<broker, registry, joined, target, created, root, armed, spawned, again>>

\* mkdir is the one-shot test: an id whose leaf exists was consumed.
make_leaf(d) ==
  /\ stage[d] = "found"
  /\ IF leaves[Id(d)] = None
       THEN /\ leaves' = [leaves EXCEPT ![Id(d)] = d]
            /\ Enter(d, "made")
            /\ UNCHANGED code
       ELSE Fail(d, 23) /\ UNCHANGED leaves
  /\ UNCHANGED <<broker, registry, joined, target, created, root, armed, spawned, again>>

\* Only from here does a failure remove the leaf.
remember_leaf(d) ==
  /\ stage[d] = "made"
  /\ created' = created \cup {d}
  /\ Enter(d, "leafed")
  /\ UNCHANGED <<broker, registry, cgroups, target, root, armed, code, spawned, again>>

\* cgroup.procs is opened by the leaf's path, whichever helper made what is there.
join_leaf(d) ==
  /\ stage[d] = "leafed"
  /\ IF leaves[Id(d)] # None
       THEN joined' = joined \cup {d} /\ Enter(d, "joined") /\ UNCHANGED code
       ELSE Fail(d, 1) /\ UNCHANGED joined
  /\ UNCHANGED <<broker, registry, leaves, target, created, root, armed, spawned, again>>

\* Source and payload, each as long as declared, are read into memfds and sealed.
seal_and_expose(d) ==
  /\ stage[d] = "joined"
  /\ Enter(d, "sealed")
  /\ UNCHANGED <<broker, registry, cgroups, target, created, root, armed, code, spawned, again>>

\* The nonce goes to a pipe of the helper's own, stdin ends, the environment is built.
finish_stdin(d) ==
  /\ stage[d] = "sealed"
  /\ Enter(d, "received")
  /\ UNCHANGED <<broker, registry, cgroups, target, created, root, armed, code, spawned, again>>

\* setgroups, setgid, setuid, and the attempt to be root again, which must fail.
drop_privilege(d) ==
  /\ stage[d] = "received"
  /\ root' = root \ {d}
  /\ Enter(d, "dropped")
  /\ UNCHANGED <<broker, registry, cgroups, target, created, armed, code, spawned, again>>

\* A header, a descriptor, a read or a system call fails; which one only names the status.
fails(d) ==
  /\ stage[d] \in Working \ {"made"}
  /\ Fail(d, 1)
  /\ UNCHANGED <<broker, registry, cgroups, target, created, root, armed, spawned, again>>

\* The descriptors are closed, alarm(0), execve.
exec_bootstrap(d) ==
  /\ stage[d] = "dropped"
  /\ armed' = armed \ {d}
  /\ spawned' = spawned \cup {d}
  /\ Enter(d, "bootstrap")
  /\ UNCHANGED <<broker, registry, cgroups, target, created, root, code, again>>

\* execve returns: _exit, with no cleanup.
exec_fails(d) ==
  /\ stage[d] = "dropped"
  /\ armed' = armed \ {d}
  /\ code' = [code EXCEPT ![d] = 1]
  /\ Enter(d, "exited")
  /\ UNCHANGED <<broker, registry, cgroups, target, created, root, spawned, again>>

\* Mutant: the handler exits at once.
on_timeout_exits(d) ==
  /\ d \in armed
  /\ stage[d] \in Working \cup Cleaning
  /\ armed' = armed \ {d}
  /\ Enter(d, "exited")
  /\ code' = [code EXCEPT ![d] = 21]
  /\ UNCHANGED <<broker, registry, cgroups, target, created, root, spawned, again>>

\* on_timeout: one alarm, wherever the helper is, its own cleanup included.
on_timeout(d) ==
  /\ d \in armed
  /\ stage[d] \in Working \cup Cleaning
  /\ armed' = armed \ {d}
  /\ Fail(d, 21)
  /\ again' = IF stage[d] \in Cleaning THEN again \cup {d} ELSE again
  /\ UNCHANGED <<broker, registry, cgroups, target, created, root, spawned>>

\* The helper moves to the parent cgroup, if the write succeeds, and removes the leaf by
\* its path; rmdir is refused while the leaf has a member, and both without root.
cleanup_before_exit(d) ==
  /\ stage[d] = "failing"
  /\ Enter(d, "cleaned")
  /\ IF d \in created \cap root
       THEN /\ joined' \in {joined, joined \ {d}}
            /\ leaves' = IF Members(Id(d)) \cap joined' = {}
                           THEN [leaves EXCEPT ![Id(d)] = None] ELSE leaves
       ELSE UNCHANGED cgroups
  /\ UNCHANGED <<broker, registry, target, created, root, armed, code, spawned, again>>

exit(d) ==
  /\ stage[d] = "cleaned"
  /\ Enter(d, "exited")
  /\ armed' = armed \ {d}
  /\ UNCHANGED <<broker, registry, cgroups, target, created, root, code, spawned, again>>

-----------------------------------------------------------------------------
(* bootstrap.py and what it runs.                                          *)

\* Mutant: the answer of perform_checkin is not looked at.
bootstrap_main_unchecked(d) ==
  /\ stage[d] = "bootstrap"
  /\ Enter(d, "body")
  /\ UNCHANGED <<broker, registry, cgroups, target, created, root, armed, code, spawned, again>>

\* The wrapper of a checked-in dispatch presents its nonce before the body; the
\* registry also compares the peer's uid, and answers a registration once.
bootstrap_main(d) ==
  /\ stage[d] = "bootstrap"
  /\ IF d \in Checked
       THEN IF d \in pending /\ target[d] = uid[d]
              THEN verified' = verified \cup {d} /\ Enter(d, "body") /\ UNCHANGED code
              ELSE /\ Enter(d, "exited")
                   /\ code' = [code EXCEPT ![d] = 97]
                   /\ UNCHANGED verified
       ELSE Enter(d, "body") /\ UNCHANGED <<verified, code>>
  /\ UNCHANGED <<broker, pending, cgroups, target, created, root, armed, spawned, again>>

\* The source does not compile, or the listener cannot be reached.
bootstrap_fails(d) ==
  /\ stage[d] = "bootstrap"
  /\ Enter(d, "exited")
  /\ code' = [code EXCEPT ![d] = 1]
  /\ UNCHANGED <<broker, registry, cgroups, target, created, root, armed, spawned, again>>

body_ends(d) ==
  /\ stage[d] = "body"
  /\ Enter(d, "exited")
  /\ \E status \in {0, 1} : code' = [code EXCEPT ![d] = status]
  /\ UNCHANGED <<broker, registry, cgroups, target, created, root, armed, spawned, again>>

-----------------------------------------------------------------------------
(* run(), of both backends.                                                *)

FreeUids(d) == UidRange[d] \ {users[n] : n \in Usernames}

\* provision_ephemeral_user: the lowest free uid, for a username that is free.
provision(d) ==
  /\ pc[d] = "idle"
  /\ users[Name(d)] = None
  /\ \E u \in FreeUids(d) :
       /\ \A v \in FreeUids(d) : u <= v
       /\ users' = [users EXCEPT ![Name(d)] = u]
       /\ uid' = [uid EXCEPT ![d] = u]
  /\ Goto(d, "provisioned")
  /\ UNCHANGED <<registry, cgroups, helper, outcome>>

\* Its ProvisioningError is raised before the try block.
provision_fails(d) ==
  /\ pc[d] = "idle"
  /\ Goto(d, "settled")
  /\ Ending(d, "ProvisioningError")
  /\ UNCHANGED <<registry, cgroups, helper, users, uid>>

\* Mutant: the helper sets no alarm.
launch_unarmed(d) ==
  /\ pc[d] = "provisioned"
  /\ Goto(d, "waiting")
  /\ pending' = IF d \in Checked THEN pending \cup {d} ELSE pending
  /\ Enter(d, "started")
  /\ root' = root \cup {d}
  /\ UNCHANGED <<users, uid, outcome, verified, cgroups, target, created, armed, code, spawned, again>>

\* The nonce is registered, the helper started; its alarm is its first call.
launch(d) ==
  /\ pc[d] = "provisioned"
  /\ Goto(d, "waiting")
  /\ pending' = IF d \in Checked THEN pending \cup {d} ELSE pending
  /\ Enter(d, "started")
  /\ root' = root \cup {d}
  /\ armed' = armed \cup {d}
  /\ UNCHANGED <<users, uid, outcome, verified, cgroups, target, created, code, spawned, again>>

\* Popen raises; a registration stays behind.
launch_fails(d) ==
  /\ pc[d] = "provisioned"
  /\ Goto(d, "releasing")
  /\ Ending(d, "OSError")
  /\ pending' = IF d \in Checked THEN pending \cup {d} ELSE pending
  /\ UNCHANGED <<users, uid, verified, cgroups, helper>>

\* Mutant: subprocess.run with check=True.
Returned_check(d) == IF stage[d] = "exited" /\ code[d] = 0 THEN "effect" ELSE "CalledProcessError"

Returned(d) == IF stage[d] = "exited" /\ code[d] = 0 THEN "effect" ELSE "ExecutionError"

\* subprocess.run answered.
run_returns(d) ==
  /\ pc[d] = "waiting" /\ d \notin Checked
  /\ stage[d] \in Ended
  /\ Ending(d, Returned(d))
  /\ Goto(d, "releasing")
  /\ UNCHANGED <<users, uid, registry, cgroups, helper>>

\* proc.kill(): sudo's process is root's, a broker that is not may not signal it.
Kill(d) == IF d \in Unprivileged THEN UNCHANGED stage ELSE Enter(d, "killed")

\* Mutant: the timeout waits for the process and does not kill it.
run_times_out_waits(d) ==
  /\ pc[d] = "waiting" /\ d \notin Checked
  /\ HasProcess(d) /\ d \notin armed
  /\ Ending(d, "ExecutionError")
  /\ Goto(d, "reaping")
  /\ UNCHANGED <<users, uid, registry, cgroups, helper>>

\* The 30 seconds of subprocess.run are longer than the helper's 20.  It kills what it
\* started and waits; a kill that is refused raises PermissionError, after a wait
\* that has no bound.
run_times_out(d) ==
  /\ pc[d] = "waiting" /\ d \notin Checked
  /\ HasProcess(d) /\ d \notin armed
  /\ Kill(d)
  /\ Ending(d, IF d \in Unprivileged THEN "PermissionError" ELSE "ExecutionError")
  /\ Goto(d, "reaping")
  /\ UNCHANGED <<users, uid, registry, cgroups, target, created, root, armed, code, spawned, again>>

reaped(d) ==
  /\ pc[d] = "reaping"
  /\ stage[d] \in Ended
  /\ Goto(d, "releasing")
  /\ UNCHANGED <<users, uid, outcome, registry, cgroups, helper>>

\* wait_for_result: the event was set.
checkin_event(d) ==
  /\ pc[d] = "waiting" /\ d \in verified
  /\ pending' = pending \ {d}
  /\ Goto(d, "reading")
  /\ UNCHANGED <<users, uid, outcome, verified, cgroups, helper>>

\* It was not within checkin_timeout; the registration is popped under the lock later.
checkin_expires(d) ==
  /\ pc[d] = "waiting" /\ d \in Checked \ verified
  /\ Goto(d, "expired")
  /\ UNCHANGED <<users, uid, outcome, registry, cgroups, helper>>

checkin_popped(d) ==
  /\ pc[d] = "expired"
  /\ pending' = pending \ {d}
  /\ Goto(d, "unverified")
  /\ UNCHANGED <<users, uid, outcome, verified, cgroups, helper>>

\* The writer still owns stdin after writer.join, or the check-in failed: what still
\* runs is killed, and a kill that is refused raises out of the try block.
checkin_failed(d) ==
  /\ pc[d] = "unverified"
  /\ IF HasProcess(d) THEN Kill(d) ELSE UNCHANGED stage
  /\ CASE HasProcess(d) /\ d \in Unprivileged -> Ending(d, "PermissionError")
       [] stage[d] \in Reading /\ ~(HasProcess(d) /\ d \in Unprivileged) ->
            outcome' \in {[outcome EXCEPT ![d] = how] :
                            how \in {"ExecutionError", "CheckinFailedError"}}
       [] OTHER -> Ending(d, "CheckinFailedError")
  /\ Goto(d, "releasing")
  /\ UNCHANGED <<users, uid, registry, cgroups, target, created, root, armed, code, spawned, again>>

\* proc.communicate of a verified dispatch answered; or its 10 seconds passed, which
\* kills nothing.  After exit 0 the output is read and the ground truth collected: a report
\* that is not a JSON object, or an outdir that cannot be read, raises.
read_output(d) ==
  /\ pc[d] = "reading"
  /\ \/ Ending(d, IF stage[d] \in Ended THEN Returned(d) ELSE "TimeoutExpired")
     \/ Returned(d) = "effect" /\ Ending(d, "raised")
  /\ Goto(d, "releasing")
  /\ UNCHANGED <<users, uid, registry, cgroups, helper>>

\* userdel is refused while a process runs as that uid; one that is still root does not.
release(d) ==
  /\ pc[d] = "releasing"
  /\ ~ \E f \in Dispatches : HasProcess(f) /\ f \notin root /\ target[f] = users[Name(d)]
  /\ users' = [users EXCEPT ![Name(d)] = None]
  /\ Goto(d, "settled")
  /\ UNCHANGED <<uid, outcome, registry, cgroups, helper>>

\* For that reason or another: the error replaces what run() was ending with.
release_fails(d) ==
  /\ pc[d] = "releasing"
  /\ Goto(d, "settled")
  /\ Ending(d, "ProvisioningError")
  /\ UNCHANGED <<users, uid, registry, cgroups, helper>>

-----------------------------------------------------------------------------
Init ==
  /\ users = [n \in Usernames |-> None]
  /\ leaves = [i \in ExecutionIds |-> None]
  /\ joined = {}
  /\ pc = [d \in Dispatches |-> "idle"]
  /\ uid = [d \in Dispatches |-> None]
  /\ pending = {} /\ verified = {}
  /\ outcome = [d \in Dispatches |-> "none"]
  /\ stage = [d \in Dispatches |-> "none"]
  /\ target = [d \in Dispatches |-> None]
  /\ created = {} /\ root = {} /\ armed = {}
  /\ code = [d \in Dispatches |-> 0]
  /\ spawned = {} /\ again = {}

\* Steps that wait for nobody.
HelperStep(d) ==
  \/ make_leaf(d) \/ remember_leaf(d) \/ join_leaf(d) \/ drop_privilege(d)
  \/ exec_bootstrap(d) \/ exec_fails(d) \/ cleanup_before_exit(d) \/ exit(d)

ProcessStep(d) ==
  \/ identify(d) \/ seal_and_expose(d) \/ finish_stdin(d) \/ fails(d)
  \/ bootstrap_main(d) \/ bootstrap_fails(d) \/ body_ends(d)

BrokerStep(d) ==
  \/ launch(d) \/ launch_fails(d) \/ run_returns(d) \/ run_times_out(d) \/ reaped(d)
  \/ checkin_event(d) \/ checkin_expires(d) \/ checkin_popped(d) \/ checkin_failed(d)
  \/ read_output(d) \/ release(d) \/ release_fails(d)

Next ==
  \E d \in Dispatches :
    \/ provision(d) \/ provision_fails(d)
    \/ BrokerStep(d) \/ HelperStep(d) \/ ProcessStep(d) \/ on_timeout(d)

Spec == Init /\ [][Next]_vars

\* A helper that waits for nobody goes on, its alarm goes off, and a broker's thread
\* runs.  Nothing is assumed of what arrives on stdin, of bootstrap or of the body.
FairSpec ==
  Spec /\ \A d \in Dispatches :
            WF_vars(HelperStep(d)) /\ WF_vars(on_timeout(d)) /\ WF_vars(BrokerStep(d))
-----------------------------------------------------------------------------
(* Properties.                                                             *)

TypeOK ==
  /\ users \in [Usernames -> Nat \cup {None}]
  /\ leaves \in [ExecutionIds -> Dispatches \cup {None}]
  /\ joined \subseteq Dispatches
  /\ pc \in [Dispatches -> {"idle", "provisioned", "waiting", "reaping", "expired",
                            "unverified", "reading", "releasing", "settled"}]
  /\ uid \in [Dispatches -> Nat \cup {None}]
  /\ pending \subseteq Dispatches /\ verified \subseteq Dispatches
  /\ outcome \in [Dispatches -> {"none", "effect", "ProvisioningError", "ExecutionError",
                    "CheckinFailedError", "OSError", "PermissionError", "TimeoutExpired",
                    "raised"}]
  /\ stage \in [Dispatches -> Working \cup Cleaning \cup Ended
                              \cup {"none", "bootstrap", "body"}]
  /\ target \in [Dispatches -> Nat \cup {None}]
  /\ created \subseteq Dispatches /\ root \subseteq Dispatches
  /\ armed \subseteq Dispatches
  /\ code \in [Dispatches -> {0, 1, 13, 14, 17, 21, 23, 97}]
  /\ spawned \subseteq Dispatches /\ again \subseteq Dispatches

\* An alarm caught a helper of that id in its own cleanup, which then ran twice: its
\* second rmdir goes by path, and may take what a later helper made.
Reentered(id) == \E f \in again : Id(f) = id

\* "for a given execution_id, the helper permits at most one successful spawn"
\* (contracts/spawn_helper.md:169), from however many invocations, of however many
\* brokers, in any order with the cleanups of those that failed: and the id stays
\* consumed.  Only a re-entered cleanup of the same id can undo it.
OneSpawn ==
  \A d \in spawned : ~ Reentered(Id(d)) =>
    /\ leaves[Id(d)] = d
    /\ \A e \in spawned : Id(e) = Id(d) => e = d

\* When bootstrap or the body runs, "all of the above has completed successfully"
\* (contracts/spawn_helper.md:295): the process is in a leaf of its own id that still
\* exists, runs as the uid that was provisioned for it, and its alarm is off.  No
\* cleanup, of its own helper or of another of the same id, takes the leaf away.  And
\* the body's uid is the one passwd still gives to its username, though run() may have
\* ended (a refused kill, a TimeoutExpired) and released what it could: a late helper
\* whose uid was given away never gets past the check-in.
ConfinedBeforeCode ==
  \A d \in Dispatches : stage[d] \in {"bootstrap", "body"} =>
    /\ d \in joined /\ leaves[Id(d)] # None
    /\ d \notin root /\ target[d] = uid[d]
    /\ d \notin armed
    /\ stage[d] = "body" => users[Name(d)] = target[d]

\* A leaf outlives a helper that never spawned only where the helper cannot undo it:
\* it was killed, the alarm fell between mkdir and the flag, privilege was already
\* gone (execve failed), the move to the parent failed, or a cleanup was re-entered.
\* contracts/spawn_helper.md:308 says no such exit path exists.
LeafReleased ==
  \A id \in ExecutionIds : \A d \in Dispatches :
    leaves[id] = d /\ stage[d] \in Ended /\ ~ Reentered(id) =>
      \/ d \in spawned
      \/ stage[d] = "killed"
      \/ d \notin created \/ d \notin root \/ d \in joined

\* "must not leave the helper blocked indefinitely" (SH-21), whatever arrives on stdin.  And
\* a run() with a helper returns or raises although the body never ends, except one that
\* may not kill it and waits for it (subprocess.run under sudo).
HelperEnds(d) == stage[d] = "started" ~> stage[d] \in {"bootstrap", "body"} \cup Ended
RunReturns(d) == pc[d] = "waiting" ~> pc[d] = "settled"
Settles ==
  /\ \A d \in Dispatches : HelperEnds(d)
  /\ \A d \in Checked \cup (Dispatches \ Unprivileged) : RunReturns(d)
=============================================================================
