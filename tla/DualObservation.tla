-------------------------- MODULE DualObservation ---------------------------
(* The dual-observation attempt (experiments/k8s_agentwatch_observation/    *)
(* test_stage2_dual_observation.py): one artifact is dispatched to          *)
(* K8sPodBackend while a thread of its own watches the cluster for the Pod  *)
(* and a privileged capture records what the kernel executes; afterwards    *)
(* the Effect, the audit log, the watched Pod and the capture are compared. *)
(*                                                                          *)
(* The artifact replaces itself by a program of a unique name, the marker.  *)
(* Labels may collide, so another Pod may carry the attempt's; it ran       *)
(* before and is created by nobody here.  One failed kubectl call of the    *)
(* observer is one more poll; one that hangs is an exception.               *)
EXTENDS PodMediation

CONSTANT Attempt  \* the dispatch of the attempt

ASSUME AttemptAssumption == Attempt \in Direct
\* Not a result: an attempt that has none yet did not pass.
ASSUME ResultAssumption == None # "pass"

VARIABLES
  pc,        \* where the test is
  capture,   \* the capture: "none", "started", "attached", "exited"
  execed,    \* whether the artifact became the marker
  event,     \* the cgroup of the EXEC event captured, "bare" without one, or None
  observer,  \* where the observer's thread is
  listed,    \* the cgroups build_cgroup_id_to_path came across
  obs,       \* LiveObservation: pod, container, cgroups; its error is left out
  overdue,   \* whether the observer was not done within wait_done's 30 s
  written,   \* obs as the evidence files have it
  key,       \* pod_name_for_audit
  passed,    \* the criteria found true
  result,    \* how the body of the test ended
  teardown,  \* what became of the cleanup, which does not look: "deleted" or "refused"
  deleting,  \* the Pods whose deletion the cleanup asked for
  other      \* the other Pod with the label: "none" or its phase

cleanup == <<teardown, deleting>>
test == <<pc, overdue, written, key, passed, result, cleanup>>
watching == <<observer, listed, obs>>
kernel == <<capture, execed, event>>
vars == <<mediation, test, watching, kernel, other>>

Pods == {"own", "other"}
Phase(p) == IF p = "own" THEN pod[Attempt] ELSE other
Unseen == [pod |-> None, container |-> None, cgroups |-> {}]

\* The rest of the body is skipped; the finally block is not.
Abort(how) == pc' = "finally" /\ result' = how

-----------------------------------------------------------------------------
(* The capture (stage2_privileged.py) and what the kernel does.             *)

\* EbpfCapture.start.
start_capture ==
  /\ pc = "capture"
  /\ \/ pc' = "attaching" /\ capture' = "started" /\ UNCHANGED result
     \/ Abort("raised") /\ UNCHANGED capture
  /\ UNCHANGED <<mediation, overdue, written, key, passed, cleanup>>
  /\ UNCHANGED <<watching, execed, event, other>>

attach ==
  /\ capture = "started" /\ capture' = "attached"
  /\ UNCHANGED <<mediation, test, watching, execed, event, other>>

\* The helper's own timeout ends a capture, or it fails.
capture_exits ==
  /\ capture \in {"started", "attached"} /\ capture' = "exited"
  /\ UNCHANGED <<mediation, test, watching, execed, event, other>>

\* wait_attached: the banner also counts of a capture that has exited since.  Without it the
\* attempt says nothing and fails.
wait_attached ==
  /\ pc = "attaching"
  /\ \/ /\ capture \in {"attached", "exited"}
        /\ pc' = "observing" /\ UNCHANGED result
     \/ Abort("precondition")
  /\ UNCHANGED <<mediation, overdue, written, key, passed, cleanup>>
  /\ UNCHANGED <<watching, kernel, other>>

\* The artifact's execv; an event may be dropped or lack its cgroup.
execv ==
  /\ pod[Attempt] = "Running" /\ ~execed
  /\ execed' = TRUE
  /\ event' \in IF capture = "attached" THEN {"own", "bare", None} ELSE {None}
  /\ UNCHANGED <<mediation, test, watching, capture, other>>

\* sleep, which the artifact became, exits with 0; nothing else in it does.  What it prints, a
\* traceback at most, is short and decodes.
artifact_ends ==
  /\ pod_ends(Attempt)
  /\ podcode'[Attempt] = 0 => execed
  /\ output'[Attempt] = "sentinel"
  /\ UNCHANGED <<test, watching, kernel, other>>

other_ends ==
  /\ other = "Running" /\ other' \in TERMINAL_PHASES
  /\ UNCHANGED <<mediation, test, watching, kernel>>

-----------------------------------------------------------------------------
(* LiveObserver (stage2_observer.py).                                       *)

Labelled == {p \in Pods : Phase(p) \in Phases}

\* The first answer that is not empty decides: one Pod is watched from now on, two are an
\* AmbiguousPodError.
discover ==
  /\ observer = "discovering" /\ Labelled # {}
  /\ \/ /\ \E p \in Labelled : Labelled = {p} /\ obs' = [obs EXCEPT !.pod = p]
        /\ observer' = "watching"
     \/ /\ Labelled = Pods
        /\ observer' = "done" /\ UNCHANGED obs
  /\ UNCHANGED <<mediation, test, listed, kernel, other>>

\* A deadline passes, or a call raises: run() records it and sets _done.
give_up ==
  /\ observer \in {"discovering", "watching", "snapshotting"}
  /\ observer' = "done"
  /\ UNCHANGED <<mediation, test, listed, obs, kernel, other>>

\* The container is running and has an id; a terminated one ends the observation.
watch ==
  /\ observer = "watching"
  /\ \/ /\ Phase(obs.pod) = "Running"
        /\ obs' = [obs EXCEPT !.container = obs.pod]
        /\ observer' = "snapshotting"
     \/ /\ Phase(obs.pod) \in {"Running"} \cup TERMINAL_PHASES
        /\ observer' = "done" /\ UNCHANGED obs
  /\ UNCHANGED <<mediation, test, listed, kernel, other>>

\* build_cgroup_id_to_path, some time after the answer that said running; it returns, and
\* the observation gets what it came across, later still.
snapshot ==
  /\ observer = "snapshotting" /\ observer' = "storing"
  /\ listed' = {p \in Pods : Phase(p) = "Running"}
  /\ UNCHANGED <<mediation, test, obs, kernel, other>>
store ==
  /\ observer = "storing" /\ observer' = "done"
  /\ obs' = [obs EXCEPT !.cgroups = listed]
  /\ UNCHANGED <<mediation, test, listed, kernel, other>>

-----------------------------------------------------------------------------
(* The attempt.                                                             *)

\* observer.start, then broker.dispatch as far as the backend, counted.
start_observer ==
  /\ pc = "observing" /\ pc' = "dispatching"
  /\ observer' = "discovering"
  /\ Goto(Attempt, "reaching")
  /\ invocations' = [invocations EXCEPT ![Attempt] = 1]
  /\ UNCHANGED <<cluster, access, answer, detail, text, code, late, seen>>
  /\ UNCHANGED <<overdue, written, key, passed, result, cleanup, listed, obs, kernel, other>>

\* The Pod an Effect names.
Effect == IF answer[Attempt] = "ok" THEN "own" ELSE None

\* Whatever broker.dispatch raised is noted, and the attempt goes on.
end_dispatch ==
  /\ pc = "dispatching" /\ stage[Attempt] = "exited" /\ pc' = "waiting"
  /\ passed' = IF Effect # None /\ invocations[Attempt] = 1 THEN {1} ELSE {}
  /\ UNCHANGED <<mediation, overdue, written, key, result, cleanup>>
  /\ UNCHANGED <<watching, kernel, other>>

\* 30 s in wait_done, whose answer is not looked at.
wait_expires ==
  /\ pc = "waiting" /\ observer # "done" /\ ~overdue
  /\ overdue' = TRUE
  /\ UNCHANGED <<mediation, pc, written, key, passed, result, cleanup>>
  /\ UNCHANGED <<watching, kernel, other>>

pod_name_for_audit == IF obs.pod # None THEN obs.pod ELSE Effect

\* Mutant: the observer is not waited for.
write_observation_at_once ==
  /\ pc = "waiting" /\ pc' = "auditing"
  /\ written' = obs
  /\ key' = pod_name_for_audit
  /\ UNCHANGED <<mediation, overdue, passed, result, cleanup, watching, kernel, other>>

\* The observation as it is now goes to the evidence files.
write_observation ==
  /\ pc = "waiting" /\ pc' = "auditing"
  /\ observer = "done" \/ overdue
  /\ written' = obs
  /\ key' = pod_name_for_audit
  /\ UNCHANGED <<mediation, overdue, passed, result, cleanup, watching, kernel, other>>

\* The audit log's successful creates of one name: the record may be late or gone.
read_audit_events(name) ==
  CASE name = "own" -> IF pod[Attempt] = "none" THEN {0} ELSE {0, 1}
    [] name = "other" -> {0, 1}
    [] OTHER -> {0}

\* Criterion 2: obs is looked at again, after the wait.
audit ==
  /\ pc = "auditing"
  /\ \/ /\ \E events \in read_audit_events(key) :
            passed' = IF events = 1 /\ obs.pod # None /\ obs.pod = Effect
                      THEN passed \cup {2} ELSE passed
        /\ pc' = "capturing" /\ UNCHANGED result
     \/ Abort("raised") /\ UNCHANGED passed
  /\ UNCHANGED <<mediation, overdue, written, key, cleanup, watching, kernel, other>>

\* Mutant: the capture is waited for without a limit.
wait_finished_unbounded ==
  /\ pc = "capturing" /\ capture = "exited"
  /\ pc' = "judging"
  /\ UNCHANGED <<mediation, overdue, written, key, passed, result, cleanup>>
  /\ UNCHANGED <<watching, kernel, other>>

\* A capture that outlives its limit raises TimeoutExpired.
wait_finished ==
  /\ pc = "capturing"
  /\ \/ capture = "exited" /\ pc' = "judging" /\ UNCHANGED result
     \/ capture # "exited" /\ Abort("raised")
  /\ UNCHANGED <<mediation, overdue, written, key, passed, cleanup>>
  /\ UNCHANGED <<watching, kernel, other>>

\* The Pod and container that the captured cgroup leads to in the snapshot.
resolved == IF event \in obs.cgroups THEN event ELSE None

\* Mutant: any Pod will do.
pod_uid_correlation_any == resolved # None /\ obs.pod # None

pod_uid_correlation == resolved # None /\ resolved = obs.pod
container_correlation == resolved # None /\ resolved = obs.container

\* The last criterion, on imports and the repository's diff, is not modelled.
Judged ==
  (passed \cap {1, 2})
    \cup (IF event # None THEN {3} ELSE {})
    \cup (IF pod_uid_correlation THEN {4} ELSE {})
    \cup (IF container_correlation THEN {5} ELSE {})
    \cup (IF /\ 2 \in passed /\ pod_uid_correlation /\ container_correlation
              /\ Effect = obs.pod /\ obs.pod = key THEN {6} ELSE {})

judge ==
  /\ pc = "judging" /\ pc' = "finally"
  /\ passed' = Judged
  /\ result' = IF Judged = 1 .. 6 THEN "pass" ELSE "fail"
  /\ UNCHANGED <<mediation, overdue, written, key, cleanup, watching, kernel, other>>

\* Mutant: only what an Effect reported is cleaned up.
cleans_up_reported == Effect # None

\* counting.call_count >= 1: also when broker.dispatch raised.
cleans_up == invocations[Attempt] >= 1

\* delete_labeled_pods asks for the deletion of everything with the label, or fails and
\* nobody looks.
clean_up ==
  /\ pc = "finally"
  /\ \/ cleans_up /\ pc' = "deleting" /\ deleting' = Labelled /\ UNCHANGED teardown
     \/ cleans_up /\ pc' = "ended" /\ teardown' = "refused" /\ UNCHANGED deleting
     \/ ~cleans_up /\ pc' = "ended" /\ UNCHANGED cleanup
  /\ UNCHANGED <<mediation, overdue, written, key, passed, result, watching, kernel, other>>

\* kubectl delete waits, without a timeout, until those Pods are gone.
deletion_returns ==
  /\ pc = "deleting" /\ deleting \cap Labelled = {}
  /\ pc' = "ended" /\ teardown' = "deleted"
  /\ UNCHANGED <<mediation, overdue, written, key, passed, result, deleting>>
  /\ UNCHANGED <<watching, kernel, other>>

\* Or its connection breaks, which nobody looks at either.
deletion_fails ==
  /\ pc = "deleting"
  /\ pc' = "ended" /\ teardown' = "refused"
  /\ UNCHANGED <<mediation, overdue, written, key, passed, result, deleting>>
  /\ UNCHANGED <<watching, kernel, other>>

\* The kubelet has stopped a Pod that is to be deleted, and the Pod is gone.
remove_pod ==
  /\ \/ /\ "own" \in deleting /\ Phase("own") \in Phases
        /\ pod' = [pod EXCEPT ![Attempt] = "deleted"] /\ UNCHANGED other
     \/ /\ "other" \in deleting /\ Phase("other") \in Phases
        /\ other' = "deleted" /\ UNCHANGED pod
  /\ UNCHANGED <<process, podcode, output, test, watching, kernel>>

-----------------------------------------------------------------------------
Init ==
  /\ MediationInit
  /\ \A d \in Dispatches \ {Attempt} : access[d] = {}
  /\ pc = "capture" /\ overdue = FALSE /\ written = Unseen /\ key = None
  /\ passed = {} /\ result = None /\ teardown = None /\ deleting = {}
  /\ capture = "none" /\ execed = FALSE /\ event = None
  /\ observer = "off" /\ listed = {} /\ obs = Unseen
  /\ other \in {"none", "Running"}

Dispatching == run(Attempt) /\ UNCHANGED <<test, watching, kernel, other>>
Scheduling == schedule(Attempt) /\ UNCHANGED <<test, watching, kernel, other>>

Test ==
  \/ start_capture \/ wait_attached \/ start_observer \/ end_dispatch \/ wait_expires
  \/ write_observation \/ audit \/ wait_finished \/ judge \/ clean_up \/ deletion_returns

Next ==
  \/ Test \/ deletion_fails \/ Dispatching
  \/ discover \/ watch \/ snapshot \/ store \/ give_up
  \/ attach \/ capture_exits \/ execv
  \/ Scheduling \/ artifact_ends \/ other_ends \/ remove_pod

Spec == Init /\ [][Next]_vars

\* The test and the observer are scheduled and time passes.  The kubelet, the capture and
\* the artifact may do nothing at all, and a connection need not break.
FairSpec ==
  /\ Spec
  /\ WF_vars(Test) /\ WF_vars(give_up) /\ WF_vars(store)
  /\ WF_vars(deadline_passes(Attempt) /\ UNCHANGED <<test, watching, kernel, other>>)
  /\ WF_vars(Dispatching /\ stage' # stage)

-----------------------------------------------------------------------------
(* Properties.                                                             *)

\* A criterion that passes is true of the world and no coincidence of labels: the watched
\* Pod is the one this dispatch created, it succeeded, and the marker ran in it.
CriteriaAreTrue ==
  /\ 2 \in passed => obs.pod = "own" /\ podcode[Attempt] = 0
  /\ 3 \in passed => execed
  /\ passed \cap {4, 5} # {} => execed /\ obs.pod = "own"

\* An attempt that passes has the observation it rests on in its evidence files, unless the
\* observer was not done in time: then the files may lack what the criteria saw.
WrittenAsJudged == result = "pass" /\ ~overdue => written = obs

\* Nothing of the attempt is left behind, a Pod of a dispatch that raised included, unless
\* the deletion itself failed.
NothingLeft ==
  pc = "ended" /\ teardown # "refused" => pod[Attempt] \notin Phases

\* The attempt's verdict, evidence and cleanup (test_stage2_dual_observation.py:133).
AttemptIsSound == CriteriaAreTrue /\ WrittenAsJudged /\ NothingLeft

\* The test reaches its cleanup, and its observer's thread ends, whatever the cluster, the
\* capture and the artifact do: every wait up to there has a limit (stage2_observer.py:120,
\* stage2_privileged.py:147).  The cleanup's own wait has none: the test ends once the Pods
\* it deletes are gone.
AttemptEnds ==
  /\ pc = "attaching" ~> pc \in {"deleting", "ended"}
  /\ pc = "deleting" /\ deleting \cap Labelled = {} ~> pc = "ended"
  /\ observer = "discovering" ~> observer = "done"
=============================================================================
