----------------------- MODULE DualObservation_proofs -----------------------
(* Theorems about DualObservation: however the attempt's dispatch, its      *)
(* observer, its capture and the cluster interleave, a criterion that       *)
(* passes is true, what is judged is what was written, and no Pod is left.  *)
EXTENDS DualObservation, TLAPS

-----------------------------------------------------------------------------
(* The inductive invariant.                                                *)

Stages == {"idle", "reaching", "applying", "polling", "terminal", "exited"}
Classes == {None, "ok", "execution_failed", "internal_error", "provisioning_unavailable"}
AnyPhase == Phases \cup {"none", "deleted"}
Status == {None, 0, 1}

Before == {"capture", "attaching", "observing"}
After == {"waiting", "auditing", "capturing", "judging"}
Ending == {"finally", "deleting", "ended"}
Places == Before \cup {"dispatching"} \cup After \cup Ending
Watching == {"off", "discovering", "watching", "snapshotting", "storing", "done"}

\* Every variable that a property or a guard looks at has its type.
Types ==
  /\ stage \in [Dispatches -> Stages] /\ invocations \in [Dispatches -> {0, 1}]
  /\ answer \in [Dispatches -> Classes] /\ seen \in [Dispatches -> AnyPhase \X Status]
  /\ pod \in [Dispatches -> AnyPhase] /\ podcode \in [Dispatches -> Status]
  /\ pc \in Places /\ observer \in Watching /\ other \in AnyPhase
  /\ execed \in BOOLEAN /\ event \in {"own", "bare", None} /\ listed \subseteq Pods
  /\ obs \in [pod : Pods \cup {None}, container : Pods \cup {None}, cgroups : SUBSET Pods]
  /\ overdue \in BOOLEAN /\ passed \subseteq 1 .. 6 /\ deleting \subseteq Pods

\* The Pod has ended, and nothing changes the code its container ended with.
Over == pod[Attempt] \in TERMINAL_PHASES \cup {"deleted"}

\* Where the dispatch is while the test waits, and what that says of the Pod.
Dispatched ==
  /\ pc \in Before => stage[Attempt] = "idle"
  /\ pc \in After => stage[Attempt] = "exited"
  /\ pc \in Ending => stage[Attempt] \in {"idle", "exited"}
  /\ stage[Attempt] = "idle" => observer = "off"
  /\ stage[Attempt] # "idle" => invocations[Attempt] = 1
  /\ stage[Attempt] \in {"idle", "reaching", "applying"} => pod[Attempt] = "none"
  /\ stage[Attempt] = "terminal" => Over /\ (Succeeded(seen[Attempt]) => podcode[Attempt] = 0)
  /\ stage[Attempt] = "exited" /\ answer[Attempt] = "ok" => Over /\ podcode[Attempt] = 0

\* The observer keeps to the Pod it found, and the kernel saw what ran.
Watched ==
  /\ observer \in {"off", "discovering"} => obs.pod = None
  /\ obs.container \in {None, obs.pod}
  /\ event # None => execed

\* What a criterion saw cannot change any more.
Own == obs.pod = "own" /\ obs.pod # None
Criteria ==
  /\ 2 \in passed => Own /\ Over /\ podcode[Attempt] = 0
  /\ 3 \in passed => execed
  /\ passed \cap {4, 5} # {} => execed /\ Own

\* The files have the observation, which an observer that is done does not change.
Recorded == ~ overdue => observer = "done" /\ written = obs
Filed ==
  /\ pc \in {"auditing", "capturing", "judging"} => Recorded
  /\ result = "pass" => pc \in Ending /\ Recorded

\* The cleanup deletes the Pod there is, and says deleted once it is gone.
Cleaned ==
  /\ pc = "deleting" /\ pod[Attempt] \in Phases => "own" \in deleting
  /\ pc = "ended" /\ teardown # "refused" => pod[Attempt] \in {"none", "deleted"}

Inv == Types /\ Dispatched /\ Watched /\ Criteria /\ Filed /\ Cleaned

-----------------------------------------------------------------------------
(* The dispatch and the cluster.                                           *)

\* The attempt's dispatch is a direct one.
LEMMA AttemptIsDirect == Attempt \in Dispatches /\ Attempt \notin Mediated
  BY AttemptAssumption, DisjointAssumption DEF Dispatches

\* What a step of the dispatch does to what Inv is about: it answers with a class it has, ok
\* only for a Pod that ended with 0, and creates the Pod in one place.
Progress ==
  /\ UNCHANGED <<test, watching, kernel, other, invocations, podcode>>
  /\ stage' \in [Dispatches -> Stages] /\ answer' \in [Dispatches -> Classes]
  /\ seen' \in [Dispatches -> AnyPhase \X Status] /\ pod' \in [Dispatches -> AnyPhase]
  /\ stage[Attempt] \in {"reaching", "applying", "polling", "terminal"}
  /\ stage'[Attempt] \in {"applying", "polling", "terminal", "exited"}
  /\ stage'[Attempt] = "applying" => pod'[Attempt] = "none"
  /\ pod' # pod => stage[Attempt] = "applying"
  /\ stage'[Attempt] = "terminal" =>
       Over' /\ (Succeeded(seen'[Attempt]) => podcode[Attempt] = 0)
  /\ stage'[Attempt] = "exited" /\ answer'[Attempt] = "ok" => Over' /\ podcode[Attempt] = 0

\* What Answer does for a direct dispatch.
LEMMA Answering ==
  ASSUME Types, NEW class \in Classes, Answer(Attempt, class)
  PROVE  /\ stage' \in [Dispatches -> Stages] /\ answer' \in [Dispatches -> Classes]
         /\ stage'[Attempt] = "exited" /\ answer'[Attempt] = class
  BY AttemptIsDirect DEF Types, Answer, Goto, Stages

\* Every step of the backend is one.
LEMMA RunProgresses ==
  ASSUME Inv, Dispatching
  PROVE  Progress
<1> USE AttemptIsDirect DEF Inv
<1>1. UNCHANGED <<test, watching, kernel, other>>
  BY DEF Dispatching
<1>2. CASE require_cluster_reachable(Attempt)
  <2>1. UNCHANGED <<invocations, seen, pod, podcode>> /\ stage[Attempt] = "reaching"
    BY <1>2 DEF require_cluster_reachable, cluster
  <2>2. CASE Goto(Attempt, "applying") /\ UNCHANGED answer
    BY <1>1, <2>1, <2>2 DEF Goto, Types, Dispatched, Progress, Stages
  <2>3. CASE \E class \in {"provisioning_unavailable", "internal_error"} : Answer(Attempt, class)
    <3>1. PICK class \in {"provisioning_unavailable", "internal_error"} : Answer(Attempt, class)
      BY <2>3
    <3>2. class \in Classes /\ class # "ok"
      BY DEF Classes
    <3> QED BY <1>1, <2>1, <3>1, <3>2, Answering DEF Types, Progress
  <2> QED BY <1>2, <2>2, <2>3 DEF require_cluster_reachable
<1>3. CASE apply(Attempt)
  <2>1. /\ UNCHANGED <<invocations, seen, podcode>> /\ stage[Attempt] = "applying"
        /\ pod' \in {pod, [pod EXCEPT ![Attempt] = "Pending"]}
    BY <1>3 DEF apply
  <2>2. pod' \in [Dispatches -> AnyPhase]
    BY <2>1 DEF Types, AnyPhase, Phases
  <2>3. CASE Goto(Attempt, "polling") /\ UNCHANGED answer
    BY <1>1, <2>1, <2>2, <2>3 DEF Goto, Types, Progress, Stages
  <2>4. CASE Answer(Attempt, "execution_failed")
    BY <1>1, <2>1, <2>2, <2>4, Answering DEF Types, Progress, Classes
  <2> QED BY <1>3, <2>3, <2>4 DEF apply
<1>4. CASE deadline_passes(Attempt)
  BY <1>1, <1>4 DEF deadline_passes, cluster, Types, Progress, Stages
<1>5. CASE times_out(Attempt) \/ poll_fails(Attempt)
  BY <1>1, <1>5, Answering DEF times_out, poll_fails, cluster, Types, Progress, Classes
<1>6. CASE poll(Attempt)
  <2>1. /\ UNCHANGED <<invocations, answer, pod, podcode>> /\ stage[Attempt] = "polling"
        /\ seen' = [seen EXCEPT ![Attempt] = <<pod[Attempt], podcode[Attempt]>>]
        /\ IF pod[Attempt] \in TERMINAL_PHASES THEN Goto(Attempt, "terminal")
                                               ELSE UNCHANGED stage
    BY <1>6 DEF poll, cluster
  <2>2. seen' \in [Dispatches -> AnyPhase \X Status]
        /\ seen'[Attempt] = <<pod[Attempt], podcode[Attempt]>>
    BY <2>1 DEF Types
  <2>3. Succeeded(seen'[Attempt]) => podcode[Attempt] = 0
    BY <2>2 DEF Succeeded
  <2>4. CASE pod[Attempt] \in TERMINAL_PHASES
    BY <1>1, <2>1, <2>2, <2>3, <2>4 DEF Goto, Types, Progress, Stages, Over
  <2>5. CASE pod[Attempt] \notin TERMINAL_PHASES
    BY <1>1, <2>1, <2>2, <2>5 DEF Types, Progress
  <2> QED BY <2>4, <2>5
<1>7. CASE finish(Attempt)
  <2>1. UNCHANGED <<invocations, seen, pod, podcode>> /\ stage[Attempt] = "terminal"
    BY <1>7 DEF finish, cluster
  <2>2. PICK class \in {"ok", "execution_failed", "internal_error"} :
          Answer(Attempt, class) /\ (class = "ok" => Succeeded(seen[Attempt]))
    BY <1>7 DEF finish
  <2>3. class \in Classes
    BY DEF Classes
  <2>4. Over' <=> Over
    BY <2>1 DEF Over
  <2> QED BY <1>1, <2>1, <2>2, <2>3, <2>4, Answering DEF Types, Dispatched, Progress
<1> QED BY <1>2, <1>3, <1>4, <1>5, <1>6, <1>7 DEF Dispatching, run

\* So it keeps the invariant.
LEMMA RunStep ==
  ASSUME Inv, Dispatching
  PROVE  Inv'
<1> USE DEF Inv
<1>1. Progress
  BY RunProgresses
<1>2. UNCHANGED <<pc, overdue, written, key, passed, result, teardown, deleting, observer, listed, obs,
            capture, execed, event, other, invocations, podcode>>
  BY <1>1 DEF Progress, test, cleanup, watching, kernel
<1>3. pc = "dispatching"
  BY <1>1 DEF Progress, Types, Dispatched, Places, Before, After, Ending
<1>4. Types'
  BY <1>1, <1>2 DEF Progress, Types
<1>5. Dispatched'
  BY <1>1, <1>2, <1>3 DEF Progress, Dispatched, Before, After, Ending
<1>6. Watched' /\ Filed' /\ Cleaned'
  BY <1>2, <1>3 DEF Watched, Filed, Cleaned, Recorded, Ending
<1>7. Criteria'
  <2>1. Over => pod' = pod
    BY <1>1 DEF Progress, Dispatched, Over, TERMINAL_PHASES
  <2> QED BY <1>2, <2>1 DEF Criteria, Over, Own
<1> QED BY <1>4, <1>5, <1>6, <1>7

\* The kubelet schedules and ends the Pod, and the test's cleanup deletes it: an ended Pod
\* stays ended, and the code of its container what it was.
LEMMA ClusterStep ==
  ASSUME Inv, Scheduling \/ artifact_ends \/ other_ends
  PROVE  Inv'
<1> USE AttemptIsDirect DEF Inv
<1>1. UNCHANGED <<process, pc, overdue, written, key, passed, result, teardown, deleting, observer, listed,
            obs, capture, execed, event>>
  BY DEF Scheduling, artifact_ends, other_ends, schedule, pod_ends, mediation, test, cleanup, watching,
         kernel
<1>2. UNCHANGED <<stage, invocations, answer, seen>>
  BY <1>1 DEF process
<1>3. /\ pod' \in [Dispatches -> AnyPhase] /\ podcode' \in [Dispatches -> Status]
      /\ other' \in AnyPhase
      /\ pod[Attempt] \notin {"Pending", "Running"} => UNCHANGED <<pod, podcode>>
  <2>1. CASE Scheduling
    BY <2>1 DEF Scheduling, schedule, Types, AnyPhase, Phases
  <2>2. CASE artifact_ends
    <3>1. PICK phase \in TERMINAL_PHASES, status \in {None, 0, 1} :
            /\ pod' = [pod EXCEPT ![Attempt] = phase]
            /\ podcode' = [podcode EXCEPT ![Attempt] = status]
      BY <2>2 DEF artifact_ends, pod_ends
    <3>2. pod[Attempt] \in {"Pending", "Running"} /\ UNCHANGED other
      BY <2>2 DEF artifact_ends, pod_ends
    <3> QED BY <3>1, <3>2 DEF Types, AnyPhase, Phases, Status
  <2>3. CASE other_ends
    BY <2>3 DEF other_ends, mediation, cluster, Types, AnyPhase, Phases
  <2> QED BY <2>1, <2>2, <2>3
<1>4. Types'
  BY <1>1, <1>2, <1>3 DEF Types
<1>5. Over => UNCHANGED <<pod, podcode>>
  BY <1>3 DEF Over, TERMINAL_PHASES
<1>6. Dispatched'
  BY <1>1, <1>2, <1>3, <1>5 DEF Dispatched, Over
<1>7. Watched' /\ Filed'
  BY <1>1 DEF Watched, Filed, Recorded, Ending
<1>8. Criteria' /\ Cleaned'
  BY <1>1, <1>3, <1>5 DEF Criteria, Cleaned, Over, Own, Phases, TERMINAL_PHASES
<1> QED BY <1>4, <1>6, <1>7, <1>8

-----------------------------------------------------------------------------
(* The observer and the capture.                                           *)

\* What the observer and the kernel do leaves the dispatch and the test alone.
LEMMA ObservingFrame ==
  ASSUME Inv, UNCHANGED <<mediation, test, other>>
  PROVE  /\ UNCHANGED <<stage, invocations, answer, seen, pod, podcode, other>>
         /\ UNCHANGED <<pc, overdue, written, key, passed, result, teardown, deleting>>
         /\ Over' <=> Over
         /\ Cleaned'
<1>1. /\ UNCHANGED <<stage, invocations, answer, seen, pod, podcode, other>>
      /\ UNCHANGED <<pc, overdue, written, key, passed, result, teardown, deleting>>
  BY DEF mediation, process, cluster, test, cleanup
<1> QED BY <1>1 DEF Inv, Cleaned, Over

\* The observer finds a Pod once, and looks at that one only; what it is done with it keeps.
LEMMA ObserverStep ==
  ASSUME Inv, discover \/ watch \/ snapshot \/ store \/ give_up
  PROVE  Inv'
<1> USE DEF Inv
<1>1. UNCHANGED <<mediation, test, other>> /\ UNCHANGED <<execed, event>>
  BY DEF discover, watch, snapshot, store, give_up, kernel
<1>2. /\ UNCHANGED <<stage, invocations, answer, seen, pod, podcode, other>>
      /\ UNCHANGED <<pc, overdue, written, key, passed, result, teardown, deleting>>
      /\ (Over' <=> Over) /\ Cleaned'
  BY <1>1, ObservingFrame
<1>3. /\ observer \notin {"off", "done"} /\ observer' \in Watching \ {"off", "discovering"}
      /\ obs' \in [pod : Pods \cup {None}, container : Pods \cup {None}, cgroups : SUBSET Pods]
      /\ listed' \subseteq Pods
      /\ obs'.container \in {None, obs'.pod}
      /\ observer = "discovering" \/ obs'.pod = obs.pod
  <2>1. CASE discover
    <3>1. CASE observer' = "done" /\ UNCHANGED obs
      BY <2>1, <3>1 DEF discover, Types, Watching, Watched
    <3>2. CASE observer' = "watching" /\ \E p \in Labelled : obs' = [obs EXCEPT !.pod = p]
      <4>1. PICK p \in Pods : obs' = [obs EXCEPT !.pod = p]
        BY <3>2 DEF Labelled
      <4>2. /\ obs'.pod = p /\ obs'.container = obs.container
            /\ obs' \in [pod : Pods \cup {None}, container : Pods \cup {None},
                         cgroups : SUBSET Pods]
        BY <4>1 DEF Types
      <4>3. obs.container = None
        BY <2>1 DEF discover, Watched
      <4> QED BY <2>1, <3>2, <4>2, <4>3 DEF discover, Types, Watching
    <3> QED BY <2>1, <3>1, <3>2 DEF discover
  <2>2. CASE watch
    <3>1. CASE observer' = "done" /\ UNCHANGED obs
      BY <2>2, <3>1 DEF watch, Types, Watching, Watched
    <3>2. CASE observer' = "snapshotting" /\ obs' = [obs EXCEPT !.container = obs.pod]
      BY <2>2, <3>2 DEF watch, Types, Watching, Watched
    <3> QED BY <2>2, <3>1, <3>2 DEF watch
  <2>3. CASE snapshot
    BY <2>3 DEF snapshot, Types, Watching, Watched
  <2>4. CASE store
    BY <2>4 DEF store, Types, Watching, Watched
  <2>5. CASE give_up
    BY <2>5 DEF give_up, Types, Watching, Watched
  <2> QED BY <2>1, <2>2, <2>3, <2>4, <2>5
<1>4. Types'
  BY <1>1, <1>2, <1>3 DEF Types
<1>5. Dispatched'
  BY <1>2, <1>3 DEF Dispatched
<1>6. Watched'
  BY <1>1, <1>3 DEF Watched
<1>7. Criteria'
  BY <1>1, <1>2, <1>3 DEF Criteria, Own, Watched
<1>8. Filed'
  BY <1>2, <1>3 DEF Filed, Recorded, Ending
<1> QED BY <1>2, <1>4, <1>5, <1>6, <1>7, <1>8

\* The capture sees what was executed, or not.
LEMMA KernelStep ==
  ASSUME Inv, attach \/ capture_exits \/ execv
  PROVE  Inv'
<1> USE DEF Inv
<1>1. UNCHANGED <<mediation, test, other>> /\ UNCHANGED <<observer, listed, obs>>
  BY DEF attach, capture_exits, execv, watching
<1>2. /\ UNCHANGED <<stage, invocations, answer, seen, pod, podcode, other>>
      /\ UNCHANGED <<pc, overdue, written, key, passed, result, teardown, deleting>>
      /\ (Over' <=> Over) /\ Cleaned'
  BY <1>1, ObservingFrame
<1>3. /\ execed' \in BOOLEAN /\ event' \in {"own", "bare", None}
      /\ execed => execed'
      /\ event' # None => execed'
  BY DEF attach, capture_exits, execv, Types, Watched
<1>4. Types'
  BY <1>1, <1>2, <1>3 DEF Types
<1>5. Dispatched' /\ Watched' /\ Filed'
  BY <1>1, <1>2, <1>3 DEF Dispatched, Watched, Filed, Recorded, Ending
<1>6. Criteria'
  BY <1>1, <1>2, <1>3 DEF Criteria, Own
<1> QED BY <1>2, <1>4, <1>5, <1>6

-----------------------------------------------------------------------------
(* The test.                                                               *)

\* Before the dispatch the test starts the capture and waits for it; whatever fails leads to
\* the cleanup.
LEMMA StartingStep ==
  ASSUME Inv, start_capture \/ wait_attached
  PROVE  Inv'
<1> USE DEF Inv
<1>1. /\ UNCHANGED <<mediation, overdue, written, key, passed, teardown, deleting>>
      /\ UNCHANGED <<observer, listed, obs, execed, event, other>>
      /\ pc \in Before
      /\ \/ pc' \in Before /\ UNCHANGED result
         \/ pc' = "finally" /\ result' \in {"raised", "precondition"}
  BY DEF start_capture, wait_attached, Abort, cleanup, watching, kernel, Before
<1>2. /\ UNCHANGED <<stage, invocations, answer, seen, pod, podcode>>
      /\ (Over' <=> Over)
  BY <1>1 DEF mediation, process, cluster, Over
<1>3. Types'
  BY <1>1, <1>2 DEF Types, Places, Ending
<1>4. Dispatched'
  BY <1>1, <1>2 DEF Dispatched, Before, After, Ending
<1>5. Watched' /\ Criteria' /\ Filed' /\ Cleaned'
  BY <1>1, <1>2 DEF Watched, Criteria, Own, Filed, Recorded, Ending, Cleaned, Before
<1> QED BY <1>3, <1>4, <1>5

\* The observer's thread starts, and the dispatch is with the backend.
LEMMA StartObserverStep ==
  ASSUME Inv, start_observer
  PROVE  Inv'
<1> USE AttemptIsDirect DEF Inv
<1>1. /\ pc = "observing" /\ pc' = "dispatching" /\ observer' = "discovering"
      /\ UNCHANGED <<overdue, written, key, passed, result, teardown, deleting, listed, obs, other>>
      /\ UNCHANGED <<answer, seen, pod, podcode, execed, event>>
      /\ stage' = [stage EXCEPT ![Attempt] = "reaching"]
      /\ invocations' = [invocations EXCEPT ![Attempt] = 1]
  BY DEF start_observer, Goto, cleanup, cluster, kernel
<1>2. stage[Attempt] = "idle" /\ observer = "off" /\ (Over' <=> Over)
  BY <1>1 DEF Dispatched, Before, Over
<1>3. Types'
  BY <1>1 DEF Types, Stages, Places, Watching
<1>4. Dispatched'
  BY <1>1, <1>2 DEF Dispatched, Types, Before, After, Ending
<1>5. Watched' /\ Criteria' /\ Filed' /\ Cleaned'
  BY <1>1, <1>2 DEF Watched, Criteria, Own, Filed, Recorded, Ending, Cleaned
<1> QED BY <1>3, <1>4, <1>5

\* After the dispatch the test reads and waits, and changes nothing but what it knows.
LEMMA AfterFrame ==
  ASSUME Inv, UNCHANGED <<mediation, watching, kernel, other, deleting>>,
         pc \in {"dispatching"} \cup After, stage[Attempt] = "exited",
         pc' \in After \cup {"finally"}, overdue' \in BOOLEAN, passed' \subseteq 1 .. 6
  PROVE  Types' /\ Dispatched' /\ Watched' /\ Cleaned' /\ UNCHANGED <<observer, obs, execed>>
         /\ UNCHANGED <<podcode, pod>> /\ (Over' <=> Over)
<1>1. /\ UNCHANGED <<stage, invocations, answer, seen, pod, podcode, other>>
      /\ UNCHANGED <<observer, listed, obs, execed, event>> /\ (Over' <=> Over)
  BY DEF mediation, process, cluster, watching, kernel, Over
<1>2. Types'
  BY <1>1 DEF Inv, Types, Places, Ending
<1>3. Dispatched'
  BY <1>1 DEF Inv, Dispatched, Before, After, Ending
<1>4. Watched' /\ Cleaned'
  BY <1>1 DEF Inv, Watched, Cleaned, After
<1> QED BY <1>1, <1>2, <1>3, <1>4

\* The dispatch is over, or 30 s have passed, or the observation is written as it is.
LEMMA WaitingStep ==
  ASSUME Inv, end_dispatch \/ wait_expires \/ write_observation
  PROVE  Inv'
<1> USE DEF Inv
<1>1. /\ UNCHANGED <<mediation, watching, kernel, other, deleting>>
      /\ stage[Attempt] = "exited" /\ pc \in {"dispatching"} \cup After /\ pc' \in After
      /\ overdue' \in BOOLEAN /\ passed' \subseteq 1 .. 6 /\ passed' \subseteq passed \cup {1}
      /\ UNCHANGED result
  <2>1. CASE end_dispatch
    BY <2>1 DEF end_dispatch, cleanup, Types, After
  <2>2. CASE wait_expires
    BY <2>2 DEF wait_expires, cleanup, Types, Dispatched, After
  <2>3. CASE write_observation
    BY <2>3 DEF write_observation, cleanup, Types, Dispatched, After
  <2> QED BY <2>1, <2>2, <2>3
<1>2. /\ Types' /\ Dispatched' /\ Watched' /\ Cleaned' /\ UNCHANGED <<observer, obs, execed>>
      /\ UNCHANGED <<podcode, pod>> /\ (Over' <=> Over)
  BY <1>1, AfterFrame
<1>3. Criteria'
  BY <1>1, <1>2 DEF Criteria, Own
<1>4. Filed'
  BY <1>1, <1>2 DEF Filed, Recorded, Ending, end_dispatch, wait_expires, write_observation, After
<1> QED BY <1>2, <1>3, <1>4

\* An Effect of the dispatch names its Pod, which has ended with 0.
LEMMA EffectIsOwn ==
  ASSUME Inv, stage[Attempt] = "exited", obs.pod # None, obs.pod = Effect
  PROVE  Own /\ Over /\ podcode[Attempt] = 0
  BY DEF Inv, Dispatched, Effect, Own

\* The audit log is compared with the observation as it is now, and the capture waited for.
LEMMA AuditStep ==
  ASSUME Inv, audit \/ wait_finished
  PROVE  Inv'
<1> USE DEF Inv
<1>1. /\ UNCHANGED <<mediation, watching, kernel, other, deleting, overdue, written>>
      /\ stage[Attempt] = "exited" /\ pc \in {"auditing", "capturing"}
      /\ \/ pc' \in {"capturing", "judging"} /\ UNCHANGED result
         \/ pc' = "finally" /\ result' = "raised"
      /\ passed' \subseteq passed \cup {2}
      /\ 2 \in passed' \ passed => obs.pod # None /\ obs.pod = Effect
  BY DEF audit, wait_finished, Abort, cleanup, Dispatched, After
<1>2. passed' \subseteq 1 .. 6 /\ overdue' \in BOOLEAN
  BY <1>1 DEF Types
<1>3. /\ Types' /\ Dispatched' /\ Watched' /\ Cleaned' /\ UNCHANGED <<observer, obs, execed>>
      /\ UNCHANGED <<podcode, pod>> /\ (Over' <=> Over)
  BY <1>1, <1>2, AfterFrame DEF After
<1>4. Criteria'
  BY <1>1, <1>3, EffectIsOwn DEF Criteria, Own
<1>5. Filed'
  BY <1>1, <1>3 DEF Filed, Recorded, Ending
<1> QED BY <1>3, <1>4, <1>5

\* A cgroup that leads to the watched Pod, or to its container, is the one captured: its own.
LEMMA Correlated ==
  ASSUME Inv, pod_uid_correlation \/ container_correlation
  PROVE  Own /\ execed
<1>1. event # None /\ event \in obs.cgroups /\ event = obs.pod
  BY DEF Inv, Watched, pod_uid_correlation, container_correlation, resolved
<1>2. obs.cgroups \subseteq {"own", "other"} /\ event \in {"own", "bare", None}
  BY DEF Inv, Types, Pods
<1> QED BY <1>1, <1>2 DEF Inv, Watched, Own

\* The criteria are judged.
LEMMA JudgeStep ==
  ASSUME Inv, judge
  PROVE  Inv'
<1> USE DEF Inv
<1>1. /\ UNCHANGED <<mediation, watching, kernel, other, deleting, overdue, written>>
      /\ pc = "judging" /\ pc' = "finally" /\ passed' = Judged
  BY DEF judge, cleanup
<1>2. stage[Attempt] = "exited" /\ Recorded
  BY <1>1 DEF Dispatched, After, Filed
<1>3. /\ Judged \subseteq 1 .. 6
      /\ 2 \in Judged => 2 \in passed
      /\ 3 \in Judged => event # None
      /\ Judged \cap {4, 5} # {} => pod_uid_correlation \/ container_correlation
  <2>1. \A i \in Judged :
          \/ i \in passed \cap {1, 2}
          \/ i = 3 /\ event # None
          \/ i = 4 /\ pod_uid_correlation
          \/ i = 5 /\ container_correlation
          \/ i = 6
    BY DEF Judged
  <2> QED BY <2>1
<1>4. overdue' \in BOOLEAN /\ passed' \subseteq 1 .. 6
  BY <1>1, <1>3 DEF Types
<1>5. /\ Types' /\ Dispatched' /\ Watched' /\ Cleaned' /\ UNCHANGED <<observer, obs, execed>>
      /\ UNCHANGED <<podcode, pod>> /\ (Over' <=> Over)
  BY <1>1, <1>2, <1>4, AfterFrame DEF After
<1>6. 3 \in Judged => execed
  BY <1>3 DEF Watched
<1>7. Judged \cap {4, 5} # {} => Own /\ execed
  BY <1>3, Correlated
<1>8. Criteria'
  BY <1>1, <1>3, <1>5, <1>6, <1>7 DEF Criteria, Own
<1>9. Filed'
  BY <1>1, <1>2, <1>5 DEF Filed, Recorded, Ending
<1> QED BY <1>5, <1>8, <1>9

\* A step that leaves the dispatch and what the criteria saw alone, and at most removes a Pod.
Removes ==
  /\ UNCHANGED <<stage, invocations, answer, seen, podcode, observer, listed, obs>>
  /\ UNCHANGED <<execed, event, overdue, written, passed, result>>
  /\ pod' \in [Dispatches -> AnyPhase] /\ other' \in AnyPhase /\ deleting' \subseteq Pods
  /\ \/ pod'[Attempt] = pod[Attempt]
     \/ pod[Attempt] \in Phases /\ pod'[Attempt] = "deleted"
  /\ pc' = pc \/ (pc \in Ending /\ pc' \in Ending)

\* It keeps all of the invariant but its account of the cleanup.
LEMMA RemovalKeeps ==
  ASSUME Inv, Removes
  PROVE  Types' /\ Dispatched' /\ Watched' /\ Criteria' /\ Filed'
<1> USE DEF Inv, Removes
<1>1. Types'
  BY DEF Types, Places
<1>2. Over => Over'
  BY DEF Over
<1>3. pod[Attempt] = "none" => pod'[Attempt] = "none"
  BY DEF Phases, TERMINAL_PHASES
<1>4. Dispatched'
  BY <1>2, <1>3 DEF Dispatched, Before, After, Ending
<1>5. Watched' /\ Filed'
  BY DEF Watched, Filed, Recorded, Ending
<1>6. Criteria'
  BY <1>2 DEF Criteria, Own
<1> QED BY <1>1, <1>4, <1>5, <1>6

\* The cleanup asks for the deletion of what there is, or there is nothing, or it fails.
LEMMA CleanUpStep ==
  ASSUME Inv, clean_up
  PROVE  Inv'
<1> USE DEF Inv
<1>1. /\ UNCHANGED <<stage, invocations, answer, seen, podcode, observer, listed, obs>>
      /\ UNCHANGED <<execed, event, overdue, written, passed, result, pod, other>>
      /\ pc = "finally" /\ pc' \in {"deleting", "ended"}
  BY DEF clean_up, mediation, process, cluster, watching, kernel
<1>2. deleting' \subseteq Pods /\ pc \in Ending /\ pc' \in Ending
  BY <1>1 DEF clean_up, cleanup, Labelled, Types, Ending
<1>3. pod' \in [Dispatches -> AnyPhase] /\ other' \in AnyPhase
  BY <1>1 DEF Types
<1>4. Types' /\ Dispatched' /\ Watched' /\ Criteria' /\ Filed'
  BY <1>1, <1>2, <1>3, RemovalKeeps DEF Removes
<1>5. Cleaned'
  <2>1. CASE pc' = "deleting" /\ deleting' = Labelled
    BY <1>1, <2>1 DEF Cleaned, Labelled, Pods, Phase
  <2>2. CASE pc' = "ended" /\ teardown' = "refused"
    BY <2>2 DEF Cleaned
  <2>3. CASE ~ cleans_up /\ pc' = "ended"
    <3>1. stage[Attempt] = "idle"
      BY <2>3 DEF cleans_up, Dispatched
    <3> QED BY <1>1, <2>3, <3>1 DEF Dispatched, Cleaned
  <2> QED BY <2>1, <2>2, <2>3 DEF clean_up
<1> QED BY <1>4, <1>5

\* It ends once they are gone, or fails.
LEMMA DeletionStep ==
  ASSUME Inv, deletion_returns \/ deletion_fails
  PROVE  Inv'
<1> USE AttemptIsDirect DEF Inv
<1>1. /\ UNCHANGED <<stage, invocations, answer, seen, podcode, observer, listed, obs>>
      /\ UNCHANGED <<execed, event, overdue, written, passed, result, pod, other, deleting>>
      /\ pc = "deleting" /\ pc' = "ended"
  BY DEF deletion_returns, deletion_fails, mediation, process, cluster, watching, kernel
<1>2. /\ pod' \in [Dispatches -> AnyPhase] /\ other' \in AnyPhase /\ deleting' \subseteq Pods
      /\ pc \in Ending /\ pc' \in Ending
  BY <1>1 DEF Types, Ending
<1>3. Types' /\ Dispatched' /\ Watched' /\ Criteria' /\ Filed'
  BY <1>1, <1>2, RemovalKeeps DEF Removes
<1>4. Cleaned'
  <2>1. CASE deletion_returns
    <3>1. "own" \notin deleting \cap Labelled
      BY <2>1 DEF deletion_returns
    <3>2. pod[Attempt] \notin Phases
      BY <1>1, <3>1 DEF Cleaned, Labelled, Pods, Phase
    <3>3. pod[Attempt] \in AnyPhase
      BY DEF Types
    <3> QED BY <1>1, <3>2, <3>3 DEF Cleaned, AnyPhase
  <2>2. CASE deletion_fails
    BY <2>2 DEF deletion_fails, Cleaned
  <2> QED BY <2>1, <2>2
<1> QED BY <1>3, <1>4

\* The kubelet removes a Pod that is to be deleted.
LEMMA RemovalStep ==
  ASSUME Inv, remove_pod
  PROVE  Inv'
<1> USE AttemptIsDirect DEF Inv
<1>1. /\ UNCHANGED <<stage, invocations, answer, seen, podcode, observer, listed, obs>>
      /\ UNCHANGED <<execed, event, overdue, written, passed, result>>
      /\ UNCHANGED <<pc, teardown, deleting>>
  BY DEF remove_pod, process, test, cleanup, watching, kernel
<1>2. /\ pod' \in [Dispatches -> AnyPhase] /\ other' \in AnyPhase /\ deleting' \subseteq Pods
      /\ \/ pod'[Attempt] = pod[Attempt]
         \/ pod[Attempt] \in Phases /\ pod'[Attempt] = "deleted"
  BY <1>1 DEF remove_pod, Phase, Types, AnyPhase
<1>3. Removes
  BY <1>1, <1>2 DEF Removes
<1>4. Types' /\ Dispatched' /\ Watched' /\ Criteria' /\ Filed'
  BY <1>3, RemovalKeeps
<1>5. Cleaned'
  BY <1>1, <1>2 DEF Cleaned, Phases, TERMINAL_PHASES
<1> QED BY <1>4, <1>5

-----------------------------------------------------------------------------
(* The invariant, and the theorems.                                        *)

\* It holds at the start.
LEMMA InvInit == Init => Inv
<1> SUFFICES ASSUME Init PROVE Inv
  OBVIOUS
<1> USE AttemptIsDirect
<1>1. Types
  BY DEF Init, MediationInit, Types, Stages, Classes, AnyPhase, Phases, Status, Places, Before,
         Watching, Pods, Unseen
<1>2. Dispatched
  BY DEF Init, MediationInit, Dispatched, Before, After, Ending
<1>3. Watched /\ Criteria /\ Filed /\ Cleaned
  BY ResultAssumption DEF Init, Watched, Unseen, Criteria, Filed, Cleaned
<1> QED BY <1>1, <1>2, <1>3 DEF Inv

\* Every step keeps it.
LEMMA InvNext == Inv /\ [Next]_vars => Inv'
<1> SUFFICES ASSUME Inv, [Next]_vars PROVE Inv'
  OBVIOUS
<1>1. CASE Test
  BY <1>1, StartingStep, StartObserverStep, WaitingStep, AuditStep, JudgeStep, CleanUpStep,
     DeletionStep DEF Test
<1>2. CASE Dispatching
  BY <1>2, RunStep
<1>3. CASE discover \/ watch \/ snapshot \/ store \/ give_up
  BY <1>3, ObserverStep
<1>4. CASE attach \/ capture_exits \/ execv
  BY <1>4, KernelStep
<1>5. CASE Scheduling \/ artifact_ends \/ other_ends
  BY <1>5, ClusterStep
<1>6. CASE deletion_fails
  BY <1>6, DeletionStep
<1>7. CASE remove_pod
  BY <1>7, RemovalStep
<1>8. CASE UNCHANGED vars
  <2>1. /\ UNCHANGED <<stage, invocations, answer, seen, pod, podcode, other>>
        /\ UNCHANGED <<pc, overdue, written, key, passed, result, teardown, deleting>>
        /\ UNCHANGED <<observer, listed, obs, execed, event>>
    BY <1>8 DEF vars, mediation, process, cluster, test, cleanup, watching, kernel
  <2>2. Types' /\ Dispatched' /\ Watched'
    BY <2>1 DEF Inv, Types, Dispatched, Over, Watched
  <2>3. Criteria' /\ Filed' /\ Cleaned'
    BY <2>1 DEF Inv, Criteria, Own, Over, Filed, Recorded, Ending, Cleaned
  <2> QED BY <2>2, <2>3 DEF Inv
<1> QED BY <1>1, <1>2, <1>3, <1>4, <1>5, <1>6, <1>7, <1>8 DEF Next

\* The invariant of every attempt.
LEMMA AttemptInvariant == Spec => []Inv
  BY InvInit, InvNext, PTL DEF Spec

\* Every variable keeps its type, and the attempt's dispatch its place in the test.
THEOREM TypeCorrectness == Spec => [](Types /\ Dispatched)
<1>1. Inv => Types /\ Dispatched
  BY DEF Inv
<1> QED BY <1>1, AttemptInvariant, PTL

\* A criterion that passes is true of the attempt's own Pod, an attempt that passes has the
\* observation it was judged by in its files, and no Pod is left behind.
THEOREM AttemptsAreSound == Spec => []AttemptIsSound
<1>1. Inv => AttemptIsSound
  <2> SUFFICES ASSUME Inv PROVE AttemptIsSound
    OBVIOUS
  <2>1. CriteriaAreTrue
    BY DEF Inv, Criteria, Own, CriteriaAreTrue
  <2>2. WrittenAsJudged
    BY DEF Inv, Filed, Recorded, Ending, WrittenAsJudged
  <2>3. NothingLeft
    BY DEF Inv, Cleaned, NothingLeft, Phases, TERMINAL_PHASES
  <2> QED BY <2>1, <2>2, <2>3 DEF AttemptIsSound
<1> QED BY <1>1, AttemptInvariant, PTL
=============================================================================
