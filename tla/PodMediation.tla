---------------------------- MODULE PodMediation ----------------------------
(* K8sPodBackend (siphonophore_core/execution_k8s.py), which runs an       *)
(* artifact as a Pod through kubectl, and sipho-mediate (experiments/      *)
(* k8s_mediation_bypass/sipho_bypass/mediator), the process that parses    *)
(* one request, puts it through a Gate and an Executor of its own and      *)
(* answers with one bounded response.                                      *)
(*                                                                         *)
(* A dispatch is a mediator process or a direct call of the backend; each  *)
(* creates one Pod under a fresh name, which the kubelet runs and which    *)
(* teardown may delete.  Every kubectl call may fail, and a failed apply   *)
(* may have created its Pod.  That kubectl returns at all is assumed: only *)
(* the reachability check has a timeout.                                   *)
EXTENDS Integers, Sequences

CONSTANTS
  Mediated,         \* dispatches through sipho-mediate
  Direct,           \* calls of K8sPodBackend.run outside it
  Kind,             \* the kind a mediated request names
  AuthorizedKinds,  \* config.authorized_kinds
  Deployments,      \* what may be wrong with an invocation or its configuration: sets of faults
  Enforced,         \* config.enforce_deployment_hardening
  FaultSets,        \* what may be wrong with a request's bytes: sets of Codes
  None

Dispatches == Mediated \cup Direct

ASSUME KindAssumption == Kind \in [Mediated -> {"run_artifact", "write_file"}]
ASSUME DisjointAssumption == Mediated \cap Direct = {}
ASSUME NoneAssumption == None \notin Int

\* parse_request's refusals, in the order they are tested.
Codes == <<"empty_request", "request_too_large", "not_utf8", "duplicate_field",
  "malformed_json", "not_an_object", "forbidden_field", "unknown_field", "missing_field",
  "bad_protocol_version_type", "unsupported_protocol_version", "bad_kind_type",
  "kind_not_expressible", "bad_artifact_code_type", "unencodable", "empty_artifact_code",
  "artifact_code_too_large", "nul_byte_in_field", "bad_payload_type",
  "payload_not_json_serializable", "payload_too_large", "bad_request_label_type",
  "bad_request_label_format">>
\* Not a ProtocolError: artifact_code.encode raises on a lone surrogate.
Escaping == {"unencodable"}

ASSUME EnforcedAssumption == Enforced \in BOOLEAN
ASSUME FaultAssumption == FaultSets \subseteq SUBSET {Codes[i] : i \in 1 .. Len(Codes)}

VARIABLES
  stage,        \* where a dispatch is
  access,       \* what its kubectl is allowed: "get_namespace", "create"
  invocations,  \* CountingBackend.invocations
  answer,       \* the class of handle_request's response, or how run() ended
  detail,       \* the code of a protocol_error
  text,         \* what is left of the artifact's output in the answer
  code,         \* the mediator's exit status
  late,         \* dispatches whose deadline has passed
  seen,         \* pod_status of the last poll: phase and the artifact's exit code
  pod,          \* the Pod of a dispatch: its phase, "none" or "deleted"
  podcode,      \* the exit code the artifact's container terminated with
  output        \* what the artifact wrote

process == <<stage, access, invocations, answer, detail, text, code, late, seen>>
cluster == <<pod, podcode, output>>
mediation == <<process, cluster>>

TERMINAL_PHASES == {"Succeeded", "Failed"}
Phases == {"Pending", "Running"} \cup TERMINAL_PHASES
Outputs == {"sentinel", "secret", "long", "undecodable"}
Goto(d, s) == stage' = [stage EXCEPT ![d] = s]

-----------------------------------------------------------------------------
(* The mediator.                                                           *)

Exit(d, status) ==
  /\ Goto(d, "exited")
  /\ code' = [code EXCEPT ![d] = status]

\* load_config and MediatorConfig: these are a ConfigError; bytes that are not UTF-8 are not.
ConfigErrors == {"missing", "unreadable", "malformed", "not_an_object", "unknown_keys",
  "bad_kinds", "empty_kinds", "other_class"}

\* deployment_findings, looked at only where the configuration asks for it.
Findings == {"relative_kubectl", "no_kubeconfig", "pythonpath", "empty_sys_path"}

\* main, before it reads the request: the status it ends with, 0 to go on.
startup(faults) ==
  CASE "arguments" \in faults -> 64
    [] "arguments" \notin faults /\ "undecodable" \in faults -> 1
    [] faults \cap {"arguments", "undecodable"} = {} /\ faults \cap ConfigErrors # {} -> 65
    [] faults \subseteq Findings /\ Enforced /\ faults # {} -> 71
    [] OTHER -> 0

start(d) ==
  /\ d \in Mediated /\ stage[d] = "idle"
  /\ \E faults \in Deployments :
       IF startup(faults) = 0 THEN Goto(d, "reading") /\ UNCHANGED code
                              ELSE Exit(d, startup(faults))
  /\ UNCHANGED <<cluster, access, invocations, answer, detail, text, late, seen>>

\* The first test a request fails; None accepts it.
parse_request(faults) ==
  LET failing == {i \in 1 .. Len(Codes) : Codes[i] \in faults}
  IN IF failing = {} THEN None
     ELSE Codes[CHOOSE i \in failing : \A j \in failing : i <= j]

\* A mediator emits its response; a direct caller gets the Effect or the exception.
Answer(d, class) ==
  /\ answer' = [answer EXCEPT ![d] = class]
  /\ Goto(d, IF d \in Mediated THEN "emitting" ELSE "exited")

\* handle_request up to the dispatch: a ProtocolError is an answer, any other exception ends
\* the process with EXIT_INTERNAL and no response.
parse(d) ==
  /\ stage[d] = "reading"
  /\ \E faults \in FaultSets :
       LET refusal == parse_request(faults) IN
       \/ /\ refusal = None
          /\ Goto(d, "parsed")
          /\ UNCHANGED <<answer, detail, code>>
       \/ /\ refusal \in Escaping
          /\ Exit(d, 70)
          /\ UNCHANGED <<answer, detail>>
       \/ /\ refusal \notin Escaping \cup {None}
          /\ Answer(d, "protocol_error")
          /\ detail' = [detail EXCEPT ![d] = refusal]
          /\ UNCHANGED code
  /\ UNCHANGED <<cluster, access, invocations, text, late, seen>>

\* Broker.dispatch: the Gate refuses a kind outside the order, and the Executor refuses
\* nothing the Gate has just minted.  CountingBackend counts before it calls.
mediate(d) ==
  /\ stage[d] = "parsed"
  /\ IF Kind[d] \in AuthorizedKinds
       THEN /\ invocations' = [invocations EXCEPT ![d] = @ + 1]
            /\ Goto(d, "reaching")
            /\ UNCHANGED answer
       ELSE Answer(d, "gate_violation") /\ UNCHANGED invocations
  /\ UNCHANGED <<cluster, access, detail, text, code, late, seen>>

\* _emit and _write_m_side_record: a response that fails the secret scan is not sent.
emit(d) ==
  /\ stage[d] = "emitting"
  /\ Exit(d, IF text[d] = "secret" THEN 70 ELSE 0)
  /\ UNCHANGED <<cluster, access, invocations, answer, detail, text, late, seen>>

-----------------------------------------------------------------------------
(* K8sPodBackend.run.                                                      *)

\* An exception that is neither ProvisioningError nor ExecutionError is internal_error:
\* here TimeoutExpired, which require_cluster_reachable does not catch.
require_cluster_reachable(d) ==
  /\ stage[d] = "reaching"
  /\ \/ /\ "get_namespace" \in access[d]
        /\ Goto(d, "applying")
        /\ UNCHANGED answer
     \/ \E class \in {"provisioning_unavailable", "internal_error"} : Answer(d, class)
  /\ UNCHANGED <<cluster, access, invocations, detail, text, code, late, seen>>

\* Mutant: a failed apply is taken for an unreachable cluster.
apply_unreachable(d) ==
  /\ stage[d] = "applying"
  /\ \/ "create" \in access[d] /\ pod' = [pod EXCEPT ![d] = "Pending"]
     \/ UNCHANGED pod
  /\ \/ pod'[d] = "Pending" /\ Goto(d, "polling") /\ UNCHANGED answer
     \/ Answer(d, "provisioning_unavailable")
  /\ UNCHANGED <<podcode, output, access, invocations, detail, text, code, late, seen>>

\* kubectl apply: its failure does not say that nothing was created.
apply(d) ==
  /\ stage[d] = "applying"
  /\ \/ "create" \in access[d] /\ pod' = [pod EXCEPT ![d] = "Pending"]
     \/ UNCHANGED pod
  /\ \/ pod'[d] = "Pending" /\ Goto(d, "polling") /\ UNCHANGED answer
     \/ Answer(d, "execution_failed")
  /\ UNCHANGED <<podcode, output, access, invocations, detail, text, code, late, seen>>

\* time.monotonic() passes the deadline, which is set once the Pod is created.
deadline_passes(d) ==
  /\ stage[d] = "polling" /\ d \notin late
  /\ late' = late \cup {d}
  /\ UNCHANGED <<cluster, stage, access, invocations, answer, detail, text, code, seen>>

\* Mutant: only a Pod that was never scheduled is given up.
times_out_pending(d) ==
  /\ stage[d] = "polling" /\ d \in late /\ seen[d][1] = "Pending"
  /\ Answer(d, "execution_failed")
  /\ UNCHANGED <<cluster, access, invocations, detail, text, code, late, seen>>

\* Past the deadline the loop gives up and leaves the Pod as it is.
times_out(d) ==
  /\ stage[d] = "polling" /\ d \in late
  /\ Answer(d, "execution_failed")
  /\ UNCHANGED <<cluster, access, invocations, detail, text, code, late, seen>>

\* kubectl get pod, before the deadline: a terminal phase ends the loop.
poll(d) ==
  /\ stage[d] = "polling" /\ d \notin late /\ pod[d] # "deleted"
  /\ seen' = [seen EXCEPT ![d] = <<pod[d], podcode[d]>>]
  /\ IF pod[d] \in TERMINAL_PHASES THEN Goto(d, "terminal") ELSE UNCHANGED stage
  /\ UNCHANGED <<cluster, access, invocations, answer, detail, text, code, late>>

\* A status check may fail at any time, and does once the Pod is deleted; what one prints
\* may be no JSON, which is not an ExecutionError.
poll_fails(d) ==
  /\ stage[d] = "polling" /\ d \notin late
  /\ \/ Answer(d, "execution_failed")
     \/ Answer(d, "internal_error") /\ pod[d] # "deleted"
  /\ UNCHANGED <<cluster, access, invocations, detail, text, code, late, seen>>

\* Mutant: the output is answered whole.
Kept_whole(out) == out

\* _bound_stdout, and the decoding before it: what the answer keeps of an output.
Kept(out) == IF out = "long" THEN "cut" ELSE out

Succeeded(status) == status = <<"Succeeded", 0>>

\* kubectl logs, whose status nobody reads: a call that fails leaves no text.  Success needs
\* the last status to say Succeeded and the artifact's container 0.
finish(d) ==
  /\ stage[d] = "terminal"
  /\ \/ /\ output[d] = "undecodable" /\ pod[d] # "deleted"
        /\ Answer(d, "internal_error")
        /\ UNCHANGED text
     \/ /\ Answer(d, IF Succeeded(seen[d]) THEN "ok" ELSE "execution_failed")
        /\ text' = [text EXCEPT ![d] = IF Succeeded(seen[d]) THEN "lost" ELSE None]
     \/ /\ pod[d] # "deleted" /\ output[d] # "undecodable"
        /\ Answer(d, IF Succeeded(seen[d]) THEN "ok" ELSE "execution_failed")
        /\ text' = [text EXCEPT ![d] = IF Succeeded(seen[d]) THEN Kept(output[d]) ELSE None]
  /\ UNCHANGED <<cluster, access, invocations, detail, code, late, seen>>

-----------------------------------------------------------------------------
(* The cluster.                                                            *)

schedule(d) ==
  /\ pod[d] = "Pending"
  /\ pod' = [pod EXCEPT ![d] = "Running"]
  /\ UNCHANGED <<process, podcode, output>>

\* The Pod ends: with a sidecar it may fail although the artifact did not, and the status of
\* a container may be missing.
pod_ends(d) ==
  /\ pod[d] \in {"Pending", "Running"}
  /\ \E phase \in TERMINAL_PHASES, status \in {None, 0, 1}, out \in Outputs :
       /\ phase = "Succeeded" => status # 1
       /\ pod[d] = "Pending" => phase = "Failed" /\ status = None
       /\ pod' = [pod EXCEPT ![d] = phase]
       /\ podcode' = [podcode EXCEPT ![d] = status]
       /\ output' = [output EXCEPT ![d] = out]
  /\ UNCHANGED process

\* Teardown by label: a direct caller chose the execution id, a mediated one reads it in the
\* response.
delete_labeled_pods(d) ==
  /\ pod[d] \in Phases
  /\ d \in Direct \/ code[d] = 0
  /\ pod' = [pod EXCEPT ![d] = "deleted"]
  /\ UNCHANGED <<process, podcode, output>>

-----------------------------------------------------------------------------
MediationInit ==
  /\ stage = [d \in Dispatches |-> "idle"]
  /\ access \in [Dispatches -> SUBSET {"get_namespace", "create"}]
  /\ invocations = [d \in Dispatches |-> 0]
  /\ answer = [d \in Dispatches |-> None]
  /\ detail = [d \in Dispatches |-> None]
  /\ text = [d \in Dispatches |-> None]
  /\ code = [d \in Dispatches |-> None]
  /\ late = {}
  /\ seen = [d \in Dispatches |-> <<"Pending", None>>]
  /\ pod = [d \in Dispatches |-> "none"]
  /\ podcode = [d \in Dispatches |-> None]
  /\ output = [d \in Dispatches |-> None]

run(d) ==
  \/ require_cluster_reachable(d) \/ apply(d) \/ deadline_passes(d) \/ times_out(d)
  \/ poll(d) \/ poll_fails(d) \/ finish(d)
handle(d) == parse(d) \/ mediate(d) \/ emit(d)
cluster_step(d) == schedule(d) \/ pod_ends(d) \/ delete_labeled_pods(d)

-----------------------------------------------------------------------------
(* Properties.                                                             *)

\* What a mediator answers fits what it did to the cluster.  Its refusals, an unreachable
\* cluster and a process that ends before parsing leave no Pod; a Pod means one call of the
\* backend; ok means a Pod that succeeded with 0; a Pod still pending or running behind an
\* answer is behind a failure (service.handle_request, K8sPodBackend.run).
NoPodBehind == {None, "protocol_error", "gate_violation", "provisioning_unavailable"}
AnswerMatchesCluster == \A d \in Mediated :
  /\ pod[d] # "none" => invocations[d] = 1
  /\ stage[d] \in {"emitting", "exited"} =>
       /\ answer[d] \in NoPodBehind => pod[d] = "none"
       /\ answer[d] = "ok" => pod[d] \in {"Succeeded", "deleted"} /\ podcode[d] = 0
       /\ pod[d] \in {"Pending", "Running"} => answer[d] \in {"execution_failed", "internal_error"}
=============================================================================
