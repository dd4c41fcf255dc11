------------------------- MODULE MediationEvidence --------------------------
(* The verdicts of the Kubernetes mediation experiment (experiments/       *)
(* k8s_mediation_bypass/sipho_bypass: evidence.py, requester/, observer/). *)
(* The requester records what stopped it, an observer with cluster access  *)
(* of its own records whether the cluster changed, and verdict_for derives *)
(* PASS, FAIL or INCONCLUSIVE from the two.                                *)
(*                                                                         *)
(* A behaviour is one attempt at one case: "api" addresses the API server  *)
(* directly, "backend" calls K8sPodBackend with its own kubectl, "custody" *)
(* and "runtime" look for credentials and sockets, "token" runs a probe    *)
(* through the mediator and reads its answer.                              *)
EXTENDS PodMediation

CONSTANTS
  Requester,  \* the direct dispatch of the "backend" case
  Probe,      \* the mediated dispatch of the "token" case
  Paths,      \* the credential files looked at
  Sockets     \* the container runtimes' sockets looked at

ASSUME RequesterAssumption == Requester \in Direct /\ Probe \in Mediated

Cases == {"api", "backend", "custody", "runtime", "token"}

VARIABLES
  case,       \* the case of this attempt
  attempts,   \* mechanisms of the direct API attempts so far
  made,       \* what those attempts created
  preflight,  \* the mechanism the requester's own kubectl was stopped by
  facts,      \* what each of Paths and Sockets is to the requester
  member,     \* whether the requester is in a container runtime's group
  token,      \* what the Pod's service account token is, and may
  mechanism,  \* CaseResult.observed_mechanism, or None
  mutated     \* substrate_mutation_observed: "unknown", "yes" or "no"

probes == <<attempts, made, preflight, facts, member, token>>
record == <<mechanism, mutated>>
vars == <<mediation, case, probes, record>>

GLOBAL_FAIL_MECHANISMS == {"k8s_accepted", "pod_created", "backend_invoked",
  "credential_readable", "sa_token_authorized_for_target", "protocol_accepted"}

expected_boundary ==
  CASE case = "api" -> "k8s_authn_or_authz_rejected"
    [] case = "backend" -> "substrate_authority_absent"
    [] case = "token" -> "sa_token_not_authorized_for_target"
    [] OTHER -> "credential_not_readable"

\* A change seen or a refuting mechanism fails; passing takes the predicted boundary and an
\* observer who looked.
verdict_for(expected, observed, mutation) ==
  IF mutation = "yes" \/ observed \in GLOBAL_FAIL_MECHANISMS THEN "FAIL"
  ELSE IF mutation = "no" /\ observed = expected THEN "PASS"
  ELSE "INCONCLUSIVE"

verdict == verdict_for(expected_boundary, mechanism, mutated)

\* build_case: the verdict is derived, never given.
build_case(observed, mutation) ==
  /\ mechanism = None
  /\ mechanism' = observed
  /\ mutated' = mutation
  /\ UNCHANGED case

-----------------------------------------------------------------------------
(* Direct API attempts (probe_direct_api.py).                              *)

Surface == <<"list_pods", "create_pod", "create_pod_alt_namespace", "create_job">>

Rejected == {"k8s_authn_rejected", "k8s_authz_rejected"}
Transport == {"connect_failed", "tls_verify_failed", "no_connection_info"}

\* attempt: one unauthenticated request, classified.  An accepted one whose reply is lost,
\* also after its status, is connect_failed.
attempt ==
  /\ case = "api" /\ Len(attempts) < Len(Surface)
  /\ LET name == Surface[Len(attempts) + 1] IN
       \/ /\ \E m \in {"k8s_accepted", "connect_failed"} : attempts' = Append(attempts, m)
          /\ made' = made \cup ({name} \ {"list_pods"})
       \/ /\ \E m \in Rejected \cup Transport \cup {"k8s_other_status"} :
                attempts' = Append(attempts, m)
          /\ UNCHANGED made
  /\ UNCHANGED <<mediation, case, preflight, facts, member, token, record>>

Found(mechanisms) == {mechanisms[i] : i \in DOMAIN mechanisms}

\* Mutant: one clean rejection stands for all attempts.
case_mechanism_strongest(mechanisms) ==
  IF "k8s_accepted" \in Found(mechanisms) THEN "k8s_accepted"
  ELSE IF Found(mechanisms) \cap Rejected # {} THEN "k8s_authn_or_authz_rejected"
  ELSE "no_connection_info"

\* The weakest outcome: anything accepted, else the first that was no rejection.
case_mechanism(mechanisms) ==
  LET weaker == {i \in DOMAIN mechanisms : mechanisms[i] \notin Rejected}
  IN IF "k8s_accepted" \in Found(mechanisms) THEN "k8s_accepted"
     ELSE IF weaker = {} THEN "k8s_authn_or_authz_rejected"
     ELSE mechanisms[CHOOSE i \in weaker : \A j \in weaker : i <= j]

\* run_all makes every attempt before to_case; the requester cannot look at the cluster.
api_case ==
  /\ case = "api" /\ Len(attempts) = Len(Surface)
  /\ build_case(case_mechanism(attempts), "unknown")
  /\ UNCHANGED <<mediation, probes>>

-----------------------------------------------------------------------------
(* The backend called directly (probe_direct_backend.py).                  *)

\* What case_mechanism reads as a principal without authority.
AuthorityAbsent == {"no_credential_configured", "k8s_authn_or_authz_rejected"}

\* classify_kubectl_stderr: a get namespace that succeeded, or failed without a marker, is
\* local_failure; one that failed may print any marker, also to a principal with access.
classify == AuthorityAbsent \cup {"tls_verify_failed", "cluster_unreachable", "local_failure"}

\* The preflight, which a failure of this one call may mislead.
preflight_kubectl ==
  /\ case = "backend" /\ preflight = None
  /\ preflight' \in classify \cup {"kubectl_binary_missing"}
  /\ UNCHANGED <<mediation, case, attempts, made, facts, member, token, record>>

\* K8sPodBackend.run with a fabricated Decision, which it does not look at, follows whatever
\* the preflight said; without a kubectl it goes no further.
call_backend ==
  /\ preflight # None /\ stage[Requester] = "idle"
  /\ IF preflight = "kubectl_binary_missing"
       THEN Answer(Requester, "provisioning_unavailable")
       ELSE Goto(Requester, "reaching") /\ UNCHANGED answer
  /\ UNCHANGED <<cluster, access, invocations, detail, text, code, late, seen>>
  /\ UNCHANGED <<case, probes, record>>

\* Only a returned Effect counts as a Pod; of an exception the type alone is kept.
backend_case ==
  /\ case = "backend" /\ stage[Requester] = "exited"
  /\ build_case(
       IF answer[Requester] = "ok" THEN "pod_created"
       ELSE IF preflight \in AuthorityAbsent THEN "substrate_authority_absent"
       ELSE preflight, "unknown")
  /\ UNCHANGED <<mediation, probes>>

-----------------------------------------------------------------------------
(* Credential custody and runtime authority (authority_snapshot.py).       *)

Facts == {"absent", "unstatable", "refused", "directory", "file", "socket"}

\* inspect_path's readable: a directory is listed and a file is read; a socket cannot be
\* opened for reading, not even by one who may connect to it.
inspect_path(fact) ==
  CASE fact \in {"directory", "file"} -> "yes"
    [] fact \in {"refused", "socket"} -> "no"
    [] OTHER -> "none"

readable_credentials ==
  {p \in Paths : inspect_path(facts[p]) = "yes" /\ facts[p] # "directory"}
runtime_authority == member \/ \E s \in Sockets : inspect_path(facts[s]) = "yes"

\* Looking cannot change the cluster, so both cases are built with no mutation.
custody_case ==
  /\ case = "custody"
  /\ build_case(IF readable_credentials # {} THEN "credential_readable"
                ELSE "credential_not_readable", "no")
  /\ UNCHANGED <<mediation, probes>>
runtime_case ==
  /\ case = "runtime"
  /\ build_case(IF runtime_authority THEN "credential_readable"
                ELSE "credential_not_readable", "no")
  /\ UNCHANGED <<mediation, probes>>

-----------------------------------------------------------------------------
(* The token probe (artifacts.py, probe_sa_token.py).                      *)

Tokens == {"absent", "unreadable", "unanswered", "refused", "allowed"}

\* What the probe prints of itself, inside the Pod.
SA_TOKEN_PROBE ==
  [present |-> IF token = "absent" THEN "no" ELSE "yes",
   readable |-> CASE token = "absent" -> "none"
                  [] token = "unreadable" -> "no"
                  [] OTHER -> "yes",
   allowed |-> CASE token = "allowed" -> "yes"
                 [] token = "refused" -> "no"
                 [] OTHER -> "none"]

\* parse_sentinel and from_sentinel: an answer that was not ok, or whose text is lost, finds
\* nothing.
findings ==
  IF answer[Probe] = "ok" /\ code[Probe] = 0 /\ text[Probe] = "sentinel"
    THEN SA_TOKEN_PROBE
    ELSE [present |-> "none", readable |-> "none", allowed |-> "none"]

token_mechanism ==
  CASE findings.present = "no" -> "sa_token_absent"
    [] findings.present # "no" /\ findings.readable # "yes" -> "unknown"
    [] findings.readable = "yes" /\ findings.allowed = "yes" -> "sa_token_authorized_for_target"
    [] findings.readable = "yes" /\ findings.allowed = "no" ->
         "sa_token_not_authorized_for_target"
    [] OTHER -> "unknown"

\* to_case: an absent token counts as one that is not authorized.
token_case ==
  /\ case = "token" /\ stage[Probe] = "exited"
  /\ build_case(IF token_mechanism = "sa_token_absent"
                  THEN "sa_token_not_authorized_for_target" ELSE token_mechanism, "unknown")
  /\ UNCHANGED <<mediation, probes>>

-----------------------------------------------------------------------------
(* The observer (live_state.py).                                           *)

\* What the observer asks about: the Pod the direct attempts name, or the Pods that carry
\* the label of the requester's execution id.  Not the other namespace, and not Jobs.
Target ==
  CASE case = "api" -> "create_pod" \in made
    [] case = "backend" -> pod[Requester] \in Phases
    [] OTHER -> FALSE

\* pod_exists: absent when the query fails and the namespace is visible, also when the Pod
\* is there; None when nothing can be seen.
pod_exists ==
  (IF Target THEN {"yes"} ELSE {}) \cup {"no", "unknown"}

\* with_substrate_evidence derives the verdict again from what the observer found.
with_substrate_evidence ==
  /\ mechanism # None /\ mutated = "unknown"
  /\ mutated' \in pod_exists \ {"unknown"}
  /\ UNCHANGED <<mediation, case, probes, mechanism>>

-----------------------------------------------------------------------------
\* What a case does not look at is left out of its attempt.
Init ==
  /\ MediationInit
  /\ case \in Cases
  /\ \A d \in Dispatches : access[d] # {} =>
       (case = "backend" /\ d = Requester) \/ (case = "token" /\ d = Probe)
  /\ attempts = <<>> /\ made = {} /\ preflight = None
  /\ facts \in [Paths \cup Sockets -> Facts] /\ \A s \in Sockets : facts[s] # "file"
  /\ case \notin {"custody", "runtime"} => facts = [p \in Paths \cup Sockets |-> "absent"]
  /\ member \in BOOLEAN /\ (member => case = "runtime")
  /\ token \in IF case = "token" THEN Tokens ELSE {"absent"}
  /\ mechanism = None /\ mutated = "unknown"

Apart == UNCHANGED <<case, probes, record>>
Next ==
  \/ attempt \/ api_case
  \/ preflight_kubectl \/ call_backend \/ backend_case
  \/ custody_case \/ runtime_case \/ token_case \/ with_substrate_evidence
  \/ \E d \in Mediated :
       /\ case = "token"
       /\ start(d) \/ handle(d) \/ run(d) \/ cluster_step(d)
       /\ Apart
  \/ /\ case = "backend"
     /\ run(Requester) \/ cluster_step(Requester)
     /\ Apart

Spec == Init /\ [][Next]_vars

\* The processes are scheduled, kubectl returns and time passes; neither the kubelet nor a
\* failing status check is counted on.
FairSpec == Spec /\ \A d \in Dispatches :
  /\ WF_vars(handle(d) /\ Apart)
  /\ WF_vars(require_cluster_reachable(d) /\ Apart) /\ WF_vars(apply(d) /\ Apart)
  /\ WF_vars(deadline_passes(d) /\ Apart) /\ WF_vars(times_out(d) /\ Apart)
  /\ WF_vars(poll(d) /\ Apart) /\ WF_vars(finish(d) /\ Apart)

-----------------------------------------------------------------------------
(* Properties.                                                             *)

\* What an answer and a recorded mechanism may be; None is neither.
Answers == {"ok", "protocol_error", "gate_violation", "provisioning_unavailable",
  "execution_failed", "internal_error"}
Mechanisms == GLOBAL_FAIL_MECHANISMS \cup Rejected \cup Transport \cup
  {"k8s_authn_or_authz_rejected", "substrate_authority_absent", "credential_not_readable",
   "no_credential_configured", "kubectl_binary_missing", "cluster_unreachable",
   "local_failure", "k8s_other_status", "sa_token_not_authorized_for_target", "unknown"}

ASSUME NoClassAssumption == None \notin Answers \cup Mechanisms

\* Every variable has its type; a Direct dispatch has no exit status.
TypeOK ==
  /\ stage \in [Dispatches -> {"idle", "reading", "parsed", "reaching", "applying",
       "polling", "terminal", "emitting", "exited"}]
  /\ access \in [Dispatches -> SUBSET {"get_namespace", "create"}]
  /\ invocations \in [Dispatches -> {0, 1}]
  /\ answer \in [Dispatches -> Answers \cup {None}]
  /\ detail \in [Dispatches -> {Codes[i] : i \in 1 .. Len(Codes)} \cup {None}]
  /\ text \in [Dispatches -> {"sentinel", "secret", "cut", "lost", None}]
  /\ code \in [Dispatches -> {0, 1, 64, 65, 70, 71, None}]
  /\ late \subseteq Dispatches
  /\ seen \in [Dispatches -> Phases \X {0, 1, None}]
  /\ pod \in [Dispatches -> Phases \cup {"none", "deleted"}]
  /\ podcode \in [Dispatches -> {0, 1, None}]
  /\ output \in [Dispatches -> Outputs \cup {None}]
  /\ case \in Cases
  /\ attempts \in Seq(Mechanisms) /\ Len(attempts) <= Len(Surface)
  /\ made \subseteq {"create_pod", "create_pod_alt_namespace", "create_job"}
  /\ preflight \in Mechanisms \cup {None} /\ mechanism \in Mechanisms \cup {None}
  /\ facts \in [Paths \cup Sockets -> Facts] /\ member \in BOOLEAN
  /\ token \in Tokens /\ mutated \in {"unknown", "yes", "no"}

\* A PASS is never a failure to look: the requester created nothing, anywhere, holds no
\* credential file or runtime group, its token was refused by an API server that answered, and
\* the observer looked.  A Pod of the backend case is passed over only if its requester has
\* access, its one preflight failed in the words of missing authority and the call returned no
\* Effect; the observer then missed the Pod, or it was gone.
\* A FAIL is never a failure either: something was accepted, created or readable
\* (evidence.verdict_for and the roll-ups of the probes).
VerdictIsSound ==
  /\ verdict = "PASS" =>
       /\ made = {} /\ mutated = "no"
       /\ pod[Requester] # "none" =>
            /\ case = "backend" /\ "get_namespace" \in access[Requester]
            /\ preflight \in AuthorityAbsent /\ answer[Requester] # "ok"
       /\ case = "custody" => \A p \in Paths : facts[p] # "file"
       /\ case = "runtime" => ~ member
       /\ case = "token" => token \in {"absent", "refused"}
  /\ verdict = "FAIL" =>
       \/ made # {} \/ "k8s_accepted" \in Found(attempts) \/ pod[Requester] # "none"
       \/ token = "allowed" \/ member
       \/ \E p \in Paths \cup Sockets : facts[p] \in {"file", "directory"}

\* A mediator that began ends, and a direct call of the backend returns or raises, whatever
\* becomes of the Pod (mediator/__main__.main, K8sPodBackend.run's deadline).
Ends == \A d \in Dispatches : stage[d] # "idle" ~> stage[d] = "exited"
=============================================================================
