------------------------ MODULE MediationEvidence_proofs ------------------------
(* Theorems about MediationEvidence: for any number of dispatches, whatever *)
(* their requests, their access and the cluster do, a mediator's answer     *)
(* fits the Pod it left, and a verdict is what its attempt was.             *)
EXTENDS MediationEvidence, TLAPS

-----------------------------------------------------------------------------
(* The inductive invariant, of the dispatches and then of the record.      *)

\* The types of a dispatch's variables, and of the others.
CodeSet == {Codes[i] : i \in 1 .. Len(Codes)}
Stages == {"idle", "reading", "parsed", "reaching", "applying", "polling", "terminal",
  "emitting", "exited"}
PodType ==
  /\ stage \in [Dispatches -> Stages]
  /\ access \in [Dispatches -> SUBSET {"get_namespace", "create"}]
  /\ invocations \in [Dispatches -> {0, 1}]
  /\ answer \in [Dispatches -> Answers \cup {None}]
  /\ detail \in [Dispatches -> CodeSet \cup {None}]
  /\ text \in [Dispatches -> {"sentinel", "secret", "cut", "lost", None}]
  /\ code \in [Dispatches -> {0, 1, 64, 65, 70, 71, None}]
  /\ late \subseteq Dispatches
  /\ seen \in [Dispatches -> Phases \X {0, 1, None}]
  /\ pod \in [Dispatches -> Phases \cup {"none", "deleted"}]
  /\ podcode \in [Dispatches -> {0, 1, None}]
  /\ output \in [Dispatches -> Outputs \cup {None}]
RecordType ==
  /\ case \in Cases
  /\ attempts \in Seq(Mechanisms) /\ Len(attempts) <= Len(Surface)
  /\ made \subseteq {"create_pod", "create_pod_alt_namespace", "create_job"}
  /\ preflight \in Mechanisms \cup {None} /\ mechanism \in Mechanisms \cup {None}
  /\ facts \in [Paths \cup Sockets -> Facts] /\ member \in BOOLEAN
  /\ token \in Tokens /\ mutated \in {"unknown", "yes", "no"}

\* Where a dispatch is says whether it has a Pod and has called the backend, and what it
\* last saw of the Pod is what the Pod ended with.
Started == {"reaching", "applying", "polling", "terminal"}
Behind(d) ==
  /\ stage[d] \in {"idle", "reading", "parsed", "reaching", "applying"} =>
       pod[d] = "none" /\ answer[d] = None
  /\ stage[d] \in {"reading", "parsed", "emitting"} => d \in Mediated
  /\ stage[d] \in {"polling", "terminal"} => pod[d] # "none"
  /\ d \in Mediated =>
       /\ stage[d] \in {"idle", "reading", "parsed"} => invocations[d] = 0
       /\ stage[d] \in Started \/ pod[d] # "none" => invocations[d] = 1
  /\ stage[d] = "terminal" =>
       /\ seen[d][1] \in TERMINAL_PHASES /\ seen[d][2] = podcode[d]
       /\ pod[d] \in {seen[d][1], "deleted"}
  /\ stage[d] \in {"emitting", "exited"} =>
       /\ answer[d] \in NoPodBehind => pod[d] = "none"
       /\ answer[d] = "ok" => pod[d] \in {"Succeeded", "deleted"} /\ podcode[d] = 0
       /\ pod[d] \in {"Pending", "Running"} => answer[d] \in {"execution_failed", "internal_error"}
PodInv == PodType /\ \A d \in Dispatches : Behind(d)

\* The direct call follows its preflight, and without access it goes no further than the
\* reachability check.
Preflights == {"no_credential_configured", "k8s_authn_or_authz_rejected",
  "kubectl_binary_missing", "cluster_unreachable", "tls_verify_failed", "local_failure"}
Requesting ==
  /\ case # "backend" => stage[Requester] = "idle"
  /\ preflight = None => stage[Requester] = "idle"
  /\ preflight # None => case = "backend"
  /\ preflight \in Preflights \cup {None}
  /\ "get_namespace" \notin access[Requester] =>
       /\ stage[Requester] \in {"idle", "reaching", "exited"}
       /\ pod[Requester] = "none" /\ answer[Requester] # "ok"

\* Whatever the direct attempts created is behind one that was not rejected.
Outcomes == Rejected \cup Transport \cup {"k8s_accepted", "k8s_other_status"}
Attempted ==
  /\ case # "api" => attempts = <<>>
  /\ \A i \in DOMAIN attempts : attempts[i] \in Outcomes
  /\ made # {} => \E i \in DOMAIN attempts : attempts[i] \in {"k8s_accepted", "connect_failed"}

\* A recorded mechanism is what the case's probe found, and stays so.
ApiFound == Len(attempts) = Len(Surface) /\ mechanism = case_mechanism(attempts)
BackendFound ==
  /\ stage[Requester] = "exited"
  /\ mechanism \in Preflights \cup {"pod_created", "substrate_authority_absent"}
  /\ mechanism = "pod_created" => answer[Requester] = "ok"
  /\ mechanism = "substrate_authority_absent" =>
       preflight \in AuthorityAbsent /\ answer[Requester] # "ok"
CustodyFound ==
  mechanism = IF readable_credentials # {} THEN "credential_readable"
              ELSE "credential_not_readable"
RuntimeFound ==
  mechanism = IF runtime_authority THEN "credential_readable" ELSE "credential_not_readable"
TokenFound ==
  /\ mechanism \in {"sa_token_not_authorized_for_target", "sa_token_authorized_for_target",
       "unknown"}
  /\ mechanism = "sa_token_not_authorized_for_target" => token \in {"absent", "refused"}
  /\ mechanism = "sa_token_authorized_for_target" => token = "allowed"
Recorded ==
  /\ mechanism = None => mutated = "unknown"
  /\ mutated = "yes" => made # {} \/ pod[Requester] # "none"
  /\ mechanism # None =>
       /\ case = "api" => ApiFound
       /\ case = "backend" => BackendFound
       /\ case = "custody" => CustodyFound
       /\ case = "runtime" => RuntimeFound
       /\ case = "token" => TokenFound

Inv == PodInv /\ RecordType /\ Requesting /\ Attempted /\ Recorded

\* The two types together are the type invariant.
LEMMA TypesAgree == (PodType /\ RecordType) <=> TypeOK
  BY DEF PodType, RecordType, TypeOK, Stages, CodeSet

-----------------------------------------------------------------------------
(* What a test picks.                                                      *)

\* None is no answer, no mechanism and not 0.
LEMMA NoneIsApart == None \notin Answers /\ None \notin Mechanisms /\ None # 0
  BY NoneAssumption, NoClassAssumption

\* A nonempty set of positions up to 23 has a first one.
LEMMA FirstOf ==
  ASSUME NEW S, S \subseteq 1 .. 23, S # {}
  PROVE  (CHOOSE i \in S : \A j \in S : i <= j) \in S
<1>1. \E i \in S : \A j \in S : i <= j
  <2> SUFFICES ASSUME \A i \in S : \E j \in S : j < i PROVE FALSE
    OBVIOUS
  <2>1. \A j \in S : j > 4
    OBVIOUS
  <2>2. \A j \in S : j > 8
    BY <2>1
  <2>3. \A j \in S : j > 12
    BY <2>2
  <2>4. \A j \in S : j > 16
    BY <2>3
  <2>5. \A j \in S : j > 20
    BY <2>4
  <2>6. \A j \in S : j > 23
    BY <2>5
  <2>7. PICK k \in S : TRUE
    OBVIOUS
  <2> QED BY <2>6, <2>7
<1> QED BY <1>1

\* Codes has 23 members, and a request's first failing test is one of them.
LEMMA FirstFailing ==
  ASSUME NEW faults
  PROVE  parse_request(faults) \in CodeSet \cup {None}
<1> DEFINE failing == {i \in 1 .. Len(Codes) : Codes[i] \in faults}
<1>1. CASE failing = {}
  BY <1>1 DEF parse_request
<1>2. CASE failing # {}
  <2>1. failing \subseteq 1 .. 23
    BY DEF Codes
  <2>2. (CHOOSE i \in failing : \A j \in failing : i <= j) \in failing
    BY <2>1, <1>2, FirstOf
  <2> QED BY <2>2, <1>2 DEF parse_request, CodeSet
<1> QED BY <1>1, <1>2

\* The roll-up of the attempts is the outcome of one of them, or says that all were rejected.
LEMMA RollUp ==
  ASSUME NEW mechanisms \in Seq(Mechanisms), Len(mechanisms) <= Len(Surface)
  PROVE  LET m == case_mechanism(mechanisms) IN
         \/ m \in Found(mechanisms) \ Rejected
         \/ m = "k8s_authn_or_authz_rejected" /\ Found(mechanisms) \subseteq Rejected
<1> DEFINE weaker == {i \in DOMAIN mechanisms : mechanisms[i] \notin Rejected}
<1>1. CASE "k8s_accepted" \in Found(mechanisms)
  BY <1>1 DEF case_mechanism, Rejected
<1>2. CASE "k8s_accepted" \notin Found(mechanisms) /\ weaker = {}
  BY <1>2 DEF case_mechanism, Found
<1>3. CASE "k8s_accepted" \notin Found(mechanisms) /\ weaker # {}
  <2>1. weaker \subseteq 1 .. 23
    BY DEF Surface
  <2>2. (CHOOSE i \in weaker : \A j \in weaker : i <= j) \in weaker
    BY <2>1, <1>3, FirstOf
  <2> QED BY <2>2, <1>3 DEF case_mechanism, Found
<1> QED BY <1>1, <1>2, <1>3

-----------------------------------------------------------------------------
(* One step of one dispatch.                                               *)

\* A step of d leaves every other dispatch as it is, and takes back neither a Pod nor the end
\* of d itself.
Frame(d) ==
  /\ access' = access
  /\ \A e \in Dispatches : e # d =>
       /\ stage'[e] = stage[e] /\ answer'[e] = answer[e] /\ invocations'[e] = invocations[e]
       /\ pod'[e] = pod[e] /\ podcode'[e] = podcode[e] /\ seen'[e] = seen[e]
  /\ pod[d] # "none" => pod'[d] # "none"
  /\ stage[d] = "exited" => stage'[d] = "exited" /\ answer'[d] = answer[d]

\* So it is enough to look at d.
LEMMA OnlyOne ==
  ASSUME NEW d \in Dispatches, PodInv, Frame(d), PodType', Behind(d)'
  PROVE  PodInv'
  BY DEF PodInv, Frame, Behind

USE DEF process, cluster, Phases, TERMINAL_PHASES, Outputs, Started, NoPodBehind, Answers, Stages

\* What Goto, Answer and Exit set.
WentTo(d, s) ==
  /\ stage' \in [Dispatches -> Stages] /\ stage'[d] = s
  /\ \A e \in Dispatches : e # d => stage'[e] = stage[e]
AnsweredAs(d, class) ==
  /\ stage' \in [Dispatches -> Stages] /\ stage'[d] \in {"emitting", "exited"}
  /\ stage'[d] = "emitting" => d \in Mediated
  /\ answer' \in [Dispatches -> Answers \cup {None}] /\ answer'[d] = class
  /\ \A e \in Dispatches : e # d => stage'[e] = stage[e] /\ answer'[e] = answer[e]
Statuses == {0, 1, 64, 65, 70, 71}
LeftBy(d) ==
  /\ stage' \in [Dispatches -> Stages] /\ stage'[d] = "exited"
  /\ code' \in [Dispatches -> Statuses \cup {None}]
  /\ \A e \in Dispatches : e # d => stage'[e] = stage[e]

\* Goto moves one dispatch.
LEMMA Went ==
  ASSUME NEW d \in Dispatches, PodType, NEW s \in Stages, Goto(d, s)
  PROVE  WentTo(d, s)
  BY DEF PodType, Goto, WentTo

\* Answer ends one dispatch, or leaves it to be answered.
LEMMA Answered ==
  ASSUME NEW d \in Dispatches, PodType, NEW class \in Answers, Answer(d, class)
  PROVE  AnsweredAs(d, class)
  BY DEF PodType, Answer, Goto, AnsweredAs

\* Exit ends one dispatch with a status.
LEMMA Left ==
  ASSUME NEW d \in Dispatches, PodType, NEW status \in Statuses, Exit(d, status)
  PROVE  LeftBy(d)
  BY DEF PodType, Exit, Goto, LeftBy, Statuses

\* A mediator starts, or ends with a status.
LEMMA StartStep ==
  ASSUME NEW d \in Dispatches, PodInv, start(d)
  PROVE  PodInv' /\ Frame(d)
<1>1. PodType /\ Behind(d)
  BY DEF PodInv
<1>2. CASE Goto(d, "reading") /\ UNCHANGED code
  <2>1. WentTo(d, "reading")
    BY <1>1, <1>2, Went
  <2>2. PodType'
    BY <1>1, <1>2, <2>1, NoneIsApart DEF PodType, Behind, start, WentTo
  <2>3. Behind(d)'
    BY <1>1, <1>2, <2>1, NoneIsApart DEF PodType, Behind, start, WentTo
  <2>4. Frame(d)
    BY <1>1, <1>2, <2>1, NoneIsApart DEF PodType, Behind, Frame, start, WentTo
  <2> QED BY <2>2, <2>3, <2>4, OnlyOne
<1>3. CASE \E faults \in Deployments : Exit(d, startup(faults))
  <2>1. LeftBy(d)
    BY <1>1, <1>3, Left DEF startup, Statuses
  <2>2. PodType'
    BY <1>1, <1>3, <2>1, NoneIsApart DEF PodType, Behind, start, LeftBy, Statuses
  <2>3. Behind(d)'
    BY <1>1, <1>3, <2>1, NoneIsApart DEF PodType, Behind, start, LeftBy, Statuses
  <2>4. Frame(d)
    BY <1>1, <1>3, <2>1, NoneIsApart DEF PodType, Behind, Frame, start, LeftBy, Statuses
  <2> QED BY <2>2, <2>3, <2>4, OnlyOne
<1> QED BY <1>1, <1>2, <1>3, NoneIsApart DEF start, PodType

\* A request is parsed, refused or not answered at all.
LEMMA ParseStep ==
  ASSUME NEW d \in Dispatches, PodInv, parse(d)
  PROVE  PodInv' /\ Frame(d)
<1>1. PodType /\ Behind(d)
  BY DEF PodInv
<1>2. CASE Goto(d, "parsed") /\ UNCHANGED <<answer, detail, code>>
  <2>1. WentTo(d, "parsed")
    BY <1>1, <1>2, Went
  <2>2. PodType'
    BY <1>1, <1>2, <2>1, NoneIsApart DEF PodType, Behind, parse, WentTo
  <2>3. Behind(d)'
    BY <1>1, <1>2, <2>1, NoneIsApart DEF PodType, Behind, parse, WentTo
  <2>4. Frame(d)
    BY <1>1, <1>2, <2>1, NoneIsApart DEF PodType, Behind, Frame, parse, WentTo
  <2> QED BY <2>2, <2>3, <2>4, OnlyOne
<1>3. CASE Exit(d, 70) /\ UNCHANGED <<answer, detail>>
  <2>1. LeftBy(d)
    BY <1>1, <1>3, Left DEF Statuses
  <2>2. PodType'
    BY <1>1, <1>3, <2>1, NoneIsApart DEF PodType, Behind, parse, LeftBy, Statuses
  <2>3. Behind(d)'
    BY <1>1, <1>3, <2>1, NoneIsApart DEF PodType, Behind, parse, LeftBy, Statuses
  <2>4. Frame(d)
    BY <1>1, <1>3, <2>1, NoneIsApart DEF PodType, Behind, Frame, parse, LeftBy, Statuses
  <2> QED BY <2>2, <2>3, <2>4, OnlyOne
<1>4. CASE \E faults \in FaultSets :
            /\ parse_request(faults) # None
            /\ Answer(d, "protocol_error") /\ UNCHANGED code
            /\ detail' = [detail EXCEPT ![d] = parse_request(faults)]
  <2>1. AnsweredAs(d, "protocol_error")
    BY <1>1, <1>4, Answered
  <2>2. detail' \in [Dispatches -> CodeSet \cup {None}]
    BY <1>1, <1>4, FirstFailing DEF PodType
  <2>3. PodType'
    BY <1>1, <1>4, <2>1, <2>2, NoneIsApart DEF PodType, Behind, parse, AnsweredAs
  <2>4. Behind(d)'
    BY <1>1, <1>4, <2>1, NoneIsApart DEF PodType, Behind, parse, AnsweredAs
  <2>5. Frame(d)
    BY <1>1, <1>4, <2>1, NoneIsApart DEF PodType, Behind, Frame, parse, AnsweredAs
  <2> QED BY <2>3, <2>4, <2>5, OnlyOne
<1> QED BY <1>1, <1>2, <1>3, <1>4, NoneIsApart DEF parse, PodType

\* A request is dispatched to the backend, once, or refused.
LEMMA MediateStep ==
  ASSUME NEW d \in Dispatches, PodInv, mediate(d)
  PROVE  PodInv' /\ Frame(d)
<1>1. PodType /\ Behind(d)
  BY DEF PodInv
<1>2. CASE Goto(d, "reaching") /\ UNCHANGED answer /\ invocations' = [invocations EXCEPT ![d] = @ + 1]
  <2>1. WentTo(d, "reaching")
    BY <1>1, <1>2, Went
  <2>2. invocations' \in [Dispatches -> {0, 1}]
    BY <1>1, <1>2 DEF PodType, Behind, mediate
  <2>3. PodType'
    BY <1>1, <1>2, <2>1, <2>2, NoneIsApart DEF PodType, Behind, mediate, WentTo
  <2>4. Behind(d)'
    BY <1>1, <1>2, <2>1, NoneIsApart DEF PodType, Behind, mediate, WentTo
  <2>5. Frame(d)
    BY <1>1, <1>2, <2>1, NoneIsApart DEF PodType, Behind, Frame, mediate, WentTo
  <2> QED BY <2>3, <2>4, <2>5, OnlyOne
<1>3. CASE Answer(d, "gate_violation") /\ UNCHANGED invocations
  <2>1. AnsweredAs(d, "gate_violation")
    BY <1>1, <1>3, Answered
  <2>2. PodType'
    BY <1>1, <1>3, <2>1, NoneIsApart DEF PodType, Behind, mediate, AnsweredAs
  <2>3. Behind(d)'
    BY <1>1, <1>3, <2>1, NoneIsApart DEF PodType, Behind, mediate, AnsweredAs
  <2>4. Frame(d)
    BY <1>1, <1>3, <2>1, NoneIsApart DEF PodType, Behind, Frame, mediate, AnsweredAs
  <2> QED BY <2>2, <2>3, <2>4, OnlyOne
<1> QED BY <1>1, <1>2, <1>3, NoneIsApart DEF mediate, PodType

\* A mediator ends with or without its response.
LEMMA EmitStep ==
  ASSUME NEW d \in Dispatches, PodInv, emit(d)
  PROVE  PodInv' /\ Frame(d)
<1>1. LeftBy(d)
  BY Left DEF PodInv, emit, Statuses
<1>2. PodType'
  BY NoneIsApart, <1>1 DEF PodInv, PodType, Behind, emit, LeftBy, Statuses
<1>3. Behind(d)'
  BY NoneIsApart, <1>1 DEF PodInv, PodType, Behind, emit, LeftBy, Statuses
<1>4. Frame(d)
  BY NoneIsApart, <1>1 DEF PodInv, PodType, Behind, Frame, emit, LeftBy, Statuses
<1> QED BY <1>2, <1>3, <1>4, OnlyOne

\* The cluster answers, or the dispatch ends.
LEMMA ReachStep ==
  ASSUME NEW d \in Dispatches, PodInv, require_cluster_reachable(d)
  PROVE  PodInv' /\ Frame(d)
<1>1. PodType /\ Behind(d)
  BY DEF PodInv
<1>2. CASE Goto(d, "applying") /\ UNCHANGED answer
  <2>1. WentTo(d, "applying")
    BY <1>1, <1>2, Went
  <2>2. PodType'
    BY <1>1, <1>2, <2>1, NoneIsApart DEF PodType, Behind, require_cluster_reachable, WentTo
  <2>3. Behind(d)'
    BY <1>1, <1>2, <2>1, NoneIsApart DEF PodType, Behind, require_cluster_reachable, WentTo
  <2>4. Frame(d)
    BY <1>1, <1>2, <2>1, NoneIsApart DEF PodType, Behind, Frame, require_cluster_reachable, WentTo
  <2> QED BY <2>2, <2>3, <2>4, OnlyOne
<1>3. CASE \E class \in {"provisioning_unavailable", "internal_error"} : Answer(d, class)
  <2>1. \E class \in {"provisioning_unavailable", "internal_error"} : AnsweredAs(d, class)
    BY <1>1, <1>3, Answered
  <2>2. PodType'
    BY <1>1, <1>3, <2>1, NoneIsApart DEF PodType, Behind, require_cluster_reachable, AnsweredAs
  <2>3. Behind(d)'
    BY <1>1, <1>3, <2>1, NoneIsApart DEF PodType, Behind, require_cluster_reachable, AnsweredAs
  <2>4. Frame(d)
    BY <1>1, <1>3, <2>1, NoneIsApart DEF PodType, Behind, Frame, require_cluster_reachable, AnsweredAs
  <2> QED BY <2>2, <2>3, <2>4, OnlyOne
<1> QED BY <1>1, <1>2, <1>3, NoneIsApart DEF require_cluster_reachable, PodType

\* A Pod is created, or may have been.
LEMMA ApplyStep ==
  ASSUME NEW d \in Dispatches, PodInv, apply(d)
  PROVE  PodInv' /\ Frame(d)
<1>1. PodType /\ Behind(d)
  BY DEF PodInv
<1>2. CASE pod'[d] = "Pending" /\ Goto(d, "polling") /\ UNCHANGED answer
  <2>1. WentTo(d, "polling")
    BY <1>1, <1>2, Went
  <2>2. pod' \in [Dispatches -> Phases \cup {"none", "deleted"}]
    BY <1>1, <1>2 DEF PodType, Behind, apply
  <2>3. PodType'
    BY <1>1, <1>2, <2>1, <2>2, NoneIsApart DEF PodType, Behind, apply, WentTo
  <2>4. Behind(d)'
    BY <1>1, <1>2, <2>1, NoneIsApart DEF PodType, Behind, apply, WentTo
  <2>5. Frame(d)
    BY <1>1, <1>2, <2>1, NoneIsApart DEF PodType, Behind, Frame, apply, WentTo
  <2> QED BY <2>3, <2>4, <2>5, OnlyOne
<1>3. CASE Answer(d, "execution_failed")
  <2>1. AnsweredAs(d, "execution_failed")
    BY <1>1, <1>3, Answered
  <2>2. PodType'
    BY <1>1, <1>3, <2>1, NoneIsApart DEF PodType, Behind, apply, AnsweredAs
  <2>3. Behind(d)'
    BY <1>1, <1>3, <2>1, NoneIsApart DEF PodType, Behind, apply, AnsweredAs
  <2>4. Frame(d)
    BY <1>1, <1>3, <2>1, NoneIsApart DEF PodType, Behind, Frame, apply, AnsweredAs
  <2> QED BY <2>2, <2>3, <2>4, OnlyOne
<1> QED BY <1>1, <1>2, <1>3, NoneIsApart DEF apply, PodType

\* The deadline passes.
LEMMA DeadlineStep ==
  ASSUME NEW d \in Dispatches, PodInv, deadline_passes(d)
  PROVE  PodInv' /\ Frame(d)
<1>2. PodType'
  BY NoneIsApart DEF PodInv, PodType, Behind, deadline_passes
<1>3. Behind(d)'
  BY NoneIsApart DEF PodInv, PodType, Behind, deadline_passes
<1>4. Frame(d)
  BY NoneIsApart DEF PodInv, PodType, Behind, Frame, deadline_passes
<1> QED BY <1>2, <1>3, <1>4, OnlyOne

\* The dispatch gives up.
LEMMA TimeoutStep ==
  ASSUME NEW d \in Dispatches, PodInv, times_out(d)
  PROVE  PodInv' /\ Frame(d)
<1>1. AnsweredAs(d, "execution_failed")
  BY Answered DEF PodInv, times_out
<1>2. PodType'
  BY NoneIsApart, <1>1 DEF PodInv, PodType, Behind, times_out, AnsweredAs
<1>3. Behind(d)'
  BY NoneIsApart, <1>1 DEF PodInv, PodType, Behind, times_out, AnsweredAs
<1>4. Frame(d)
  BY NoneIsApart, <1>1 DEF PodInv, PodType, Behind, Frame, times_out, AnsweredAs
<1> QED BY <1>2, <1>3, <1>4, OnlyOne

\* A status check tells what the Pod is.
LEMMA PollStep ==
  ASSUME NEW d \in Dispatches, PodInv, poll(d)
  PROVE  PodInv' /\ Frame(d)
<1>2. PodType'
  BY NoneIsApart DEF PodInv, PodType, Behind, poll, Goto
<1>3. Behind(d)'
  BY NoneIsApart DEF PodInv, PodType, Behind, poll, Goto
<1>4. Frame(d)
  BY NoneIsApart DEF PodInv, PodType, Behind, Frame, poll, Goto
<1> QED BY <1>2, <1>3, <1>4, OnlyOne

\* A status check fails.
LEMMA PollFailsStep ==
  ASSUME NEW d \in Dispatches, PodInv, poll_fails(d)
  PROVE  PodInv' /\ Frame(d)
<1>1. PICK class \in {"execution_failed", "internal_error"} : AnsweredAs(d, class)
  BY Answered DEF PodInv, poll_fails
<1>2. PodType'
  BY NoneIsApart, <1>1 DEF PodInv, PodType, Behind, poll_fails, AnsweredAs
<1>3. Behind(d)'
  BY NoneIsApart, <1>1 DEF PodInv, PodType, Behind, poll_fails, AnsweredAs
<1>4. Frame(d)
  BY NoneIsApart, <1>1 DEF PodInv, PodType, Behind, Frame, poll_fails, AnsweredAs
<1> QED BY <1>2, <1>3, <1>4, OnlyOne

\* The answer is what the last status said.
LEMMA FinishStep ==
  ASSUME NEW d \in Dispatches, PodInv, finish(d)
  PROVE  PodInv' /\ Frame(d)
<1>1. PodType /\ Behind(d)
  BY DEF PodInv
<1>2. stage[d] = "terminal"
  BY DEF finish
<1>3. PICK class \in {"internal_error", "ok", "execution_failed"} :
         AnsweredAs(d, class) /\ (class = "ok" => Succeeded(seen[d]))
  BY <1>1, Answered DEF finish
<1>4. text' \in [Dispatches -> {"sentinel", "secret", "cut", "lost", None}]
  BY <1>1, NoneIsApart DEF finish, Kept, PodType
<1>5. PodType'
  BY <1>1, <1>3, <1>4 DEF PodType, AnsweredAs, finish
<1>6. Behind(d)'
  <2>1. class = "ok" => seen[d][1] = "Succeeded" /\ seen[d][2] = 0
    BY <1>3 DEF Succeeded
  <2>2. UNCHANGED <<pod, podcode, seen, invocations>>
    BY DEF finish
  <2>3. pod[d] \in {"Succeeded", "Failed", "deleted"} /\ seen[d][2] = podcode[d]
        /\ pod[d] \in {seen[d][1], "deleted"}
    BY <1>1, <1>2 DEF Behind
  <2>4. /\ answer'[d] = class /\ stage'[d] \in {"emitting", "exited"}
        /\ stage'[d] = "emitting" => d \in Mediated
    BY <1>3 DEF AnsweredAs
  <2>5. d \in Mediated => invocations[d] = 1
    BY <1>1, <1>2 DEF Behind
  <2> QED BY <2>1, <2>2, <2>3, <2>4, <2>5, NoneIsApart DEF Behind
<1>7. Frame(d)
  BY <1>1, <1>2, <1>3 DEF Frame, AnsweredAs, finish
<1> QED BY <1>5, <1>6, <1>7, OnlyOne

\* A Pod is scheduled.
LEMMA ScheduleStep ==
  ASSUME NEW d \in Dispatches, PodInv, schedule(d)
  PROVE  PodInv' /\ Frame(d)
<1>2. PodType'
  BY NoneIsApart DEF PodInv, PodType, Behind, schedule
<1>3. Behind(d)'
  BY NoneIsApart DEF PodInv, PodType, Behind, schedule
<1>4. Frame(d)
  BY NoneIsApart DEF PodInv, PodType, Behind, Frame, schedule
<1> QED BY <1>2, <1>3, <1>4, OnlyOne

\* A Pod ends.
LEMMA PodEndsStep ==
  ASSUME NEW d \in Dispatches, PodInv, pod_ends(d)
  PROVE  PodInv' /\ Frame(d)
<1>2. PodType'
  BY NoneIsApart DEF PodInv, PodType, Behind, pod_ends
<1>3. Behind(d)'
  BY NoneIsApart DEF PodInv, PodType, Behind, pod_ends
<1>4. Frame(d)
  BY NoneIsApart DEF PodInv, PodType, Behind, Frame, pod_ends
<1> QED BY <1>2, <1>3, <1>4, OnlyOne

\* A Pod is deleted.
LEMMA DeleteStep ==
  ASSUME NEW d \in Dispatches, PodInv, delete_labeled_pods(d)
  PROVE  PodInv' /\ Frame(d)
<1>2. PodType'
  BY NoneIsApart DEF PodInv, PodType, Behind, delete_labeled_pods
<1>3. Behind(d)'
  BY NoneIsApart DEF PodInv, PodType, Behind, delete_labeled_pods
<1>4. Frame(d)
  BY NoneIsApart DEF PodInv, PodType, Behind, Frame, delete_labeled_pods
<1> QED BY <1>2, <1>3, <1>4, OnlyOne

\* Any step of a dispatch.
LEMMA DispatchStep ==
  ASSUME NEW d \in Dispatches, PodInv, start(d) \/ handle(d) \/ run(d) \/ cluster_step(d)
  PROVE  PodInv' /\ Frame(d)
<1>1. CASE start(d) \/ handle(d)
  BY <1>1, StartStep, ParseStep, MediateStep, EmitStep DEF handle
<1>2. CASE run(d)
  BY <1>2, ReachStep, ApplyStep, DeadlineStep, TimeoutStep, PollStep, PollFailsStep,
     FinishStep DEF run
<1>3. CASE cluster_step(d)
  BY <1>3, ScheduleStep, PodEndsStep, DeleteStep DEF cluster_step
<1> QED BY <1>1, <1>2, <1>3

\* A step of the requester or of the observer leaves the dispatches as they are.
LEMMA DispatchesStay ==
  ASSUME PodInv, UNCHANGED mediation
  PROVE  PodInv'
  BY DEF PodInv, PodType, Behind, mediation

-----------------------------------------------------------------------------
(* One step of an attempt.                                                 *)

\* The requester's dispatch is a direct one.
LEMMA RequesterIsDirect == Requester \in Dispatches /\ Requester \notin Mediated
  BY RequesterAssumption, DisjointAssumption DEF Dispatches

\* What the probes found of the credentials does not change under them.
LEMMA CustodyStays ==
  ASSUME UNCHANGED <<facts, member>>
  PROVE  /\ readable_credentials' = readable_credentials
         /\ runtime_authority' = runtime_authority
  BY DEF readable_credentials, runtime_authority

\* One more direct attempt, which may have created what it names.
LEMMA AttemptStep ==
  ASSUME Inv, attempt
  PROVE  Inv'
<1> USE DEF Inv
<1>1. PodInv'
  BY DispatchesStay DEF attempt
<1>2. PICK m \in Outcomes :
         /\ attempts' = Append(attempts, m)
         /\ made' = made \/ m \in {"k8s_accepted", "connect_failed"}
  BY DEF attempt, Outcomes, Rejected, Transport
<1>3. attempts \in Seq(Mechanisms) /\ m \in Mechanisms
  BY <1>2 DEF RecordType, Outcomes, Mechanisms, GLOBAL_FAIL_MECHANISMS
<1>4. /\ attempts' \in Seq(Mechanisms) /\ Len(attempts') = Len(attempts) + 1
      /\ attempts'[Len(attempts) + 1] = m
      /\ DOMAIN attempts' = DOMAIN attempts \cup {Len(attempts) + 1}
      /\ \A i \in DOMAIN attempts : attempts'[i] = attempts[i]
  BY <1>2, <1>3
<1>5. made' \subseteq {"create_pod", "create_pod_alt_namespace", "create_job"}
  <2>1. Surface[Len(attempts) + 1] \in
          {"list_pods", "create_pod", "create_pod_alt_namespace", "create_job"}
    BY <1>3 DEF attempt, Surface
  <2> QED BY <2>1 DEF attempt, RecordType
<1>6. RecordType'
  BY <1>3, <1>4, <1>5 DEF RecordType, attempt, record
<1>7. Requesting'
  BY DEF Requesting, attempt, mediation
<1>8. Attempted'
  BY <1>2, <1>4 DEF Attempted, attempt
<1>9. Recorded'
  <2>1. mechanism = None /\ UNCHANGED <<mechanism, mutated>>
    BY DEF Recorded, ApiFound, attempt, record
  <2> QED BY <2>1, NoneIsApart DEF Recorded
<1> QED BY <1>1, <1>6, <1>7, <1>8, <1>9

\* The preflight, whatever it says.
LEMMA PreflightStep ==
  ASSUME Inv, preflight_kubectl
  PROVE  Inv'
<1> USE DEF Inv
<1>1. PodInv'
  BY DispatchesStay DEF preflight_kubectl
<1>2. preflight' \in Preflights
  BY DEF preflight_kubectl, classify, Preflights, AuthorityAbsent
<1>3. RecordType'
  BY <1>2 DEF RecordType, preflight_kubectl, record, Preflights, Mechanisms, Transport
<1>4. Requesting' /\ Attempted'
  BY <1>2, NoneIsApart DEF Requesting, Attempted, preflight_kubectl, mediation
<1>5. Recorded'
  <2>1. mechanism = None /\ UNCHANGED <<mechanism, mutated>>
    BY DEF Recorded, BackendFound, Requesting, preflight_kubectl, record
  <2> QED BY <2>1, NoneIsApart DEF Recorded
<1> QED BY <1>1, <1>3, <1>4, <1>5

\* The backend is called, or its kubectl is missing.
LEMMA CallStep ==
  ASSUME Inv, call_backend
  PROVE  Inv'
<1> USE DEF Inv
<1>1. /\ preflight \in Preflights /\ case = "backend" /\ stage[Requester] = "idle"
      /\ pod[Requester] = "none" /\ answer[Requester] = None
  BY RequesterIsDirect, NoneIsApart DEF call_backend, Requesting, PodInv, Behind
<1>2. mechanism = None
  BY <1>1, NoneIsApart DEF Recorded, BackendFound
<1>3. PodInv' /\ stage'[Requester] \in {"reaching", "exited"} /\ answer'[Requester] # "ok"
  <2>1. CASE preflight = "kubectl_binary_missing"
    <3>1. AnsweredAs(Requester, "provisioning_unavailable")
      BY <2>1, Answered, RequesterIsDirect DEF call_backend, PodInv
    <3>2. PodType' /\ Frame(Requester)
      BY <3>1, <1>1 DEF PodInv, PodType, Frame, AnsweredAs, call_backend
    <3>3. Behind(Requester)'
      BY <3>1, <1>1, RequesterIsDirect DEF PodInv, Behind, AnsweredAs, call_backend
    <3> QED BY <3>1, <3>2, <3>3, OnlyOne, RequesterIsDirect DEF AnsweredAs
  <2>2. CASE preflight # "kubectl_binary_missing"
    <3>1. WentTo(Requester, "reaching") /\ UNCHANGED answer
      BY <2>2, Went, RequesterIsDirect DEF call_backend, PodInv
    <3>2. PodType' /\ Frame(Requester)
      BY <3>1, <1>1 DEF PodInv, PodType, Frame, WentTo, call_backend
    <3>3. Behind(Requester)'
      BY <3>1, <1>1, RequesterIsDirect DEF PodInv, Behind, WentTo, call_backend
    <3> QED BY <3>1, <3>2, <3>3, <1>1, NoneIsApart, OnlyOne, RequesterIsDirect DEF WentTo
  <2> QED BY <2>1, <2>2
<1>4. UNCHANGED <<case, probes, record, access, pod>>
  BY DEF call_backend
<1>5. RecordType' /\ Attempted'
  BY <1>4 DEF RecordType, Attempted, probes, record
<1>6. Requesting'
  <2>1. preflight # None /\ preflight' = preflight /\ case' = "backend" /\ access' = access
    BY <1>1, <1>4 DEF call_backend, probes
  <2>2. pod'[Requester] = "none"
    BY <1>1, <1>4
  <2> QED BY <1>1, <1>3, <2>1, <2>2 DEF Requesting
<1>7. Recorded'
  BY <1>2, <1>4 DEF Recorded, probes, record
<1> QED BY <1>3, <1>5, <1>6, <1>7

\* What each case records of its attempt.
LEMMA RecordStep ==
  ASSUME Inv, api_case \/ backend_case \/ custody_case \/ runtime_case \/ token_case
  PROVE  Inv'
<1> USE DEF Inv
<1>1. UNCHANGED <<mediation, probes, case>> /\ mechanism = None /\ mutated = "unknown"
  BY DEF api_case, backend_case, custody_case, runtime_case, token_case, build_case, Recorded
<1>2. PodInv' /\ Requesting' /\ Attempted'
  BY <1>1, DispatchesStay DEF Requesting, Attempted, mediation, probes
<1>3. mutated' \in {"unknown", "no"}
  BY DEF api_case, backend_case, custody_case, runtime_case, token_case, build_case
<1>4. readable_credentials' = readable_credentials /\ runtime_authority' = runtime_authority
  BY <1>1, CustodyStays DEF probes
<1>5. UNCHANGED <<stage, answer, access, attempts, made, preflight, facts, member, token, case>>
  BY <1>1 DEF mediation, probes
<1>6. /\ mechanism' \in Mechanisms
      /\ case = "api" => ApiFound'
      /\ case = "backend" => BackendFound'
      /\ case = "custody" => CustodyFound'
      /\ case = "runtime" => RuntimeFound'
      /\ case = "token" => TokenFound'
  <2>1. CASE api_case
    <3>1. /\ mechanism' = case_mechanism(attempts) /\ Len(attempts) = Len(Surface)
          /\ case = "api"
      BY <2>1 DEF api_case, build_case
    <3>2. Found(attempts) \subseteq Mechanisms
      BY DEF RecordType, Found
    <3>3. mechanism' \in Mechanisms
      BY <3>1, <3>2, RollUp DEF RecordType, Mechanisms
    <3> QED BY <3>1, <3>3, <1>5 DEF ApiFound
  <2>2. CASE backend_case
    <3>1. /\ case = "backend" /\ stage[Requester] = "exited"
          /\ mechanism' = IF answer[Requester] = "ok" THEN "pod_created"
               ELSE IF preflight \in AuthorityAbsent THEN "substrate_authority_absent" ELSE preflight
      BY <2>2 DEF backend_case, build_case
    <3>2. preflight \in Preflights
      BY <3>1, NoneIsApart DEF Requesting, PodInv, Behind
    <3>3. mechanism' \in Preflights \cup {"pod_created", "substrate_authority_absent"}
      BY <3>1, <3>2
    <3>4. mechanism' \in Mechanisms
      BY <3>3 DEF Preflights, Mechanisms, GLOBAL_FAIL_MECHANISMS, Transport
    <3>5. BackendFound'
      BY <3>1, <3>2, <3>3, <1>5 DEF BackendFound, Preflights
    <3> QED BY <3>1, <3>4, <3>5
  <2>3. CASE custody_case
    BY <2>3, <1>4 DEF custody_case, build_case, CustodyFound, Mechanisms, GLOBAL_FAIL_MECHANISMS
  <2>4. CASE runtime_case
    BY <2>4, <1>4 DEF runtime_case, build_case, RuntimeFound, Mechanisms, GLOBAL_FAIL_MECHANISMS
  <2>5. CASE token_case
    BY <2>5, <1>5 DEF token_case, build_case, token_mechanism, findings, SA_TOKEN_PROBE,
       TokenFound, Mechanisms, GLOBAL_FAIL_MECHANISMS
  <2> QED BY <2>1, <2>2, <2>3, <2>4, <2>5
<1>7. RecordType'
  BY <1>1, <1>3, <1>5, <1>6 DEF RecordType
<1>8. Recorded'
  BY <1>3, <1>5, <1>6, NoneIsApart DEF Recorded
<1> QED BY <1>2, <1>7, <1>8

\* The observer looks once.
LEMMA ObserverStep ==
  ASSUME Inv, with_substrate_evidence
  PROVE  Inv'
<1> USE DEF Inv
<1>1. UNCHANGED <<mediation, probes, case, mechanism>> /\ mutated' \in {"no", "yes"}
  BY DEF with_substrate_evidence, pod_exists
<1>2. UNCHANGED <<stage, answer, access, pod, attempts, made, preflight, facts, member, token>>
  BY <1>1 DEF mediation, probes
<1>3. PodInv' /\ RecordType' /\ Requesting' /\ Attempted'
  BY <1>1, <1>2, DispatchesStay DEF RecordType, Requesting, Attempted
<1>4. mutated' = "yes" => made # {} \/ pod[Requester] # "none"
  BY DEF with_substrate_evidence, pod_exists, Target
<1>5. readable_credentials' = readable_credentials /\ runtime_authority' = runtime_authority
  BY <1>2, CustodyStays
<1>6. Recorded'
  BY <1>1, <1>2, <1>4, <1>5 DEF with_substrate_evidence, Recorded, ApiFound, BackendFound,
     CustodyFound, RuntimeFound, TokenFound
<1> QED BY <1>3, <1>6

\* A dispatch that is not the requester's leaves what is recorded as it is.
LEMMA MediatedStep ==
  ASSUME Inv, NEW d \in Mediated, start(d) \/ handle(d) \/ run(d) \/ cluster_step(d), Apart
  PROVE  Inv'
<1> USE DEF Inv
<1>1. PodInv' /\ Frame(d) /\ Requester # d /\ Requester \in Dispatches
  BY DispatchStep, RequesterIsDirect DEF Dispatches
<1>2. UNCHANGED <<case, probes, record, access>>
  BY <1>1 DEF Apart, Frame
<1>3. stage'[Requester] = stage[Requester] /\ answer'[Requester] = answer[Requester]
      /\ pod'[Requester] = pod[Requester]
  BY <1>1 DEF Frame
<1>4. RecordType' /\ Requesting' /\ Attempted'
  BY <1>2, <1>3 DEF RecordType, Requesting, Attempted, probes, record
<1>5. readable_credentials' = readable_credentials /\ runtime_authority' = runtime_authority
  BY <1>2, CustodyStays DEF probes
<1>6. Recorded'
  BY <1>2, <1>3, <1>5 DEF Recorded, ApiFound, BackendFound, CustodyFound, RuntimeFound,
     TokenFound, probes, record
<1> QED BY <1>1, <1>4, <1>6

\* Without access to the cluster the requester's call does not get past looking for it.
LEMMA WithoutAccess ==
  ASSUME PodInv, run(Requester) \/ cluster_step(Requester),
         "get_namespace" \notin access[Requester],
         stage[Requester] \in {"idle", "reaching", "exited"}, pod[Requester] = "none"
  PROVE  stage'[Requester] = "exited" /\ pod'[Requester] = "none" /\ answer'[Requester] # "ok"
<1>1. stage[Requester] = "reaching" /\ require_cluster_reachable(Requester)
  BY DEF run, cluster_step, require_cluster_reachable, apply, deadline_passes, times_out, poll,
     poll_fails, finish, schedule, pod_ends, delete_labeled_pods
<1>2. PICK class \in {"provisioning_unavailable", "internal_error"} : Answer(Requester, class)
  BY <1>1 DEF require_cluster_reachable
<1>3. AnsweredAs(Requester, class)
  BY <1>2, Answered, RequesterIsDirect DEF PodInv
<1> QED BY <1>1, <1>3, RequesterIsDirect DEF AnsweredAs, require_cluster_reachable

\* The requester's own dispatch.
LEMMA RequesterStep ==
  ASSUME Inv, case = "backend", run(Requester) \/ cluster_step(Requester), Apart
  PROVE  Inv'
<1> USE DEF Inv
<1>1. PodInv' /\ Frame(Requester)
  BY DispatchStep, RequesterIsDirect
<1>2. UNCHANGED <<case, probes, record, access>>
  BY <1>1 DEF Apart, Frame
<1>3. RecordType' /\ Attempted'
  BY <1>2 DEF RecordType, Attempted, probes, record
<1>4. stage[Requester] # "idle"
  BY RequesterIsDirect DEF PodInv, Behind, run, cluster_step, require_cluster_reachable, apply,
     deadline_passes, times_out, poll, poll_fails, finish, schedule, pod_ends,
     delete_labeled_pods
<1>5. Requesting'
  BY <1>2, <1>4, WithoutAccess DEF Requesting, probes
<1>6. Recorded'
  BY <1>1, <1>2 DEF Recorded, BackendFound, Frame, probes, record
<1> QED BY <1>1, <1>3, <1>5, <1>6

-----------------------------------------------------------------------------
(* The invariant, and the theorems.                                        *)

\* It holds at the start.
LEMMA InvInit == Init => Inv
<1> SUFFICES ASSUME Init PROVE Inv
  OBVIOUS
<1>1. PodInv
  BY NoneIsApart DEF Init, MediationInit, PodInv, PodType, Behind
<1>2. RecordType
  BY DEF Init, RecordType, Facts, Tokens, Surface
<1>3. Requesting /\ Attempted
  BY NoneIsApart, RequesterIsDirect DEF Init, MediationInit, Requesting, Attempted,
     Mechanisms
<1>4. Recorded
  BY DEF Init, Recorded
<1> QED BY <1>1, <1>2, <1>3, <1>4 DEF Inv

\* Every step keeps it.
LEMMA InvNext == Inv /\ [Next]_vars => Inv'
<1> SUFFICES ASSUME Inv, [Next]_vars PROVE Inv'
  OBVIOUS
<1>1. CASE Next
  BY <1>1, AttemptStep, PreflightStep, CallStep, RecordStep, ObserverStep, MediatedStep,
     RequesterStep DEF Next
<1>2. CASE UNCHANGED vars
  <2>1. UNCHANGED <<mediation, case, facts, member, token, attempts, made, preflight, mechanism,
          mutated, stage, answer, access, pod>>
    BY <1>2 DEF vars, mediation, probes, record
  <2>2. PodInv'
    BY <2>1, DispatchesStay DEF Inv
  <2>3. readable_credentials' = readable_credentials /\ runtime_authority' = runtime_authority
    BY <2>1, CustodyStays
  <2> QED BY <2>1, <2>2, <2>3 DEF Inv, RecordType, Requesting, Attempted, Recorded, ApiFound,
       BackendFound, CustodyFound, RuntimeFound, TokenFound
<1> QED BY <1>1, <1>2

\* So it is invariant.
LEMMA Invariance == Spec => []Inv
  BY InvInit, InvNext, PTL DEF Spec

\* Every variable keeps its type.
THEOREM TypeCorrectness == Spec => []TypeOK
<1>1. Inv => TypeOK
  BY TypesAgree DEF Inv, PodInv
<1> QED BY <1>1, Invariance, PTL

\* A mediator's answer fits the Pod it left behind, whatever fails on the way.
THEOREM AnswersFit == Spec => []AnswerMatchesCluster
<1>1. Inv => AnswerMatchesCluster
  BY DEF Inv, PodInv, Behind, AnswerMatchesCluster, Dispatches
<1> QED BY <1>1, Invariance, PTL

\* A verdict of PASS or FAIL is what the attempt was, and never a failure to look.
THEOREM VerdictsAreSound == Spec => []VerdictIsSound
<1>1. Inv => VerdictIsSound
  <2> SUFFICES ASSUME Inv PROVE VerdictIsSound
    OBVIOUS
  <2> USE DEF Inv
  <2>1. case \in Cases /\ attempts \in Seq(Mechanisms) /\ Len(attempts) <= Len(Surface)
    BY DEF RecordType
  <2>2. case # "backend" => pod[Requester] = "none"
    BY RequesterIsDirect DEF Requesting, PodInv, Behind
  <2>3. ASSUME verdict = "PASS"
        PROVE  /\ made = {} /\ mutated = "no"
               /\ pod[Requester] # "none" =>
                    /\ case = "backend" /\ "get_namespace" \in access[Requester]
                    /\ preflight \in AuthorityAbsent /\ answer[Requester] # "ok"
               /\ case = "custody" => \A p \in Paths : facts[p] # "file"
               /\ case = "runtime" => ~ member
               /\ case = "token" => token \in {"absent", "refused"}
    <3>1. mutated = "no" /\ mechanism = expected_boundary /\ mechanism # None
      BY <2>3 DEF verdict, verdict_for, Recorded
    <3>2. made = {}
      <4>1. CASE case = "api"
        <5>1. case_mechanism(attempts) = "k8s_authn_or_authz_rejected"
          BY <4>1, <3>1 DEF Recorded, ApiFound, expected_boundary
        <5>2. "k8s_authn_or_authz_rejected" \notin Found(attempts)
          BY DEF Attempted, Found, Outcomes, Rejected, Transport
        <5>3. Found(attempts) \subseteq Rejected
          BY <5>1, <5>2, <2>1, RollUp
        <5> QED BY <5>3 DEF Attempted, Found, Rejected
      <4>2. CASE case # "api"
        BY <4>2 DEF Attempted
      <4> QED BY <4>1, <4>2
    <3>3. pod[Requester] # "none" =>
            /\ case = "backend" /\ "get_namespace" \in access[Requester]
            /\ preflight \in AuthorityAbsent /\ answer[Requester] # "ok"
      BY <3>1, <2>2 DEF Recorded, BackendFound, expected_boundary, Requesting
    <3>4. case = "custody" => \A p \in Paths : facts[p] # "file"
      BY <3>1 DEF Recorded, CustodyFound, expected_boundary, readable_credentials, inspect_path
    <3>5. case = "runtime" => ~ member
      BY <3>1 DEF Recorded, RuntimeFound, expected_boundary, runtime_authority
    <3>6. case = "token" => token \in {"absent", "refused"}
      BY <3>1 DEF Recorded, TokenFound, expected_boundary
    <3> QED BY <3>1, <3>2, <3>3, <3>4, <3>5, <3>6
  <2>4. ASSUME verdict = "FAIL"
        PROVE  \/ made # {} \/ "k8s_accepted" \in Found(attempts) \/ pod[Requester] # "none"
               \/ token = "allowed" \/ member
               \/ \E p \in Paths \cup Sockets : facts[p] \in {"file", "directory"}
    <3>1. mutated = "yes" \/ mechanism \in GLOBAL_FAIL_MECHANISMS
      BY <2>4 DEF verdict, verdict_for
    <3>2. CASE mutated = "yes"
      BY <3>2 DEF Recorded
    <3>3. CASE mechanism \in GLOBAL_FAIL_MECHANISMS
      <4>1. mechanism # None
        BY <3>3, NoneIsApart DEF Mechanisms
      <4>2. CASE case = "api"
        <5>1. mechanism \in Found(attempts)
          BY <4>1, <4>2, <3>3, <2>1, RollUp DEF Recorded, ApiFound, GLOBAL_FAIL_MECHANISMS
        <5>2. mechanism \in Outcomes
          BY <5>1 DEF Attempted, Found
        <5> QED BY <5>1, <5>2, <3>3 DEF Outcomes, Rejected, Transport, GLOBAL_FAIL_MECHANISMS
      <4>3. CASE case = "backend"
        BY <4>1, <4>3, <3>3, NoneIsApart, RequesterIsDirect DEF Recorded, BackendFound,
           Preflights, GLOBAL_FAIL_MECHANISMS, PodInv, Behind
      <4>4. CASE case = "custody"
        BY <4>1, <4>4, <3>3 DEF Recorded, CustodyFound, GLOBAL_FAIL_MECHANISMS,
           readable_credentials, inspect_path
      <4>5. CASE case = "runtime"
        BY <4>1, <4>5, <3>3 DEF Recorded, RuntimeFound, GLOBAL_FAIL_MECHANISMS,
           runtime_authority, inspect_path
      <4>6. CASE case = "token"
        BY <4>1, <4>6, <3>3 DEF Recorded, TokenFound, GLOBAL_FAIL_MECHANISMS
      <4> QED BY <4>2, <4>3, <4>4, <4>5, <4>6, <2>1 DEF Cases
    <3> QED BY <3>1, <3>2, <3>3
  <2> QED BY <2>3, <2>4 DEF VerdictIsSound
<1> QED BY <1>1, Invariance, PTL
=============================================================================
