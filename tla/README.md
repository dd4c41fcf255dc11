# Verification of siphonophore

TLA+ models of siphonophore's core (`siphonophore_core/`), of its cognitive loop and REPL
(`siphonophore_harness/`, `examples/repl.py`), of its C spawn helper and of the Kubernetes
experiments built on it, with the TLC configurations that check them and TLAPS proofs.
Every definition is translated from the source; `PROJECT.json` maps each one to its lines
and lists the runs, the mutants, the findings, the hazards and the theorems.

Siphonophore mediates what an agent does. A model proposes an operation; the loop parses it
into an `Intent`; `Gate` decides and mints a signed `Decision`; `Executor` verifies it and
hands the artifact to a backend, which runs it in this process, in another one, in a Pod, or
under a user and a cgroup made for that execution. Some backends make the child prove who it
is (check in) before it reaches the artifact; three only read a directory tree.

## 1. Inventory

| Part | State it keeps | Operations | Interacts through | What makes it correct |
|---|---|---|---|---|
| `Gate` (`mediation.py`, `authority.py`, `policy.py`) | a secret, a policy; no ledger: a grant is the object the caller holds | `issue_order`, `grant_root_authority`, `delegate`, `submit`, `verify*` | calls; signed objects that travel through callers | no authority exceeds its order; a Decision says what Gate decided |
| `Executor` (`execution.py`) | backends by class | `register_backend`, `execute` | calls Gate and a backend | only what was decided runs, with the code that was hashed |
| in-process backends (`execution.py`) | none | `run` | `exec`, a subprocess | the Effect says what was printed, or that it was cut |
| `CheckinRegistry`, `CheckinListener` (`identity.py`) | pending registrations under a lock; an accept thread, a thread per connection | `register_pending`, `handle_checkin`, `wait_for_result`, `stop` | a Unix socket, an event, a lock | one yes per nonce, to the provisioned uid; broker and child agree |
| `CheckedInUidCgroupBackend` | registry, listener, user and cgroup of each dispatch | `run`, `shutdown` | threads, pipe, child process | an Effect is attributed; nothing outlives `run` |
| `UidCgroupBackend` | user, cgroup leaf, pipe and child of each dispatch; passwd and the cgroup tree are shared | `run` | processes, files, `useradd`/`userdel` | a uid is one execution; the body runs confined; everything is released |
| spawn helper (`siphonophore-spawn.c`) and its two backends | the cgroup leaf, which outlives it; flags its alarm handler reads | one spawn per invocation | stdin envelope, descriptors, signals, exit status | one spawn per execution id; a failed one undoes itself; it always ends |
| `K8sPodBackend` | a Pod | `run`, deletion by label | `kubectl` | an Effect only for a Pod that ended |
| read-only backends | none | `run` | file system | no path leaves the root (but for its `.gitignore`), walks and results are bounded, what is cut says so (but for the text of a match) |
| reconciliation (`audit.py`) | none | `reconcile`, `reconcile_path` | files a process left | the Belnap table |
| parsing, work orders | none | `parse_turn`, `parse_intent`, `parse_work_order` | the model's completion | what is not well-formed is an `IntentParseError` |
| `CognitiveLoop` (`loop.py`) | history, last operations | `step` | calls the model, the broker, the sink | the history and the report tell the truth; a turn ends |
| `Broker` (`broker.py`) | none | `dispatch` | Gate then Executor | an outcome keeps its decision |
| REPL, session log | one `CognitiveLoop`, a JSONL file | `main`, `emit` | the operator, the loop's sink | what is shown and what is logged agree |
| profiles (`composition.py`) | none | `compose_profile`, `compose_kind_profile` | build Gate, Executor, Broker | a planning session runs no code |
| Kubernetes mediation experiment | the cluster, evidence files | `sipho-mediate`, probes, observer, `verdict_for` | processes, `kubectl`, HTTPS | a PASS is no failure to look, a FAIL no failure to reach |
| dual-observation experiment | the cluster, a capture, an observer thread | one attempt | `kubectl`, a privileged tracer | a criterion that passes is true; nothing is left behind |
| prompts, model client, lab | — | — | — | not modelled (section 5) |

**Hard behaviours.** Concurrency: handler threads against the waiting broker thread (the
registry releases its lock between the event and the verdict), dispatches of several
brokers against one passwd database and one cgroup root, a child against the broker that
confines it, an alarm against the helper's own cleanup, an observer thread against the
dispatch it watches. Failure: each step of provisioning, spawning and releasing can raise, each
`kubectl` call can fail with or without effect, and so can the model, the broker and the log in
the middle of a turn. Time: every wait has a limit that races with what it waits for. Order:
objects and check-ins presented late, twice, altered or by another party; a cleanup that
removes by path what another made. `PROJECT.json` lists them as hazards, each at its line.

## 2. Modules

| Module | Models | Uses |
|---|---|---|
| `Mediation` | Gate and Executor, with callers that present arbitrary objects | |
| `Attestation` | the abstract promise of the check-in protocol | |
| `Checkin` | registry, listener, the dispatch and its child | refines `Attestation` |
| `UidCgroup` | concurrent dispatches of the uid+cgroup backend | |
| `SpawnHelper` | the C helper, the bootstrap it execs, and `run` of both backends that invoke it | |
| `PodMediation` | `K8sPodBackend.run` and the `sipho-mediate` process around it | |
| `MediationEvidence` | the experiment's probes, observer and verdicts | extends `PodMediation` |
| `DualObservation` | one attempt of the dual-observation experiment | extends `PodMediation` |
| `CompletionParsing` | what a completion becomes (pure) | |
| `CognitiveLoop` | one user turn after another | extends `CompletionParsing` |
| `Session` | the REPL and its log over one loop | extends `CognitiveLoop` |
| `Workspace` | the three read-only backends over a tree with links | |
| `InProcess` | the two in-process backends (pure) | |
| `Reconciliation` | self-report against observation (pure) | |
| `Profiles` | a dispatch through each composed profile | extends the last three |
| `*_proofs` | theorems | extend the module they name; `Session_proofs` has those of `CognitiveLoop` too |
| `MC*` | constant values and symmetry of the runs | extend the module they name |

An operator introduced as a *mutant* is a plausible mistake in the definition that follows
it. No specification uses it. A run in which it takes that definition's place must violate the
property that `PROJECT.json` names, which shows that the property depends on that code.

### Mediation

Gate has no ledger, so `orders`, `authorities` and `decisions` are the sets of objects it
has minted, `ran` the history of `backend.run` calls. `PresentedOrders`,
`PresentedAuthorities` and `PresentedDecisions` are what callers may hand back: any fields,
with the token of any object Gate made: one secret signs all three families. HMAC is idealised:
`Hmac` of a text is that text's own value, and only Gate makes one. `delegate`,
`grant_root_authority`, `submit` and `execute` have one guard per check of the source; a call that
fails one raises, mints nothing and is a stutter. Policy is the table `Evaluate`.

The text that is signed is not idealised. `_canonical`, `_order_canonical` and
`_authority_canonical` join the fields with `:`, and the kinds with `,`, without escaping them, and
nothing checks a field for either. So a string is the sequence of pieces it splits into at `:`,
joining is concatenation, and two objects may have one text and one token, within a family or
across two. What a token vouches for is then conditional, and the properties say so: the history
`separated` is true as long as each object that Gate minted or that Gate or Executor accepted kept
every field to its place (`SeparateOrder`, `SeparateAuthority`, `SeparateDecision`: identifiers and
kinds of one piece, an issuer of at most two since the repository's own are `operator:alice` and
`reference-repl-operator:{principal}`). The code does not enforce this; it is a duty of whoever
names principals, kinds, orders and intents. Authority ids are `uuid4().hex`, so they meet it. What
needs no condition is stated without one: an authority id names one authority, a backend acts on a
yes of a registered class, and the code it runs has the digest its Decision names.
Without the condition `AttenuatedFromOrder` is false. In the instance an order `o1:operator` issued by
`alice` has the text of an order `o1` issued by `operator:alice`; presented as the latter it
verifies, and the authority granted on it names an order that was never issued.

### Checkin

A dispatch stands for its nonce (256 random bits, reaching its own child only through an
inherited pipe). `broker[e]` is the position of `run` on a broker thread, `child[e]` the
spawned process, `conn[e]` its connection. `wait_for_result` is three steps, as in the code:
the event (`event_set` or `event_timeout`, no lock held), then `collect` under the lock.
`handle_other` is any other connection that presents a nonce: another uid, or artifact code
that checks in again. `stop` may happen at any time. `told` and `begun` are histories.

### UidCgroup

`users` and `leaves` are the passwd database and the cgroup tree that all dispatches share.
Finding a free uid and `useradd` are two steps. Several dispatches may have one execution id
(a Decision executed again) or one username (8 characters of the id). `stray[d]` is a
process the artifact left behind, which keeps its uid, its leaf and the child's output.
What `useradd` and `userdel` refuse is modelled from how the scripts call them: a name or
uid that exists, a user with processes. Every step may fail. A kill takes effect at once
(the code waits up to 5 seconds for it). The broker itself does not die. `outlived` remembers the
dispatches in whose leaf a process was left when `release_cgroup` looked: `TryReleases` says that
after the `try` block every leaf is gone but theirs and those at which `rmdir` raised `OSError`,
however the child ended.

### SpawnHelper

`stage[d]` is where the one process of a dispatch is: the helper, from the envelope over
`mkdir`, the flag `g_cleanup.cgroup_created`, the join, the sealed files, the end of stdin and the loss
of root to `execve`; then the bootstrap; then the body. `on_timeout` is the alarm, between any
two steps, inside the cleanup too. `cleanup_before_exit` leaves and removes the leaf *by its
path*. `Refusal` is what the envelope alone is refused for, in the order of the checks.
Both backends' `run` share the actions that agree (`provision`, `launch`, `release`) and have
their own waits: `Checked` dispatches wait for a check-in and then for output, the others in
`subprocess.run`. A broker that is not root starts the helper through `sudo` and may not kill
it (`Unprivileged`): the `PermissionError` leaves the `try` block and the user is released under
a helper that still runs. Provisioning is one step here, since its race is `UidCgroup`'s
subject; the registry's lock is `Checkin`'s; what the artifact forks is left out. What the artifact
printed is read after exit 0 only, and reading it or collecting the ground truth may raise
(`read_output`).

The helper's contract is more than the code does in three small ways. SH-21 and
`contracts/spawn_helper.md:302-309` say that no failure leaves a leaf; a failed `execve`, a
failure after `setuid`, and an alarm between `mkdir` and the flag do, which is why
`LeafReleased` names its exceptions. An existing leaf exits 23, where the table at SH-17 has 17.
The envelope `{}` exits 12 where 13 is documented; the backends never send it.

### PodMediation, MediationEvidence

A dispatch is a mediator process (`Mediated`) or a direct call of the backend (`Direct`). Every
`kubectl` call is an action that may fail, and a failed `apply` may have created its Pod;
the kubelet moves the Pod (`schedule`, `pod_ends`), `delete_labeled_pods` is teardown. `detail` is the first of the request's
faults in the order `parse_request` looks for them. The evidence module adds the requester's
cases, the observer, and `verdict_for`; an attempt ends in `PASS`, `FAIL` or `INCONCLUSIVE`.
The models assume that a `kubectl` call returns: only the reachability check has a timeout.

What the code does that its comments do not say: the request fault `unencodable` escapes
`parse_request`, which "never raises anything else", and exits 70; a configuration that is not
UTF-8 ends the mediator with a traceback and status 1; undecodable Pod logs give
`internal_error` although the Pod succeeded, and a status that is no JSON although it may run on;
case B passes its preflight on a "refused" answer,
which a credential of a namespace that may still create Pods also gets; the preflight is read by
words of `kubectl`'s error text ("forbidden", "no such file or directory"), so that one failure may
make a requester with access look like one without, and `VerdictIsSound` has to except the `PASS`
of such a requester whose Pod the observer missed; a socket is tested by
opening it for reading, which never succeeds (`authority_snapshot.py:119`);
`with_substrate_evidence` drops its `extra_fail_mechanisms`; a retry after `execution_failed`
makes a second Pod.

### DualObservation

`test` goes from the capture over the dispatch (`PodMediation`'s actions on the one direct
dispatch) to the criteria, the evidence files and the cleanup, while `observer` polls and
stores what it saw. The observation may be the attempt's own Pod or another one with colliding
labels. Six of the seven criteria are modelled; the seventh is about imports and a git diff.
`WrittenAsJudged` excepts the attempts whose observer was not done within `wait_done`'s 30
seconds: the test does not look at `wait_done`'s answer, writes the files and judges afterwards,
so the criteria can pass on an observation the files lack, although
`test_stage2_dual_observation.py:373-378` says that all evidence is on disk first. The
observer's docstring says that it "cannot miss the Pod's Running window"; polling can, as
its own branch for a Pod that has already ended admits. `clean_up` asks for the deletion and waits:
`kubectl delete` runs without a limit and comes back when the Pods are gone (`deletion_returns`, after
the kubelet's `remove_pod`) or with a failure (`deletion_fails`), whose status is ignored. It
deletes any Pod with the labels.

### CompletionParsing, CognitiveLoop, Session

A completion is a record of what the checks tell apart. The checks that look a value up in
a set raise `TypeError` for a JSON array or object, which is no `IntentParseError`: the turn
then ends outside of every handler of `step` (`parse_raises`), and the log has no ending for it
although `session_log.py` says that one can tell from it how the turn ended.

`staged` holds the entries `working_history` has beyond `self.history` until `commit()`. A
history entry is its role, its turn and what it is about. A dispatch ends in one of the
`Outcomes`: executed, refused (every category a cycle continues from), integrity_rejected, or
an exception `step` does not catch. With `SinkMayFail` the event sink may raise wherever it is
called. A bare `GateViolation` that carries a Decision cannot come from `Broker.dispatch`
(it executes the very Intent it submitted), so that branch is not modelled.

`Session` adds `main()`: the log that may not open, the profile that may not compose, the turns,
and what the operator is shown. The log is both the loop's sink and `main()`'s own. Errors of
`print` are left out; a `KeyboardInterrupt` in a turn reaches no state that a failing sink
does not. A `same_process` artifact that calls `sys.exit()` ends the REPL without a record.

### Workspace, InProcess, Reconciliation, Profiles

A path stands for what `Path.resolve()` makes of it. A directory is its entries in the order of
their names, an entry a name and what it resolves to, so a link may lead anywhere: out of the
root, to an ancestor, to a file that is listed elsewhere too, to nothing. `next_directory`,
`visit_entry` and `scan_file_for_matches` are the steps of the walk, so its order, its bound on
files and the file that blocks it are part of the state. A file is the lengths of its matching
lines, and a match its file, its line and how much of the line it shows. The in-process backends and the reconciliation
are functions of the artifact. `Profiles` asks one intent of each of the two profiles.

Found while translating, and not otherwise recorded: the exclusion of directories is by the
*link's* name, so a link of another name to `.git` is walked though lines 38-45 of
`execution_readonly.py` say it never is; a link to an ancestor makes a narrowed search walk the
whole root; a FIFO passes for a regular file and blocks the search for ever; a regular expression
has no time limit; `resolve()` of a link to itself (before Python 3.13), a NUL in a path, an
unreadable file given to `read_file` and some patterns raise what is no `ExecutionError`;
a match is cut at 500 characters and neither the match nor `truncated` tells (line 310), although
lines 15-17 say that what is cut is "never silently" cut, so `EvidenceIsHonest` promises of a match
its place and its first characters only; the root's `.gitignore` is read before every search of a
directory, unconfined (line 114), so a link of that name leads out of the root and a FIFO of that name
blocks the search, and `Confined` excepts exactly this file; unreadable files are passed over and `truncated` stays
`False`; `truncated` is also `True` when exactly `max_matches` were found; of two claims
about one path only the first is compared.

## 3. Runs

| Run | Instance | States | Shows |
|---|---|---|---|
| `mediation` | 2 principals, 2 kinds, 1 order, 2 order ids and 2 issuers that can be read in two ways, delegation depth 1, 2 authority ids, 2 intents, 2 decisions, 1 run, 2 artifacts | 27 068 | attenuation and lineage over a whole chain with a budget that runs out; what runs is what was decided, mixing included |
| `decision_replay` | 1 decision, 2 runs | — | violation: a Decision runs twice |
| `checkin` | 2 dispatches, 2 uids, any interleaving with other connections and `stop` | 42 122 | safety, liveness and the refinement of `Attestation` |
| `checkin_late` | 1 dispatch | — | violation: a failed check-in whose artifact began |
| `uid_cgroup` | 3 dispatches, 2 of one execution id, 2 uids, one artifact that leaves a process behind | 345 165 | identity, confinement, release, liveness; the uid range can run out |
| `uid_cgroup_leak` | 1 dispatch with an unsafe id | — | violation: the user is never released |
| `spawn_helper` | 2 dispatches of one execution id: checked in without root, and unchecked with root | 20 647 | one spawn, confinement before code, rollback, liveness, over every place an alarm or a refused kill can fall |
| `mediation_evidence` | the requester's own backend, the mediated probe, one mediated request of a kind not granted, requests with up to two faults, 5 deployments | 89 690 | what a mediator answers fits the cluster; verdicts; every process ends |
| `dual_observation` | one attempt, one foreign Pod | 379 971 | criteria, evidence, cleanup; the attempt ends once the Pods it deletes are gone |
| `cognitive_loop` | 32 forms of completion, 3 requests, limit 3, repeat limit 2, 1 retry, 2 turns, a failing sink | 2 194 766 | history, report, bounds, repeat detection, log and REPL |
| `cognitive_loop_report` | 1 turn | — | violation: a dispatch missing from `last_operations` |
| `profiles` | a root with one subdirectory and up to 4 optional entries (links outside, to an ancestor, to a file listed already, to nothing; a FIFO), unreadable paths, no `.gitignore` or one that is a file, a FIFO or a link outside, every backend at its limits | 768 837 | what an Effect and a reconciliation say; nothing outside the root but a linked `.gitignore` |

Bounds are constants (`MaxDecisions`, `MaxRuns`, `MaxTurns`, ...) that guard the action they
bound. Two turns suffice for the loop because nothing but the history and `last_operations`
crosses from one turn to the next and the second turn starts from every way the first can end. A
limit of 3 operations and a repeat limit of 2 let a window fill, slide and be reset. One order and
a chain of two authorities contain every check of `delegate` passing and failing; longer chains
are covered by the proofs. In `spawn_helper` the two dispatches collide in everything that can
collide (execution id, leaf, username) and differ in every flag; more dispatches, and
different ids with one username, are covered by the proofs. In `profiles` some tree, file, line or
artifact meets each limit and another exceeds it. `cognitive_loop` has a null kind in a malformed
request only, since a third signature is all that fits; the request that it makes is in
`cognitive_loop_report`. The payloads `A` and `B` and the authority ids are
symmetric where a run declares it; no run with a symmetry checks liveness. Deadlock is not
checked: dispatches end, turns run out, and a system without work to do rightly stops.

**Fairness.** Five runs need it. A broker thread that is inside `run` keeps running, and each
of its waits has a limit (`wait_for_result`, `communicate(timeout=10)`, `wait(timeout=5)`),
so weak fairness of `BrokerStep` is what the code's scheduling gives. In `SpawnHelper` the helper's
steps that wait for nobody and its alarm are fair as well, what arrives on stdin, the
bootstrap and the body are not; `Settles` excepts the dispatches of a broker that is not root
through `subprocess.run`, which waits for a process that it could not kill. In `PodMediation` the
mediator's own steps and the passing of the deadline are fair, the kubelet is not. In
`DualObservation` the test, the observer's `give_up` and `store` and the dispatch's steps are fair;
kubelet, capture and artifact may do nothing. The test's `kubectl delete` comes back only when the
Pods it deletes are gone, which needs the kubelet (`remove_pod`, not fair), so `AttemptEnds` has three
parts: the test reaches its cleanup whatever the cluster does, the cleanup ends once those Pods are
gone, and the observer's thread ends.

**Findings.** Four statements of the documentation are not what the code does; each has a
violation run with a short trace, and `PROJECT.json` quotes the lines. (The remarks in section 2
are read off the code while modelling it and have no run of their own.)

- `DecisionSpentOnce`: Gate and Executor keep no record, so a Decision runs again on every
  backend that does not refuse by itself.
- `NoEffectOnFailedCheckin`: the wait times out, a check-in is verified before the lock is
  taken, the child begins its artifact, and the dispatch still raises `CheckinFailedError`.
- `ReleasesOnEveryExit`: `provision_cgroup` and `os.pipe` come after `useradd` and before
  the `try`.
- `ReportsEveryOperation`: exceptions outside `GateViolation`, `ExecutionError` and
  `IdentityError` pass through `step` without a record. `TruthfulReport`, which holds, says
  how much can be missing: the last dispatch and no more.

## 4. Proofs

`Mediation_proofs` proves for all constants (any number of principals, kinds, orders and
authorities, any policy table, chains of any length) type correctness, `AttenuatedFromOrder`,
`SoundLineage`, `RanAsMinted`, `RanAuthorizedArtifact` and `RanWithinOrder`. The assumptions
are the named ones of `Mediation`: the shape of the constants, that `None` is no artifact
or identifier, and that the names in a set of kinds without separators can be read off their join
(`JoinedAssumption`). That a text determines its object is not assumed. The first part of the module
proves it for objects that are separate: `OrderTexts`, `AuthorityTexts` and `DecisionTexts` take a
text apart piece by piece (`Apart`, `WrittenOnce`), and `SameOrder`, `SameAuthority` and
`SameDecision` conclude that two objects with one text are one, and that the three
families have texts of different lengths (4 or 5 pieces, 6, 8), so that no token passes from one
family to another. Nothing is assumed of what the words of an identifier are: a word may be a number,
a truth value or a digest.

`AttenuatedFromOrder` is not inductive: `delegate` works on the object it is handed, so the
proof has to know that an object which verifies *is* one Gate minted. `Genuine` states that
every minted object carries the token of its own fields, and `AllSeparate` that each is separate as
long as `separated` holds; since a token then determines the fields,
an object that verifies with a minted token is a member of the minted set (lemmas
`VerifiedOrderMinted`, `VerifiedAuthorityMinted`, `VerifiedDecisionMinted`). That is the
"induction" the docstring of `Gate.delegate` appeals to. `DecisionsGrounded` and
`DecisionsAnswer` carry from an authority and an intent to the Decision what
`RanWithinOrder` and `RanAuthorizedArtifact` need at the run, and `RunsCorrespond` what
`execute` compared. The invariant `Inv` is the conjunction; there is one lemma for each
action and `NextInv` combines them.

`Checkin_proofs` proves the safety properties of the run `checkin` and the refinement of
`Attestation` for any number of dispatches and uids, from `ExpectedUidAssumption` and
`NoUidAssumption`. The properties say what a dispatch may end with; none of them is inductive,
because what a thread may do depends on how far the others are. `Inv` adds that relation for
each dispatch: `Stages` (the position of `run` says whether the registration is in the table,
what the wait answered and whether a child can live), `Answers` (the verified uid, the answers
sent and the connection of the child agree: a uid is recorded exactly when the child was told
yes) and `Bodies` (artifact code begins once, after a yes). `OtherChangesNothing` is the step
that matters: a connection from anything but the spawned child changes no answer, since its
uid is wrong or the artifact it belongs to runs because the nonce was answered already. For the
refinement, the lemmas `BrokerPromise`, `ChildPromise` and `HandlerPromise` map each step to
one of `Attestation` or to a stutter under the substitution that `Checkin` declares.

`UidCgroup_proofs` proves the five safety properties of the run `uid_cgroup` for any number of
dispatches, any sharing of execution ids and usernames, and any range of uids. In particular it
covers two execution ids with the same first eight characters, which the instance does not
contain. `Owner` is the core of `Inv`: as long as a dispatch is between `useradd` and `userdel`,
*or a process of it lives*, the user it made exists, is its own and has its uid. The second half
is needed because a dispatch can settle and leave a process behind; it is preserved because
`userdel` refuses a user with processes. That process is also the one reason but `OSError` for which a
leaf stays, which `TryReleases` states of the moment `release_cgroup` looked (`outlived`), not of
every child that was ever confined. With `Distinct` (no two users have one uid, because
`useradd` refuses a taken one) a shared uid leads to a shared user and so to one dispatch.
`Stage` relates the position of `run` to the leaf, the child and the handshake. `LowestFree`
shows that a range that is not exhausted has a lowest free uid.

`SpawnHelper_proofs` proves `TypeOK`, `OneSpawn`, `ConfinedBeforeCode` and `LeafReleased` for any
number of dispatches through either backend, any execution ids and usernames they share, and any
uids. `OneSpawn` is about leaves that are removed by path, so the invariant says who has
one: `Leaf` states that from its `mkdir` until its cleanup, and for good once it has spawned, a
helper's leaf is the one under its id, and that a process that joined is in a leaf that
exists and is its own. The cleanup of another helper keeps this because its own flag
`cgroup_created` means that it has the leaf itself; only a cleanup that an alarm
re-entered can remove a second time, hence `Reentered` in the statements. The last conjunct of
`ConfinedBeforeCode`, the uid of a body, needs `Owner`, `Exclusive` (a username has one dispatch
between provisioning and release) and `Wait`: a registration that lets a check-in pass belongs
to a `run` that still waits, so its user still exists, and from then on `userdel` refuses.

`Session_proofs` has two parts. The first proves type correctness and five safety properties of a
turn of `CognitiveLoop`, for any limits, any model, any broker and any failing sink. `Steps` reduces the eleven actions to what they do to everything but
the log: a step begins the turn, asks the model (and raises, retries, returns or requests) or
dispatches. Each property then has an invariant of its own. `Reports` says that `last_operations`
is what was dispatched, but for the operation a turn escaped in. `Budget` counts completions: while
a turn asks, at most `Retries + 1` for each dispatch behind it and one for each failure in a row.
`NoneFailed` says that a turn that goes on has met no outcome that fails closed. `Conversation`
says that what is staged opens with the request and will be whole once an answer follows, and
`OnRecord` counts the dispatches that the history mentions. `Windowed` says that the window holds
the signatures of the latest operations, the requested one included, as many as it has room for; the
count in the window is then a count over dispatches by shifting one set of positions onto the other
(`Shifted`, `Counted`), which is how `FewRemain` and `LoopWasDispatched` get their bounds.

The second part proves that a session implements the loop (`SessionIsLoop`: a step of `main()`
is a step of `CognitiveLoop` or leaves it alone), so that all of the above holds in it
(`SessionKeepsPromises`), and adds `LogAhead` and `OperatorSeesTurn`. `AskTells` and
`DispatchTells` say what every step adds to the log: idle events and at most one that counts, or
a prefix of what a dispatch is accounted with. `Ahead` strengthens `LogAhead` for a turn that goes
on: its log has no ending, and a decision and a result of every dispatch. These theorems are about
`SessionSpec`, the specification of the run `cognitive_loop`.

`MediationEvidence_proofs` proves `TypeOK`, `AnswerMatchesCluster` and `VerdictIsSound` for any number
of dispatches, any requests and any access. `Behind` relates where a dispatch is to the Pod it
has: there is none before the apply, there is one from the polling on, and what was last seen of a
Pod that had ended is what it ended with. For the verdicts, `Requesting` says that without access
the requester's own call never gets past the reachability check (its preflight may say anything), `Attempted` that whatever was
created is behind an attempt that was not rejected, and `Recorded` that the mechanism of each case
is still what its probe found; `RollUp` is the lemma about `case_mechanism`.

`DualObservation_proofs` proves `AttemptIsSound`: whatever the order in which the dispatch, the
observer, the capture, the kubelet and the other execution move. Three things make it inductive.
`Dispatched` ties the test's position to its dispatch's: an answer `ok` needs a Pod that
ended with 0, and no later step changes an exit code once the Pod is over. `Criteria` says of
each criterion that passed what it saw in a form nothing can undo; that the fourth and fifth rest on the
Pod of this dispatch comes from their comparison of the captured cgroup with the observed Pod, since
an event with a cgroup is the artifact's own (`Watched`). `Recorded` says that an observer that was done
when the test looked has stopped writing, which is why files and judgement agree, and why an overdue
one must be excepted. For `NothingLeft` the deletion has to find every Pod of the attempt and to outlast it: when
`clean_up` asks the dispatch has exited, so no Pod is created after it, and `Cleaned` says that a
deletion that returned without an error returned after the last of them was gone. The proof assumes only the named assumptions of the two modules;
`ResultAssumption` says that "no result" is not the result "pass".

`Profiles_proofs` proves `Confined` and `EvidenceIsHonest` for any tree, any links and
`.gitignore`, any bounds, artifacts and intents. `Confined` excepts the file that the root's
`.gitignore` leads to, and that for a search of a directory only; the rest of it needs the position of the walk: it
queues and yields only what is inside the root (`Types`, from `Treated`), and `Walk` says that
what is queued was not listed and that both are in `visited_dirs`, so nothing is listed twice.
`EvidenceIsHonest` is a claim about the answer of a search that took any number of steps, against
a definition of all matches, each its whole line, that knows no steps and no cut at all (`Shows`
relates a match to the line it shows the beginning of; `AllMatches` is over `Reached`, the least
set of directories that is closed under what the walk descends to). So its invariant `Evidence`
says what each stage has done so far. `Walking`: everything queued or yielded
is below the start, and of each directory visited every entry is handled, or still to be looked at, or
the directory is still to be listed. When nothing is left the visited directories are closed, and
`ReachedLeast` makes them all that is reached: nothing was missed. `Scanning`: everything found is a
match, and until something is cut every eligible file is scanned or still to be. `Session`
ties the answer to the intent it answers. For the rest, `WholeIsPrefix` and `BoundedAnswer` are
the lemmas about truncation that all other backends share, and `Reconciled` with `ClaimFound` gives
the Belnap values from what `next()` finds.

The assumptions are on the constants and say what a file system and a payload are: the entries of
a directory are a sequence, each leading to a path or to a link to itself (`TreesAssumption`); a
path is of one kind and a file has a size (`KindsAssumption`); bounds are natural numbers; an
intent names a path or one of the values that `_confine` refuses, and its artifact prints,
leaves and claims something well-formed (`IntentsAssumption`, `IsArtifact`); "directory" and "binary" are
not contents of a file (`ContentsAssumption`). TLC evaluates them in the run `profiles`.

So every safety property and every refinement that a passing run checks is also a
theorem. Only model-checked are the liveness properties (`Settles` of the check-in, of the
uid+cgroup backend and of the spawn helper, `Ends` of a mediated
or direct dispatch, `AttemptEnds`) and the violations. Liveness and `ENABLED` are
out of the prover's reach, and so is induction over data (what a recursive definition computes for
every input), which is why `Reached` is a least closed set and not a recursion.

## 5. Not modelled

- **Lab** (`lab/001`-`009`, a third of the lines): nine self-contained prototypes that
  `siphonophore_core` consolidated. Modelling them would repeat the models of the code that
  replaced them.
- **Prompts and the model client**: text and network I/O. A completion is arbitrary here.
- **Parts of the experiments**: the cluster-free SDK probes (`Mediation` has the guards they
  try), audit attribution, integrity reports, before/after snapshots, the evidence directory with
  its redaction, the audit-only tests of the first dual-observation stage, and the scripts that create
  and delete clusters.
- **Data**: cryptography (idealised), the texts of messages, bounding and redaction of log
  fields, `--verbose`.
- **The operating system** beyond what the code calls. File descriptors: both uid backends close
  theirs a second time on the way out, which would matter only with several dispatches in one process.
  The tree that the read-only backends walk does not change during a dispatch.
- **The death of a broker in the middle of a dispatch**, which leaves users and leaves
  that nothing in the package collects.
- **Unbounded waits**: a `kubectl` call that hangs, a regular expression that takes for ever.

## 6. Plan

1. A broker that dies in the middle of a dispatch (`UidCgroup`, `Checkin`).
2. `Broker`: `Mediation` and `CognitiveLoop` composed through `Broker.dispatch`, with the loop shown
   to implement an abstract turn.
3. The check-in composed with the provisioning it depends on.
