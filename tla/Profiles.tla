------------------------------ MODULE Profiles ------------------------------
(* A dispatch through each of the two profiles the package composes        *)
(* (siphonophore_harness/composition.py): "planning", which routes a kind  *)
(* of operation to its own read-only backend, and "portable", which routes *)
(* code by its declared consequence.  Gate and Executor are Mediation's    *)
(* subject: here a Decision is genuine.  What an artifact reports of its   *)
(* own writes may be reconciled after its dispatch.                        *)
EXTENDS Workspace, InProcess, Reconciliation

CONSTANTS
  Intents  \* what may be dispatched: kind, consequence, payload and artifact

\* An artifact: what it prints, the files it leaves and what it reports of them.
IsArtifact(artifact) ==
  /\ artifact.prints \in Nat
  /\ artifact.wrote \in [Names -> Left] /\ artifact.claims \in Seq(Claim)

ASSUME IntentsAssumption == \A intent \in Intents :
  /\ intent.path \in Paths \cup {Absent, Scalar, Absolute, Null, Loop}
  /\ intent.artifact = NoCode \/ IsArtifact(intent.artifact)

VARIABLES
  profile,         \* the profile the session was composed with
  running_as_root, \* the broker's euid is 0
  asked,           \* the intent that was dispatched
  verdicts         \* the values reconciled, or {}

vars == <<workspace, profile, running_as_root, asked, verdicts>>

NoIntent == [kind |-> "none"]

-----------------------------------------------------------------------------
(* Composition and routing.                                                *)

\* ConsequencePolicy.DEFAULT_MAPPING and DEFAULT_ALLOWED_KINDS.
DEFAULT_MAPPING ==
  [low |-> "same_process", high |-> "separate_process", privileged |-> "uid_cgroup"]
DEFAULT_ALLOWED_KINDS == {"write_file", "run_artifact"}

\* A profile is its registered backends, its mapping and the kinds it permits.
compose_profile(backends, mapping) ==
  [execution_classes |-> backends, policy_mapping |-> mapping,
   allowed_kinds |-> DEFAULT_ALLOWED_KINDS, consequence_is_load_bearing |-> TRUE]
compose_kind_profile(backends) ==
  [execution_classes |-> backends, policy_mapping |-> [k \in backends |-> k],
   allowed_kinds |-> backends, consequence_is_load_bearing |-> FALSE]

portable_profile == compose_profile({"same_process", "separate_process"}, DEFAULT_MAPPING)
planning_profile == compose_kind_profile({"read_file", "list_directory", "search_repository"})

\* evaluate of ConsequencePolicy or of KindExecutionPolicy: the class, or "" for a refusal.
evaluate(p, intent) ==
  IF intent.kind \notin p.allowed_kinds THEN ""
  ELSE LET key == IF p.consequence_is_load_bearing THEN intent.consequence ELSE intent.kind
       IN IF key \in DOMAIN p.policy_mapping THEN p.policy_mapping[key] ELSE "same_process"

\* A class without a backend is refused by the Executor.
Routed(intent) ==
  LET class == evaluate(profile, intent)
  IN IF class \in profile.execution_classes THEN class ELSE ""

dispatch(intent) ==
  /\ stage = "idle"
  /\ asked' = intent
  /\ CASE Routed(intent) = "" ->
            /\ stage' = "answered" /\ answer' = Ends("refused")
            /\ Unchanged /\ UNCHANGED <<listed, opened>>
       [] Routed(intent) \in {"same_process", "separate_process"} ->
            /\ answer' = IF Routed(intent) = "same_process"
                           THEN same_process(intent.artifact, running_as_root)
                           ELSE separate_process(intent.artifact, running_as_root)
            /\ stage' = IF answer'.how = "blocked" THEN "blocked" ELSE "answered"
            /\ Unchanged /\ UNCHANGED <<listed, opened>>
       [] Routed(intent) = "read_file" -> read_file(intent.path)
       [] Routed(intent) = "list_directory" -> list_directory(intent.path)
       [] Routed(intent) = "search_repository" -> search_repository(intent.pattern, intent.path)
  /\ UNCHANGED <<profile, running_as_root, verdicts>>

-----------------------------------------------------------------------------
(* Reconciliation, by whoever waited for the artifact's process.           *)

Ran ==
  /\ stage = "answered" /\ answer.how \in {"executed", "failed"}
  /\ Routed(asked) \in {"same_process", "separate_process"}
  /\ ~ Refuses(asked.artifact, running_as_root) /\ asked.artifact.text # "null"

reconcile_reports ==
  /\ Ran /\ verdicts = {}
  /\ Readable(asked.artifact.wrote)
  /\ verdicts' = {<<n, c, reconcile_path(asked.artifact.claims, n, c,
                            collect_ground_truth(asked.artifact.wrote))>> :
                    n \in Names, c \in Contents \cup {Nothing}}
  /\ UNCHANGED <<workspace, profile, running_as_root, asked>>

\* The backends of planning do not ask who runs them, and those of portable look at no tree.
Init ==
  /\ WorkspaceInit
  /\ profile \in {portable_profile, planning_profile}
  /\ profile = portable_profile => tree = CHOOSE t \in Trees : TRUE
  /\ running_as_root \in BOOLEAN /\ (running_as_root => profile = portable_profile)
  /\ asked = NoIntent /\ verdicts = {}

Next ==
  \/ \E intent \in Intents : dispatch(intent)
  \/ search_steps /\ UNCHANGED <<profile, running_as_root, asked, verdicts>>
  \/ reconcile_reports

Spec == Init /\ [][Next]_vars

-----------------------------------------------------------------------------
(* Properties.                                                             *)

Bounds ==
  [read_file |-> MAX_READ_BYTES, list_directory |-> MAX_LISTING_ENTRIES,
   search_repository |-> MAX_SEARCH_MATCHES, same_process |-> MAX_CAPTURED_OUTPUT_CHARS]

\* All there was to read, to list or to capture, for the backends that give it in its order.
Whole ==
  CASE Routed(asked) = "read_file" -> [i \in 1 .. Size[asked.path] |-> i]
    [] Routed(asked) = "list_directory" ->
         [i \in DOMAIN tree.entries[OrRoot(asked.path)] |->
            tree.entries[OrRoot(asked.path)][i].name]
    [] OTHER -> Printed(asked.artifact)

\* A match shows its line whole or, and nothing in an Effect says so, cut at
\* MAX_MATCH_LINE_CHARS.
Shows(match, line) ==
  /\ match[1] = line[1] /\ match[2] = line[2]
  /\ IF line[3] <= MAX_MATCH_LINE_CHARS THEN match[3] = line[3] ELSE match[3] = MAX_MATCH_LINE_CHARS

\* A search reports nothing but lines it is about and, unless it says it was truncated, all.
SearchIsHonest(found, truncated, lines) ==
  /\ \A match \in found : \E line \in lines : Shows(match, line)
  /\ ~ truncated => \A line \in lines : \E match \in found : Shows(match, line)

\* What an Effect does not say was truncated is complete, and what it says was truncated met
\* its bound: bytes, entries and output, and for a search every line that matches in every
\* readable file that the exclusions leave, over any links, and nothing else.  The exception is
\* the text of a match: a line longer than MAX_MATCH_LINE_CHARS is cut without a word
\* (SearchRepositoryBackend.run, _iter_confined_files, _truncate_captured_output).
EffectIsHonest ==
  stage = "answered" /\ answer.how = "executed" =>
    LET class == Routed(asked) IN
    /\ IF class = "search_repository"
         THEN SearchIsHonest(ToSet(answer.detail), answer.truncated,
                             AllMatches(OrRoot(asked.path)))
         ELSE /\ IsPrefix(answer.detail, Whole)
              /\ ~ answer.truncated => answer.detail = Whole
    /\ class \in DOMAIN Bounds => Len(answer.detail) <= Bounds[class]
    /\ answer.truncated => Len(answer.detail) = Bounds[class] \/ cut

\* Whether a report claims that a path is there, or has a content.
Claims(n, c) ==
  \E i \in DOMAIN asked.artifact.claims :
    /\ asked.artifact.claims[i].path = n
    /\ c = Nothing \/ asked.artifact.claims[i].content = c

\* Whether it is so.
Holds(n, c) ==
  IF c = Nothing THEN asked.artifact.wrote[n] \in Contents ELSE asked.artifact.wrote[n] = c

\* A value never credits a report with what is not so, and never blames it for what is so or
\* was not claimed; with one claim for each path it is Belnap's value of the two.  (Of two
\* claims of one path only the first is looked at: reconcile_path.)
VerdictIsBelnap ==
  \A v \in verdicts :
    /\ v[3] \in {"corroborated", "unreported_activity"} <=> Holds(v[1], v[2])
    /\ v[3] \in {"corroborated", "contradiction"} => Claims(v[1], v[2])
    /\ (\A i, j \in DOMAIN asked.artifact.claims :
          asked.artifact.claims[i].path = asked.artifact.claims[j].path => i = j)
         => v[3] = reconcile(Claims(v[1], v[2]), Holds(v[1], v[2]))

\* What is told of an operation, or of a report about it, is what happened.
EvidenceIsHonest == EffectIsHonest /\ VerdictIsBelnap

\* Whatever the links and the payload say, nothing outside the root is listed, and nothing
\* outside it is read but, by a search of a directory, the file that a .gitignore of the root
\* links to; every directory is listed at most once, and a session composed for planning runs
\* no code (_confine, _iter_confined_files, _GitignoreRules.load, planning_profile).
Confined ==
  /\ ToSet(listed) \cap Outside = {}
  /\ opened \cap Outside \subseteq (IF asked.kind = "search_repository" THEN IgnoreFile ELSE {})
  /\ \A i, j \in DOMAIN listed : listed[i] = listed[j] => i = j
  /\ profile = planning_profile /\ stage # "idle" /\ answer.how # "refused" =>
       asked.kind \in {"read_file", "list_directory", "search_repository"}
=============================================================================
