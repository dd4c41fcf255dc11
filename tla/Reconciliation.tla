--------------------------- MODULE Reconciliation ---------------------------
(* siphonophore_core/audit.py: a self-report against what an observer read *)
(* in the directory of the principal's files after its process ended.      *)
EXTENDS Naturals, Sequences, FiniteSetsExt

CONSTANTS
  Names,     \* of the files a report may speak of
  Contents,
  Nothing    \* no file; also: no content is expected, or claimed

ASSUME ContentsAssumption == Contents \cap {Nothing, "directory", "binary"} = {}

\* What may be found at a name after the process, and what may be claimed of it.
Left == Contents \cup {Nothing, "directory", "binary"}
Claim == [path : Names, content : Contents]

BelnapValues == {"corroborated", "contradiction", "unreported_activity", "no_evidence"}

\* Both channels agree, one speaks alone, or neither.
reconcile(claimed, observed) ==
  CASE claimed /\ observed   -> "corroborated"
    [] claimed /\ ~ observed -> "contradiction"
    [] ~ claimed /\ observed -> "unreported_activity"
    [] OTHER                 -> "no_evidence"

\* A directory is no file, and a file that is not text makes the reading raise.
Readable(wrote) == \A n \in Names : wrote[n] # "binary"
collect_ground_truth(wrote) ==
  [n \in Names |-> IF wrote[n] = "directory" THEN Nothing ELSE wrote[n]]

\* The first claim of a path, as next() finds it; a later one is not looked at.
claim_for_path(claims, path) ==
  LET about == {i \in DOMAIN claims : claims[i].path = path}
  IN IF about = {} THEN Nothing ELSE claims[Min(about)].content

\* Mutant: what is expected is compared with the report alone.
reconcile_path_trusting(claims, path, expected_content, ground_truth) ==
  reconcile(claim_for_path(claims, path) \in
              IF expected_content # Nothing THEN {expected_content} ELSE Contents,
            ground_truth[path] # Nothing)

\* With an expected content the proposition is that the path has it, else that it is there.
reconcile_path(claims, path, expected_content, ground_truth) ==
  IF expected_content # Nothing
    THEN reconcile(claim_for_path(claims, path) = expected_content,
                   ground_truth[path] = expected_content)
    ELSE reconcile(claim_for_path(claims, path) # Nothing, ground_truth[path] # Nothing)

=============================================================================
