--------------------------- MODULE Profiles_proofs ---------------------------
(* Theorems about Profiles: for any tree and .gitignore, any links, any     *)
(* bounds and any intents, a dispatch stays in the root.                    *)
EXTENDS Profiles, SequenceTheorems, WellFoundedInduction, TLAPS

-----------------------------------------------------------------------------
(* The inductive invariant.                                                *)

Inside == Dirs \ Outside
Leaves == (Files \cup Fifos \cup Broken) \ Outside
Distinct(s) == \A i, j \in DOMAIN s : s[i] = s[j] => i = j

\* The walk queues directories and yields other paths, all of them below the root.
Types ==
  /\ tree \in Trees
  /\ profile \in {portable_profile, planning_profile}
  /\ stack \in Seq(Inside) /\ limited \in Seq(Leaves) /\ listed \in Seq(Inside)
  /\ IsEntries(current)

\* A directory is queued once and listed once: what was is in visited_dirs, and what is
\* queued was not listed.
Walk ==
  /\ Distinct(listed)
  /\ stage = "idle" => listed = <<>>
  /\ stage = "walking" =>
       /\ Distinct(stack)
       /\ \A i \in DOMAIN stack : stack[i] \in visited
       /\ \A i \in DOMAIN listed : listed[i] \in visited
       /\ \A i \in DOMAIN stack, j \in DOMAIN listed : stack[i] # listed[j]

\* What a search may read outside the root.
Excepted == IF asked.kind = "search_repository" THEN IgnoreFile ELSE {}
Read ==
  /\ stage = "idle" => opened = {}
  /\ opened \cap Outside \subseteq Excepted

Observations == {"read_file", "list_directory", "search_repository"}
Kept ==
  /\ profile = planning_profile
  /\ stage \in {"walking", "scanning"} \/ (stage # "idle" /\ answer.how # "refused")
  => asked.kind \in Observations

Inv == Types /\ Walk /\ Read /\ Kept

\* The rules of .gitignore and the file they are in depend on the tree only, which does not
\* change.
LEMMA FrameOfRules ==
  ASSUME UNCHANGED tree
  PROVE  load' = load /\ IgnoreFile' = IgnoreFile
  BY DEF load, Loaded, IgnoreFile

\* Whatever is read below the root, once something was asked.
LEMMA ReadKept ==
  ASSUME Read, UNCHANGED <<tree, asked>>, stage' # "idle", opened' \cap Outside \subseteq opened
  PROVE  Read'
<1>1. Excepted' = Excepted
  BY FrameOfRules DEF Excepted
<1> QED BY <1>1 DEF Read

-----------------------------------------------------------------------------
(* Confinement.                                                            *)

\* What _confine lets pass is not outside the root.
LEMMA NotOutside ==
  ASSUME NEW path, Confines(path)
  PROVE  path \notin Outside \cup {Scalar, Absolute, Null, Loop}
  BY DEF Confines, confine, Failed, Raised, Ends

\* So it is a path below the root, for an intent that names one or none.
LEMMA Confinement ==
  ASSUME NEW path \in Paths \cup {Absent, Scalar, Absolute, Null, Loop}, Confines(OrRoot(path))
  PROVE  OrRoot(path) \in Paths \ Outside
<1>1. OrRoot(path) \notin Outside \cup {Scalar, Absolute, Null, Loop}
  BY NotOutside
<1>2. Root \in Paths
  BY WorkspaceAssumption DEF Paths
<1> QED BY <1>1, <1>2 DEF OrRoot

\* The walk descends only into directories below the root, and yields only other paths below
\* it.
LEMMA Treated ==
  ASSUME NEW entry, entry.path \in Paths \cup {Loop}
  PROVE  /\ Treatment(entry) \in {"raise", "skip", "descend", "yield"}
         /\ Treatment(entry) = "descend" => entry.path \in Inside \ visited
         /\ Treatment(entry) = "yield" => entry.path \in Leaves
  BY DEF Treatment, Inside, Leaves, Paths

\* The first entry is an entry, and so are the others.
LEMMA Entries ==
  ASSUME NEW s, IsEntries(s), s # <<>>
  PROVE  Head(s).path \in Paths \cup {Loop} /\ IsEntries(Tail(s))
<1>1. s \in Seq(ToSet(s)) /\ \A entry \in ToSet(s) : entry.path \in Paths \cup {Loop}
  BY DEF IsEntries
<1>2. Head(s) \in ToSet(s)
  BY <1>1
<1>3. Tail(s) \in Seq(ToSet(s))
  BY <1>1
<1>4. Tail(s) \in Seq(ToSet(Tail(s))) /\ ToSet(Tail(s)) \subseteq ToSet(s)
  <2>1. /\ DOMAIN Tail(s) = 1 .. Len(Tail(s)) /\ Len(Tail(s)) \in Nat
        /\ \A i \in DOMAIN Tail(s) : Tail(s)[i] \in ToSet(Tail(s)) /\ Tail(s)[i] = s[i + 1]
        /\ \A i \in DOMAIN Tail(s) : i + 1 \in DOMAIN s
    BY <1>1, <1>3 DEF ToSet
  <2>2. ToSet(Tail(s)) \subseteq ToSet(s)
    BY <2>1 DEF ToSet
  <2>3. Tail(s) \in Seq(ToSet(Tail(s)))
    <3>1. Tail(s) = SubSeq(s, 2, Len(s)) /\ Len(Tail(s)) = Len(s) - 1 /\ Len(s) \in Nat
      BY <1>1, TailIsSubSeq, HeadTailProperties, LenProperties
    <3>2. \A i \in 2 .. Len(s) : s[i] \in ToSet(Tail(s))
      <4> TAKE i \in 2 .. Len(s)
      <4>1. i - 1 \in DOMAIN Tail(s) /\ (i - 1) + 1 = i
        BY <2>1, <3>1
      <4> QED BY <2>1, <4>1
    <3>3. SubSeq(s, 2, Len(s)) \in Seq(ToSet(Tail(s)))
      <4> DEFINE T == ToSet(Tail(s))
                 n == Len(s)
      <4>1. n \in Int /\ 2 \in Int /\ \A i \in 2 .. n : s[i] \in T
        BY <3>1, <3>2
      <4> HIDE DEF T, n
      <4>2. SubSeq(s, 2, n) \in Seq(T)
        BY <4>1, SubSeqProperties, Zenon
      <4> QED BY <4>2 DEF T, n
    <3> QED BY <3>1, <3>3
  <2> QED BY <2>2, <2>3
<1> QED BY <1>1, <1>2, <1>4 DEF IsEntries

-----------------------------------------------------------------------------
(* One step.                                                               *)

\* Where an intent may be routed.
LEMMA Routes ==
  ASSUME NEW intent \in Intents, profile \in {portable_profile, planning_profile}
  PROVE  /\ Routed(intent) \in {"", "same_process", "separate_process"} \cup Observations
         /\ profile = planning_profile /\ Routed(intent) # "" => intent.kind \in Observations
         /\ Routed(intent) \in Observations => intent.kind = Routed(intent)
<1>1. CASE profile = portable_profile
  <2>1. profile.execution_classes = {"same_process", "separate_process"}
    BY <1>1 DEF portable_profile, compose_profile
  <2>2. profile # planning_profile
    <3>1. planning_profile.consequence_is_load_bearing = FALSE
      BY DEF planning_profile, compose_kind_profile
    <3>2. profile.consequence_is_load_bearing = TRUE
      BY <1>1 DEF portable_profile, compose_profile
    <3> QED BY <3>1, <3>2
  <2> QED BY <2>1, <2>2 DEF Routed, Observations
<1>2. CASE profile = planning_profile
  <2>1. profile.execution_classes = Observations /\ profile.allowed_kinds = Observations
    BY <1>2 DEF planning_profile, compose_kind_profile, Observations
  <2>2. Routed(intent) \in {""} \cup Observations
    BY <2>1 DEF Routed
  <2>3. intent.kind \notin Observations => Routed(intent) = ""
    BY <2>1 DEF Routed, evaluate, Observations
  <2>4. intent.kind \in Observations => evaluate(profile, intent) = intent.kind
    BY <1>2, <2>1 DEF evaluate, planning_profile, compose_kind_profile, Observations
  <2>5. Routed(intent) \in Observations => intent.kind = Routed(intent)
    <3>1. Routed(intent) \in Observations => intent.kind \in Observations
      BY <2>3 DEF Observations
    <3>2. Routed(intent) \in Observations => Routed(intent) = evaluate(profile, intent)
      BY DEF Routed, Observations
    <3> QED BY <2>4, <3>1, <3>2
  <2> QED BY <2>2, <2>3, <2>5
<1> QED BY <1>1, <1>2

\* An operation begins, and ends at once unless it is a search.
LEMMA DispatchStep ==
  ASSUME Inv, NEW intent \in Intents, dispatch(intent)
  PROVE  Inv'
<1> USE DEF Inv
<1>1. stage = "idle" /\ listed = <<>> /\ opened = {} /\ asked' = intent /\ UNCHANGED profile
  BY DEF dispatch, Walk, Read
<1>2. intent.path \in Paths \cup {Absent, Scalar, Absolute, Null, Loop}
  BY IntentsAssumption
<1>3. /\ Routed(intent) \in {"", "same_process", "separate_process"} \cup Observations
      /\ profile = planning_profile /\ Routed(intent) # "" => intent.kind \in Observations
      /\ Routed(intent) \in Observations => intent.kind = Routed(intent)
  <2>1. profile \in {portable_profile, planning_profile}
    BY DEF Types
  <2> QED BY <2>1, Routes
<1>4. CASE Routed(intent) = ""
  <2>1. /\ stage' = "answered" /\ answer'.how = "refused"
        /\ UNCHANGED <<tree, search, listed, opened>>
    <3>1. /\ stage' = "answered" /\ answer' = Ends("refused") /\ Unchanged
          /\ UNCHANGED <<listed, opened>>
      BY <1>4 DEF dispatch
    <3> QED BY <3>1 DEF Unchanged, Ends
  <2> QED BY <1>1, <2>1 DEF Types, Walk, Read, Kept, search
<1>5. CASE Routed(intent) \in {"same_process", "separate_process"}
  <2>1. stage' \in {"blocked", "answered"} /\ UNCHANGED <<tree, search, listed, opened>>
    BY <1>5 DEF dispatch, Unchanged
  <2> QED BY <1>1, <1>3, <1>5, <2>1 DEF Types, Walk, Read, Kept, search
<1>6. CASE Routed(intent) = "read_file"
  <2>1. read_file(intent.path)
    BY <1>6 DEF dispatch
  <2>2. /\ stage' = "answered" /\ UNCHANGED <<tree, search, listed>>
        /\ opened' = opened \cup (IF answer'.how = "executed" THEN {intent.path} ELSE {})
    BY <2>1 DEF read_file, Unchanged
  <2>3. answer'.how = "executed" => Confines(intent.path)
    BY <2>1 DEF read_file, Failed, Raised, Ends, Confines
  <2>4. answer'.how = "executed" => intent.path \notin Outside
    BY <2>3, NotOutside
  <2> QED BY <1>1, <1>3, <1>6, <2>2, <2>4 DEF Types, Walk, Read, Kept, search
<1>7. CASE Routed(intent) = "list_directory"
  <2> DEFINE path == OrRoot(intent.path)
  <2>1. list_directory(intent.path)
    BY <1>7 DEF dispatch
  <2>2. /\ stage' = "answered" /\ UNCHANGED <<tree, search, opened>>
        /\ listed' = IF answer'.how = "executed" THEN <<path>> ELSE <<>>
    BY <1>1, <2>1 DEF list_directory, Unchanged
  <2>3. answer'.how = "executed" => path \in Dirs /\ Confines(path)
    BY <2>1 DEF list_directory, Failed, Raised, Ends, Confines
  <2>4. answer'.how = "executed" => path \in Inside
    BY <1>2, <2>3, Confinement DEF Inside
  <2>5. listed' \in Seq(Inside) /\ Distinct(listed')
    <3> HIDE DEF path
    <3> QED BY <2>2, <2>4 DEF Distinct
  <2> QED BY <1>1, <1>3, <1>7, <2>2, <2>5 DEF Types, Walk, Read, Kept, search
<1>8. CASE Routed(intent) = "search_repository"
  <2> DEFINE path == OrRoot(intent.path)
             refusal == SearchRefusal(intent.pattern, path)
  <2>1. search_repository(intent.pattern, intent.path)
    BY <1>8 DEF dispatch
  <2>2. refusal.how = "executed" => Confines(path) /\ path \notin Fifos \cup Broken
    BY DEF SearchRefusal, Failed, Raised, Ends, Confines
  <2>3. refusal.how = "executed" => path \in (Dirs \cup Files) \ Outside
    BY <1>2, <2>2, Confinement DEF Paths
  <2>4. /\ current' = <<>> /\ UNCHANGED <<tree, listed>>
        /\ opened' = opened \/ opened' = opened \cup Loaded
    BY <2>1 DEF search_repository
  <2>5. IsEntries(current')
    BY <2>4 DEF IsEntries, ToSet
  <2>6. \/ stage' = "answered" /\ stack' = <<>> /\ limited' = <<>>
        \/ stage' = "scanning" /\ stack' = <<>> /\ limited' = <<path>> /\ path \in Leaves
        \/ /\ stage' \in {"walking", "blocked"} /\ stack' = <<path>> /\ limited' = <<>>
           /\ visited' = {path} /\ path \in Inside
    BY <2>1, <2>3 DEF search_repository, Leaves, Inside
  <2>7. Types' /\ Walk'
    <3> HIDE DEF path
    <3>1. /\ stack' \in Seq(Inside) /\ limited' \in Seq(Leaves)
          /\ \A i \in DOMAIN stack' : i = 1 /\ stack'[i] = path /\ visited' = {path}
      <4>1. CASE stack' = <<>> /\ limited' = <<>>
        BY <4>1
      <4>2. CASE stack' = <<>> /\ limited' = <<path>> /\ path \in Leaves
        BY <4>2
      <4>3. CASE stack' = <<path>> /\ limited' = <<>> /\ visited' = {path} /\ path \in Inside
        BY <4>3
      <4> QED BY <2>6, <4>1, <4>2, <4>3
    <3>2. listed' = <<>> /\ stage' # "idle"
      BY <1>1, <2>4, <2>6
    <3> QED BY <1>1, <2>4, <2>5, <3>1, <3>2 DEF Types, Walk, Distinct
  <2>8. Read'
    <3>1. intent.kind = "search_repository" /\ Excepted' = IgnoreFile
      BY <1>1, <1>3, <1>8, <2>4, FrameOfRules DEF Excepted, Observations
    <3> QED BY <1>1, <2>4, <2>6, <3>1 DEF Read, Loaded
  <2> QED BY <1>1, <1>3, <1>8, <2>4, <2>7, <2>8 DEF Kept
<1> QED BY <1>3, <1>4, <1>5, <1>6, <1>7, <1>8 DEF Observations

\* A directory is listed.
LEMMA NextDirectoryStep ==
  ASSUME Inv, next_directory, UNCHANGED <<profile, asked>>
  PROVE  Inv'
<1> USE DEF Inv
<1> DEFINE d == Last(stack)
<1>1. /\ d \in Inside /\ stack' \in Seq(Inside) /\ Len(stack') = Len(stack) - 1
      /\ d = stack[Len(stack)] /\ Len(stack) \in DOMAIN stack
      /\ \A i \in DOMAIN stack' : i \in DOMAIN stack /\ stack'[i] = stack[i] /\ i < Len(stack)
  <2>1. stack \in Seq(Inside) /\ stack # <<>> /\ stack' = SubSeq(stack, 1, Len(stack) - 1)
    BY DEF next_directory, Types, Front
  <2>2. Len(stack) \in Nat \ {0} /\ d = stack[Len(stack)]
    BY <2>1 DEF Last
  <2> HIDE DEF d
  <2>3. /\ stack' \in Seq(Inside) /\ Len(stack') = Len(stack) - 1
        /\ \A i \in 1 .. (Len(stack) - 1) : stack'[i] = stack[i]
    <3>1. \A i \in 1 .. (Len(stack) - 1) : stack[i] \in Inside
      BY <2>1, <2>2
    <3> DEFINE n == Len(stack) - 1
    <3>2. n \in Nat /\ n <= Len(stack) /\ stack' = SubSeq(stack, 1, n) /\ stack \in Seq(Inside)
      BY <2>1, <2>2
    <3> HIDE DEF n
    <3>3. SubSeq(stack, 1, n) \in Seq(Inside)
      BY <3>2
    <3>4. Len(SubSeq(stack, 1, n)) = n
      BY <3>2
    <3>5. \A i \in 1 .. n : SubSeq(stack, 1, n)[i] = stack[i]
      BY <3>2
    <3>6. stack' \in Seq(Inside) /\ Len(stack') = n /\ \A i \in 1 .. n : stack'[i] = stack[i]
      BY <3>2, <3>3, <3>4, <3>5
    <3> QED BY <3>6 DEF n
  <2> QED BY <2>1, <2>2, <2>3
<1>2. CASE d \in tree.unreadable
  <2>1. UNCHANGED <<tree, current, listed, limited, visited, stage, opened, answer>>
    BY <1>2 DEF next_directory
  <2> QED BY <1>1, <2>1, ReadKept DEF next_directory, Types, Walk, Distinct, Kept
<1>3. CASE d \notin tree.unreadable
  <2>1. /\ current' = tree.entries[d] /\ listed' = Append(listed, d)
        /\ UNCHANGED <<tree, limited, visited, stage, opened, answer>> /\ stage = "walking"
    BY <1>3 DEF next_directory
  <2>2. IsEntries(current')
    BY <1>1, <2>1, TreesAssumption DEF Types, Inside
  <2>3. Types'
    BY <1>1, <2>1, <2>2 DEF Types
  <2>4. d \in visited /\ \A j \in DOMAIN listed : d # listed[j]
    BY <1>1, <2>1 DEF Walk
  <2>5. \A j \in DOMAIN listed' : listed'[j] = IF j \in DOMAIN listed THEN listed[j] ELSE d
    BY <1>1, <2>1 DEF Types
  <2>6. \A i, j \in DOMAIN listed' : i \notin DOMAIN listed /\ j \notin DOMAIN listed => i = j
    BY <1>1, <2>1 DEF Types
  <2>7. Distinct(listed')
    BY <2>4, <2>5, <2>6 DEF Distinct, Walk
  <2>8. \A i \in DOMAIN stack' : stack'[i] # d
    BY <1>1, <2>1 DEF Walk, Distinct
  <2>9. Walk'
    BY <1>1, <2>1, <2>4, <2>5, <2>7, <2>8 DEF Walk, Distinct
  <2> QED BY <2>1, <2>3, <2>9, ReadKept DEF Kept
<1> QED BY <1>2, <1>3

\* An entry is passed over, queued or yielded.
LEMMA VisitStep ==
  ASSUME Inv, visit_entry, UNCHANGED <<profile, asked>>
  PROVE  Inv'
<1> USE DEF Inv
<1> DEFINE entry == Head(current)
<1>1. /\ entry.path \in Paths \cup {Loop} /\ IsEntries(current') /\ stage = "walking"
      /\ UNCHANGED <<tree, listed, opened>>
  BY Entries DEF visit_entry, Types
<1>2. CASE Treatment(entry) = "raise"
  <2>1. stage' = "answered" /\ answer' = Raised /\ UNCHANGED <<stack, visited, limited>>
    BY <1>2 DEF visit_entry
  <2> QED BY <1>1, <2>1, ReadKept DEF Types, Walk, Kept
<1>3. CASE Treatment(entry) = "skip"
  <2>1. UNCHANGED <<stage, answer, stack, visited, limited>>
    BY <1>3 DEF visit_entry
  <2> QED BY <1>1, <2>1, ReadKept DEF Types, Walk, Kept
<1>4. CASE Treatment(entry) = "descend"
  <2>1. /\ visited' = visited \cup {entry.path} /\ stack' = Append(stack, entry.path)
        /\ UNCHANGED <<stage, answer, limited>>
    BY <1>4 DEF visit_entry
  <2>2. entry.path \in Inside \ visited
    BY <1>1, <1>4, Treated
  <2>3. Types'
    BY <1>1, <2>1, <2>2 DEF Types
  <2>4. \A j \in DOMAIN stack' : stack'[j] = IF j \in DOMAIN stack THEN stack[j] ELSE entry.path
    BY <2>1, <2>2 DEF Types
  <2>5. \A i, j \in DOMAIN stack' : i \notin DOMAIN stack /\ j \notin DOMAIN stack => i = j
    BY <2>1, <2>2 DEF Types
  <2>6. Walk'
    <3> HIDE DEF entry
    <3> QED BY <1>1, <2>1, <2>2, <2>4, <2>5 DEF Walk, Distinct
  <2> QED BY <1>1, <2>1, <2>3, <2>6, ReadKept DEF Kept
<1>5. CASE Treatment(entry) = "yield"
  <2>1. limited' = Append(limited, entry.path) /\ UNCHANGED <<stage, answer, stack, visited>>
    BY <1>5 DEF visit_entry
  <2>2. entry.path \in Leaves
    BY <1>1, <1>5, Treated
  <2> QED BY <1>1, <2>1, <2>2, ReadKept DEF Types, Walk, Kept
<1> QED BY <1>1, <1>2, <1>3, <1>4, <1>5, Treated

\* What the walk yielded is cut and sorted, and is of what it was.
LEMMA WalkEndsStep ==
  ASSUME Inv, walk_ends, UNCHANGED <<profile, asked>>
  PROVE  Inv'
<1> USE DEF Inv
<1> DEFINE bound == Min({Len(limited), MAX_FILES_WALKED})
           kept == SubSeq(limited, 1, bound)
<1>1. bound \in Nat /\ bound <= Len(limited)
  BY WorkspaceAssumption DEF Types, Min
<1>2. kept \in Seq(Leaves)
  <2> HIDE DEF bound
  <2> QED BY <1>1 DEF Types
<1>3. limited' \in sorted(kept)
  BY DEF walk_ends
<1>4. limited' \in Seq(Leaves)
  <2> HIDE DEF kept
  <2>1. PICK order \in [DOMAIN kept -> DOMAIN kept] :
          limited' = [i \in DOMAIN kept |-> kept[order[i]]]
    BY <1>3 DEF sorted, Bijection, Injection
  <2>2. DOMAIN kept = 1 .. Len(kept) /\ Len(kept) \in Nat /\ \A i \in DOMAIN kept : kept[i] \in Leaves
    BY <1>2
  <2> QED BY <2>1, <2>2
<1> QED BY <1>4, ReadKept DEF walk_ends, Types, Walk, Kept

\* A file is read, passed over or waited for.
LEMMA ScanStep ==
  ASSUME Inv, scan_file_for_matches, UNCHANGED <<profile, asked>>
  PROVE  Inv'
<1> USE DEF Inv
<1>1. /\ Head(limited) \in Leaves /\ limited' \in Seq(Leaves) /\ stage = "scanning"
      /\ UNCHANGED <<tree, stack, current, visited, listed, answer>>
  BY DEF scan_file_for_matches, Types
<1>2. /\ opened' \subseteq opened \cup {Head(limited)}
      /\ stage' \in {"scanning", "blocked"}
  BY <1>1 DEF scan_file_for_matches, Leaves
<1> QED BY <1>1, <1>2, ReadKept DEF Types, Walk, Kept, Leaves

\* The search ends.
LEMMA SearchEndsStep ==
  ASSUME Inv, search_ends, UNCHANGED <<profile, asked>>
  PROVE  Inv'
  BY ReadKept DEF Inv, search_ends, search, Types, Walk, Kept, Executed

-----------------------------------------------------------------------------
(* The invariant, and the theorem.                                         *)

\* It holds at the start.
LEMMA InvInit == Init => Inv
<1> SUFFICES ASSUME Init PROVE Inv
  OBVIOUS
<1>1. tree \in Trees /\ stage = "idle" /\ stack = <<>> /\ current = <<>> /\ limited = <<>>
      /\ listed = <<>> /\ opened = {} /\ profile \in {portable_profile, planning_profile}
  BY DEF Init, WorkspaceInit
<1>2. IsEntries(current)
  BY <1>1 DEF IsEntries, ToSet
<1> QED BY <1>1, <1>2 DEF Inv, Types, Walk, Distinct, Read, Kept

\* Every step keeps it.
LEMMA InvNext == Inv /\ [Next]_vars => Inv'
<1> SUFFICES ASSUME Inv, [Next]_vars PROVE Inv'
  OBVIOUS
<1>1. CASE \E intent \in Intents : dispatch(intent)
  BY <1>1, DispatchStep
<1>2. CASE search_steps /\ UNCHANGED <<profile, running_as_root, asked, verdicts>>
  BY <1>2, NextDirectoryStep, VisitStep, WalkEndsStep, ScanStep, SearchEndsStep DEF search_steps
<1>3. CASE reconcile_reports \/ UNCHANGED vars
  <2>1. UNCHANGED <<workspace, profile, asked>>
    BY <1>3 DEF reconcile_reports, vars
  <2>2. UNCHANGED <<tree, stage, stack, current, visited, limited, listed, opened, answer,
          profile, asked>>
    BY <2>1 DEF workspace, search
  <2>3. Read'
    BY <2>2, FrameOfRules DEF Inv, Read, Excepted
  <2> QED BY <2>2, <2>3 DEF Inv, Types, Walk, Distinct, Kept
<1> QED BY <1>1, <1>2, <1>3 DEF Next

\* Nothing outside the root is listed, nothing outside it is read but the file a .gitignore of
\* the root links to, and that by a search only; every directory is listed at most once, and a
\* session composed for planning runs no code.
THEOREM StaysInRoot == Spec => []Confined
<1>1. Inv => Confined
  <2> SUFFICES ASSUME Inv PROVE Confined
    OBVIOUS
  <2>1. ToSet(listed) \cap Outside = {}
    BY DEF Inv, Types, ToSet, Inside
  <2> QED BY <2>1 DEF Inv, Walk, Distinct, Read, Excepted, Kept, Confined, Observations
<1> QED BY <1>1, InvInit, InvNext, PTL DEF Spec

-----------------------------------------------------------------------------
(* What sequences hold.                                                    *)

\* One more element, or another sequence after it.
LEMMA ToSetAppend ==
  ASSUME NEW T, NEW s \in Seq(T), NEW x \in T
  PROVE  ToSet(Append(s, x)) = ToSet(s) \cup {x}
<1>1. /\ Len(s) \in Nat /\ DOMAIN s = 1 .. Len(s) /\ DOMAIN Append(s, x) = 1 .. (Len(s) + 1)
      /\ \A i \in 1 .. Len(s) : Append(s, x)[i] = s[i]
      /\ Append(s, x)[Len(s) + 1] = x
  OBVIOUS
<1>2. \A i \in DOMAIN Append(s, x) : Append(s, x)[i] \in ToSet(s) \cup {x}
  BY <1>1 DEF ToSet
<1>3. \A i \in DOMAIN s : s[i] \in ToSet(Append(s, x))
  BY <1>1 DEF ToSet
<1>4. x \in ToSet(Append(s, x))
  BY <1>1 DEF ToSet
<1> QED BY <1>2, <1>3, <1>4 DEF ToSet

(* The members of a concatenation are the members of its two parts. *)
LEMMA ToSetConcat ==
  ASSUME NEW T, NEW s \in Seq(T), NEW t \in Seq(T)
  PROVE  ToSet(s \o t) = ToSet(s) \cup ToSet(t)
<1>1. /\ Len(s) \in Nat /\ DOMAIN s = 1 .. Len(s) /\ Len(t) \in Nat /\ DOMAIN t = 1 .. Len(t)
      /\ DOMAIN (s \o t) = 1 .. (Len(s) + Len(t))
      /\ \A i \in 1 .. (Len(s) + Len(t)) :
           (s \o t)[i] = IF i <= Len(s) THEN s[i] ELSE t[i - Len(s)]
  OBVIOUS
<1>2. \A i \in DOMAIN (s \o t) : (s \o t)[i] \in ToSet(s) \cup ToSet(t)
  <2> TAKE i \in DOMAIN (s \o t)
  <2>1. CASE i <= Len(s)
    BY <1>1, <2>1 DEF ToSet
  <2>2. CASE ~ (i <= Len(s))
    <3>1. i - Len(s) \in DOMAIN t
      BY <1>1, <2>2
    <3> QED BY <1>1, <2>2, <3>1 DEF ToSet
  <2> QED BY <2>1, <2>2
<1>3. \A i \in DOMAIN s : s[i] \in ToSet(s \o t)
  BY <1>1 DEF ToSet
<1>4. \A i \in DOMAIN t : t[i] \in ToSet(s \o t)
  <2> TAKE i \in DOMAIN t
  <2>1. /\ Len(s) + i \in DOMAIN (s \o t) /\ ~ (Len(s) + i <= Len(s))
        /\ (Len(s) + i) - Len(s) = i
    BY <1>1
  <2> QED BY <1>1, <2>1 DEF ToSet
<1> QED BY <1>2, <1>3, <1>4 DEF ToSet

\* The first element and the others; the last one and the others.
LEMMA ToSetTail ==
  ASSUME NEW T, NEW s \in Seq(T), s # <<>>
  PROVE  ToSet(s) = {Head(s)} \cup ToSet(Tail(s))
<1>1. /\ Len(s) \in Nat \ {0} /\ DOMAIN s = 1 .. Len(s) /\ DOMAIN Tail(s) = 1 .. (Len(s) - 1)
      /\ Head(s) = s[1] /\ \A i \in 1 .. (Len(s) - 1) : Tail(s)[i] = s[i + 1]
  OBVIOUS
<1>2. \A i \in DOMAIN s : s[i] \in {Head(s)} \cup ToSet(Tail(s))
  <2> TAKE i \in DOMAIN s
  <2>1. CASE i = 1
    BY <1>1, <2>1
  <2>2. CASE i # 1
    <3>1. i - 1 \in DOMAIN Tail(s) /\ (i - 1) + 1 = i
      BY <1>1, <2>2
    <3> QED BY <1>1, <3>1 DEF ToSet
  <2> QED BY <2>1, <2>2
<1>3. Head(s) \in ToSet(s) /\ \A i \in DOMAIN Tail(s) : Tail(s)[i] \in ToSet(s)
  BY <1>1 DEF ToSet
<1> QED BY <1>2, <1>3 DEF ToSet

(* The members of a sequence are those of its front and its last one. *)
LEMMA ToSetFront ==
  ASSUME NEW T, NEW s \in Seq(T), s # <<>>
  PROVE  ToSet(s) = ToSet(Front(s)) \cup {Last(s)}
<1> DEFINE n == Len(s) - 1
<1>1. Len(s) = n + 1 /\ n \in Nat /\ DOMAIN s = 1 .. (n + 1) /\ n <= Len(s)
  OBVIOUS
<1>2. Front(s) = SubSeq(s, 1, n) /\ Last(s) = s[n + 1]
  BY <1>1 DEF Front, Last
<1> HIDE DEF n
<1>3. DOMAIN SubSeq(s, 1, n) = 1 .. n /\ \A i \in 1 .. n : SubSeq(s, 1, n)[i] = s[i]
  BY <1>1
<1>4. \A i \in DOMAIN s : i \in 1 .. n \/ i = n + 1
  BY <1>1
<1> QED BY <1>1, <1>2, <1>3, <1>4 DEF ToSet

\* The elements of a prefix are elements.
LEMMA ToSetPrefix ==
  ASSUME NEW T, NEW s \in Seq(T), NEW n \in Nat, n <= Len(s)
  PROVE  /\ ToSet(SubSeq(s, 1, n)) \subseteq ToSet(s)
         /\ SubSeq(s, 1, n) \in Seq(T) /\ Len(SubSeq(s, 1, n)) = n
         /\ n = Len(s) => SubSeq(s, 1, n) = s
<1>1. /\ DOMAIN s = 1 .. Len(s) /\ DOMAIN SubSeq(s, 1, n) = 1 .. n
      /\ \A i \in 1 .. n : SubSeq(s, 1, n)[i] = s[i]
  OBVIOUS
<1>2. SubSeq(s, 1, n) \in Seq(T) /\ Len(SubSeq(s, 1, n)) = n
  OBVIOUS
<1>3. n = Len(s) => SubSeq(s, 1, n) = s
  OBVIOUS
<1>4. ToSet(SubSeq(s, 1, n)) \subseteq ToSet(s)
  <2> DEFINE t == SubSeq(s, 1, n)
  <2>1. DOMAIN t \subseteq DOMAIN s /\ \A i \in DOMAIN t : t[i] = s[i]
    BY <1>1
  <2> HIDE DEF t
  <2>2. ToSet(t) \subseteq ToSet(s)
    BY <2>1 DEF ToSet
  <2> QED BY <2>2 DEF t
<1> QED BY <1>2, <1>3, <1>4

\* The smaller of two numbers.
LEMMA MinOfTwo ==
  ASSUME NEW a \in Nat, NEW b \in Nat
  PROVE  Min({a, b}) = IF a <= b THEN a ELSE b
  BY DEF Min

\* What is bounded is a prefix, is whole if nothing says that it was cut, and is as long as its
\* bound otherwise.
LEMMA BoundedIsHonest ==
  ASSUME NEW T, NEW s \in Seq(T), NEW n \in Nat
  PROVE  LET kept == SubSeq(s, 1, Min({n, Len(s)})) IN
         /\ IsPrefix(kept, s) /\ Len(kept) <= n
         /\ ~ (Len(s) > n) => kept = s
         /\ Len(s) > n => Len(kept) = n
<1> DEFINE m == Min({n, Len(s)})
<1>1. /\ m \in Nat /\ m <= Len(s) /\ m <= n
      /\ ~ (Len(s) > n) => m = Len(s)
      /\ Len(s) > n => m = n
  BY DEF Min
<1> HIDE DEF m
<1>2. /\ Len(SubSeq(s, 1, m)) = m /\ SubSeq(s, 1, m) \in Seq(T)
      /\ m = Len(s) => SubSeq(s, 1, m) = s
  BY <1>1, ToSetPrefix
<1>3. IsPrefix(SubSeq(s, 1, m), s)
  <2>1. SubSeq(SubSeq(s, 1, m), 1, m) = SubSeq(s, 1, m)
    BY <1>1, <1>2, ToSetPrefix
  <2> QED BY <1>1, <1>2, <2>1 DEF IsPrefix
<1> QED BY <1>1, <1>2, <1>3 DEF m

-----------------------------------------------------------------------------
(* What a search should find.                                              *)

\* The matches of a file, as they are shown, and those of all the files a search is about.
Match == Files \X Nat \X Nat
ShownOf(file) == {Shown(file, i) : i \in DOMAIN Lines[file]}
AllShown(start) == UNION {ShownOf(file) : file \in Eligible(start)}

\* A line of a file is shown as one of its matches, and no match is of another line.
LEMMA LineShown ==
  ASSUME NEW file \in Files, NEW i \in DOMAIN Lines[file]
  PROVE  /\ Shown(file, i) \in Match
         /\ Shows(Shown(file, i), <<file, i, Lines[file][i]>>)
<1>1. i \in Nat /\ Lines[file][i] \in Nat /\ MAX_MATCH_LINE_CHARS \in Nat
  BY KindsAssumption, WorkspaceAssumption
<1> DEFINE m == Min({Lines[file][i], MAX_MATCH_LINE_CHARS})
<1>2. m = IF Lines[file][i] <= MAX_MATCH_LINE_CHARS THEN Lines[file][i] ELSE MAX_MATCH_LINE_CHARS
  BY <1>1, MinOfTwo
<1>3. Shown(file, i) = <<file, i, m>>
  BY DEF Shown
<1> HIDE DEF m
<1> QED BY <1>1, <1>2, <1>3 DEF Match, Shows

\* So what shows nothing but lines a search is about is honest of them, and so is what shows
\* all of them.
LEMMA ShownIsHonest ==
  ASSUME NEW found, NEW truncated, NEW start, found \subseteq AllShown(start),
         ~ truncated => found = AllShown(start)
  PROVE  SearchIsHonest(found, truncated, AllMatches(start))
<1>1. ASSUME NEW file \in Eligible(start) PROVE file \in Files
  BY <1>1 DEF Eligible
<1>2. ASSUME NEW match \in found
      PROVE  \E line \in AllMatches(start) : Shows(match, line)
  <2>1. PICK file \in Eligible(start) : match \in ShownOf(file)
    BY <1>2 DEF AllShown
  <2>2. PICK i \in DOMAIN Lines[file] : match = Shown(file, i)
    BY <2>1 DEF ShownOf
  <2>3. <<file, i, Lines[file][i]>> \in AllMatches(start)
    BY <2>1 DEF AllMatches
  <2> QED BY <1>1, <2>2, <2>3, LineShown
<1>3. ASSUME ~ truncated, NEW line \in AllMatches(start)
      PROVE  \E match \in found : Shows(match, line)
  <2>1. PICK file \in Eligible(start) :
          line \in {<<file, i, Lines[file][i]>> : i \in DOMAIN Lines[file]}
    BY <1>3 DEF AllMatches
  <2>2. PICK i \in DOMAIN Lines[file] : line = <<file, i, Lines[file][i]>>
    BY <2>1
  <2>3. Shown(file, i) \in found
    BY <1>3, <2>1 DEF AllShown, ShownOf
  <2> QED BY <1>1, <2>2, <2>3, LineShown
<1> QED BY <1>2, <1>3 DEF SearchIsHonest

\* Reached is the least set: it has the start and is closed, and any other such set has it.
LEMMA ReachedStart ==
  ASSUME NEW start \in Dirs
  PROVE  start \in Reached(start)
  BY DEF Reached

(* What is reached is closed under one more visit_entry step of the walk. *)
LEMMA ReachedStep ==
  ASSUME NEW start, NEW d \in Reached(start) \ tree.unreadable, NEW x \in DescendsTo(d)
  PROVE  x \in Reached(start)
<1>1. x \in Dirs
  BY DEF DescendsTo
<1>2. ASSUME NEW S \in SUBSET Dirs, start \in S,
             \A r \in S \ tree.unreadable : DescendsTo(r) \subseteq S
      PROVE  x \in S
  <2>1. d \in S
    BY <1>2 DEF Reached
  <2> QED BY <1>2, <2>1
<1> QED BY <1>1, <1>2 DEF Reached

(* What is reached lies in every set that holds the root and is closed
   under the step: nothing is walked that no chain of steps leads to. *)
LEMMA ReachedLeast ==
  ASSUME NEW start, NEW S \in SUBSET Dirs, start \in S,
         \A r \in S \ tree.unreadable : DescendsTo(r) \subseteq S
  PROVE  Reached(start) \subseteq S
  BY DEF Reached

\* The entries of what is reached, and the paths the walk should yield: what is not a regular
\* file too.
Below(start) == UNION {ToSet(tree.entries[d]) : d \in Reached(start) \ tree.unreadable}
Yields(start) ==
  {entry.path : entry \in {e \in Below(start) : e.path \in Leaves /\ ~ is_ignored(load, e, FALSE)}}

\* Of those, the ones a search is about are the regular files that can be read.
LEMMA EligibleBelow ==
  ASSUME NEW start, start \notin Files
  PROVE  Eligible(start) = Yields(start) \cap (Files \ tree.unreadable)
<1>1. Eligible(start) =
        {e.path : e \in {e \in Below(start) :
           e.path \in Files \ (Outside \cup tree.unreadable) /\ ~ is_ignored(load, e, FALSE)}}
  BY DEF Eligible, Below
<1>2. \A e : e.path \in Files \ (Outside \cup tree.unreadable)
               <=> e.path \in Leaves /\ e.path \in Files \ tree.unreadable
  BY DEF Leaves
<1> QED BY <1>1, <1>2 DEF Yields

\* It depends on the tree only, which does not change.
LEMMA FrameOfTree ==
  ASSUME UNCHANGED tree, NEW start
  PROVE  /\ Reached(start)' = Reached(start) /\ Below(start)' = Below(start)
         /\ Yields(start)' = Yields(start) /\ Eligible(start)' = Eligible(start)
         /\ AllMatches(start)' = AllMatches(start) /\ AllShown(start)' = AllShown(start)
<1>1. ASSUME NEW d PROVE DescendsTo(d)' = DescendsTo(d)
  BY FrameOfRules DEF DescendsTo
<1>2. Reached(start)' = Reached(start)
  BY <1>1 DEF Reached
<1>3. Below(start)' = Below(start)
  BY <1>2 DEF Below
<1>4. Yields(start)' = Yields(start)
  BY <1>3, FrameOfRules DEF Yields
<1>5. Eligible(start)' = Eligible(start)
  BY <1>2, FrameOfRules DEF Eligible
<1>6. AllMatches(start)' = AllMatches(start) /\ AllShown(start)' = AllShown(start)
  BY <1>5 DEF AllMatches, AllShown
<1> QED BY <1>2, <1>3, <1>4, <1>5, <1>6

-----------------------------------------------------------------------------
(* The walk and the scan.                                                  *)

Start == OrRoot(asked.path)

\* What the walk should do of an entry is done.
Handled(entry) ==
  /\ entry.path \in Inside /\ entry.name \notin Excluded /\ ~ is_ignored(load, entry, TRUE)
       => entry.path \in visited
  /\ entry.path \in Leaves /\ ~ is_ignored(load, entry, FALSE)
       => entry.path \in ToSet(limited)

\* What a session dispatched, and how far its reports were reconciled.
Session ==
  /\ stage # "idle" => asked \in Intents
  /\ stage = "idle" => verdicts = {}
  /\ stage \in {"walking", "scanning"} => Routed(asked) = "search_repository"

\* Whatever the walk queued, yielded or still has to look at is in the tree below the start; and
\* of every directory it visited, each entry is handled, or to be looked at, or the directory
\* is still to be listed.
Walking ==
  stage = "walking" =>
    /\ Start \in Dirs \ Files /\ Start \in visited
    /\ visited \subseteq Reached(Start) \cap Inside
    /\ ToSet(current) \subseteq Below(Start) /\ ToSet(limited) \subseteq Yields(Start)
    /\ cut = FALSE /\ matches = <<>>
    /\ \A d \in visited \ tree.unreadable :
         d \in ToSet(stack) \/ \A e \in ToSet(tree.entries[d]) : e \in ToSet(current) \/ Handled(e)

\* What is found is there; and of every file a search is about, unless something was cut, all
\* is found or the file is still to be scanned.
Scanning ==
  stage = "scanning" =>
    /\ ToSet(limited) \cap (Files \ tree.unreadable) \subseteq Eligible(Start)
    /\ matches \in Seq(Match) /\ ToSet(matches) \subseteq AllShown(Start)
    /\ Len(matches) <= MAX_SEARCH_MATCHES /\ cut \in BOOLEAN
    /\ ~ cut /\ Len(matches) < MAX_SEARCH_MATCHES =>
         \A file \in Eligible(Start) :
           file \in ToSet(limited) \/ ShownOf(file) \subseteq ToSet(matches)

Evidence == Session /\ Walking /\ Scanning /\ EffectIsHonest /\ VerdictIsBelnap

\* What it leaves of an entry that it does not queue or yield is what it should.
LEMMA TreatedAsMeant ==
  ASSUME NEW entry, entry.path \in Paths \cup {Loop}
  PROVE  /\ Treatment(entry) = "skip" => Handled(entry)
         /\ Treatment(entry) = "descend" =>
              /\ entry.path \in Inside
              /\ entry.name \notin Excluded /\ ~ is_ignored(load, entry, TRUE)
         /\ Treatment(entry) = "yield" =>
              entry.path \in Leaves /\ ~ is_ignored(load, entry, FALSE)
<1>1. Loop \notin Outside \cup Dirs \cup Files \cup Fifos \cup Broken
  BY KindsAssumption, WorkspaceAssumption DEF Paths
<1>2. CASE entry.path = Loop
  BY <1>1, <1>2 DEF Treatment
<1>3. CASE entry.path \in Outside
  BY <1>1, <1>3 DEF Treatment, Handled, Inside, Leaves
<1>4. CASE entry.path \in Inside
  <2>1. entry.path \notin Leaves /\ entry.path # Loop /\ entry.path \notin Outside
    BY <1>1, <1>4, KindsAssumption DEF Inside, Leaves
  <2> QED BY <1>4, <2>1 DEF Treatment, Handled, Inside
<1>5. CASE entry.path \in Leaves
  <2>1. entry.path \notin Dirs /\ entry.path # Loop /\ entry.path \notin Outside
    BY <1>1, <1>5, KindsAssumption DEF Leaves
  <2> QED BY <1>5, <2>1 DEF Treatment, Handled, Inside
<1> QED BY <1>2, <1>3, <1>4, <1>5 DEF Inside, Leaves, Paths

\* A step of a search changes neither what was asked nor what was reconciled.
LEMMA SearchFrame ==
  ASSUME Inv, Evidence, search_steps,
         UNCHANGED <<profile, running_as_root, asked, verdicts>>
  PROVE  /\ Session' /\ VerdictIsBelnap' /\ Start' = Start /\ UNCHANGED tree
         /\ Routed(asked)' = Routed(asked) /\ Routed(asked) = "search_repository"
<1>1. stage \in {"walking", "scanning"} /\ stage' # "idle" /\ UNCHANGED tree
  <2>1. CASE next_directory \/ walk_ends \/ search_ends
    BY <2>1 DEF next_directory, walk_ends, search_ends, search
  <2>2. CASE visit_entry
    <3>1. Head(current).path \in Paths \cup {Loop} /\ stage = "walking" /\ UNCHANGED tree
      BY <2>2, Entries DEF visit_entry, Inv, Types
    <3> QED BY <2>2, <3>1, Treated DEF visit_entry
  <2>3. CASE scan_file_for_matches
    <3>1. Head(limited) \in Leaves /\ stage = "scanning" /\ UNCHANGED tree
      BY <2>3 DEF scan_file_for_matches, Inv, Types
    <3> QED BY <2>3, <3>1 DEF scan_file_for_matches, Leaves
  <2> QED BY <2>1, <2>2, <2>3 DEF search_steps
<1>2. Routed(asked)' = Routed(asked)
  BY DEF Routed
<1>3. Start' = Start
  BY DEF Start
<1>4. Session' /\ Routed(asked) = "search_repository"
  BY <1>1, <1>2 DEF Evidence, Session
<1>5. VerdictIsBelnap'
  BY DEF Evidence, VerdictIsBelnap, Claims, Holds
<1> QED BY <1>1, <1>2, <1>3, <1>4, <1>5

\* An Effect is told of only when one was made.
LEMMA NoEffectYet ==
  (stage # "answered" \/ answer.how # "executed" => EffectIsHonest)
  /\ (stage' # "answered" \/ answer'.how # "executed" => EffectIsHonest')
  BY DEF EffectIsHonest

\* A directory is listed: its entries are below the start, and all still to be looked at.
LEMMA NextDirectoryEvidence ==
  ASSUME Inv, Evidence, next_directory,
         UNCHANGED <<profile, running_as_root, asked, verdicts>>
  PROVE  Evidence'
<1> USE DEF Evidence
<1> DEFINE d == Last(stack)
<1>1. /\ Session' /\ VerdictIsBelnap' /\ Start' = Start /\ UNCHANGED tree
      /\ Reached(Start)' = Reached(Start) /\ Below(Start)' = Below(Start)
      /\ Yields(Start)' = Yields(Start)
  BY SearchFrame, FrameOfTree DEF search_steps
<1>2. /\ stage = "walking" /\ stage' = "walking" /\ current = <<>> /\ stack # <<>>
      /\ stack' = Front(stack) /\ UNCHANGED <<visited, limited, matches, cut>>
      /\ IF d \in tree.unreadable THEN UNCHANGED current ELSE current' = tree.entries[d]
  BY DEF next_directory
<1>3. ToSet(stack) = ToSet(stack') \cup {d} /\ d \in visited
  <2>1. stack \in Seq(Inside)
    BY DEF Inv, Types
  <2>2. ToSet(stack) = ToSet(Front(stack)) \cup {Last(stack)}
    BY <1>2, <2>1, ToSetFront
  <2>3. \A x \in ToSet(stack) : x \in visited
    BY <1>2 DEF Inv, Walk, ToSet
  <2> QED BY <1>2, <2>2, <2>3
<1> HIDE DEF d
<1>4. Start' \in Dirs \ Files /\ Start' \in visited'
      /\ visited' \subseteq (Reached(Start) \cap Inside)'
      /\ ToSet(limited') \subseteq Yields(Start)' /\ cut' = FALSE /\ matches' = <<>>
  BY <1>1, <1>2 DEF Walking, Inside
<1>5. ToSet(current) = {}
  BY <1>2 DEF ToSet
<1>6. ToSet(current') \subseteq Below(Start)'
  <2>1. CASE d \in tree.unreadable
    BY <1>2, <1>5, <2>1
  <2>2. CASE d \notin tree.unreadable
    <3>1. current' = tree.entries[d] /\ d \in Reached(Start) \ tree.unreadable
      BY <1>2, <1>3, <2>2 DEF Walking
    <3>2. ToSet(tree.entries[d]) \subseteq Below(Start)
      BY <3>1 DEF Below
    <3> QED BY <1>1, <3>1, <3>2
  <2> QED BY <2>1, <2>2
<1>7. \A e : Handled(e)' <=> Handled(e)
  BY <1>1, <1>2, FrameOfRules DEF Handled
<1>8. ASSUME NEW v \in visited' \ tree'.unreadable
      PROVE  v \in ToSet(stack') \/ \A e \in ToSet(tree'.entries[v]) : e \in ToSet(current') \/ Handled(e)'
  <2>1. v \in visited \ tree.unreadable /\ tree' = tree
    BY <1>1, <1>2
  <2>2. v \in ToSet(stack) \/ \A e \in ToSet(tree.entries[v]) : e \in ToSet(current) \/ Handled(e)
    BY <1>2, <2>1 DEF Walking
  <2>3. CASE v = d
    BY <1>2, <2>1, <2>3
  <2>4. CASE v # d /\ v \in ToSet(stack)
    BY <1>3, <2>4
  <2>5. CASE v \notin ToSet(stack)
    BY <1>5, <1>7, <2>1, <2>2, <2>5
  <2> QED BY <2>3, <2>4, <2>5
<1>9. Walking'
  BY <1>4, <1>6, <1>8 DEF Walking
<1> QED BY <1>1, <1>2, <1>9, NoEffectYet DEF Scanning

\* An entry is looked at: it is one below the start, and what should be done of it is done.
LEMMA VisitEvidence ==
  ASSUME Inv, Evidence, visit_entry,
         UNCHANGED <<profile, running_as_root, asked, verdicts>>
  PROVE  Evidence'
<1> USE DEF Evidence
<1>0. PICK entry : entry = Head(current)
  OBVIOUS
<1>1. /\ Session' /\ VerdictIsBelnap' /\ Start' = Start /\ UNCHANGED tree
      /\ Reached(Start)' = Reached(Start) /\ Below(Start)' = Below(Start)
      /\ Yields(Start)' = Yields(Start)
  BY SearchFrame, FrameOfTree DEF search_steps
<1>2. /\ stage = "walking" /\ current' = Tail(current) /\ UNCHANGED <<matches, cut>>
      /\ entry.path \in Paths \cup {Loop}
  BY <1>0, Entries DEF visit_entry, Inv, Types
<1>3. ToSet(current) = {entry} \cup ToSet(current')
  <2>1. current \in Seq(ToSet(current)) /\ current # <<>>
    BY DEF visit_entry, Inv, Types, IsEntries
  <2> QED BY <1>0, <1>2, <2>1, ToSetTail
<1>4. PICK d \in Reached(Start) \ tree.unreadable : entry \in ToSet(tree.entries[d])
  BY <1>2, <1>3 DEF Walking, Below
<1>5. ASSUME stage' = "walking", visited \subseteq visited', ToSet(limited) \subseteq ToSet(limited'),
             ToSet(stack) \cup (visited' \ visited) \subseteq ToSet(stack'),
             visited' \subseteq Reached(Start) \cap Inside, ToSet(limited') \subseteq Yields(Start),
             Handled(entry)'
      PROVE  Evidence'
  <2>1. \A e : Handled(e) => Handled(e)'
    BY <1>1, <1>5, FrameOfRules DEF Handled
  <2>2. ASSUME NEW v \in visited' \ tree'.unreadable
        PROVE  v \in ToSet(stack') \/ \A e \in ToSet(tree'.entries[v]) : e \in ToSet(current') \/ Handled(e)'
    <3>1. CASE v \in visited' \ visited
      BY <1>5, <3>1
    <3>2. CASE v \in visited
      <4>1. v \in ToSet(stack) \/ \A e \in ToSet(tree.entries[v]) : e \in ToSet(current) \/ Handled(e)
        BY <1>1, <1>2, <2>2, <3>2 DEF Walking
      <4> QED BY <1>1, <1>3, <1>5, <2>1, <4>1
    <3> QED BY <2>2, <3>1, <3>2
  <2>3. /\ Start' \in Dirs \ Files /\ Start' \in visited' /\ cut' = FALSE /\ matches' = <<>>
        /\ ToSet(current') \subseteq Below(Start)'
    BY <1>1, <1>2, <1>3, <1>5 DEF Walking
  <2>4. Walking'
    BY <1>1, <1>5, <2>2, <2>3 DEF Walking, Inside
  <2> QED BY <1>1, <1>5, <2>4, NoEffectYet DEF Scanning
<1>6. CASE Treatment(entry) = "raise"
  <2>1. stage' = "answered" /\ answer' = Raised
    BY <1>0, <1>6 DEF visit_entry
  <2> QED BY <1>1, <2>1, NoEffectYet DEF Walking, Scanning, Raised, Ends
<1>7. CASE Treatment(entry) = "skip"
  <2>1. UNCHANGED <<stage, stack, visited, limited>>
    BY <1>0, <1>7 DEF visit_entry
  <2>2. Handled(entry)
    BY <1>2, <1>7, TreatedAsMeant
  <2>3. Handled(entry)'
    BY <1>1, <2>1, <2>2, FrameOfRules DEF Handled
  <2> QED BY <1>2, <1>5, <2>1, <2>3 DEF Walking
<1>8. CASE Treatment(entry) = "descend"
  <2>1. /\ visited' = visited \cup {entry.path} /\ stack' = Append(stack, entry.path)
        /\ UNCHANGED <<stage, limited>>
    BY <1>0, <1>8 DEF visit_entry
  <2>2. /\ entry.path \in Inside /\ entry.name \notin Excluded /\ ~ is_ignored(load, entry, TRUE)
    BY <1>2, <1>8, TreatedAsMeant
  <2>3. entry.path \in DescendsTo(d)
    BY <1>4, <2>2 DEF DescendsTo, Inside
  <2>4. entry.path \in Reached(Start)
    BY <1>4, <2>3, ReachedStep
  <2>5. ToSet(stack') = ToSet(stack) \cup {entry.path}
    BY <2>1, <2>2, ToSetAppend DEF Inv, Types
  <2>6. Handled(entry)'
    <3>1. entry.path \notin Leaves /\ entry.path \in visited'
      BY <2>1, <2>2, KindsAssumption DEF Inside, Leaves
    <3> QED BY <3>1 DEF Handled, Leaves
  <2> QED BY <1>2, <1>5, <2>1, <2>2, <2>4, <2>5, <2>6 DEF Walking
<1>9. CASE Treatment(entry) = "yield"
  <2>1. limited' = Append(limited, entry.path) /\ UNCHANGED <<stage, stack, visited>>
    BY <1>0, <1>9 DEF visit_entry
  <2>2. entry.path \in Leaves /\ ~ is_ignored(load, entry, FALSE)
    BY <1>2, <1>9, TreatedAsMeant
  <2>3. entry.path \in Yields(Start)
    BY <1>4, <2>2 DEF Yields, Below
  <2>4. ToSet(limited') = ToSet(limited) \cup {entry.path}
    BY <2>1, <2>2, ToSetAppend DEF Inv, Types
  <2>5. Handled(entry)'
    <3>1. entry.path \notin Inside /\ entry.path \in ToSet(limited')
      BY <2>2, <2>4, KindsAssumption DEF Inside, Leaves
    <3> QED BY <3>1 DEF Handled, Inside
  <2> QED BY <1>2, <1>5, <2>1, <2>3, <2>4, <2>5 DEF Walking
<1> QED BY <1>2, <1>6, <1>7, <1>8, <1>9, Treated

\* The walk ends: unless it is cut, it visited all that can be reached and yielded all it should.
LEMMA WalkEndsEvidence ==
  ASSUME Inv, Evidence, walk_ends,
         UNCHANGED <<profile, running_as_root, asked, verdicts>>
  PROVE  Evidence'
<1> USE DEF Evidence
<1> DEFINE bound == Min({Len(limited), MAX_FILES_WALKED})
           kept == SubSeq(limited, 1, bound)
<1>1. /\ Session' /\ VerdictIsBelnap' /\ Start' = Start /\ UNCHANGED tree
      /\ Eligible(Start)' = Eligible(Start) /\ AllShown(Start)' = AllShown(Start)
  BY SearchFrame, FrameOfTree DEF search_steps
<1>2. /\ stage = "walking" /\ stage' = "scanning" /\ UNCHANGED matches
      /\ cut' = (Len(limited) > MAX_FILES_WALKED) /\ limited' \in sorted(kept)
      /\ ~ WalkGoesOn \/ (current = <<>> /\ stack = <<>>)
  BY DEF walk_ends
<1>3. /\ limited \in Seq(Leaves) /\ Len(limited) \in Nat /\ MAX_FILES_WALKED \in Nat
      /\ bound \in Nat /\ bound <= Len(limited)
      /\ Len(limited) <= MAX_FILES_WALKED => bound = Len(limited)
  BY WorkspaceAssumption DEF Inv, Types, Min
<1> HIDE DEF bound
<1>4. /\ ToSet(kept) \subseteq ToSet(limited) /\ kept \in Seq(Leaves)
      /\ Len(limited) <= MAX_FILES_WALKED => kept = limited
  BY <1>3, ToSetPrefix
<1> HIDE DEF kept
<1>5. ToSet(limited') = ToSet(kept)
  <2>1. PICK order \in Bijection(DOMAIN kept, DOMAIN kept) :
          limited' = [i \in DOMAIN kept |-> kept[order[i]]]
    BY <1>2 DEF sorted
  <2>2. /\ order \in [DOMAIN kept -> DOMAIN kept]
        /\ \A j \in DOMAIN kept : \E i \in DOMAIN kept : order[i] = j
    BY <2>1 DEF Bijection, Injection, Surjection
  <2> QED BY <2>1, <2>2 DEF ToSet
<1>6. Eligible(Start) = Yields(Start) \cap (Files \ tree.unreadable)
  BY <1>2, EligibleBelow DEF Walking
<1>7. ToSet(limited') \cap (Files \ tree'.unreadable) \subseteq Eligible(Start)'
  BY <1>1, <1>2, <1>4, <1>5, <1>6 DEF Walking
<1>8. ASSUME ~ cut'
      PROVE  Eligible(Start) \subseteq ToSet(limited')
  <2>1. Len(limited) <= MAX_FILES_WALKED /\ current = <<>> /\ stack = <<>>
    <3>1. ~ (Len(limited) > MAX_FILES_WALKED)
      BY <1>2, <1>8
    <3>2. Len(limited) <= MAX_FILES_WALKED /\ WalkGoesOn
      BY <1>3, <3>1 DEF WalkGoesOn
    <3> QED BY <1>2, <3>2
  <2>2. ToSet(current) = {} /\ ToSet(stack) = {} /\ ToSet(limited') = ToSet(limited)
    <3>1. ToSet(<<>>) = {}
      BY DEF ToSet
    <3> QED BY <1>4, <1>5, <2>1, <3>1
  <2>3. \A d \in visited \ tree.unreadable : \A e \in ToSet(tree.entries[d]) : Handled(e)
    BY <1>2, <2>2 DEF Walking
  <2>4. visited \in SUBSET Dirs /\ Start \in visited
    BY <1>2 DEF Walking, Inside
  <2>5. ASSUME NEW d \in visited \ tree.unreadable
        PROVE  DescendsTo(d) \subseteq visited
    BY <2>3 DEF DescendsTo, Handled, Inside
  <2>6. Reached(Start) \subseteq visited
    BY <2>4, <2>5, ReachedLeast
  <2>7. \A e \in Below(Start) : Handled(e)
    BY <2>3, <2>6 DEF Below
  <2>8. Yields(Start) \subseteq ToSet(limited)
    BY <2>7 DEF Yields, Handled
  <2> QED BY <1>6, <2>2, <2>8
<1>9. matches' = <<>> /\ cut' \in BOOLEAN
  BY <1>2 DEF Walking
<1>10. /\ matches' \in Seq(Match) /\ ToSet(matches') \subseteq AllShown(Start)'
       /\ Len(matches') <= MAX_SEARCH_MATCHES
  <2>1. ToSet(matches') = {} /\ Len(matches') = 0
    BY <1>9 DEF ToSet
  <2> QED BY <1>9, <2>1, WorkspaceAssumption
<1>11. Scanning'
  BY <1>1, <1>7, <1>8, <1>9, <1>10 DEF Scanning
<1> QED BY <1>1, <1>2, <1>11, NoEffectYet DEF Walking

\* What is kept of the matches of a file, and whether it is all of them.
LEMMA FoundIsHonest ==
  ASSUME NEW path \in Files, matches \in Seq(Match), Len(matches) < MAX_SEARCH_MATCHES
  PROVE  /\ Found(path) \in Seq(Match)
         /\ ToSet(Found(path)) \subseteq ShownOf(path)
         /\ Len(matches) + Len(Found(path)) <= MAX_SEARCH_MATCHES
         /\ Len(matches) + Len(Found(path)) < MAX_SEARCH_MATCHES =>
              ShownOf(path) \subseteq ToSet(Found(path))
<1> DEFINE lines == Len(Lines[path])
           all == [i \in DOMAIN Lines[path] |-> Shown(path, i)]
           room == MAX_SEARCH_MATCHES - Len(matches)
           n == Min({lines, room})
<1>1. lines \in Nat /\ Len(matches) \in Nat /\ room \in Nat /\ DOMAIN Lines[path] = 1 .. lines
      /\ Len(matches) + room = MAX_SEARCH_MATCHES /\ MAX_SEARCH_MATCHES \in Nat
  BY KindsAssumption, WorkspaceAssumption
<1>2. Found(path) = SubSeq(all, 1, n)
  BY DEF Found
<1> HIDE DEF lines, room
<1>3. n \in Nat /\ n <= lines /\ n <= room /\ (n < room => n = lines)
  <2>1. n = IF lines <= room THEN lines ELSE room
    BY <1>1, MinOfTwo
  <2> HIDE DEF n
  <2> QED BY <1>1, <2>1
<1> HIDE DEF n
<1>4. all \in Seq(Match) /\ Len(all) = lines
  <2>1. \A i \in 1 .. lines : Shown(path, i) \in Match
    BY <1>1, LineShown
  <2>2. all = [i \in 1 .. lines |-> Shown(path, i)]
    BY <1>1
  <2> QED BY <1>1, <2>1, <2>2
<1>5. ToSet(all) = ShownOf(path)
  BY DEF ToSet, ShownOf
<1> HIDE DEF all
<1>6. /\ Found(path) \in Seq(Match) /\ Len(Found(path)) = n
      /\ ToSet(Found(path)) \subseteq ToSet(all)
      /\ n = lines => Found(path) = all
  BY <1>2, <1>3, <1>4, ToSetPrefix
<1>7. Len(matches) + n <= MAX_SEARCH_MATCHES
      /\ (Len(matches) + n < MAX_SEARCH_MATCHES => n = lines)
  BY <1>1, <1>3
<1> QED BY <1>5, <1>6, <1>7

\* A file is scanned: what it has is found, unless there is no room for it.
LEMMA ScanEvidence ==
  ASSUME Inv, Evidence, scan_file_for_matches,
         UNCHANGED <<profile, running_as_root, asked, verdicts>>
  PROVE  Evidence'
<1> USE DEF Evidence
<1>0. PICK path : path = Head(limited)
  OBVIOUS
<1>1. /\ Session' /\ VerdictIsBelnap' /\ Start' = Start /\ UNCHANGED tree
      /\ Eligible(Start)' = Eligible(Start) /\ AllShown(Start)' = AllShown(Start)
  BY SearchFrame, FrameOfTree DEF search_steps
<1>2. /\ stage = "scanning" /\ limited' = Tail(limited) /\ Len(matches) < MAX_SEARCH_MATCHES
      /\ UNCHANGED cut /\ limited # <<>>
  BY DEF scan_file_for_matches
<1>3. path \in Leaves /\ ToSet(limited) = {path} \cup ToSet(limited')
  BY <1>0, <1>2, ToSetTail DEF Inv, Types
<1>4. ToSet(limited') \cap (Files \ tree'.unreadable) \subseteq Eligible(Start)'
  BY <1>1, <1>2, <1>3 DEF Scanning
<1>5. ASSUME NEW file \in Eligible(Start) PROVE file \in Files \ tree.unreadable
  BY <1>5 DEF Eligible
<1>6. CASE path \in Broken \cup tree.unreadable
  <2>1. UNCHANGED <<stage, matches>>
    BY <1>0, <1>6, KindsAssumption DEF scan_file_for_matches
  <2>2. \A file \in Eligible(Start) : file # path
    BY <1>5, <1>6, KindsAssumption
  <2>3. Scanning'
    BY <1>1, <1>2, <1>3, <1>4, <2>1, <2>2 DEF Scanning
  <2> QED BY <1>1, <1>2, <2>1, <2>3, NoEffectYet DEF Walking
<1>7. CASE path \in Fifos \ tree.unreadable
  <2>1. path \notin Broken \cup tree.unreadable
    BY <1>7, KindsAssumption
  <2>2. stage' = "blocked"
    BY <1>0, <1>7, <2>1, KindsAssumption DEF scan_file_for_matches
  <2> QED BY <1>1, <2>2, NoEffectYet DEF Walking, Scanning
<1>8. CASE path \in Files \ tree.unreadable
  <2>1. path \notin Broken \cup tree.unreadable /\ path \notin Fifos
    BY <1>8, KindsAssumption
  <2>2. UNCHANGED stage /\ matches' = matches \o Found(path)
    BY <1>0, <1>8, <2>1 DEF scan_file_for_matches
  <2>3. matches \in Seq(Match) /\ path \in Eligible(Start)
    BY <1>2, <1>3, <1>8 DEF Scanning
  <2> DEFINE found == Found(path)
             whole == ShownOf(path)
  <2>4. /\ found \in Seq(Match) /\ ToSet(found) \subseteq whole
        /\ Len(matches) + Len(found) <= MAX_SEARCH_MATCHES
        /\ Len(matches) + Len(found) < MAX_SEARCH_MATCHES => whole \subseteq ToSet(found)
    BY <1>2, <1>8, <2>3, FoundIsHonest
  <2>5. whole \subseteq AllShown(Start)
    BY <2>3 DEF AllShown
  <2> HIDE DEF whole
  <2>6. /\ matches' \in Seq(Match) /\ ToSet(matches') = ToSet(matches) \cup ToSet(found)
        /\ Len(matches') = Len(matches) + Len(found)
    <3> HIDE DEF found
    <3>1. matches' = matches \o found
      BY <2>2 DEF found
    <3> QED BY <2>3, <2>4, <3>1, ToSetConcat
  <2> HIDE DEF found
  <2>7. ToSet(matches') \subseteq AllShown(Start)' /\ Len(matches') <= MAX_SEARCH_MATCHES
    BY <1>1, <1>2, <2>4, <2>5, <2>6 DEF Scanning
  <2>8. ASSUME ~ cut', Len(matches') < MAX_SEARCH_MATCHES, NEW file \in Eligible(Start)
        PROVE  file \in ToSet(limited') \/ ShownOf(file) \subseteq ToSet(matches')
    <3>1. CASE file = path
      BY <2>4, <2>6, <2>8, <3>1 DEF whole
    <3>2. CASE file # path
      <4>1. file \in ToSet(limited) \/ ShownOf(file) \subseteq ToSet(matches)
        BY <1>2, <2>8 DEF Scanning
      <4> QED BY <1>3, <2>6, <3>2, <4>1
    <3> QED BY <3>1, <3>2
  <2>9. cut' \in BOOLEAN
    BY <1>2 DEF Scanning
  <2>10. Scanning'
    BY <1>1, <1>4, <2>6, <2>7, <2>8, <2>9 DEF Scanning
  <2> QED BY <1>1, <1>2, <2>2, <2>10, NoEffectYet DEF Walking
<1> QED BY <1>3, <1>6, <1>7, <1>8 DEF Leaves

\* The search ends: what is left to scan, if anything, is behind a bound that was met.
LEMMA SearchEndsEvidence ==
  ASSUME Inv, Evidence, search_ends,
         UNCHANGED <<profile, running_as_root, asked, verdicts>>
  PROVE  Evidence'
<1> USE DEF Evidence
<1>1. /\ Session' /\ VerdictIsBelnap' /\ Start' = Start /\ UNCHANGED tree
      /\ AllShown(Start)' = AllShown(Start) /\ AllMatches(Start)' = AllMatches(Start)
      /\ Routed(asked)' = "search_repository"
  BY SearchFrame, FrameOfTree DEF search_steps
<1>2. /\ stage = "scanning" /\ (limited = <<>> \/ Len(matches) >= MAX_SEARCH_MATCHES)
      /\ stage' = "answered" /\ UNCHANGED cut
      /\ answer' = Executed(matches, cut \/ Len(matches) >= MAX_SEARCH_MATCHES)
  BY DEF search_ends, search
<1>3. /\ answer'.how = "executed" /\ answer'.detail = matches
      /\ answer'.truncated = (cut \/ Len(matches) >= MAX_SEARCH_MATCHES)
  BY <1>2 DEF Executed
<1>4. /\ matches \in Seq(Match) /\ ToSet(matches) \subseteq AllShown(Start)
      /\ Len(matches) <= MAX_SEARCH_MATCHES /\ Len(matches) \in Nat /\ MAX_SEARCH_MATCHES \in Nat
      /\ cut \in BOOLEAN
  BY <1>2, WorkspaceAssumption DEF Scanning
<1>5. ASSUME ~ answer'.truncated
      PROVE  ToSet(matches) = AllShown(Start)
  <2>1. ~ cut /\ Len(matches) < MAX_SEARCH_MATCHES /\ limited = <<>>
    <3>1. ~ cut /\ ~ (Len(matches) >= MAX_SEARCH_MATCHES)
      BY <1>3, <1>5
    <3> QED BY <1>2, <1>4, <3>1
  <2>2. ToSet(limited) = {}
    BY <2>1 DEF ToSet
  <2>3. \A file \in Eligible(Start) : ShownOf(file) \subseteq ToSet(matches)
    BY <1>2, <2>1, <2>2 DEF Scanning
  <2>4. AllShown(Start) \subseteq ToSet(matches)
    BY <2>3 DEF AllShown
  <2> QED BY <1>4, <2>4
<1>6. answer'.truncated => Len(matches) = MAX_SEARCH_MATCHES \/ cut
  BY <1>3, <1>4
<1>7. Bounds["search_repository"] = MAX_SEARCH_MATCHES
  BY DEF Bounds
<1>8. EffectIsHonest'
  <2>1. AllMatches(OrRoot(asked.path))' = AllMatches(Start)
    BY <1>1 DEF Start
  <2>2. SearchIsHonest(ToSet(matches), answer'.truncated, AllMatches(Start))
    BY <1>4, <1>5, ShownIsHonest
  <2> QED BY <1>1, <1>2, <1>3, <1>4, <1>6, <1>7, <2>1, <2>2 DEF EffectIsHonest
<1> QED BY <1>1, <1>2, <1>8 DEF Walking, Scanning

-----------------------------------------------------------------------------
(* What is reconciled.                                                     *)

\* claim_for_path is the content of a claim of the path, or Nothing when there is none.
LEMMA ClaimFound ==
  ASSUME NEW claims \in Seq(Claim), NEW n
  PROVE  \/ /\ \A i \in DOMAIN claims : claims[i].path # n
            /\ claim_for_path(claims, n) = Nothing
         \/ \E i \in DOMAIN claims :
              claims[i].path = n /\ claim_for_path(claims, n) = claims[i].content
<1> DEFINE about == {i \in DOMAIN claims : claims[i].path = n}
<1>1. claim_for_path(claims, n) = IF about = {} THEN Nothing ELSE claims[Min(about)].content
  BY DEF claim_for_path
<1>2. about \subseteq Nat
  OBVIOUS
<1>3. CASE about = {}
  BY <1>1, <1>3
<1>4. CASE about # {}
  <2> HIDE DEF about
  <2>1. PICK k \in about : \A i \in about : <<i, k>> \notin OpToRel(<, Nat)
    <3>1. IsWellFoundedOn(OpToRel(<, Nat), Nat)
      BY NatLessThanWellFounded
    <3> QED BY <1>2, <1>4, <3>1, WFMin
  <2>2. ASSUME NEW i \in about
        PROVE  k <= i
    <3>1. i \in Nat /\ k \in Nat
      BY <1>2
    <3>2. ~ (i < k)
      BY <2>1, <3>1 DEF OpToRel
    <3> QED BY <3>1, <3>2
  <2>3. Min(about) \in about
    BY <2>2 DEF Min
  <2> QED BY <1>1, <1>4, <2>3 DEF about
<1> QED BY <1>3, <1>4

\* What is reconciled of a path and a content is as VerdictIsBelnap says.
LEMMA Reconciled ==
  ASSUME IsArtifact(asked.artifact), Readable(asked.artifact.wrote),
         NEW n \in Names, NEW c \in Contents \cup {Nothing}, NEW verdict,
         verdict = reconcile_path(asked.artifact.claims, n, c,
                                  collect_ground_truth(asked.artifact.wrote))
  PROVE  /\ verdict \in {"corroborated", "unreported_activity"} <=> Holds(n, c)
         /\ verdict \in {"corroborated", "contradiction"} => Claims(n, c)
         /\ (\A i, j \in DOMAIN asked.artifact.claims :
               asked.artifact.claims[i].path = asked.artifact.claims[j].path => i = j)
              => verdict = reconcile(Claims(n, c), Holds(n, c))
<1> DEFINE claims == asked.artifact.claims
           wrote == asked.artifact.wrote
           found == claim_for_path(claims, n)
           claimed == IF c # Nothing THEN found = c ELSE found # Nothing
           ground == collect_ground_truth(wrote)
           observed == IF c # Nothing THEN ground[n] = c ELSE ground[n] # Nothing
           once == \A i, j \in DOMAIN claims : claims[i].path = claims[j].path => i = j
<1>1. claims \in Seq(Claim) /\ wrote[n] \in Left \ {"binary"}
  BY DEF IsArtifact, Readable
<1>2. observed <=> Holds(n, c)
  <2>1. ground[n] = IF wrote[n] = "directory" THEN Nothing ELSE wrote[n]
    BY DEF collect_ground_truth
  <2>2. \A x \in Contents : x # Nothing /\ x # "directory"
    BY ContentsAssumption
  <2> HIDE DEF ground
  <2> QED BY <1>1, <2>1, <2>2 DEF Holds, Left
<1>3. \A i \in DOMAIN claims : claims[i] \in Claim /\ claims[i].content \in Contents
                               /\ claims[i].content # Nothing
  <2>1. \A i \in DOMAIN claims : claims[i] \in Claim
    BY <1>1
  <2> QED BY <2>1, ContentsAssumption DEF Claim
<1>4. \/ found = Nothing /\ \A i \in DOMAIN claims : claims[i].path # n
      \/ \E i \in DOMAIN claims : claims[i].path = n /\ found = claims[i].content
  BY <1>1, ClaimFound
<1>5. Claims(n, c) <=> \E i \in DOMAIN claims :
                         claims[i].path = n /\ (c = Nothing \/ claims[i].content = c)
  BY DEF Claims
<1>6. verdict = reconcile(claimed, observed)
  BY DEF reconcile_path
<1> HIDE DEF claims, found, ground
<1>7. (claimed => Claims(n, c)) /\ (once => (claimed <=> Claims(n, c)))
  <2>1. CASE found = Nothing /\ \A i \in DOMAIN claims : claims[i].path # n
    BY <1>5, <2>1
  <2>2. CASE \E i \in DOMAIN claims : claims[i].path = n /\ found = claims[i].content
    <3>1. PICK i \in DOMAIN claims : claims[i].path = n /\ found = claims[i].content
      BY <2>2
    <3>2. once => \A j \in DOMAIN claims : claims[j].path = n => j = i
      BY <3>1
    <3>3. claimed => Claims(n, c)
      BY <1>5, <3>1
    <3>4. once /\ Claims(n, c) => claimed
      <4> SUFFICES ASSUME once, Claims(n, c) PROVE claimed
        OBVIOUS
      <4>1. PICK j \in DOMAIN claims : claims[j].path = n /\ (c = Nothing \/ claims[j].content = c)
        BY <1>5
      <4>2. j = i
        BY <3>2, <4>1
      <4> QED BY <1>3, <3>1, <4>1, <4>2
    <3> QED BY <3>3, <3>4
  <2> QED BY <1>4, <2>1, <2>2
<1> HIDE DEF claimed, observed
<1>8. /\ reconcile(claimed, observed) \in {"corroborated", "unreported_activity"} <=> observed
      /\ reconcile(claimed, observed) \in {"corroborated", "contradiction"} <=> claimed
  BY DEF reconcile
<1>9. once => reconcile(claimed, observed) = reconcile(Claims(n, c), Holds(n, c))
  <2> SUFFICES ASSUME once
               PROVE  reconcile(claimed, observed) = reconcile(Claims(n, c), Holds(n, c))
    OBVIOUS
  <2>1. claimed <=> Claims(n, c)
    BY <1>7
  <2> QED BY <1>2, <2>1 DEF reconcile
<1> QED BY <1>2, <1>6, <1>7, <1>8, <1>9 DEF claims

\* Reports are reconciled, and nothing else changes.
LEMMA ReconcileEvidence ==
  ASSUME Inv, Evidence, reconcile_reports
  PROVE  Evidence'
<1> USE DEF Evidence
<1>1. /\ UNCHANGED <<tree, stage, stack, current, visited, limited, matches, cut, answer>>
      /\ UNCHANGED <<profile, asked>> /\ stage = "answered"
  BY DEF reconcile_reports, Ran, workspace, search
<1>2. Routed(asked)' = Routed(asked) /\ Whole' = Whole
  BY <1>1 DEF Routed, Whole
<1>3. AllMatches(OrRoot(asked.path))' = AllMatches(OrRoot(asked.path))
  <2>1. PICK start : start = OrRoot(asked.path)
    OBVIOUS
  <2>2. AllMatches(start)' = AllMatches(start)
    BY <1>1, FrameOfTree
  <2>3. OrRoot(asked.path)' = start
    BY <1>1, <2>1
  <2> QED BY <2>1, <2>2, <2>3
<1>4. EffectIsHonest'
  BY <1>1, <1>2, <1>3 DEF EffectIsHonest
<1>5. IsArtifact(asked.artifact) /\ Readable(asked.artifact.wrote)
  BY <1>1, IntentsAssumption DEF reconcile_reports, Ran, Refuses, Session
<1>6. VerdictIsBelnap'
  <2>1. \A v \in verdicts' : \E n \in Names : \E c \in Contents \cup {Nothing} :
          /\ v[1] = n /\ v[2] = c
          /\ v[3] = reconcile_path(asked.artifact.claims, n, c,
                                   collect_ground_truth(asked.artifact.wrote))
    BY DEF reconcile_reports
  <2>2. \A n, c : Claims(n, c)' = Claims(n, c) /\ Holds(n, c)' = Holds(n, c)
    BY <1>1 DEF Claims, Holds
  <2>3. ASSUME NEW v \in verdicts'
        PROVE  /\ v[3] \in {"corroborated", "unreported_activity"} <=> Holds(v[1], v[2])
               /\ v[3] \in {"corroborated", "contradiction"} => Claims(v[1], v[2])
               /\ (\A i, j \in DOMAIN asked.artifact.claims :
                     asked.artifact.claims[i].path = asked.artifact.claims[j].path => i = j)
                    => v[3] = reconcile(Claims(v[1], v[2]), Holds(v[1], v[2]))
    <3>1. PICK n \in Names : \E c \in Contents \cup {Nothing} :
            /\ v[1] = n /\ v[2] = c
            /\ v[3] = reconcile_path(asked.artifact.claims, n, c,
                                     collect_ground_truth(asked.artifact.wrote))
      BY <2>1
    <3>2. PICK c \in Contents \cup {Nothing} :
            /\ v[1] = n /\ v[2] = c
            /\ v[3] = reconcile_path(asked.artifact.claims, n, c,
                                     collect_ground_truth(asked.artifact.wrote))
      BY <3>1
    <3> QED BY <1>5, <3>1, <3>2, Reconciled
  <2> QED BY <1>1, <2>2, <2>3 DEF VerdictIsBelnap
<1> QED BY <1>1, <1>4, <1>6 DEF Session, Walking, Scanning

-----------------------------------------------------------------------------
(* A dispatch.                                                             *)

\* An answer that is what there was, up to its bound, is honest.
LEMMA BoundedAnswer ==
  ASSUME NEW class \in {"read_file", "list_directory", "same_process"},
         NEW T, NEW s \in Seq(T), NEW n \in Nat,
         Routed(asked)' = class, n = Bounds[class], Whole' = s,
         answer'.detail = SubSeq(s, 1, Min({n, Len(s)})), answer'.truncated = (Len(s) > n)
  PROVE  EffectIsHonest'
<1> DEFINE kept == SubSeq(s, 1, Min({n, Len(s)}))
<1>1. /\ IsPrefix(kept, s) /\ Len(kept) <= n
      /\ ~ (Len(s) > n) => kept = s
      /\ Len(s) > n => Len(kept) = n
  BY BoundedIsHonest
<1>2. class # "search_repository"
  OBVIOUS
<1>3. answer'.detail = kept
  OBVIOUS
<1> HIDE DEF kept
<1>4. /\ IsPrefix(answer'.detail, Whole') /\ (~ answer'.truncated => answer'.detail = Whole')
      /\ Len(answer'.detail) <= Bounds[class]
      /\ answer'.truncated => Len(answer'.detail) = Bounds[class]
  BY <1>1, <1>3
<1> QED BY <1>2, <1>4 DEF EffectIsHonest

\* A sequence is a prefix of itself.
LEMMA WholeIsPrefix ==
  ASSUME NEW T, NEW s \in Seq(T)
  PROVE  IsPrefix(s, s)
<1>1. Len(s) \in Nat /\ Len(s) <= Len(s) /\ SubSeq(s, 1, Len(s)) = s
  OBVIOUS
<1> QED BY <1>1 DEF IsPrefix

\* What code prints in the broker is captured up to the bound.
LEMMA SameProcessEvidence ==
  ASSUME NEW intent \in Intents, asked' = intent, Routed(asked)' = "same_process",
         answer' = same_process(intent.artifact, running_as_root)
  PROVE  EffectIsHonest'
<1> SUFFICES ASSUME answer'.how = "executed" PROVE EffectIsHonest'
  BY NoEffectYet
<1> DEFINE s == Printed(intent.artifact)
           n == MAX_CAPTURED_OUTPUT_CHARS
<1>1. /\ ~ Refuses(intent.artifact, running_as_root)
      /\ answer' = truncate_captured_output("executed", s)
  BY DEF same_process, Result, truncate_captured_output
<1>2. s \in Seq(Nat) /\ Len(s) \in Nat /\ n \in Nat
  <2>1. intent.artifact.prints \in Nat
    BY <1>1, IntentsAssumption DEF Refuses, IsArtifact
  <2> QED BY <2>1, CapturedAssumption DEF Printed
<1>3. Whole' = s
  BY DEF Whole
<1> HIDE DEF s
<1>4. /\ answer'.detail = SubSeq(s, 1, Min({n, Len(s)}))
      /\ answer'.truncated = (Len(s) > n)
  <2>1. {n, Len(s)} = {Len(s), n}
    OBVIOUS
  <2>2. answer' = Executed(SubSeq(s, 1, Min({Len(s), n})), Len(s) > n)
    BY <1>1 DEF truncate_captured_output, Result, Executed
  <2> DEFINE kept == SubSeq(s, 1, Min({Len(s), n}))
             longer == Len(s) > n
  <2>3. answer' = Executed(kept, longer)
    BY <2>2
  <2> HIDE DEF kept, longer
  <2>4. answer'.detail = kept /\ answer'.truncated = longer
    BY <2>3 DEF Executed
  <2> QED BY <2>1, <2>4 DEF kept, longer
<1>5. n = Bounds["same_process"]
  BY DEF Bounds
<1> HIDE DEF n
<1> QED BY <1>2, <1>3, <1>4, <1>5, BoundedAnswer

\* What a separate process prints is all kept.
LEMMA SeparateProcessEvidence ==
  ASSUME NEW intent \in Intents, asked' = intent, Routed(asked)' = "separate_process",
         answer' = separate_process(intent.artifact, running_as_root)
  PROVE  EffectIsHonest'
<1> SUFFICES ASSUME answer'.how = "executed" PROVE EffectIsHonest'
  BY NoEffectYet
<1> DEFINE s == Printed(intent.artifact)
<1>1. /\ ~ Refuses(intent.artifact, running_as_root)
      /\ answer'.detail = s /\ answer'.truncated = FALSE
  BY DEF separate_process, Result
<1>2. s \in Seq(Nat)
  <2>1. intent.artifact.prints \in Nat
    BY <1>1, IntentsAssumption DEF Refuses, IsArtifact
  <2> QED BY <2>1 DEF Printed
<1>3. Whole' = s
  BY DEF Whole
<1> HIDE DEF s
<1>4. IsPrefix(s, s)
  BY <1>2, WholeIsPrefix
<1>5. "separate_process" \notin DOMAIN Bounds
  BY DEF Bounds
<1> QED BY <1>1, <1>3, <1>4, <1>5 DEF EffectIsHonest

\* A file is read up to the bound.
LEMMA ReadFileEvidence ==
  ASSUME NEW intent \in Intents, asked' = intent, Routed(asked)' = "read_file",
         read_file(intent.path)
  PROVE  EffectIsHonest'
<1> SUFFICES ASSUME answer'.how = "executed" PROVE EffectIsHonest'
  BY NoEffectYet
<1> DEFINE path == intent.path
           s == [i \in 1 .. Size[path] |-> i]
           n == MAX_READ_BYTES
<1>1. path \in Files /\ answer' = Bounded(s, n)
  BY DEF read_file, Failed, Raised, Ends, Confines
<1>2. s \in Seq(Nat) /\ Len(s) \in Nat /\ n \in Nat
  BY <1>1, KindsAssumption, WorkspaceAssumption
<1>3. Whole' = s
  BY DEF Whole
<1>4. n = Bounds["read_file"]
  BY DEF Bounds
<1> HIDE DEF s, n
<1>5. answer'.detail = SubSeq(s, 1, Min({n, Len(s)})) /\ answer'.truncated = (Len(s) > n)
  BY <1>1 DEF Bounded, Executed
<1> QED BY <1>2, <1>3, <1>4, <1>5, BoundedAnswer

\* The names of the entries of a directory are a sequence.
LEMMA NamesListed ==
  ASSUME tree \in Trees, NEW d \in Dirs
  PROVE  \E T : [i \in DOMAIN tree.entries[d] |-> tree.entries[d][i].name] \in Seq(T)
<1> DEFINE entries == tree.entries[d]
           T == {entry.name : entry \in ToSet(entries)}
<1>1. entries \in Seq(ToSet(entries))
  BY TreesAssumption DEF IsEntries
<1> HIDE DEF entries
<1>2. \A i \in DOMAIN entries : entries[i].name \in T
  BY DEF ToSet
<1> HIDE DEF T
<1>3. DOMAIN entries = 1 .. Len(entries) /\ Len(entries) \in Nat
  BY <1>1
<1>4. [i \in DOMAIN entries |-> entries[i].name] \in Seq(T)
  BY <1>2, <1>3
<1> QED BY <1>4 DEF entries

\* A directory is listed up to the bound.
LEMMA ListDirectoryEvidence ==
  ASSUME tree \in Trees, NEW intent \in Intents, asked' = intent,
         Routed(asked)' = "list_directory", list_directory(intent.path)
  PROVE  EffectIsHonest'
<1> SUFFICES ASSUME answer'.how = "executed" PROVE EffectIsHonest'
  BY NoEffectYet
<1> DEFINE path == OrRoot(intent.path)
           s == [i \in DOMAIN tree.entries[path] |-> tree.entries[path][i].name]
           n == MAX_LISTING_ENTRIES
<1>1. path \in Dirs /\ answer' = Bounded(s, n)
  BY DEF list_directory, Failed, Raised, Ends, Confines
<1>2. UNCHANGED tree
  BY DEF list_directory, Unchanged
<1>3. PICK T : s \in Seq(T)
  BY <1>1, NamesListed
<1>4. Whole' = s
  <2>1. OrRoot(asked.path)' = path
    BY DEF OrRoot
  <2> HIDE DEF path
  <2> QED BY <1>2, <2>1 DEF Whole
<1>5. n \in Nat /\ n = Bounds["list_directory"]
  BY WorkspaceAssumption DEF Bounds
<1> HIDE DEF s, n
<1>6. answer'.detail = SubSeq(s, 1, Min({n, Len(s)})) /\ answer'.truncated = (Len(s) > n)
  BY <1>1 DEF Bounded, Executed
<1> QED BY <1>3, <1>4, <1>5, <1>6, BoundedAnswer

\* A search begins with a file to scan or with a directory to list, or is refused.
LEMMA SearchBegins ==
  ASSUME Inv, NEW intent \in Intents, asked' = intent,
         search_repository(intent.pattern, intent.path)
  PROVE  Walking' /\ Scanning' /\ EffectIsHonest'
         /\ stage' \in {"answered", "scanning", "walking", "blocked"}
<1> DEFINE path == OrRoot(intent.path)
           refusal == SearchRefusal(intent.pattern, path)
<1>1. /\ matches' = <<>> /\ cut' = FALSE /\ current' = <<>> /\ UNCHANGED tree
  BY DEF search_repository
<1>2. Start' = path
  BY DEF Start, OrRoot
<1>3. refusal.how = "executed" => Confines(path) /\ path \notin Fifos \cup Broken
  BY DEF SearchRefusal, Failed, Raised, Ends, Confines
<1>4. refusal.how = "executed" => path \in (Dirs \cup Files) \ Outside
  BY <1>3, Confinement, IntentsAssumption DEF Paths
<1>5. \/ stage' = "answered" /\ answer' = refusal /\ refusal.how # "executed"
      \/ stage' = "scanning" /\ limited' = <<path>> /\ path \in Files
      \/ stage' = "blocked"
      \/ /\ stage' = "walking" /\ stack' = <<path>> /\ limited' = <<>> /\ visited' = {path}
         /\ path \in Inside /\ path \notin Files
  BY <1>4 DEF search_repository, Inside
<1> HIDE DEF path, refusal
<1>6. ToSet(<<>>) = {} /\ ToSet(<<path>>) = {path}
  BY DEF ToSet
<1>7. CASE stage' = "answered" /\ answer' = refusal /\ refusal.how # "executed"
  BY <1>7, NoEffectYet DEF Walking, Scanning
<1>8. CASE stage' = "scanning" /\ limited' = <<path>> /\ path \in Files
  <2>1. Eligible(Start)' = {path} \ tree'.unreadable
    BY <1>2, <1>8 DEF Eligible
  <2>2. /\ matches' \in Seq(Match) /\ ToSet(matches') = {} /\ Len(matches') = 0
        /\ ToSet(limited') = {path} /\ 0 <= MAX_SEARCH_MATCHES
    BY <1>1, <1>6, <1>8, WorkspaceAssumption
  <2>3. Scanning'
    BY <1>1, <2>1, <2>2 DEF Scanning
  <2> QED BY <1>8, <2>3, NoEffectYet DEF Walking
<1>9. CASE /\ stage' = "walking" /\ stack' = <<path>> /\ limited' = <<>> /\ visited' = {path}
           /\ path \in Inside /\ path \notin Files
  <2>1. path \in Dirs
    BY <1>9 DEF Inside
  <2>2. path \in Reached(Start)'
    <3>1. Reached(path)' = Reached(path)
      BY <1>1, FrameOfTree
    <3> QED BY <1>2, <2>1, <3>1, ReachedStart
  <2>3. ToSet(current') = {} /\ ToSet(limited') = {} /\ ToSet(stack') = {path}
    BY <1>1, <1>6, <1>9
  <2>4. Walking'
    BY <1>1, <1>2, <1>9, <2>1, <2>2, <2>3 DEF Walking
  <2> QED BY <1>9, <2>4, NoEffectYet DEF Scanning
<1>10. CASE stage' = "blocked"
  BY <1>10, NoEffectYet DEF Walking, Scanning
<1> QED BY <1>5, <1>7, <1>8, <1>9, <1>10

\* An operation begins.
LEMMA DispatchEvidence ==
  ASSUME Inv, Evidence, NEW intent \in Intents, dispatch(intent)
  PROVE  Evidence'
<1> USE DEF Evidence
<1>1. stage = "idle" /\ asked' = intent /\ UNCHANGED <<profile, running_as_root, verdicts>>
  BY DEF dispatch
<1>2. VerdictIsBelnap' /\ verdicts' = {}
  BY <1>1 DEF Session, VerdictIsBelnap
<1>3. Routed(asked)' = Routed(intent)
  BY <1>1 DEF Routed
<1>4. /\ Routed(intent) \in {"", "same_process", "separate_process"} \cup Observations
      /\ tree \in Trees
  <2>1. profile \in {portable_profile, planning_profile} /\ tree \in Trees
    BY DEF Inv, Types
  <2> QED BY <2>1, Routes
<1>5. ASSUME stage' \in {"blocked", "answered"}, EffectIsHonest'
      PROVE  Evidence'
  BY <1>1, <1>2, <1>5 DEF Session, Walking, Scanning
<1>6. CASE Routed(intent) = ""
  <2>1. stage' = "answered" /\ answer' = Ends("refused")
    BY <1>6 DEF dispatch
  <2> QED BY <1>5, <2>1, NoEffectYet DEF Ends
<1>7. CASE Routed(intent) = "same_process"
  <2>1. /\ stage' \in {"blocked", "answered"}
        /\ answer' = same_process(intent.artifact, running_as_root)
    BY <1>7 DEF dispatch
  <2> QED BY <1>1, <1>3, <1>5, <1>7, <2>1, SameProcessEvidence
<1>8. CASE Routed(intent) = "separate_process"
  <2>1. /\ stage' \in {"blocked", "answered"}
        /\ answer' = separate_process(intent.artifact, running_as_root)
    BY <1>8 DEF dispatch
  <2> QED BY <1>1, <1>3, <1>5, <1>8, <2>1, SeparateProcessEvidence
<1>9. CASE Routed(intent) = "read_file"
  <2>1. read_file(intent.path)
    BY <1>9 DEF dispatch
  <2>2. stage' = "answered"
    BY <2>1 DEF read_file
  <2> QED BY <1>1, <1>3, <1>5, <1>9, <2>1, <2>2, ReadFileEvidence
<1>10. CASE Routed(intent) = "list_directory"
  <2>1. list_directory(intent.path)
    BY <1>10 DEF dispatch
  <2>2. stage' = "answered"
    BY <2>1 DEF list_directory
  <2> QED BY <1>1, <1>3, <1>4, <1>5, <1>10, <2>1, <2>2, ListDirectoryEvidence
<1>11. CASE Routed(intent) = "search_repository"
  <2>1. search_repository(intent.pattern, intent.path)
    BY <1>11 DEF dispatch
  <2>2. Walking' /\ Scanning' /\ EffectIsHonest' /\ stage' \in {"answered", "scanning", "walking", "blocked"}
    BY <1>1, <2>1, SearchBegins
  <2>3. Session'
    BY <1>1, <1>3, <1>11, <2>2 DEF Session
  <2> QED BY <1>2, <2>2, <2>3
<1> QED BY <1>4, <1>6, <1>7, <1>8, <1>9, <1>10, <1>11 DEF Observations

-----------------------------------------------------------------------------
(* The second invariant, and the theorem.                                  *)

\* It holds at the start.
LEMMA EvidenceInit == Init => Evidence
  BY DEF Init, WorkspaceInit, Evidence, Session, Walking, Scanning, EffectIsHonest,
         VerdictIsBelnap

\* A stutter keeps it.
LEMMA StutterEvidence ==
  ASSUME Inv, Evidence, UNCHANGED vars
  PROVE  Evidence'
<1>1. /\ UNCHANGED <<tree, stage, stack, current, visited, limited, matches, cut, answer>>
      /\ UNCHANGED <<profile, asked, verdicts>>
  BY DEF vars, workspace, search
<1>2. Routed(asked)' = Routed(asked) /\ Whole' = Whole /\ Start' = Start
  BY <1>1 DEF Routed, Whole, Start
<1>3. PICK start : start = Start
  OBVIOUS
<1>4. /\ AllMatches(start)' = AllMatches(start) /\ AllShown(start)' = AllShown(start)
      /\ Eligible(start)' = Eligible(start)
      /\ Reached(start)' = Reached(start) /\ Below(start)' = Below(start)
      /\ Yields(start)' = Yields(start)
  BY <1>1, FrameOfTree
<1>5. \A entry : Handled(entry)' = Handled(entry)
  BY <1>1, FrameOfRules DEF Handled
<1>6. EffectIsHonest'
  BY <1>1, <1>2, <1>3, <1>4 DEF Evidence, EffectIsHonest, Start
<1>7. VerdictIsBelnap' /\ Session'
  BY <1>1, <1>2 DEF Evidence, VerdictIsBelnap, Claims, Holds, Session
<1>8. Walking'
  BY <1>1, <1>2, <1>3, <1>4, <1>5 DEF Evidence, Walking
<1>9. Scanning'
  BY <1>1, <1>2, <1>3, <1>4 DEF Evidence, Scanning
<1> QED BY <1>6, <1>7, <1>8, <1>9 DEF Evidence

\* Every step keeps it.
LEMMA EvidenceNext == Inv /\ Evidence /\ [Next]_vars => Evidence'
<1> SUFFICES ASSUME Inv, Evidence, [Next]_vars PROVE Evidence'
  OBVIOUS
<1>1. CASE \E intent \in Intents : dispatch(intent)
  BY <1>1, DispatchEvidence
<1>2. CASE search_steps /\ UNCHANGED <<profile, running_as_root, asked, verdicts>>
  BY <1>2, NextDirectoryEvidence, VisitEvidence, WalkEndsEvidence, ScanEvidence,
     SearchEndsEvidence DEF search_steps
<1>3. CASE reconcile_reports
  BY <1>3, ReconcileEvidence
<1>4. CASE UNCHANGED vars
  BY <1>4, StutterEvidence
<1> QED BY <1>1, <1>2, <1>3, <1>4 DEF Next

\* What is told of an operation, or of a report about it, is what happened: an Effect that does
\* not say it was truncated is all there was, one that does met its bound, a search finds every
\* line that matches in every readable file the exclusions leave and nothing else, and a report
\* is credited exactly with what is so.
THEOREM EvidenceIsTrue == Spec => []EvidenceIsHonest
<1>1. Evidence => EvidenceIsHonest
  BY DEF Evidence, EvidenceIsHonest
<1> QED BY <1>1, InvInit, InvNext, EvidenceInit, EvidenceNext, PTL DEF Spec
=============================================================================
