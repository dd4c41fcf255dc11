----------------------------- MODULE Workspace -----------------------------
(* The read-only backends (siphonophore_core/execution_readonly.py):       *)
(* read_file, list_directory and the bounded walk of search_repository,    *)
(* each confined to a root.                                                *)
(*                                                                         *)
(* A path stands for what Path.resolve() makes of it, so it is its own     *)
(* rel_posix.  A directory is a sequence of entries in the order of their  *)
(* names; an entry is a name and the path it resolves to, which is a child *)
(* of the directory or, for a symbolic link, any path.  The tree does not  *)
(* change during a dispatch.                                               *)
EXTENDS Naturals, Sequences, SequencesExt, FiniteSetsExt

CONSTANTS
  Dirs, Files,   \* paths of directories and of regular files
  Fifos,         \* paths of files that do not answer a read
  Broken,        \* paths at which there is nothing
  Root, Outside, \* the configured root; the paths that are not below it
  Loop,          \* a link that leads to itself: resolve() raises before Python 3.13
  PathOrder,     \* the paths in the order of their text
  Absent,        \* a payload field that is missing, empty, zero or null
  Scalar,        \* another value that is not a string
  Absolute,      \* an absolute path
  Null,          \* a path with a NUL character: resolve() raises ValueError
  Excluded,      \* _HARDCODED_EXCLUDED_DIR_NAMES and extra_excluded_dir_names
  Size,          \* of each file, in bytes
  Lines,         \* the lines of each file that match the pattern: their lengths in characters
  MAX_READ_BYTES, MAX_LISTING_ENTRIES, MAX_SEARCH_MATCHES, MAX_MATCH_LINE_CHARS, MAX_FILES_WALKED,
  Trees          \* the trees a search may meet

Paths == Dirs \cup Files \cup Fifos \cup Broken

ASSUME WorkspaceAssumption ==
  /\ Root \in Dirs \ Outside /\ Outside \subseteq Paths
  /\ ToSet(PathOrder) = Paths
  /\ MAX_SEARCH_MATCHES \in Nat \ {0} /\ MAX_FILES_WALKED \in Nat \ {0}
  /\ MAX_READ_BYTES \in Nat /\ MAX_LISTING_ENTRIES \in Nat /\ MAX_MATCH_LINE_CHARS \in Nat

\* A path is of one kind, and a link that leads to itself is no path.
ASSUME KindsAssumption ==
  /\ Files \cap (Dirs \cup Fifos \cup Broken) = {} /\ Dirs \cap (Fifos \cup Broken) = {}
  /\ Fifos \cap Broken = {} /\ Loop \notin Paths
  /\ Size \in [Files -> Nat] /\ Lines \in [Files -> Seq(Nat)]

\* The entries of a directory are a sequence, and each leads to a path or to itself.
IsEntries(s) ==
  s \in Seq(ToSet(s)) /\ \A entry \in ToSet(s) : entry.path \in Paths \cup {Loop}

ASSUME TreesAssumption == \A t \in Trees :
  DOMAIN t.entries = Dirs /\ t.unreadable \subseteq Paths /\ \A d \in Dirs : IsEntries(t.entries[d])

VARIABLES
  tree,     \* the entries, the paths that cannot be read and the lines of .gitignore
  stage,    \* "idle", "walking", "scanning", "blocked" or "answered"
  stack,    \* directories still to be listed
  current,  \* entries of the directory being listed that are still to be looked at
  visited,  \* visited_dirs
  limited,  \* files the walk yielded and the scan has not reached
  matches,
  cut,      \* truncated_files
  listed,   \* history: the directories whose entries were listed, in order
  opened,   \* history: the paths whose content was read
  answer    \* how the dispatch ended

search == <<stack, current, visited, limited, matches, cut>>
workspace == <<tree, stage, search, listed, opened, answer>>

\* An Effect; an ExecutionError, which step() catches; another exception, which it does not.
Executed(detail, truncated) == [how |-> "executed", detail |-> detail, truncated |-> truncated]
Ends(how) == [how |-> how, detail |-> <<>>, truncated |-> FALSE]
Failed == Ends("failed")
Raised == Ends("raised")

\* The first n of a sequence, and whether there were more.
Bounded(s, n) == Executed(SubSeq(s, 1, Min({n, Len(s)})), Len(s) > n)

-----------------------------------------------------------------------------
(* .gitignore.                                                             *)

\* A line is what it asks for and the names and paths its pattern matches.  A comment, or a
\* line that is empty or only "!" or "/", matches nothing and is dropped.  A leading or an
\* embedded slash anchors the pattern to the root.
parse_gitignore_lines(lines) ==
  LET kept == SelectSeq(lines, LAMBDA line : line.pattern # {})
  IN [i \in DOMAIN kept |->
       [pattern |-> kept[i].pattern, negate |-> kept[i].negate, dir_only |-> kept[i].dir_only,
        anchored |-> kept[i].leading \/ kept[i].embedded]]

\* What .gitignore of the root leads to: a link of that name is followed wherever it leads.
IgnoreFile == {e.path : e \in {e \in ToSet(tree.entries[Root]) : e.name = ".gitignore"}}
Loaded == IgnoreFile \cap (Files \ tree.unreadable)

\* A .gitignore that cannot be read holds no rule.
load == IF Loaded = {} THEN <<>> ELSE parse_gitignore_lines(tree.gitignore)

\* The last rule that matches decides.
is_ignored(rules, entry, is_dir) ==
  LET hits == {i \in DOMAIN rules :
        /\ rules[i].dir_only => is_dir
        /\ (IF rules[i].anchored THEN entry.path ELSE entry.name) \in rules[i].pattern}
  IN hits # {} /\ ~ rules[Max(hits)].negate

-----------------------------------------------------------------------------
(* Confinement, and the two backends of one step.                          *)

confine(path) ==
  CASE path \in {Scalar, Absolute} -> Failed
    [] path \in {Null, Loop} -> Raised
    [] path \in Outside -> Failed
    [] OTHER -> Executed(path, FALSE)

Confines(path) == confine(path).how = "executed"

OrRoot(path) == IF path = Absent THEN Root ELSE path

Unchanged == UNCHANGED <<tree, search>>

\* read_bytes of a file without permission is a PermissionError, which nothing catches.
read_file(path) ==
  /\ stage' = "answered"
  /\ answer' = CASE path = Absent -> Failed
                 [] path # Absent /\ ~ Confines(path) -> confine(path)
                 [] Confines(path) /\ path \in tree.unreadable \cap Files -> Raised
                 [] Confines(path) /\ path \in Files \ tree.unreadable ->
                      Bounded([i \in 1 .. Size[path] |-> i], MAX_READ_BYTES)
                 [] OTHER -> Failed
  /\ opened' = opened \cup
       (IF answer'.how = "executed" THEN {path} ELSE {})
  /\ Unchanged /\ UNCHANGED listed

\* An entry is listed by its name, wherever it leads.
list_directory(requested) ==
  LET path == OrRoot(requested) IN
  /\ stage' = "answered"
  /\ answer' = CASE ~ Confines(path) -> confine(path)
                 [] Confines(path) /\ path \in tree.unreadable \cap Dirs -> Raised
                 [] Confines(path) /\ path \in Dirs \ tree.unreadable ->
                      Bounded([i \in DOMAIN tree.entries[path] |-> tree.entries[path][i].name],
                              MAX_LISTING_ENTRIES)
                 [] OTHER -> Failed
  /\ listed' = IF answer'.how = "executed" THEN Append(listed, path) ELSE listed
  /\ Unchanged /\ UNCHANGED opened

-----------------------------------------------------------------------------
(* search_repository.                                                      *)

\* The pattern is looked at, the path confined, the pattern compiled, in this order.
\* re.compile raises other exceptions than re.error too: OverflowError for a huge
\* repetition, RecursionError for deep nesting.
SearchRefusal(pattern, path) ==
  IF pattern = Absent THEN Failed
  ELSE IF ~ Confines(path) THEN confine(path)
  ELSE CASE pattern = "invalid" -> Failed
         [] pattern = "overflowing" -> Raised
         [] pattern \notin {"invalid", "overflowing"} /\ path \in Fifos \cup Broken -> Failed
         [] OTHER -> Executed(path, FALSE)

\* A file is searched alone, whatever excludes it; a directory is walked, once .gitignore has
\* been read, unconfined.
search_repository(pattern, requested) ==
  LET path == OrRoot(requested)
      refusal == SearchRefusal(pattern, path) IN
  /\ matches' = <<>> /\ cut' = FALSE /\ current' = <<>>
  /\ CASE refusal.how # "executed" ->
            /\ stage' = "answered" /\ answer' = refusal
            /\ stack' = <<>> /\ visited' = {} /\ limited' = <<>> /\ UNCHANGED opened
       [] refusal.how = "executed" /\ path \in Files ->
            /\ stage' = "scanning" /\ UNCHANGED answer
            /\ stack' = <<>> /\ visited' = {} /\ limited' = <<path>> /\ UNCHANGED opened
       [] OTHER ->
            /\ stage' = IF IgnoreFile \cap (Fifos \ tree.unreadable) = {} THEN "walking"
                                                                         ELSE "blocked"
            /\ stack' = <<path>> /\ visited' = {path} /\ limited' = <<>>
            /\ opened' = opened \cup Loaded /\ UNCHANGED answer
  /\ UNCHANGED <<tree, listed>>

\* Mutant: the walk is cut at the bound, so that nothing tells it was cut.
WalkGoesOn_short == Len(limited) < MAX_FILES_WALKED

\* The bound of the islice.
WalkGoesOn == Len(limited) < MAX_FILES_WALKED + 1

\* The last directory queued is listed; one that cannot be read is passed over.
next_directory ==
  /\ stage = "walking" /\ WalkGoesOn /\ current = <<>> /\ stack # <<>>
  /\ stack' = Front(stack)
  /\ IF Last(stack) \in tree.unreadable THEN UNCHANGED <<current, listed>>
     ELSE current' = tree.entries[Last(stack)] /\ listed' = Append(listed, Last(stack))
  /\ UNCHANGED <<tree, stage, visited, limited, matches, cut, opened, answer>>

\* Mutant: a directory is confined where the search starts only.
Treatment_unconfined(entry) ==
  CASE entry.path = Loop -> "raise"
    [] entry.path \in Dirs ->
         IF entry.name \in Excluded \/ is_ignored(load, entry, TRUE) \/ entry.path \in visited
           THEN "skip" ELSE "descend"
    [] entry.path \in Outside \ Dirs -> "skip"
    [] OTHER -> IF is_ignored(load, entry, FALSE) THEN "skip" ELSE "yield"

\* What the walk does with an entry: every one is resolved and confined before anything else.
Treatment(entry) ==
  CASE entry.path = Loop -> "raise"
    [] entry.path \in Outside -> "skip"
    [] entry.path \in Dirs \ Outside ->
         IF entry.name \in Excluded \/ is_ignored(load, entry, TRUE) \/ entry.path \in visited
           THEN "skip" ELSE "descend"
    [] OTHER -> IF is_ignored(load, entry, FALSE) THEN "skip" ELSE "yield"
visit_entry ==
  /\ stage = "walking" /\ WalkGoesOn /\ current # <<>>
  /\ current' = Tail(current)
  /\ LET entry == Head(current) IN
       CASE Treatment(entry) = "raise" ->
              /\ stage' = "answered" /\ answer' = Raised
              /\ UNCHANGED <<stack, visited, limited>>
         [] Treatment(entry) = "skip" -> UNCHANGED <<stage, answer, stack, visited, limited>>
         [] Treatment(entry) = "descend" ->
              /\ visited' = visited \cup {entry.path} /\ stack' = Append(stack, entry.path)
              /\ UNCHANGED <<stage, answer, limited>>
         [] Treatment(entry) = "yield" ->
              /\ limited' = Append(limited, entry.path)
              /\ UNCHANGED <<stage, answer, stack, visited>>
  /\ UNCHANGED <<tree, matches, cut, listed, opened>>

Rank(path) == CHOOSE i \in DOMAIN PathOrder : PathOrder[i] = path

\* The rearrangement of some paths in their order.
sorted(paths) ==
  {[i \in DOMAIN paths |-> paths[order[i]]] : order \in {f \in Bijection(DOMAIN paths, DOMAIN paths) :
     \A i, j \in DOMAIN paths : i < j => Rank(paths[f[i]]) <= Rank(paths[f[j]])}}

\* limited is cut to its bound, then sorted.
walk_ends ==
  /\ stage = "walking"
  /\ ~ WalkGoesOn \/ (current = <<>> /\ stack = <<>>)
  /\ cut' = (Len(limited) > MAX_FILES_WALKED)
  /\ limited' \in sorted(SubSeq(limited, 1, Min({Len(limited), MAX_FILES_WALKED})))
  /\ stage' = "scanning"
  /\ UNCHANGED <<tree, stack, current, visited, matches, listed, opened, answer>>

\* A match: its file, its line, and the characters of it that are kept.
Shown(path, i) == <<path, i, Min({Lines[path][i], MAX_MATCH_LINE_CHARS})>>

\* Matches of one file, up to the bound of the whole search.
Found(path) ==
  SubSeq([i \in DOMAIN Lines[path] |-> Shown(path, i)], 1,
         Min({Len(Lines[path]), MAX_SEARCH_MATCHES - Len(matches)}))

\* A file that cannot be read is passed over; a FIFO is waited for.
scan_file_for_matches ==
  /\ stage = "scanning" /\ limited # <<>> /\ Len(matches) < MAX_SEARCH_MATCHES
  /\ limited' = Tail(limited)
  /\ LET path == Head(limited) IN
       CASE path \in Broken \cup tree.unreadable -> UNCHANGED <<stage, matches, opened>>
         [] path \in Fifos \ tree.unreadable -> stage' = "blocked" /\ UNCHANGED <<matches, opened>>
         [] path \in Files \ tree.unreadable ->
              /\ matches' = matches \o Found(path) /\ opened' = opened \cup {path}
              /\ UNCHANGED stage
  /\ UNCHANGED <<tree, stack, current, visited, cut, listed, answer>>

\* The scan ends with the files or, at once, with as many matches as there may be.
search_ends ==
  /\ stage = "scanning" /\ (limited = <<>> \/ Len(matches) >= MAX_SEARCH_MATCHES)
  /\ stage' = "answered"
  /\ answer' = Executed(matches, cut \/ Len(matches) >= MAX_SEARCH_MATCHES)
  /\ UNCHANGED <<tree, search, listed, opened>>

WorkspaceInit ==
  /\ tree \in Trees
  /\ stage = "idle" /\ stack = <<>> /\ current = <<>> /\ visited = {} /\ limited = <<>>
  /\ matches = <<>> /\ cut = FALSE /\ listed = <<>> /\ opened = {} /\ answer = Ends("none")

search_steps ==
  next_directory \/ visit_entry \/ walk_ends \/ scan_file_for_matches \/ search_ends

-----------------------------------------------------------------------------
(* What a search should find, without a walk.                              *)

DescendsTo(d) ==
  {e.path : e \in {e \in ToSet(tree.entries[d]) :
     /\ e.path \in Dirs \ Outside
     /\ e.name \notin Excluded /\ ~ is_ignored(load, e, TRUE)}}

\* The least set of directories that has the start and what it leads to.
Reached(start) ==
  {d \in Dirs : \A S \in SUBSET Dirs :
     (start \in S /\ \A r \in S \ tree.unreadable : DescendsTo(r) \subseteq S) => d \in S}

\* The regular files a search that starts at a path is about.
Eligible(start) ==
  IF start \in Files THEN {start} \ tree.unreadable
  ELSE {e.path : e \in {e \in UNION {ToSet(tree.entries[d]) : d \in Reached(start) \ tree.unreadable} :
          e.path \in Files \ (Outside \cup tree.unreadable) /\ ~ is_ignored(load, e, FALSE)}}

\* The lines it is about, whole.
AllMatches(start) ==
  UNION {{<<file, i, Lines[file][i]>> : i \in DOMAIN Lines[file]} : file \in Eligible(start)}
=============================================================================
