----------------------------- MODULE MCProfiles -----------------------------
(* A small instance of Profiles for TLC: a root with two directories, two  *)
(* files, a FIFO and links of every kind; all trees have some of them.     *)
EXTENDS Profiles

CONSTANTS
  root, sub, git, out,        \* directories; out is not below the root
  fone, ftwo, fout, rules,    \* files; ftwo is in sub, fout in out, rules is a .gitignore
  pipe, gone                  \* a FIFO, and the path of a broken link

Entry(name, path) == [name |-> name, path |-> path]

\* All the entries, in the order of their names.
RootEntries == <<Entry(".git", git), Entry("again", ftwo), Entry("away", out), Entry("awol", fout),
                 Entry("dead", gone), Entry("one", fone), Entry("pipe", pipe), Entry("sub", sub),
                 Entry("twist", Loop)>>
SubEntries == <<Entry("hidden", git), Entry("two", ftwo), Entry("up", root)>>

Only(entries, names) == SelectSeq(entries, LAMBDA e : e.name \in names)
Always == {".git", "one", "sub"}

\* A .gitignore beside them: the file itself, a link to a file outside, a FIFO.
WithIgnore(entries, at) ==
  <<Head(entries)>> \o [i \in 1 .. Cardinality(at) |-> Entry(".gitignore", CHOOSE p \in at : TRUE)]
    \o Tail(entries)

Line(pattern, negate, dir_only, leading, embedded) ==
  [pattern |-> pattern, negate |-> negate, dir_only |-> dir_only,
   leading |-> leading, embedded |-> embedded]
Gitignores ==
  {[at |-> {}, lines |-> <<>>], [at |-> {pipe}, lines |-> <<>>]}
  \cup {[at |-> {rules}, lines |-> g] : g \in
     {<<Line({}, FALSE, FALSE, FALSE, FALSE), Line({"sub", "two"}, FALSE, TRUE, FALSE, FALSE)>>,
      <<Line({"two", "again"}, FALSE, FALSE, FALSE, FALSE), Line({ftwo}, TRUE, FALSE, FALSE, TRUE)>>}}
  \cup {[at |-> {fout}, lines |-> <<Line({ftwo, sub}, FALSE, FALSE, TRUE, TRUE)>>]}

MCTrees ==
  {[entries |-> root :> WithIgnore(Only(RootEntries, Always \cup r), g.at)
                @@ sub :> Only(SubEntries, {"two"} \cup s)
                @@ git :> <<Entry("conf", fone)>> @@ out :> <<Entry("fout", fout)>>,
    unreadable |-> u, gitignore |-> g.lines] :
     r \in {n \in SUBSET {"again", "away", "awol", "dead", "pipe", "twist"} : Cardinality(n) <= 2},
     s \in SUBSET {"hidden", "up"}, u \in {{}, {fone}, {sub}}, g \in Gitignores}

MCPathOrder == <<root, git, rules, fone, gone, out, fout, pipe, sub, ftwo>>
MCSize == fone :> 2 @@ ftwo :> 3 @@ fout :> 1 @@ rules :> 1
MCLines == fone :> <<1>> @@ ftwo :> <<3, 2>> @@ fout :> <<1>> @@ rules :> <<>>

PathsAsked == {Absent, Scalar, Absolute, Null, Loop, root, sub, git, out, fone, ftwo, fout, pipe, gone}

Observe(kind, path, pattern) ==
  [kind |-> kind, path |-> path, pattern |-> pattern, consequence |-> "low", artifact |-> NoCode]
Run(kind, consequence, artifact) ==
  [kind |-> kind, path |-> Absent, pattern |-> Absent, consequence |-> consequence,
   artifact |-> artifact]

Claimed(path, content) == [path |-> path, content |-> content]
Code(text, prints, ends, decodable, wrote, claims) ==
  [text |-> text, prints |-> prints, ends |-> ends, decodable |-> decodable,
   wrote |-> [n \in Names |-> wrote], claims |-> claims]

Artifacts ==
  {NoCode}
  \cup {Code(t, p, e, d, Nothing, <<>>) : t \in {"plain", "null", "long"}, p \in {0, 2, 3},
                                          e \in Endings, d \in BOOLEAN}
  \cup {Code("plain", 0, "returns", TRUE, w, c) :
          w \in Contents \cup {Nothing, "directory", "binary"},
          c \in {<<>>} \cup {<<Claimed(n, x)>> : n \in Names, x \in Contents}
                \cup {<<Claimed(n, x), Claimed(n, y)>> : n \in Names, x \in Contents, y \in Contents}}

MCIntents ==
  {Observe(k, p, "fits") : k \in {"read_file", "list_directory"}, p \in PathsAsked}
  \cup {Observe("search_repository", p, "fits") : p \in PathsAsked}
  \cup {Observe("search_repository", p, x) : p \in {root, out}, x \in {Absent, "invalid", "overflowing"}}
  \cup {Run(k, c, a) : k \in {"run_artifact"}, c \in {"low", "high", "privileged", "unheard"}, a \in Artifacts}
  \cup {Run("write_file", "low", NoCode), Run("erase", "low", NoCode)}
=============================================================================
