CONSTANTS
  root = root  sub = sub  git = git  out = out
  fone = fone  ftwo = ftwo  fout = fout  rules = rules  pipe = pipe  gone = gone
  Loop = Loop  Absent = Absent  Scalar = Scalar  Absolute = Absolute  Null = Null
  NoCode = NoCode  Nothing = Nothing
  Dirs = {root, sub, git, out}
  Files = {fone, ftwo, fout, rules}
  Fifos = {pipe}
  Broken = {gone}
  Root = root
  Outside = {out, fout}
  PathOrder <- MCPathOrder
  Excluded = {".git", "session_logs"}
  Size <- MCSize
  Lines <- MCLines
  MAX_READ_BYTES = 2
  MAX_LISTING_ENTRIES = 4
  MAX_SEARCH_MATCHES = 4
  MAX_MATCH_LINE_CHARS = 2
  MAX_FILES_WALKED = 3
  MAX_CAPTURED_OUTPUT_CHARS = 2
  Trees <- MCTrees
  Names = {"n"}
  Contents = {"x", "y"}
  Intents <- MCIntents
SPECIFICATION Spec
INVARIANTS EvidenceIsHonest Confined
CHECK_DEADLOCK FALSE
