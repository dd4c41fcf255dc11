CONSTANTS
  A = A  B = B  code = code  none = none  low = low  high = high
  Absent = Absent  Null = Null  Scalar = Scalar  Unhashable = Unhashable  Empty = Empty
  Kinds <- MCKinds
  Payloads = {A, B, none}
  Consequences = {low, high}
  Artifacts = {code}
  CODE_BEARING_KINDS <- MCCodeBearing
  consequence_is_load_bearing = FALSE
  Completions <- MCCompletions
  max_operations_per_turn_safety_net = 3
  repeated_operation_limit = 2
  max_parse_retries_per_turn = 1
  SinkMayFail = TRUE
  MaxTurns = 2
SPECIFICATION SessionSpec
SYMMETRY Symmetry
INVARIANTS SessionTypeOK HistoryIsWhole TruthfulReport TurnBounded
INVARIANTS LoopsAreDetected IntegrityEndsTurn LogAhead OperatorSeesTurn
CHECK_DEADLOCK FALSE
