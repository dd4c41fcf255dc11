CONSTANTS
  A = A  B = B  code = code  none = none  low = low  high = high
  Absent = Absent  Null = Null  Scalar = Scalar  Unhashable = Unhashable  Empty = Empty
  Kinds <- MCKinds
  Payloads = {A, B, none}
  Consequences = {low, high}
  Artifacts = {code}
  CODE_BEARING_KINDS <- MCCodeBearing
  consequence_is_load_bearing = FALSE
  Completions <- ReportCompletions
  max_operations_per_turn_safety_net = 2
  repeated_operation_limit = 2
  max_parse_retries_per_turn = 1
  SinkMayFail = FALSE
  MaxTurns = 1
SPECIFICATION SessionSpec
INVARIANTS ReportsEveryOperation
CHECK_DEADLOCK FALSE
