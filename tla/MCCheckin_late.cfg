CONSTANTS
  e1 = e1  e2 = e2  u1 = u1  u2 = u2
  NoUid = NoUid
  Executions = {e1}
  Uids = {u1, u2}
  ExpectedUid <- MCExpectedUid
SPECIFICATION Spec
INVARIANT NoEffectOnFailedCheckin
CHECK_DEADLOCK FALSE
