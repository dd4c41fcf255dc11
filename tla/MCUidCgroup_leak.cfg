CONSTANTS
  d1 = d1  d2 = d2  d3 = d3  x = x  y = y  nx = nx  ny = ny
  None = None
  Dispatches = {d1}
  ExecutionIds = {x, y}
  Usernames = {nx, ny}
  ExecutionId <- MCExecutionId
  Username <- MCUsername
  SafeIds = {y}
  Forking = {d1}
  UidMin = 1
  UidMax = 2
SPECIFICATION Spec
INVARIANT ReleasesOnEveryExit
CHECK_DEADLOCK FALSE
