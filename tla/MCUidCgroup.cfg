CONSTANTS
  d1 = d1  d2 = d2  d3 = d3  x = x  y = y  nx = nx  ny = ny
  None = None
  Dispatches = {d1, d2, d3}
  ExecutionIds = {x, y}
  Usernames = {nx, ny}
  ExecutionId <- MCExecutionId
  Username <- MCUsername
  SafeIds = {x, y}
  Forking = {d1}
  UidMin = 1
  UidMax = 2
SPECIFICATION FairSpec
INVARIANTS TypeOK UidIdentifiesExecution UserKept BodyConfined TryReleases
PROPERTY Settles
CHECK_DEADLOCK FALSE
