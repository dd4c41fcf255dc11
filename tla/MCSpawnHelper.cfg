CONSTANTS
  d1 = d1  d2 = d2  i1 = i1  n1 = n1
  None = None
  Dispatches = {d1, d2}
  ExecutionIds = {i1}
  Usernames = {n1}
  ExecutionId <- MCExecutionId
  Username <- MCUsername
  UidRange <- MCUidRange
  HelperUids = {1, 2}
  Checked = {d1}
  Unprivileged = {d1}
  Oversized = {}
  IdLength <- MCIdLength
  SafeLength <- MCIdLength
  EscapedIds = {}
SPECIFICATION FairSpec
INVARIANTS TypeOK OneSpawn ConfinedBeforeCode LeafReleased
PROPERTY Settles
CHECK_DEADLOCK FALSE
