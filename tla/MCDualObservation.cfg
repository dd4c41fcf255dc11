CONSTANTS
  attempt = attempt  None = None
  Mediated = {}
  Direct = {attempt}
  Attempt = attempt
  Kind <- MCKind
  AuthorizedKinds = {}
  FaultSets = {}
  Deployments = {}
  Enforced = FALSE
SPECIFICATION FairSpec
INVARIANT AttemptIsSound
PROPERTY AttemptEnds
CHECK_DEADLOCK FALSE
