CONSTANTS
  requester = requester  probe = probe  other = other  path = path  socket = socket
  None = None
  Mediated = {probe, other}
  Direct = {requester}
  Requester = requester
  Probe = probe
  Kind <- MCKind
  AuthorizedKinds = {"run_artifact"}
  FaultSets <- MCFaultSets
  Paths = {path}
  Sockets = {socket}
  Deployments <- MCDeployments
  Enforced = TRUE
SPECIFICATION FairSpec
INVARIANTS TypeOK AnswerMatchesCluster VerdictIsSound
PROPERTY Ends
CHECK_DEADLOCK FALSE
