CONSTANTS
  e1 = e1  e2 = e2  u1 = u1  u2 = u2
  NoUid = NoUid
  Executions = {e1, e2}
  Uids = {u1, u2}
  ExpectedUid <- MCExpectedUid
SPECIFICATION FairSpec
INVARIANTS TypeOK NonceIsItsChilds EffectAttributed NothingOutlivesRun
PROPERTIES NoLateAnswer Settles ImplementsAttestation
CHECK_DEADLOCK FALSE
