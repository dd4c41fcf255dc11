CONSTANTS
  p1 = p1  p2 = p2  k1 = k1  k2 = k2  k1k2 = k1k2  low = low
  cls1 = cls1  c1 = c1  c2 = c2  i1 = i1  o1 = o1  operator = operator  alice = alice
  a1 = a1  a2 = a2
  Empty = Empty
  None = None
  Words <- MCWords
  Principals <- MCPrincipals
  Kinds <- MCKinds
  PlainKinds <- MCKinds
  Joined <- MCJoined
  Consequences = {low}
  Classes <- MCClasses
  Artifacts = {c1}
  IntentIds <- MCIntentIds
  OrderIds <- MCOrderIds
  Issuers <- MCIssuers
  AuthorityIds <- MCAuthorityIds
  Depths = {0}
  Intents <- MCReplayIntents
  Evaluate <- MCEvaluate
  NeedsArtifact <- MCClasses
  MaxOrders = 0
  MaxDecisions = 1
  MaxRuns = 2
SPECIFICATION Spec
INVARIANT DecisionSpentOnce
CHECK_DEADLOCK FALSE
