CONSTANTS
  p1 = p1  p2 = p2  k1 = k1  k2 = k2  k1k2 = k1k2  low = low
  cls1 = cls1  c1 = c1  c2 = c2  i1 = i1  o1 = o1  operator = operator  alice = alice
  a1 = a1  a2 = a2
  Empty = Empty
  None = None
  Words <- MCWords
  Principals <- MCPrincipals
  Kinds <- MCKinds
  PlainKinds <- MCKinds
  Joined <- MCJoined
  Consequences = {low}
  Classes <- MCClasses
  Artifacts = {c1, c2}
  IntentIds <- MCIntentIds
  OrderIds <- MCOrderIds
  Issuers <- MCIssuers
  AuthorityIds <- MCAuthorityIds
  Depths = {1}
  Intents <- MCIntents
  Evaluate <- MCEvaluate
  NeedsArtifact <- MCClasses
  MaxOrders = 1
  MaxDecisions = 2
  MaxRuns = 1
SPECIFICATION Spec
SYMMETRY Symmetry
INVARIANTS TypeOK AttenuatedFromOrder SoundLineage RanAsMinted RanAuthorizedArtifact RanWithinOrder
CHECK_DEADLOCK FALSE
