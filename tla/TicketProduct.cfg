SPECIFICATION Spec
CONSTANTS
  inspect = inspect
  implement = implement
  Items <- MCItems
  Graphs <- ControllerGraphs
  Humans = {h1}
  Owners = {o1, o2}
  Verifier = verifier
  NoOne = NoOne
  Triggers <- ProductTriggers
  Validated = FALSE
  MaxAttempts <- Attempts2
  MaxGrants <- Grants2
  MaxDelegations <- Delegations2
  MaxHandoffs <- Handoffs2
INVARIANTS
  TypeOK
  MutatorsKeepQueueValid
  FreshAuthorizationPerAttempt
  OneOpenAttempt
  RunningDelegationHoldsClaim
  ReworkCarriesFindings
PROPERTIES
  EarlierAttemptsFrozen
  ClaimNeverStolen
CHECK_DEADLOCK FALSE
