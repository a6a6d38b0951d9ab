SPECIFICATION Spec
CONSTANTS
  inspect = inspect
  implement = implement
  Items <- MCItems
  Graphs <- ReplannedGraphs
  Humans = {h1}
  Owners = {o1, o2}
  Verifier = verifier
  NoOne = NoOne
  Triggers <- ControllerTriggers
  Validated = FALSE
  MaxAttempts <- Attempts2
  MaxGrants <- Grants2
  MaxDelegations <- Delegations1
  MaxHandoffs <- Handoffs2
INVARIANTS
  MutatorsKeepQueueValid
  ChangesRequestedIsHardStop
CHECK_DEADLOCK FALSE
