SPECIFICATION Spec
CONSTANTS
  inspect = inspect
  implement = implement
  Items <- MCItems
  Graphs <- ControllerGraphs
  Humans = {h1}
  Owners = {o1, o2}
  Verifier = verifier
  NoOne = NoOne
  Triggers <- ProductTriggers
  Validated = TRUE
  MaxAttempts <- Attempts2
  MaxGrants <- Grants2
  MaxDelegations <- Delegations1
  MaxHandoffs <- Handoffs1
INVARIANTS
  ChangesRequestedIsHardStop
CHECK_DEADLOCK FALSE
