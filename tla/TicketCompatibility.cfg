SPECIFICATION Spec
CONSTANTS
  inspect = inspect
  implement = implement
  Items <- MCItems
  Graphs <- UncheckedGraphs
  Humans = {h1}
  Owners = {o1}
  Verifier = verifier
  NoOne = NoOne
  Triggers <- AllTriggers
  Validated = TRUE
  MaxAttempts <- Attempts2
  MaxGrants <- Grants2
  MaxDelegations <- Delegations1
  MaxHandoffs <- Handoffs2
PROPERTIES
  CompletionIsFinal
CHECK_DEADLOCK FALSE
