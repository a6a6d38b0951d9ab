SPECIFICATION GateSpec
CONSTANTS
  inspect = inspect
  implement = implement
  Items <- MCItems
  Graphs <- MCGraphs
  Humans = {h1}
  Owners = {o1}
  Verifier = verifier
  NoOne = NoOne
  NoItem = NoItem
  NoPR = NoPR
  PullRequests = {p1, p2}
  Triggers <- ControllerTriggers
  Validated = FALSE
  MaxAttempts <- Two
  MaxGrants <- Two
  MaxDelegations <- Zero
  MaxHandoffs <- Two
  MaxReviews <- Two
  MaxApprovals = 1
INVARIANTS
  GateTypeOK
  GuardsKeepGateValid
  DeliveredIsApprovedWork
  DoneOnlyByApprovedDelivery
PROPERTIES
  RemoteResultKept
  DecisionsAreFinal
CHECK_DEADLOCK FALSE
