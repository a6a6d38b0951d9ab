SPECIFICATION FairRunSpec
CONSTANTS
  inspect = inspect
  implement = implement
  NoItem = NoItem
  Runner = Runner
  Creator = Creator
  Nobody = Nobody
  Worker = o1
  Rivals = {o2}
  Waiver = waiver
  Requests = {"open", "plan"}
  Items = {inspect, implement}
  Graphs <- Graphs1
  Humans = {h1}
  Owners = {o1, o2}
  Verifier = verifier
  NoOne = NoOne
  Triggers <- ControllerTriggers
  Validated = TRUE
  MaxAttempts <- Twice
  MaxGrants <- Twice
  MaxDelegations <- Never
  MaxHandoffs <- Twice
  MaxEdits = 2
  MaxFaults = 1
INVARIANTS
  RunTypeOK
  CaptureMeetsItsSandbox
  ArtifactIsOneState
  AcceptedByReviewOrWaiver
PROPERTIES
  BlockedForCause
  CodingAgentUnrestricted
  RunsEnd
  PlanFollowsInspection
