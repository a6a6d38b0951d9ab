SPECIFICATION FairSpec
CONSTANTS
  Operators = {o1}
  Runner = runner
  Nobody = Nobody
  Kinds = {"artifact", "head"}
  MaxApprovals = 2
  MaxFaults = 1
INVARIANTS
  ProtocolTypeOK
  IntentBeforeEffect
  DeniedStaysDenied
  EndsTogether
  OnePublication
  HeadDoneAfterReadback
CHECK_DEADLOCK FALSE
PROPERTIES
  StepsAreServiceCalls
  RequestsEnd
  ApprovedIsSettled
