SPECIFICATION Spec
CONSTANTS
  Operators = {o1}
  Runner = runner
  Nobody = Nobody
  Kinds = {"artifact", "head"}
  MaxApprovals = 2
  MaxFaults = 1
INVARIANTS
  DoneIsReadBack
CHECK_DEADLOCK FALSE
