SPECIFICATION FairSpec
CONSTANTS
  Services = {s1, s2}
  Calls = {c1, c2, c3}
  Guarded = {c2, c3}
  NoCall = NoCall
  NoService = NoService
  Unknown = Unknown
  MaxFaults = 2
INVARIANTS
  StoreTypeOK
  GuardedCallSeesItsState
  ConflictMeansNotApplied
  AcknowledgedIsKept
PROPERTIES
  ImplementsRegister
  CallsEnd
CHECK_DEADLOCK FALSE
