SPECIFICATION FairSpec
CONSTANTS
  c1 = c1
  c2 = c2
  Callers = {c1, c2}
  Kinds = {"http", "grpc"}
  MaxAttempts = 2
  Threshold = 2
  MaxCalls = 4
INVARIANT TypeOK
INVARIANT AppliedOnceUpstream
INVARIANT TripsOnFailedCalls
PROPERTY CallsReturn
CHECK_DEADLOCK FALSE
