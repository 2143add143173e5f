CONSTANTS
  Requests = {r1, r2}
  LoginLimit = 2
  LoginWindow = 2
  MaxSkew = 1
  MaxTime = 1
  MaxRows = 4
  Faults = TRUE
  Nobody = Nobody
SPECIFICATION FairSpec
INVARIANTS
  TypeOK
  WindowBound
  FailureExcessBounded
PROPERTIES
  EveryLoginIsAnswered
  SuccessResetsLimit
