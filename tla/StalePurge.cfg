CONSTANTS
  Requests = {r1, r2}
  LoginLimit = 2
  LoginWindow = 2
  MaxSkew = 0
  MaxTime = 3
  MaxRows = 4
  Faults = FALSE
  Nobody = Nobody
SPECIFICATION Spec
INVARIANTS
  FailuresPerWindow
