CONSTANTS
  Requests = {r1, r2}
  MaxConns = 1
SPECIFICATION FairSpec
INVARIANTS
  TypeOK
  GracefulExitLosesNothing
  EventsTellReplies
PROPERTIES
  EveryRequestEnds
  SignalEndsProcess
