CONSTANTS
  Users = {u1, u2}
  Tokens = {t1, t2, t3}
  Requests = {r1, r2, r3}
  RefreshTTL = 1
  MaxSkew = 0
  MaxTime = 0
  Faults = FALSE
  Nobody = Nobody
  NoToken = NoToken
  NoUser = NoUser
  Unopened = Unopened
  Closed = Closed
SYMMETRY Symmetry
SPECIFICATION Spec
INVARIANTS
  TypeOK
  OneLiveTokenPerFamily
  RotationActsOnCurrentState
  ReuseReplyMeansFamilyDead
  RevokedUnusedMeansFamilyDead
  DeadlockNeedsRevocation
PROPERTIES
  LockShieldsUser
