CONSTANTS
  Users = {u1}
  Tokens = {t1, t2, t3, t4}
  Requests = {r1, r2}
  RefreshTTL = 1
  MaxSkew = 0
  MaxTime = 0
  Faults = FALSE
  Nobody = Nobody
  NoToken = NoToken
  NoUser = NoUser
  Unopened = Unopened
  Closed = Closed
SPECIFICATION Spec
INVARIANTS
  LogoutEndsFamily
