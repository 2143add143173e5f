CONSTANTS
  Users = {u1}
  Tokens = {t1, t2, t3}
  Requests = {r1, r2}
  RefreshTTL = 1
  MaxSkew = 1
  MaxTime = 1
  Faults = TRUE
  Nobody = Nobody
  NoToken = NoToken
  NoUser = NoUser
  Unopened = Unopened
  Closed = Closed
SYMMETRY Symmetry
SPECIFICATION Spec
PROPERTIES
  ImplementsTokenFamilies
  RefreshShortensByAtMostSkew
