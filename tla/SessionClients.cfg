CONSTANTS
  Requests = {r1, r2}
  Tokens = {t1, t2, t3}
  Grants = {g1}
  AccessTTL = 1
  MaxSkew = 1
  MaxTime = 2
  MaxChanges = 1
  NoToken = NoToken
  Unopened = Unopened
  Closed = Closed
SYMMETRY Symmetry
SPECIFICATION MCSpec
INVARIANTS
  TypeOK
  AccessEndsWithSession
  AccessEndsWithUser
  DecisionsAreRecent
  SerialClientKeepsSession
