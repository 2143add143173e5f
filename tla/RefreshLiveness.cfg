CONSTANTS
  Users = {u1}
  Tokens = {1, 2, 3}
  Requests = {r1, r2}
  RefreshTTL = 1
  MaxSkew = 0
  MaxTime = 0
  Faults = FALSE
  Nobody = Nobody
  NoToken = NoToken
  NoUser = NoUser
  Unopened = Unopened
  Closed = Closed
ACTION_CONSTRAINT StoreInOrder
SPECIFICATION FairSpec
PROPERTIES
  EveryRequestIsAnswered
