SPECIFICATION FairSpec
CONSTANTS
  Requests = {r1, r2, r3}
  r1 = r1
  r2 = r2
  r3 = r3
  Nil = Nil
  PoolSize = 2
  Paths = {"login", "auth_google_new", "add_member", "update_password"}
CHECK_DEADLOCK FALSE
INVARIANTS
  TypeOK
  ConnectionsReturned
  TrailIsTrue
  TrailIsComplete
  CommittedWaitWithoutHolding
PROPERTIES
  EveryRequestEnds
