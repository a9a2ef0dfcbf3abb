SPECIFICATION Spec
CONSTANTS
  Requests = {r1, r2}
  r1 = r1
  r2 = r2
  Nil = Nil
  PoolSize = 2
  Paths = {"login", "auth_google_new", "add_member", "update_password"}
CHECK_DEADLOCK FALSE
INVARIANT
  RefusalsAreRecorded
