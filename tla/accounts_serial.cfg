SPECIFICATION Spec
CONSTANTS
  Emails = {e1, e2}
  Passwords = {p1, p2}
  Browsers = {b1, b2}
  Tokens = {t1, t2, t3}
  Identities = {i1, i2}
  Requests = {r1}
  e1 = e1
  e2 = e2
  p1 = p1
  p2 = p2
  b1 = b1
  b2 = b2
  t1 = t1
  t2 = t2
  t3 = t3
  i1 = i1
  i2 = i2
  r1 = r1
  Nil = Nil
  Ops = {"register_user", "auth_google", "login", "refresh_token", "logout", "update_password"}
SYMMETRY Symmetry
INVARIANTS
  TypeOK
  OneLiveToken
  LogoutEndsSession
  LatestPasswordCounts
