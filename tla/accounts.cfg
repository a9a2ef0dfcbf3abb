SPECIFICATION Spec
CONSTANTS
  Emails = {e1}
  Passwords = {p1, p2}
  Browsers = {b1}
  Tokens = {t1, t2, t3}
  Identities = {i1, i2}
  Requests = {r1, r2}
  e1 = e1
  p1 = p1
  p2 = p2
  b1 = b1
  t1 = t1
  t2 = t2
  t3 = t3
  i1 = i1
  i2 = i2
  r1 = r1
  r2 = r2
  Nil = Nil
  Ops = {"register_user", "auth_google", "login", "refresh_token", "logout", "update_password"}
SYMMETRY Symmetry
INVARIANTS
  TypeOK
  OneLiveTokenUnlessRaced
  LogoutIsFinalUnlessRaced
  LatestPasswordCounts
  ExchangesBounded
  CookieIsLive
  EveryUserCanSignIn
