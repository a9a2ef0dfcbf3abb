SPECIFICATION Spec
CONSTANTS
  Emails = {e1}
  Passwords = {p1}
  Browsers = {b1}
  Tokens = {t1, t2, t3, t4}
  Identities = {i1, i2}
  Requests = {r1, r2}
  e1 = e1
  p1 = p1
  b1 = b1
  t1 = t1
  t2 = t2
  t3 = t3
  t4 = t4
  i1 = i1
  i2 = i2
  r1 = r1
  r2 = r2
  Nil = Nil
  Ops = {"register_user", "auth_google", "refresh_token", "logout"}
SYMMETRY Symmetry
INVARIANTS
  ExchangesBounded
  CookieIsLive
  EveryUserCanSignIn
