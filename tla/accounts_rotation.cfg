SPECIFICATION Spec
CONSTANTS
  Emails = {e1}
  Passwords = {p1}
  Browsers = {b1}
  Tokens = {t1, t2, t3}
  Identities = {i1}
  Requests = {r1, r2}
  e1 = e1
  p1 = p1
  b1 = b1
  t1 = t1
  t2 = t2
  t3 = t3
  i1 = i1
  r1 = r1
  r2 = r2
  Nil = Nil
  Ops = {"auth_google", "refresh_token"}
SYMMETRY Symmetry
INVARIANTS
  OneLiveToken
