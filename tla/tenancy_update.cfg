SPECIFICATION Spec
CONSTANTS
  Users = {u1}
  Orgs = {o1, o2}
  Projects = {p1}
  Slugs = {s1, s2}
  Names = {n1}
  Requests = {r1}
  u1 = u1
  o1 = o1
  o2 = o2
  p1 = p1
  s1 = s1
  s2 = s2
  n1 = n1
  r1 = r1
  Nil = Nil
  Ops = {"register_organization", "update_organization"}
  RedisMayFail = FALSE
SYMMETRY Symmetry
PROPERTIES
  UpdateChangesOwnOrg
