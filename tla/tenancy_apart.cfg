SPECIFICATION Spec
CONSTANTS
  Users = {u1, u2}
  Orgs = {o1, o2}
  Projects = {p1}
  Slugs = {s1, s2}
  Names = {n1}
  Requests = {r1, r2}
  u1 = u1
  u2 = u2
  o1 = o1
  o2 = o2
  p1 = p1
  s1 = s1
  s2 = s2
  n1 = n1
  r1 = r1
  r2 = r2
  Nil = Nil
  Ops = {"register_organization", "delete_organization", "add_member", "remove_member"}
  RedisMayFail = FALSE
SYMMETRY Symmetry
CONSTRAINT Apart
INVARIANTS
  ProjectMembersBelong
  DeletedIsEmpty
  SlugsUnique
PROPERTIES
  CallsAreAtomic
  DeletedOrgIsRefused
