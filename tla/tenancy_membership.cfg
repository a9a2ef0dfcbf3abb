SPECIFICATION Spec
CONSTANTS
  Users = {u1, u2, u3}
  Orgs = {o1}
  Projects = {p1}
  Slugs = {s1}
  Names = {n1}
  Requests = {r1, r2}
  u1 = u1
  u2 = u2
  u3 = u3
  o1 = o1
  p1 = p1
  s1 = s1
  n1 = n1
  r1 = r1
  r2 = r2
  Nil = Nil
  Ops = {"register_organization", "delete_organization", "add_member", "remove_member"}
  RedisMayFail = FALSE
SYMMETRY Symmetry
INVARIANTS
  TypeOK
  CachedRoleIsCurrent
PROPERTIES
  DeletionIsFinal
  OwnersComeFromOwners
