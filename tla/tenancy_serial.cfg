SPECIFICATION Spec
CONSTANTS
  Users = {u1, u2}
  Orgs = {o1, o2}
  Projects = {p1}
  Slugs = {s1, s2}
  Names = {n1}
  Requests = {r1}
  u1 = u1
  u2 = u2
  o1 = o1
  o2 = o2
  p1 = p1
  s1 = s1
  s2 = s2
  n1 = n1
  r1 = r1
  Nil = Nil
  Ops = {"register_organization", "update_organization", "delete_organization", "add_member", "remove_member", "create_project", "update_project", "delete_project", "add_project_member", "remove_project_member"}
  RedisMayFail = FALSE
SYMMETRY Symmetry
INVARIANTS
  ProjectMembersBelong
  DeletedIsEmpty
  SlugsUnique
PROPERTIES
  CallsAreAtomic
  DeletedOrgIsRefused
