SPECIFICATION Spec
CONSTANTS
  Users = {u1}
  Orgs = {o1, o2}
  Projects = {p1, p2}
  Slugs = {s1}
  Names = {n1, n2}
  Requests = {r1, r2}
  u1 = u1
  o1 = o1
  o2 = o2
  p1 = p1
  p2 = p2
  s1 = s1
  n1 = n1
  n2 = n2
  r1 = r1
  r2 = r2
  Nil = Nil
  Ops = {"register_organization", "delete_organization", "create_project", "update_project", "delete_project", "add_project_member", "remove_project_member"}
  RedisMayFail = TRUE
SYMMETRY Symmetry
INVARIANTS
  ProjectNamesUnique
PROPERTIES
  TenantIsolation
