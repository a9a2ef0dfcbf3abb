SPECIFICATION Spec
CONSTANTS
  Users = {u1}
  Orgs = {o1}
  Projects = {p1, p2}
  Slugs = {s1}
  Names = {n1, n2}
  Requests = {r1}
  u1 = u1
  o1 = o1
  p1 = p1
  p2 = p2
  s1 = s1
  n1 = n1
  n2 = n2
  r1 = r1
  Nil = Nil
  Ops = {"register_organization", "create_project", "update_project", "delete_project"}
  RedisMayFail = FALSE
SYMMETRY Symmetry
INVARIANTS
  NameCheckIsComplete
