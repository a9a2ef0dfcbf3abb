SPECIFICATION FairSpec
CONSTANTS
  Users = {u1, u2}
  Projects = {p1}
  Txns = {t1, t2, t3}
  u1 = u1
  u2 = u2
  p1 = p1
  t1 = t1
  t2 = t2
  t3 = t3
  Nil = Nil
  Start <- Populated
  Ops = {"delete_organization", "remove_member", "delete_project", "add_project_member", "remove_project_member"}
CHECK_DEADLOCK FALSE
INVARIANTS
  TypeOK
PROPERTIES
  WritesAreAtomic
  EveryTransactionEnds
