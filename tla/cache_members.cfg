SPECIFICATION Spec
CONSTANTS
  Keys <- AllKeys
  Warm <- AllKeys
  ViewOrder <- ReadsOfMembers
  BumpOrder <- InvalidatesOfWrites
  Writes = {"remove_member", "add_project_member"}
  Readers = {r1, r2}
  r1 = r1
  r2 = r2
  Nil = Nil
SYMMETRY Symmetry
INVARIANTS
  TypeOK
  StaleEntriesAreUnreachable
PROPERTIES
  Implements
