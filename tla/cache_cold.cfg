SPECIFICATION Spec
CONSTANTS
  Keys <- AllKeys
  Warm <- NoKeys
  ViewOrder <- ReadsOfMembers
  BumpOrder <- InvalidatesOfWrites
  Writes = {"remove_project_member"}
  Readers = {r1, r2}
  r1 = r1
  r2 = r2
  Nil = Nil
SYMMETRY Symmetry
PROPERTIES
  Implements
