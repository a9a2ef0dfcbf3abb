SPECIFICATION Spec
CONSTANTS
  Keys <- AllKeys
  Warm <- AllKeys
  ViewOrder <- ReadsOfOrgs
  BumpOrder <- InvalidatesOfWrites
  Writes = {"register_organization"}
  Readers = {r1}
  r1 = r1
  Nil = Nil
PROPERTIES
  Implements
