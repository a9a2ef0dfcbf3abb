SPECIFICATION FairSpec
CONSTANTS
  Keys <- AllKeys
  Warm <- NoKeys
  ViewOrder <- ReadsOfUsers
  BumpOrder <- InvalidatesOfWrites
  Writes = {"remove_member"}
  Readers = {r1, r2}
  r1 = r1
  r2 = r2
  Nil = Nil
PROPERTIES
  StaleEntriesExpire
