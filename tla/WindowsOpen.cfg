SPECIFICATION Spec
CONSTANTS
  o1 = o1  o2 = o2  o3 = o3
  Opener = {o1, o2, o3}
  Private = {o1, o2}
  Users <- MCUsers
  Lists <- MCLists
  Administrator <- LocalAdministrator
  Guest <- LocalGuest
  MaxResets = 1
  Absent = Absent
CHECK_DEADLOCK FALSE
INVARIANTS
  TypeOK
  DirectoryMeansPrivate
  FileStaysProtected
  NoSpuriousRefusal
