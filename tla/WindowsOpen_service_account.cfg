SPECIFICATION Spec
CONSTANTS
  o1 = o1  o2 = o2  o3 = o3
  Opener = {o1, o2, o3}
  Private = {o1, o2}
  Users <- ServiceUsers
  Lists <- MCLists
  Administrator <- LocalAdministrator
  Guest <- LocalGuest
  MaxResets = 0
  Absent = Absent
CHECK_DEADLOCK FALSE
INVARIANTS
  NoSpuriousRefusal
