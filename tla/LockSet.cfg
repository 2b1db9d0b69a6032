SPECIFICATION FairSetSpec
CONSTANTS
  t1 = t1  t2 = t2  t3 = t3  p1 = p1  p2 = p2  m1 = m1  m3 = m3  a = a  b = b  d = d
  c1 = c1  c2 = c2  c3 = c3  c4 = c4  c5 = c5  c6 = c6  c7 = c7  c8 = c8  c9 = c9
  Call = {c1, c2, c3, c4, c5, c6, c7, c8, c9}
  Thread = {t1, t2, t3}
  Process = {p1, p2}
  Manager = {m1, m3}
  Identity = {a, b, d}
  Requests <- MCRequests
  ThreadProcess <- MCThreadProcess
  ManagerProcess <- MCManagerProcess
  PathKey <- MCPathKey
  LockSets <- MCLockSets
  Slots <- MCSlots
  HandOver = {}
  SinkMayPanic = FALSE
  MaxEntries = 2
  SlotReuse = FALSE
  NoThread = NoThread
  NoRequest = NoRequest
  NoIdentity = NoIdentity
CHECK_DEADLOCK FALSE
INVARIANTS
  SetTypeOK
  AllOrNothing
  NoWaitCycle
  SetsPassOrderCheck
  DeterministicOrder
PROPERTIES
  ReleasedInReverse
  SetsReturn
