SPECIFICATION FairSpec
CONSTANTS
  t1 = t1  t2 = t2  t3 = t3  p1 = p1  p2 = p2  m1 = m1  m2 = m2  m3 = m3  a = a  b = b
  Call = {c1, c2, c3, c4}
  Thread = {t1, t2, t3}
  Process = {p1, p2}
  Manager = {m1, m3}
  Identity = {a, b}
  Requests <- HierarchyRequests
  ThreadProcess <- MCThreadProcess
  ManagerProcess <- MCManagerProcess
  PathKey <- MCPathKey
  HandOver = {}
  SinkMayPanic = TRUE
  MaxEntries = 2
  SlotReuse = FALSE
  NoThread = NoThread
  NoRequest = NoRequest
  NoIdentity = NoIdentity
INVARIANTS
  NoWaitCycle
  RejectNeverWaitsOnOwnProcess
PROPERTY EveryBlockingCallReturns
