SPECIFICATION Spec
CONSTANTS
  t1 = t1  t2 = t2  t3 = t3  p1 = p1  p2 = p2  m1 = m1  m2 = m2  m3 = m3  a = a  b = b
  Call = {c1, c2}
  Thread = {t1}
  Process = {p1}
  Manager = {m1, m2}
  Identity = {a, b}
  Requests <- TwoManagerRequests
  ThreadProcess <- MCThreadProcess
  ManagerProcess <- MCManagerProcess
  PathKey <- MCPathKey
  HandOver = {}
  SinkMayPanic = FALSE
  MaxEntries = 2
  SlotReuse = TRUE
  NoThread = NoThread
  NoRequest = NoRequest
  NoIdentity = NoIdentity
INVARIANT RejectNeverWaitsOnOwnProcess
