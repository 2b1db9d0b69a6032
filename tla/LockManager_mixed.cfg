SPECIFICATION Spec
CONSTANTS
  t1 = t1  t2 = t2  t3 = t3  p1 = p1  p2 = p2  m1 = m1  m2 = m2  m3 = m3  a = a  b = b
  Call = {c1, c2, c3}
  Thread = {t1, t2, t3}
  Process = {p1, p2}
  Manager = {m1, m3}
  Identity = {a, b}
  Requests <- MixedRequests
  ThreadProcess <- MCThreadProcess
  ManagerProcess <- MCManagerProcess
  PathKey <- MCPathKey
  HandOver <- OneThreadPairs
  SinkMayPanic = FALSE
  MaxEntries = 2
  SlotReuse = TRUE
  NoThread = NoThread
  NoRequest = NoRequest
  NoIdentity = NoIdentity
SYMMETRY CallSymmetry
INVARIANTS
  TypeOK
  MutualExclusion
  GuardsHoldTheirDescriptors
  ReservationAccounting
  RegistrationSurvives
  OrderedWaits
PROPERTY ImplementsExclusiveLock
