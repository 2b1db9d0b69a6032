SPECIFICATION FairSpec
CONSTANTS
  q1 = q1  q2 = q2  q3 = q3  a = a
  Request = {q1, q2, q3}
  Limit = 2
  Identity = {a}
  Wants <- MCWants
  Rejects = {q1, q2}
  NoIdentity = NoIdentity
CHECK_DEADLOCK FALSE
INVARIANTS
  TypeOK
  PermitsCounted
  ReservationSpan
  EventsTellOwnership
PROPERTIES
  ImplementsPermits
  ImplementsExclusiveLock
  AbandonedOwesNothing
  PermitsComeBack
