SPECIFICATION FairSpec
CONSTANTS
  k1 = k1  k2 = k2
  Task = {k1, k2}
  NoTask = NoTask
  WakeMayPanic = TRUE
  SinkMayPanic = TRUE
\* the waiter and its thread come to their end
CHECK_DEADLOCK FALSE
INVARIANTS
  TypeOK
  OwnedOnce
  OneEnding
  NoLostWakeup
PROPERTIES
  CallsReturn
  ImplementsHandoff
