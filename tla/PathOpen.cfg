SPECIFICATION FairSpec
CONSTANTS
  o1 = o1  o2 = o2  o3 = o3
  Opener = {o1, o2, o3}
  Private = {o1, o2}
  Depth = 2
  MaxRemovals = 1
\* all openers come to their end
CHECK_DEADLOCK FALSE
INVARIANTS
  TypeOK
  OneFilePerIdentity
  PrivateRendezvous
  NoSpuriousRefusal
PROPERTY EveryOpenEnds
