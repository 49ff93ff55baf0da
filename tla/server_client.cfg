\* One client that may send anything and leave, and a server with two workers.
SPECIFICATION FairSpec
CONSTANTS
  Conns = {c1}
  Workers = 2
  Kinds <- AllKinds
  MaxRequests = 2
  Tick = 1
  Room = 1
  Environment <- Hostile
  None = None
INVARIANTS
  OneWriteAtATime
  OwnResponses
  AnsweredBeforeClose
PROPERTIES
  EveryConnectionEnds
CHECK_DEADLOCK FALSE
