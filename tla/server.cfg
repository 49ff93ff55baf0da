\* Two clients of one worker: they share its timer queue and its thread.
SPECIFICATION Spec
CONSTANTS
  Conns = {c1, c2}
  Workers = 1
  Kinds = {"plain", "close"}
  MaxRequests = 1
  Tick = 2
  Room = 1
  Environment = {"leave"}
  None = None
INVARIANTS
  NothingTouchesDeleted
PROPERTIES
  NotClosedEarly
SYMMETRY Symmetry
CHECK_DEADLOCK FALSE
