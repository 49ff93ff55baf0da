\* A client that sends its second request before it has read the first response.
SPECIFICATION Spec
CONSTANTS
  Conns = {c1}
  Workers = 1
  Kinds = {"plain"}
  MaxRequests = 2
  Tick = 1
  Room = 2
  Environment = {"pipeline"}
  None = None
INVARIANTS
  OwnResponses
CHECK_DEADLOCK FALSE
