\* Three calls by one thread; the connection may be refused, break or deliver
\* a reply the parser rejects.  Or three messages to a user whose mailbox holds
\* two, one to a key of the wrong type, two receives.  Or the process around
\* them, from main() to its end, with two HTTP threads.
SPECIFICATION DatabaseSpec
CONSTANTS
  Calls = {c1, c2, c3}
  Shared = FALSE
  Environment <- Hostile
  Asserts = FALSE
  Pending = Pending
  Raised = Raised
  Null = Null
  m1 = m1  m2 = m2  m3 = m3  m4 = m4
  alice = alice  bob = bob
  Tokens = {alice, bob}
  Messages = {m1, m2, m3, m4}
  ToOf <- ToBoth
  WrongType = {bob}
  Cap = 2
  MaxRecv = 2
  HttpThreads = {w1, w2}
  DebugBuild = FALSE
  Failures = {"refuse", "break"}
  MaxCommands = 4
INVARIANTS
  OwnReply
  OverflowIsTrimmed
  ResponseInOrder
  LostOnlyInWindow
PROPERTIES
  EveryCallReturns
  OverflowEnds
  ServerStops
CHECK_DEADLOCK FALSE
