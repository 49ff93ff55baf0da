\* Two threads call the client at the same time.
SPECIFICATION Spec
CONSTANTS
  Calls = {c1, c2}
  Shared = TRUE
  Environment <- Quiet
  Asserts = FALSE
  Pending = Pending
  Raised = Raised
  Null = Null
INVARIANT
  OwnReply
CHECK_DEADLOCK FALSE
