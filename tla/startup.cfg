\* Two HTTP threads and three asynchronous commands, a debug build as
\* CMakeLists.txt makes it, a Redis that accepts every connection and keeps it.
SPECIFICATION StartupSpec
CONSTANTS
  HttpThreads = {w1, w2}
  DebugBuild = TRUE
  Failures = {}
  MaxCommands = 3
INVARIANT
  AssertionsHold
CHECK_DEADLOCK FALSE
