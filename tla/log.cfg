\* The queue, the worker behind it and the file sinks of spdlog.
SPECIFICATION LogSpec
CONSTANTS
  Enqueuers = {e1, e2}
  Dequeuers = {d1}
  Data = {a, b}
  NoData = noData
  NoThread = noThread
  BufferSize = 2
  MaxEnqueues = 3
  Callers = {t1, t2}
  WorkerThread = w
  Nobody = nobody
  NoMessage = noMessage
  Places = 2
  SinkCount = 2
  Policies = {"block_retry", "discard_log_msg"}
  MaxCalls = 3
  MaxThrows = 1
  LogThreads = {l1, l2}
  NoLogThread = noLogThread
  Kinds = {"simple", "rotating", "daily"}
  MessageSizes = {1, 2}
  MaxSize = 2
  MaxFiles = 2
  DayLength = 2
  RotationTick = 1
  MaxMessages = 4
  MaxCrashes = 1
  MaxFlushes = 1
  MaxClock = 3
CHECK_DEADLOCK FALSE
INVARIANTS
  WrittenAsLogged
  NothingLeftBehind
  FlushCoversWhatWasLogged
  KeptInOrder
  OneDayPerFile
PROPERTIES
  ImplementsBoundedQueue
  DestructorReturns
