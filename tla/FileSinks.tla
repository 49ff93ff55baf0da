------------------------------ MODULE FileSinks -------------------------------
(***************************************************************************)
(* A synchronous spdlog logger with a file sink, used by several threads:  *)
(* the line_logger that hands its message over in its destructor           *)
(* (details/line_logger.h), base_sink's lock (sinks/base_sink.h), the      *)
(* simple, the rotating and the daily file sink (sinks/file_sinks.h) and   *)
(* the file below them (details/file_helper.h), step by step where the     *)
(* file system is concerned.                                               *)
(*                                                                         *)
(* A sink that throws does so inside the destructor of a line_logger,      *)
(* which C++ makes noexcept: the program ends (std::terminate), and what   *)
(* the C library had not yet written is lost, as in any other crash.  It   *)
(* is then started again and opens the same files.                         *)
(*                                                                         *)
(* Messages under the logger's level are not modelled: nothing is done     *)
(* with them.                                                              *)
(***************************************************************************)
EXTENDS Naturals, Sequences, FiniteSets, Functions

CONSTANTS LogThreads, NoLogThread,
          Kinds,         \* of sink: "simple", "rotating", "daily"
          MessageSizes,
          MaxSize,       \* _max_size of the rotating sink
          MaxFiles,      \* _max_files: the files it keeps besides the one in use
          DayLength, RotationTick,   \* the daily sink's day and rotation time
          MaxMessages, MaxCrashes, MaxFlushes, MaxClock   \* bounds

ASSUME FileSinksAssumption ==
  /\ NoLogThread \notin LogThreads
  /\ Kinds \subseteq {"simple", "rotating", "daily"}
  /\ MessageSizes \subseteq Nat \ {0} /\ MaxSize \in Nat /\ MaxFiles \in Nat
  /\ DayLength \in Nat \ {0} /\ RotationTick \in 0 .. DayLength - 1

VARIABLES
  kind, force_flush,
  clock,        \* the time, which only the daily sink reads
  files,        \* the files there are: name -> the messages in it
  filename,     \* _filename
  fd,           \* _fd: 0 or the number of an open file
  live,         \* the numbers of the files that are open, as the C library knows
  opened,       \* how many were opened so far
  unsaved,      \* how many messages of the open file are still in its buffer
  current_size, rotation_tp,
  mutex,        \* who holds the sink's lock
  step,         \* thread -> what it does next
  line,         \* thread -> its message
  index,        \* the loop variable of _rotate()
  messages,     \* how many messages were logged ...
  taken,        \* ... and how many the sink has taken
  crashes, flushes

fileVars == <<files, filename, fd, live, opened, unsaved>>
boundVars == <<messages, taken, crashes, flushes>>
fileSinkVars == <<kind, force_flush, clock, fileVars, current_size, rotation_tp,
                  mutex, step, line, index, boundVars>>

\* A message: its number in the order the sink takes them, its length, and the
\* time at which the sink looked (for the daily sink only).
Line(id, size, at) == [id |-> id, size |-> size, at |-> at]
Nothing == Line(0, 0, 0)

Length(q) ==
  LET sum[i \in 0 .. Len(q)] == IF i = 0 THEN 0 ELSE sum[i - 1] + q[i].size
  IN  sum[Len(q)]

-------------------------------------------------------------------------------
(* Files.  A rotating sink's files are known by their index, 0 the one in  *)
(* use, a daily sink's by the time in their name.                          *)
Exists(name) == name \in DOMAIN files
WithoutFile(name) == Restrict(files, DOMAIN files \ {name})
WithFile(name, contents) ==
  [n \in DOMAIN files \cup {name} |-> IF n = name THEN contents ELSE files[n]]

\* fopen(), for appending or for an empty file.
Fopen(name, truncate) ==
  /\ files' = IF truncate \/ ~Exists(name) THEN WithFile(name, <<>>) ELSE files
  /\ filename' = name
  /\ opened' = opened + 1
  /\ fd' = opened + 1
  /\ live' = live \cup {opened + 1}
  /\ unsaved' = 0

\* calc_filename()
FileNow == IF kind = "daily" THEN clock ELSE 0

\* mutant: tomorrow at the rotation time, even when today's is to come
NextRotationTomorrow(now) ==
  (now - (now % DayLength)) + RotationTick + DayLength

\* _next_rotation_tp(): today at the rotation time, or tomorrow.
NextRotation(now) ==
  LET today == (now - (now % DayLength)) + RotationTick
  IN  IF today > now THEN today ELSE today + DayLength

\* The constructors.
Start ==
  /\ step' = [t \in LogThreads |-> "idle"]
  /\ line' = [t \in LogThreads |-> Nothing]
  /\ Fopen(FileNow, FALSE)
  /\ current_size' = IF Exists(FileNow) THEN Length(files[FileNow]) ELSE 0
  /\ rotation_tp' = NextRotation(clock)
  /\ mutex' = NoLogThread /\ index' = 0

Up == \A t \in LogThreads : step[t] # "down"

FileSinksInit ==
  /\ kind \in Kinds /\ force_flush \in BOOLEAN
  /\ clock = 0
  /\ files = <<>> /\ filename = 0 /\ fd = 0 /\ live = {} /\ opened = 0
  /\ unsaved = 0 /\ current_size = 0 /\ rotation_tp = 0
  /\ mutex = NoLogThread
  /\ step = [t \in LogThreads |-> "down"]
  /\ line = [t \in LogThreads |-> Nothing]
  /\ index = 0 /\ messages = 0 /\ taken = 0 /\ crashes = 0 /\ flushes = 0

Restart ==
  /\ ~Up
  /\ Start
  /\ UNCHANGED <<kind, force_flush, clock, boundVars>>

\* Every thread is gone, and the end of the open file with it.
Down ==
  /\ step' = [t \in LogThreads |-> "down"]
  /\ line' = [t \in LogThreads |-> Nothing]
  /\ mutex' = NoLogThread /\ fd' = 0 /\ live' = {} /\ index' = 0

Lose ==
  files' = IF fd = 0 THEN files
           ELSE [files EXCEPT ![filename] = SubSeq(@, 1, Len(@) - unsaved)]

Crash ==
  /\ Up /\ crashes < MaxCrashes
  /\ crashes' = crashes + 1
  /\ Down /\ Lose /\ unsaved' = 0
  /\ UNCHANGED <<kind, force_flush, clock, filename, opened, current_size,
                 rotation_tp, messages, taken, flushes>>

\* An exception ends the program too: what the step did before it stays.
Terminate ==
  /\ crashes < MaxCrashes
  /\ crashes' = crashes + 1
  /\ Down /\ Lose /\ unsaved' = 0
  /\ UNCHANGED <<kind, force_flush, clock, filename, opened, current_size,
                 rotation_tp, messages, taken, flushes>>

\* ~file_helper()
Exit ==
  /\ Up /\ \A t \in LogThreads : step[t] = "idle"
  /\ crashes < MaxCrashes /\ crashes' = crashes + 1
  /\ Down /\ unsaved' = 0
  /\ UNCHANGED <<kind, force_flush, clock, files, filename, opened,
                 current_size, rotation_tp, messages, taken, flushes>>

-------------------------------------------------------------------------------
(* A message: ~line_logger(), _log_msg(), base_sink::log(). *)
Goes(t, to) == step' = [step EXCEPT ![t] = to]

Log(t) ==
  /\ step[t] = "idle" /\ messages < MaxMessages
  /\ messages' = messages + 1
  /\ \E n \in IF kind = "rotating" THEN MessageSizes ELSE {1} :
       line' = [line EXCEPT ![t] = [id |-> messages + 1, size |-> n]]
  /\ Goes(t, "sink")
  /\ UNCHANGED <<kind, force_flush, clock, fileVars, current_size, rotation_tp,
                 mutex, index, taken, crashes, flushes>>

\* mutant: the lock of the _st sinks
AcquireNot(t) == mutex' = t

Acquire(t) == mutex = NoLogThread /\ mutex' = t

TooLong(t) == current_size + line[t].size > MaxSize

\* _sink_it(), with the lock: is this the message that needs another file?
Sink(t) ==
  /\ step[t] = "sink" /\ Acquire(t)
  /\ taken' = taken + 1
  /\ line' = [line EXCEPT ![t] = Line(taken + 1, @.size,
                                     IF kind = "daily" THEN clock ELSE 0)]
  /\ \/ kind = "simple" /\ Goes(t, "write") /\ UNCHANGED current_size
     \/ /\ kind = "rotating"
        /\ current_size' = current_size + line[t].size
        /\ Goes(t, IF TooLong(t) THEN "close" ELSE "write")
     \/ /\ kind = "daily"
        /\ Goes(t, IF clock >= rotation_tp THEN "close" ELSE "write")
        /\ UNCHANGED current_size
  /\ UNCHANGED <<kind, force_flush, clock, fileVars, rotation_tp, index,
                 messages, crashes, flushes>>

AfterClose ==
  IF kind = "rotating" /\ MaxFiles > 0 THEN "remove" ELSE "open"

Close(t) ==
  /\ step[t] = "close"
  /\ fd' = 0 /\ live' = live \ {fd} /\ unsaved' = 0
  /\ index' = MaxFiles
  /\ Goes(t, AfterClose)
  /\ UNCHANGED <<kind, force_flush, clock, files, filename, opened,
                 current_size, rotation_tp, mutex, line, boundVars>>

\* _rotate(): from the oldest on, the target is removed and the file before it
\* takes its name; either may fail.
Remove(t) ==
  /\ step[t] = "remove"
  /\ \/ /\ files' = WithoutFile(index)
        /\ Goes(t, "rename")
        /\ UNCHANGED <<kind, force_flush, clock, filename, fd, live, opened,
                       unsaved, current_size, rotation_tp, mutex, line, index,
                       boundVars>>
     \/ Exists(index) /\ Terminate

Renamed(i) ==
  IF Exists(i - 1) THEN [n \in (DOMAIN files \ {i - 1}) \cup {i} |->
                          IF n = i THEN files[i - 1] ELSE files[n]]
  ELSE files

Rename(t) ==
  /\ step[t] = "rename"
  /\ \/ /\ files' = Renamed(index)
        /\ index' = index - 1
        /\ Goes(t, IF index > 1 THEN "remove" ELSE "open")
        /\ UNCHANGED <<kind, force_flush, clock, filename, fd, live, opened,
                       unsaved, current_size, rotation_tp, mutex, line,
                       boundVars>>
     \/ Exists(index - 1) /\ Terminate

\* file_helper::open(), which gives up after five tries.
Open(t) ==
  /\ step[t] = "open"
  /\ \/ /\ Fopen(FileNow, kind = "rotating")
        /\ current_size' = IF kind = "rotating" THEN line[t].size ELSE current_size
        /\ Goes(t, IF kind = "daily" THEN "schedule" ELSE "write")
        /\ UNCHANGED <<kind, force_flush, clock, rotation_tp, mutex, line,
                       index, boundVars>>
     \/ Terminate

Schedule(t) ==
  /\ step[t] = "schedule"
  /\ rotation_tp' = NextRotation(clock)
  /\ Goes(t, "write")
  /\ UNCHANGED <<kind, force_flush, clock, fileVars, current_size, mutex, line,
                 index, boundVars>>

WriteLine(t) ==
  /\ step[t] = "write"
  /\ \/ /\ files' = IF Exists(filename)
                    THEN [files EXCEPT ![filename] = Append(@, line[t])] ELSE files
        /\ unsaved' = IF force_flush THEN 0 ELSE unsaved + 1
        /\ mutex' = NoLogThread
        /\ line' = [line EXCEPT ![t] = Nothing]
        /\ Goes(t, "idle")
        /\ UNCHANGED <<kind, force_flush, clock, filename, fd, live, opened,
                       current_size, rotation_tp, index, boundVars>>
     \/ Terminate

log_msg(t) ==
  \/ Log(t) \/ Sink(t) \/ Close(t) \/ Remove(t) \/ Rename(t)
  \/ Open(t) \/ Schedule(t) \/ WriteLine(t)

\* flush() does not take the lock: it reads _fd and passes on what it read.  A
\* null pointer flushes every file, a closed one is undefined.
Flush(t) ==
  /\ \/ /\ step[t] = "idle" /\ flushes < MaxFlushes
        /\ flushes' = flushes + 1
        /\ step' = [step EXCEPT ![t] = "fflush"]
        /\ line' = [line EXCEPT ![t] = Line(fd, 0, 0)]
        /\ UNCHANGED unsaved
     \/ /\ step[t] = "fflush"
        /\ unsaved' = IF line[t].id \in live \cup {0} THEN 0 ELSE unsaved
        /\ line' = [line EXCEPT ![t] = Nothing]
        /\ Goes(t, "idle")
        /\ UNCHANGED flushes
  /\ UNCHANGED <<kind, force_flush, clock, files, filename, fd, live, opened,
                 current_size, rotation_tp, mutex, index, messages, taken, crashes>>

\* The day of a time: how often the rotation time was reached before.
DayOf(time) == (time + DayLength - RotationTick) \div DayLength

\* Opening a file takes no longer than the rest of the day: the rotation time
\* does not come round while a daily sink changes files.
Tick ==
  /\ kind = "daily" /\ clock < MaxClock
  /\ \A t \in LogThreads :
       step[t] \in {"close", "open", "schedule"} =>
         DayOf(clock + 1) = DayOf(line[t].at)
  /\ clock' = clock + 1
  /\ UNCHANGED <<kind, force_flush, fileVars, current_size, rotation_tp, mutex,
                 step, line, index, boundVars>>

FileSinksNext ==
  \/ Restart \/ Crash \/ Exit \/ Tick
  \/ \E t \in LogThreads : log_msg(t) \/ Flush(t)

FileSinksSpec == FileSinksInit /\ [][FileSinksNext]_fileSinkVars

-------------------------------------------------------------------------------
\* The messages of the rotating sink's files, the oldest file first.
Kept ==
  LET from[i \in 0 .. MaxFiles + 1] ==
        IF i > MaxFiles THEN <<>>
        ELSE from[i + 1] \o (IF Exists(i) THEN files[i] ELSE <<>>)
  IN  from[0]

\* Read from the last file to the first, the rotating sink's files hold the
\* messages in the order they were written, and none is longer than _max_size
\* but one that holds a single message, crash or not.  As long as there was no
\* crash, they hold all of the latest without a gap, and all there were until
\* there are more files than are kept.
KeptInOrder ==
  kind = "rotating" =>
    /\ \A i, j \in DOMAIN Kept : i < j => Kept[i].id < Kept[j].id
    /\ \A n \in DOMAIN files : Len(files[n]) > 1 => Length(files[n]) <= MaxSize
    /\ crashes = 0 /\ mutex = NoLogThread =>
         /\ \A i \in DOMAIN Kept : Kept[i].id = taken - Len(Kept) + i
         /\ Cardinality(DOMAIN files) <= MaxFiles => Len(Kept) = taken

\* A file of the daily sink holds messages of one day, the one in its name: the
\* first message after the rotation time, however late, opens the next.
OneDayPerFile ==
  kind = "daily" =>
    \A n \in DOMAIN files, i \in 1 .. MaxMessages :
      i \in DOMAIN files[n] => DayOf(files[n][i].at) = DayOf(n)
===============================================================================
