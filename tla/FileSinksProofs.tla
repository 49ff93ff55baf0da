--------------------------- MODULE FileSinksProofs ---------------------------
(***************************************************************************)
(* The files of FileSinks: the daily sink's hold messages of one day each, *)
(* the rotating sink's hold them in order and are no longer than they may  *)
(* be.                                                                     *)
(*                                                                         *)
(* The daily sink compares the time of a message with the rotation time    *)
(* only, so that the argument is about the span from the time in the       *)
(* file's name to the rotation time that is set: all of it is one day.     *)
(* NextRotation gives the end of today, hence a span that reaches to it    *)
(* from a time of today stays one day (RotationInTime); a file opened      *)
(* after the time that was set has an empty span until the next one is     *)
(* set. Who holds the lock knows of its message what its next step needs   *)
(* (Keeps), nobody else knows anything of the file, and what a crash takes *)
(* is the end of the file that is open.                                    *)
(*                                                                         *)
(* For the rotating sink there are numbers b[0] >= b[1] >= ... such that   *)
(* the messages of the nth file are above b[n + 1] and up to b[n]          *)
(* (Ordered) and, without a crash, all of those (Gapless). A rename, like  *)
(* the removal of the last file, moves one of these numbers (Shifted).     *)
(* While the files are moved, it is known where there may be a place       *)
(* without a file (HoleAt); at the other times there is none, so that a    *)
(* last file means all of them. Length and Kept are recursive functions:   *)
(* SetInduction, from the library's well-foundedness of the natural        *)
(* numbers, shows that the functions they choose exist, and what they are. *)
(***************************************************************************)
EXTENDS FileSinks, FiniteSetTheorems, SequenceTheorems, WellFoundedInduction,
        TLAPS

-----------------------------------------------------------------------------
(* Days.                                                                   *)

LEMMA Division ==
  ASSUME NEW a \in Nat, NEW d \in Nat \ {0}
  PROVE  /\ a \div d \in Nat /\ a % d \in 0 .. d - 1
         /\ a = d * (a \div d) + (a % d)
OBVIOUS

LEMMA DivisionIs ==
  ASSUME NEW d \in Nat \ {0}, NEW q \in Nat, NEW r \in 0 .. d - 1
  PROVE  (d * q + r) \div d = q
OBVIOUS

LEMMA DayAfter ==
  ASSUME NEW x \in Nat
  PROVE  /\ DayOf(x) \in Nat
         /\ \A y \in Nat : x <= y => DayOf(x) <= DayOf(y)
<1>1. DayLength \in Nat \ {0} /\ RotationTick \in 0 .. DayLength - 1
  BY FileSinksAssumption
<1>2. PICK d, t : d = DayLength /\ t = DayLength - RotationTick
  OBVIOUS
<1>3. d \in Nat \ {0} /\ t \in Nat
  BY <1>1, <1>2
<1>4. \A z \in Nat : DayOf(z) = (z + t) \div d
  BY <1>1, <1>2 DEF DayOf
<1>5. (x + t) \div d \in Nat
  BY <1>3, Division
<1>6. ASSUME NEW y \in Nat, x <= y
      PROVE  (x + t) \div d <= (y + t) \div d
  <2>1. PICK a, b, m, n : /\ a = (x + t) \div d /\ b = (y + t) \div d
                          /\ m = (x + t) % d /\ n = (y + t) % d
    OBVIOUS
  <2>2. /\ a \in Nat /\ b \in Nat /\ m \in 0 .. d - 1 /\ n \in 0 .. d - 1
        /\ x + t = d * a + m /\ y + t = d * b + n
    <3>1. PICK u \in Nat, v \in Nat : u = x + t /\ v = y + t
      BY <1>3
    <3>2. /\ u \div d \in Nat /\ u % d \in 0 .. d - 1 /\ u = d * (u \div d) + (u % d)
          /\ v \div d \in Nat /\ v % d \in 0 .. d - 1 /\ v = d * (v \div d) + (v % d)
      BY <1>3, Division
    <3> QED
      BY <2>1, <3>1, <3>2
  <2>3. a > b => a >= b + 1 /\ d * a >= d * (b + 1) /\ d * (b + 1) = d * b + d
    BY <1>3, <2>2
  <2>4. a > b => FALSE
    BY <1>3, <1>6, <2>2, <2>3
  <2> QED
    BY <2>1, <2>2, <2>4
<1> QED
  BY <1>4, <1>5, <1>6

\* Up to its end it is the same day.
LEMMA DayEnds ==
  ASSUME NEW x \in Nat
  PROVE  /\ NextRotation(x) \in Nat \ {0} /\ x < NextRotation(x)
         /\ DayOf(NextRotation(x) - 1) = DayOf(x)
<1>1. PICK d, t, q, m : /\ d = DayLength /\ t = RotationTick
                        /\ q = x \div d /\ m = x % d
  OBVIOUS
<1>2. d \in Nat \ {0} /\ t \in 0 .. d - 1
  BY <1>1, FileSinksAssumption
<1>3. q \in Nat /\ m \in 0 .. d - 1 /\ x = d * q + m
  BY <1>1, <1>2, Division
<1>4. PICK u : u = d * q
  OBVIOUS
<1>5. u \in Nat /\ x = u + m
  BY <1>2, <1>3, <1>4
<1>6. NextRotation(x) = IF u + t > u + m THEN u + t ELSE u + t + d
  <2>1. x - (x % DayLength) = u
    BY <1>1, <1>2, <1>3, <1>5
  <2> QED
    BY <1>1, <1>5, <2>1 DEF NextRotation
<1>7. CASE t > m
  <2>1. NextRotation(x) = u + t
    BY <1>2, <1>3, <1>5, <1>6, <1>7
  <2>2. DayOf(x) = q
    <3>1. x + d - t = d * q + (m + d - t) /\ m + d - t \in 0 .. d - 1
      BY <1>2, <1>3, <1>4, <1>5, <1>7
    <3>2. (d * q + (m + d - t)) \div d = q
      BY <1>2, <1>3, <3>1, DivisionIs
    <3> QED
      BY <1>1, <3>1, <3>2 DEF DayOf
  <2>3. DayOf(u + t - 1) = q
    <3>1. (u + t - 1) + d - t = d * q + (d - 1) /\ d - 1 \in 0 .. d - 1
      BY <1>2, <1>3, <1>4, <1>5, <1>7
    <3>2. (d * q + (d - 1)) \div d = q
      BY <1>2, <1>3, <3>1, DivisionIs
    <3> QED
      BY <1>1, <3>1, <3>2 DEF DayOf
  <2> QED
    BY <1>2, <1>3, <1>5, <1>7, <2>1, <2>2, <2>3
<1>8. CASE ~(t > m)
  <2>1. NextRotation(x) = u + t + d
    BY <1>2, <1>3, <1>5, <1>6, <1>8
  <2>2. DayOf(x) = q + 1
    <3>1. x + d - t = d * (q + 1) + (m - t) /\ m - t \in 0 .. d - 1
      BY <1>2, <1>3, <1>4, <1>5, <1>8
    <3>2. (d * (q + 1) + (m - t)) \div d = q + 1
      BY <1>2, <1>3, <3>1, DivisionIs
    <3> QED
      BY <1>1, <3>1, <3>2 DEF DayOf
  <2>3. DayOf(u + t + d - 1) = q + 1
    <3>1. (u + t + d - 1) + d - t = d * (q + 1) + (d - 1) /\ d - 1 \in 0 .. d - 1
      BY <1>2, <1>3, <1>4, <1>5, <1>8
    <3>2. (d * (q + 1) + (d - 1)) \div d = q + 1
      BY <1>2, <1>3, <3>1, DivisionIs
    <3> QED
      BY <1>1, <3>1, <3>2 DEF DayOf
  <2> QED
    BY <1>2, <1>3, <1>5, <1>8, <2>1, <2>2, <2>3
<1> QED
  BY <1>7, <1>8

\* The rotation time that is set comes before another day begins.
Spans(from, until) == \A x \in Nat : from <= x /\ x < until => DayOf(x) = DayOf(from)

LEMMA RotationInTime ==
  ASSUME NEW from \in Nat, NEW now \in Nat, from <= now, DayOf(from) = DayOf(now)
  PROVE  Spans(from, NextRotation(now))
<1> SUFFICES ASSUME NEW x \in Nat, from <= x, x < NextRotation(now)
             PROVE  DayOf(x) = DayOf(from)
  BY DEF Spans
<1>1. PICK n : n = NextRotation(now) - 1
  OBVIOUS
<1>2. n \in Nat /\ x <= n /\ DayOf(n) = DayOf(now)
  BY <1>1, DayEnds
<1>3. DayOf(from) <= DayOf(x) /\ DayOf(x) <= DayOf(n)
  BY <1>2, DayAfter
<1>4. DayOf(from) \in Nat /\ DayOf(x) \in Nat
  BY DayAfter
<1> QED
  BY <1>2, <1>3, <1>4

-----------------------------------------------------------------------------
(* The daily sink.                                                         *)

InFile(n) == {m \in [id : Nat, size : Nat, at : Nat] : DayOf(m.at) = DayOf(n)}
Holding == {"close", "open", "schedule", "write"}
Steps == {"down", "idle", "fflush", "sink"} \cup Holding

FilesOfDays(fs) ==
  DOMAIN fs \subseteq Nat /\ \A n \in DOMAIN fs : fs[n] \in Seq(InFile(n))

\* What the holder of the lock knows of its message, the clock and the file.
Keeps(t) ==
  /\ step[t] = "sink" => line[t].size \in Nat
  /\ step[t] \in Holding =>
       /\ mutex = t
       /\ line[t] \in [id : Nat, size : Nat, at : Nat]
       /\ step[t] \in {"close", "open"} => clock >= rotation_tp
       /\ step[t] \in {"close", "open", "schedule"} => DayOf(line[t].at) = DayOf(clock)
       /\ step[t] = "schedule" => DayOf(clock) = DayOf(filename)
       /\ step[t] = "write" => DayOf(line[t].at) = DayOf(filename)

Buffered ==
  /\ unsaved \in Nat /\ opened \in Nat
  /\ fd # 0 => filename \in DOMAIN files /\ unsaved <= Len(files[filename])

DailyInv ==
  kind = "daily" =>
    /\ clock \in Nat /\ filename \in Nat /\ rotation_tp \in Nat /\ taken \in Nat
    /\ step \in [LogThreads -> Steps] /\ line = [t \in LogThreads |-> line[t]]
    /\ filename <= clock /\ Spans(filename, rotation_tp)
    /\ FilesOfDays(files) /\ Buffered
    /\ \A t \in LogThreads : Keeps(t)

\* A thread that is not about to write knows nothing of the file, and for the
\* others nothing changed.
LEMMA Bystander ==
  ASSUME NEW u \in LogThreads, Keeps(u),
         step'[u] = step[u], line'[u] = line[u],
         \/ step[u] \notin Holding
         \/ mutex' = mutex /\ clock' = clock /\ rotation_tp' = rotation_tp /\ filename' = filename
  PROVE  Keeps(u)'
BY DEF Keeps, Holding

\* Who has the lock is the only one with a message for the file.
LEMMA OneHolds ==
  ASSUME NEW t \in LogThreads, NEW u \in LogThreads, u # t, Keeps(u),
         mutex = t \/ mutex = NoLogThread
  PROVE  step[u] \notin Holding
BY FileSinksAssumption DEF Keeps

LEMMA OpenedForToday ==
  ASSUME FilesOfDays(files), NEW name \in Nat, Fopen(name, FALSE), opened \in Nat
  PROVE  /\ FilesOfDays(files') /\ filename' = name
         /\ Buffered'
<1>1. <<>> \in Seq(InFile(name)) /\ Len(<<>>) = 0
  BY EmptySeq
<1>2. filename' = name /\ opened' \in Nat /\ unsaved' = 0
  BY DEF Fopen
<1>3. CASE name \in DOMAIN files
  <2>1. files' = files
    BY <1>3 DEF Fopen, Exists
  <2>2. Len(files[name]) \in Nat
    BY <1>3 DEF FilesOfDays
  <2> QED
    BY <1>2, <1>3, <2>1, <2>2 DEF Buffered
<1>4. CASE name \notin DOMAIN files
  <2>1. files' = [n \in DOMAIN files \cup {name} |-> IF n = name THEN <<>> ELSE files[n]]
    BY <1>4 DEF Fopen, Exists, WithFile
  <2>2. name \in DOMAIN files' /\ files'[name] = <<>>
    BY <2>1
  <2>3. FilesOfDays(files')
    BY <1>1, <2>1 DEF FilesOfDays
  <2> QED
    BY <1>1, <1>2, <2>2, <2>3 DEF Buffered
<1> QED
  BY <1>3, <1>4

\* What is lost is the end of the open file.
LEMMA EndIsLost ==
  ASSUME FilesOfDays(files), Buffered, Lose
  PROVE  FilesOfDays(files')
<1>1. CASE fd = 0
  BY <1>1 DEF Lose
<1>2. CASE fd # 0
  <2>1. filename \in DOMAIN files /\ unsaved \in Nat /\ unsaved <= Len(files[filename])
    BY <1>2 DEF Buffered
  <2>2. PICK s, S : s = files[filename] /\ S = InFile(filename)
    OBVIOUS
  <2>3. s \in Seq(S)
    BY <2>1, <2>2 DEF FilesOfDays
  <2>4. SubSeq(s, 1, Len(s) - unsaved) \in Seq(S)
    <3>1. PICK l \in Nat : l = Len(s)
      BY <2>3
    <3>2. PICK m \in Nat : m = l - unsaved /\ m <= l
      BY <2>1, <2>2, <3>1
    <3>3. SubSeq(s, 1, m) \in Seq(S)
      BY <2>3, <3>1, <3>2, SubSeqProperties
    <3> QED
      BY <3>1, <3>2, <3>3
  <2>5. files' = [files EXCEPT ![filename] = SubSeq(s, 1, Len(s) - unsaved)]
    BY <1>2, <2>2 DEF Lose
  <2> QED
    BY <2>1, <2>2, <2>4, <2>5 DEF FilesOfDays
<1> QED
  BY <1>1, <1>2

-----------------------------------------------------------------------------
(* The steps of the program as a whole.                                    *)

LEMMA DaysBegin ==
  ASSUME FileSinksInit
  PROVE  DailyInv
<1> SUFFICES ASSUME kind = "daily"
             PROVE  DailyInv
  BY DEF DailyInv
<1>1. /\ clock = 0 /\ filename = 0 /\ rotation_tp = 0 /\ taken = 0
      /\ fd = 0 /\ opened = 0 /\ unsaved = 0
  BY DEF FileSinksInit
<1>2. /\ step = [t \in LogThreads |-> "down"]
      /\ line = [t \in LogThreads |-> Nothing]
  BY DEF FileSinksInit
<1>3. FilesOfDays(files)
  <2>1. DOMAIN files = {}
    BY DEF FileSinksInit
  <2> QED
    BY <2>1 DEF FilesOfDays
<1>4. step \in [LogThreads -> Steps] /\ line = [t \in LogThreads |-> line[t]]
  BY <1>2 DEF Steps
<1>5. \A t \in LogThreads : Keeps(t)
  BY <1>2 DEF Keeps, Holding
<1>6. Spans(filename, rotation_tp)
  BY <1>1 DEF Spans
<1>7. Buffered
  BY <1>1 DEF Buffered
<1> QED
  BY <1>1, <1>3, <1>4, <1>5, <1>6, <1>7 DEF DailyInv

LEMMA RestartKeepsDays ==
  ASSUME DailyInv, kind = "daily", Restart
  PROVE  DailyInv'
<1>1. /\ clock \in Nat /\ taken \in Nat /\ FilesOfDays(files) /\ Buffered
  BY DEF DailyInv
<1>2. /\ step' = [t \in LogThreads |-> "idle"]
      /\ line' = [t \in LogThreads |-> Nothing]
      /\ Fopen(clock, FALSE) /\ rotation_tp' = NextRotation(clock)
      /\ kind' = kind /\ clock' = clock /\ taken' = taken
  BY DEF Restart, Start, FileNow, boundVars
<1>3. FilesOfDays(files') /\ filename' = clock /\ Buffered'
  BY <1>1, <1>2, OpenedForToday DEF Buffered
<1>4. NextRotation(clock) \in Nat \ {0}
  BY <1>1, DayEnds
<1>5. Spans(clock, NextRotation(clock))
  BY <1>1, RotationInTime
<1>6. step' \in [LogThreads -> Steps] /\ line' = [t \in LogThreads |-> line'[t]]
  BY <1>2 DEF Steps
<1>7. \A t \in LogThreads : Keeps(t)'
  BY <1>2 DEF Keeps, Holding
<1> QED
  BY <1>1, <1>2, <1>3, <1>4, <1>5, <1>6, <1>7 DEF DailyInv

\* However the program ends.
LEMMA EndKeepsDays ==
  ASSUME DailyInv, kind = "daily", Down, unsaved' = 0, FilesOfDays(files'),
         kind' = kind, clock' = clock, filename' = filename, opened' = opened,
         rotation_tp' = rotation_tp, taken' = taken
  PROVE  DailyInv'
<1>1. /\ clock \in Nat /\ taken \in Nat /\ filename \in Nat /\ rotation_tp \in Nat
      /\ filename <= clock /\ Spans(filename, rotation_tp) /\ opened \in Nat
  BY DEF DailyInv, Buffered
<1>2. /\ step' = [t \in LogThreads |-> "down"]
      /\ line' = [t \in LogThreads |-> Nothing] /\ fd' = 0
  BY DEF Down
<1>3. step' \in [LogThreads -> Steps] /\ line' = [t \in LogThreads |-> line'[t]]
  BY <1>2 DEF Steps
<1>4. \A t \in LogThreads : Keeps(t)'
  BY <1>2 DEF Keeps, Holding
<1>5. Buffered'
  BY <1>1, <1>2 DEF Buffered
<1>6. Spans(filename', rotation_tp')
  BY <1>1
<1> QED
  BY <1>1, <1>3, <1>4, <1>5, <1>6 DEF DailyInv

LEMMA CrashKeepsDays ==
  ASSUME DailyInv, kind = "daily", Crash \/ Terminate
  PROVE  DailyInv'
<1>1. FilesOfDays(files) /\ Buffered
  BY DEF DailyInv
<1>2. Lose
  BY DEF Crash, Terminate
<1>3. FilesOfDays(files')
  BY <1>1, <1>2, EndIsLost
<1> QED
  BY <1>3, EndKeepsDays DEF Crash, Terminate

LEMMA ExitKeepsDays ==
  ASSUME DailyInv, kind = "daily", Exit
  PROVE  DailyInv'
<1>1. FilesOfDays(files')
  BY DEF DailyInv, Exit
<1> QED
  BY <1>1, EndKeepsDays DEF Exit

LEMMA TickKeepsDays ==
  ASSUME DailyInv, kind = "daily", Tick
  PROVE  DailyInv'
<1>1. /\ clock \in Nat /\ taken \in Nat /\ filename \in Nat /\ rotation_tp \in Nat
      /\ filename <= clock /\ Spans(filename, rotation_tp)
      /\ FilesOfDays(files) /\ Buffered
      /\ step \in [LogThreads -> Steps] /\ line = [t \in LogThreads |-> line[t]]
  BY DEF DailyInv
<1>2. /\ kind' = kind /\ clock' = clock + 1 /\ taken' = taken /\ filename' = filename
      /\ rotation_tp' = rotation_tp /\ files' = files /\ step' = step /\ line' = line
      /\ mutex' = mutex /\ fd' = fd /\ unsaved' = unsaved /\ opened' = opened
  BY DEF Tick, fileVars, boundVars
<1>3. ASSUME NEW t \in LogThreads
      PROVE  Keeps(t)'
  <2>1. Keeps(t)
    BY DEF DailyInv
  <2>2. step[t] \in {"close", "open", "schedule"} => DayOf(clock') = DayOf(line[t].at)
    BY <1>2 DEF Tick
  <2>3. step[t] = "schedule" => DayOf(clock') = DayOf(filename)
    BY <2>1, <2>2 DEF Keeps, Holding
  <2>4. clock >= rotation_tp => clock' >= rotation_tp
    BY <1>1, <1>2
  <2> QED
    BY <1>2, <2>1, <2>2, <2>3, <2>4 DEF Keeps, Holding
<1>4. Buffered'
  BY <1>1, <1>2 DEF Buffered
<1>5. FilesOfDays(files') /\ Spans(filename', rotation_tp')
  BY <1>1, <1>2
<1>6. clock' \in Nat /\ filename' <= clock'
  BY <1>1, <1>2
<1> QED
  BY <1>1, <1>2, <1>3, <1>4, <1>5, <1>6 DEF DailyInv

-----------------------------------------------------------------------------
(* The steps of a thread.                                                  *)

\* What is left to show of one: what it leaves of the clock and of the files, and
\* what the thread itself knows after it.  The others know what they knew: what
\* it changes of the file, it changes with the lock.
LEMMA ThreadKeepsDays ==
  ASSUME DailyInv, kind = "daily", NEW t \in LogThreads,
         NEW to \in Steps, Goes(t, to), NEW l, line' = [line EXCEPT ![t] = l],
         \/ mutex = t \/ mutex = NoLogThread
         \/ mutex' = mutex /\ rotation_tp' = rotation_tp /\ filename' = filename,
         kind' = kind, clock' = clock, taken' \in Nat,
         filename' \in Nat, filename' <= clock,
         rotation_tp' \in Nat, Spans(filename', rotation_tp'),
         FilesOfDays(files'), Buffered',
         Keeps(t)'
  PROVE  DailyInv'
<1>1. /\ clock \in Nat
      /\ step \in [LogThreads -> Steps] /\ line = [u \in LogThreads |-> line[u]]
  BY DEF DailyInv
<1>2. step' = [step EXCEPT ![t] = to]
  BY DEF Goes
<1>3. step' \in [LogThreads -> Steps] /\ line' = [u \in LogThreads |-> line'[u]]
  BY <1>1, <1>2
<1>4. ASSUME NEW u \in LogThreads, u # t
      PROVE  Keeps(u)'
  <2>1. Keeps(u)
    BY DEF DailyInv
  <2>2. step'[u] = step[u] /\ line'[u] = line[u]
    BY <1>1, <1>2, <1>4
  <2>3. mutex = t \/ mutex = NoLogThread => step[u] \notin Holding
    BY <1>4, <2>1, OneHolds
  <2> QED
    BY <2>1, <2>2, <2>3, Bystander
<1> QED
  BY <1>1, <1>3, <1>4 DEF DailyInv

\* The steps that leave the file as it is.
LEMMA LogKeepsDays ==
  ASSUME DailyInv, kind = "daily", NEW t \in LogThreads, Log(t)
  PROVE  DailyInv'
<1>1. /\ clock \in Nat /\ taken \in Nat /\ filename \in Nat /\ rotation_tp \in Nat
      /\ filename <= clock /\ Spans(filename, rotation_tp)
      /\ FilesOfDays(files) /\ Buffered
      /\ step \in [LogThreads -> Steps] /\ line = [u \in LogThreads |-> line[u]]
  BY DEF DailyInv
<1>2. PICK l : l = [id |-> messages + 1, size |-> 1]
  OBVIOUS
<1>3. l.size \in Nat
  BY <1>2
<1>4. line' = [line EXCEPT ![t] = l]
  BY <1>2 DEF Log
<1>5. /\ kind' = kind /\ clock' = clock /\ taken' = taken /\ filename' = filename
      /\ rotation_tp' = rotation_tp /\ files' = files /\ Goes(t, "sink")
      /\ mutex' = mutex /\ fd' = fd /\ unsaved' = unsaved /\ opened' = opened
  BY DEF Log, fileVars
<1>6. step'[t] = "sink" /\ line'[t] = l
  BY <1>1, <1>3, <1>4, <1>5 DEF Goes
<1>7. Keeps(t)'
  BY <1>3, <1>4, <1>6 DEF Keeps, Holding
<1>8. Buffered' /\ "sink" \in Steps
  BY <1>1, <1>5 DEF Buffered, Steps
<1>9. FilesOfDays(files') /\ Spans(filename', rotation_tp')
  BY <1>1, <1>5
<1> QED
  BY <1>1, <1>3, <1>4, <1>5, <1>7, <1>8, <1>9, ThreadKeepsDays

LEMMA FlushKeepsDays ==
  ASSUME DailyInv, kind = "daily", NEW t \in LogThreads, Flush(t)
  PROVE  DailyInv'
<1>1. /\ clock \in Nat /\ taken \in Nat /\ filename \in Nat /\ rotation_tp \in Nat
      /\ filename <= clock /\ Spans(filename, rotation_tp)
      /\ FilesOfDays(files) /\ Buffered
      /\ step \in [LogThreads -> Steps] /\ line = [u \in LogThreads |-> line[u]]
  BY DEF DailyInv
<1>2. PICK l : line' = [line EXCEPT ![t] = l]
  BY DEF Flush
<1>3. /\ kind' = kind /\ clock' = clock /\ taken' = taken /\ filename' = filename
      /\ rotation_tp' = rotation_tp /\ files' = files
      /\ mutex' = mutex /\ fd' = fd /\ opened' = opened
  BY DEF Flush
<1>4. PICK to \in {"fflush", "idle"} : Goes(t, to)
  BY DEF Flush, Goes
<1>5. unsaved' = 0 \/ unsaved' = unsaved
  BY DEF Flush
<1>6. step'[t] = to
  BY <1>1, <1>4 DEF Goes
<1>7. Keeps(t)'
  BY <1>6 DEF Keeps, Holding
<1>8. Buffered'
  <2>1. fd # 0 => Len(files[filename]) \in Nat
    BY <1>1 DEF FilesOfDays, Buffered
  <2> QED
    BY <1>1, <1>3, <1>5, <2>1 DEF Buffered
<1>9. to \in Steps /\ FilesOfDays(files') /\ Spans(filename', rotation_tp')
  BY <1>1, <1>3 DEF Steps
<1> QED
  BY <1>1, <1>2, <1>3, <1>4, <1>7, <1>8, <1>9, ThreadKeepsDays

\* Before the rotation time comes it is still the day of the file.
LEMMA SinkKeepsDays ==
  ASSUME DailyInv, kind = "daily", NEW t \in LogThreads, Sink(t)
  PROVE  DailyInv'
<1>1. /\ clock \in Nat /\ taken \in Nat /\ filename \in Nat /\ rotation_tp \in Nat
      /\ filename <= clock /\ Spans(filename, rotation_tp)
      /\ FilesOfDays(files) /\ Buffered
      /\ step \in [LogThreads -> Steps] /\ line = [u \in LogThreads |-> line[u]]
  BY DEF DailyInv
<1>2. PICK to : to = IF clock >= rotation_tp THEN "close" ELSE "write"
  OBVIOUS
<1>3. /\ kind' = kind /\ clock' = clock /\ taken' = taken + 1 /\ filename' = filename
      /\ rotation_tp' = rotation_tp /\ files' = files /\ Goes(t, to)
      /\ mutex = NoLogThread /\ mutex' = t
      /\ fd' = fd /\ unsaved' = unsaved /\ opened' = opened
  BY <1>2 DEF Sink, Acquire, fileVars
<1>4. PICK l : l = Line(taken + 1, line[t].size, clock)
  OBVIOUS
<1>5. line' = [line EXCEPT ![t] = l]
  BY <1>4 DEF Sink
<1>6. step'[t] = to /\ line'[t] = l
  BY <1>1, <1>3, <1>5 DEF Goes
<1>7. l \in [id : Nat, size : Nat, at : Nat] /\ l.at = clock
  <2>1. line[t].size \in Nat
    BY DEF DailyInv, Keeps, Sink
  <2> QED
    BY <1>1, <1>4, <2>1 DEF Line
<1>8. ~(clock >= rotation_tp) => DayOf(clock) = DayOf(filename)
  BY <1>1 DEF Spans
<1>9. Keeps(t)'
  BY <1>2, <1>3, <1>6, <1>7, <1>8 DEF Keeps, Holding
<1>10. Buffered' /\ to \in Steps
  BY <1>1, <1>2, <1>3 DEF Buffered, Steps, Holding
<1>11. FilesOfDays(files') /\ Spans(filename', rotation_tp')
  BY <1>1, <1>3
<1> QED
  BY <1>1, <1>3, <1>5, <1>9, <1>10, <1>11, ThreadKeepsDays

LEMMA CloseKeepsDays ==
  ASSUME DailyInv, kind = "daily", NEW t \in LogThreads, Close(t)
  PROVE  DailyInv'
<1>1. /\ clock \in Nat /\ taken \in Nat /\ filename \in Nat /\ rotation_tp \in Nat
      /\ filename <= clock /\ Spans(filename, rotation_tp)
      /\ FilesOfDays(files) /\ Buffered /\ Keeps(t)
      /\ step \in [LogThreads -> Steps] /\ line = [u \in LogThreads |-> line[u]]
  BY DEF DailyInv
<1>2. /\ kind' = kind /\ clock' = clock /\ taken' = taken /\ filename' = filename
      /\ rotation_tp' = rotation_tp /\ files' = files /\ Goes(t, "open")
      /\ mutex' = mutex /\ fd' = 0 /\ unsaved' = 0 /\ opened' = opened
      /\ line' = line /\ step[t] = "close"
  BY DEF Close, AfterClose, boundVars
<1>3. step'[t] = "open"
  BY <1>1, <1>2 DEF Goes
<1>4. Keeps(t)'
  BY <1>1, <1>2, <1>3 DEF Keeps, Holding
<1>5. Buffered' /\ "open" \in Steps
  BY <1>1, <1>2 DEF Buffered, Steps, Holding
<1>6. FilesOfDays(files') /\ Spans(filename', rotation_tp')
  BY <1>1, <1>2
<1>7. line' = [line EXCEPT ![t] = line[t]]
  BY <1>1, <1>2
<1> QED
  BY <1>1, <1>2, <1>4, <1>5, <1>6, <1>7, ThreadKeepsDays

\* The file is opened after the time that was set for it: until the next is set,
\* that time bounds nothing.
LEMMA OpenKeepsDays ==
  ASSUME DailyInv, kind = "daily", NEW t \in LogThreads, Open(t)
  PROVE  DailyInv'
<1>1. /\ clock \in Nat /\ taken \in Nat /\ filename \in Nat /\ rotation_tp \in Nat
      /\ FilesOfDays(files) /\ Buffered /\ Keeps(t)
      /\ step \in [LogThreads -> Steps] /\ line = [u \in LogThreads |-> line[u]]
  BY DEF DailyInv
<1>2. CASE Terminate
  BY <1>2, CrashKeepsDays
<1>3. CASE ~Terminate
  <2>1. /\ kind' = kind /\ clock' = clock /\ taken' = taken
        /\ rotation_tp' = rotation_tp /\ Goes(t, "schedule")
        /\ mutex' = mutex /\ line' = line /\ step[t] = "open"
        /\ Fopen(clock, FALSE)
    BY <1>3 DEF Open, FileNow, boundVars
  <2>2. FilesOfDays(files') /\ filename' = clock /\ Buffered'
    BY <1>1, <2>1, OpenedForToday DEF Buffered
  <2>3. step'[t] = "schedule" /\ "schedule" \in Steps
    BY <1>1, <2>1 DEF Goes, Steps, Holding
  <2>4. /\ mutex = t /\ clock >= rotation_tp
        /\ line[t] \in [id : Nat, size : Nat, at : Nat]
        /\ DayOf(line[t].at) = DayOf(clock)
    BY <1>1, <2>1 DEF Keeps, Holding
  <2>5. Keeps(t)'
    BY <2>1, <2>2, <2>3, <2>4 DEF Keeps
  <2>6. Spans(filename', rotation_tp')
    BY <1>1, <2>1, <2>2, <2>4 DEF Spans
  <2>7. line' = [line EXCEPT ![t] = line[t]]
    BY <1>1, <2>1
  <2> QED
    BY <1>1, <2>1, <2>2, <2>3, <2>4, <2>5, <2>6, <2>7, ThreadKeepsDays
<1> QED
  BY <1>2, <1>3

LEMMA ScheduleKeepsDays ==
  ASSUME DailyInv, kind = "daily", NEW t \in LogThreads, Schedule(t)
  PROVE  DailyInv'
<1>1. /\ clock \in Nat /\ taken \in Nat /\ filename \in Nat /\ filename <= clock
      /\ FilesOfDays(files) /\ Buffered /\ Keeps(t)
      /\ step \in [LogThreads -> Steps] /\ line = [u \in LogThreads |-> line[u]]
  BY DEF DailyInv
<1>2. /\ kind' = kind /\ clock' = clock /\ taken' = taken /\ filename' = filename
      /\ rotation_tp' = NextRotation(clock) /\ files' = files /\ Goes(t, "write")
      /\ mutex' = mutex /\ fd' = fd /\ unsaved' = unsaved /\ opened' = opened
      /\ line' = line /\ step[t] = "schedule"
  BY DEF Schedule, fileVars, boundVars
<1>3. /\ mutex = t /\ line[t] \in [id : Nat, size : Nat, at : Nat]
      /\ DayOf(line[t].at) = DayOf(clock) /\ DayOf(clock) = DayOf(filename)
  BY <1>1, <1>2 DEF Keeps, Holding
<1>4. step'[t] = "write" /\ "write" \in Steps
  BY <1>1, <1>2 DEF Goes, Steps, Holding
<1>5. Keeps(t)'
  BY <1>2, <1>3, <1>4 DEF Keeps
<1>6. Spans(filename', rotation_tp')
  BY <1>1, <1>2, <1>3, RotationInTime
<1>7. rotation_tp' \in Nat
  BY <1>1, <1>2, DayEnds
<1>8. Buffered' /\ FilesOfDays(files')
  BY <1>1, <1>2 DEF Buffered
<1>9. line' = [line EXCEPT ![t] = line[t]]
  BY <1>1, <1>2
<1> QED
  BY <1>1, <1>2, <1>3, <1>4, <1>5, <1>6, <1>7, <1>8, <1>9, ThreadKeepsDays

LEMMA WriteKeepsDays ==
  ASSUME DailyInv, kind = "daily", NEW t \in LogThreads, WriteLine(t)
  PROVE  DailyInv'
<1>1. /\ clock \in Nat /\ taken \in Nat /\ filename \in Nat /\ rotation_tp \in Nat
      /\ filename <= clock /\ Spans(filename, rotation_tp)
      /\ FilesOfDays(files) /\ Buffered /\ Keeps(t)
      /\ step \in [LogThreads -> Steps] /\ line = [u \in LogThreads |-> line[u]]
  BY DEF DailyInv
<1>2. CASE Terminate
  BY <1>2, CrashKeepsDays
<1>3. CASE ~Terminate
  <2>1. /\ kind' = kind /\ clock' = clock /\ taken' = taken /\ filename' = filename
        /\ rotation_tp' = rotation_tp /\ Goes(t, "idle") /\ fd' = fd /\ opened' = opened
        /\ step[t] = "write" /\ line' = [line EXCEPT ![t] = Nothing]
    BY <1>3 DEF WriteLine, boundVars
  <2>2. /\ mutex = t /\ line[t] \in [id : Nat, size : Nat, at : Nat]
        /\ DayOf(line[t].at) = DayOf(filename)
    BY <1>1, <2>1 DEF Keeps, Holding
  <2>3. step'[t] = "idle" /\ "idle" \in Steps
    BY <1>1, <2>1 DEF Goes, Steps
  <2>4. Keeps(t)'
    BY <2>3 DEF Keeps, Holding
  <2>5. FilesOfDays(files') /\ Buffered'
    <3>1. CASE filename \notin DOMAIN files
      <4>1. files' = files /\ fd = 0 /\ (unsaved' = 0 \/ unsaved' = unsaved + 1)
        BY <1>1, <1>3, <3>1 DEF WriteLine, Exists, Buffered
      <4> QED
        BY <1>1, <2>1, <4>1 DEF Buffered
    <3>2. CASE filename \in DOMAIN files
      <4>1. PICK s, m, S : s = files[filename] /\ m = line[t] /\ S = InFile(filename)
        OBVIOUS
      <4>2. s \in Seq(S) /\ m \in S
        BY <1>1, <2>2, <3>2, <4>1 DEF FilesOfDays, InFile
      <4>3. Append(s, m) \in Seq(S) /\ Len(Append(s, m)) = Len(s) + 1
        BY <4>2, AppendProperties
      <4>4. /\ files' = [files EXCEPT ![filename] = Append(s, m)]
            /\ unsaved' = 0 \/ unsaved' = unsaved + 1
        BY <1>3, <3>2, <4>1 DEF WriteLine, Exists
      <4>5. DOMAIN files' = DOMAIN files /\ files'[filename] = Append(s, m)
        BY <3>2, <4>4
      <4>6. FilesOfDays(files')
        BY <1>1, <4>1, <4>3, <4>4 DEF FilesOfDays
      <4>7. PICK l \in Nat : l = Len(s)
        BY <4>2
      <4>8. fd # 0 => unsaved <= l
        BY <1>1, <4>1, <4>7 DEF Buffered
      <4>9. unsaved' \in Nat /\ (fd # 0 => unsaved' <= l + 1)
        BY <1>1, <4>4, <4>7, <4>8 DEF Buffered
      <4>10. Len(files'[filename]) = l + 1
        BY <4>3, <4>5, <4>7
      <4>11. Buffered'
        BY <1>1, <2>1, <3>2, <4>5, <4>9, <4>10 DEF Buffered
      <4> QED
        BY <4>6, <4>11
    <3> QED
      BY <3>1, <3>2
  <2> QED
    BY <1>1, <2>1, <2>2, <2>3, <2>4, <2>5, ThreadKeepsDays
<1> QED
  BY <1>2, <1>3

-----------------------------------------------------------------------------
LEMMA DaysAreKept ==
  ASSUME DailyInv, FileSinksNext
  PROVE  DailyInv'
<1> SUFFICES ASSUME kind' = "daily"
             PROVE  DailyInv'
  BY DEF DailyInv
<1>1. kind = "daily"
  BY DEF FileSinksNext, Restart, Crash, Exit, Tick, log_msg, Log, Sink, Close,
         Remove, Rename, Open, Schedule, WriteLine, Flush, Terminate
<1>2. CASE Restart
  BY <1>1, <1>2, RestartKeepsDays
<1>3. CASE Crash
  BY <1>1, <1>3, CrashKeepsDays
<1>4. CASE Exit
  BY <1>1, <1>4, ExitKeepsDays
<1>5. CASE Tick
  BY <1>1, <1>5, TickKeepsDays
<1>6. ASSUME NEW t \in LogThreads, log_msg(t)
      PROVE  DailyInv'
  <2>1. step[t] # "remove" /\ step[t] # "rename"
    BY <1>1 DEF DailyInv, Steps, Holding
  <2>2. ~Remove(t) /\ ~Rename(t)
    BY <2>1 DEF Remove, Rename
  <2> QED
    BY <1>1, <1>6, <2>2, LogKeepsDays, SinkKeepsDays, CloseKeepsDays, OpenKeepsDays,
       ScheduleKeepsDays, WriteKeepsDays DEF log_msg
<1>7. ASSUME NEW t \in LogThreads, Flush(t)
      PROVE  DailyInv'
  BY <1>1, <1>7, FlushKeepsDays
<1> QED
  BY <1>2, <1>3, <1>4, <1>5, <1>6, <1>7 DEF FileSinksNext

\* The file that is open is of the day of every message that goes to it, so that
\* the daily sink's files each hold messages of the day in their name, through
\* crashes and restarts, whatever the length of the day and the rotation time, as
\* long as that time does not come round while a file is being changed (Tick).
THEOREM DaysApart == FileSinksSpec => []OneDayPerFile
<1>1. FileSinksInit => DailyInv
  BY DaysBegin
<1>2. DailyInv /\ [FileSinksNext]_fileSinkVars => DailyInv'
  <2> SUFFICES ASSUME DailyInv, UNCHANGED fileSinkVars
               PROVE  DailyInv'
    BY DaysAreKept
  <2>1. /\ kind' = kind /\ clock' = clock /\ taken' = taken /\ filename' = filename
        /\ rotation_tp' = rotation_tp /\ files' = files /\ step' = step /\ line' = line
        /\ mutex' = mutex /\ fd' = fd /\ unsaved' = unsaved /\ opened' = opened
    BY DEF fileSinkVars, fileVars, boundVars
  <2>2. Buffered' <=> Buffered
    BY <2>1 DEF Buffered
  <2>3. \A t \in LogThreads : Keeps(t)' <=> Keeps(t)
    BY <2>1 DEF Keeps
  <2> QED
    BY <2>1, <2>2, <2>3 DEF DailyInv
<1>3. DailyInv => OneDayPerFile
  <2> SUFFICES ASSUME DailyInv, kind = "daily", NEW n \in DOMAIN files,
                      NEW i \in 1 .. MaxMessages, i \in DOMAIN files[n]
               PROVE  DayOf(files[n][i].at) = DayOf(n)
    BY DEF OneDayPerFile
  <2>1. files[n] \in Seq(InFile(n))
    BY DEF DailyInv, FilesOfDays
  <2>2. files[n][i] \in InFile(n)
    BY <2>1, ElementOfSeq
  <2> QED
    BY <2>2 DEF InFile
<1> QED
  BY <1>1, <1>2, <1>3, PTL DEF FileSinksSpec
-----------------------------------------------------------------------------
(* The rotating sink: what Length and Kept compute.                        *)

\* Induction over the natural numbers, for a set.
LEMMA SetInduction ==
  ASSUME NEW S, 0 \in S, \A n \in Nat : n \in S => n + 1 \in S
  PROVE  Nat \subseteq S
<1> DEFINE R == {ss \in Nat \X Nat : ss[1] < ss[2]}
           T == Nat \ S
<1>1. IsWellFoundedOn(R, Nat)
  BY NatLessThanWellFounded DEF OpToRel
<1>2. SUFFICES ASSUME T # {}
               PROVE  FALSE
  OBVIOUS
<1>3. PICK x \in T : \A y \in T : ~ (<<y, x>> \in R)
  <2>1. T \subseteq Nat
    OBVIOUS
  <2> HIDE DEF R, T
  <2> QED
    BY <1>1, <1>2, <2>1, WFMin
<1>4. x \in Nat /\ x # 0 /\ x \notin S
  OBVIOUS
<1>5. PICK y \in Nat : x = y + 1
  BY <1>4
<1>6. <<y, x>> \in R
  BY <1>5
<1>7. y \notin T
  BY <1>3, <1>6
<1> QED
  BY <1>4, <1>5, <1>7

Message == [id : Nat, size : Nat, at : Nat]

\* f is the function Length is defined by, up to the nth message.
SumsUpTo(f, q, n) ==
  f = [i \in 0 .. n |-> IF i = 0 THEN 0 ELSE f[i - 1] + q[i].size]

LEMMA SumsExist ==
  ASSUME NEW q, NEW n \in Nat
  PROVE  \E f : SumsUpTo(f, q, n)
<1> DEFINE T == {k \in Nat : \E f : SumsUpTo(f, q, k)}
<1>1. 0 \in T
  <2>1. SumsUpTo([i \in 0 .. 0 |-> 0], q, 0)
    BY DEF SumsUpTo
  <2> QED
    BY <2>1
<1>2. ASSUME NEW k \in Nat, k \in T
      PROVE  k + 1 \in T
  <2>1. PICK g : SumsUpTo(g, q, k)
    BY <1>2
  <2> DEFINE more(f, i) == IF i = 0 THEN 0 ELSE f[i - 1] + q[i].size
             h == [i \in 0 .. k + 1 |-> more(g, i)]
  <2>2. ASSUME NEW i \in 0 .. k
        PROVE  h[i] = g[i]
    <3>1. i \in 0 .. k + 1
      OBVIOUS
    <3>2. h[i] = more(g, i)
      BY <3>1
    <3>3. g[i] = more(g, i)
      BY <2>1, Zenon DEF SumsUpTo
    <3> QED
      BY <3>2, <3>3
  <2>3. \A i \in 0 .. k + 1 : i # 0 => i - 1 \in 0 .. k
    OBVIOUS
  <2>4. \A i \in 0 .. k + 1 : i # 0 => h[i - 1] = g[i - 1]
    BY <2>2, <2>3
  <2>5. SumsUpTo(h, q, k + 1)
    BY <2>4 DEF SumsUpTo
  <2> QED
    BY <2>5
<1>3. n \in T
  <2> HIDE DEF T
  <2> QED
    BY <1>1, <1>2, SetInduction
<1> QED
  BY <1>3

\* Sums over the same messages are the same, and they do not decrease.
LEMMA SumsAgree ==
  ASSUME NEW q \in Seq(Message), NEW r \in Seq(Message), NEW m \in Nat, NEW n \in Nat,
         NEW f, NEW g, SumsUpTo(f, q, m), SumsUpTo(g, r, n), m <= n,
         m <= Len(q), n <= Len(r), \A i \in 1 .. m : q[i] = r[i]
  PROVE  f[m] = g[m] /\ f[m] \in Nat /\ g[n] \in Nat /\ f[m] <= g[n]
<1> DEFINE T == {k \in Nat : k <= m => f[k] = g[k] /\ f[k] \in Nat}
           U == {k \in Nat : m + k <= n => g[m + k] \in Nat /\ f[m] <= g[m + k]}
<1>1. \A i \in 0 .. m : f[i] = IF i = 0 THEN 0 ELSE f[i - 1] + q[i].size
  BY Zenon DEF SumsUpTo
<1>2. \A i \in 0 .. n : g[i] = IF i = 0 THEN 0 ELSE g[i - 1] + r[i].size
  BY Zenon DEF SumsUpTo
<1>3. 0 \in T
  BY <1>1, <1>2
<1>4. ASSUME NEW k \in Nat, k \in T
      PROVE  k + 1 \in T
  <2> SUFFICES ASSUME k + 1 <= m
               PROVE  f[k + 1] = g[k + 1] /\ f[k + 1] \in Nat
    OBVIOUS
  <2>1. f[k] = g[k] /\ f[k] \in Nat
    BY <1>4
  <2>2. q[k + 1] = r[k + 1] /\ q[k + 1] \in Message
    <3>1. k + 1 \in 1 .. m /\ k + 1 \in 1 .. Len(q)
      OBVIOUS
    <3> QED
      BY <3>1, ElementOfSeq
  <2>3. q[k + 1].size \in Nat
    BY <2>2 DEF Message
  <2>4. k + 1 \in 0 .. m /\ k + 1 \in 0 .. n /\ k + 1 # 0 /\ k + 1 - 1 = k
    OBVIOUS
  <2>5. f[k + 1] = f[k] + q[k + 1].size /\ g[k + 1] = g[k] + r[k + 1].size
    BY <1>1, <1>2, <2>4
  <2> QED
    BY <2>1, <2>2, <2>3, <2>5
<1>5. f[m] = g[m] /\ f[m] \in Nat
  <2>1. Nat \subseteq T
    <3> HIDE DEF T
    <3> QED
      BY <1>3, <1>4, SetInduction
  <2> QED
    BY <2>1
<1>6. 0 \in U
  BY <1>5
<1>7. ASSUME NEW k \in Nat, k \in U
      PROVE  k + 1 \in U
  <2> SUFFICES ASSUME m + (k + 1) <= n
               PROVE  g[m + (k + 1)] \in Nat /\ f[m] <= g[m + (k + 1)]
    OBVIOUS
  <2>1. PICK j \in Nat : j = m + k
    OBVIOUS
  <2>2. g[j] \in Nat /\ f[m] <= g[j]
    BY <1>7, <2>1
  <2>3. j + 1 \in 0 .. n /\ j + 1 # 0 /\ j + 1 - 1 = j /\ j + 1 \in 1 .. Len(r)
    BY <2>1
  <2>4. r[j + 1].size \in Nat
    <3>1. r[j + 1] \in Message
      BY <2>3, ElementOfSeq
    <3> QED
      BY <3>1 DEF Message
  <2>5. g[j + 1] = g[j] + r[j + 1].size
    BY <1>2, <2>3
  <2>6. m + (k + 1) = j + 1
    BY <2>1
  <2> QED
    BY <1>5, <2>2, <2>4, <2>5, <2>6
<1>8. g[n] \in Nat /\ f[m] <= g[n]
  <2>1. Nat \subseteq U
    <3> HIDE DEF U
    <3> QED
      BY <1>6, <1>7, SetInduction
  <2>2. PICK k \in Nat : n = m + k
    <3>1. n - m \in Nat /\ n = m + (n - m)
      OBVIOUS
    <3> QED
      BY <3>1
  <2>3. k \in U
    BY <2>1
  <2>4. m + k <= n => g[m + k] \in Nat /\ f[m] <= g[m + k]
    BY <2>3
  <2> HIDE DEF U
  <2> QED
    BY <2>2, <2>4
<1> QED
  BY <1>5, <1>8

LEMMA LengthSums ==
  ASSUME NEW q \in Seq(Message)
  PROVE  \E f : SumsUpTo(f, q, Len(q)) /\ Length(q) = f[Len(q)]
<1> DEFINE l == Len(q)
           f == CHOOSE g : SumsUpTo(g, q, l)
<1>1. l \in Nat
  OBVIOUS
<1>2. SumsUpTo(f, q, l)
  BY <1>1, SumsExist
<1>3. Length(q) = f[l]
  BY DEF Length, SumsUpTo
<1> QED
  BY <1>2, <1>3

\* One message more.
LEMMA LengthOfAppend ==
  ASSUME NEW q \in Seq(Message), NEW e \in Message
  PROVE  Length(q) \in Nat /\ Length(Append(q, e)) = Length(q) + e.size
<1>0. PICK l \in Nat : l = Len(q)
  OBVIOUS
<1>1. PICK r : l = Len(q) /\ r = Append(q, e)
  BY <1>0
<1>2. r \in Seq(Message) /\ Len(r) = l + 1 /\ r[l + 1] = e
      /\ \A i \in 1 .. l : q[i] = r[i]
  BY <1>1, AppendProperties
<1>3. PICK f : SumsUpTo(f, q, l) /\ Length(q) = f[l]
  BY <1>1, LengthSums
<1>4. PICK g : SumsUpTo(g, r, l + 1) /\ Length(r) = g[l + 1]
  BY <1>2, LengthSums
<1>5. f[l] = g[l] /\ f[l] \in Nat
  <2>1. PICK k \in Nat : k = l + 1
    OBVIOUS
  <2>2. SumsUpTo(g, r, k) /\ l <= k /\ l <= Len(q) /\ k <= Len(r)
    BY <1>1, <1>2, <1>4, <2>1
  <2> QED
    BY <1>2, <1>3, <2>2, SumsAgree
<1>6. g[l + 1] = g[l] + r[l + 1].size
  <2>1. \A i \in 0 .. l + 1 : g[i] = IF i = 0 THEN 0 ELSE g[i - 1] + r[i].size
    BY <1>4, Zenon DEF SumsUpTo
  <2>2. l + 1 \in 0 .. l + 1 /\ l + 1 # 0 /\ l + 1 - 1 = l
    OBVIOUS
  <2> QED
    BY <2>1, <2>2
<1> QED
  BY <1>1, <1>2, <1>3, <1>4, <1>5, <1>6

LEMMA LengthOfNothing == Length(<<>>) = 0
<1>1. <<>> \in Seq(Message) /\ Len(<<>>) = 0
  BY EmptySeq
<1>2. PICK q : q = <<>>
  OBVIOUS
<1>3. PICK f : SumsUpTo(f, q, 0) /\ Length(q) = f[0]
  BY <1>1, <1>2, LengthSums
<1>4. f[0] = 0
  <2>1. \A i \in 0 .. 0 : f[i] = IF i = 0 THEN 0 ELSE f[i - 1] + q[i].size
    BY <1>3, Zenon DEF SumsUpTo
  <2> QED
    BY <2>1
<1> QED
  BY <1>2, <1>3, <1>4

\* The beginning of a file is no longer than the file.
LEMMA LengthOfBeginning ==
  ASSUME NEW q \in Seq(Message), NEW m \in Nat, m <= Len(q)
  PROVE  /\ SubSeq(q, 1, m) \in Seq(Message) /\ Len(SubSeq(q, 1, m)) = m
         /\ \A i \in 1 .. m : SubSeq(q, 1, m)[i] = q[i]
         /\ Length(SubSeq(q, 1, m)) <= Length(q)
         /\ Length(SubSeq(q, 1, m)) \in Nat /\ Length(q) \in Nat
<1>0. PICK l \in Nat : l = Len(q)
  OBVIOUS
<1>1. PICK r : l = Len(q) /\ r = SubSeq(q, 1, m)
  BY <1>0
<1>2. r \in Seq(Message) /\ Len(r) = m /\ \A i \in 1 .. m : r[i] = q[i]
  BY <1>1, SubSeqProperties
<1>3. PICK f : SumsUpTo(f, r, m) /\ Length(r) = f[m]
  BY <1>2, LengthSums
<1>4. PICK g : SumsUpTo(g, q, l) /\ Length(q) = g[l]
  BY <1>1, LengthSums
<1>5. m <= Len(r) /\ l <= Len(q) /\ m <= l
  BY <1>1, <1>2
<1>6. f[m] \in Nat /\ g[l] \in Nat /\ f[m] <= g[l]
  BY <1>2, <1>3, <1>4, <1>5, SumsAgree
<1> QED
  BY <1>1, <1>2, <1>3, <1>4, <1>6

\* The messages of q are in order, and above the one number and up to the other;
\* they are all of them.
Arranged(q, low, high) ==
  /\ q \in Seq(Message) /\ low \in Nat /\ high \in Nat /\ low <= high
  /\ \A i \in 1 .. Len(q) : low < q[i].id /\ q[i].id <= high
  /\ \A i \in 1 .. Len(q) : \A j \in 1 .. i - 1 : q[j].id < q[i].id
Dense(q, low, high) ==
  high = low + Len(q) /\ \A i \in 1 .. Len(q) : q[i].id = low + i

LEMMA ArrangedNothing ==
  ASSUME NEW a \in Nat, NEW c \in Nat, a <= c
  PROVE  Arranged(<<>>, a, c) /\ Dense(<<>>, a, a)
<1>1. PICK q : q = <<>>
  OBVIOUS
<1>2. q \in Seq(Message) /\ Len(q) = 0
  BY <1>1, EmptySeq
<1> QED
  BY <1>1, <1>2 DEF Arranged, Dense

LEMMA ArrangedJoined ==
  ASSUME NEW p, NEW q, NEW a, NEW b, NEW c, Arranged(p, a, b), Arranged(q, b, c)
  PROVE  /\ Arranged(p \o q, a, c)
         /\ Dense(p, a, b) /\ Dense(q, b, c) => Dense(p \o q, a, c)
<1>1. p \in Seq(Message) /\ q \in Seq(Message)
      /\ a \in Nat /\ b \in Nat /\ c \in Nat /\ a <= b /\ b <= c
  BY DEF Arranged
<1>2. PICK l \in Nat : l = Len(p)
  BY <1>1
<1>3. PICK m \in Nat : m = Len(q)
  BY <1>1
<1>4. PICK r : r = p \o q
  OBVIOUS
<1>5. /\ r \in Seq(Message) /\ Len(r) = l + m
      /\ \A i \in 1 .. l : r[i] = p[i]
      /\ \A i \in l + 1 .. l + m : r[i] = q[i - l]
  BY <1>1, <1>2, <1>3, <1>4, ConcatProperties
<1>6. \A i \in 1 .. l : p[i].id \in Nat /\ a < p[i].id /\ p[i].id <= b
  <2>1. \A i \in 1 .. l : p[i] \in Message
    BY <1>1, <1>2, ElementOfSeq
  <2>2. \A i \in 1 .. l : p[i].id \in Nat
    BY <2>1 DEF Message
  <2> QED
    BY <1>2, <2>2 DEF Arranged
<1>7. \A i \in 1 .. m : q[i].id \in Nat /\ b < q[i].id /\ q[i].id <= c
  <2>1. \A i \in 1 .. m : q[i] \in Message
    BY <1>1, <1>3, ElementOfSeq
  <2>2. \A i \in 1 .. m : q[i].id \in Nat
    BY <2>1 DEF Message
  <2> QED
    BY <1>3, <2>2 DEF Arranged
<1>8. \A i \in l + 1 .. l + m : i - l \in 1 .. m /\ i \notin 1 .. l
  OBVIOUS
<1>9. \A i \in 1 .. l + m : i \in 1 .. l \/ i \in l + 1 .. l + m
  OBVIOUS
<1>10. \A i \in 1 .. Len(r) : a < r[i].id /\ r[i].id <= c
  <2> SUFFICES ASSUME NEW i \in 1 .. l + m
               PROVE  a < r[i].id /\ r[i].id <= c
    BY <1>5
  <2>1. CASE i \in 1 .. l
    BY <1>1, <1>5, <1>6, <2>1
  <2>2. CASE i \in l + 1 .. l + m
    <3>1. PICK h : h = i - l
      OBVIOUS
    <3>2. h \in 1 .. m /\ r[i] = q[h]
      BY <1>5, <2>2, <3>1
    <3>3. q[h].id \in Nat /\ b < q[h].id /\ q[h].id <= c
      BY <1>7, <3>2
    <3> QED
      BY <1>1, <3>2, <3>3
  <2> QED
    BY <1>9, <2>1, <2>2
<1>11. \A i \in 1 .. Len(r) : \A j \in 1 .. i - 1 : r[j].id < r[i].id
  <2> SUFFICES ASSUME NEW i \in 1 .. l + m, NEW j \in 1 .. i - 1
               PROVE  r[j].id < r[i].id
    BY <1>5
  <2>1. CASE i \in 1 .. l
    <3>1. j \in 1 .. l /\ r[i] = p[i] /\ r[j] = p[j]
      BY <1>5, <2>1
    <3> QED
      BY <1>2, <2>1, <3>1 DEF Arranged
  <2>2. CASE i \in l + 1 .. l + m /\ j \in 1 .. l
    <3>1. r[i] = q[i - l] /\ r[j] = p[j] /\ i - l \in 1 .. m
      BY <1>5, <1>8, <2>2
    <3> QED
      BY <1>1, <1>6, <1>7, <2>2, <3>1
  <2>3. CASE i \in l + 1 .. l + m /\ j \in l + 1 .. l + m
    <3>1. PICK h : h = i - l
      OBVIOUS
    <3>2. PICK k : k = j - l
      OBVIOUS
    <3>3. h \in 1 .. m /\ k \in 1 .. h - 1 /\ r[i] = q[h] /\ r[j] = q[k]
      BY <1>5, <2>3, <3>1, <3>2
    <3> QED
      BY <1>3, <3>3 DEF Arranged
  <2>4. j \in 1 .. l \/ j \in l + 1 .. l + m
    OBVIOUS
  <2> QED
    BY <1>9, <2>1, <2>2, <2>3, <2>4
<1>12. ASSUME Dense(p, a, b), Dense(q, b, c)
       PROVE  Dense(r, a, c)
  <2>1. b = a + l /\ c = b + m
    BY <1>2, <1>3, <1>12 DEF Dense
  <2>2. ASSUME NEW i \in 1 .. l + m
        PROVE  r[i].id = a + i
    <3>1. CASE i \in 1 .. l
      BY <1>2, <1>5, <1>12, <3>1 DEF Dense
    <3>2. CASE i \in l + 1 .. l + m
      <4>1. PICK h : h = i - l
        OBVIOUS
      <4>2. h \in 1 .. m /\ r[i] = q[h]
        BY <1>5, <3>2, <4>1
      <4>3. q[h].id = b + h
        BY <1>3, <1>12, <4>2 DEF Dense
      <4> QED
        BY <1>1, <2>1, <3>2, <4>1, <4>2, <4>3
    <3> QED
      BY <1>9, <3>1, <3>2
  <2>3. c = a + Len(r)
    BY <1>1, <1>5, <2>1
  <2>4. \A i \in 1 .. Len(r) : r[i].id = a + i
    BY <1>5, <2>2
  <2> QED
    BY <2>3, <2>4 DEF Dense
<1> QED
  BY <1>1, <1>4, <1>5, <1>10, <1>11, <1>12 DEF Arranged

\* The messages of the nth file are those above b[n + 1] and up to b[n].
Bounds == [0 .. MaxFiles + 1 -> Nat]
Ordered(fs, b) ==
  \A n \in 0 .. MaxFiles :
    b[n + 1] <= b[n] /\ (n \in DOMAIN fs => Arranged(fs[n], b[n + 1], b[n]))
Gapless(fs, b) ==
  \A n \in 0 .. MaxFiles :
    IF n \in DOMAIN fs THEN Dense(fs[n], b[n + 1], b[n]) ELSE b[n] = b[n + 1]

ContentsOf(n) == IF Exists(n) THEN files[n] ELSE <<>>

\* g is the function Kept is defined by, counted from the oldest file.
KeepsUpTo(g, n) ==
  g = [j \in 0 .. n |->
        IF j = 0 THEN <<>> ELSE g[j - 1] \o ContentsOf(MaxFiles + 1 - j)]

LEMMA KeepsExist ==
  ASSUME NEW n \in Nat
  PROVE  \E g : KeepsUpTo(g, n)
<1> DEFINE T == {k \in Nat : \E g : KeepsUpTo(g, k)}
<1>1. 0 \in T
  <2>1. KeepsUpTo([i \in 0 .. 0 |-> <<>>], 0)
    BY DEF KeepsUpTo
  <2> QED
    BY <2>1
<1>2. ASSUME NEW k \in Nat, k \in T
      PROVE  k + 1 \in T
  <2>1. PICK g : KeepsUpTo(g, k)
    BY <1>2
  <2> DEFINE more(f, i) == IF i = 0 THEN <<>>
                           ELSE f[i - 1] \o ContentsOf(MaxFiles + 1 - i)
             h == [i \in 0 .. k + 1 |-> more(g, i)]
  <2>2. ASSUME NEW i \in 0 .. k
        PROVE  h[i] = g[i]
    <3>1. i \in 0 .. k + 1
      OBVIOUS
    <3>2. h[i] = more(g, i)
      BY <3>1
    <3>3. g[i] = more(g, i)
      BY <2>1, Zenon DEF KeepsUpTo
    <3> QED
      BY <3>2, <3>3
  <2>3. \A i \in 0 .. k + 1 : i # 0 => i - 1 \in 0 .. k
    OBVIOUS
  <2>4. \A i \in 0 .. k + 1 : i # 0 => h[i - 1] = g[i - 1]
    BY <2>2, <2>3
  <2>5. KeepsUpTo(h, k + 1)
    BY <2>4 DEF KeepsUpTo
  <2> QED
    BY <2>5
<1>3. n \in T
  <2> HIDE DEF T
  <2> QED
    BY <1>1, <1>2, SetInduction
<1> QED
  BY <1>3

\* f is the function Kept is defined by.
KeepsFrom(f) ==
  f = [i \in 0 .. MaxFiles + 1 |->
        IF i > MaxFiles THEN <<>> ELSE f[i + 1] \o (IF Exists(i) THEN files[i] ELSE <<>>)]

LEMMA KeptIs == \E f : KeepsFrom(f) /\ Kept = f[0]
<1>1. PICK m \in Nat : m = MaxFiles
  BY FileSinksAssumption
<1>2. PICK g : KeepsUpTo(g, m + 1)
  BY KeepsExist
<1>3. \A j \in 0 .. m + 1 :
        g[j] = IF j = 0 THEN <<>> ELSE g[j - 1] \o ContentsOf(m + 1 - j)
  BY <1>1, <1>2, Zenon DEF KeepsUpTo
<1> DEFINE f == [i \in 0 .. m + 1 |-> g[m + 1 - i]]
<1>4. ASSUME NEW i \in 0 .. m + 1
      PROVE  f[i] = IF i > m THEN <<>> ELSE f[i + 1] \o ContentsOf(i)
  <2>1. PICK j \in 0 .. m + 1 : j = m + 1 - i
    OBVIOUS
  <2>2. f[i] = g[j]
    BY <2>1
  <2>3. CASE i > m
    <3>1. j = 0
      BY <2>1, <2>3
    <3> QED
      BY <1>3, <2>2, <2>3, <3>1
  <2>4. CASE ~(i > m)
    <3>1. j # 0 /\ m + 1 - j = i /\ j - 1 = m + 1 - (i + 1) /\ i + 1 \in 0 .. m + 1
      BY <2>1, <2>4
    <3>2. f[i + 1] = g[j - 1]
      BY <3>1
    <3>3. g[j] = g[j - 1] \o ContentsOf(i)
      BY <1>3, <3>1
    <3> HIDE DEF f
    <3> QED
      BY <2>2, <2>4, <3>2, <3>3
  <2> QED
    BY <2>3, <2>4
<1>5. KeepsFrom(f)
  <2>1. f = [i \in 0 .. m + 1 |-> f[i]]
    OBVIOUS
  <2> HIDE DEF f
  <2>2. \A i \in 0 .. m + 1 :
          f[i] = IF i > m THEN <<>> ELSE f[i + 1] \o (IF Exists(i) THEN files[i] ELSE <<>>)
    BY <1>4 DEF ContentsOf
  <2> QED
    BY <1>1, <2>1, <2>2 DEF KeepsFrom
<1> DEFINE c == CHOOSE h : KeepsFrom(h)
<1> HIDE DEF f
<1>6. KeepsFrom(c)
  BY <1>5
<1>7. Kept = c[0]
  BY DEF Kept, KeepsFrom
<1> QED
  BY <1>6, <1>7

\* Read from the last file to the first, the messages are as they are in the files.
LEMMA KeptArranged ==
  ASSUME NEW b \in Bounds, Ordered(files, b)
  PROVE  /\ Arranged(Kept, b[MaxFiles + 1], b[0])
         /\ Gapless(files, b) => Dense(Kept, b[MaxFiles + 1], b[0])
<1>1. PICK m \in Nat : m = MaxFiles
  BY FileSinksAssumption
<1>2. PICK f : KeepsFrom(f) /\ Kept = f[0]
  BY KeptIs
<1>3. \A i \in 0 .. m + 1 : f[i] = IF i > m THEN <<>> ELSE f[i + 1] \o ContentsOf(i)
  BY <1>1, <1>2, Zenon DEF KeepsFrom, ContentsOf
<1>4. \A i \in 0 .. m + 1 : b[i] \in Nat
  BY <1>1 DEF Bounds
<1>5. ASSUME NEW i \in 0 .. m
      PROVE  /\ Arranged(ContentsOf(i), b[i + 1], b[i])
             /\ Gapless(files, b) => Dense(ContentsOf(i), b[i + 1], b[i])
  <2>1. CASE Exists(i)
    BY <1>1, <2>1 DEF Ordered, Gapless, Exists, ContentsOf
  <2>2. CASE ~Exists(i)
    <3>1. i \in 0 .. m + 1 /\ i + 1 \in 0 .. m + 1
      OBVIOUS
    <3>2. b[i] \in Nat /\ b[i + 1] \in Nat /\ b[i + 1] <= b[i]
      BY <1>1, <1>4, <3>1 DEF Ordered
    <3>3. Gapless(files, b) => b[i] = b[i + 1]
      BY <1>1, <2>2 DEF Gapless, Exists
    <3>4. ContentsOf(i) = <<>>
      BY <2>2 DEF ContentsOf
    <3>5. Arranged(<<>>, b[i + 1], b[i]) /\ Dense(<<>>, b[i + 1], b[i + 1])
      BY <3>2, ArrangedNothing
    <3> QED
      BY <3>3, <3>4, <3>5
  <2> QED
    BY <2>1, <2>2
<1> DEFINE Good(i) == /\ Arranged(f[i], b[m + 1], b[i])
                      /\ Gapless(files, b) => Dense(f[i], b[m + 1], b[i])
           T == {j \in Nat : j <= m + 1 => Good(m + 1 - j)}
<1>6. 0 \in T
  <2>1. m + 1 \in 0 .. m + 1 /\ m + 1 > m /\ m + 1 - 0 = m + 1
    OBVIOUS
  <2>2. f[m + 1] = <<>> /\ b[m + 1] \in Nat
    BY <1>3, <1>4, <2>1
  <2>3. Arranged(<<>>, b[m + 1], b[m + 1]) /\ Dense(<<>>, b[m + 1], b[m + 1])
    BY <2>2, ArrangedNothing
  <2>4. Good(m + 1)
    BY <2>2, <2>3
  <2> HIDE DEF Good
  <2> QED
    BY <2>1, <2>4
<1>7. ASSUME NEW j \in Nat, j \in T
      PROVE  j + 1 \in T
  <2> SUFFICES ASSUME j + 1 <= m + 1
               PROVE  Good(m + 1 - (j + 1))
    OBVIOUS
  <2>1. PICK i \in 0 .. m : i = m + 1 - (j + 1)
    OBVIOUS
  <2>2. i + 1 = m + 1 - j /\ j <= m + 1
    BY <2>1
  <2>3. Good(i + 1)
    BY <1>7, <2>2
  <2>4. f[i] = f[i + 1] \o ContentsOf(i)
    <3>1. i \in 0 .. m + 1 /\ ~(i > m)
      OBVIOUS
    <3> QED
      BY <1>3, <3>1
  <2>5. Good(i)
    BY <1>5, <2>3, <2>4, ArrangedJoined
  <2> HIDE DEF Good
  <2> QED
    BY <2>1, <2>5
<1>8. Good(0)
  <2>1. m + 1 \in T
    <3> HIDE DEF T
    <3> QED
      BY <1>6, <1>7, SetInduction
  <2>2. Good(m + 1 - (m + 1)) /\ m + 1 - (m + 1) = 0
    BY <2>1
  <2> HIDE DEF Good
  <2> QED
    BY <2>2
<1> QED
  BY <1>1, <1>2, <1>8

-----------------------------------------------------------------------------
(* What becomes of the files.                                              *)

\* No file is longer than it may be.
ShortEnough(q) == Len(q) > 1 => Length(q) <= MaxSize
FilesOfMessages(fs) ==
  /\ DOMAIN fs \subseteq 0 .. MaxFiles
  /\ \A n \in DOMAIN fs : fs[n] \in Seq(Message) /\ ShortEnough(fs[n])

LEMMA ArrangedWider ==
  ASSUME NEW q, NEW a, NEW b, Arranged(q, a, b), NEW c \in Nat, NEW d \in Nat,
         c <= a, b <= d
  PROVE  Arranged(q, c, d)
<1>1. /\ q \in Seq(Message) /\ a \in Nat /\ b \in Nat /\ a <= b
      /\ \A i \in 1 .. Len(q) : a < q[i].id /\ q[i].id <= b
  BY DEF Arranged
<1>2. \A i \in 1 .. Len(q) : q[i].id \in Nat
  <2>1. \A i \in 1 .. Len(q) : q[i] \in Message
    BY <1>1, ElementOfSeq
  <2> QED
    BY <2>1 DEF Message
<1>3. \A i \in 1 .. Len(q) : c < q[i].id /\ q[i].id <= d
  <2> SUFFICES ASSUME NEW i \in 1 .. Len(q)
               PROVE  c < q[i].id /\ q[i].id <= d
    OBVIOUS
  <2>1. PICK n \in Nat : n = q[i].id
    BY <1>2
  <2>2. a < n /\ n <= b
    BY <1>1, <2>1
  <2> QED
    BY <1>1, <2>1, <2>2
<1>4. c <= d
  BY <1>1
<1> QED
  BY <1>1, <1>3, <1>4 DEF Arranged

\* One file takes the place of the one after it, and leaves nothing where it was.
LEMMA Shifted ==
  ASSUME NEW fs, NEW gs, NEW b \in Bounds, NEW i \in 1 .. MaxFiles + 1,
         Ordered(fs, b),
         \A n \in 0 .. MaxFiles : n \in DOMAIN gs /\ n # i /\ n # i - 1 =>
           n \in DOMAIN fs /\ gs[n] = fs[n],
         i \in DOMAIN gs => i - 1 \in DOMAIN fs /\ gs[i] = fs[i - 1],
         i - 1 \in DOMAIN gs => gs[i - 1] = <<>>
  PROVE  \E c \in Bounds :
           /\ c[0] = b[0] /\ Ordered(gs, c)
           /\ i <= MaxFiles => c[MaxFiles + 1] = b[MaxFiles + 1]
           /\ /\ Gapless(fs, b) /\ i \notin DOMAIN fs
              /\ \A n \in 0 .. MaxFiles : n \in DOMAIN fs /\ n # i - 1 => n \in DOMAIN gs
              /\ i <= MaxFiles /\ i - 1 \in DOMAIN fs => i \in DOMAIN gs
              => Gapless(gs, c)
<1>1. PICK m \in Nat : m = MaxFiles
  BY FileSinksAssumption
<1> DEFINE c == [b EXCEPT ![i] = b[i - 1]]
<1>2. i \in 1 .. m + 1 /\ i - 1 \in 0 .. m /\ i # 0
  BY <1>1
<1>3. b = [n \in 0 .. m + 1 |-> b[n]] /\ \A n \in 0 .. m + 1 : b[n] \in Nat
  BY <1>1 DEF Bounds
<1>4. c[i] = b[i - 1] /\ \A n \in 0 .. m + 1 : n # i => c[n] = b[n]
  BY <1>2, <1>3
<1>5. c \in Bounds
  <2>1. \A n \in 0 .. m + 1 : c[n] \in Nat
    BY <1>2, <1>3, <1>4
  <2> QED
    BY <1>1, <1>3, <2>1 DEF Bounds
<1>6. \A n \in 0 .. m : b[n + 1] <= b[n] /\ n \in 0 .. m + 1 /\ n + 1 \in 0 .. m + 1
  BY <1>1 DEF Ordered
<1>7. \A n \in 0 .. m : n \in DOMAIN fs => Arranged(fs[n], b[n + 1], b[n])
  BY <1>1 DEF Ordered
<1> HIDE DEF c
<1>8. i - 1 + 1 = i
  BY <1>2
<1>9. ASSUME NEW n \in 0 .. m
      PROVE  c[n + 1] <= c[n] /\ (n \in DOMAIN gs => Arranged(gs[n], c[n + 1], c[n]))
  <2>1. CASE n = i
    <3>1. c[n] = b[i - 1] /\ c[n + 1] = b[i + 1] /\ b[i] <= b[i - 1] /\ b[i + 1] <= b[i]
      BY <1>2, <1>4, <1>6, <1>8, <2>1
    <3>2. b[i - 1] \in Nat /\ b[i] \in Nat /\ b[i + 1] \in Nat
      BY <1>2, <1>3, <1>6, <2>1
    <3>3. n \in DOMAIN gs => Arranged(gs[n], b[i], b[i - 1])
      BY <1>2, <1>7, <1>8, <2>1
    <3>4. n \in DOMAIN gs => Arranged(gs[n], b[i + 1], b[i - 1])
      BY <3>1, <3>2, <3>3, ArrangedWider
    <3> QED
      BY <3>1, <3>2, <3>4
  <2>2. CASE n = i - 1
    <3>1. c[n] = b[n] /\ c[n + 1] = b[n] /\ b[n] \in Nat
      BY <1>2, <1>3, <1>4, <1>6, <2>2
    <3>2. n \in DOMAIN gs => gs[n] = <<>>
      BY <2>2
    <3>3. Arranged(<<>>, b[n], b[n])
      BY <3>1, ArrangedNothing
    <3> QED
      BY <3>1, <3>2, <3>3
  <2>3. CASE n # i /\ n # i - 1
    <3>1. c[n] = b[n] /\ c[n + 1] = b[n + 1]
      BY <1>2, <1>4, <1>6, <2>3
    <3>2. n \in DOMAIN gs => n \in DOMAIN fs /\ gs[n] = fs[n]
      BY <1>1, <2>3
    <3> QED
      BY <1>6, <1>7, <3>1, <3>2
  <2> QED
    BY <2>1, <2>2, <2>3
<1>10. Ordered(gs, c)
  BY <1>1, <1>9 DEF Ordered
<1>11. ASSUME Gapless(fs, b), i \notin DOMAIN fs,
              \A n \in 0 .. MaxFiles : n \in DOMAIN fs /\ n # i - 1 => n \in DOMAIN gs,
              i <= MaxFiles /\ i - 1 \in DOMAIN fs => i \in DOMAIN gs
       PROVE  Gapless(gs, c)
  <2>1. \A n \in 0 .. m : IF n \in DOMAIN fs THEN Dense(fs[n], b[n + 1], b[n])
                                             ELSE b[n] = b[n + 1]
    BY <1>1, <1>11 DEF Gapless
  <2>2. ASSUME NEW n \in 0 .. m
        PROVE  IF n \in DOMAIN gs THEN Dense(gs[n], c[n + 1], c[n]) ELSE c[n] = c[n + 1]
    <3>1. CASE n = i
      <4>1. c[n] = b[i - 1] /\ c[n + 1] = b[i + 1] /\ b[i] = b[i + 1]
        BY <1>2, <1>4, <1>6, <1>11, <2>1, <3>1
      <4>2. IF i - 1 \in DOMAIN fs THEN Dense(fs[i - 1], b[i], b[i - 1])
                                   ELSE b[i - 1] = b[i]
        BY <1>2, <1>8, <2>1
      <4>3. n \in DOMAIN gs <=> i - 1 \in DOMAIN fs
        BY <1>1, <1>11, <3>1
      <4>4. n \in DOMAIN gs => gs[n] = fs[i - 1]
        BY <3>1
      <4> QED
        BY <4>1, <4>2, <4>3, <4>4
    <3>2. CASE n = i - 1
      <4>1. c[n] = b[n] /\ c[n + 1] = b[n] /\ b[n] \in Nat
        BY <1>2, <1>3, <1>4, <1>6, <3>2
      <4>2. n \in DOMAIN gs => gs[n] = <<>>
        BY <3>2
      <4>3. Dense(<<>>, b[n], b[n])
        BY <4>1, ArrangedNothing
      <4> QED
        BY <4>1, <4>2, <4>3
    <3>3. CASE n # i /\ n # i - 1
      <4>1. c[n] = b[n] /\ c[n + 1] = b[n + 1]
        BY <1>2, <1>4, <1>6, <3>3
      <4>2. n \in DOMAIN gs => n \in DOMAIN fs /\ gs[n] = fs[n]
        BY <1>1, <3>3
      <4>3. n \in DOMAIN fs => n \in DOMAIN gs
        BY <1>1, <1>11, <3>3
      <4> QED
        BY <2>1, <4>1, <4>2, <4>3
    <3> QED
      BY <3>1, <3>2, <3>3
  <2> QED
    BY <1>1, <2>2 DEF Gapless
<1>12. c[0] = b[0] /\ (i <= m => c[m + 1] = b[m + 1])
  BY <1>2, <1>4
<1> QED
  BY <1>1, <1>5, <1>10, <1>11, <1>12

\* A message is written to the file in use.
LEMMA Appended ==
  ASSUME NEW fs, NEW gs, NEW b \in Bounds, NEW e \in Message, Ordered(fs, b),
         0 \in DOMAIN fs, b[0] < e.id,
         DOMAIN gs = DOMAIN fs, gs[0] = Append(fs[0], e),
         \A n \in DOMAIN fs : n # 0 => gs[n] = fs[n]
  PROVE  \E c \in Bounds :
           /\ c[0] = e.id /\ Ordered(gs, c) /\ c[MaxFiles + 1] = b[MaxFiles + 1]
           /\ Gapless(fs, b) /\ e.id = b[0] + 1 => Gapless(gs, c)
<1>1. PICK m \in Nat : m = MaxFiles
  BY FileSinksAssumption
<1>2. b = [n \in 0 .. m + 1 |-> b[n]] /\ \A n \in 0 .. m + 1 : b[n] \in Nat
  BY <1>1 DEF Bounds
<1>3. e.id \in Nat
  BY DEF Message
<1> DEFINE c == [b EXCEPT ![0] = e.id]
<1>4. c[0] = e.id /\ c[1] = b[1] /\ \A n \in 0 .. m : c[n + 1] = b[n + 1]
  <2>1. c = [n \in 0 .. m + 1 |-> IF n = 0 THEN e.id ELSE b[n]]
    BY <1>2, Zenon
  <2>2. 0 \in 0 .. m + 1 /\ 1 \in 0 .. m + 1
    OBVIOUS
  <2>3. \A n \in 0 .. m : n + 1 \in 0 .. m + 1 /\ n + 1 # 0
    OBVIOUS
  <2> HIDE DEF c
  <2> QED
    BY <2>1, <2>2, <2>3
<1>5. c \in Bounds
  BY <1>1, <1>2, <1>3 DEF Bounds
<1> HIDE DEF c
<1>6. DOMAIN gs = DOMAIN fs /\ gs[0] = Append(fs[0], e)
      /\ \A n \in DOMAIN fs : n # 0 => gs[n] = fs[n]
  OBVIOUS
<1>7. PICK q : q = fs[0]
  OBVIOUS
<1>8. PICK low : low = b[1]
  OBVIOUS
<1>9. PICK r : r = Append(q, e)
  OBVIOUS
<1>10. Arranged(q, low, b[0]) /\ low <= b[0]
  BY <1>1, <1>7, <1>8 DEF Ordered
<1>11. q \in Seq(Message) /\ low \in Nat /\ b[0] \in Nat
       /\ \A i \in 1 .. Len(q) : low < q[i].id /\ q[i].id <= b[0]
  BY <1>10 DEF Arranged
<1>12. PICK l \in Nat : l = Len(q)
  BY <1>11
<1>13. /\ r \in Seq(Message) /\ Len(r) = l + 1 /\ r[l + 1] = e
       /\ \A i \in 1 .. l : r[i] = q[i]
  BY <1>9, <1>11, <1>12, AppendProperties
<1>14. \A i \in 1 .. l : q[i].id \in Nat
  <2>1. \A i \in 1 .. l : q[i] \in Message
    BY <1>11, <1>12, ElementOfSeq
  <2> QED
    BY <2>1 DEF Message
<1>15. Arranged(r, low, e.id)
  <2>1. ASSUME NEW i \in 1 .. l + 1
        PROVE  low < r[i].id /\ r[i].id <= e.id
    <3>1. CASE i = l + 1
      BY <1>3, <1>10, <1>11, <1>13, <3>1
    <3>2. CASE i \in 1 .. l
      <4>1. PICK n \in Nat : n = q[i].id
        BY <1>14, <3>2
      <4>2. low < n /\ n <= b[0] /\ r[i].id = n
        BY <1>11, <1>12, <1>13, <3>2, <4>1
      <4> QED
        BY <1>3, <1>11, <4>2
    <3> QED
      BY <3>1, <3>2
  <2>2. ASSUME NEW i \in 1 .. l + 1, NEW j \in 1 .. i - 1
        PROVE  r[j].id < r[i].id
    <3>1. CASE i = l + 1
      <4>1. j \in 1 .. l /\ r[j] = q[j] /\ r[i] = e
        BY <1>13, <3>1
      <4>2. PICK n \in Nat : n = q[j].id
        BY <1>14, <4>1
      <4>3. n <= b[0]
        BY <1>11, <1>12, <4>1, <4>2
      <4> QED
        BY <1>3, <1>11, <4>1, <4>2, <4>3
    <3>2. CASE i \in 1 .. l
      <4>1. r[i] = q[i] /\ r[j] = q[j]
        BY <1>13, <3>2
      <4> QED
        BY <1>10, <1>12, <3>2, <4>1 DEF Arranged
    <3> QED
      BY <3>1, <3>2
  <2>3. low <= e.id
    BY <1>3, <1>10, <1>11
  <2>4. /\ \A i \in 1 .. Len(r) : low < r[i].id /\ r[i].id <= e.id
        /\ \A i \in 1 .. Len(r) : \A j \in 1 .. i - 1 : r[j].id < r[i].id
    BY <1>13, <2>1, <2>2
  <2> QED
    BY <1>3, <1>11, <1>13, <2>3, <2>4 DEF Arranged
<1>16. Ordered(gs, c)
  <2>1. ASSUME NEW n \in 0 .. m
        PROVE  c[n + 1] <= c[n] /\ (n \in DOMAIN gs => Arranged(gs[n], c[n + 1], c[n]))
    <3>1. CASE n = 0
      <4>0. n + 1 = 1
        BY <3>1
      <4>1. c[n + 1] = low /\ c[n] = e.id
        BY <1>4, <1>8, <3>1, <4>0
      <4> QED
        BY <1>6, <1>7, <1>9, <1>15, <3>1, <4>1 DEF Arranged
    <3>2. CASE n # 0
      <4>1. n - 1 \in 0 .. m /\ n - 1 + 1 = n
        BY <3>2
      <4>2. c[n] = b[n] /\ c[n + 1] = b[n + 1]
        BY <1>4, <4>1
      <4>3. b[n + 1] <= b[n] /\ (n \in DOMAIN fs => Arranged(fs[n], b[n + 1], b[n]))
        BY <1>1 DEF Ordered
      <4> QED
        BY <1>6, <3>2, <4>2, <4>3
    <3> QED
      BY <3>1, <3>2
  <2> QED
    BY <1>1, <2>1 DEF Ordered
<1>17. ASSUME Gapless(fs, b), e.id = b[0] + 1
       PROVE  Gapless(gs, c)
  <2>1. Dense(q, low, b[0])
    BY <1>1, <1>7, <1>8, <1>17 DEF Gapless
  <2>2. b[0] = low + l /\ \A i \in 1 .. l : q[i].id = low + i
    BY <1>12, <2>1 DEF Dense
  <2>3. ASSUME NEW i \in 1 .. l + 1
        PROVE  r[i].id = low + i
    <3>1. CASE i = l + 1
      BY <1>11, <1>13, <1>17, <2>2, <3>1
    <3>2. CASE i \in 1 .. l
      BY <1>13, <2>2, <3>2
    <3> QED
      BY <3>1, <3>2
  <2>4. Dense(r, low, e.id)
    <3>1. e.id = low + Len(r)
      BY <1>11, <1>13, <1>17, <2>2
    <3>2. \A i \in 1 .. Len(r) : r[i].id = low + i
      BY <1>13, <2>3
    <3> QED
      BY <3>1, <3>2 DEF Dense
  <2>5. ASSUME NEW n \in 0 .. m
        PROVE  IF n \in DOMAIN gs THEN Dense(gs[n], c[n + 1], c[n]) ELSE c[n] = c[n + 1]
    <3>1. CASE n = 0
      <4>0. n + 1 = 1
        BY <3>1
      <4>1. c[n + 1] = low /\ c[n] = e.id
        BY <1>4, <1>8, <3>1, <4>0
      <4> QED
        BY <1>6, <1>7, <1>9, <2>4, <3>1, <4>1
    <3>2. CASE n # 0
      <4>1. n - 1 \in 0 .. m /\ n - 1 + 1 = n
        BY <3>2
      <4>2. c[n] = b[n] /\ c[n + 1] = b[n + 1]
        BY <1>4, <4>1
      <4>3. IF n \in DOMAIN fs THEN Dense(fs[n], b[n + 1], b[n]) ELSE b[n] = b[n + 1]
        BY <1>1, <1>17 DEF Gapless
      <4> QED
        BY <1>6, <3>2, <4>2, <4>3
    <3> QED
      BY <3>1, <3>2
  <2> QED
    BY <1>1, <2>5 DEF Gapless
<1>18. c[m + 1] = b[m + 1]
  BY <1>4
<1> QED
  BY <1>1, <1>4, <1>5, <1>16, <1>17, <1>18

\* An empty file in use.
LEMMA NewFile ==
  ASSUME NEW gs, gs = WithFile(0, <<>>), FilesOfMessages(files)
  PROVE  /\ FilesOfMessages(gs) /\ DOMAIN gs = DOMAIN files \cup {0} /\ gs[0] = <<>>
         /\ \A n \in DOMAIN files : n # 0 => gs[n] = files[n]
         /\ 0 \notin DOMAIN files => \A b \in Bounds : Ordered(files, b) =>
              Ordered(gs, b) /\ (Gapless(files, b) => Gapless(gs, b))
<1>1. PICK m \in Nat : m = MaxFiles
  BY FileSinksAssumption
<1>2. gs = [n \in DOMAIN files \cup {0} |-> IF n = 0 THEN <<>> ELSE files[n]]
  BY DEF WithFile
<1>3. DOMAIN gs = DOMAIN files \cup {0} /\ gs[0] = <<>>
      /\ \A n \in DOMAIN files : n # 0 => gs[n] = files[n]
  BY <1>2
<1>4. <<>> \in Seq(Message) /\ ShortEnough(<<>>)
  BY EmptySeq DEF ShortEnough
<1>5. FilesOfMessages(gs)
  <2>1. 0 \in 0 .. MaxFiles
    BY <1>1
  <2>2. \A n \in DOMAIN gs : gs[n] = <<>> \/ (n \in DOMAIN files /\ gs[n] = files[n])
    BY <1>3
  <2> QED
    BY <1>3, <1>4, <2>1, <2>2 DEF FilesOfMessages
<1>6. ASSUME 0 \notin DOMAIN files, NEW b \in Bounds, Ordered(files, b)
      PROVE  Ordered(gs, b) /\ (Gapless(files, b) => Gapless(gs, b))
  <2>1. \A n \in 0 .. m : b[n + 1] <= b[n]
    BY <1>1, <1>6 DEF Ordered
  <2>2. b[0] \in Nat /\ b[1] \in Nat
    BY <1>1 DEF Bounds
  <2>3. Arranged(<<>>, b[1], b[0]) /\ Dense(<<>>, b[1], b[1])
    <3>1. 0 \in 0 .. m /\ 0 + 1 = 1
      OBVIOUS
    <3> QED
      BY <2>1, <2>2, <3>1, ArrangedNothing
  <2>4. ASSUME NEW n \in 0 .. m
        PROVE  /\ n \in DOMAIN gs => Arranged(gs[n], b[n + 1], b[n])
               /\ Gapless(files, b) =>
                    IF n \in DOMAIN gs THEN Dense(gs[n], b[n + 1], b[n]) ELSE b[n] = b[n + 1]
    <3>1. CASE n = 0
      <4>1. n + 1 = 1
        BY <3>1
      <4>2. Gapless(files, b) => b[0] = b[1]
        BY <1>1, <1>6, <3>1, <4>1 DEF Gapless
      <4> QED
        BY <1>3, <2>3, <3>1, <4>1, <4>2
    <3>2. CASE n # 0
      BY <1>1, <1>3, <1>6, <3>2 DEF Ordered, Gapless
    <3> QED
      BY <3>1, <3>2
  <2> QED
    BY <1>1, <2>1, <2>4 DEF Ordered, Gapless
<1> QED
  BY <1>3, <1>5, <1>6

\* What is lost is the end of the file in use.
LEMMA EndOfOrderIsLost ==
  ASSUME FilesOfMessages(files), Buffered, Lose, filename = 0,
         NEW b \in Bounds, Ordered(files, b)
  PROVE  FilesOfMessages(files') /\ Ordered(files', b)
<1>1. CASE fd = 0
  BY <1>1 DEF Lose
<1>2. CASE fd # 0
  <2>1. 0 \in DOMAIN files /\ unsaved \in Nat /\ unsaved <= Len(files[0])
    BY <1>2 DEF Buffered
  <2>2. PICK q : q = files[0]
    OBVIOUS
  <2>3. q \in Seq(Message) /\ ShortEnough(q)
    BY <2>1, <2>2 DEF FilesOfMessages
  <2>4. PICK l \in Nat : l = Len(q)
    BY <2>3
  <2>5. PICK k \in Nat : k = l - unsaved /\ k <= l
    BY <2>1, <2>2, <2>4
  <2>6. PICK r : r = SubSeq(q, 1, k)
    OBVIOUS
  <2>7. /\ r \in Seq(Message) /\ Len(r) = k /\ \A i \in 1 .. k : r[i] = q[i]
        /\ Length(r) \in Nat /\ Length(q) \in Nat /\ Length(r) <= Length(q)
    BY <2>3, <2>4, <2>5, <2>6, LengthOfBeginning
  <2>8. ShortEnough(r)
    <3>1. k > 1 => l > 1
      BY <2>5
    <3>2. k > 1 => Length(q) <= MaxSize
      BY <2>3, <2>4, <3>1 DEF ShortEnough
    <3>3. MaxSize \in Nat
      BY FileSinksAssumption
    <3> QED
      BY <2>7, <3>2, <3>3 DEF ShortEnough
  <2>9. files' = [files EXCEPT ![0] = r]
    BY <1>2, <2>2, <2>4, <2>5, <2>6 DEF Lose
  <2>10. DOMAIN files' = DOMAIN files /\ files'[0] = r
         /\ \A n \in DOMAIN files : n # 0 => files'[n] = files[n]
    BY <2>1, <2>9
  <2>11. FilesOfMessages(files')
    BY <2>7, <2>8, <2>10 DEF FilesOfMessages
  <2>12. ASSUME NEW low, NEW high, Arranged(q, low, high)
         PROVE  Arranged(r, low, high)
    <3>1. \A i \in 1 .. k : i \in 1 .. l /\ \A j \in 1 .. i - 1 : j \in 1 .. k
      BY <2>5
    <3>2. \A i \in 1 .. Len(r) : low < r[i].id /\ r[i].id <= high
      BY <2>4, <2>7, <2>12, <3>1 DEF Arranged
    <3>3. \A i \in 1 .. Len(r) : \A j \in 1 .. i - 1 : r[j].id < r[i].id
      BY <2>4, <2>7, <2>12, <3>1 DEF Arranged
    <3> QED
      BY <2>7, <2>12, <3>2, <3>3 DEF Arranged
  <2>13. ASSUME NEW n \in 0 .. MaxFiles
         PROVE  b[n + 1] <= b[n] /\ (n \in DOMAIN files' => Arranged(files'[n], b[n + 1], b[n]))
    <3>1. b[n + 1] <= b[n] /\ (n \in DOMAIN files => Arranged(files[n], b[n + 1], b[n]))
      BY DEF Ordered
    <3> QED
      BY <2>2, <2>10, <2>12, <3>1
  <2> QED
    BY <2>11, <2>13 DEF Ordered
<1> QED
  BY <1>1, <1>2

-----------------------------------------------------------------------------
(* The rotating sink.                                                      *)

Rotating == {"close", "remove", "rename", "open", "write"}
RotatingSteps == {"down", "idle", "fflush", "sink"} \cup Rotating

\* How many messages were written, if none was lost.
Written == IF mutex = NoLogThread THEN taken ELSE taken - 1

\* There is a file before every file, or before every one but what comes after h.
WithoutHoles == \A n \in 0 .. MaxFiles : n + 1 \in DOMAIN files => n \in DOMAIN files
HoleAt(h) ==
  /\ \A n \in 0 .. MaxFiles : n + 1 \in DOMAIN files => n \in DOMAIN files \/ n = h
  /\ h # 0 /\ h + 1 \in DOMAIN files => h - 1 \in DOMAIN files

\* _rotate() has made place for the file before the one at index.
Moving(t) == step[t] \in {"rename", "open"} \/ (step[t] = "remove" /\ index # MaxFiles)

\* A file was dropped: there are as many as are kept, now or after this rename.
Full ==
  \/ MaxFiles \in DOMAIN files
  \/ /\ index = MaxFiles /\ MaxFiles - 1 \in DOMAIN files
     /\ \E t \in LogThreads : step[t] = "rename"

Placed(b) ==
  /\ Ordered(files, b) /\ b[0] <= Written
  /\ crashes = 0 => /\ Gapless(files, b) /\ b[0] = Written
                    /\ b[MaxFiles + 1] # 0 => Full

\* What a thread knows of its message and, with the lock, of the files.
Knows(t) ==
  /\ step[t] = "sink" => line[t].size \in Nat
  /\ step[t] \in Rotating =>
       /\ mutex = t /\ line[t] \in Message /\ line[t].id = taken
       /\ crashes = 0 => IF Moving(t) THEN HoleAt(index) ELSE WithoutHoles
  /\ step[t] \in {"remove", "rename", "open"} => fd = 0
  /\ step[t] = "remove" =>
       index \in 1 .. MaxFiles /\ (index # MaxFiles => index \notin DOMAIN files)
  /\ step[t] = "rename" => index \in 1 .. MaxFiles /\ index \notin DOMAIN files
  /\ step[t] = "open" => index = 0 /\ (MaxFiles # 0 => 0 \notin DOMAIN files)
  /\ step[t] = "write" =>
       /\ 0 \in DOMAIN files /\ Length(files[0]) + line[t].size = current_size
       /\ current_size <= MaxSize \/ files[0] = <<>>
  /\ step[t] = "down" /\ crashes = 0 => taken = 0 /\ DOMAIN files = {}

\* With nobody at it, the file in use is as long as the sink thinks.
AtRest ==
  mutex = NoLogThread =>
    /\ \A t \in LogThreads :
         step[t] # "down" => 0 \in DOMAIN files /\ Length(files[0]) = current_size
    /\ crashes = 0 => WithoutHoles

OrderInv ==
  kind = "rotating" =>
    /\ filename = 0 /\ taken \in Nat /\ current_size \in Nat
    /\ crashes \in Nat /\ index \in Nat
    /\ step \in [LogThreads -> RotatingSteps] /\ line = [t \in LogThreads |-> line[t]]
    /\ FilesOfMessages(files) /\ Buffered
    /\ mutex # NoLogThread => mutex \in LogThreads /\ step[mutex] \in Rotating
    /\ \A t, u \in LogThreads : step[t] = "down" => step[u] = "down"
    /\ \A t \in LogThreads : Knows(t)
    /\ AtRest
    /\ \E b \in Bounds : Placed(b)

LEMMA OrderBegins ==
  ASSUME FileSinksInit
  PROVE  OrderInv
<1> SUFFICES ASSUME kind = "rotating"
             PROVE  OrderInv
  BY DEF OrderInv
<1>1. /\ filename = 0 /\ taken = 0 /\ current_size = 0 /\ crashes = 0 /\ index = 0
      /\ fd = 0 /\ opened = 0 /\ unsaved = 0 /\ mutex = NoLogThread
  BY DEF FileSinksInit
<1>2. /\ step = [t \in LogThreads |-> "down"]
      /\ line = [t \in LogThreads |-> Nothing]
      /\ DOMAIN files = {}
  BY DEF FileSinksInit
<1>3. step \in [LogThreads -> RotatingSteps] /\ line = [t \in LogThreads |-> line[t]]
  BY <1>2 DEF RotatingSteps
<1>4. FilesOfMessages(files) /\ Buffered /\ WithoutHoles
  BY <1>1, <1>2 DEF FilesOfMessages, Buffered, WithoutHoles
<1>5. \A t \in LogThreads : Knows(t)
  BY <1>1, <1>2 DEF Knows, Rotating
<1>6. AtRest
  BY <1>2, <1>4 DEF AtRest
<1>7. \E b \in Bounds : Placed(b)
  <2> DEFINE b == [n \in 0 .. MaxFiles + 1 |-> 0]
  <2>1. MaxFiles \in Nat
    BY FileSinksAssumption
  <2>2. b \in Bounds
    BY DEF Bounds
  <2>3. \A n \in 0 .. MaxFiles : b[n] = 0 /\ b[n + 1] = 0
    BY <2>1
  <2>4. b[0] = 0 /\ b[MaxFiles + 1] = 0
    BY <2>1
  <2> HIDE DEF b
  <2>5. Ordered(files, b) /\ Gapless(files, b)
    BY <1>2, <2>3 DEF Ordered, Gapless
  <2>6. Written = 0
    BY <1>1 DEF Written
  <2>7. Placed(b)
    BY <2>4, <2>5, <2>6 DEF Placed
  <2> QED
    BY <2>2, <2>7
<1> QED
  BY <1>1, <1>2, <1>3, <1>4, <1>5, <1>6, <1>7 DEF OrderInv

LEMMA RestartKeepsOrder ==
  ASSUME OrderInv, kind = "rotating", Restart
  PROVE  OrderInv'
<1>1. /\ filename = 0 /\ taken \in Nat /\ crashes \in Nat /\ opened \in Nat
      /\ FilesOfMessages(files) /\ \A t \in LogThreads : Knows(t)
      /\ \A t, u \in LogThreads : step[t] = "down" => step[u] = "down"
      /\ mutex # NoLogThread => mutex \in LogThreads /\ step[mutex] \in Rotating
  BY DEF OrderInv, Buffered
<1>2. PICK b \in Bounds : Placed(b)
  BY DEF OrderInv
<1>3. /\ step' = [t \in LogThreads |-> "idle"]
      /\ line' = [t \in LogThreads |-> Nothing]
      /\ Fopen(0, FALSE) /\ mutex' = NoLogThread /\ index' = 0
      /\ current_size' = IF Exists(0) THEN Length(files[0]) ELSE 0
      /\ kind' = kind /\ taken' = taken /\ crashes' = crashes
  BY DEF Restart, Start, FileNow, boundVars
<1>4. /\ filename' = 0 /\ unsaved' = 0 /\ opened' \in Nat
      /\ files' = IF 0 \in DOMAIN files THEN files ELSE WithFile(0, <<>>)
  BY <1>1, <1>3 DEF Fopen, Exists
<1>5. PICK t \in LogThreads : step[t] = "down"
  BY DEF Restart, Up
<1>6. mutex = NoLogThread
  BY <1>1, <1>5 DEF Rotating
<1>7. crashes = 0 => taken = 0 /\ DOMAIN files = {}
  BY <1>1, <1>5 DEF Knows
<1>8. /\ FilesOfMessages(files') /\ DOMAIN files' = DOMAIN files \cup {0}
      /\ Ordered(files', b) /\ (crashes = 0 => Gapless(files', b))
      /\ current_size' \in Nat /\ Length(files'[0]) = current_size'
  <2>1. CASE 0 \in DOMAIN files
    <3>1. files[0] \in Seq(Message)
      BY <1>1, <2>1 DEF FilesOfMessages
    <3>2. Length(files[0]) \in Nat
      <4>1. PICK e : e \in Message
        <5>1. [id |-> 0, size |-> 0, at |-> 0] \in Message
          BY DEF Message
        <5> QED
          BY <5>1
      <4> QED
        BY <3>1, <4>1, LengthOfAppend
    <3> QED
      BY <1>1, <1>2, <1>3, <1>4, <2>1, <3>2 DEF Exists, Placed
  <2>2. CASE 0 \notin DOMAIN files
    <3>1. PICK gs : gs = WithFile(0, <<>>)
      OBVIOUS
    <3>2. /\ FilesOfMessages(gs) /\ DOMAIN gs = DOMAIN files \cup {0} /\ gs[0] = <<>>
          /\ Ordered(files, b) => Ordered(gs, b) /\ (Gapless(files, b) => Gapless(gs, b))
      BY <1>1, <2>2, <3>1, NewFile
    <3>3. files' = gs /\ current_size' = 0
      BY <1>3, <1>4, <2>2, <3>1 DEF Exists
    <3> QED
      BY <1>2, <3>2, <3>3, LengthOfNothing DEF Placed
  <2> QED
    BY <2>1, <2>2
<1>9. step' \in [LogThreads -> RotatingSteps] /\ line' = [u \in LogThreads |-> line'[u]]
  BY <1>3 DEF RotatingSteps
<1>10. \A u \in LogThreads : Knows(u)'
  BY <1>3 DEF Knows, Rotating
<1>11. crashes' = 0 => WithoutHoles'
  <2>1. MaxFiles \in Nat
    BY FileSinksAssumption
  <2> QED
    BY <1>3, <1>7, <1>8, <2>1 DEF WithoutHoles
<1>12. AtRest'
  BY <1>8, <1>11 DEF AtRest
<1>13. Buffered'
  <2>1. files'[0] \in Seq(Message)
    BY <1>8 DEF FilesOfMessages
  <2> QED
    BY <1>4, <1>8, <2>1 DEF Buffered
<1>14. Placed(b)'
  <2>1. Written' = Written
    BY <1>3, <1>6 DEF Written
  <2>2. crashes = 0 => ~Full
    <3>1. step[t] # "rename" /\ \A u \in LogThreads : step[u] # "rename"
      BY <1>1, <1>5
    <3> QED
      BY <1>7, <3>1 DEF Full
  <2>3. crashes' = 0 => b[MaxFiles + 1] = 0
    BY <1>2, <1>3, <2>2 DEF Placed
  <2> QED
    BY <1>2, <1>3, <1>8, <2>1, <2>3 DEF Placed
<1> QED
  BY <1>1, <1>2, <1>3, <1>4, <1>8, <1>9, <1>10, <1>12, <1>13, <1>14 DEF OrderInv

\* However the program ends.
LEMMA EndKeepsOrder ==
  ASSUME OrderInv, kind = "rotating", Down, unsaved' = 0,
         kind' = kind, filename' = filename, opened' = opened, taken' = taken,
         current_size' = current_size, crashes' = crashes + 1,
         Lose \/ files' = files
  PROVE  OrderInv'
<1>1. /\ filename = 0 /\ taken \in Nat /\ crashes \in Nat /\ opened \in Nat
      /\ FilesOfMessages(files) /\ Buffered /\ current_size \in Nat
  BY DEF OrderInv, Buffered
<1>2. PICK b \in Bounds : Placed(b)
  BY DEF OrderInv
<1>3. /\ step' = [t \in LogThreads |-> "down"]
      /\ line' = [t \in LogThreads |-> Nothing]
      /\ fd' = 0 /\ mutex' = NoLogThread /\ index' = 0
  BY DEF Down
<1>4. FilesOfMessages(files') /\ Ordered(files', b)
  BY <1>1, <1>2, EndOfOrderIsLost DEF Placed
<1>5. crashes' \in Nat /\ crashes' # 0
  BY <1>1
<1>6. step' \in [LogThreads -> RotatingSteps] /\ line' = [t \in LogThreads |-> line'[t]]
  BY <1>3 DEF RotatingSteps
<1>7. \A t \in LogThreads : Knows(t)'
  BY <1>3, <1>5 DEF Knows, Rotating
<1>8. AtRest'
  BY <1>3, <1>5 DEF AtRest
<1>9. Buffered'
  BY <1>1, <1>3 DEF Buffered
<1>10. Placed(b)'
  <2>1. b[0] \in Nat
    <3>1. 0 \in 0 .. MaxFiles + 1
      BY FileSinksAssumption
    <3> QED
      BY <3>1 DEF Bounds
  <2>2. b[0] <= taken /\ Written' = taken
    BY <1>1, <1>2, <1>3, <2>1 DEF Placed, Written
  <2> QED
    BY <1>4, <1>5, <2>2 DEF Placed
<1> QED
  BY <1>1, <1>2, <1>3, <1>4, <1>5, <1>6, <1>7, <1>8, <1>9, <1>10 DEF OrderInv

LEMMA CrashKeepsOrder ==
  ASSUME OrderInv, kind = "rotating", Crash \/ Terminate \/ Exit
  PROVE  OrderInv'
<1>1. CASE Crash \/ Terminate
  BY <1>1, EndKeepsOrder DEF Crash, Terminate
<1>2. CASE Exit
  BY <1>2, EndKeepsOrder DEF Exit
<1> QED
  BY <1>1, <1>2

\* A thread that is not about to change the files knows nothing of them.
LEMMA OneChanges ==
  ASSUME OrderInv, kind = "rotating", NEW t \in LogThreads, NEW u \in LogThreads,
         u # t, mutex = t \/ mutex = NoLogThread
  PROVE  step[u] \notin Rotating
<1>1. Knows(u)
  BY DEF OrderInv
<1> QED
  BY <1>1, FileSinksAssumption DEF Knows

\* What is left to show of a thread's step: what it leaves of the files, and what
\* the thread itself knows after it.
LEMMA ThreadKeepsOrder ==
  ASSUME OrderInv, kind = "rotating", NEW t \in LogThreads, step[t] # "down",
         NEW to \in RotatingSteps \ {"down"}, Goes(t, to),
         NEW l, line' = [line EXCEPT ![t] = l],
         \/ mutex = t \/ mutex = NoLogThread
         \/ /\ mutex' = mutex /\ taken' = taken /\ files' = files /\ index' = index
            /\ current_size' = current_size /\ fd' = fd,
         mutex' = mutex \/ mutex' = NoLogThread \/ mutex' = t,
         mutex' = t => to \in Rotating,
         kind' = kind, filename' = filename, crashes' = crashes,
         taken' \in Nat, current_size' \in Nat, index' \in Nat,
         FilesOfMessages(files'), Buffered', Knows(t)', AtRest',
         NEW b \in Bounds, Placed(b)'
  PROVE  OrderInv'
<1>1. /\ step \in [LogThreads -> RotatingSteps] /\ line = [u \in LogThreads |-> line[u]]
      /\ filename = 0 /\ crashes \in Nat
      /\ mutex # NoLogThread => mutex \in LogThreads /\ step[mutex] \in Rotating
      /\ \A u, v \in LogThreads : step[u] = "down" => step[v] = "down"
      /\ \A u \in LogThreads : Knows(u)
  BY DEF OrderInv
<1>2. step' = [step EXCEPT ![t] = to]
  BY DEF Goes
<1>3. /\ step' \in [LogThreads -> RotatingSteps] /\ line' = [u \in LogThreads |-> line'[u]]
      /\ step'[t] = to /\ \A u \in LogThreads : u # t => step'[u] = step[u] /\ line'[u] = line[u]
  BY <1>1, <1>2
<1>4. \A u \in LogThreads : step[u] # "down"
  BY <1>1
<1>5. ASSUME NEW u \in LogThreads, u # t
      PROVE  Knows(u)'
  <2>1. step'[u] = step[u] /\ line'[u] = line[u] /\ step[u] # "down" /\ Knows(u)
    BY <1>1, <1>3, <1>4, <1>5
  <2>2. CASE mutex = t \/ mutex = NoLogThread
    <3>1. step[u] \notin Rotating
      BY <1>5, <2>2, OneChanges
    <3> QED
      BY <2>1, <3>1 DEF Knows, Rotating
  <2>3. CASE /\ mutex' = mutex /\ taken' = taken /\ files' = files /\ index' = index
             /\ current_size' = current_size /\ fd' = fd
    <3>1. (HoleAt(index) => HoleAt(index)') /\ (WithoutHoles => WithoutHoles')
      BY <2>3 DEF HoleAt, WithoutHoles
    <3>2. Moving(u)' <=> Moving(u)
      BY <2>1, <2>3 DEF Moving
    <3> QED
      BY <2>1, <2>3, <3>1, <3>2 DEF Knows
  <2> QED
    BY <2>2, <2>3
<1>6. \A u, v \in LogThreads : step'[u] = "down" => step'[v] = "down"
  BY <1>3, <1>4
<1>7. mutex' # NoLogThread => mutex' \in LogThreads /\ step'[mutex'] \in Rotating
  <2>1. CASE mutex' = t
    BY <1>3, <2>1
  <2>2. CASE mutex' = mutex /\ mutex # t /\ mutex # NoLogThread
    <3>1. PICK u : u = mutex
      OBVIOUS
    <3>2. u \in LogThreads /\ step[u] \in Rotating /\ step'[u] = step[u] /\ mutex' = u
      BY <1>1, <1>3, <2>2, <3>1
    <3> QED
      BY <3>2
  <2> QED
    BY <2>1, <2>2
<1> QED
  BY <1>1, <1>3, <1>5, <1>6, <1>7 DEF OrderInv

\* Who is not at the files leaves them as they are.
LEMMA AsideKeepsOrder ==
  ASSUME OrderInv, kind = "rotating", NEW t \in LogThreads,
         NEW to \in {"idle", "fflush", "sink"}, Goes(t, to),
         step[t] \in {"idle", "fflush"},
         NEW l, line' = [line EXCEPT ![t] = l], to = "sink" => l.size \in Nat,
         kind' = kind, filename' = filename, crashes' = crashes, mutex' = mutex,
         taken' = taken, files' = files, index' = index, fd' = fd, opened' = opened,
         current_size' = current_size, unsaved' = 0 \/ unsaved' = unsaved
  PROVE  OrderInv'
<1>1. /\ step \in [LogThreads -> RotatingSteps] /\ line = [u \in LogThreads |-> line[u]]
      /\ FilesOfMessages(files) /\ Buffered /\ AtRest /\ Knows(t)
      /\ taken \in Nat /\ current_size \in Nat /\ index \in Nat
      /\ mutex # NoLogThread => mutex \in LogThreads /\ step[mutex] \in Rotating
  BY DEF OrderInv
<1>2. PICK b \in Bounds : Placed(b)
  BY DEF OrderInv
<1>3. step' = [step EXCEPT ![t] = to]
  BY DEF Goes
<1>4. /\ step'[t] = to /\ line'[t] = l
      /\ \A u \in LogThreads : u # t => step'[u] = step[u]
  BY <1>1, <1>3
<1>5. Knows(t)'
  BY <1>4 DEF Knows, Rotating
<1>6. AtRest'
  <2>1. WithoutHoles => WithoutHoles'
    BY DEF WithoutHoles
  <2>2. \A u \in LogThreads : step'[u] # "down" => step[u] # "down"
    BY <1>4
  <2> QED
    BY <1>1, <2>1, <2>2 DEF AtRest
<1>7. Placed(b)'
  <2>1. Full => Full'
    BY <1>4 DEF Full
  <2>2. Written' = Written
    BY DEF Written
  <2> QED
    BY <1>2, <2>1, <2>2 DEF Placed
<1>8. Buffered'
  <2>1. fd # 0 => Len(files[filename]) \in Nat
    BY <1>1 DEF FilesOfMessages, Buffered
  <2> QED
    BY <1>1, <2>1 DEF Buffered
<1>9. mutex' = t => to \in Rotating
  <2>1. mutex # t
    BY <1>1, FileSinksAssumption DEF Rotating
  <2> QED
    BY <2>1
<1>10. to \in RotatingSteps \ {"down"} /\ step[t] # "down"
  BY DEF RotatingSteps
<1> QED
  BY <1>1, <1>2, <1>5, <1>6, <1>7, <1>8, <1>9, <1>10, ThreadKeepsOrder

LEMMA LogKeepsOrder ==
  ASSUME OrderInv, kind = "rotating", NEW t \in LogThreads, Log(t)
  PROVE  OrderInv'
<1>1. PICK n \in MessageSizes : line' = [line EXCEPT ![t] = [id |-> messages + 1, size |-> n]]
  BY DEF Log
<1>2. PICK l : l = [id |-> messages + 1, size |-> n]
  OBVIOUS
<1>3. l.size \in Nat
  BY <1>2, FileSinksAssumption
<1>4. /\ kind' = kind /\ filename' = filename /\ crashes' = crashes /\ mutex' = mutex
      /\ taken' = taken /\ files' = files /\ index' = index /\ fd' = fd /\ opened' = opened
      /\ current_size' = current_size /\ unsaved' = unsaved
      /\ Goes(t, "sink") /\ step[t] = "idle" /\ line' = [line EXCEPT ![t] = l]
  BY <1>1, <1>2 DEF Log, fileVars
<1> QED
  BY <1>3, <1>4, AsideKeepsOrder

LEMMA FlushKeepsOrder ==
  ASSUME OrderInv, kind = "rotating", NEW t \in LogThreads, Flush(t)
  PROVE  OrderInv'
<1>1. PICK l : line' = [line EXCEPT ![t] = l]
  BY DEF Flush
<1>2. PICK to \in {"fflush", "idle"} : Goes(t, to)
  BY DEF Flush, Goes
<1>3. /\ kind' = kind /\ filename' = filename /\ crashes' = crashes /\ mutex' = mutex
      /\ taken' = taken /\ files' = files /\ index' = index /\ fd' = fd /\ opened' = opened
      /\ current_size' = current_size /\ (unsaved' = 0 \/ unsaved' = unsaved)
      /\ step[t] \in {"idle", "fflush"}
  BY DEF Flush
<1> QED
  BY <1>1, <1>2, <1>3, AsideKeepsOrder

\* With the lock free, the file is as long as the sink thinks, and one message more
\* is added up before it is known to fit.
LEMMA SinkKeepsOrder ==
  ASSUME OrderInv, kind = "rotating", NEW t \in LogThreads, Sink(t)
  PROVE  OrderInv'
<1>1. /\ step \in [LogThreads -> RotatingSteps] /\ line = [u \in LogThreads |-> line[u]]
      /\ FilesOfMessages(files) /\ Buffered /\ AtRest
      /\ taken \in Nat /\ current_size \in Nat /\ index \in Nat /\ filename = 0
      /\ \A u \in LogThreads : Knows(u)
  BY DEF OrderInv
<1>2. PICK b \in Bounds : Placed(b)
  BY DEF OrderInv
<1>3. PICK to : to = IF TooLong(t) THEN "close" ELSE "write"
  OBVIOUS
<1>4. PICK l : l = Line(taken + 1, line[t].size, 0)
  OBVIOUS
<1>5. /\ kind' = kind /\ filename' = filename /\ crashes' = crashes
      /\ mutex = NoLogThread /\ mutex' = t /\ taken' = taken + 1
      /\ files' = files /\ index' = index /\ fd' = fd /\ opened' = opened
      /\ unsaved' = unsaved /\ current_size' = current_size + line[t].size
      /\ Goes(t, to) /\ step[t] = "sink" /\ line' = [line EXCEPT ![t] = l]
  BY <1>3, <1>4 DEF Sink, Acquire, fileVars
<1>6. line[t].size \in Nat
  BY <1>1, <1>5 DEF Knows
<1>7. l \in Message /\ l.id = taken + 1 /\ l.size = line[t].size
  BY <1>1, <1>4, <1>6 DEF Line, Message
<1>8. /\ step'[t] = to /\ line'[t] = l
      /\ \A u \in LogThreads : u # t => step'[u] = step[u]
  BY <1>1, <1>5 DEF Goes
<1>9. to \in {"close", "write"} /\ t # NoLogThread
  BY <1>3, FileSinksAssumption
<1>10. 0 \in DOMAIN files /\ Length(files[0]) = current_size
       /\ (crashes = 0 => WithoutHoles)
  BY <1>1, <1>5 DEF AtRest
<1>11. Knows(t)'
  <2>1. WithoutHoles => WithoutHoles'
    BY <1>5 DEF WithoutHoles
  <2>2. ~Moving(t)'
    BY <1>8, <1>9 DEF Moving
  <2>3. to = "write" => current_size' <= MaxSize
    <3>1. MaxSize \in Nat /\ current_size' \in Nat
      BY <1>1, <1>5, <1>6, FileSinksAssumption
    <3> QED
      BY <1>3, <1>5, <3>1 DEF TooLong
  <2>4. 0 \in DOMAIN files' /\ Length(files'[0]) + line'[t].size = current_size'
    BY <1>5, <1>7, <1>8, <1>10
  <2> QED
    BY <1>5, <1>7, <1>8, <1>9, <1>10, <2>1, <2>2, <2>3, <2>4 DEF Knows
<1>12. AtRest'
  BY <1>5, <1>9 DEF AtRest
<1>13. Placed(b)'
  <2>1. Full => Full'
    BY <1>5, <1>8 DEF Full
  <2>2. Written' = taken /\ Written = taken
    BY <1>1, <1>5, <1>9 DEF Written
  <2> QED
    BY <1>2, <1>5, <2>1, <2>2 DEF Placed
<1>14. Buffered'
  BY <1>1, <1>5 DEF Buffered
<1>15. to \in RotatingSteps \ {"down"} /\ to \in Rotating /\ step[t] # "down"
  BY <1>5, <1>9 DEF RotatingSteps, Rotating
<1>16. taken' \in Nat /\ current_size' \in Nat /\ index' \in Nat /\ FilesOfMessages(files')
  BY <1>1, <1>5, <1>6
<1> QED
  BY <1>2, <1>5, <1>11, <1>12, <1>13, <1>14, <1>15, <1>16, ThreadKeepsOrder

\* While a thread holds the lock and does not rename, as many files as are kept is as
\* many as there are.
LEMMA FullWithTheLock ==
  ASSUME OrderInv, kind = "rotating", NEW t \in LogThreads, step[t] \in Rotating,
         step[t] # "rename", Full
  PROVE  MaxFiles \in DOMAIN files
<1>1. mutex = t
  BY DEF OrderInv, Knows
<1>2. \A u \in LogThreads : step[u] # "rename"
  BY <1>1, OneChanges DEF Rotating
<1> QED
  BY <1>2 DEF Full

LEMMA CloseKeepsOrder ==
  ASSUME OrderInv, kind = "rotating", NEW t \in LogThreads, Close(t)
  PROVE  OrderInv'
<1>1. /\ step \in [LogThreads -> RotatingSteps] /\ line = [u \in LogThreads |-> line[u]]
      /\ FilesOfMessages(files) /\ Buffered
      /\ taken \in Nat /\ current_size \in Nat /\ filename = 0
      /\ Knows(t)
  BY DEF OrderInv
<1>2. PICK b \in Bounds : Placed(b)
  BY DEF OrderInv
<1>3. PICK m \in Nat : m = MaxFiles
  BY FileSinksAssumption
<1>4. PICK to : to = IF m = 0 THEN "open" ELSE "remove"
  OBVIOUS
<1>5. /\ kind' = kind /\ filename' = filename /\ crashes' = crashes
      /\ mutex' = mutex /\ taken' = taken /\ line' = line
      /\ files' = files /\ index' = m /\ fd' = 0 /\ opened' = opened
      /\ unsaved' = 0 /\ current_size' = current_size
      /\ Goes(t, to) /\ step[t] = "close"
  BY <1>3, <1>4 DEF Close, AfterClose, boundVars
<1>6. /\ mutex = t /\ line[t] \in Message /\ line[t].id = taken
      /\ crashes = 0 => WithoutHoles
  BY <1>1, <1>5 DEF Knows, Rotating, Moving
<1>7. /\ step'[t] = to /\ line'[t] = line[t]
      /\ \A u \in LogThreads : u # t => step'[u] = step[u]
  BY <1>1, <1>5 DEF Goes
<1>8. t # NoLogThread /\ line' = [line EXCEPT ![t] = line[t]]
  BY <1>1, <1>5, FileSinksAssumption
<1>9. Knows(t)'
  <2>1. WithoutHoles => WithoutHoles'
    BY <1>5 DEF WithoutHoles
  <2>2. CASE m = 0
    <3>1. WithoutHoles' => HoleAt(index)'
      BY <1>5, <2>2 DEF WithoutHoles, HoleAt
    <3> QED
      BY <1>3, <1>4, <1>5, <1>6, <1>7, <2>1, <2>2, <3>1 DEF Knows
  <2>3. CASE m # 0
    <3>1. ~Moving(t)'
      BY <1>3, <1>4, <1>5, <1>7, <2>3 DEF Moving
    <3>2. index' \in 1 .. MaxFiles
      BY <1>3, <1>5, <2>3
    <3> QED
      BY <1>3, <1>4, <1>5, <1>6, <1>7, <2>1, <2>3, <3>1, <3>2 DEF Knows
  <2> QED
    BY <2>2, <2>3
<1>10. AtRest'
  BY <1>5, <1>6, <1>8 DEF AtRest
<1>11. Placed(b)'
  <2>1. Full => MaxFiles \in DOMAIN files
    BY <1>5, FullWithTheLock DEF Rotating
  <2>2. Full => Full'
    BY <1>5, <2>1 DEF Full
  <2>3. Written' = Written
    BY <1>5 DEF Written
  <2> QED
    BY <1>2, <1>5, <2>2, <2>3 DEF Placed
<1>12. Buffered'
  BY <1>1, <1>5 DEF Buffered
<1>13. to \in RotatingSteps \ {"down"} /\ to \in Rotating /\ step[t] # "down"
  BY <1>4, <1>5 DEF RotatingSteps, Rotating
<1>14. taken' \in Nat /\ current_size' \in Nat /\ index' \in Nat /\ FilesOfMessages(files')
  BY <1>1, <1>5
<1> QED
  BY <1>2, <1>5, <1>6, <1>8, <1>9, <1>10, <1>11, <1>12, <1>13, <1>14, ThreadKeepsOrder

\* Some of the files, or all of them, and maybe one of them twice.
LEMMA SomeFiles ==
  ASSUME NEW gs, FilesOfMessages(files), DOMAIN gs \subseteq 0 .. MaxFiles,
         \A n \in DOMAIN gs : \E k \in DOMAIN files : gs[n] = files[k]
  PROVE  FilesOfMessages(gs)
BY DEF FilesOfMessages

\* The oldest file goes, and nothing else: the place before it is empty.
LEMMA RemoveKeepsOrder ==
  ASSUME OrderInv, kind = "rotating", NEW t \in LogThreads, Remove(t)
  PROVE  OrderInv'
<1>1. /\ step \in [LogThreads -> RotatingSteps] /\ line = [u \in LogThreads |-> line[u]]
      /\ FilesOfMessages(files) /\ Buffered
      /\ taken \in Nat /\ current_size \in Nat /\ filename = 0 /\ index \in Nat
      /\ Knows(t)
  BY DEF OrderInv
<1>2. PICK b \in Bounds : Placed(b)
  BY DEF OrderInv
<1>3. PICK m \in Nat : m = MaxFiles
  BY FileSinksAssumption
<1>4. CASE Terminate
  BY <1>4, CrashKeepsOrder
<1>5. CASE ~Terminate
  <2>1. /\ kind' = kind /\ filename' = filename /\ crashes' = crashes
        /\ mutex' = mutex /\ taken' = taken /\ line' = line
        /\ index' = index /\ fd' = fd /\ opened' = opened
        /\ unsaved' = unsaved /\ current_size' = current_size
        /\ Goes(t, "rename") /\ step[t] = "remove"
        /\ files' = WithoutFile(index)
    BY <1>5 DEF Remove, boundVars
  <2>2. PICK i : i = index
    OBVIOUS
  <2>3. /\ mutex = t /\ line[t] \in Message /\ line[t].id = taken /\ fd = 0
        /\ i \in 1 .. m /\ (i # m => i \notin DOMAIN files)
        /\ crashes = 0 => IF i # m THEN HoleAt(i) ELSE WithoutHoles
    BY <1>1, <1>3, <2>1, <2>2 DEF Knows, Rotating, Moving
  <2>4. /\ step'[t] = "rename" /\ line'[t] = line[t] /\ t # NoLogThread
        /\ line' = [line EXCEPT ![t] = line[t]]
    BY <1>1, <2>1, FileSinksAssumption DEF Goes
  <2>5. /\ DOMAIN files' = DOMAIN files \ {i}
        /\ \A n \in DOMAIN files' : files'[n] = files[n]
    BY <2>1, <2>2 DEF WithoutFile, Restrict
  <2>6. FilesOfMessages(files')
    <3>1. DOMAIN files' \subseteq 0 .. MaxFiles
      BY <1>1, <2>5 DEF FilesOfMessages
    <3>2. \A n \in DOMAIN files' : \E k \in DOMAIN files : files'[n] = files[k]
      BY <2>5
    <3> QED
      BY <1>1, <3>1, <3>2, SomeFiles
  <2>7. Knows(t)'
    <3>1. ASSUME crashes = 0
          PROVE  HoleAt(index)'
      <4>1. CASE i # m
        <5>1. DOMAIN files' = DOMAIN files
          BY <2>3, <2>5, <4>1
        <5> QED
          BY <2>1, <2>2, <2>3, <3>1, <4>1, <5>1 DEF HoleAt
      <4>2. CASE i = m
        <5>1. \A n \in 0 .. m : n + 1 \in DOMAIN files' => n \in DOMAIN files'
          <6>1. \A n \in 0 .. m : n + 1 \in DOMAIN files' => n + 1 \in 0 .. m
            BY <1>3, <2>6 DEF FilesOfMessages
          <6> QED
            BY <1>3, <2>3, <2>5, <3>1, <4>2, <6>1 DEF WithoutHoles
        <5>2. m + 1 \notin DOMAIN files'
          BY <1>3, <2>6 DEF FilesOfMessages
        <5> QED
          BY <1>3, <2>1, <2>2, <4>2, <5>1, <5>2 DEF HoleAt
      <4> QED
        BY <4>1, <4>2
    <3>2. index' \in 1 .. MaxFiles /\ index' \notin DOMAIN files'
      BY <1>3, <2>1, <2>2, <2>3, <2>5
    <3> QED
      BY <2>1, <2>3, <2>4, <3>1, <3>2 DEF Knows, Moving
  <2>8. AtRest'
    BY <2>1, <2>3, <2>4 DEF AtRest
  <2>9. Buffered'
    <3>1. 0 # i
      BY <2>3
    <3> QED
      BY <1>1, <2>1, <2>5, <3>1 DEF Buffered
  <2>10. \E c \in Bounds : Placed(c)'
    <3>1. Written' = Written
      BY <2>1 DEF Written
    <3>2. CASE i \notin DOMAIN files
      <4>1. DOMAIN files' = DOMAIN files /\ \A n \in DOMAIN files : files'[n] = files[n]
        BY <2>5, <3>2
      <4>2. Full => Full'
        <5>1. Full => MaxFiles \in DOMAIN files
          BY <2>1, FullWithTheLock DEF Rotating
        <5> QED
          BY <4>1, <5>1 DEF Full
      <4>3. Ordered(files, b) => Ordered(files', b)
        BY <4>1 DEF Ordered
      <4>4. Gapless(files, b) => Gapless(files', b)
        BY <4>1 DEF Gapless
      <4>5. Placed(b)'
        BY <1>2, <2>1, <3>1, <4>2, <4>3, <4>4 DEF Placed
      <4> QED
        BY <4>5
    <3>3. CASE i \in DOMAIN files
      <4>1. i = m
        BY <2>3, <3>3
      <4>2. /\ m + 1 \in 1 .. MaxFiles + 1 /\ m + 1 - 1 = m
            /\ m + 1 \notin DOMAIN files /\ m + 1 \notin DOMAIN files'
            /\ m \notin DOMAIN files'
        BY <1>1, <1>3, <2>5, <2>6, <4>1 DEF FilesOfMessages
      <4>3. \A n \in 0 .. MaxFiles : n \in DOMAIN files' /\ n # m + 1 /\ n # m + 1 - 1 =>
              n \in DOMAIN files /\ files'[n] = files[n]
        BY <2>5
      <4>4. \A n \in 0 .. MaxFiles : n \in DOMAIN files /\ n # m + 1 - 1 => n \in DOMAIN files'
        BY <2>5, <4>1, <4>2
      <4>5. PICK j \in 1 .. MaxFiles + 1 : j = m + 1
        BY <4>2
      <4>6. Ordered(files, b)
        BY <1>2 DEF Placed
      <4>7. /\ j \notin DOMAIN files /\ j \notin DOMAIN files' /\ j - 1 \notin DOMAIN files'
            /\ ~(j <= MaxFiles)
        BY <1>3, <4>2, <4>5
      <4>8. \A n \in 0 .. MaxFiles : n \in DOMAIN files' /\ n # j /\ n # j - 1 =>
              n \in DOMAIN files /\ files'[n] = files[n]
        BY <4>3, <4>5
      <4>9. \A n \in 0 .. MaxFiles : n \in DOMAIN files /\ n # j - 1 => n \in DOMAIN files'
        BY <4>4, <4>5
      <4>10. PICK c \in Bounds :
               /\ c[0] = b[0] /\ Ordered(files', c)
               /\ Gapless(files, b) => Gapless(files', c)
        BY <4>6, <4>7, <4>8, <4>9, Shifted
      <4>11. crashes = 0 => Full'
        <5>1. m - 1 \in 0 .. m /\ m - 1 + 1 = m /\ m - 1 # m
          BY <2>3
        <5>2. crashes = 0 => m - 1 \in DOMAIN files
          BY <1>3, <2>3, <3>3, <4>1, <5>1 DEF WithoutHoles
        <5> QED
          BY <1>3, <2>1, <2>2, <2>4, <2>5, <4>1, <5>1, <5>2 DEF Full
      <4>12. Placed(c)'
        BY <1>2, <2>1, <3>1, <4>10, <4>11 DEF Placed
      <4> QED
        BY <4>12
    <3> QED
      BY <3>2, <3>3
  <2>11. PICK c \in Bounds : Placed(c)'
    BY <2>10
  <2>12. "rename" \in RotatingSteps \ {"down"} /\ "rename" \in Rotating /\ step[t] # "down"
    BY <2>1 DEF RotatingSteps, Rotating
  <2>13. taken' \in Nat /\ current_size' \in Nat /\ index' \in Nat
    BY <1>1, <2>1
  <2> QED
    BY <2>1, <2>3, <2>4, <2>6, <2>7, <2>8, <2>9, <2>11, <2>12, <2>13, ThreadKeepsOrder
<1> QED
  BY <1>4, <1>5

\* The file before takes the empty place, and leaves its own to the next.
LEMMA RenameKeepsOrder ==
  ASSUME OrderInv, kind = "rotating", NEW t \in LogThreads, Rename(t)
  PROVE  OrderInv'
<1>1. /\ step \in [LogThreads -> RotatingSteps] /\ line = [u \in LogThreads |-> line[u]]
      /\ FilesOfMessages(files) /\ Buffered
      /\ taken \in Nat /\ current_size \in Nat /\ filename = 0 /\ index \in Nat
      /\ Knows(t)
  BY DEF OrderInv
<1>2. PICK b \in Bounds : Placed(b)
  BY DEF OrderInv
<1>3. PICK m \in Nat : m = MaxFiles
  BY FileSinksAssumption
<1>4. CASE Terminate
  BY <1>4, CrashKeepsOrder
<1>5. CASE ~Terminate
  <2>0. PICK i : i = index
    OBVIOUS
  <2>1. PICK to : to = IF i > 1 THEN "remove" ELSE "open"
    OBVIOUS
  <2>2. /\ kind' = kind /\ filename' = filename /\ crashes' = crashes
        /\ mutex' = mutex /\ taken' = taken /\ line' = line
        /\ index' = i - 1 /\ fd' = fd /\ opened' = opened
        /\ unsaved' = unsaved /\ current_size' = current_size
        /\ Goes(t, to) /\ step[t] = "rename"
        /\ files' = Renamed(i)
    BY <1>5, <2>0, <2>1 DEF Rename, boundVars
  <2>3. /\ mutex = t /\ line[t] \in Message /\ line[t].id = taken /\ fd = 0
        /\ i \in 1 .. m /\ i \notin DOMAIN files
        /\ crashes = 0 => HoleAt(i)
    BY <1>1, <1>3, <2>0, <2>2 DEF Knows, Rotating, Moving
  <2>4. PICK h \in 0 .. m : h = i - 1
    BY <2>3
  <2>5. /\ i = h + 1 /\ h # i /\ i # 0 /\ h < m /\ index' = h
    BY <2>2, <2>3, <2>4
  <2>6. /\ step'[t] = to /\ line'[t] = line[t] /\ t # NoLogThread
        /\ line' = [line EXCEPT ![t] = line[t]]
    BY <1>1, <2>2, FileSinksAssumption DEF Goes
  <2>7. /\ h \notin DOMAIN files'
        /\ h \in DOMAIN files => i \in DOMAIN files' /\ files'[i] = files[h]
        /\ h \notin DOMAIN files => i \notin DOMAIN files'
        /\ \A n : n # i /\ n # h =>
             (n \in DOMAIN files' <=> n \in DOMAIN files)
             /\ (n \in DOMAIN files' => files'[n] = files[n])
    BY <2>2, <2>3, <2>4, <2>5 DEF Renamed, Exists
  <2>8. FilesOfMessages(files')
    <3>1. DOMAIN files' \subseteq 0 .. MaxFiles
      BY <1>1, <1>3, <2>3, <2>4, <2>7 DEF FilesOfMessages
    <3>2. \A n \in DOMAIN files' : \E k \in DOMAIN files : files'[n] = files[k]
      BY <2>7
    <3> QED
      BY <1>1, <3>1, <3>2, SomeFiles
  <2>9. ASSUME crashes = 0
        PROVE  HoleAt(h)'
    <3>1. /\ \A n \in 0 .. m : n + 1 \in DOMAIN files => n \in DOMAIN files \/ n = i
          /\ i + 1 \in DOMAIN files => i - 1 \in DOMAIN files
      BY <1>3, <2>3, <2>5, <2>9 DEF HoleAt
    <3>2. ASSUME NEW n \in 0 .. m, n + 1 \in DOMAIN files', n # h
          PROVE  n \in DOMAIN files'
      <4>1. n + 1 # i
        BY <2>4, <3>2
      <4>2. n + 1 # h
        BY <2>7, <3>2
      <4>3. n + 1 \in DOMAIN files
        BY <2>7, <3>2, <4>1, <4>2
      <4>4. n = i => n \in DOMAIN files'
        BY <2>4, <2>7, <3>1, <4>3
      <4>5. n # i => n \in DOMAIN files
        BY <3>1, <4>3
      <4> QED
        BY <2>7, <3>2, <4>4, <4>5
    <3>3. ASSUME h # 0, h + 1 \in DOMAIN files'
          PROVE  h - 1 \in DOMAIN files'
      <4>1. h \in DOMAIN files
        BY <2>5, <2>7, <3>3
      <4>2. PICK n \in 0 .. m : n = h - 1
        BY <3>3
      <4>3. n + 1 = h /\ n # i /\ n # h
        BY <2>4, <4>2
      <4>4. n \in DOMAIN files
        BY <3>1, <4>1, <4>3
      <4> QED
        BY <2>7, <4>2, <4>3, <4>4
    <3> QED
      BY <1>3, <3>2, <3>3 DEF HoleAt
  <2>10. Knows(t)'
    <3>1. to = "remove" => index' \in 1 .. MaxFiles /\ index' \notin DOMAIN files'
      <4>1. to = "remove" => h \in 1 .. m
        BY <2>1, <2>3, <2>4
      <4> QED
        BY <1>3, <2>5, <2>7, <4>1, Zenon
    <3>2. to = "open" => index' = 0 /\ 0 \notin DOMAIN files'
      <4>1. to = "open" => h = 0
        BY <2>1, <2>3, <2>4
      <4> QED
        BY <2>5, <2>7, <4>1, Zenon
    <3>3. HoleAt(h)' => HoleAt(index)'
      BY <2>5 DEF HoleAt
    <3>4. Moving(t)'
      BY <1>3, <2>1, <2>5, <2>6 DEF Moving
    <3>5. to \in {"remove", "open"}
      BY <2>1
    <3> QED
      BY <2>2, <2>3, <2>6, <2>9, <3>1, <3>2, <3>3, <3>4, <3>5 DEF Knows
  <2>11. AtRest'
    BY <2>2, <2>3, <2>6 DEF AtRest
  <2>12. Buffered'
    BY <1>1, <2>2, <2>3 DEF Buffered
  <2>13. PICK c \in Bounds :
           /\ c[0] = b[0] /\ Ordered(files', c)
           /\ c[MaxFiles + 1] = b[MaxFiles + 1]
           /\ Gapless(files, b) => Gapless(files', c)
    <3>1. PICK j \in 1 .. MaxFiles + 1 : j = i
      BY <1>3, <2>3
    <3>2. j <= MaxFiles /\ j \notin DOMAIN files /\ j - 1 = h
      BY <1>3, <2>3, <2>4, <3>1
    <3>3. /\ Ordered(files, b)
          /\ \A n \in 0 .. MaxFiles : n \in DOMAIN files' /\ n # j /\ n # j - 1 =>
               n \in DOMAIN files /\ files'[n] = files[n]
          /\ j \in DOMAIN files' => j - 1 \in DOMAIN files /\ files'[j] = files[j - 1]
          /\ j - 1 \notin DOMAIN files'
      BY <1>2, <2>7, <3>1, <3>2 DEF Placed
    <3>4. /\ \A n \in 0 .. MaxFiles : n \in DOMAIN files /\ n # j - 1 => n \in DOMAIN files'
          /\ j - 1 \in DOMAIN files => j \in DOMAIN files'
      BY <2>3, <2>7, <3>1, <3>2
    <3> QED
      BY <3>2, <3>3, <3>4, Shifted
  <2>14. Placed(c)'
    <3>1. Written' = Written
      BY <2>2 DEF Written
    <3>2. Full => Full'
      <4>1. CASE MaxFiles \in DOMAIN files
        <5>1. m # i /\ m # h
          BY <1>3, <2>3, <2>5, <4>1
        <5> QED
          BY <1>3, <2>7, <4>1, <5>1 DEF Full
      <4>2. CASE index = MaxFiles /\ MaxFiles - 1 \in DOMAIN files
        BY <1>3, <2>0, <2>4, <2>7, <4>2 DEF Full
      <4> QED
        BY <4>1, <4>2 DEF Full
    <3> QED
      BY <1>2, <2>2, <2>13, <3>1, <3>2 DEF Placed
  <2>15. to \in RotatingSteps \ {"down"} /\ to \in Rotating /\ step[t] # "down"
    BY <2>1, <2>2 DEF RotatingSteps, Rotating
  <2>16. taken' \in Nat /\ current_size' \in Nat /\ index' \in Nat
    BY <1>1, <2>2, <2>5
  <2> QED
    BY <2>2, <2>3, <2>6, <2>8, <2>10, <2>11, <2>12, <2>14, <2>15, <2>16, ThreadKeepsOrder
<1> QED
  BY <1>4, <1>5

LEMMA OpenKeepsOrder ==
  ASSUME OrderInv, kind = "rotating", NEW t \in LogThreads, Open(t)
  PROVE  OrderInv'
<1>1. /\ step \in [LogThreads -> RotatingSteps] /\ line = [u \in LogThreads |-> line[u]]
      /\ FilesOfMessages(files) /\ Buffered
      /\ taken \in Nat /\ current_size \in Nat /\ filename = 0 /\ index \in Nat
      /\ Knows(t)
  BY DEF OrderInv
<1>2. PICK b \in Bounds : Placed(b)
  BY DEF OrderInv
<1>3. PICK m \in Nat : m = MaxFiles
  BY FileSinksAssumption
<1>4. CASE Terminate
  BY <1>4, CrashKeepsOrder
<1>5. CASE ~Terminate
  <2>1. PICK gs : gs = WithFile(0, <<>>)
    OBVIOUS
  <2>2. /\ kind' = kind /\ crashes' = crashes
        /\ mutex' = mutex /\ taken' = taken /\ line' = line
        /\ index' = index /\ current_size' = line[t].size
        /\ Goes(t, "write") /\ step[t] = "open" /\ Fopen(0, TRUE)
    BY <1>5 DEF Open, FileNow, boundVars
  <2>3. filename' = 0 /\ unsaved' = 0 /\ opened' \in Nat /\ files' = gs
    BY <1>1, <2>1, <2>2 DEF Fopen, Buffered
  <2>4. /\ mutex = t /\ line[t] \in Message /\ line[t].id = taken
        /\ index = 0 /\ (m # 0 => 0 \notin DOMAIN files)
        /\ crashes = 0 => HoleAt(0)
    BY <1>1, <1>3, <2>2 DEF Knows, Rotating, Moving
  <2>5. /\ step'[t] = "write" /\ line'[t] = line[t] /\ t # NoLogThread
        /\ line' = [line EXCEPT ![t] = line[t]]
    BY <1>1, <2>2, FileSinksAssumption DEF Goes
  <2>6. /\ FilesOfMessages(gs) /\ DOMAIN gs = DOMAIN files \cup {0} /\ gs[0] = <<>>
        /\ \A n \in DOMAIN files : n # 0 => gs[n] = files[n]
        /\ 0 \notin DOMAIN files /\ Ordered(files, b) =>
             Ordered(gs, b) /\ (Gapless(files, b) => Gapless(gs, b))
    BY <1>1, <2>1, NewFile
  <2>7. line[t].size \in Nat
    BY <2>4 DEF Message
  <2>8. Knows(t)'
    <3>1. crashes = 0 => WithoutHoles'
      <4> SUFFICES ASSUME crashes = 0, NEW n \in 0 .. m, n + 1 \in DOMAIN gs
                   PROVE  n \in DOMAIN gs
        BY <1>3, <2>3 DEF WithoutHoles
      <4>1. n + 1 \in DOMAIN files
        BY <2>6
      <4> QED
        BY <1>3, <2>4, <2>6, <4>1 DEF HoleAt
    <3>2. ~Moving(t)'
      BY <2>5 DEF Moving
    <3>3. 0 \in DOMAIN files' /\ files'[0] = <<>>
      BY <2>3, <2>6
    <3>4. Length(files'[0]) + line'[t].size = current_size'
      BY <2>2, <2>5, <2>7, <3>3, LengthOfNothing
    <3> QED
      BY <2>2, <2>4, <2>5, <3>1, <3>2, <3>3, <3>4 DEF Knows
  <2>9. AtRest'
    BY <2>2, <2>4, <2>5 DEF AtRest
  <2>10. Buffered'
    <3>1. Len(files'[0]) \in Nat /\ 0 \in DOMAIN files'
      BY <2>3, <2>6 DEF FilesOfMessages
    <3> QED
      BY <2>3, <3>1 DEF Buffered
  <2>11. Full => Full'
    <3>1. Full => MaxFiles \in DOMAIN files
      BY <2>2, FullWithTheLock DEF Rotating
    <3> QED
      BY <2>3, <2>6, <3>1 DEF Full
  <2>12. Written' = Written
    BY <2>2 DEF Written
  <2>13. \E c \in Bounds : Placed(c)'
    <3>1. CASE 0 \notin DOMAIN files
      <4>1. Placed(b)'
        BY <1>2, <2>2, <2>3, <2>6, <2>11, <2>12, <3>1 DEF Placed
      <4> QED
        BY <4>1
    <3>2. CASE 0 \in DOMAIN files
      <4>1. m = 0 /\ DOMAIN gs = {0}
        <5>1. m = 0
          BY <2>4, <3>2
        <5> QED
          BY <1>1, <1>3, <2>6, <5>1 DEF FilesOfMessages
      <4>2. PICK j \in 1 .. MaxFiles + 1 : j = 1
        BY <1>3
      <4>3. /\ j \notin DOMAIN files /\ j \notin DOMAIN gs /\ j - 1 = 0
            /\ gs[j - 1] = <<>> /\ ~(j <= MaxFiles)
        BY <1>1, <1>3, <2>6, <4>1, <4>2 DEF FilesOfMessages
      <4>4. /\ \A n \in 0 .. MaxFiles : n \in DOMAIN gs /\ n # j /\ n # j - 1 =>
                 n \in DOMAIN files /\ gs[n] = files[n]
            /\ \A n \in 0 .. MaxFiles : n \in DOMAIN files /\ n # j - 1 => n \in DOMAIN gs
        BY <1>3, <4>1, <4>2
      <4>5. Ordered(files, b)
        BY <1>2 DEF Placed
      <4>6. PICK c \in Bounds :
              /\ c[0] = b[0] /\ Ordered(gs, c)
              /\ Gapless(files, b) => Gapless(gs, c)
        BY <4>3, <4>4, <4>5, Shifted
      <4>7. Full'
        BY <1>3, <2>3, <4>1 DEF Full
      <4>8. Placed(c)'
        BY <1>2, <2>2, <2>3, <2>12, <4>6, <4>7 DEF Placed
      <4> QED
        BY <4>8
    <3> QED
      BY <3>1, <3>2
  <2>14. PICK c \in Bounds : Placed(c)'
    BY <2>13
  <2>15. "write" \in RotatingSteps \ {"down"} /\ "write" \in Rotating /\ step[t] # "down"
    BY <2>2 DEF RotatingSteps, Rotating
  <2>16. /\ taken' \in Nat /\ current_size' \in Nat /\ index' \in Nat
         /\ FilesOfMessages(files') /\ filename' = filename
    BY <1>1, <2>2, <2>3, <2>6, <2>7
  <2> QED
    BY <2>2, <2>4, <2>5, <2>8, <2>9, <2>10, <2>14, <2>15, <2>16, ThreadKeepsOrder
<1> QED
  BY <1>4, <1>5

LEMMA WriteKeepsOrder ==
  ASSUME OrderInv, kind = "rotating", NEW t \in LogThreads, WriteLine(t)
  PROVE  OrderInv'
<1>1. /\ step \in [LogThreads -> RotatingSteps] /\ line = [u \in LogThreads |-> line[u]]
      /\ FilesOfMessages(files) /\ Buffered
      /\ taken \in Nat /\ current_size \in Nat /\ filename = 0 /\ index \in Nat
      /\ Knows(t)
  BY DEF OrderInv
<1>2. PICK b \in Bounds : Placed(b)
  BY DEF OrderInv
<1>3. PICK m \in Nat : m = MaxFiles
  BY FileSinksAssumption
<1>4. CASE Terminate
  BY <1>4, CrashKeepsOrder
<1>5. CASE ~Terminate
  <2>1. PICK e : e = line[t]
    OBVIOUS
  <2>2. PICK q : q = files[0]
    OBVIOUS
  <2>3. /\ mutex = t /\ e \in Message /\ e.id = taken
        /\ crashes = 0 => WithoutHoles
        /\ 0 \in DOMAIN files /\ Length(q) + e.size = current_size
        /\ current_size <= MaxSize \/ q = <<>>
        /\ step[t] = "write"
    <3>1. step[t] = "write"
      BY <1>5 DEF WriteLine
    <3> QED
      BY <1>1, <2>1, <2>2, <3>1 DEF Knows, Rotating, Moving
  <2>4. /\ kind' = kind /\ filename' = filename /\ crashes' = crashes
        /\ mutex' = NoLogThread /\ taken' = taken
        /\ index' = index /\ fd' = fd /\ opened' = opened
        /\ current_size' = current_size /\ Goes(t, "idle")
        /\ line' = [line EXCEPT ![t] = Nothing]
        /\ unsaved' = 0 \/ unsaved' = unsaved + 1
        /\ files' = [files EXCEPT ![0] = Append(files[0], e)]
    BY <1>1, <1>5, <2>1, <2>3 DEF WriteLine, Exists, boundVars
  <2>5. /\ step'[t] = "idle" /\ t # NoLogThread
        /\ \A u \in LogThreads : u # t => step'[u] = step[u]
    BY <1>1, <2>4, FileSinksAssumption DEF Goes
  <2>6. PICK r : r = Append(q, e)
    OBVIOUS
  <2>7. /\ DOMAIN files' = DOMAIN files /\ files'[0] = r
        /\ \A n \in DOMAIN files : n # 0 => files'[n] = files[n]
    BY <2>2, <2>3, <2>4, <2>6
  <2>8. q \in Seq(Message)
    BY <1>1, <2>2, <2>3 DEF FilesOfMessages
  <2>9. r \in Seq(Message) /\ Len(r) = Len(q) + 1
    BY <2>3, <2>6, <2>8, AppendProperties
  <2>10. Length(r) = current_size
    BY <2>3, <2>6, <2>8, LengthOfAppend
  <2>11. ShortEnough(r)
    <3>1. q = <<>> => Len(r) = 1
      BY <2>9, EmptySeq
    <3> QED
      BY <2>3, <2>10, <3>1 DEF ShortEnough
  <2>12. FilesOfMessages(files')
    BY <1>1, <2>7, <2>9, <2>11 DEF FilesOfMessages
  <2>13. Knows(t)'
    BY <2>5 DEF Knows, Rotating
  <2>14. AtRest'
    <3>1. WithoutHoles => WithoutHoles'
      BY <2>7 DEF WithoutHoles
    <3> QED
      BY <2>3, <2>4, <2>7, <2>10, <3>1 DEF AtRest
  <2>15. Buffered'
    <3>1. PICK l \in Nat : l = Len(q)
      BY <2>8
    <3>2. unsaved \in Nat /\ (fd # 0 => unsaved <= l)
      BY <1>1, <2>2, <3>1 DEF Buffered
    <3>3. unsaved' \in Nat /\ (fd # 0 => unsaved' <= l + 1)
      BY <2>4, <3>2
    <3>4. Len(files'[0]) = l + 1
      BY <2>7, <2>9, <3>1
    <3> QED
      BY <1>1, <2>3, <2>4, <2>7, <3>3, <3>4 DEF Buffered
  <2>16. Written = taken - 1 /\ Written' = taken
    BY <2>3, <2>4, <2>5 DEF Written
  <2>17. b[0] \in Nat /\ b[0] < e.id
    <3>1. b[0] \in Nat
      BY <1>3 DEF Bounds
    <3> QED
      BY <1>1, <1>2, <2>3, <2>16, <3>1 DEF Placed
  <2>18. PICK c \in Bounds :
           /\ c[0] = e.id /\ Ordered(files', c) /\ c[MaxFiles + 1] = b[MaxFiles + 1]
           /\ Gapless(files, b) /\ e.id = b[0] + 1 => Gapless(files', c)
    <3>1. Ordered(files, b)
      BY <1>2 DEF Placed
    <3>2. PICK fs : fs = files
      OBVIOUS
    <3>3. PICK gs : gs = files'
      OBVIOUS
    <3>4. /\ Ordered(fs, b) /\ 0 \in DOMAIN fs /\ e \in Message /\ b[0] < e.id
          /\ DOMAIN gs = DOMAIN fs /\ gs[0] = Append(fs[0], e)
          /\ \A n \in DOMAIN fs : n # 0 => gs[n] = fs[n]
      BY <2>2, <2>3, <2>6, <2>7, <2>17, <3>1, <3>2, <3>3
    <3>5. \E c \in Bounds :
            /\ c[0] = e.id /\ Ordered(gs, c) /\ c[MaxFiles + 1] = b[MaxFiles + 1]
            /\ Gapless(fs, b) /\ e.id = b[0] + 1 => Gapless(gs, c)
      BY <3>4, Appended
    <3> QED
      BY <3>2, <3>3, <3>5
  <2>19. Placed(c)'
    <3>1. Full => Full'
      <4>1. Full => MaxFiles \in DOMAIN files
        BY <2>3, FullWithTheLock DEF Rotating
      <4> QED
        BY <2>7, <4>1 DEF Full
    <3>2. crashes = 0 => e.id = b[0] + 1
      BY <1>1, <1>2, <2>3, <2>16 DEF Placed
    <3>3. c[0] = taken /\ c[0] <= Written'
      BY <1>1, <2>3, <2>16, <2>18
    <3> QED
      BY <1>2, <2>4, <2>16, <2>18, <3>1, <3>2, <3>3 DEF Placed
  <2>20. "idle" \in RotatingSteps \ {"down"} /\ step[t] # "down" /\ mutex' # t
    BY <2>3, <2>4, <2>5 DEF RotatingSteps
  <2>21. taken' \in Nat /\ current_size' \in Nat /\ index' \in Nat
    BY <1>1, <2>4
  <2> QED
    BY <2>3, <2>4, <2>12, <2>13, <2>14, <2>15, <2>19, <2>20, <2>21, ThreadKeepsOrder
<1> QED
  BY <1>4, <1>5

-----------------------------------------------------------------------------
LEMMA OrderIsKept ==
  ASSUME OrderInv, FileSinksNext
  PROVE  OrderInv'
<1> SUFFICES ASSUME kind' = "rotating"
             PROVE  OrderInv'
  BY DEF OrderInv
<1>1. kind = "rotating"
  BY DEF FileSinksNext, Restart, Crash, Exit, Tick, log_msg, Log, Sink, Close,
         Remove, Rename, Open, Schedule, WriteLine, Flush, Terminate
<1>2. CASE Restart
  BY <1>1, <1>2, RestartKeepsOrder
<1>3. CASE Crash \/ Exit
  BY <1>1, <1>3, CrashKeepsOrder
<1>4. ~Tick
  BY <1>1 DEF Tick
<1>5. ASSUME NEW t \in LogThreads, log_msg(t)
      PROVE  OrderInv'
  <2>1. step[t] # "schedule"
    BY <1>1 DEF OrderInv, RotatingSteps, Rotating
  <2>2. ~Schedule(t)
    BY <2>1 DEF Schedule
  <2> QED
    BY <1>1, <1>5, <2>2, LogKeepsOrder, SinkKeepsOrder, CloseKeepsOrder, RemoveKeepsOrder,
       RenameKeepsOrder, OpenKeepsOrder, WriteKeepsOrder DEF log_msg
<1>6. ASSUME NEW t \in LogThreads, Flush(t)
      PROVE  OrderInv'
  BY <1>1, <1>6, FlushKeepsOrder
<1> QED
  BY <1>2, <1>3, <1>4, <1>5, <1>6 DEF FileSinksNext

\* Without a hole, a last file means that there is one more than are kept.
LEMMA AllTheFiles ==
  ASSUME WithoutHoles, MaxFiles \in DOMAIN files, DOMAIN files \subseteq 0 .. MaxFiles
  PROVE  ~(Cardinality(DOMAIN files) <= MaxFiles)
<1>1. PICK m \in Nat : m = MaxFiles
  BY FileSinksAssumption
<1> DEFINE T == {k \in Nat : k <= m => m - k \in DOMAIN files}
<1>2. 0 \in T
  BY <1>1
<1>3. ASSUME NEW k \in Nat, k \in T
      PROVE  k + 1 \in T
  <2> SUFFICES ASSUME k + 1 <= m
               PROVE  m - (k + 1) \in DOMAIN files
    OBVIOUS
  <2>1. PICK n \in 0 .. m : n = m - (k + 1)
    OBVIOUS
  <2>2. n + 1 \in DOMAIN files
    <3>1. m - k \in DOMAIN files
      BY <1>3
    <3>2. n + 1 = m - k
      BY <2>1
    <3> QED
      BY <3>1, <3>2
  <2> QED
    BY <1>1, <2>1, <2>2 DEF WithoutHoles
<1>4. 0 .. m \subseteq DOMAIN files
  <2>1. Nat \subseteq T
    <3> HIDE DEF T
    <3> QED
      BY <1>2, <1>3, SetInduction
  <2>2. ASSUME NEW n \in 0 .. m
        PROVE  n \in DOMAIN files
    <3>1. PICK k \in Nat : k = m - n
      OBVIOUS
    <3>2. k <= m /\ n = m - k
      BY <3>1
    <3>3. k <= m => m - k \in DOMAIN files
      BY <2>1
    <3> QED
      BY <3>2, <3>3
  <2> QED
    BY <2>2
<1>5. DOMAIN files = 0 .. m
  BY <1>1, <1>4
<1>6. Cardinality(0 .. m) = m + 1
  <2>1. 0 <= m /\ m - 0 + 1 = m + 1
    OBVIOUS
  <2> QED
    BY <2>1, FS_Interval
<1> QED
  BY <1>1, <1>5, <1>6

\* Through rotations, crashes at any step of them and restarts, the files read from
\* the last to the first have the messages in the order they were taken, and no file
\* is longer than it may be unless it has one message; without a crash they have the
\* latest messages without a gap, and all of them until there are more files than are
\* kept, whatever the sizes of the messages, their number, and that of the files.
THEOREM FilesInOrder == FileSinksSpec => []KeptInOrder
<1>1. FileSinksInit => OrderInv
  BY OrderBegins
<1>2. OrderInv /\ [FileSinksNext]_fileSinkVars => OrderInv'
  <2> SUFFICES ASSUME OrderInv, UNCHANGED fileSinkVars
               PROVE  OrderInv'
    BY OrderIsKept
  <2>1. /\ kind' = kind /\ taken' = taken /\ filename' = filename /\ crashes' = crashes
        /\ files' = files /\ step' = step /\ line' = line /\ index' = index
        /\ mutex' = mutex /\ fd' = fd /\ unsaved' = unsaved /\ opened' = opened
        /\ current_size' = current_size
    BY DEF fileSinkVars, fileVars, boundVars
  <2>2. Buffered' <=> Buffered
    BY <2>1 DEF Buffered
  <2>3. WithoutHoles' <=> WithoutHoles
    BY <2>1 DEF WithoutHoles
  <2>4. HoleAt(index)' <=> HoleAt(index)
    BY <2>1 DEF HoleAt
  <2>5. \A t \in LogThreads : Knows(t)' <=> Knows(t)
    BY <2>1, <2>3, <2>4 DEF Knows, Moving
  <2>6. AtRest' <=> AtRest
    BY <2>1, <2>3 DEF AtRest
  <2>7. \A b \in Bounds : Placed(b)' <=> Placed(b)
    BY <2>1 DEF Placed, Written, Full
  <2> QED
    BY <2>1, <2>2, <2>5, <2>6, <2>7 DEF OrderInv
<1>3. OrderInv => KeptInOrder
  <2> SUFFICES ASSUME OrderInv, kind = "rotating"
               PROVE  KeptInOrder
    BY DEF KeptInOrder
  <2>1. PICK b \in Bounds : Placed(b)
    BY DEF OrderInv
  <2>2. PICK m \in Nat : m = MaxFiles
    BY FileSinksAssumption
  <2>3. PICK q : q = Kept
    OBVIOUS
  <2>4. PICK low : low = b[MaxFiles + 1]
    OBVIOUS
  <2>5. Arranged(q, low, b[0]) /\ (Gapless(files, b) => Dense(q, low, b[0]))
    BY <2>1, <2>3, <2>4, KeptArranged DEF Placed
  <2>6. q \in Seq(Message) /\ low \in Nat /\ b[0] \in Nat
    BY <2>5 DEF Arranged
  <2>7. PICK l \in Nat : l = Len(q)
    BY <2>6
  <2>8. DOMAIN q = 1 .. l
    BY <2>6, <2>7
  <2>9. ASSUME NEW i \in DOMAIN q, NEW j \in DOMAIN q, i < j
        PROVE  q[i].id < q[j].id
    <3>1. i \in 1 .. j - 1 /\ j \in 1 .. Len(q)
      BY <2>7, <2>8, <2>9
    <3> QED
      BY <2>5, <3>1 DEF Arranged
  <2>10. \A n \in DOMAIN files : Len(files[n]) > 1 => Length(files[n]) <= MaxSize
    BY DEF OrderInv, FilesOfMessages, ShortEnough
  <2>11. ASSUME crashes = 0, mutex = NoLogThread
         PROVE  /\ \A i \in DOMAIN q : q[i].id = taken - Len(q) + i
                /\ Cardinality(DOMAIN files) <= MaxFiles => Len(q) = taken
    <3>1. Dense(q, low, b[0]) /\ b[0] = taken /\ (low # 0 => Full)
      BY <2>1, <2>4, <2>5, <2>11 DEF Placed, Written
    <3>2. taken = low + l /\ \A i \in 1 .. l : q[i].id = low + i
      BY <2>7, <3>1 DEF Dense
    <3>3. \A i \in 1 .. l : q[i].id = taken - l + i
      BY <2>6, <3>2
    <3>4. Full => MaxFiles \in DOMAIN files
      <4>1. \A t \in LogThreads : step[t] # "rename"
        BY <2>11, FileSinksAssumption DEF OrderInv, Knows, Rotating
      <4> QED
        BY <4>1 DEF Full
    <3>5. Cardinality(DOMAIN files) <= MaxFiles => low = 0
      BY <2>11, <3>1, <3>4, AllTheFiles DEF OrderInv, AtRest, FilesOfMessages
    <3> QED
      BY <2>6, <2>7, <2>8, <3>2, <3>3, <3>5
  <2> QED
    BY <2>3, <2>9, <2>10, <2>11 DEF KeptInOrder
<1> QED
  BY <1>1, <1>2, <1>3, PTL DEF FileSinksSpec
=============================================================================
