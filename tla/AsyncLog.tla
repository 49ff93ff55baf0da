------------------------------- MODULE AsyncLog -------------------------------
(***************************************************************************)
(* spdlog's asynchronous logger (include/spdlog/details/                   *)
(* async_log_helper.h, async_logger_impl.h): the threads that log put      *)
(* their messages in a bounded queue, one worker thread formats them and   *)
(* hands them to the sinks.  A full queue makes the caller retry or drops  *)
(* the message, as the policy says; a sink that throws ends the worker,    *)
(* which leaves its exception for the next caller; the destructor sends    *)
(* a last message and joins.  The queue is BoundedQueue, which MpmcQueue   *)
(* implements.                                                             *)
(*                                                                         *)
(* Whether a sink throws and how the threads are scheduled is open.  That  *)
(* nobody logs while the logger is destroyed is the callers' part.         *)
(***************************************************************************)
EXTENDS Naturals, Sequences, FiniteSets

CONSTANTS Callers, WorkerThread, Nobody, NoMessage,
          Places,      \* queue_size
          SinkCount,
          Policies,    \* the overflow policies to look at
          MaxCalls,    \* bound: log() and flush() calls
          MaxThrows    \* bound: sinks that throw

ASSUME AsyncLogAssumption ==
  /\ Places \in Nat \ {0, 1} /\ SinkCount \in Nat \ {0}
  /\ WorkerThread \notin Callers
  /\ Policies \subseteq {"block_retry", "discard_log_msg"}

VARIABLES
  slots, outcome, got,    \* the queue
  overflow_policy,
  doing,       \* caller -> "idle", "push", "fill", "join"
  msg,         \* caller -> the message of its call
  calls,       \* the calls made, which also numbers them
  logged,      \* caller -> its messages the queue took, in order
  destroyed,   \* "no", "begun", "done" or "aborted"
  worker,      \* what the worker is about to do
  flush_requested, terminate_requested, last_workerthread_ex,
  written,     \* sink -> the messages it was given
  flushed,     \* sink -> how many of them it has flushed
  throws,
  promised     \* messages some flush request that was dequeued covers

helperVars == <<flush_requested, terminate_requested, last_workerthread_ex>>
sinkVars == <<written, flushed>>
callVars == <<doing, msg, calls, logged, destroyed>>
asyncQueueVars == <<slots, outcome, got>>
asyncVars == <<asyncQueueVars, callVars, helperVars, sinkVars, overflow_policy,
               worker, throws, promised>>

SinkIds == 1 .. SinkCount

\* A log message is known by its thread and call, a flush also by the messages
\* whose log() had returned when it was asked for.
Message(type, t, n, covers) ==
  [type |-> type, by |-> t, call |-> n, covers |-> covers]

Queue == INSTANCE BoundedQueue WITH
  QueueThreads <- Callers \cup {WorkerThread},
  Items <- {}, NoItem <- NoMessage, QueueSize <- Places

AsyncInit ==
  /\ Queue!QueueInit
  /\ overflow_policy \in Policies
  /\ doing = [t \in Callers |-> "idle"]
  /\ msg = [t \in Callers |-> NoMessage]
  /\ calls = 0
  /\ logged = [t \in Callers |-> <<>>]
  /\ destroyed = "no"
  /\ worker = "dequeue"
  /\ flush_requested = FALSE /\ terminate_requested = FALSE
  /\ last_workerthread_ex = FALSE
  /\ written = [s \in SinkIds |-> <<>>]
  /\ flushed = [s \in SinkIds |-> 0]
  /\ throws = 0
  /\ promised = {}

-------------------------------------------------------------------------------
(* The calls. *)
Running == destroyed # "aborted"

LoggedMessages == UNION {{logged[t][i] : i \in DOMAIN logged[t]} : t \in Callers}

\* push_msg() begins with throw_if_bad_worker(): the exception the worker left
\* is thrown once, moved out of its place.
Throws(t) ==
  /\ last_workerthread_ex
  /\ last_workerthread_ex' = FALSE
  /\ UNCHANGED <<doing, msg>>

Begins(t, m) ==
  /\ ~last_workerthread_ex
  /\ doing' = [doing EXCEPT ![t] = "push"]
  /\ msg' = [msg EXCEPT ![t] = m]
  /\ UNCHANGED last_workerthread_ex

Calls(t) ==
  /\ doing[t] = "idle" /\ destroyed = "no" /\ calls < MaxCalls
  /\ calls' = calls + 1
  /\ UNCHANGED <<asyncQueueVars, logged, flush_requested,
                 terminate_requested, sinkVars, overflow_policy, worker, throws, promised>>

\* log() is called from the destructor of a line_logger, out of which no
\* exception may come: there the program ends.
log(t) ==
  /\ Calls(t)
  /\ \/ Throws(t) /\ destroyed' = "aborted"
     \/ Begins(t, Message("log", t, calls, {})) /\ UNCHANGED destroyed

flush(t) ==
  /\ Calls(t)
  /\ Throws(t) \/ Begins(t, Message("flush", t, calls, LoggedMessages))
  /\ UNCHANGED destroyed

\* The destructor: the same push; if it throws, the join is skipped and the
\* thread object, still joinable, ends the program.
Destroy(t) ==
  /\ destroyed = "no" /\ \A u \in Callers : doing[u] = "idle"
  /\ \/ Throws(t) /\ destroyed' = "aborted"
     \/ Begins(t, Message("terminate", t, calls, {})) /\ destroyed' = "begun"
  /\ UNCHANGED <<asyncQueueVars, calls, logged, flush_requested,
                 terminate_requested, sinkVars, overflow_policy, worker, throws, promised>>

AfterPush(t) == IF msg[t].type = "terminate" THEN "join" ELSE "idle"

\* enqueue() finds a place, or none: then the call is over if the policy is to
\* discard and else begins again.
FindPlace(t) ==
  /\ Running /\ doing[t] = "push"
  /\ \/ Queue!Reserve(t, msg[t]) /\ doing' = [doing EXCEPT ![t] = "fill"]
     \/ /\ Queue!Refuse(t)
        /\ doing' = IF overflow_policy = "discard_log_msg"
                    THEN [doing EXCEPT ![t] = AfterPush(t)] ELSE doing
  /\ UNCHANGED <<msg, calls, logged, destroyed, helperVars, sinkVars,
                 overflow_policy, worker, throws, promised>>

Fill(t) ==
  /\ Running /\ doing[t] = "fill"
  /\ Queue!Publish(t)
  /\ doing' = [doing EXCEPT ![t] = AfterPush(t)]
  /\ logged' = IF msg[t].type = "log"
               THEN [logged EXCEPT ![t] = Append(@, msg[t])] ELSE logged
  /\ UNCHANGED <<msg, calls, destroyed, helperVars, sinkVars, overflow_policy,
                 worker, throws, promised>>

push_msg(t) == FindPlace(t) \/ Fill(t)

Join(t) ==
  /\ doing[t] = "join" /\ worker \in {"ended", "dead"}
  /\ doing' = [doing EXCEPT ![t] = "idle"]
  /\ destroyed' = "done"
  /\ UNCHANGED <<asyncQueueVars, msg, calls, logged, helperVars, sinkVars,
                 overflow_policy, worker, throws, promised>>

-------------------------------------------------------------------------------
(* The worker: process_next_msg(). *)
Dequeue ==
  /\ Running
  /\ \/ worker = "dequeue" /\ Queue!Take(WorkerThread) /\ worker' = "release"
     \/ worker = "release" /\ Queue!Release(WorkerThread) /\ worker' = "process"
     \/ worker = "dequeue" /\ Queue!FindNothing(WorkerThread) /\ worker' = "quiet"
  /\ UNCHANGED <<callVars, helperVars, sinkVars, overflow_policy, throws,
                 promised>>

\* A request only sets a flag: it is seen to when the queue is empty.
Remember ==
  /\ Running /\ worker = "process" /\ got[WorkerThread].type # "log"
  /\ flush_requested' = TRUE
  /\ terminate_requested' = (terminate_requested
                               \/ got[WorkerThread].type = "terminate")
  /\ worker' = "dequeue"
  /\ promised' = promised \cup got[WorkerThread].covers
  /\ UNCHANGED <<asyncQueueVars, callVars, last_workerthread_ex, sinkVars,
                 overflow_policy, throws>>

\* A message goes to the sinks one after the other, or as far as one throws.
GiveTo(sinks) ==
  written' = [s \in SinkIds |-> IF s \in sinks
                                THEN Append(written[s], got[WorkerThread])
                                ELSE written[s]]

\* mutant: the exception of a sink is kept, but the worker goes on
WriteGoesOn ==
  /\ Running /\ worker = "process" /\ got[WorkerThread].type = "log"
  /\ \/ GiveTo(SinkIds) /\ UNCHANGED <<last_workerthread_ex, throws>>
     \/ /\ throws < MaxThrows /\ throws' = throws + 1
        /\ \E s \in SinkIds : GiveTo(1 .. s - 1)
        /\ last_workerthread_ex' = TRUE
  /\ worker' = "dequeue"
  /\ UNCHANGED <<asyncQueueVars, callVars, flush_requested,
                 terminate_requested, flushed, overflow_policy, promised>>

Write ==
  /\ Running /\ worker = "process" /\ got[WorkerThread].type = "log"
  /\ \/ /\ GiveTo(SinkIds)
        /\ worker' = "dequeue"
        /\ UNCHANGED <<last_workerthread_ex, throws>>
     \/ /\ throws < MaxThrows /\ throws' = throws + 1
        /\ \E s \in SinkIds : GiveTo(1 .. s - 1)
        /\ last_workerthread_ex' = TRUE
        /\ worker' = "dead"
  /\ UNCHANGED <<asyncQueueVars, callVars, flush_requested,
                 terminate_requested, flushed, overflow_policy, promised>>

\* handle_flush_interval() flushes when asked to or when the interval is over;
\* the worker then looks again or, asked to, ends.
\* mutant: the worker never ends
AfterQuietOnward == "dequeue"

AfterQuiet == IF terminate_requested THEN "ended" ELSE "dequeue"

\* mutant: the request is forgotten whether or not there was a flush
QuietForgets ==
  /\ Running /\ worker = "quiet"
  /\ \/ flushed' = [s \in SinkIds |-> Len(written[s])]
     \/ UNCHANGED flushed
  /\ flush_requested' = FALSE
  /\ worker' = AfterQuiet
  /\ UNCHANGED <<asyncQueueVars, callVars, terminate_requested,
                 last_workerthread_ex, written, overflow_policy, throws, promised>>

\* mutant: the worker ends before it flushes
QuietNoFlush ==
  /\ Running /\ worker = "quiet"
  /\ \/ /\ ~terminate_requested
        /\ flushed' = [s \in SinkIds |-> Len(written[s])]
        /\ flush_requested' = FALSE
     \/ /\ ~flush_requested \/ terminate_requested
        /\ UNCHANGED <<flushed, flush_requested>>
  /\ worker' = AfterQuiet
  /\ UNCHANGED <<asyncQueueVars, callVars, terminate_requested,
                 last_workerthread_ex, written, overflow_policy, throws,
                 promised>>

Quiet ==
  /\ Running /\ worker = "quiet"
  /\ \/ /\ flushed' = [s \in SinkIds |-> Len(written[s])]
        /\ flush_requested' = FALSE
     \/ ~flush_requested /\ UNCHANGED <<flushed, flush_requested>>
  /\ worker' = AfterQuiet
  /\ UNCHANGED <<asyncQueueVars, callVars, terminate_requested,
                 last_workerthread_ex, written, overflow_policy, throws,
                 promised>>

worker_loop == Dequeue \/ Remember \/ Write \/ Quiet

-------------------------------------------------------------------------------
AsyncNext ==
  \/ \E t \in Callers : log(t) \/ flush(t) \/ Destroy(t) \/ push_msg(t) \/ Join(t)
  \/ worker_loop

\* A thread in a call goes on, and so does the worker.
AsyncFairness ==
  /\ \A t \in Callers : WF_asyncVars(push_msg(t)) /\ WF_asyncVars(Join(t))
  /\ WF_asyncVars(worker_loop)

AsyncSpec == AsyncInit /\ [][AsyncNext]_asyncVars /\ AsyncFairness

-------------------------------------------------------------------------------
\* What a sink was given are messages that were logged, each once, and each
\* after all that its thread logged before it: also when other threads' messages
\* come between, after retries, and where a sink threw.
WrittenAsLogged ==
  \A s \in SinkIds :
    /\ \A i, j \in 1 .. Len(written[s]) : written[s][i] = written[s][j] => i = j
    /\ \A i \in 1 .. Len(written[s]) :
         LET m == written[s][i]
         IN  \E k \in 1 .. Len(logged[m.by]) :
               /\ logged[m.by][k] = m
               /\ \A h \in 1 .. k - 1 : \E j \in 1 .. i - 1 : written[s][j] = logged[m.by][h]

\* When the destructor has returned after a worker that ended as it should,
\* every message that was not discarded is in every sink and flushed: the
\* worker ends only on an empty queue.
NothingLeftBehind ==
  destroyed = "done" /\ worker = "ended" =>
    /\ slots = <<>>
    /\ \A s \in SinkIds :
         /\ flushed[s] = Len(written[s])
         /\ Len(written[s]) = Cardinality(LoggedMessages)

\* A sink's messages up to the last flush.
OnDisk(s) == {written[s][i] : i \in 1 .. flushed[s]}

WorkerIsDead == worker = "dead" \/ destroyed = "aborted"

\* A flush request covers every message whose log() had returned before it was
\* made, whoever logged it: when the worker has taken the request and seen to it,
\* all of them are flushed.  (flush() itself waits only for a place in the queue.)
FlushCoversWhatWasLogged ==
  ~flush_requested /\ ~WorkerIsDead =>
    \A s \in SinkIds : promised \subseteq OnDisk(s)

\* The destructor's own message is discarded, for want of a place, like any other.
LastMessageDiscarded(t) ==
  doing[t] = "join" /\ outcome[t] = "refused"

\* The worker has died of a sink and nobody empties the queue any more.
NeverAPlace == worker = "dead" /\ Len(slots) = Places

\* The destructor of async_log_helper returns: its message finds a place although the queue was
\* full, the worker comes to it behind all that had been logged, and ends.  There are two ways to
\* wait for ever: the policy discards the message, or the worker died and left the queue full.
\* It is the destructor that is promised this, for nobody else is logging by then.  While others
\* go on, a caller that retries may lose every place that is freed, and the worker may never
\* see the empty queue at which it would flush: log() need not return, nor a flush come.
DestructorReturns ==
  destroyed = "begun" ~>
    destroyed = "done" \/ (\E t \in Callers : LastMessageDiscarded(t)) \/ NeverAPlace
===============================================================================
