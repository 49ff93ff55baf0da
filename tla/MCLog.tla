-------------------------------- MODULE MCLog ---------------------------------
(***************************************************************************)
(* spdlog's three layers for TLC: the queue, the worker behind it and the  *)
(* file sinks.  They share no state, so that a behaviour is one of one     *)
(* layer, the part; the others keep their first state.                     *)
(***************************************************************************)
EXTENDS MpmcQueue, AsyncLog, FileSinks

VARIABLE part

logVars == <<part, mpmcVars, asyncVars, fileSinkVars>>

QueuePart(A) == part = "queue" /\ A /\ UNCHANGED <<part, asyncVars, fileSinkVars>>
AsyncPart(A) == part = "async" /\ A /\ UNCHANGED <<part, mpmcVars, fileSinkVars>>
FilesPart(A) == part = "files" /\ A /\ UNCHANGED <<part, mpmcVars, asyncVars>>

LogInit ==
  /\ part \in {"queue", "async", "files"}
  /\ MpmcInit /\ AsyncInit /\ FileSinksInit
  /\ part # "async" => overflow_policy = "block_retry"
  /\ part # "files" => kind = "simple" /\ ~force_flush

LogNext == QueuePart(MpmcNext) \/ AsyncPart(AsyncNext) \/ FilesPart(FileSinksNext)

\* The fairness of AsyncLog, for its own part.
LogSpec ==
  /\ LogInit /\ [][LogNext]_logVars
  /\ \A t \in Callers : WF_logVars(AsyncPart(push_msg(t)))
                        /\ WF_logVars(AsyncPart(Join(t)))
  /\ WF_logVars(AsyncPart(worker_loop))
===============================================================================
