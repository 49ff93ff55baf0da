------------------------------ MODULE Startup -------------------------------
(***************************************************************************)
(* The life of the server process: main(), the constructor and stop() of   *)
(* TDatabaseManager, the io thread of the asynchronous client and the HTTP *)
(* threads that call both clients.  The clients themselves are seen only   *)
(* through their state: RedisClient and RedisSyncClient say the rest.      *)
(***************************************************************************)
EXTENDS Naturals

CONSTANTS
  HttpThreads,   \* the worker threads of the HTTP server
  DebugBuild,    \* the build does not define NDEBUG, as in CMakeLists.txt
  Failures,      \* what Redis may do, see below
  MaxCommands    \* bound on the asynchronous commands

ASSUME StartupAssumption ==
  /\ DebugBuild \in BOOLEAN
  /\ Failures \subseteq {"refuse",  \* a connection attempt fails
                         "break"}   \* the asynchronous connection ends
  /\ MaxCommands \in Nat

VARIABLES
  main,          \* what main() is about to do
  process,       \* "up", "exited", "asserted" or "terminated"
  asyncState, syncState,  \* RedisClientImpl::state of the two clients
  connecting,    \* the asynchronous connect has not completed
  ioThread,      \* io_thread_: "none", "running" or "ended"
  ioStopped,     \* io_service_.stop() was called
  posted,        \* commands posted to io_service_ and not run
  commands,      \* asynchronous commands so far
  handling,      \* the HTTP threads between GetMsg's LRANGE and its LTRIM
  lost           \* the asynchronous connection has ended

clientStates == <<asyncState, syncState, connecting>>
ioVariables == <<ioThread, ioStopped, posted, commands, lost>>
startupVars == <<main, process, clientStates, ioVariables, handling>>

StartupInit ==
  /\ main = "construct" /\ process = "up"
  /\ asyncState = "NotConnected" /\ syncState = "NotConnected"
  /\ connecting = FALSE
  /\ ioThread = "none" /\ ioStopped = FALSE /\ posted = 0 /\ commands = 0
  /\ handling = {} /\ lost = FALSE

Main(from, to) == process = "up" /\ main = from /\ main' = to

-----------------------------------------------------------------------------
(* main().                                                                 *)

asyncConnect ==
  /\ Main("construct", "connect")
  /\ connecting' = TRUE
  /\ UNCHANGED <<process, asyncState, syncState, ioVariables, handling>>

\* Initialize() returns -1 when the synchronous connect fails, before run();
\* the constructor does not look at it.
syncConnect ==
  /\ \/ Main("connect", "run") /\ syncState' = "Connected"
     \/ "refuse" \in Failures /\ Main("connect", "serve") /\ UNCHANGED syncState
  /\ UNCHANGED <<process, asyncState, connecting, ioVariables, handling>>

run ==
  /\ Main("run", "serve")
  /\ ioThread' = "running"
  /\ UNCHANGED <<process, clientStates, ioStopped, posted, commands, lost, handling>>

\* TPinocchio and app.run().
serve ==
  /\ Main("serve", "serving")
  /\ UNCHANGED <<process, clientStates, ioVariables, handling>>

\* A signal stops the services of the HTTP threads; a handler that has begun
\* is finished.
Signal ==
  /\ Main("serving", "closing")
  /\ UNCHANGED <<process, clientStates, ioVariables, handling>>

appReturns ==
  /\ Main("closing", "stop") /\ handling = {}
  /\ UNCHANGED <<process, clientStates, ioVariables, handling>>

stopOnlyJoins ==  \* mutant: the io thread is waited for, not stopped
  /\ Main("stop", "join")
  /\ UNCHANGED <<process, clientStates, ioVariables, handling>>

stop ==
  /\ Main("stop", "join")
  /\ ioStopped' = TRUE
  /\ UNCHANGED <<process, clientStates, ioThread, posted, commands, lost, handling>>

\* join() of a thread that was never started throws, and nothing catches it.
join ==
  /\ Main("join", "return") /\ ioThread # "running"
  /\ process' = IF ioThread = "none" THEN "terminated" ELSE "exited"
  /\ UNCHANGED <<clientStates, ioVariables, handling>>

-----------------------------------------------------------------------------
(* The HTTP threads.                                                       *)

\* stateValid(): an assert, and in a release build an exception that the
\* router turns into an answer.
InvalidState(state) ==
  /\ state # "Connected"
  /\ process' = IF DebugBuild THEN "asserted" ELSE process

Post == /\ posted' = posted + 1 /\ commands' = commands + 1
        /\ UNCHANGED <<process, ioThread, ioStopped, lost>>

MayHandle(w) == process = "up" /\ main = "serving" /\ w \notin handling

AsyncCommand ==
  /\ commands < MaxCommands
  /\ \/ asyncState = "Connected" /\ Post
     \/ InvalidState(asyncState) /\ UNCHANGED ioVariables

\* /gcm/send.
HandleSend(w) ==
  /\ MayHandle(w)
  /\ AsyncCommand
  /\ UNCHANGED <<main, clientStates, handling>>

\* /regist, and /gcm/recv as far as the LRANGE.
HandleRegist(w) ==
  /\ MayHandle(w)
  /\ InvalidState(syncState)
  /\ UNCHANGED <<main, clientStates, ioVariables, handling>>

HandleRecv(w) ==
  /\ MayHandle(w)
  /\ \/ /\ syncState = "Connected"
        /\ handling' = handling \cup {w}
        /\ UNCHANGED process
     \/ InvalidState(syncState) /\ UNCHANGED handling
  /\ UNCHANGED <<main, clientStates, ioVariables>>

Trim(w) ==
  /\ process = "up" /\ w \in handling
  /\ \/ AsyncCommand
     \/ commands = MaxCommands /\ UNCHANGED <<process, ioVariables>>
  /\ handling' = handling \ {w}
  /\ UNCHANGED <<main, clientStates>>

-----------------------------------------------------------------------------
(* The io thread.                                                          *)

IoRuns == process = "up" /\ ioThread = "running" /\ ~ioStopped

\* handleAsyncConnect() and onConnected(), which stops the io_service when the
\* connect has failed.
onConnected ==
  /\ IoRuns /\ connecting
  /\ connecting' = FALSE
  /\ \/ asyncState' = "Connected" /\ UNCHANGED ioStopped
     \/ "refuse" \in Failures /\ ioStopped' = TRUE /\ UNCHANGED asyncState
  /\ UNCHANGED <<main, process, syncState, ioThread, posted, commands, lost, handling>>

runPosted ==
  /\ IoRuns /\ posted > 0
  /\ posted' = posted - 1
  /\ UNCHANGED <<main, process, clientStates, ioThread, ioStopped, commands, lost, handling>>

\* The default error handler throws, out of io_service_.run() and of the
\* function of the thread.
readError ==
  /\ IoRuns /\ asyncState = "Connected" /\ "break" \in Failures
  /\ lost' = TRUE /\ process' = "terminated"
  /\ UNCHANGED <<main, clientStates, ioThread, ioStopped, posted, commands, handling>>

ioEnds ==
  /\ process = "up" /\ ioThread = "running" /\ ioStopped
  /\ ioThread' = "ended"
  /\ UNCHANGED <<main, process, clientStates, ioStopped, posted, commands, lost, handling>>

-----------------------------------------------------------------------------
MainThread ==
  asyncConnect \/ syncConnect \/ run \/ serve \/ appReturns \/ stop \/ join

HttpThread(w) == HandleSend(w) \/ HandleRegist(w) \/ HandleRecv(w) \/ Trim(w)

IoServiceThread == onConnected \/ runPosted \/ ioEnds

StartupNext ==
  \/ MainThread \/ Signal \/ IoServiceThread \/ readError
  \/ \E w \in HttpThreads : HttpThread(w)

\* Every thread goes on when it can, and so does a handler that has begun.
StartupSpec ==
  /\ StartupInit /\ [][StartupNext]_startupVars
  /\ WF_startupVars(MainThread) /\ WF_startupVars(IoServiceThread)
  /\ \A w \in HttpThreads : WF_startupVars(Trim(w))

-----------------------------------------------------------------------------
\* main() returns after a signal, whenever it comes: before or after the
\* asynchronous connect has completed, with commands still posted and handlers
\* half way.  The process ends otherwise only when the io thread was never
\* started, for want of a synchronous connection, when the asynchronous one has
\* ended, or by an assertion.
ServerStops ==
  (main = "closing") ~>
    \/ process \in {"exited", "asserted"}
    \/ process = "terminated" /\ (lost \/ syncState # "Connected")

\* "assert( pimpl->state == RedisClientImpl::Connected )"
\* (redis_async_client.cpp:359): command() is called on a connected client.
AssertionsHold == process # "asserted"
=============================================================================
