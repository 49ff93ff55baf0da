-------------------------- MODULE RedisSyncClient --------------------------
(***************************************************************************)
(* The synchronous Redis client: RedisSyncClient::command() and            *)
(* RedisClientImpl::doSyncCommand, which writes a request and then reads   *)
(* until one reply is complete.                                            *)
(*                                                                         *)
(* The client is called by the threads of the HTTP server and has no lock. *)
(* With one thread (IS_MULTI_THREADED = 0) calls do not overlap; with      *)
(* several, threads write to and read from the same socket.  What a data   *)
(* race inside the shared parser may do beyond that is not modelled.       *)
(*                                                                         *)
(* A call of command() is named by a constant and so is its reply.  The    *)
(* socket and the Redis server are external.                               *)
(***************************************************************************)
EXTENDS Naturals, Sequences

CONSTANTS
  Calls,           \* calls of command()
  Shared,          \* several threads call the client
  Environment,     \* what may happen around the client, see below
  Asserts,         \* TRUE unless the build defines NDEBUG
  Pending, Raised, Null  \* no outcome yet, an exception, RedisValue()

ASSUME SyncAssumption ==
  /\ {Pending, Raised, Null} \cap Calls = {}
  /\ Pending # Raised /\ Pending # Null /\ Raised # Null
  /\ Shared \in BOOLEAN /\ Asserts \in BOOLEAN
  /\ Environment \subseteq {"refuse",   \* connect() fails
                            "break",    \* the connection ends
                            "garbage",  \* a reply RedisParser rejects
                            "install"}  \* installErrorHandler() is called

VARIABLES
  state,         \* RedisClientImpl::state
  errorHandler,  \* "default" throws, "custom" returns
  phase,         \* each call: "idle", "reading" (in doSyncCommand) or "done"
  outcome,       \* what each call has returned or raised
  alive,         \* the process runs: no assert failed
  socket, toServer, toClient  \* external

clientVars == <<state, errorHandler>>
vars == <<state, errorHandler, phase, outcome, alive, socket, toServer, toClient>>

\* A reply, one the parser rejects, or the bytes that follow the rejected one.
Wire == [kind : {"reply", "garbage", "rest"}, call : Calls]
Bytes(kind, c) == [kind |-> kind, call |-> c]

Init ==
  /\ state = "NotConnected" /\ errorHandler = "default"
  /\ phase = [c \in Calls |-> "idle"]
  /\ outcome = [c \in Calls |-> Pending]
  /\ alive = TRUE
  /\ socket = "none" /\ toServer = <<>> /\ toClient = <<>>

connect ==
  /\ state = "NotConnected"
  /\ socket = "none"
  /\ \/ state' = "Connected" /\ socket' = "up"
     \/ "refuse" \in Environment /\ UNCHANGED <<state, socket>>
  /\ UNCHANGED <<errorHandler, phase, outcome, alive, toServer, toClient>>

installErrorHandler ==
  /\ "install" \in Environment
  /\ errorHandler' = "custom"
  /\ UNCHANGED <<state, phase, outcome, alive, socket, toServer, toClient>>

Return(c, v) ==
  /\ phase' = [phase EXCEPT ![c] = "done"]
  /\ outcome' = [outcome EXCEPT ![c] = v]

\* errorHandler(...); return RedisValue();
ReturnError(c) == Return(c, IF errorHandler = "default" THEN Raised ELSE Null)

MayCall(c) ==
  /\ phase[c] = "idle"
  /\ Shared \/ \A d \in Calls : phase[d] # "reading"

stateValid(c) ==
  /\ MayCall(c)
  /\ state # "Connected"
  /\ alive' = ~Asserts
  /\ IF Asserts THEN UNCHANGED <<phase, outcome>> ELSE ReturnError(c)
  /\ UNCHANGED <<clientVars, socket, toServer, toClient>>

\* doSyncCommand up to the write.  On a connection that has ended the write
\* may fail, or its bytes may be lost.
write(c) ==
  /\ MayCall(c)
  /\ state = "Connected"
  /\ \/ /\ socket = "up"
        /\ toServer' = Append(toServer, c)
        /\ phase' = [phase EXCEPT ![c] = "reading"]
        /\ UNCHANGED outcome
     \/ /\ socket = "broken"
        /\ phase' = [phase EXCEPT ![c] = "reading"]
        /\ UNCHANGED <<outcome, toServer>>
     \/ /\ socket = "broken"
        /\ ReturnError(c)
        /\ UNCHANGED toServer
  /\ UNCHANGED <<clientVars, alive, socket, toClient>>

LeaveReply(k) == toClient' = SubSeq(toClient, k, Len(toClient))  \* mutant
\* What a read leaves for the next.
Consume(k) == toClient' = SubSeq(toClient, k + 1, Len(toClient))

\* A read of k whole replies: the first is returned, the others are dropped
\* with the buffer.
read(c) ==
  /\ phase[c] = "reading"
  /\ \E k \in 1..Len(toClient) : Consume(k)
  /\ \/ Head(toClient).kind # "garbage" /\ Return(c, Head(toClient).call)
     \/ Head(toClient).kind # "reply" /\ ReturnError(c)
  /\ UNCHANGED <<clientVars, alive, socket, toServer>>

readRetries(c) ==  \* mutant: the error is not looked at
  /\ phase[c] = "reading"
  /\ toClient = <<>>
  /\ socket = "broken"
  /\ UNCHANGED vars

\* read_some without an error code throws, whatever the error handler is.
readFails(c) ==
  /\ phase[c] = "reading"
  /\ toClient = <<>>
  /\ socket = "broken"
  /\ Return(c, Raised)
  /\ UNCHANGED <<clientVars, alive, socket, toServer, toClient>>

-----------------------------------------------------------------------------
(* External: the Redis server and the connection to it.                    *)

Serve ==
  /\ toServer # <<>>
  /\ toServer' = Tail(toServer)
  /\ \/ socket = "up" /\ toClient' = Append(toClient, Bytes("reply", Head(toServer)))
     \/ /\ socket = "up"
        /\ "garbage" \in Environment
        /\ toClient' = toClient \o <<Bytes("garbage", Head(toServer)), Bytes("rest", Head(toServer))>>
     \/ socket = "broken" /\ UNCHANGED toClient
  /\ UNCHANGED <<clientVars, phase, outcome, alive, socket>>

Break ==
  /\ "break" \in Environment
  /\ socket = "up"
  /\ socket' = "broken"
  /\ UNCHANGED <<clientVars, phase, outcome, alive, toServer, toClient>>

-----------------------------------------------------------------------------
Caller(c) == stateValid(c) \/ write(c) \/ read(c) \/ readFails(c)

Next ==
  /\ alive
  /\ \/ connect \/ installErrorHandler \/ Serve \/ Break
     \/ \E c \in Calls : Caller(c)

Spec == Init /\ [][Next]_vars

(* Redis keeps serving, and a thread inside read_some goes on when there is *)
(* something to read or the connection has ended.                          *)
FairSpec ==
  /\ Spec
  /\ WF_vars(alive /\ Serve)
  /\ \A c \in Calls : WF_vars(alive /\ (read(c) \/ readFails(c)))

-----------------------------------------------------------------------------
\* The type of every variable.
TypeOK ==
  /\ state \in {"NotConnected", "Connected"}
  /\ errorHandler \in {"default", "custom"}
  /\ phase \in [Calls -> {"idle", "reading", "done"}]
  /\ outcome \in [Calls -> Calls \cup {Pending, Raised, Null}]
  /\ alive \in BOOLEAN
  /\ socket \in {"none", "up", "broken"}
  /\ toServer \in Seq(Calls) /\ toClient \in Seq(Wire)

\* Some call has failed, and its caller has been told.
Told == \E c \in Calls : outcome[c] \in {Raised, Null}

\* A call returns the reply to its own command: no reply is left behind for
\* the next call to find, until an error has been reported to a caller.
OwnReply == \A c \in Calls : outcome[c] \in Calls => outcome[c] = c \/ Told

\* With one thread, what is on its way belongs to the call in progress.
OneAtATime ==
  /\ \A c, d \in Calls : phase[c] = "reading" /\ phase[d] = "reading" => c = d
  /\ \A c \in Calls : phase[c] # "done" => outcome[c] = Pending
  /\ ~Told =>
       /\ \A i \in 1..Len(toServer) : phase[toServer[i]] = "reading"
       /\ \A i \in 1..Len(toClient) : phase[toClient[i].call] = "reading"
       /\ toServer = <<>> \/ toClient = <<>>
       /\ Len(toServer) <= 1
       /\ \/ toClient = <<>>
          \/ Len(toClient) = 1 /\ toClient[1].kind = "reply"
          \/ Len(toClient) = 2 /\ toClient[1].kind = "garbage"

\* A call that was written returns: it gets its reply or an exception.
EveryCallReturns ==
  \A c \in Calls : phase[c] = "reading" ~> phase[c] = "done" \/ ~alive
=============================================================================
