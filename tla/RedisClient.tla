---------------------------- MODULE RedisClient ----------------------------
(***************************************************************************)
(* The asynchronous Redis client: RedisAsyncClient, which application      *)
(* threads call, and RedisClientImpl, whose handlers run on the one thread *)
(* that runs the io_service.                                               *)
(*                                                                         *)
(* A call is one invocation of command(), publish(), subscribe(),          *)
(* singleShotSubscribe() or unsubscribe(), named by a constant.  Its       *)
(* request, its reply and its handler carry that name; bytes are abstract. *)
(* TCP and the Redis server are external and are modelled from what the    *)
(* client relies on: bytes arrive in order until the connection ends, and  *)
(* Redis answers the requests of a connection in order.                    *)
(*                                                                         *)
(* command() and publish() may be called on any thread, so the test of     *)
(* `state' and the post are two steps.  The subscription calls touch maps  *)
(* that nothing locks: they are calls made on the io thread (from one of   *)
(* the client's own handlers) and are one step each.                       *)
(***************************************************************************)
EXTENDS Naturals, Sequences

CONSTANTS
  Commands,      \* calls of command() and publish()
  Subscribes,    \* calls of subscribe()
  SingleShots,   \* calls of singleShotSubscribe()
  Unsubscribes,  \* calls of unsubscribe()
  HandleOf,      \* the subscribe() call whose Handle an unsubscribe() is given
  Channels, ChannelOf,  \* the channel of each call that names one
  Messages, TopicOf,    \* what others publish, and on which channel
  NoCall, NoMsg,
  Environment,   \* what may happen around the client, see below
  Asserts        \* TRUE unless the build defines NDEBUG

Calls == Commands \cup Subscribes \cup SingleShots \cup Unsubscribes
SubscriptionCalls == Subscribes \cup SingleShots \cup Unsubscribes

ASSUME CallsAssumption ==
  /\ Commands \cap SubscriptionCalls = {} /\ Subscribes \cap SingleShots = {}
  /\ Unsubscribes \cap (Subscribes \cup SingleShots) = {}
  /\ NoCall \notin Calls /\ NoMsg \notin Messages
ASSUME ChannelAssumption ==
  /\ HandleOf \in [Unsubscribes -> Subscribes]
  /\ ChannelOf \in [Subscribes \cup SingleShots -> Channels]
  /\ TopicOf \in [Messages -> Channels]
ASSUME EnvironmentAssumption ==
  /\ Environment \subseteq {"refuse",   \* a connection attempt fails
                            "break",    \* the connection ends
                            "garbage",  \* a reply RedisParser rejects
                            "install",  \* installErrorHandler() is called
                            "close"}    \* the RedisAsyncClient is destroyed
  /\ Asserts \in BOOLEAN

VARIABLES
  state,         \* RedisClientImpl::state
  errorHandler,  \* "default" throws, "custom" returns, "ignore" is close()'s
  strand,        \* tasks posted and not yet run: doAsyncCommand or a message
  queue,         \* requests; the head is the one being written
  handlers,      \* calls whose reply is awaited, oldest first
  msgHandlers,   \* subscribe() calls whose message handler is registered
  singleShotMsgHandlers,  \* the same for singleShotSubscribe()
  writing,       \* async_write: "none", "started", or "sent" and not completed
  reading,       \* an async_read_some is pending
  inbuf,         \* what asyncRead has read and not yet parsed
  connecting,    \* an async_connect is pending
  owner          \* the RedisAsyncClient exists

VARIABLES        \* external: the socket and the Redis server
  socket,        \* "none", "up", "shut" by close(), "broken" by the peer
  toServer, toClient,
  subs,          \* channels the server has this connection subscribed to
  pushed         \* messages published so far, oldest first

VARIABLES        \* what has happened, and where each call is
  call,          \* "idle", "checked" (state tested), "done" or "refused"
  accepted, executed, answered, delivered,
  reported,      \* a custom error handler has been called
  alive          \* the process runs: no assert failed, no handler threw

clientVars == <<state, errorHandler, msgHandlers, singleShotMsgHandlers, owner>>
ioVars     == <<strand, queue, handlers, writing, reading, inbuf, connecting>>
serverVars == <<socket, toServer, toClient, subs, pushed>>
history    == <<call, accepted, executed, answered, delivered, reported, alive>>
vars == <<clientVars, ioVars, serverVars, history>>

Tasks == [call : Calls, msg : Messages \cup {NoMsg}]
Wire  == [kind : {"reply", "subscribe", "unsubscribe", "message", "garbage"},
          call : Calls \cup {NoCall}, msg : Messages \cup {NoMsg}]

CommandTask(c) == [call |-> c, msg |-> NoMsg]
Reply(kind, c) == [kind |-> kind, call |-> c, msg |-> NoMsg]
Push(m) == [kind |-> "message", call |-> NoCall, msg |-> m]

Init ==
  /\ state = "NotConnected" /\ errorHandler = "default" /\ owner = TRUE
  /\ msgHandlers = <<>> /\ singleShotMsgHandlers = {}
  /\ strand = <<>> /\ queue = <<>> /\ handlers = <<>> /\ inbuf = <<>>
  /\ writing = "none" /\ reading = FALSE /\ connecting = FALSE
  /\ socket = "none" /\ toServer = <<>> /\ toClient = <<>>
  /\ subs = {} /\ pushed = <<>>
  /\ call = [c \in Calls |-> "idle"]
  /\ accepted = <<>> /\ executed = <<>> /\ answered = <<>> /\ delivered = <<>>
  /\ reported = FALSE /\ alive = TRUE

-----------------------------------------------------------------------------
(* The error handler.  An exception leaves io_service::run() on its thread *)
(* and ends the process.                                                   *)

CallErrorHandler ==
  /\ alive' = (errorHandler # "default")
  /\ reported' = (reported \/ errorHandler = "custom")

\* A call made in a state it may not be made in: the assert fails, or the
\* error handler is called on the caller's thread, where a throw is caught.
Refuse(c) ==
  /\ call' = [call EXCEPT ![c] = "refused"]
  /\ alive' = ~Asserts
  /\ reported' = (reported \/ (~Asserts /\ errorHandler = "custom"))
  /\ UNCHANGED <<clientVars, ioVars, serverVars, accepted, executed, answered, delivered>>

installErrorHandler ==
  /\ "install" \in Environment
  /\ owner
  /\ errorHandler' = "custom"
  /\ UNCHANGED <<state, msgHandlers, singleShotMsgHandlers, owner, ioVars, serverVars, history>>

-----------------------------------------------------------------------------
(* Connecting and closing.                                                 *)

connect ==
  /\ owner
  /\ state = "NotConnected"
  /\ ~connecting
  /\ socket = "none"
  /\ connecting' = TRUE
  /\ UNCHANGED <<clientVars, strand, queue, handlers, writing, reading, inbuf, serverVars, history>>

\* External: the peer accepts.
Establish ==
  /\ connecting
  /\ socket = "none"
  /\ socket' = "up"
  /\ UNCHANGED <<clientVars, ioVars, toServer, toClient, subs, pushed, history>>

handleAsyncConnect ==
  /\ connecting
  /\ inbuf = <<>>
  /\ connecting' = FALSE
  /\ \/ /\ socket # "none"
        /\ state' = "Connected"
        /\ reading' = TRUE
     \/ /\ socket = "none"
        /\ "refuse" \in Environment
        /\ UNCHANGED <<state, reading>>
  /\ UNCHANGED <<errorHandler, msgHandlers, singleShotMsgHandlers, owner,
                 strand, queue, handlers, writing, inbuf, serverVars, history>>

\* ~RedisAsyncClient: no call is in progress and none will follow.
close ==
  /\ "close" \in Environment
  /\ owner
  /\ \A c \in Calls : call[c] # "checked"
  /\ owner' = FALSE
  /\ IF state # "Closed"
     THEN /\ errorHandler' = "ignore"
          /\ socket' = IF socket = "up" THEN "shut" ELSE socket
          /\ state' = "Closed"
     ELSE UNCHANGED <<errorHandler, socket, state>>
  /\ UNCHANGED <<msgHandlers, singleShotMsgHandlers, ioVars, toServer, toClient, subs, pushed, history>>

-----------------------------------------------------------------------------
(* Calls.                                                                  *)

Post(c) ==
  /\ strand' = Append(strand, CommandTask(c))
  /\ accepted' = Append(accepted, c)
  /\ call' = [call EXCEPT ![c] = "done"]

stateValid(c) ==
  /\ owner
  /\ call[c] = "idle"
  /\ \/ /\ state = "Connected"
        /\ call' = [call EXCEPT ![c] = "checked"]
        /\ UNCHANGED <<clientVars, ioVars, serverVars, accepted, executed,
                       answered, delivered, reported, alive>>
     \/ /\ state # "Connected"
        /\ Refuse(c)

command(c) ==
  /\ call[c] = "checked"
  /\ Post(c)
  /\ UNCHANGED <<clientVars, queue, handlers, writing, reading, inbuf, connecting,
                 serverVars, executed, answered, delivered, reported, alive>>

MaySubscribe == state \in {"Connected", "Subscribed"}

subscribe(c) ==
  /\ owner
  /\ call[c] = "idle"
  /\ \/ /\ MaySubscribe
        /\ Post(c)
        /\ msgHandlers' = Append(msgHandlers, c)
        /\ state' = "Subscribed"
        /\ UNCHANGED <<errorHandler, singleShotMsgHandlers, owner,
                       queue, handlers, writing, reading, inbuf, connecting,
                       serverVars, executed, answered, delivered, reported, alive>>
     \/ /\ ~MaySubscribe
        /\ Refuse(c)

singleShotSubscribe(c) ==
  /\ owner
  /\ call[c] = "idle"
  /\ \/ /\ MaySubscribe
        /\ Post(c)
        /\ singleShotMsgHandlers' = singleShotMsgHandlers \cup {c}
        /\ state' = "Subscribed"
        /\ UNCHANGED <<errorHandler, msgHandlers, owner,
                       queue, handlers, writing, reading, inbuf, connecting,
                       serverVars, executed, answered, delivered, reported, alive>>
     \/ /\ ~MaySubscribe
        /\ Refuse(c)

\* The registered message handlers that are in a set, in their order.
Chosen(S) ==
  LET upTo[i \in 0 .. Len(msgHandlers)] ==
        IF i = 0 THEN <<>>
        ELSE IF msgHandlers[i] \in S THEN Append(upTo[i - 1], msgHandlers[i])
        ELSE upTo[i - 1]
  IN  upTo[Len(msgHandlers)]

NotErased(s) == msgHandlers  \* mutant
Erased(s) == Chosen(Subscribes \ {s})

unsubscribe(c) ==
  /\ owner
  /\ call[c] = "idle"
  /\ call[HandleOf[c]] = "done"
  /\ \/ /\ MaySubscribe
        /\ msgHandlers' = Erased(HandleOf[c])
        /\ Post(c)
        /\ UNCHANGED <<state, errorHandler, singleShotMsgHandlers, owner,
                       queue, handlers, writing, reading, inbuf, connecting,
                       serverVars, executed, answered, delivered, reported, alive>>
     \/ /\ ~MaySubscribe
        /\ Refuse(c)

-----------------------------------------------------------------------------
(* The io thread.  It is inside asyncRead while inbuf is not empty.        *)

StartWriteLate(q) == IF Len(q) = 2 THEN "started" ELSE writing  \* mutant
StartWriteAlways(q) == "started"                                \* mutant
StartWrite(q) == IF Len(q) = 1 THEN "started" ELSE writing

\* A doAsyncCommand that was posted.
doAsyncCommand ==
  /\ inbuf = <<>>
  /\ strand # <<>>
  /\ Head(strand).msg = NoMsg
  /\ strand' = Tail(strand)
  /\ queue' = Append(queue, Head(strand).call)
  /\ handlers' = Append(handlers, Head(strand).call)
  /\ writing' = StartWrite(queue')
  /\ UNCHANGED <<clientVars, reading, inbuf, connecting, serverVars, history>>

\* A message handler that was posted.
runMsgHandler ==
  /\ inbuf = <<>>
  /\ strand # <<>>
  /\ Head(strand).msg # NoMsg
  /\ strand' = Tail(strand)
  /\ delivered' = Append(delivered, Head(strand))
  /\ UNCHANGED <<clientVars, queue, handlers, writing, reading, inbuf, connecting, serverVars,
                 call, accepted, executed, answered, reported, alive>>

\* External: the kernel takes the bytes.  On a broken connection it may take
\* them and lose them.
Transmit ==
  /\ writing = "started"
  /\ socket \in {"up", "broken"}
  /\ writing' = "sent"
  /\ toServer' = IF socket = "up" THEN Append(toServer, Head(queue)) ELSE toServer
  /\ UNCHANGED <<clientVars, strand, queue, handlers, reading, inbuf, connecting,
                 socket, toClient, subs, pushed, history>>

NoNextWrite(q) == "none"  \* mutant
NextWrite(q) == IF q # <<>> THEN "started" ELSE "none"

asyncWrite ==
  /\ inbuf = <<>>
  /\ \/ /\ writing = "sent"
        /\ queue' = Tail(queue)
        /\ writing' = NextWrite(queue')
        /\ UNCHANGED <<alive, reported>>
     \/ /\ writing = "started"
        /\ socket \in {"shut", "broken"}
        /\ writing' = "none"
        /\ CallErrorHandler
        /\ UNCHANGED queue
  /\ UNCHANGED <<clientVars, strand, handlers, reading, inbuf, connecting, serverVars,
                 call, accepted, executed, answered, delivered>>

\* What was read holds k whole replies; the rest of one waits in the parser.
asyncRead ==
  /\ inbuf = <<>>
  /\ reading
  /\ reading' = FALSE
  /\ \/ /\ \E k \in 1..Len(toClient) :
             /\ inbuf' = SubSeq(toClient, 1, k)
             /\ toClient' = SubSeq(toClient, k + 1, Len(toClient))
        /\ UNCHANGED <<alive, reported>>
     \/ /\ socket \in {"shut", "broken"}
        /\ CallErrorHandler
        /\ UNCHANGED <<inbuf, toClient>>
  /\ UNCHANGED <<clientVars, strand, queue, handlers, writing, connecting,
                 socket, toServer, subs, pushed,
                 call, accepted, executed, answered, delivered>>

CallHandlerNoPop(v) ==  \* mutant
  /\ handlers # <<>>
  /\ answered' = Append(answered, [call |-> Head(handlers), reply |-> v.call])
  /\ UNCHANGED <<handlers, strand, singleShotMsgHandlers, delivered, alive, reported>>

\* handlers.front()(v); handlers.pop()
CallHandler(v) ==
  /\ handlers # <<>>
  /\ answered' = Append(answered, [call |-> Head(handlers), reply |-> v.call])
  /\ handlers' = Tail(handlers)
  /\ UNCHANGED <<strand, singleShotMsgHandlers, delivered, alive, reported>>

ShotKept(s) == singleShotMsgHandlers  \* mutant
ShotErased(s) == singleShotMsgHandlers \ {s}

\* One single-shot handler of the channel, and every other handler of it.
PostMessage(m) ==
  LET shots == {s \in singleShotMsgHandlers : ChannelOf[s] = TopicOf[m]}
      subscribers == Chosen({s \in Subscribes : ChannelOf[s] = TopicOf[m]})
      posts(hs) == [i \in 1..Len(hs) |-> [call |-> hs[i], msg |-> m]]
  IN  /\ \/ /\ shots = {}
            /\ strand' = strand \o posts(subscribers)
            /\ UNCHANGED singleShotMsgHandlers
         \/ \E s \in shots :
              /\ strand' = strand \o posts(<<s>> \o subscribers)
              /\ singleShotMsgHandlers' = ShotErased(s)
      /\ UNCHANGED <<handlers, answered, delivered, alive, reported>>

doProcessMessage(v) ==
  IF state = "Subscribed"
  THEN \/ v.kind = "message" /\ PostMessage(v.msg)
       \/ v.kind \in {"subscribe", "unsubscribe"} /\ CallHandler(v)
       \/ /\ v.kind = "reply" \/ (v.kind # "message" /\ handlers = <<>>)
          /\ CallErrorHandler
          /\ UNCHANGED <<strand, handlers, singleShotMsgHandlers, answered, delivered>>
  ELSE \/ CallHandler(v)
       \/ /\ handlers = <<>>
          /\ CallErrorHandler
          /\ UNCHANGED <<strand, handlers, singleShotMsgHandlers, answered, delivered>>

NoNextRead(rest) == FALSE  \* mutant
NextRead(rest) == rest = <<>>

\* One turn of asyncRead's loop.  After the last the read is started again,
\* but not after a parse error.
parseReply ==
  /\ inbuf # <<>>
  /\ \/ /\ Head(inbuf).kind # "garbage"
        /\ doProcessMessage(Head(inbuf))
        /\ inbuf' = Tail(inbuf)
        /\ reading' = NextRead(inbuf')
     \/ /\ Head(inbuf).kind = "garbage"
        /\ CallErrorHandler
        /\ inbuf' = <<>>
        /\ UNCHANGED <<strand, handlers, singleShotMsgHandlers, answered, delivered, reading>>
  /\ UNCHANGED <<state, errorHandler, msgHandlers, owner, queue, writing, connecting,
                 serverVars, call, accepted, executed>>

-----------------------------------------------------------------------------
(* External: the Redis server and the connection to it.                    *)

ReplyKinds(c) ==
  (IF c \in Subscribes \cup SingleShots THEN {"subscribe"}
   ELSE IF c \in Unsubscribes THEN {"unsubscribe"} ELSE {"reply"})
  \cup (IF "garbage" \in Environment /\ c \in Commands THEN {"garbage"} ELSE {})

Serve ==
  /\ toServer # <<>>
  /\ LET c == Head(toServer)
     IN  /\ toServer' = Tail(toServer)
         /\ executed' = Append(executed, c)
         /\ subs' = IF c \in Subscribes \cup SingleShots THEN subs \cup {ChannelOf[c]}
                    ELSE IF c \in Unsubscribes THEN subs \ {ChannelOf[HandleOf[c]]}
                    ELSE subs
         /\ \/ /\ socket = "up"
               /\ \E kind \in ReplyKinds(c) : toClient' = Append(toClient, Reply(kind, c))
            \/ socket # "up" /\ UNCHANGED toClient
  /\ UNCHANGED <<clientVars, ioVars, socket, pushed,
                 call, accepted, answered, delivered, reported, alive>>

Publish(m) ==
  /\ \A i \in 1..Len(pushed) : pushed[i] # m
  /\ pushed' = Append(pushed, m)
  /\ toClient' = IF TopicOf[m] \in subs /\ socket = "up"
                 THEN Append(toClient, Push(m)) ELSE toClient
  /\ UNCHANGED <<clientVars, ioVars, socket, toServer, subs, history>>

Break ==
  /\ "break" \in Environment
  /\ socket = "up"
  /\ socket' = "broken"
  /\ UNCHANGED <<clientVars, ioVars, toServer, toClient, subs, pushed, history>>

-----------------------------------------------------------------------------
Call(c) ==
  \/ c \in Commands /\ stateValid(c)
  \/ c \in Commands /\ command(c)
  \/ c \in Subscribes /\ subscribe(c)
  \/ c \in SingleShots /\ singleShotSubscribe(c)
  \/ c \in Unsubscribes /\ unsubscribe(c)

IoThread ==
  \/ handleAsyncConnect \/ doAsyncCommand \/ runMsgHandler
  \/ asyncWrite \/ asyncRead \/ parseReply

Next ==
  /\ alive
  /\ \/ installErrorHandler \/ connect \/ close
     \/ \E c \in Calls : Call(c)
     \/ IoThread
     \/ Establish \/ Transmit \/ Serve \/ Break
     \/ \E m \in Messages : Publish(m)

Spec == Init /\ [][Next]_vars

(* The io thread keeps running what is ready, the kernel keeps moving bytes *)
(* and Redis keeps serving.  Nothing makes anyone start or finish a call.  *)
Fairness ==
  /\ WF_vars(alive /\ IoThread)
  /\ WF_vars(alive /\ Transmit)
  /\ WF_vars(alive /\ Serve)
FairSpec == Spec /\ Fairness

-----------------------------------------------------------------------------
(* Types.                                                                  *)

TypeOK ==
  /\ state \in {"NotConnected", "Connected", "Subscribed", "Closed"}
  /\ errorHandler \in {"default", "custom", "ignore"}
  /\ strand \in Seq(Tasks)
  /\ queue \in Seq(Calls) /\ handlers \in Seq(Calls)
  /\ msgHandlers \in Seq(Subscribes) /\ singleShotMsgHandlers \subseteq SingleShots
  /\ writing \in {"none", "started", "sent"}
  /\ reading \in BOOLEAN /\ connecting \in BOOLEAN /\ owner \in BOOLEAN
  /\ inbuf \in Seq(Wire) /\ toClient \in Seq(Wire) /\ toServer \in Seq(Calls)
  /\ socket \in {"none", "up", "shut", "broken"}
  /\ subs \subseteq Channels /\ pushed \in Seq(Messages)
  /\ call \in [Calls -> {"idle", "checked", "done", "refused"}]
  /\ accepted \in Seq(Calls) /\ executed \in Seq(Calls)
  /\ answered \in Seq([call : Calls, reply : Calls \cup {NoCall}])
  /\ delivered \in Seq(Tasks)
  /\ reported \in BOOLEAN /\ alive \in BOOLEAN

-----------------------------------------------------------------------------
(* The request pipeline.                                                   *)

\* What went wrong, if anything did, was not hidden from the application:
\* a handler was told, the process ended, or the client was being destroyed.
Disclosed == reported \/ ~alive \/ ~owner

\* A write is in progress only for the head of the queue, so asyncWrite's
\* assertion that the queue is not empty holds; and requests wait without a
\* write in progress only after a failed write has been disclosed, because
\* doAsyncCommand starts a write only when its request is alone in the queue.
WriteDiscipline ==
  /\ writing # "none" => queue # <<>>
  /\ queue # <<>> => writing # "none" \/ Disclosed

Unsent == IF writing = "sent" THEN Len(queue) - 1 ELSE Len(queue)

\* The calls still to be queued are the last ones accepted, in order, and the
\* queue holds the ones before them.
SubmissionInOrder ==
  /\ Len(strand) + Len(queue) <= Len(accepted)
  /\ \A i \in 1..Len(strand) :
       strand[i] = CommandTask(accepted[Len(accepted) - Len(strand) + i])
  /\ \A i \in 1..Len(queue) :
       queue[i] = accepted[Len(accepted) - Len(strand) - Len(queue) + i]

\* Redis has executed, and is about to receive, the first calls accepted; and
\* on a connection that has not ended it is missing none of those sent.
ExecutionInOrder ==
  /\ Len(executed) + Len(toServer) + Unsent + Len(strand) <= Len(accepted)
  /\ socket \in {"none", "up"} =>
       Len(executed) + Len(toServer) + Unsent + Len(strand) = Len(accepted)
  /\ \A i \in 1..Len(executed) : executed[i] = accepted[i]
  /\ \A i \in 1..Len(toServer) : toServer[i] = accepted[Len(executed) + i]

\* The handlers waiting are those of the calls accepted after the answered
\* ones, in order.
HandlersInOrder ==
  /\ Len(answered) + Len(handlers) + Len(strand) = Len(accepted)
  /\ \A i \in 1..Len(answered) : answered[i].call = accepted[i]
  /\ \A i \in 1..Len(handlers) : handlers[i] = accepted[Len(answered) + i]

\* While the client reads, the replies on their way are those to the calls
\* executed after the answered ones, in order.
RepliesInOrder ==
  /\ Len(answered) <= Len(executed)
  /\ \A i \in 1..Len(answered) : answered[i].reply = executed[i]
  /\ reading => inbuf = <<>>
  /\ reading \/ inbuf # <<>> =>
       /\ Len(answered) + Len(inbuf) + Len(toClient) <= Len(executed)
       /\ socket = "up" =>
            Len(answered) + Len(inbuf) + Len(toClient) = Len(executed)
       /\ \A i \in 1..Len(inbuf) : inbuf[i].call = executed[Len(answered) + i]
       /\ \A i \in 1..Len(toClient) :
            toClient[i].call = executed[Len(answered) + Len(inbuf) + i]

\* No call is under way before the connection is.
ConnectedFirst ==
  /\ state = "Connected" => socket # "none" /\ ~connecting
  /\ socket = "none" \/ connecting =>
       /\ accepted = <<>>
       /\ \A c \in Calls : call[c] # "checked"
       /\ ~reading /\ inbuf = <<>> /\ toClient = <<>>

\* Without subscription calls there is nothing but replies on the wire.
CommandsOnly ==
  /\ state # "Subscribed" /\ subs = {}
  /\ \A i \in 1..Len(inbuf) : inbuf[i].kind \in {"reply", "garbage"}
  /\ \A i \in 1..Len(toClient) : toClient[i].kind \in {"reply", "garbage"}

\* Errors are ignored only while the client is being destroyed.
IgnoredAfterClose == errorHandler = "ignore" => ~owner

\* A call is posted once.
AcceptedAreDone == \A i \in 1..Len(accepted) : call[accepted[i]] = "done"

\* The inductive invariant of a client used for commands only.
PipelineInv ==
  /\ SubmissionInOrder
  /\ ExecutionInOrder
  /\ HandlersInOrder
  /\ RepliesInOrder
  /\ ConnectedFirst
  /\ CommandsOnly
  /\ IgnoredAfterClose
  /\ AcceptedAreDone

\* Every handler is called with the reply to its own call, in the order in
\* which the calls were posted, as long as no error has been disclosed: a
\* reply that doProcessMessage rejects leaves its handler in place, and the
\* next reply goes to that handler.
ReplyMatchesCall ==
  Disclosed \/ \A i \in 1..Len(answered) :
    answered[i] = [call |-> accepted[i], reply |-> accepted[i]]

\* A client used for commands only is an ordered pipe, whatever happens to
\* the connection and whatever the error handler does.
Pipe == INSTANCE CommandPipe WITH Calls <- Calls, accepted <- accepted,
                                  executed <- executed, answered <- answered
ImplementsPipe == Pipe!Spec

\* A call posted is answered, or what prevented it is disclosed: neither the
\* write queue nor the chain of reads stops silently.
EveryCallAnswered ==
  \A c \in Commands :
    (\E i \in 1..Len(accepted) : accepted[i] = c)
      ~> (Disclosed \/ \E i \in 1..Len(answered) : answered[i].call = c)

-----------------------------------------------------------------------------
(* Subscriptions.                                                          *)

Position(m) == CHOOSE p \in 1..Len(pushed) : pushed[p] = m

\* A message handler gets the messages of its channel in the order in which
\* they were published, none of them twice, and a single-shot handler gets
\* one only: on their way they pass the socket, asyncRead's loop and the
\* strand, which also holds the calls being posted.
DeliveredInOrder ==
  \A i, j \in 1..Len(delivered) :
    i < j /\ delivered[i].call = delivered[j].call =>
      /\ delivered[i].call \notin SingleShots
      /\ Position(delivered[i].msg) < Position(delivered[j].msg)

Unsubscribed(s) == \E u \in Unsubscribes : HandleOf[u] = s /\ call[u] = "done"
Drained(s) ==
  /\ Unsubscribed(s)
  /\ \A i \in 1..Len(strand) : strand[i].call # s \/ strand[i].msg = NoMsg

\* Once unsubscribe() has returned and the messages posted before it have
\* been handled, the handler is never called again, although Redis goes on
\* sending messages until UNSUBSCRIBE reaches it.
QuietOnceDrained ==
  [][\A s \in Subscribes : Drained(s) => Drained(s)']_vars

\* A message Redis has sent reaches every handler registered for its channel,
\* unless that handler is unsubscribed or an error is disclosed.
EveryMessageDelivered ==
  \A s \in Subscribes, m \in Messages :
    ((\E i \in 1..Len(msgHandlers) : msgHandlers[i] = s)
       /\ TopicOf[m] = ChannelOf[s]
       /\ \E i \in 1..Len(toClient) : toClient[i] = Push(m))
    ~> (Disclosed \/ Unsubscribed(s)
          \/ \E i \in 1..Len(delivered) : delivered[i] = [call |-> s, msg |-> m])

\* Nothing is under way anywhere.
Settled ==
  /\ ~Disclosed
  /\ socket = "up"
  /\ \A q \in {strand, queue, toServer, toClient, inbuf} : q = <<>>
  /\ \A c \in Calls : call[c] # "checked"

\* What redis_async_client.h says of subscribe(): its handler is called when
\* someone publishes, until unsubscribe() is called for it.  Once everything
\* has settled Redis must have the channel of every registered handler.
SubscriptionLasts ==
  Settled => \A i \in 1..Len(msgHandlers) : ChannelOf[msgHandlers[i]] \in subs
=============================================================================
