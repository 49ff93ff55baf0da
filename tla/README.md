# A TLA+ model of the Pinocchio push server

Pinocchio is a small HTTP push server. Applications post messages for a user token
(`/gcm/send`), devices fetch them (`/gcm/recv/<token>`), and the messages wait in Redis
lists in between. The repository carries its own Redis client, synchronous and
asynchronous, and includes the Crow HTTP framework and spdlog. This directory models the
parts that keep state, interleave or interpret what a peer sends: the Redis clients and their
parser, the mailboxes, the life of the process, Crow's server, parsers, router, JSON and
templates, and spdlog's asynchronous logger, queue and file sinks.

## 1. Inventory

| Part | Source | State it keeps | Operations | Model |
|---|---|---|---|---|
| Asynchronous client | `redis_async_client.*`, `redis_client_impl.*` | connection state, error handler, strand, write queue, waiting handlers, message handlers | connect, command, publish, subscribe, singleShotSubscribe, unsubscribe, installErrorHandler, close; on the io thread doAsyncCommand, asyncWrite, asyncRead, doProcessMessage, handleAsyncConnect | `RedisClient`, `CommandPipe` |
| Synchronous client | `redis_sync_client.*`, `doSyncCommand` | connection state, error handler, what is in the socket | connect, command, installErrorHandler | `RedisSyncClient` |
| RESP parser | `redis_parser.*` | where it is in a reply, collected bytes, two stacks of arrays | parse, result | `RedisParser` |
| Mailboxes | `database_manager.cpp`, routes in `pinocchio.cpp` | one Redis list per token, commands on their way on two connections | AddMsg, GetMsg, the reply handlers | `Mailbox` |
| Start and stop | `main.cpp`, `database_manager.*` | states of both clients, io thread, posted commands | constructor, onConnected, run, stop, join, the HTTP handlers' calls | `Startup` |
| HTTP server, Connection, timer queue | `crow/http_server.h`, `http_connection.h`, `dumb_timer_queue.h` | Connections with their flags, deadlines by position, io_services of the workers | accept, start, do_read, handle, complete_request, do_write, check_destroy, add, cancel, process, stop | `HttpServer` |
| HTTP parser | `crow/http_parser_merged.h`, `parser.h` | state, marks into the read, lengths, the header being built | http_parser_execute, the callbacks of HTTPParser | `HttpParser` |
| Router | `crow/routing.h`, `utility.h` | rules, trie | registering, validate, find, handle | `Router` |
| JSON | `crow/json.h` | rvalue over its text, wvalue | load, rvalue's readers, wvalue's assignments, dump | `Json` |
| Templates | `crow/mustache.h` | fragments, actions, partial indents | compile, render | `Mustache` |
| Query strings, cookies | `crow/query_string.h`, `middleware.h` | pointers into the url, the jar | parse, get, get_list, copy, move, clear; before_handle | `QueryString`, `Cookies` |
| spdlog | `spdlog/details/async_log_helper.h`, `mpmc_bounded_q.h`, `sinks/*`, `details/file_helper.h`, `os.h` | ring of cells, worker thread, files | log, flush, destructor, worker loop; enqueue, dequeue; write, rotate, reopen | `AsyncLog`, `BoundedQueue`, `MpmcQueue`, `FileSinks` |
| Routes' input checks | `pinocchio.cpp` | none | a status code from the request alone | not modelled |
| RedisValue, RedisBuffer | `redis_value.*`, `redis_buffer.h` | none that changes | conversions | abstracted |
| User manager, configuration, logger set-up | `user_manager.*`, `config.*`, `logger.*` | none of interest | logging, reading a file | not modelled |

How the parts interact. A worker thread of Crow runs one io_service: it reads from a
Connection, feeds the HTTP parser, and the parser's last callback calls `handle()`, which asks the
router for the rule and runs its handler. The handlers of the server call `TDatabaseManager`.
`GetMsg` blocks on the synchronous client for `LRANGE` and then posts `LTRIM` to the
asynchronous client; `AddMsg` only posts `LPUSH` and returns. Posting goes through a boost strand to
the one io thread of the asynchronous client, which owns the write queue, the waiting handlers and the
read loop. The reply handler of `LPUSH` runs there and posts another `LTRIM` when the list has
filled up. The two clients have a connection each, and Redis promises no order between
connections. `main()` starts the io thread only when the synchronous connect has worked, and
serves without waiting for the asynchronous one.

What is hard here, and the properties that answer it:

- replies carry no identity and are matched to handlers by position alone, while calls come from
  several threads, writes complete late and reads hold any number of replies: `PipelineInv`,
  `ReplyMatchesCall`, `ImplementsPipe`, `OwnReply`;
- a failed write, a rejected reply or a broken connection stops the chain of writes or of reads
  and leaves the queues as they were: `WriteDiscipline`, `EveryCallAnswered`, `EveryCallReturns`;
- the connection state decides how a reply is read, and `subscribe()` changes it while replies are
  on their way: `ReplyMatchesCall`, `DeliveredInOrder`, `QuietOnceDrained`, `EveryMessageDelivered`;
- a mailbox is read on one connection and cleared on another, and its cap is kept by a second
  command: `OverflowIsTrimmed`, `OverflowEnds`, `ResponseInOrder`, `LostOnlyInWindow`;
- a Connection deletes itself by its flags while reads, writes, late answers and deadlines end in
  any order, and a deadline is cancelled by a position in a deque that shifts:
  `NothingTouchesDeleted`, `NotClosedEarly`, `EveryConnectionEnds`;
- a client has its response, and sends the next request, before the handler of the write has run;
  bytes that are no request come in the read that ends one: `OneWriteAtATime`, `OwnResponses`,
  `AnsweredBeforeClose`;
- text is cut anywhere by a read, and every parser resumes from its own marks, counts or stacks:
  `RepliesParsed`, `OutcomeIndependentOfReads`, `SameAsOneRead`, `RequestsAsSent`, `RequestsTrue`;
- pointers and positions: the trie, in-place unescaping, template jumps, the query string's
  pointers into its own text, quotes in cookies: `FirstRuleAnswers`, `RedirectLeadsToRule`,
  `AcceptsJson`, `DumpedIsRead`, `RendersAsWritten`, `ParametersOfItsUrl`, `JarHasWhatWasSent`;
- the log queue claims a cell and publishes it in separate steps, and the worker may end only when
  nothing is left: `ImplementsBoundedQueue`, `WrittenAsLogged`, `NothingLeftBehind`,
  `FlushCoversWhatWasLogged`, `DestructorReturns`;
- a rotation renames several files and may be interrupted between any two of its calls:
  `KeptInOrder`, `OneDayPerFile`;
- the process may be asked to stop at any moment of its start: `ServerStops`.

`PROJECT.json` lists each hazard with its line and the properties that would catch it going wrong,
and says why where there is none.

## 2. Modules

### RedisClient, CommandPipe

`CommandPipe` is what the asynchronous client promises to callers of `command()`: calls
are accepted in some order, Redis executes them in that order, and each handler is called
at most once, in that order, with the reply to its own call.

`RedisClient` is the client. Its variables are the members of `RedisClientImpl` (`state`,
`errorHandler`, `queue`, `handlers`, `msgHandlers`, `singleShotMsgHandlers`) and what boost
holds for it: the strand, a pending `async_write` (`writing`), a pending `async_read_some`
(`reading`), a pending connect (`connecting`), and the part of a read that asyncRead's
loop has not reached (`inbuf`). The socket and the server are external. A call, its request
and its reply share one name; bytes are abstract.

- `command()` and `publish()` may be called on any thread, so testing the state and
  posting are two steps. The subscription calls change maps that nothing locks; off the
  io thread that is a data race, so they are modelled as calls made on the io thread,
  from one of the client's own handlers, one step each.
- One thread runs the io_service, so a handler of boost is one step, except that each
  turn of asyncRead's loop is a step of its own (`parseReply`). While `inbuf` is not empty
  no other step of the io thread happens; application threads and Redis go on.
- The default error handler throws. On the io thread the exception leaves
  `io_service::run()` and the process ends (`alive = FALSE`). A custom handler returns and
  the client goes on (`reported`). After `close()` errors are ignored. `Disclosed` is the
  disjunction of the three and marks the behaviours in which the code has told somebody.
- `assert` is active in the default build, which does not define `NDEBUG`. The constant
  `Asserts` covers both builds.
- `Environment` lists what may go wrong: a connect is refused, the connection breaks, a
  reply is unparsable, an error handler is installed, the client is destroyed. Bytes
  written to a broken connection may be lost without an error.
- A read that ends inside a reply leaves the rest to the parser and starts the next read.
  In this module that is a stutter; `RedisParser` shows that the cut does not matter.
- After `close()` pending handlers still run (they share the implementation), and a connect
  that completes after it sets the state back to `Connected`.

### RedisSyncClient

`doSyncCommand` in two steps, `write` and `read` (or `readFails`): other threads may come
in between when `Shared` is TRUE. A read takes any number of whole replies, returns the
first and drops the others with its buffer. An unparsable reply is followed by bytes that a
later call may take for its own reply. The destructor is left out: no call can follow it.

### Mailbox

The Redis list of each token, the asynchronous connection as an ordered pipe (`pipe`,
`replies`: the guarantee of `CommandPipe`, which `RedisClient` is shown to implement) and
the synchronous `LRANGE` as one step (justified by `RedisSyncClient` with one thread). There
is one HTTP thread, as in the default configuration. `Cap` stands for the 100 of the code.
`WrongType` are tokens that name a key which is not a list: the set `userToken` is one. The
connections are up and Redis does not fail in this module.

### Startup

`main()` as a program counter (`main`), the two clients reduced to their `State`, the io
thread with `ioStopped`, and for each HTTP thread the handler it is in. `/gcm/recv` is two
steps, because the synchronous call lies between the checks and the asynchronous LTRIM. A
debug build ends in the assertions, a release build reports through the error handlers. An
exception out of a handler is Crow's 500, one out of `join()` ends the process.
Commands are only counted (`posted`): those left when `stop()` comes are lost.

### HttpServer

One record of variables per Connection, named as its members; the boolean members are the set
`flags`. `ready` is the queue of completion handlers of each io_service and `busy` the one
its worker runs. Within a handler, feeding the parser one piece of the read is a step (`FeedHead`,
`handle`, `FeedJunk`), because `handle()` runs inside it and may answer at once, later from another
thread (`end`). `dq` and `step` are `dumb_timer_queue`, with its
keys as absolute positions. A request is one of the kinds in `Request`, which are chosen so
that each path is taken: a plain one, `Connection: close` (HTTP/1.0 is the same), HTTP/1.1 without a
`Host`, `Expect: 100-continue`, a response in two chunks that the socket does not take at once, a
handler that answers later. Its head and its tail may come in different reads; what is in
them, a body or an upgrade, is the parser's matter and is in `HttpParser` only.
Clients may send nothing, send bytes that are no request, stop reading, or close their end, after which
writes to them may fail.

`handle()` logs the client's address first. `remote_endpoint()` throws when the socket has been closed
by a deadline or reset by the client (`handleThrows`; that a client which has `left` has also reset
the connection is a choice of the model's environment). The exception passes through the parser, the
read handler and `io_service::run()`, and the worker is gone: `busy` keeps a handler of the
kind `"thrown"`, in which it takes no further step, its timer with it.

`Tick` is the age of an entry at which `process()` pops it, in seconds of the model, `Room` the
chunks a socket takes before a send waits.

### HttpParser

`http_parser_execute()` over symbols instead of bytes: words the parser knows are split in
two symbols, so that a read may end inside them. Callbacks deliver the text between a mark
and the current byte, at the latest at the end of the read, and `HTTPParser`'s callbacks put the
pieces together. Two parsers run over one stream: `cut` gets it in reads that end
anywhere, `whole` in one. `ULLONG_MAX` is small in the runs, so that lengths wrap.

### RedisParser

The parser is a record and `parse` an operator from a parser and the bytes at hand to the
parser it leaves, the bytes it took and its verdict. The five line-based states share one
branch of `parseChunk`, everything else follows the code: what a bulk string takes from the
current read, the recursion of `parseArray` over its stacks, and the insertion whose end is
`ptr + canRead`. The reference is not a second parser but the encoding: `Sent(replies)` encodes
replies as RESP does, and the values that come out must be the ones that were encoded. `Narrow`
keeps integers in an `int`, as `RedisValue` does; `IntMod` is 16 in the runs so that it matters.

### Router, Json, Mustache, QueryString, Cookies

Pure code with a little state; each module has the code's algorithm, driven by actions for
its calls, and a reference written from what the text means, not from the algorithm.

- `Router`: the trie with the merging of `optimizeNode`, `find()` with the parameter types in its
  order, redirects added before the rules, methods. The reference matches each rule by itself and
  takes the first that fits. `call` says what a handler finds in the parameter lists, and a
  dynamic handler whose arguments do not fit reads behind a list; the rules of the run have
  dynamic ones that fit, that are refused, and that are let through although they do not fit.
- `Json`: `parse` follows the code's states for numbers and strings; an rvalue keeps a text as it is
  spelled and unescapes it in place. `wvalue` is a tree with assignments by index and key.
  The reference for what is JSON is the grammar.
- `Mustache`: compile() with matching of blocks, stand-alone lines and changed delimiters, render()
  with its stack of contexts, jumps and indented partials. The reference works on tokens: it
  drops stand-alone tags with their line and renders the nested blocks. Partials are indented, with
  and without what makes the code put a wrong indent (section 5). The reference looks names up
  with the model's `find_context`, which is as short as a definition of its own would be.
- `QueryString`: a pointer is a block and an offset, so that one that was not rebased is
  seen to dangle.
- `Cookies`: the header is spelled out from what the client means by it.

### AsyncLog, BoundedQueue, MpmcQueue

`BoundedQueue` is a queue in which a place is reserved, filled, taken and released in steps.
`MpmcQueue` is the lock-free ring, one atomic access or move at a time, and implements it
(`ImplementsBoundedQueue`): the slots are the positions handed out and not yet emptied. `AsyncLog`
uses `BoundedQueue` as its queue and adds log(), flush(), the destructor and the worker with
its flags, sinks that throw and both overflow policies. A sink that throws in the worker
ends it (`last_workerthread_ex`), and a flush that throws in the destructor ends the process.

### FileSinks

The simple, rotating and daily sinks under `base_sink`'s lock. Every system call of a rotation is
a step, a failed reopen and a crash may come between any two, and a restarted process opens
what it finds. Lines that are not flushed are lost in a crash from some point on. The time of day
goes on while a daily sink changes files, but not to the next rotation time (`Tick`).

### Proof modules

`RedisClientProofs`, `RedisSyncClientProofs`, `MailboxProofs`, `MpmcQueueProofs`, `AsyncLogProofs`,
`HttpServerProofs`, `HttpParserProofs` and `FileSinksProofs` extend the module in their name and hold
its theorems, section 4.

### MC modules

`MCRedisClient`, `MCRedisSyncClient`, `MCMailbox`, `MCHttpServer`, `MCHttpParser`, `MCRouter` and
`MCRedisParser` hold constants. `MCPipe`, `MCText`, `MCLog` and `MCDatabase` put components that share no
state into one run: the variable `part` says which of them a behaviour is one of, the others
keep their first state. Nothing is lost, since the parts have no common variables, and each
property speaks of one part only.

## 3. Runs

| Run | Instance | Distinct states | Shows |
|---|---|---|---|
| `pipe` | three commands; refused, broken, unparsable, closed connections; replies cut into reads | 106,873 | the client implements the ordered pipe (`ImplementsPipe`), the proof's invariant holds, every posted command is answered or the failure disclosed; every reply is handed on when its last byte is read, however the bytes are cut, and whatever they are |
| `pubsub` | a command, a subscription with its end, a single shot, two messages | 520,304 | replies go to their calls, messages in order to the handlers that wait for them, none after the end of a subscription has been served |
| `database` | synchronous calls on a connection that may fail; four sends and two receives on a mailbox of two; two HTTP threads, start and stop | 275,724 | one thread gets its own replies; an overflow is trimmed in the end, messages come back in order, and are lost only in the window between `LRANGE` and `LTRIM`; the process ends |
| `server` | two connections of one worker; plain requests and `Connection: close`; clients stall and leave | 1,027,876 | no timer, handler or completion touches a deleted `Connection`, and no timer closes one early |
| `server_client` | one client with every kind of request, two workers | 274,178 | one write at a time, own responses in order, an answer before a close, every connection ends but for the exceptions of section 5 |
| `text` | requests cut into reads; rules and urls; JSON; templates; query strings; cookies | 501,979 | each parser agrees with a reference definition on its texts, and does not depend on the cuts |
| `log` | queue of two, two enqueuers; two callers, two sinks, two policies; three kinds of file sink with crashes | 535,470 | the lock-free queue implements the bounded one step by step; each sink writes what was logged in order, flushes cover it, the destructor returns; rotated files keep their order |
| `sync_shared` | two threads, one synchronous client | violated | a thread returns the reply to the other's command |
| `silenced` | two subscriptions to one channel | violated | unsubscribing one silences the other |
| `mailbox_lost` | one send, one receive | violated | a message answered with 200 is neither returned nor kept |
| `pipelined` | one client that does not wait, two plain requests | violated | the second request of a read is answered without its handler |
| `startup` | requests before the connect completes | violated | the assertion in `stateValid` fails |

Bounds.

- `pipe`: three commands are enough for a write in progress, one queued behind it and one on the
  strand, and for a reply to arrive while each of the others is in any stage; the proofs
  cover any number. Replies are cut in every way, nest arrays up to three deep with something to
  come at every level, contain CR LF and a length of two digits; replies with any one byte replaced
  and all strings of up to four of seven symbols cover what is rejected.
- `pubsub`: two messages and two handlers give every order of a message, another message, a
  subscription and its end; the command puts replies of both kinds on the wire at once.
- `database`: a mailbox of two with three messages overflows, also while a receive is under
  way, and the fourth goes to a key of the wrong type. Three synchronous calls let a call meet
  what two earlier ones left behind. Two HTTP threads are enough for one to be between the
  synchronous and the asynchronous command while the other posts.
- `server`: two connections share a timer queue, so that the keys of one are shifted by the other;
  `Tick = 2` lets an entry age while it is not at the front. Clients stall and leave there.
  `server_client`: every kind of request followed by every other, with every fault, bytes that are
  no request in the same read among them, for one client and two workers (so that the timer queue
  is not always the first). Clients wait for a response before the next request in both. Late answers,
  two chunks, `Expect` and junk beside a second connection are left to the theorems of
  `HttpServerProofs`, which hold for any number of connections.
- `text`: every cut of each stream. Requests cover all states of the parser that requests reach, each
  stream also with any one byte missing or replaced. Rule sets have up to three of 17 rules, and
  urls up to three characters, all of those that matter to a match. JSON texts are all strings
  of up to five symbols per kind of value. Templates are all sequences of three tags and texts or of five
  blocks and blanks, and some longer ones with nested blocks and with seven partials, indented or not. Query urls have up to three pieces behind the mark, with three
  operations on two objects and `MAX_KEY_VALUE_PAIRS_COUNT` 3.
- `log`: a ring of two with three enqueues by two threads goes round once and is full and
  empty in between; a thread that stops between its claim and its publication is overtaken
  by both others. Two callers with three calls fill the queue of two with the destructor's message
  to come, and let a sink throw behind a full queue. Four messages with two files of size two rotate twice, with one crash.

`CHECK_DEADLOCK FALSE` is set everywhere because calls, messages and inputs are finitely many
and a run ends when they are used up. Symmetry is used in `server` only, which has no liveness.

Fairness. The io thread runs what is ready (`WF` on its steps), the kernel moves bytes,
Redis serves, and a thread inside `read_some` goes on when there is something to read.
`io_service::run()` guarantees the first, TCP and Redis the others; the Redis client has no timeout,
so a peer that is silent for ever without closing the connection would stall it, and that is
the meaning of assuming `Serve` fair. The HTTP server has a timeout: there only the worker
threads, the clock and handlers that have begun are fair, and nothing is assumed of clients
or the network. In the logger, threads inside a call and the worker go on, which the scheduler
gives them; no fairness is assumed of the applications: nobody has to make, or to finish, a call,
to connect, to publish or to break anything.

Every property of a passing run has a mutant in `PROJECT.json`: a plausible bug in one mapped
definition that makes the property fail under the same configuration.

## 4. Proofs

Checked by TLAPS, for all values of the constants. Assumptions are only the named ASSUMEs of the
modules.

`RedisClientProofs`, for any calls of every kind, channels, messages, environment and both builds.

- `TypeCorrect`, `WritesAreDisciplined`: types, and that asyncWrite never finds an empty queue.
- `MessagesInOrder`: a handler gets its messages in the order of publication, none twice, and a
  single-shot handler gets one. `DeliveryInv` follows the messages through the three places they pass:
  all on the wire were published after all in the strand of the same handler, and those after all
  that were delivered. A task in the strand names a handler that is registered once
  (`RegisteredInv`), and a single-shot handler that is no longer registered, so no later message
  can name it again.
- `QuietForGood`: once `unsubscribe()` has returned and what was posted before has run, the
  handler is not called again: nothing registers a handler a second time.
- `RepliesMatch`: until an error is disclosed every handler is called with the reply to its own
  call. The calls in the strand and on the wire are counted beside the messages between them
  (`InTurn`): `Aligned` says that strand, queue, server, handlers and wire hold consecutive stretches
  of the calls accepted, and `SubscribedFirst` that a message is on the wire only in the state
  in which `doProcessMessage` expects one. Without the second a message would be taken for a reply.

After an error `Aligned` need not hold: a reply that is rejected leaves its handler in place. The
following assume `NoSubscriptions`, which is how the server uses the client (`Subscribes`,
`SingleShots` and `Unsubscribes` are empty), and hold after an error too.

- `PipelineAligned`: the inductive invariant. `accepted` is the sequence of all calls posted.
  At any moment the strand, the queue, the requests on the wire, those executed, the replies
  on the wire, those in `inbuf`, the waiting handlers and the answered calls are consecutive
  stretches of it. The invariant counts their lengths as well: on a connection that is up they
  add up exactly, on one that has ended something may be missing, but only at the end. That is
  why a reply always meets its own handler, which no statement about handlers alone would give.
- `OwnRepliesAlways`, `ClientImplementsPipe`: follow from it, the second step by step with the
  history variables as the refinement mapping.

`RedisSyncClientProofs`, for one thread at a time (`~Shared`). `SyncOwnReply` rests on
`SyncOneAtATime`: until an error is reported, what is on its way belongs to the one call in
progress.

`MailboxProofs`, for any tokens, messages, requests and cap.

- `OverflowTrimmed`: a list over the cap has the LTRIM on its way, or the reply that sends
  it. The invariant `CapInv` adds types and that the key of a `WrongType` token never
  holds a list: without it an error reply could stand for an overfull list.
- `ResponsesOrdered`: a response lists messages of its own token, each once, in the order they were
  sent. It needs `OrderInv`: no message is sent twice, the lists are ordered newest first, the pipe
  is in sending order, everything in a list was sent before everything in the pipe, and so
  was what the worker holds. The pushes of the pipe are what keeps the lists ordered, so neither
  can be proved without the other.
- `LossOnlyInWindow`: a message is lost only when it came between a snapshot and its trim, or
  because newer messages filled the cap. The invariant adds that what a trim on its way would
  drop was seen by the request that sent it, or was pushed since (and is `exposed`), and counts
  the newer messages of a list above what the cap cuts.

`MpmcQueueProofs`, for any ring of a power of two, any enqueuers, dequeuers and data
(`MpmcAssumption`: producers and consumers are different threads, `NoData` is no datum).

- `CellsAreOwned`: the inductive invariant. The ring holds the last `BufferSize` positions handed
  out, the window; every other position shares its cell with one of the window. The invariant says
  what the `sequence_` of a position in the window may be and who is at work there: one producer
  that has claimed it, nobody, or one consumer. A thread that slept while the ring went round sees
  a `sequence_` of another round and starts over.
- `QueueImplemented`: `mpmc_bounded_queue` implements `BoundedQueue`. The refinement mapping sends
  the window's positions from the oldest not yet emptied to the slots. Each step of the code is a
  step of `BoundedQueue` or changes nothing of it.

`AsyncLogProofs`, for any callers, sinks, places, calls, and both policies. `MessagesFollowed` is the
inductive invariant: it follows a message from its call through its place in the queue and the
worker's hands to the sinks, and says which messages must be ahead of it: for a log message those its
thread logged before, for a flush request those it covers. As places are taken in order, what is
ahead in the queue is ahead in the sinks. `WrittenInOrder`, `FlushKept` and `NothingIsLeft` follow.
`FlushKept` speaks of a request that the worker has dequeued and seen to. `flush()` returns when its
request is in the queue, or refused, and by itself promises nothing.

`HttpServerProofs`, for any Connections, workers, requests and every environment.

- `ServerKeepsItsTypes`: the types, which also say that a handler that waits or runs names a
  Connection that has been made.
- `DeadlinesAreKept`: a deadline closes only a Connection that had nothing to read for a whole tick.
  A Connection is read by one party at a time: a pending read, one handler that waits or runs, or
  nobody while its response is deferred. With it the entry a Connection knows is in the queue
  exactly while its read is pending, at the position it remembers, as old as the Connection is idle.
  Neither half can be kept alone: the end of a read cancels the entry, and a deadline ends the read.

The second half of `HttpServerProofs` is for every environment without `"pipeline"`: a client waits
for its response before it sends the next request. It may still leave, stall or send what is no
HTTP at any moment.

- What a handler holds of a read and what is on the network are together what is left of the
  request and what the client sends when it ends (`Recut`), however the reads cut it. That tells the
  stage a request is in, and the stage what the client has read.
- `is_writing` is set exactly while a write is pending or its handler waits, and that handler is
  ahead of the one that feeds the next request.
- A Connection whose worker has fallen is `Abandoned`: it has its flags and its place in the
  request as the exception left them, and nothing is said of it but that nobody goes on with it.
- From the three: `OneWriteEach`, `DeletedAlone`, `ResponsesAreOwn` and `AnswersBeforeClosing`.

The hypothesis is needed: with `"pipeline"` a second request of the same read is fed while the response
to the first is being written, and its response starts a second write. The run `pipelined` shows it
for `OwnResponses`; TLC also finds `OneWriteAtATime` and `NothingTouchesDeleted` violated then.

`HttpParserProofs`, for any streams and any limits (`StreamsAssumption`: a stream is a sequence of
bytes; `LimitAssumption`: `ULLONG_MAX` is a natural number): `CutAsOneRead`, that a stream cut into
reads anywhere yields the requests and the errors it yields in one read. A request for another
protocol ends a read early, and only what follows one is excepted, as in `SameAsOneRead`.

- The parser that gets the stream in pieces and the one that gets it at once differ between
  two bytes: one has delivered the beginning of a text that the other only has marked. Both would be
  the same if the read ended there (`Alike`). That is what a byte keeps: when nothing is open the
  two are the same parser (`PlainStep`), and in a text the byte has the same effects on both
  and either makes it longer, or delivers it and makes them the same (`PairStep`).
- `ParsersAgree`: the inductive invariant. It adds to `SameAsOneRead` that each parser is `Good`:
  the mark of a text is set exactly in the states that read it and no other mark is (`MarksFit`);
  only a body's may be lost between two reads, which its next byte sets again. A mark
  forgotten or kept too long changes nothing until a read ends, so `SameAsOneRead` alone does not
  say what the next byte will deliver. `content_length` is positive wherever a body is counted down, and
  a parser that leaves a read has nothing open.
- A new read inside a text marks its first byte, before which nothing is left to deliver
  (`NextRead`); for a name or a value this needs that `building` tells a continuation from a
  beginning, which is where an empty piece could be taken for a new header.

No induction over the stream is needed: each step of the specification parses one byte.

`LengthsDoNotWrap`: for any `ULLONG_MAX` a digit of `Content-Length` or of a chunk is rejected, or the
length is the number read so far and below `ULLONG_MAX`, which would stand for none.

`FileSinksProofs`, for any day, rotation time, threads, messages, crashes and flushes: `DaysApart`,
a file of the daily sink holds messages of one day. The span from the time in the file's name to
the rotation time that is set is one day; a file opened late has an empty span until the next
time is set; and the holder of the lock knows of its message what its next step needs.
`FilesInOrder`, for any number and size of files and messages, threads, crashes at any step of a
rotation and restarts: `KeptInOrder`. `KeptInOrder` is not inductive; `OrderInv` adds

- numbers b[0] >= b[1] >= ... with the messages of the nth file above b[n + 1] and up to b[n] and,
  without a crash, all of those; a rename or a removal moves one of them, a write raises the first;
- where there may be a place without a file while the files are moved, and that there is none
  otherwise, so that a last file means all of them and only then one was dropped;
- what `current_size` is to the length of the file in use: that length when the lock is free, and
  with the message added when it is about to be written.

`Length` and `Kept` are recursive functions; induction over the natural numbers (`SetInduction`,
for a set, from the library's well-foundedness of <) shows that they exist and what they
compute. `FileSinksAssumption` says that `NoLogThread` is no thread, that sizes and counts are
natural numbers (those of messages and days not 0) and that the rotation time is one of the day.

Only model-checked, and why:

- liveness: fairness and ENABLED are out of the prover's reach;
- what the requests of a stream should be: `RequestsAsSent` compares them with what the stream of
  `MCHttpParser` records of itself, and `RequestsTrue` reads the number in the text of a header, by
  a fold, which needs induction over data. `RequestsTrue` is also not true of every stream: a name
  that merely ends in `content-length`, or is put together by a line without a colon, sets no length;
- the RESP parser, the router, JSON, templates, query strings and cookies: they are RECURSIVE
  operators, and what they compute for every input needs induction over data;
- `SubscriptionLasts`, which is violated; `Startup`, which is small enough to be checked whole.

## 5. Findings

- `silenced`: `unsubscribe()` sends UNSUBSCRIBE for the channel even when other handlers of
  the channel are registered; they are never called again, against the comment on `subscribe()`.
- `mailbox_lost`: a message answered with 200 may still be queued when `GetMsg` has done its
  LRANGE; the LPUSH is executed next, then the LTRIM removes it unseen.
- `sync_shared`: with `IS_MULTI_THREADED = 1` a thread may return the reply to another thread's
  command.
- `pipelined`: a client that sends a second request before the first response has been written is
  answered with an empty 200 that no handler made: `res.completed_` is cleared by the handler of the
  write, and the rest of a read is fed before that runs.
- `startup`: a request handled before the asynchronous connect completes, or after it failed, ends a
  debug build in the assertion of `RedisAsyncClient::stateValid`.

Defects that no run of their own shows; where a property has to leave one out it names it:

- `handle()` logs the client's address at a level that is on, and `remote_endpoint()`
  (`http_connection.h:290`, `socket_adaptors.h:29`) throws for a socket that a deadline has closed or the
  client has reset. The exception leaves `io_service::run()` (`http_server.h:112`) and ends the worker:
  its Connections are never served, timed out or deleted, and new ones are still handed to it (an
  exception in `EveryConnectionEnds`);
- `is_parameter_tag_compatible` reads both tags from the first list (`utility.h:172`), so
  `route_dynamic` refuses a handler for the number of its parameters only, not for their types
  (the exception in `FirstRuleAnswers`);
- an indented partial: `render_internal` inserts the indent before it begins (`mustache.h:150`), hence again
  before each element of a list (`mustache.h:238`), and `render_fragment` behind every new line but
  one that ends the text. So an indent stays where a tag takes the last line, blocks and lists have
  indents in the middle, and a partial inside it begins twice as far in or, if its tag has no indent
  of its own, has it on its first line only. `RendersAsWritten` compares all but the spaces there
  (`CanBeIndented`);
- a template block that is never closed makes rendering an absent value loop, and a closing tag without
  an opening one reads an empty list (`RendersAsWritten` asks for `Balanced`);
- while threads go on logging, a caller that finds the queue full may retry for ever
  (`async_log_helper.h:229`), and a flush, served only when the queue is found empty (line 294), may never
  come. `DestructorReturns` is about the destructor, beside which nobody logs; with a queue that a
  dead worker left full it waits for ever (`NeverAPlace`).

Behaviour the models follow without a property against it. For two of them a comment promises
otherwise: `redis_async_client.h:126` says that a single-shot subscription is unsubscribed after its
message, and `async_log_helper.h:199` that the destructor waits for the worker to finish gracefully.
They are single calls that are missing or refused, plain from the code. Of the others no line of the
repository says more than the code does:

- a single-shot subscription is erased after its call without an UNSUBSCRIBE, and the state stays
  `Subscribed`, in which `command()` may not be called; commands posted when `stop()` comes are lost;
- an error of accept leaks its Connection; bytes that are no request on the heels of a request leave
  a closed Connection that is never deleted (the exception in `EveryConnectionEnds`); the rest of a long last
  response is lost when its request asked to close (the exception in `AnsweredBeforeClose`);
- the router answers 404 when the first fitting rule has other methods, even if a later rule would
  do; "/a" and "/a/" cannot both be registered; a redirect goes before the rules; `<path>`
  followed by a slash is never reached;
- JSON: a NUL ends the text, "0e1" is rejected, control characters are accepted in strings, numbers
  are dumped with six digits;
- a query string has at most 256 pairs, and a value ends at a second "=";
- with `discard_log_msg` and a full queue the destructor waits for ever (`LastMessageDiscarded`).

## 6. Not modelled, and what is left

Not modelled: the request checks of the routes, configuration and the unused user manager (no state);
RedisValue and RedisBuffer (conversions without state); the formatting half of spdlog (`format.h`,
`format.cc`, `pattern_formatter_impl.h`), which is pure text layout; spdlog's registry and its
console, syslog, null and dist sinks; HTTP responses in the parser and `http_parser_parse_url`, which
the server does not use; SSL sockets; multithreaded accepting; `after_handle` of the cookie parser.
A deferred handler that calls `res.end()` when its Connection is gone is not modelled either.
Data races as such (subscription calls off the io thread, the parser shared by threads, unlocked
log sinks, `set_formatter` beside a log call, `_last_workerthread_ex`, a plain `shared_ptr` that the
dying worker of the logger sets while callers test and move it) have no defined outcome; the
models stay where the code defines one and the hazards say so.

What is left, in the order of its use:

1. What can be said of a client that pipelines, which the four properties of a conversation do not
   cover.
2. `Mailbox` with several HTTP threads and with a Redis that restarts.
3. `RedisSyncClient` as a refinement of an atomic command, used by `Mailbox`.
