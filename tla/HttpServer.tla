----------------------------- MODULE HttpServer -----------------------------
(***************************************************************************)
(* The HTTP server of Crow under Pinocchio: Server accepts connections and *)
(* hands each to one io_service of its pool; a Connection reads, feeds the *)
(* parser, runs the route's handler and writes the response; and the       *)
(* dumb_timer_queue of that io_service closes connections that stay idle.  *)
(*                                                                         *)
(* A Connection is allocated with new, is known to its pending operations  *)
(* and to its deadline only by its address, and deletes itself.  What the  *)
(* module is about is that lifetime, and that every request gets its own   *)
(* response, whole.                                                        *)
(*                                                                         *)
(* Each io_service is run by one thread, a worker.  A completion handler   *)
(* that feeds the parser takes one step per piece of a request: nothing    *)
(* else runs on its worker in between, but the network and the other       *)
(* workers go on.  A request is a head and a tail; a response is a         *)
(* sequence of chunks, one per send(); neither has any other content.      *)
(*                                                                         *)
(* The sockets, the client and the clock are external.                     *)
(***************************************************************************)
EXTENDS Naturals, Sequences, FiniteSets

CONSTANTS
  Conns,        \* the Connection objects that may be allocated
  Workers,      \* the number of io_services, concurrency_
  Kinds,        \* the kinds of request clients send, see Request
  MaxRequests,  \* requests per client
  Tick,         \* dumb_timer_queue::tick, in seconds
  Room,         \* chunks a socket buffers before the client reads
  Environment,  \* what may go wrong around the server, see below
  None          \* no Connection, no key

Request == {"plain",    \* HTTP/1.1, answered by the route's handler
            "big",      \* the response takes two chunks
            "close",    \* Connection: close, or HTTP/1.0
            "bigclose", \* both
            "nohost",   \* HTTP/1.1 without Host
            "expect",   \* Expect: 100-continue
            "later"}    \* the handler calls res.end() after it has returned

ASSUME ServerAssumption ==
  /\ Workers \in Nat \ {0} /\ Tick \in Nat \ {0} /\ Room \in Nat \ {0}
  /\ MaxRequests \in Nat
  /\ Kinds \subseteq Request
  /\ Environment \subseteq {"leave",     \* a client closes its end
                            "junk",      \* a client sends what is no HTTP
                            "pipeline",  \* a client does not wait
                            "nofile",    \* accept fails
                            "signal"}    \* SIGINT or SIGTERM

Pool == 0 .. Workers - 1

VARIABLES
  phase,       \* Server: "starting", "running" or "stopped"
  queueUp,     \* the workers whose timer_queue_pool_ entry is set
  roundrobin,  \* Server::roundrobin_index_
  obj,         \* each Connection: "none", "accepting", "live", "deleted", "leaked"
  home,        \* Connection: the io_service of its socket
  tq,          \* Connection::timer_queue
  open,        \* Connection::adaptor_.is_open()
  flags,       \* Connection: the set of its boolean members that are true
  resDone,     \* Connection: res.completed_
  timerKey,    \* Connection::timer_cancel_key_, None when first is nullptr
  parsing,     \* Connection::parser_: [req, kind] of the head it has, or None
  serving,     \* Connection::req_: [req, kind] of the request handled last
  reads,       \* Connections with an async_read_some pending
  writes,      \* chunks the pending async_write of a Connection has left
  dq, step,    \* dumb_timer_queue::dq_ and step_ of each worker
  ready,       \* completion handlers each io_service has to run, oldest first
  busy,        \* the handler each worker runs, with the input it has not fed, or None;
               \* "thrown" is one an exception has left, and its worker with it
  net, out,    \* external: pieces on their way to the server, chunks to the client
  sent, got,   \* external: kinds of the requests sent, chunks the client has read
  client,      \* external: "up", "waiting" (for 100 Continue), "silent", "left"
  idle,        \* history: seconds since start_deadline(), at most Tick
  cause,       \* history: who closed the socket
  clobbered    \* history: Connections that wrote while a write was pending

serverVars == <<phase, queueUp, roundrobin>>
connVars == <<obj, home, tq, open, flags, resDone, parsing, serving, reads, writes, out>>
timerVars == <<timerKey, dq, step, idle>>
clientVars == <<net, sent, got, client>>
vars == <<serverVars, connVars, timerVars, clientVars, ready, busy, cause, clobbered>>

Handler(kind, c, ok, rest) == [kind |-> kind, conn |-> c, ok |-> ok, rest |-> rest]
Piece(part, n, k) == [part |-> part, req |-> n, kind |-> k]
Chunk(n, i) == [req |-> n, chunk |-> i]

Pieces == [part : {"head", "tail", "junk", "eof"}, req : Nat, kind : Request \cup {None}]
Handlers == [kind : {"start", "read", "write", "process", "thrown"}, conn : Conns \cup {None},
             ok : BOOLEAN, rest : Seq(Pieces)]

ASSUME NoneAssumption == None \notin Conns \cup Nat \cup Handlers

Init ==
  /\ phase = "starting" /\ queueUp = {} /\ roundrobin = 0
  /\ obj = [c \in Conns |-> "none"]
  /\ home = [c \in Conns |-> 0] /\ tq = [c \in Conns |-> 0]
  /\ open = [c \in Conns |-> FALSE]
  /\ flags = [c \in Conns |-> {}]
  /\ resDone = [c \in Conns |-> FALSE]
  /\ timerKey = [c \in Conns |-> None]
  /\ parsing = [c \in Conns |-> None] /\ serving = [c \in Conns |-> None]
  /\ reads = {} /\ writes = [c \in Conns |-> <<>>]
  /\ dq = [w \in Pool |-> <<>>] /\ step = [w \in Pool |-> 0]
  /\ ready = [w \in Pool |-> <<>>] /\ busy = [w \in Pool |-> None]
  /\ net = [c \in Conns |-> <<>>] /\ out = [c \in Conns |-> <<>>]
  /\ sent = [c \in Conns |-> <<>>] /\ got = [c \in Conns |-> <<>>]
  /\ client = [c \in Conns |-> "up"]
  /\ idle = [c \in Conns |-> 0]
  /\ cause = [c \in Conns |-> "none"]
  /\ clobbered = {}

-----------------------------------------------------------------------------
\* dumb_timer_queue.  A key is an absolute position; dq_.front() is at step_.

CancelNothing(q, first, k) == q  \* mutant

\* cancel(): the entry at the key's position, if it is still queued, is emptied.
\* A position step_ has passed gives an unsigned index no queue is long enough for.
Cancel(q, first, k) ==
  [i \in DOMAIN q |->
     IF k # None /\ i = k - first + 1 THEN [q[i] EXCEPT !.fn = None] ELSE q[i]]

\* dq_[tq[c]] after cancel_deadline_timer().
Cancelled(c) == Cancel(dq[tq[c]], step[tq[c]], timerKey[c])

cancel_deadline_timer(c) ==
  /\ dq' = [dq EXCEPT ![tq[c]] = Cancelled(c)]
  /\ timerKey' = [timerKey EXCEPT ![c] = None]
  /\ UNCHANGED <<step, idle>>

\* start_deadline(): cancel, then add().
start_deadline(c) ==
  /\ dq' = [dq EXCEPT ![tq[c]] = Append(Cancelled(c), [fn |-> c, age |-> 0])]
  /\ timerKey' = [timerKey EXCEPT ![c] = step[tq[c]] + Len(dq[tq[c]])]
  /\ idle' = [idle EXCEPT ![c] = 0]
  /\ UNCHANGED step

-----------------------------------------------------------------------------
\* Sockets.

\* close() cancels what is pending: the handlers are queued with an error.
Aborted(c) ==
  (IF c \in reads THEN <<Handler("read", c, FALSE, <<>>)>> ELSE <<>>)
  \o (IF writes[c] # <<>> THEN <<Handler("write", c, FALSE, <<>>)>> ELSE <<>>)

Queue(c, hs) == ready' = [ready EXCEPT ![home[c]] = @ \o hs]

\* do_write(): the first send() is tried at once, and fails when the socket is
\* closed.  A write that is still pending shares buffers_ and is_writing.
do_write(c, chunks, members) ==
  /\ clobbered' = IF "is_writing" \in flags[c] THEN clobbered \cup {c} ELSE clobbered
  /\ flags' = [flags EXCEPT ![c] = members \cup {"is_writing"}]
  /\ IF ~open[c]
     THEN Queue(c, <<Handler("write", c, FALSE, <<>>)>>) /\ UNCHANGED <<out, writes>>
     ELSE IF Len(out[c]) < Room
     THEN /\ out' = [out EXCEPT ![c] = Append(@, Head(chunks))]
          /\ writes' = [writes EXCEPT ![c] = Tail(chunks)]
          /\ Queue(c, IF Len(chunks) = 1 THEN <<Handler("write", c, TRUE, <<>>)>> ELSE <<>>)
     ELSE /\ writes' = [writes EXCEPT ![c] = chunks]
          /\ UNCHANGED <<out, ready>>

\* complete_request(): nothing is written to a socket the deadline has closed.
complete_request(c, chunks, members) ==
  IF open[c]
  THEN do_write(c, chunks, members)
  ELSE flags' = [flags EXCEPT ![c] = members] /\ UNCHANGED <<writes, out, ready, clobbered>>

Chunks(k) == IF k \in {"big", "bigclose"} THEN 2 ELSE 1
Response(r) == [i \in 1..Chunks(r.kind) |-> Chunk(r.req, i)]

-----------------------------------------------------------------------------
\* Server.

\* A worker publishes its timer queue in timer_queue_pool_.
StartWorker(w) ==
  /\ phase = "starting" /\ w \notin queueUp
  /\ queueUp' = queueUp \cup {w}
  /\ UNCHANGED <<phase, roundrobin, connVars, timerVars, clientVars, ready, busy, cause, clobbered>>

\* pick_io_service()
NextWorker == IF roundrobin + 1 >= Workers THEN 0 ELSE roundrobin + 1

\* do_accept() after c, if any, got the status s: allocate the next Connection.
\* There are no more than Conns.
do_accept(c, s) ==
  LET done == [d \in Conns |-> IF d = c THEN s ELSE obj[d]]
  IN  IF \E d \in Conns : done[d] = "none"
      THEN \E d \in Conns :
             /\ done[d] = "none"
             /\ obj' = [done EXCEPT ![d] = "accepting"]
             /\ home' = [home EXCEPT ![d] = NextWorker]
             /\ tq' = [tq EXCEPT ![d] = NextWorker]
             /\ roundrobin' = NextWorker
      ELSE obj' = done /\ UNCHANGED <<home, tq, roundrobin>>

\* run(): accepting begins when every worker has its timer queue.
StartAccepting ==
  /\ phase = "starting" /\ queueUp = Pool
  /\ phase' = "running"
  /\ do_accept(None, "none")
  /\ UNCHANGED <<queueUp, open, flags, resDone, parsing, serving, reads, writes, out,
                 timerVars, clientVars, ready, busy, cause, clobbered>>

\* The accept handler posts p->start() to the io_service of the Connection.
Accept(c) ==
  /\ phase = "running" /\ obj[c] = "accepting"
  /\ open' = [open EXCEPT ![c] = TRUE]
  /\ Queue(c, <<Handler("start", c, TRUE, <<>>)>>)
  /\ do_accept(c, "live")
  /\ UNCHANGED <<phase, queueUp, flags, resDone, parsing, serving, reads, writes, out,
                 timerVars, clientVars, busy, cause, clobbered>>

\* On an error the Connection is forgotten.
AcceptFails(c) ==
  /\ "nofile" \in Environment
  /\ phase = "running" /\ obj[c] = "accepting"
  /\ do_accept(c, "leaked")
  /\ UNCHANGED <<phase, queueUp, open, flags, resDone, parsing, serving, reads, writes,
                 out, timerVars, clientVars, ready, busy, cause, clobbered>>

\* The signal handler: stop() ends every io_service.
Stop ==
  /\ "signal" \in Environment
  /\ phase = "running"
  /\ phase' = "stopped"
  /\ UNCHANGED <<queueUp, roundrobin, connVars, timerVars, clientVars, ready, busy, cause, clobbered>>

-----------------------------------------------------------------------------
\* The worker of an io_service.

\* w is about to run a handler of this kind.
Due(w, kind) == busy[w] = None /\ ready[w] # <<>> /\ Head(ready[w]).kind = kind
Pop(w) == ready' = [ready EXCEPT ![w] = Tail(@)]

\* The handlers that take several steps.
Pick(w) ==
  /\ Due(w, "read") \/ Due(w, "process")
  /\ busy' = [busy EXCEPT ![w] = Head(ready[w])]
  /\ Pop(w)
  /\ UNCHANGED <<serverVars, connVars, timerVars, clientVars, cause, clobbered>>

\* w runs a handler of this kind.
Running(w, kind) == busy[w] # None /\ busy[w].kind = kind
Done(w) == busy' = [busy EXCEPT ![w] = None]

\* start()
start(w) ==
  /\ Due(w, "start")
  /\ LET c == Head(ready[w]).conn
     IN  /\ start_deadline(c)
         /\ reads' = reads \cup {c}
         /\ flags' = [flags EXCEPT ![c] = @ \cup {"is_reading"}]
  /\ Pop(w)
  /\ UNCHANGED <<serverVars, obj, home, tq, open, resDone, parsing, serving, writes, out,
                 clientVars, busy, cause, clobbered>>

\* w is in parser_.feed(), at a piece of this part.
Feeding(w, part) ==
  Running(w, "read") /\ busy[w].rest # <<>> /\ Head(busy[w].rest).part = part
Fed(w) == busy' = [busy EXCEPT ![w].rest = Tail(@)]

Expects100Always(p) == TRUE  \* mutant

\* handle_header()
Expects100(p) == p.kind = "expect"

FeedHead(w) ==
  /\ Feeding(w, "head")
  /\ LET c == busy[w].conn
         p == Head(busy[w].rest)
     IN  /\ parsing' = [parsing EXCEPT ![c] = [req |-> p.req, kind |-> p.kind]]
         /\ IF Expects100(p)
            THEN do_write(c, <<Chunk(p.req, 0)>>, flags[c])
            ELSE UNCHANGED <<flags, writes, out, ready, clobbered>>
  /\ Fed(w)
  /\ UNCHANGED <<serverVars, obj, home, tq, open, resDone, serving, reads, timerVars,
                 clientVars, cause>>

ClosesAlways(r) == TRUE  \* mutant

\* handle() sets close_connection_ for Connection: close and for HTTP/1.0.
Closes(r) == r.kind \in {"close", "bigclose"}

\* handle(): the route's handler runs unless Host is missing or the response
\* to an earlier request still counts as completed.
handle(w) ==
  /\ Feeding(w, "tail")
  /\ LET c == busy[w].conn
         r == parsing[c]
         members == flags[c] \cup IF Closes(r) THEN {"close_connection_"} ELSE {}
     IN  /\ open[c]
         /\ cancel_deadline_timer(c)
         /\ serving' = [serving EXCEPT ![c] = r]
         /\ parsing' = [parsing EXCEPT ![c] = None]
         /\ resDone' = [resDone EXCEPT ![c] = r.kind # "nohost" /\ (r.kind # "later" \/ @)]
         /\ IF r.kind = "later" /\ ~resDone[c]
            THEN /\ flags' = [flags EXCEPT ![c] = @ \cup {"need_to_call_after_handlers_"}]
                 /\ UNCHANGED <<writes, out, ready, clobbered>>
            ELSE LET own == r.kind = "nohost" \/ ~resDone[c]
                 IN  complete_request(c, IF own THEN Response(r) ELSE <<Chunk(0, 1)>>, members)
  /\ Fed(w)
  /\ UNCHANGED <<serverVars, obj, home, tq, open, reads, clientVars, cause>>

\* handle() logs the client's address before it does anything about the request.
\* remote_endpoint() throws on a socket that is closed, or that the client has
\* reset, and nothing catches it: it leaves feed(), the read handler and run(),
\* and the worker ends with its timer queue.  Its Connections stay as they are.
handleThrows(w) ==
  /\ Feeding(w, "tail")
  /\ LET c == busy[w].conn
         r == parsing[c]
     IN  /\ ~open[c] \/ client[c] = "left"
         /\ cancel_deadline_timer(c)
         /\ serving' = [serving EXCEPT ![c] = r]
         /\ parsing' = [parsing EXCEPT ![c] = None]
         /\ flags' = [flags EXCEPT ![c] = @ \cup IF Closes(r) THEN {"close_connection_"} ELSE {}]
         /\ resDone' = [resDone EXCEPT ![c] = r.kind # "nohost" /\ @]
  /\ busy' = [busy EXCEPT ![w].kind = "thrown"]
  /\ UNCHANGED <<serverVars, obj, home, tq, open, reads, writes, out, clientVars, ready, cause,
                 clobbered>>

\* The parser rejects its input: feed() returns false.
FeedJunk(w) ==
  /\ Feeding(w, "junk")
  /\ busy' = [busy EXCEPT ![w].rest = <<>>, ![w].ok = FALSE]
  /\ UNCHANGED <<serverVars, connVars, timerVars, clientVars, ready, cause, clobbered>>

\* The read handler after feed().
Failed(w) ==
  ~busy[w].ok \/ ~open[busy[w].conn] \/ "close_connection_" \in flags[busy[w].conn]

readAgain(w) ==
  /\ Running(w, "read") /\ busy[w].rest = <<>>
  /\ ~Failed(w)
  /\ LET c == busy[w].conn
     IN  IF "need_to_call_after_handlers_" \notin flags[c]
         THEN /\ start_deadline(c)
              /\ reads' = reads \cup {c}
              /\ UNCHANGED flags
         ELSE /\ flags' = [flags EXCEPT ![c] = @ \cup {"need_to_start_read_after_complete_"}]
              /\ UNCHANGED <<timerVars, reads>>
  /\ Done(w)
  /\ UNCHANGED <<serverVars, obj, home, tq, open, resDone, parsing, serving, writes, out,
                 clientVars, ready, cause, clobbered>>

check_destroyEager(c, left) ==  \* mutant
  obj' = IF {"is_reading", "is_writing"} \subseteq left
         THEN obj ELSE [obj EXCEPT ![c] = "deleted"]

\* check_destroy(), with the flags left: the destructor cancels the deadline.
check_destroy(c, left) ==
  obj' = IF left \cap {"is_reading", "is_writing"} = {}
         THEN [obj EXCEPT ![c] = "deleted"] ELSE obj

\* adaptor_.close() by who, with these handlers left to run.
close(c, who, handlers) ==
  /\ open' = [open EXCEPT ![c] = FALSE]
  /\ reads' = reads \ {c}
  /\ writes' = [writes EXCEPT ![c] = <<>>]
  /\ ready' = [ready EXCEPT ![home[c]] = handlers \o Aborted(c)]
  /\ cause' = IF open[c] THEN [cause EXCEPT ![c] = who] ELSE cause

readFails(w) ==
  /\ Running(w, "read") /\ busy[w].rest = <<>>
  /\ Failed(w)
  /\ LET c == busy[w].conn
         left == flags[c] \ {"is_reading"}
     IN  /\ cancel_deadline_timer(c)
         /\ close(c, IF busy[w].ok THEN "asked" ELSE "error", ready[w])
         /\ flags' = [flags EXCEPT ![c] = left]
         /\ check_destroy(c, left)
  /\ Done(w)
  /\ UNCHANGED <<serverVars, home, tq, resDone, parsing, serving, out, clientVars, clobbered>>

KeepResponse(c) == UNCHANGED resDone  \* mutant

\* res.clear()
ClearResponse(c) == resDone' = [resDone EXCEPT ![c] = FALSE]

\* The write handler, do_write().
written(w) ==
  /\ Due(w, "write")
  /\ LET c == Head(ready[w]).conn
         ok == Head(ready[w]).ok
         left == flags[c] \ {"is_writing"}
         ended == ~ok \/ "close_connection_" \in flags[c]
     IN  /\ flags' = [flags EXCEPT ![c] = left]
         /\ ClearResponse(c)
         /\ IF ok /\ ended
            THEN close(c, "asked", Tail(ready[w]))
            ELSE Pop(w) /\ UNCHANGED <<open, reads, writes, cause>>
         /\ IF ended
            THEN check_destroy(c, left)
            ELSE UNCHANGED obj
         /\ IF obj'[c] = "deleted"
            THEN cancel_deadline_timer(c)
            ELSE UNCHANGED timerVars
  /\ UNCHANGED <<serverVars, home, tq, parsing, serving, out, clientVars, busy, clobbered>>

\* A handler that returned early calls res.end(): complete_request().  It does
\* so while its Connection waits for it: a handler that calls end() on a
\* response whose Connection is gone touches freed memory and is left out.
end(c) ==
  /\ busy[home[c]] = None
  /\ {"need_to_call_after_handlers_", "need_to_start_read_after_complete_"} \subseteq flags[c]
  /\ resDone' = [resDone EXCEPT ![c] = TRUE]
  /\ complete_request(c, Response(serving[c]),
              flags[c] \ {"need_to_call_after_handlers_", "need_to_start_read_after_complete_"})
  /\ start_deadline(c)
  /\ reads' = reads \cup {c}
  /\ UNCHANGED <<serverVars, obj, home, tq, open, parsing, serving, clientVars, busy, cause>>

FrontExpired(w) == dq[w] # <<>> /\ Head(dq[w]).age >= Tick

\* process(): the entries that are old enough are called and popped ...
expire(w) ==
  /\ Running(w, "process")
  /\ FrontExpired(w)
  /\ LET c == Head(dq[w]).fn
     IN  IF c # None /\ open[c]
         THEN close(c, "deadline", ready[w])
         ELSE UNCHANGED <<open, reads, writes, ready, cause>>
  /\ dq' = [dq EXCEPT ![w] = Tail(@)]
  /\ step' = [step EXCEPT ![w] = @ + 1]
  /\ UNCHANGED <<serverVars, obj, home, tq, flags, resDone, parsing, serving, out, timerKey,
                 idle, clientVars, busy, clobbered>>

\* ... and the timer of the worker is armed again.
processed(w) ==
  /\ Running(w, "process")
  /\ ~FrontExpired(w)
  /\ Done(w)
  /\ UNCHANGED <<serverVars, connVars, timerVars, clientVars, ready, cause, clobbered>>

-----------------------------------------------------------------------------
\* The clock, the network and the clients.

ArmedOnce(w) ==  \* mutant
  /\ dq[w] # <<>> /\ step[w] = 0
  /\ ~Running(w, "process")
  /\ \A i \in DOMAIN ready[w] : ready[w][i].kind # "process"

\* The one-second timer of w is waiting; it is gone with the worker an exception
\* ended.  process() of an empty queue does nothing and is left out.
Armed(w) ==
  /\ dq[w] # <<>>
  /\ ~Running(w, "process") /\ ~Running(w, "thrown")
  /\ \A i \in DOMAIN ready[w] : ready[w][i].kind # "process"

\* A second passes; not inside process(), which reads the clock once.
Second ==
  /\ \E w \in Pool : dq[w] # <<>>
  /\ \A w \in Pool : ~Running(w, "process")
  /\ LET older(n) == IF n < Tick THEN n + 1 ELSE n
     IN  /\ dq' = [w \in Pool |->
                    [i \in DOMAIN dq[w] |-> [dq[w][i] EXCEPT !.age = older(@)]]]
         /\ idle' = [c \in Conns |-> IF obj[c] = "live" THEN older(idle[c]) ELSE 0]
  /\ ready' = [w \in Pool |->
       IF Armed(w) THEN Append(ready[w], Handler("process", None, TRUE, <<>>)) ELSE ready[w]]
  /\ UNCHANGED <<serverVars, connVars, timerKey, step, clientVars, busy, cause, clobbered>>

\* async_read_some completes with some of the pieces that have arrived.
Receive(c) ==
  /\ c \in reads /\ net[c] # <<>>
  /\ \E n \in 1..Len(net[c]) :
       /\ \A i \in 1..n : net[c][i].part # "eof"
       /\ net' = [net EXCEPT ![c] = SubSeq(@, n + 1, Len(@))]
       /\ Queue(c, <<Handler("read", c, TRUE, SubSeq(net[c], 1, n))>>)
  /\ reads' = reads \ {c}
  /\ UNCHANGED <<serverVars, obj, home, tq, open, flags, resDone, parsing, serving, writes,
                 out, timerVars, sent, got, client, busy, cause, clobbered>>

ReceiveEof(c) ==
  /\ c \in reads /\ net[c] # <<>> /\ Head(net[c]).part = "eof"
  /\ Queue(c, <<Handler("read", c, FALSE, <<>>)>>)
  /\ reads' = reads \ {c}
  /\ UNCHANGED <<serverVars, obj, home, tq, open, flags, resDone, parsing, serving, writes,
                 out, timerVars, clientVars, busy, cause, clobbered>>

\* A pending write goes on: there is room again, or the client is gone.
Send(c) ==
  /\ writes[c] # <<>> /\ client[c] # "left" /\ Len(out[c]) < Room
  /\ out' = [out EXCEPT ![c] = Append(@, Head(writes[c]))]
  /\ writes' = [writes EXCEPT ![c] = Tail(@)]
  /\ Queue(c, IF Len(writes[c]) = 1 THEN <<Handler("write", c, TRUE, <<>>)>> ELSE <<>>)
  /\ UNCHANGED <<serverVars, obj, home, tq, open, flags, resDone, parsing, serving, reads,
                 timerVars, clientVars, busy, cause, clobbered>>

SendFails(c) ==
  /\ writes[c] # <<>> /\ client[c] = "left"
  /\ writes' = [writes EXCEPT ![c] = <<>>]
  /\ Queue(c, <<Handler("write", c, FALSE, <<>>)>>)
  /\ UNCHANGED <<serverVars, obj, home, tq, open, flags, resDone, parsing, serving, reads,
                 out, timerVars, clientVars, busy, cause, clobbered>>

\* The chunks the requests of these kinds are to be answered with.
Expected(ks) ==
  LET f[n \in 0..Len(ks)] ==
        IF n = 0 THEN <<>>
        ELSE f[n - 1] \o (IF ks[n] = "expect" THEN <<Chunk(n, 0)>> ELSE <<>>)
                     \o Response([req |-> n, kind |-> ks[n]])
  IN  f[Len(ks)]

Request_(c, k) ==
  LET n == Len(sent[c]) + 1
  IN  <<Piece("head", n, k)>> \o (IF k = "expect" THEN <<>> ELSE <<Piece("tail", n, k)>>)

\* A client that does not pipeline waits for the whole response; after
\* Connection: close it sends no more.
SendRequest(c, k) ==
  /\ obj[c] = "live" /\ client[c] = "up"
  /\ Len(sent[c]) < MaxRequests /\ \A i \in DOMAIN sent[c] : sent[c][i] \notin {"close", "bigclose"}
  /\ "pipeline" \in Environment \/ got[c] = Expected(sent[c])
  /\ sent' = [sent EXCEPT ![c] = Append(@, k)]
  /\ net' = [net EXCEPT ![c] = @ \o Request_(c, k)]
  /\ client' = [client EXCEPT ![c] = IF k = "expect" THEN "waiting" ELSE "up"]
  /\ UNCHANGED <<serverVars, connVars, timerVars, got, ready, busy, cause, clobbered>>

\* The client has read 100 Continue.
SendBody(c) ==
  /\ client[c] = "waiting"
  /\ got[c] # <<>> /\ got[c][Len(got[c])] = Chunk(Len(sent[c]), 0)
  /\ net' = [net EXCEPT ![c] = Append(@, Piece("tail", Len(sent[c]), "expect"))]
  /\ client' = [client EXCEPT ![c] = "up"]
  /\ UNCHANGED <<serverVars, connVars, timerVars, sent, got, ready, busy, cause, clobbered>>

\* The client sends something else, or closes its end.
Leave(c, part, now) ==
  /\ obj[c] = "live" /\ client[c] \in {"up", "waiting"}
  /\ client' = [client EXCEPT ![c] = now]
  /\ net' = [net EXCEPT ![c] = Append(@, Piece(part, 0, None))]
  /\ UNCHANGED <<serverVars, connVars, timerVars, sent, got, ready, busy, cause, clobbered>>

ClientLeaves(c) == "leave" \in Environment /\ Leave(c, "eof", "left")
SendJunk(c) == "junk" \in Environment /\ Leave(c, "junk", "silent")

ClientReads(c) ==
  /\ client[c] # "left" /\ out[c] # <<>>
  /\ got' = [got EXCEPT ![c] = Append(@, Head(out[c]))]
  /\ out' = [out EXCEPT ![c] = Tail(@)]
  /\ UNCHANGED <<serverVars, obj, home, tq, open, flags, resDone, parsing, serving, reads,
                 writes, timerVars, net, sent, client, ready, busy, cause, clobbered>>

-----------------------------------------------------------------------------
Work(w) ==
  \/ Pick(w) \/ start(w) \/ FeedHead(w) \/ handle(w) \/ handleThrows(w) \/ FeedJunk(w)
  \/ readAgain(w) \/ readFails(w) \/ written(w) \/ expire(w) \/ processed(w)

\* The operations of a Connection go on only while its worker is in run().
Network(c) ==
  /\ ~Running(home[c], "thrown")
  /\ Receive(c) \/ ReceiveEof(c) \/ Send(c) \/ SendFails(c)

Client(c) ==
  \/ \E k \in Kinds : SendRequest(c, k)
  \/ SendBody(c) \/ ClientLeaves(c) \/ SendJunk(c) \/ ClientReads(c)

\* After Stop nothing is left that matters.
Next ==
  /\ phase # "stopped"
  /\ \/ \E w \in Pool : StartWorker(w) \/ Work(w)
     \/ StartAccepting \/ Stop \/ Second
     \/ \E c \in Conns : Accept(c) \/ AcceptFails(c) \/ end(c) \/ Network(c) \/ Client(c)

Spec == Init /\ [][Next]_vars

\* The workers run, time passes and a handler that defers its response ends it.
\* Nothing is assumed of the clients and the network.
Fairness ==
  /\ \A w \in Pool : WF_vars(Work(w))
  /\ WF_vars(Second)
  /\ \A c \in Conns : WF_vars(end(c))

FairSpec == Spec /\ Fairness

-----------------------------------------------------------------------------
TypeOK ==
  /\ phase \in {"starting", "running", "stopped"}
  /\ queueUp \subseteq Pool /\ roundrobin \in Pool
  /\ obj \in [Conns -> {"none", "accepting", "live", "deleted", "leaked"}]
  /\ home \in [Conns -> Pool] /\ tq \in [Conns -> Pool]
  /\ open \in [Conns -> BOOLEAN] /\ resDone \in [Conns -> BOOLEAN]
  /\ flags \in [Conns -> SUBSET {"is_reading", "is_writing", "close_connection_",
       "need_to_call_after_handlers_", "need_to_start_read_after_complete_"}]
  /\ timerKey \in [Conns -> Nat \cup {None}]
  /\ \A w \in Pool :
       /\ step[w] \in Nat
       /\ dq[w] \in Seq([fn : Conns \cup {None}, age : 0..Tick])
  /\ reads \subseteq Conns /\ clobbered \subseteq Conns
  /\ idle \in [Conns -> 0..Tick]

\* Whoever is pointed to by a pending operation, a handler, a queued deadline.
Referenced ==
  reads \cup {c \in Conns : writes[c] # <<>>}
  \cup (UNION {{h.conn : h \in {ready[w][i] : i \in DOMAIN ready[w]}} : w \in Pool})
  \cup {busy[w].conn : w \in {v \in Pool : busy[v] # None}}
  \cup (UNION {{e.fn : e \in {dq[w][i] : i \in DOMAIN dq[w]}} : w \in Pool})

\* Connection: "delete this" in check_destroy() happens when nothing will come
\* back to the object: no pending read or write, no queued handler and no
\* entry of the timer queue.
NothingTouchesDeleted == \A c \in Referenced \ {None} : obj[c] = "live"

\* do_write() shares buffers_, res_body_copy_ and is_writing: a Connection
\* never starts a write while one is pending.
OneWriteAtATime == clobbered = {}

\* complete_request(): what a client reads is the responses to its requests,
\* in their order, each from the handler of that request.
OwnResponses ==
  \A c \in Conns :
    LET s == got[c] \o out[c]
        e == Expected(sent[c])
    IN  Len(s) <= Len(e) /\ \A i \in DOMAIN s : s[i] = e[i]

\* do_read() and do_write() with close_connection_: the server closes a
\* connection that asked for it only when every request is answered in full.
\* The exception is the last response when the socket did not take all of it
\* at once: the read handler closes without waiting for the write.
AnsweredBeforeClose ==
  \A c \in Conns :
    cause[c] = "asked" =>
      \/ got[c] \o out[c] = Expected(sent[c])
      \/ /\ sent[c][Len(sent[c])] = "bigclose"
         /\ Len(got[c] \o out[c]) = Len(Expected(sent[c])) - 1

\* dumb_timer_queue: a deadline closes only a connection that has been idle
\* for a whole tick since start_deadline(), however entries were added,
\* emptied and popped in between.
NotClosedEarly ==
  [][\A c \in Conns :
       cause[c] # "deadline" /\ cause'[c] = "deadline" => idle[c] >= Tick]_vars

\* start_deadline(), check_destroy(): whatever a client does or fails to do, its
\* Connection is deleted in the end.  There are two ways out.  When the client
\* sent junk on the heels of a request the write handler may be the last to run;
\* it does not call check_destroy() and the object stays, but its socket is
\* closed.  And when handle() ran for a socket that was closed or reset, its
\* exception has ended the worker, and no Connection of that worker ends.
EveryConnectionEnds ==
  \A c \in Conns :
    obj[c] = "live" ~> \/ obj[c] = "deleted"
                      \/ (client[c] = "silent" /\ ~open[c])
                      \/ Running(home[c], "thrown")
                      \/ phase = "stopped"
=============================================================================
