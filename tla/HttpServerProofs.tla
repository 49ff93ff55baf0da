-------------------------- MODULE HttpServerProofs --------------------------
(***************************************************************************)
(* For any number of Connections, workers and any environment: the types   *)
(* of the server's state, and that a deadline closes a Connection only     *)
(* when it had nothing to read for as long as the deadline says.           *)
(*                                                                         *)
(* A deadline is an entry of a worker's timer queue and known to its       *)
(* Connection by its position, which the queue shifts.  It is never stale  *)
(* because a Connection is read by one party at a time: by a pending read, *)
(* by one handler that waits or runs, or by nobody while its response is   *)
(* deferred (TokenOK).  From it follows that the entry a Connection        *)
(* knows is there exactly while a read is pending, at the position it      *)
(* remembers and as old as the Connection is idle (TimerOK).  Neither can  *)
(* be kept without the other, since the completion of a read is what       *)
(* cancels the entry, and a deadline what completes the read.              *)
(***************************************************************************)
EXTENDS HttpServer, SequenceTheorems, FiniteSetTheorems, FunctionTheorems, TLAPS

-----------------------------------------------------------------------------
(* Sequences and what clients expect.                                      *)

LEMMA SetInduction ==
  ASSUME NEW S, 0 \in S, \A n \in Nat : n \in S => n + 1 \in S
  PROVE  Nat \subseteq S
<1> SUFFICES ASSUME NEW m \in Nat, m \notin S
             PROVE  FALSE
  OBVIOUS
<1> DEFINE T == {x \in 0 .. m : x \notin S}
           f == [x \in T |-> x - 1]
<1>1. \A x \in T : x - 1 \in T
  BY DEF T
<1>2. f \in Injection(T, T)
  BY <1>1 DEF Injection, IsInjective
<1>3. IsFiniteSet(T)
  <2>1. IsFiniteSet(0 .. m)
    BY FS_Interval
  <2> QED
    BY <2>1, FS_Subset
<1>4. f \in Surjection(T, T)
  <2> HIDE DEF f, T
  <2> QED
    BY <1>2, <1>3, FS_Injection
<1>5. m \in T
  OBVIOUS
<1>6. PICK x \in T : f[x] = m
  BY <1>4, <1>5 DEF Surjection
<1> QED
  BY <1>6

Chunked == [req : Nat, chunk : Nat]
Hundred(n, k) == IF k = "expect" THEN <<Chunk(n, 0)>> ELSE <<>>
Own(n, k) == Response([req |-> n, kind |-> k])

\* f is the function Expected is defined by, up to m.
Adds(f, ks, m) ==
  f = [n \in 0 .. m |-> IF n = 0 THEN <<>>
                        ELSE f[n - 1] \o (IF ks[n] = "expect" THEN <<Chunk(n, 0)>> ELSE <<>>)
                                      \o Response([req |-> n, kind |-> ks[n]])]

LEMMA AddsExists ==
  ASSUME NEW ks, NEW m \in Nat
  PROVE  \E f : Adds(f, ks, m)
<1> DEFINE S == {n \in Nat : \E f : Adds(f, ks, n)}
<1>1. 0 \in S
  <2>1. Adds([n \in 0 .. 0 |-> <<>>], ks, 0)
    BY DEF Adds
  <2> QED
    BY <2>1
<1>2. ASSUME NEW n \in Nat, n \in S
      PROVE  n + 1 \in S
  <2>1. PICK g : Adds(g, ks, n)
    BY <1>2
  <2> DEFINE h == [i \in 0 .. n + 1 |->
                     IF i = 0 THEN <<>>
                     ELSE g[i - 1] \o (IF ks[i] = "expect" THEN <<Chunk(i, 0)>> ELSE <<>>)
                                   \o Response([req |-> i, kind |-> ks[i]])]
  <2>2. ASSUME NEW i \in 0 .. n
        PROVE  h[i] = g[i]
    <3>1. i \in 0 .. n + 1
      OBVIOUS
    <3>2. h[i] = IF i = 0 THEN <<>>
                 ELSE g[i - 1] \o (IF ks[i] = "expect" THEN <<Chunk(i, 0)>> ELSE <<>>)
                               \o Response([req |-> i, kind |-> ks[i]])
      BY <3>1
    <3>3. g[i] = IF i = 0 THEN <<>>
                 ELSE g[i - 1] \o (IF ks[i] = "expect" THEN <<Chunk(i, 0)>> ELSE <<>>)
                               \o Response([req |-> i, kind |-> ks[i]])
      BY <2>1, Zenon DEF Adds
    <3> QED
      BY <3>2, <3>3
  <2>3. \A i \in 0 .. n + 1 : i # 0 => i - 1 \in 0 .. n
    OBVIOUS
  <2>4. \A i \in 0 .. n + 1 : i # 0 => h[i - 1] = g[i - 1]
    BY <2>2, <2>3
  <2>5. Adds(h, ks, n + 1)
    BY <2>4 DEF Adds
  <2> QED
    BY <2>5
<1>3. m \in S
  <2> HIDE DEF S
  <2> QED
    BY <1>1, <1>2, SetInduction
<1>4. QED
  BY <1>3

LEMMA AddsAgree ==
  ASSUME NEW ks, NEW ls, NEW m \in Nat, NEW l \in Nat, m <= l, NEW f, NEW g,
         Adds(f, ks, m), Adds(g, ls, l), \A i \in 1 .. m : ks[i] = ls[i]
  PROVE  f[m] = g[m]
<1> DEFINE S == {n \in Nat : n <= m => f[n] = g[n]}
<1>1. 0 \in S
  BY DEF Adds
<1>2. ASSUME NEW n \in Nat, n \in S
      PROVE  n + 1 \in S
  <2>1. CASE n + 1 <= m
    <3>1. n + 1 \in 0 .. m /\ n + 1 \in 0 .. l /\ n + 1 # 0 /\ (n + 1) - 1 = n /\ n + 1 \in 1 .. m
      BY <2>1
    <3>2. f[n] = g[n] /\ ks[n + 1] = ls[n + 1]
      BY <1>2, <2>1, <3>1
    <3>3. f[n + 1] = f[n] \o (IF ks[n + 1] = "expect" THEN <<Chunk(n + 1, 0)>> ELSE <<>>)
                          \o Response([req |-> n + 1, kind |-> ks[n + 1]])
      BY <3>1 DEF Adds
    <3>4. g[n + 1] = g[n] \o (IF ls[n + 1] = "expect" THEN <<Chunk(n + 1, 0)>> ELSE <<>>)
                          \o Response([req |-> n + 1, kind |-> ls[n + 1]])
      BY <3>1 DEF Adds
    <3>5. f[n + 1] = g[n + 1]
      BY <3>2, <3>3, <3>4
    <3> QED
      BY <3>5
  <2>2. CASE ~(n + 1 <= m)
    BY <2>2
  <2> QED
    BY <2>1, <2>2
<1>3. m \in S
  <2> HIDE DEF S
  <2> QED
    BY <1>1, <1>2, SetInduction
<1>4. QED
  BY <1>3

LEMMA ExpectedIs ==
  ASSUME NEW K, NEW ks \in Seq(K)
  PROVE  \E f : Adds(f, ks, Len(ks)) /\ Expected(ks) = f[Len(ks)]
<1> DEFINE f == CHOOSE g : Adds(g, ks, Len(ks))
<1>1. Adds(f, ks, Len(ks))
  BY AddsExists
<1>2. Expected(ks) = f[Len(ks)]
  BY DEF Expected, Adds
<1> QED
  BY <1>1, <1>2

LEMMA ExpectedOfNone == Expected(<<>>) = <<>>
<1>1. PICK f : Adds(f, <<>>, Len(<<>>)) /\ Expected(<<>>) = f[Len(<<>>)]
  BY ExpectedIs, <<>> \in Seq({})
<1> QED
  BY <1>1 DEF Adds

\* One more request is to be answered after all the others.
LEMMA ExpectedOfMore ==
  ASSUME NEW K, NEW ks \in Seq(K), NEW k \in K
  PROVE  Expected(Append(ks, k)) =
           Expected(ks) \o Hundred(Len(ks) + 1, k) \o Own(Len(ks) + 1, k)
<1> DEFINE n == Len(ks)
           ls == Append(ks, k)
<1>1. ls \in Seq(K) /\ Len(ls) = n + 1 /\ ls[n + 1] = k /\ n \in Nat
      /\ \A i \in 1 .. n : ks[i] = ls[i]
  OBVIOUS
<1>2. PICK f : Adds(f, ks, n) /\ Expected(ks) = f[n]
  BY ExpectedIs
<1>3. PICK g : Adds(g, ls, n + 1) /\ Expected(ls) = g[n + 1]
  <2> HIDE DEF ls
  <2> QED
    BY <1>1, ExpectedIs
<1> HIDE DEF ls, n
<1>4. f[n] = g[n]
  BY <1>1, <1>2, <1>3, AddsAgree
<1>5. g[n + 1] = g[n] \o (IF ls[n + 1] = "expect" THEN <<Chunk(n + 1, 0)>> ELSE <<>>)
                      \o Response([req |-> n + 1, kind |-> ls[n + 1]])
  <2>1. n + 1 \in 0 .. n + 1 /\ n + 1 # 0 /\ (n + 1) - 1 = n
    BY <1>1
  <2> QED
    BY <1>3, <2>1 DEF Adds
<1>6. Expected(ls) = Expected(ks) \o Hundred(n + 1, k) \o Own(n + 1, k)
  BY <1>1, <1>2, <1>3, <1>4, <1>5 DEF Hundred, Own
<1> QED
  BY <1>6 DEF ls, n

LEMMA OwnChunks ==
  ASSUME NEW n \in Nat, NEW k
  PROVE  /\ Own(n, k) = IF k \in {"big", "bigclose"} THEN <<Chunk(n, 1), Chunk(n, 2)>>
                        ELSE <<Chunk(n, 1)>>
         /\ Own(n, k) \in Seq(Chunked) /\ Hundred(n, k) \in Seq(Chunked)
         /\ \A i \in 1 .. Len(Own(n, k)) : Own(n, k)[i].req = n
         /\ \A i \in 1 .. Len(Hundred(n, k)) : Hundred(n, k)[i].req = n
<1>1. CASE k \in {"big", "bigclose"}
  <2>1. Own(n, k) = [i \in 1 .. 2 |-> Chunk(n, i)]
    BY <1>1 DEF Own, Response, Chunks
  <2>2. Own(n, k) = <<Chunk(n, 1), Chunk(n, 2)>>
    BY <2>1
  <2> QED
    BY <1>1, <2>2 DEF Hundred, Chunk, Chunked
<1>2. CASE k \notin {"big", "bigclose"}
  <2>1. Own(n, k) = [i \in 1 .. 1 |-> Chunk(n, i)]
    BY <1>2 DEF Own, Response, Chunks
  <2>2. Own(n, k) = <<Chunk(n, 1)>>
    BY <2>1
  <2>3. Chunk(n, 1) \in Chunked /\ Chunk(n, 0) \in Chunked /\ Chunk(n, 1).req = n /\ Chunk(n, 0).req = n
    BY DEF Chunk, Chunked
  <2>4. Own(n, k) \in Seq(Chunked) /\ \A i \in 1 .. Len(Own(n, k)) : Own(n, k)[i].req = n
    BY <2>2, <2>3
  <2>5. Hundred(n, k) \in Seq(Chunked) /\ \A i \in 1 .. Len(Hundred(n, k)) : Hundred(n, k)[i].req = n
    BY <2>3 DEF Hundred
  <2> QED
    BY <1>2, <2>2, <2>4, <2>5
<1> QED
  BY <1>1, <1>2

LEMMA LastApart ==
  ASSUME NEW K, NEW s \in Seq(K), s # <<>>
  PROVE  /\ Len(s) \in Nat \ {0} /\ s[Len(s)] \in K
         /\ SubSeq(s, 1, Len(s) - 1) \in Seq(K)
         /\ Len(SubSeq(s, 1, Len(s) - 1)) = Len(s) - 1
         /\ s = Append(SubSeq(s, 1, Len(s) - 1), s[Len(s)])
<1>1. PICK t \in Seq(K), e \in K : s = Append(t, e)
  BY SequenceEmptyOrAppend
<1>2. Len(s) = Len(t) + 1 /\ s[Len(s)] = e /\ Len(t) \in Nat
  BY <1>1
<1>3. SubSeq(s, 1, Len(s) - 1) = t
  BY <1>1, <1>2
<1> QED
  BY <1>1, <1>2, <1>3

\* What is expected of the requests of these kinds before the last one.
Before(ks) == Expected(SubSeq(ks, 1, Len(ks) - 1))

LEMMA ExpectedOfLast ==
  ASSUME NEW K, NEW ks \in Seq(K), ks # <<>>
  PROVE  Expected(ks) = Before(ks) \o Hundred(Len(ks), ks[Len(ks)]) \o Own(Len(ks), ks[Len(ks)])
<1> DEFINE l == SubSeq(ks, 1, Len(ks) - 1)
           k == ks[Len(ks)]
<1>1. l \in Seq(K) /\ k \in K /\ ks = Append(l, k) /\ Len(l) + 1 = Len(ks)
  BY LastApart
<1> HIDE DEF l, k
<1>2. Expected(Append(l, k)) = Expected(l) \o Hundred(Len(l) + 1, k) \o Own(Len(l) + 1, k)
  BY <1>1, ExpectedOfMore
<1> QED
  BY <1>1, <1>2 DEF Before, l, k

\* The chunks expected are of requests that were sent.
Numbered(s, n) == s \in Seq(Chunked) /\ \A i \in 1 .. Len(s) : s[i].req \in 1 .. n

LEMMA ExpectedNumbered ==
  ASSUME NEW K, NEW ks \in Seq(K)
  PROVE  Numbered(Expected(ks), Len(ks))
<1> DEFINE S == {n \in Nat : \A ls \in Seq(K) : Len(ls) = n => Numbered(Expected(ls), n)}
<1>1. 0 \in S
  <2>1. \A ls \in Seq(K) : Len(ls) = 0 => ls = <<>>
    OBVIOUS
  <2> QED
    BY <2>1, ExpectedOfNone DEF Numbered
<1>2. ASSUME NEW n \in Nat, n \in S
      PROVE  n + 1 \in S
  <2>1. ASSUME NEW ls \in Seq(K), Len(ls) = n + 1
        PROVE  Numbered(Expected(ls), n + 1)
    <3> DEFINE l == SubSeq(ls, 1, Len(ls) - 1)
               k == ls[Len(ls)]
    <3>1. ls # <<>>
      BY <2>1
    <3>2. l \in Seq(K) /\ k \in K /\ ls = Append(l, k) /\ Len(l) = n
      BY <2>1, <3>1, LastApart
    <3> HIDE DEF l, k
    <3>3. Numbered(Expected(l), n)
      BY <1>2, <3>2
    <3>4. Expected(ls) = Expected(l) \o Hundred(n + 1, k) \o Own(n + 1, k)
      BY <3>2, ExpectedOfMore
    <3>5. Own(n + 1, k) \in Seq(Chunked) /\ Hundred(n + 1, k) \in Seq(Chunked)
          /\ (\A i \in 1 .. Len(Own(n + 1, k)) : Own(n + 1, k)[i].req = n + 1)
          /\ (\A i \in 1 .. Len(Hundred(n + 1, k)) : Hundred(n + 1, k)[i].req = n + 1)
      BY OwnChunks
    <3> DEFINE a == Expected(l)
               b == Hundred(n + 1, k)
               d == Own(n + 1, k)
    <3>6. a \in Seq(Chunked) /\ b \in Seq(Chunked) /\ d \in Seq(Chunked)
          /\ (\A i \in 1 .. Len(a) : a[i].req \in 1 .. n + 1)
          /\ (\A i \in 1 .. Len(b) : b[i].req \in 1 .. n + 1)
          /\ (\A i \in 1 .. Len(d) : d[i].req \in 1 .. n + 1)
      BY <3>3, <3>5 DEF Numbered
    <3> HIDE DEF a, b, d
    <3>7. a \o b \in Seq(Chunked) /\ \A i \in 1 .. Len(a \o b) : (a \o b)[i].req \in 1 .. n + 1
      BY <3>6, SMTT(30)
    <3>8. Numbered(a \o b \o d, n + 1)
      BY <3>6, <3>7 DEF Numbered
    <3> QED
      BY <3>4, <3>8 DEF a, b, d
  <2> QED
    BY <2>1
<1>3. Len(ks) \in S
  <2> HIDE DEF S
  <2> QED
    BY <1>1, <1>2, SetInduction
<1>4. QED
  BY <1>3

-----------------------------------------------------------------------------
(* Types.                                                                  *)

\* What a worker may find in its queue, and what it may be in the middle of.
Waiting == {h \in Handlers : h.kind # "thrown" /\ (h.conn = None <=> h.kind = "process")}
InHand == {h \in Handlers : /\ h.kind \in {"read", "process", "thrown"}
                            /\ h.conn = None <=> h.kind = "process"}

Entries == [fn : Conns \cup {None}, age : 0 .. Tick]
Heads == [req : Nat, kind : Request \cup {None}]

OfConns(f) == f = [c \in Conns |-> f[c]]

ServerTypes ==
  /\ phase \in {"starting", "running", "stopped"}
  /\ queueUp \subseteq Pool /\ roundrobin \in Pool
ConnTypes ==
  /\ obj \in [Conns -> {"none", "accepting", "live", "deleted", "leaked"}]
  /\ home \in [Conns -> Pool] /\ tq \in [Conns -> Pool]
  /\ open \in [Conns -> BOOLEAN] /\ resDone \in [Conns -> BOOLEAN]
  /\ flags \in [Conns -> SUBSET {"is_reading", "is_writing", "close_connection_",
       "need_to_call_after_handlers_", "need_to_start_read_after_complete_"}]
  /\ parsing \in [Conns -> Heads \cup {None}] /\ serving \in [Conns -> Heads \cup {None}]
  /\ reads \subseteq Conns /\ OfConns(writes) /\ OfConns(out)
TimerTypes ==
  /\ timerKey \in [Conns -> Nat \cup {None}] /\ idle \in [Conns -> 0 .. Tick]
  /\ dq \in [Pool -> Seq(Entries)] /\ step \in [Pool -> Nat]
ClientTypes ==
  /\ net \in [Conns -> Seq(Pieces)] /\ sent \in [Conns -> Seq(Kinds)] /\ OfConns(got)
  /\ client \in [Conns -> {"up", "waiting", "silent", "left"}]
WorkTypes ==
  /\ ready \in [Pool -> Seq(Waiting)] /\ busy \in [Pool -> InHand \cup {None}]
  /\ cause \in [Conns -> {"none", "asked", "error", "deadline"}]
  /\ clobbered \subseteq Conns

HttpTypeOK == ServerTypes /\ ConnTypes /\ TimerTypes /\ ClientTypes /\ WorkTypes

LEMMA TypesAreTypeOK == HttpTypeOK => TypeOK
BY DEF HttpTypeOK, ServerTypes, ConnTypes, TimerTypes, WorkTypes, TypeOK, Entries

LEMMA PoolIs ==
  /\ 0 \in Pool /\ Pool \subseteq Nat
  /\ roundrobin \in Pool => NextWorker \in Pool
BY ServerAssumption DEF Pool, NextWorker

LEMMA TypeInit == Init => HttpTypeOK
<1> SUFFICES ASSUME Init PROVE HttpTypeOK
  OBVIOUS
<1> USE ServerAssumption, PoolIs DEF Init
<1>1. ServerTypes
  BY DEF ServerTypes
<1>2. ConnTypes
  BY DEF ConnTypes, OfConns
<1>3. TimerTypes
  BY DEF TimerTypes
<1>4. ClientTypes
  BY DEF ClientTypes, OfConns
<1>5. WorkTypes
  BY DEF WorkTypes
<1> QED
  BY <1>1, <1>2, <1>3, <1>4, <1>5 DEF HttpTypeOK

LEMMA CancelTypes ==
  ASSUME NEW q \in Seq(Entries), NEW first \in Nat, NEW k \in Nat \cup {None}
  PROVE  Cancel(q, first, k) \in Seq(Entries) /\ Len(Cancel(q, first, k)) = Len(q)
<1> DEFINE f == [i \in 1 .. Len(q) |-> IF k # None /\ i = k - first + 1
                                       THEN [q[i] EXCEPT !.fn = None] ELSE q[i]]
<1>1. \A i \in 1 .. Len(q) : q[i] \in Entries /\ [q[i] EXCEPT !.fn = None] \in Entries
  <2>1. \A e \in Entries : [e EXCEPT !.fn = None] \in Entries
    BY DEF Entries
  <2> QED
    BY <2>1
<1>2. f \in [1 .. Len(q) -> Entries]
  <2> SUFFICES ASSUME NEW i \in 1 .. Len(q)
               PROVE  (IF k # None /\ i = k - first + 1
                       THEN [q[i] EXCEPT !.fn = None] ELSE q[i]) \in Entries
    BY Zenon DEF f
  <2> QED
    BY <1>1
<1>3. DOMAIN q = 1 .. Len(q) /\ Len(q) \in Nat
  OBVIOUS
<1>4. Cancel(q, first, k) = f
  BY <1>3, Zenon DEF Cancel, f
<1>5. f \in Seq(Entries) /\ Len(f) = Len(q)
  <2> HIDE DEF f
  <2> QED
    BY <1>2, <1>3
<1> QED
  BY <1>4, <1>5

LEMMA StartDeadlineTypes ==
  ASSUME TimerTypes, ConnTypes, NEW c \in Conns, start_deadline(c)
  PROVE  TimerTypes'
<1>1. tq[c] \in Pool /\ dq[tq[c]] \in Seq(Entries) /\ step[tq[c]] \in Nat
      /\ timerKey[c] \in Nat \cup {None}
  BY DEF TimerTypes, ConnTypes
<1>2. Cancelled(c) \in Seq(Entries)
  BY <1>1, CancelTypes DEF Cancelled
<1>3. [fn |-> c, age |-> 0] \in Entries
  BY ServerAssumption DEF Entries
<1>4. Append(Cancelled(c), [fn |-> c, age |-> 0]) \in Seq(Entries)
  BY <1>2, <1>3
<1> QED
  BY <1>1, <1>4, ServerAssumption DEF start_deadline, TimerTypes

LEMMA CancelDeadlineTypes ==
  ASSUME TimerTypes, ConnTypes, NEW c \in Conns, cancel_deadline_timer(c)
  PROVE  TimerTypes'
<1>1. tq[c] \in Pool /\ dq[tq[c]] \in Seq(Entries) /\ step[tq[c]] \in Nat
      /\ timerKey[c] \in Nat \cup {None}
  BY DEF TimerTypes, ConnTypes
<1>2. Cancelled(c) \in Seq(Entries)
  BY <1>1, CancelTypes DEF Cancelled
<1> QED
  BY <1>1, <1>2 DEF cancel_deadline_timer, TimerTypes

\* In a step at most one handler is taken off the queue of v, and these are added.
Moved(v, p, hs) ==
  /\ v \in Pool /\ p \in {0, 1} /\ hs \in Seq(Waiting)
  /\ p = 1 => ready[v] # <<>>
  /\ ready' = [ready EXCEPT ![v] = (IF p = 1 THEN Tail(ready[v]) ELSE ready[v]) \o hs]

LEMMA MovedTypes ==
  ASSUME ready \in [Pool -> Seq(Waiting)], NEW v, NEW p, NEW hs, Moved(v, p, hs)
  PROVE  /\ ready' \in [Pool -> Seq(Waiting)]
         /\ \A w \in Pool \ {v} : ready'[w] = ready[w]
         /\ Len(ready[v]) \in Nat /\ Len(ready[v]) - p \in Nat /\ Len(hs) \in Nat
         /\ Len(ready'[v]) = Len(ready[v]) - p + Len(hs)
         /\ \A i \in 1 .. Len(ready[v]) - p : ready'[v][i] = ready[v][i + p]
         /\ \A i \in 1 .. Len(hs) : ready'[v][Len(ready[v]) - p + i] = hs[i]
<1> DEFINE r == IF p = 1 THEN Tail(ready[v]) ELSE ready[v]
<1>1. ready[v] \in Seq(Waiting) /\ v \in Pool /\ p \in {0, 1} /\ hs \in Seq(Waiting)
  BY DEF Moved
<1>2. r \in Seq(Waiting) /\ Len(r) = Len(ready[v]) - p
      /\ \A i \in 1 .. Len(r) : r[i] = ready[v][i + p]
  <2>1. CASE p = 1
    BY <1>1, <2>1, HeadTailProperties DEF Moved
  <2>2. CASE p = 0
    BY <1>1, <2>2
  <2> QED
    BY <1>1, <2>1, <2>2
<1>3. ready' = [ready EXCEPT ![v] = r \o hs]
  BY DEF Moved
<1> HIDE DEF r
<1>4. r \o hs \in Seq(Waiting) /\ Len(r \o hs) = Len(r) + Len(hs)
      /\ (\A i \in 1 .. Len(r) : (r \o hs)[i] = r[i])
      /\ (\A i \in 1 .. Len(hs) : (r \o hs)[Len(r) + i] = hs[i])
      /\ Len(hs) \in Nat /\ Len(r) \in Nat
  <2>1. Len(hs) \in Nat /\ Len(r) \in Nat
    BY <1>1, <1>2
  <2>2. /\ r \o hs \in Seq(Waiting) /\ Len(r \o hs) = Len(r) + Len(hs)
        /\ \A i \in 1 .. Len(r) + Len(hs) :
             (r \o hs)[i] = IF i <= Len(r) THEN r[i] ELSE hs[i - Len(r)]
    BY <1>1, <1>2, ConcatProperties
  <2> QED
    BY <2>1, <2>2
<1>5. ready'[v] = r \o hs
  BY <1>1, <1>3
<1>6. Len(ready[v]) \in Nat
  BY <1>1
<1> QED
  BY <1>1, <1>2, <1>3, <1>4, <1>5, <1>6

-----------------------------------------------------------------------------
(* A Connection is read by one party at a time: a pending read, a handler  *)
(* that waits or runs, or a response that is to come later.                *)

Waits(w, i, c, k) ==
  /\ w \in Pool /\ i \in 1 .. Len(ready[w])
  /\ ready[w][i].conn = c /\ ready[w][i].kind = k
Runs(w, c) ==
  w \in Pool /\ busy[w] # None /\ busy[w].kind \in {"read", "thrown"} /\ busy[w].conn = c
Deferred(c) == "need_to_start_read_after_complete_" \in flags[c]
Later(c) == "need_to_call_after_handlers_" \in flags[c]
IsReading(c) == "is_reading" \in flags[c]
IsWriting(c) == "is_writing" \in flags[c]

NobodyWaits(c, k) == \A w, i : ~Waits(w, i, c, k)
OneWaits(c, k) == \A v, w, i, j : Waits(v, i, c, k) /\ Waits(w, j, c, k) => v = w /\ i = j
IsFor(h, c, k) == h.conn = c /\ h.kind = k

ReadsOnce(c) ==
  /\ OneWaits(c, "read")
  /\ ~NobodyWaits(c, "read") =>
       IsReading(c) /\ c \notin reads /\ ~Deferred(c) /\ \A v : ~Runs(v, c)
  /\ \A w : Runs(w, c) => IsReading(c) /\ c \notin reads /\ ~Deferred(c)
  /\ c \in reads => IsReading(c) /\ ~Deferred(c)
  /\ Deferred(c) => IsReading(c)

StartsOnce(c) ==
  /\ OneWaits(c, "start")
  /\ ~NobodyWaits(c, "start") =>
       flags[c] = {} /\ obj[c] = "live" /\ writes[c] = <<>> /\ NobodyWaits(c, "write")

Lives(c) ==
  /\ IsReading(c) \/ IsWriting(c) => obj[c] = "live"
  /\ obj[c] \in {"none", "accepting", "leaked"} => flags[c] = {} /\ ~open[c] /\ writes[c] = <<>>
  /\ home[c] = tq[c]
  /\ \A w, i, k : k \in {"start", "read", "write"} /\ Waits(w, i, c, k) =>
       w = home[c] /\ obj[c] \in {"live", "deleted"}
  /\ \A w : Runs(w, c) => w = home[c]

TokenOK(c) == ReadsOnce(c) /\ StartsOnce(c) /\ Lives(c)

LEMMA WaitsMoved ==
  ASSUME ready \in [Pool -> Seq(Waiting)], NEW v, NEW p, NEW hs, Moved(v, p, hs)
  PROVE  \A w, i, c, k : Waits(w, i, c, k)' <=>
           \/ w # v /\ Waits(w, i, c, k)
           \/ /\ w = v /\ i \in 1 .. Len(ready[v]) - p
              /\ Waits(v, i + p, c, k)
           \/ /\ w = v /\ i \in Len(ready[v]) - p + 1 .. Len(ready[v]) - p + Len(hs)
              /\ hs[i - (Len(ready[v]) - p)].conn = c
              /\ hs[i - (Len(ready[v]) - p)].kind = k
<1> DEFINE n == Len(ready[v]) - p
<1>1. /\ \A u \in Pool \ {v} : ready'[u] = ready[u]
      /\ Len(ready[v]) \in Nat /\ n \in Nat /\ Len(hs) \in Nat
      /\ Len(ready'[v]) = n + Len(hs)
      /\ \A j \in 1 .. n : ready'[v][j] = ready[v][j + p] /\ j + p \in 1 .. Len(ready[v])
      /\ \A j \in 1 .. Len(hs) : ready'[v][n + j] = hs[j]
      /\ v \in Pool /\ p \in {0, 1}
  <2>1. v \in Pool /\ p \in {0, 1} /\ Len(ready[v]) \in Nat /\ n \in Nat
    BY MovedTypes DEF Moved
  <2>2. \A j \in 1 .. n : j + p \in 1 .. Len(ready[v])
    BY <2>1
  <2>3. /\ \A u \in Pool \ {v} : ready'[u] = ready[u]
        /\ Len(ready'[v]) = n + Len(hs) /\ Len(hs) \in Nat
        /\ \A j \in 1 .. n : ready'[v][j] = ready[v][j + p]
        /\ \A j \in 1 .. Len(hs) : ready'[v][n + j] = hs[j]
    BY MovedTypes
  <2> QED
    BY <2>1, <2>2, <2>3
<1> SUFFICES ASSUME NEW w, NEW i, NEW c, NEW k
             PROVE  Waits(w, i, c, k)' <=>
                      \/ w # v /\ Waits(w, i, c, k)
                      \/ w = v /\ i \in 1 .. n /\ Waits(v, i + p, c, k)
                      \/ /\ w = v /\ i \in n + 1 .. n + Len(hs)
                         /\ hs[i - n].conn = c /\ hs[i - n].kind = k
  OBVIOUS
<1> HIDE DEF n
<1>2. CASE w # v
  <2>1. w \in Pool => ready'[w] = ready[w]
    BY <1>1, <1>2
  <2> QED
    BY <1>2, <2>1 DEF Waits
<1>3. CASE w = v /\ i \in 1 .. n
  <2>1. ready'[v][i] = ready[v][i + p] /\ i \in 1 .. Len(ready'[v]) /\ i + p \in 1 .. Len(ready[v])
    BY <1>1, <1>3
  <2>2. i \notin n + 1 .. n + Len(hs)
    BY <1>1, <1>3
  <2>3. Waits(v, i, c, k)' <=> Waits(v, i + p, c, k)
    BY <1>1, <2>1 DEF Waits
  <2> QED
    BY <1>3, <2>2, <2>3
<1>4. CASE w = v /\ i \in n + 1 .. n + Len(hs)
  <2>1. ready'[v][i] = hs[i - n] /\ i \in 1 .. Len(ready'[v]) /\ i \notin 1 .. n
    <3>1. i \in Int /\ n \in Int /\ Len(hs) \in Int /\ n + 1 <= i /\ i <= n + Len(hs)
      BY <1>1, <1>4
    <3>2. i - n \in 1 .. Len(hs) /\ n + (i - n) = i /\ i \in 1 .. n + Len(hs) /\ i \notin 1 .. n
      BY <1>1, <3>1
    <3>3. ready'[v][n + (i - n)] = hs[i - n]
      BY <1>1, <3>2
    <3> QED
      BY <1>1, <3>2, <3>3
  <2>2. Waits(v, i, c, k)' <=> hs[i - n].conn = c /\ hs[i - n].kind = k
    BY <1>1, <2>1 DEF Waits
  <2> QED
    BY <1>4, <2>1, <2>2
<1>5. CASE w = v /\ i \notin 1 .. n + Len(hs)
  <2>1. i \notin 1 .. n /\ i \notin n + 1 .. n + Len(hs) /\ i \notin 1 .. Len(ready'[v])
    BY <1>1, <1>5
  <2>2. ~Waits(v, i, c, k)'
    BY <2>1 DEF Waits
  <2> QED
    BY <1>5, <2>1, <2>2
<1>6. i \in 1 .. n + Len(hs) => i \in 1 .. n \/ i \in n + 1 .. n + Len(hs)
  BY <1>1
<1> QED
  BY <1>2, <1>3, <1>4, <1>5, <1>6

\* A step leaves d alone, or makes it the next Connection to accept.
Same(d) ==
  /\ flags'[d] = flags[d] /\ open'[d] = open[d] /\ writes'[d] = writes[d] /\ (d \in reads' <=> d \in reads)
  /\ \/ obj'[d] = obj[d] /\ home'[d] = home[d] /\ tq'[d] = tq[d]
     \/ obj[d] = "none" /\ obj'[d] = "accepting" /\ home'[d] = tq'[d]
  /\ \A w : Runs(w, d)' <=> Runs(w, d)

LEMMA WaitsKept ==
  ASSUME ready \in [Pool -> Seq(Waiting)], NEW v, NEW p, NEW hs, Moved(v, p, hs),
         NEW c, NEW k, \A j \in 1 .. Len(hs) : ~IsFor(hs[j], c, k)
  PROVE  /\ NobodyWaits(c, k) => NobodyWaits(c, k)'
         /\ OneWaits(c, k) => OneWaits(c, k)'
         /\ p = 1 /\ OneWaits(c, k) /\ Waits(v, 1, c, k) => NobodyWaits(c, k)'
<1> DEFINE n == Len(ready[v]) - p
<1>1. \A w, i : Waits(w, i, c, k)' <=>
           \/ w # v /\ Waits(w, i, c, k)
           \/ w = v /\ i \in 1 .. n /\ Waits(v, i + p, c, k)
  <2>1. Len(ready[v]) \in Nat /\ p \in {0, 1} /\ n \in Nat /\ Len(hs) \in Nat
    BY MovedTypes DEF Moved
  <2>2. \A i : i \in n + 1 .. n + Len(hs) => i - n \in 1 .. Len(hs)
    BY <2>1
  <2> QED
    BY <2>2, WaitsMoved DEF IsFor
<1>2. p \in {0, 1} /\ n \in Nat
  BY MovedTypes DEF Moved
<1> HIDE DEF n
<1>3. \A w, i : Waits(w, i, c, k)' => \E j : Waits(w, j, c, k)
  BY <1>1
<1>4. OneWaits(c, k) => OneWaits(c, k)'
  BY <1>1, <1>2 DEF OneWaits
<1>5. NobodyWaits(c, k) => NobodyWaits(c, k)'
  BY <1>3 DEF NobodyWaits
<1>6. ASSUME p = 1, OneWaits(c, k), Waits(v, 1, c, k), NEW w, NEW i, Waits(w, i, c, k)'
      PROVE  FALSE
  <2>1. CASE w # v
    BY <1>1, <1>6, <2>1 DEF OneWaits
  <2>2. CASE w = v
    <3>1. i \in Nat /\ i # 0 /\ Waits(v, i + 1, c, k)
      BY <1>1, <1>2, <1>6, <2>2
    <3>2. i + 1 = 1
      BY <1>6, <3>1 DEF OneWaits
    <3> QED
      BY <3>1, <3>2
  <2> QED
    BY <2>1, <2>2
<1> QED
  BY <1>3, <1>4, <1>5, <1>6 DEF NobodyWaits

LEMMA WaitsWere ==
  ASSUME ready \in [Pool -> Seq(Waiting)], NEW v, NEW p, NEW hs, Moved(v, p, hs),
         NEW c, NEW k, \A j \in 1 .. Len(hs) : ~IsFor(hs[j], c, k),
         NEW w, NEW i, Waits(w, i, c, k)'
  PROVE  \E j : Waits(w, j, c, k)
<1>1. Len(ready[v]) \in Nat /\ p \in {0, 1} /\ Len(ready[v]) - p \in Nat /\ Len(hs) \in Nat
  BY MovedTypes DEF Moved
<1>2. i \in Len(ready[v]) - p + 1 .. Len(ready[v]) - p + Len(hs) =>
        i - (Len(ready[v]) - p) \in 1 .. Len(hs)
  BY <1>1
<1> QED
  BY <1>2, WaitsMoved DEF IsFor

LEMMA WaitsHere ==
  ASSUME ready \in [Pool -> Seq(Waiting)], NEW v, NEW p, NEW hs, Moved(v, p, hs),
         NEW c, NEW k, NEW w, NEW i, Waits(w, i, c, k)'
  PROVE  w = v \/ Waits(w, i, c, k)
BY WaitsMoved

LEMMA WaitsAdded ==
  ASSUME ready \in [Pool -> Seq(Waiting)], NEW v, NEW p, NEW hs, Moved(v, p, hs),
         NEW c, NEW k, NobodyWaits(c, k),
         \A i, j \in 1 .. Len(hs) : IsFor(hs[i], c, k) /\ IsFor(hs[j], c, k) => i = j
  PROVE  OneWaits(c, k)'
<1> DEFINE n == Len(ready[v]) - p
<1>1. \A w, i : Waits(w, i, c, k)' =>
           \/ w # v /\ Waits(w, i, c, k)
           \/ w = v /\ Waits(v, i + p, c, k)
           \/ w = v /\ i \in n + 1 .. n + Len(hs) /\ IsFor(hs[i - n], c, k)
  BY WaitsMoved DEF IsFor
<1>2. n \in Nat /\ Len(hs) \in Nat
  BY MovedTypes
<1> HIDE DEF n
<1>3. ASSUME NEW w, NEW u, NEW i, NEW j, Waits(w, i, c, k)', Waits(u, j, c, k)'
      PROVE  w = u /\ i = j
  <2>1. w = v /\ i \in n + 1 .. n + Len(hs) /\ IsFor(hs[i - n], c, k)
    BY <1>1, <1>3 DEF NobodyWaits
  <2>2. u = v /\ j \in n + 1 .. n + Len(hs) /\ IsFor(hs[j - n], c, k)
    BY <1>1, <1>3 DEF NobodyWaits
  <2>3. i - n \in 1 .. Len(hs) /\ j - n \in 1 .. Len(hs)
    BY <1>2, <2>1, <2>2
  <2>4. i - n = j - n
    BY <2>1, <2>2, <2>3
  <2> QED
    BY <1>2, <2>1, <2>2, <2>4
<1> QED
  BY <1>3 DEF OneWaits

LEMMA OthersKeep ==
  ASSUME ready \in [Pool -> Seq(Waiting)], NEW v, NEW p, NEW hs, Moved(v, p, hs),
         NEW d \in Conns, TokenOK(d), Same(d),
         p = 1 => ready[v][1].conn # d,
         \A j \in 1 .. Len(hs) : hs[j].conn # d
  PROVE  TokenOK(d)'
<1>1. \A k : \A j \in 1 .. Len(hs) : ~IsFor(hs[j], d, k)
  BY DEF IsFor
<1>2. OneWaits(d, "read")' /\ (NobodyWaits(d, "read") => NobodyWaits(d, "read")')
  BY <1>1, WaitsKept DEF TokenOK, ReadsOnce
<1>3. OneWaits(d, "start")' /\ (NobodyWaits(d, "start") => NobodyWaits(d, "start")')
      /\ (NobodyWaits(d, "write") => NobodyWaits(d, "write")')
  BY <1>1, WaitsKept DEF TokenOK, StartsOnce
<1>4. ReadsOnce(d)'
  BY <1>2 DEF TokenOK, ReadsOnce, Same, Deferred, IsReading
<1>5. StartsOnce(d)'
  BY <1>3 DEF TokenOK, StartsOnce, Same
<1>6. Lives(d)'
  <2>1. ASSUME NEW w, NEW i, NEW k, k \in {"start", "read", "write"}, Waits(w, i, d, k)'
        PROVE  w = home'[d] /\ obj'[d] \in {"live", "deleted"}
    <3>1. PICK j : Waits(w, j, d, k)
      BY <1>1, <2>1, WaitsWere
    <3>2. w = home[d] /\ obj[d] \in {"live", "deleted"}
      BY <2>1, <3>1 DEF TokenOK, Lives
    <3> QED
      BY <3>2 DEF Same
  <2>2. ASSUME NEW w, Runs(w, d)'
        PROVE  w = home'[d]
    <3>1. IsReading(d) /\ w = home[d] /\ Runs(w, d)
      BY <2>2 DEF TokenOK, Lives, ReadsOnce, Same
    <3> QED
      BY <3>1 DEF TokenOK, Lives, Same
  <2>3. /\ IsReading(d)' \/ IsWriting(d)' => obj'[d] = "live"
        /\ obj'[d] \in {"none", "accepting", "leaked"} =>
             flags'[d] = {} /\ ~open'[d] /\ writes'[d] = <<>>
        /\ home'[d] = tq'[d]
    BY DEF TokenOK, Lives, Same, IsReading, IsWriting
  <2> QED
    BY <2>1, <2>2, <2>3 DEF Lives
<1> QED
  BY <1>4, <1>5, <1>6 DEF TokenOK

\* The ways a step changes ready.
LEMMA NothingMoves ==
  ASSUME ready \in [Pool -> Seq(Waiting)], NEW v \in Pool, ready' = ready
  PROVE  Moved(v, 0, <<>>)
BY DEF Moved

LEMMA PopMoves ==
  ASSUME ready \in [Pool -> Seq(Waiting)], NEW v \in Pool, ready[v] # <<>>, Pop(v)
  PROVE  Moved(v, 1, <<>>)
<1>1. Tail(ready[v]) \in Seq(Waiting)
  BY HeadTailProperties
<1>2. Tail(ready[v]) \o <<>> = Tail(ready[v])
  BY <1>1, ConcatEmptySeq
<1> QED
  BY <1>2 DEF Pop, Moved

LEMMA QueueMoves ==
  ASSUME ready \in [Pool -> Seq(Waiting)], NEW c, home[c] \in Pool,
         NEW hs \in Seq(Waiting), Queue(c, hs)
  PROVE  Moved(home[c], 0, hs)
BY DEF Queue, Moved

\* Where the deadline of c is queued.
EntryAt(w, i, c) == w \in Pool /\ i \in 1 .. Len(dq[w]) /\ dq[w][i].fn = c

TimerOK(c) ==
  \A w, i : EntryAt(w, i, c) =>
    /\ w = tq[c] /\ timerKey[c] = step[w] + i - 1
    /\ dq[w][i].age <= idle[c]
    /\ IsReading(c)

LifeInv == HttpTypeOK /\ \A c \in Conns : TokenOK(c) /\ TimerOK(c)

LEMMA HandlersAre ==
  ASSUME NEW c \in Conns, NEW ok \in BOOLEAN, NEW k \in {"start", "read", "write"},
         NEW rest \in Seq(Pieces)
  PROVE  /\ Handler(k, c, ok, rest) \in Waiting
         /\ Handler(k, c, ok, rest).conn = c /\ Handler(k, c, ok, rest).kind = k
         /\ Handler(k, c, ok, rest).rest = rest
<1>1. c # None /\ k # "process"
  BY NoneAssumption
<1> QED
  BY <1>1 DEF Handler, Waiting, Handlers

\* The handler a worker is about to run.
LEMMA DueIs ==
  ASSUME LifeInv, NEW w \in Pool, NEW k \in {"start", "read", "write"}, Due(w, k)
  PROVE  /\ ready[w] # <<>> /\ ready[w][1] = Head(ready[w]) /\ Head(ready[w]) \in Waiting
         /\ Head(ready[w]).conn \in Conns /\ Waits(w, 1, Head(ready[w]).conn, k)
         /\ w = home[Head(ready[w]).conn] /\ w = tq[Head(ready[w]).conn]
<1> DEFINE h == Head(ready[w])
<1>1. ready[w] \in Seq(Waiting) /\ ready[w] # <<>> /\ h.kind = k
  BY DEF LifeInv, HttpTypeOK, WorkTypes, Due
<1>2. ready[w][1] = h /\ h \in Waiting /\ 1 \in 1 .. Len(ready[w])
  BY <1>1
<1>3. h.conn \in Conns
  BY <1>1, <1>2 DEF Waiting, Handlers
<1>4. Waits(w, 1, h.conn, k)
  BY <1>1, <1>2, <1>3 DEF Waits
<1>5. w = home[h.conn] /\ w = tq[h.conn]
  BY <1>3, <1>4 DEF LifeInv, TokenOK, Lives
<1> QED
  BY <1>1, <1>2, <1>3, <1>4, <1>5

\* The Connection whose read handler a worker is in.
LEMMA RunningIs ==
  ASSUME LifeInv, NEW w \in Pool, Running(w, "read")
  PROVE  /\ busy[w].conn \in Conns /\ Runs(w, busy[w].conn)
         /\ w = home[busy[w].conn] /\ w = tq[busy[w].conn]
         /\ busy[w] \in InHand /\ busy[w].rest \in Seq(Pieces) /\ busy[w].ok \in BOOLEAN
         /\ IsReading(busy[w].conn) /\ busy[w].conn \notin reads /\ ~Deferred(busy[w].conn)
         /\ obj[busy[w].conn] = "live"
<1>1. busy[w] \in InHand /\ busy[w].kind = "read"
  BY DEF LifeInv, HttpTypeOK, WorkTypes, Running
<1>2. busy[w].conn \in Conns /\ busy[w].rest \in Seq(Pieces) /\ busy[w].ok \in BOOLEAN
  BY <1>1 DEF InHand, Waiting, Handlers
<1>3. Runs(w, busy[w].conn)
  BY <1>1 DEF Runs, Running
<1> QED
  BY <1>1, <1>2, <1>3 DEF LifeInv, TokenOK, Lives, ReadsOnce

\* A step takes off the queue of v, adds to it and changes what concerns c alone.
Only(v, p, hs, c) ==
  /\ Moved(v, p, hs)
  /\ \A d \in Conns : d # c => Same(d)
  /\ p = 1 => ready[v][1].conn \in {c, None}
  /\ \A j \in 1 .. Len(hs) : hs[j].conn \in {c, None}

LEMMA AllKeep ==
  ASSUME LifeInv, NEW v, NEW p, NEW hs, NEW c, Only(v, p, hs, c),
         NEW d \in Conns, d # c
  PROVE  TokenOK(d)'
<1>1. d # None
  BY NoneAssumption
<1>2. /\ ready \in [Pool -> Seq(Waiting)] /\ TokenOK(d) /\ Same(d) /\ Moved(v, p, hs)
  BY DEF LifeInv, HttpTypeOK, WorkTypes, Only
<1>3. \A j \in 1 .. Len(hs) : hs[j].conn # d
  BY <1>1 DEF Only
<1>4. p = 1 => ready[v][1].conn # d
  BY <1>1 DEF Only
<1> QED
  BY <1>2, <1>3, <1>4, OthersKeep

\* The same for c itself, on a worker that stays its own.
LEMMA OwnLives ==
  ASSUME LifeInv, NEW v, NEW p, NEW hs, NEW c \in Conns, Only(v, p, hs, c), v = home[c],
         home'[c] = home[c], tq'[c] = tq[c], obj'[c] \in {"live", "deleted"},
         IsReading(c)' \/ IsWriting(c)' => obj'[c] = "live",
         \A w : Runs(w, c)' => w = v
  PROVE  Lives(c)'
<1>1. ready \in [Pool -> Seq(Waiting)] /\ Moved(v, p, hs) /\ Lives(c)
  BY DEF LifeInv, HttpTypeOK, WorkTypes, Only, TokenOK
<1>2. ASSUME NEW u, NEW i, NEW k, k \in {"start", "read", "write"}, Waits(u, i, c, k)'
      PROVE  u = home'[c] /\ obj'[c] \in {"live", "deleted"}
  <2>1. u = v \/ Waits(u, i, c, k)
    BY <1>1, <1>2, WaitsHere
  <2> QED
    BY <1>1, <1>2, <2>1 DEF Lives
<1> QED
  BY <1>1, <1>2 DEF Lives

LEMMA NoStart ==
  ASSUME LifeInv, NEW c \in Conns, flags[c] # {} \/ writes[c] # <<>> \/ ~NobodyWaits(c, "write")
  PROVE  NobodyWaits(c, "start")
BY DEF LifeInv, TokenOK, StartsOnce

LEMMA StillNoStart ==
  ASSUME LifeInv, NEW v, NEW p, NEW hs, NEW c, Only(v, p, hs, c),
         NobodyWaits(c, "start"), \A j \in 1 .. Len(hs) : hs[j].kind # "start"
  PROVE  StartsOnce(c)'
<1>1. \A j \in 1 .. Len(hs) : ~IsFor(hs[j], c, "start")
  BY DEF IsFor
<1>2. NobodyWaits(c, "start")'
  BY <1>1, WaitsKept DEF Only, LifeInv, HttpTypeOK, WorkTypes
<1> QED
  BY <1>2 DEF StartsOnce, OneWaits, NobodyWaits

TokensKept == ready' \in [Pool -> Seq(Waiting)] /\ \A d \in Conns : TokenOK(d)'

LEMMA ReadyTypes ==
  ASSUME LifeInv, NEW v, NEW p, NEW hs, NEW c, Only(v, p, hs, c)
  PROVE  ready' \in [Pool -> Seq(Waiting)]
<1>1. ready \in [Pool -> Seq(Waiting)] /\ Moved(v, p, hs)
  BY DEF LifeInv, HttpTypeOK, WorkTypes, Only
<1> QED
  BY <1>1, MovedTypes

LEMMA TokensOfStart ==
  ASSUME LifeInv, NEW w \in Pool, start(w)
  PROVE  (\E c : Only(w, 1, <<>>, c)) /\ TokensKept
<1>0. PICK c : c = Head(ready[w]).conn
  OBVIOUS
<1>1. /\ ready[w] # <<>> /\ ready[w][1].conn = c /\ c \in Conns /\ Waits(w, 1, c, "start")
      /\ w = home[c] /\ ready \in [Pool -> Seq(Waiting)]
  BY <1>0, DueIs DEF start, LifeInv, HttpTypeOK, WorkTypes
<1>2. Moved(w, 1, <<>>)
  BY <1>1, PopMoves DEF start
<1>3. /\ flags' = [flags EXCEPT ![c] = @ \cup {"is_reading"}] /\ reads' = reads \cup {c}
      /\ UNCHANGED <<obj, home, tq, open, writes, busy>>
  BY <1>0 DEF start
<1>4. flags \in [Conns -> SUBSET {"is_reading", "is_writing", "close_connection_",
       "need_to_call_after_handlers_", "need_to_start_read_after_complete_"}]
  BY DEF LifeInv, HttpTypeOK, ConnTypes
<1>5. Only(w, 1, <<>>, c)
  BY <1>1, <1>2, <1>3, <1>4 DEF Only, Same, Runs
<1>6. TokenOK(c) /\ flags[c] = {} /\ obj[c] = "live" /\ flags'[c] = {"is_reading"}
  BY <1>1, <1>3, <1>4 DEF LifeInv, TokenOK, StartsOnce, NobodyWaits
<1>7. NobodyWaits(c, "start")' /\ NobodyWaits(c, "read")'
  <2>1. NobodyWaits(c, "read") /\ OneWaits(c, "start")
    BY <1>6 DEF TokenOK, ReadsOnce, StartsOnce, IsReading
  <2> QED
    BY <1>1, <1>2, <2>1, WaitsKept
<1>8. ReadsOnce(c)' /\ StartsOnce(c)'
  BY <1>3, <1>6, <1>7
     DEF ReadsOnce, StartsOnce, NobodyWaits, OneWaits, TokenOK, IsReading, Deferred, Runs
<1>9. \A u : Runs(u, c)' => u = w
  BY <1>1, <1>3, <1>6 DEF TokenOK, Lives, Runs
<1>10. Lives(c)'
  BY <1>1, <1>3, <1>5, <1>6, <1>9, OwnLives
<1> QED
  BY <1>5, <1>8, <1>10, AllKeep, ReadyTypes DEF TokensKept, TokenOK

\* A step that leaves the reader of c in its place.
LEMMA OwnKeep ==
  ASSUME LifeInv, NEW v, NEW p, NEW hs, NEW c \in Conns, Only(v, p, hs, c), v = home[c],
         home'[c] = home[c], tq'[c] = tq[c], obj'[c] \in {"live", "deleted"},
         IsReading(c)' \/ IsWriting(c)' => obj'[c] = "live",
         NobodyWaits(c, "start"), \A j \in 1 .. Len(hs) : hs[j].kind = "write",
         IsReading(c)' <=> IsReading(c), Deferred(c)' <=> Deferred(c),
         c \in reads' <=> c \in reads, \A w : Runs(w, c)' <=> Runs(w, c)
  PROVE  TokenOK(c)'
<1>1. ready \in [Pool -> Seq(Waiting)] /\ Moved(v, p, hs) /\ TokenOK(c)
  BY DEF LifeInv, HttpTypeOK, WorkTypes, Only
<1>2. \A j \in 1 .. Len(hs) : ~IsFor(hs[j], c, "read")
  BY DEF IsFor
<1>3. OneWaits(c, "read")' /\ (NobodyWaits(c, "read") => NobodyWaits(c, "read")')
  BY <1>1, <1>2, WaitsKept DEF TokenOK, ReadsOnce
<1>4. ReadsOnce(c)'
  BY <1>1, <1>3 DEF TokenOK, ReadsOnce
<1>5. StartsOnce(c)'
  BY StillNoStart
<1>6. \A w : Runs(w, c)' => w = v
  BY <1>1 DEF TokenOK, Lives
<1>7. Lives(c)'
  BY <1>6, OwnLives
<1> QED
  BY <1>4, <1>5, <1>7 DEF TokenOK

\* A step that queues the handler of the pending read of c.
LEMMA OwnRead ==
  ASSUME LifeInv, NEW v, NEW p, NEW hs, NEW c \in Conns, Only(v, p, hs, c), v = home[c],
         home'[c] = home[c], tq'[c] = tq[c], obj'[c] \in {"live", "deleted"},
         IsReading(c)' \/ IsWriting(c)' => obj'[c] = "live",
         \A j \in 1 .. Len(hs) : hs[j].kind # "start",
         \A i, j \in 1 .. Len(hs) : IsFor(hs[i], c, "read") /\ IsFor(hs[j], c, "read") => i = j,
         IsReading(c)' <=> IsReading(c), Deferred(c)' <=> Deferred(c),
         c \in reads, c \notin reads', \A w : Runs(w, c)' <=> Runs(w, c)
  PROVE  TokenOK(c)'
<1>1. ready \in [Pool -> Seq(Waiting)] /\ Moved(v, p, hs) /\ TokenOK(c)
  BY DEF LifeInv, HttpTypeOK, WorkTypes, Only
<1>2. NobodyWaits(c, "read") /\ NobodyWaits(c, "start") /\ IsReading(c) /\ ~Deferred(c)
      /\ \A w : ~Runs(w, c)
  BY <1>1 DEF TokenOK, ReadsOnce, StartsOnce, IsReading
<1>3. OneWaits(c, "read")'
  BY <1>1, <1>2, WaitsAdded
<1>4. ReadsOnce(c)'
  BY <1>2, <1>3 DEF ReadsOnce
<1>5. StartsOnce(c)'
  BY <1>2, StillNoStart
<1>6. \A w : Runs(w, c)' => w = v
  BY <1>2
<1>7. Lives(c)'
  BY <1>6, OwnLives
<1> QED
  BY <1>4, <1>5, <1>7 DEF TokenOK

ConnFlags == {"is_reading", "is_writing", "close_connection_",
              "need_to_call_after_handlers_", "need_to_start_read_after_complete_"}

LEMMA TokensOfPick ==
  ASSUME LifeInv, NEW w \in Pool, Pick(w)
  PROVE  (\E c : Only(w, 1, <<>>, c)) /\ TokensKept
<1>1. /\ ready[w] # <<>> /\ ready \in [Pool -> Seq(Waiting)]
      /\ busy \in [Pool -> InHand \cup {None}] /\ busy[w] = None
  BY DEF Pick, Due, LifeInv, HttpTypeOK, WorkTypes
<1>2. Moved(w, 1, <<>>)
  BY <1>1, PopMoves DEF Pick
<1>3. PICK h : h = Head(ready[w])
  OBVIOUS
<1>4. h \in Waiting /\ h = ready[w][1] /\ h # None /\ 1 \in 1 .. Len(ready[w])
  <2>1. h \in Waiting /\ h = ready[w][1] /\ 1 \in 1 .. Len(ready[w])
    BY <1>1, <1>3
  <2> QED
    BY <2>1, NoneAssumption DEF Waiting
<1>5. /\ busy' = [busy EXCEPT ![w] = h] /\ h.kind \in {"read", "process"}
      /\ UNCHANGED <<flags, reads, obj, home, tq, open, writes>>
  BY <1>3 DEF Pick, connVars, Due
<1>6. \A u, d : Runs(u, d)' <=> \/ Runs(u, d) \/ (u = w /\ h.kind = "read" /\ h.conn = d)
  BY <1>1, <1>4, <1>5 DEF Runs
<1>7. PICK c : c = h.conn
  OBVIOUS
<1>8. Only(w, 1, <<>>, c)
  BY <1>2, <1>4, <1>5, <1>6, <1>7 DEF Only, Same
<1>9. ASSUME c \in Conns
      PROVE  TokenOK(c)'
  <2>1. h.kind = "read" /\ Waits(w, 1, c, "read")
    BY <1>4, <1>5, <1>7, <1>9, NoneAssumption DEF Waiting, Waits
  <2>2. TokenOK(c) /\ ~NobodyWaits(c, "read") /\ w = home[c] /\ obj[c] = "live"
    BY <1>9, <2>1 DEF LifeInv, TokenOK, Lives, ReadsOnce, NobodyWaits
  <2>3. NobodyWaits(c, "read")'
    <3>1. OneWaits(c, "read") /\ \A j \in 1 .. Len(<<>>) : ~IsFor(<<>>[j], c, "read")
      BY <2>2 DEF TokenOK, ReadsOnce
    <3> QED
      BY <1>1, <1>2, <2>1, <3>1, WaitsKept
  <2>4. NobodyWaits(c, "start")
    BY <2>2 DEF TokenOK, ReadsOnce, StartsOnce, IsReading
  <2>5. StartsOnce(c)'
    BY <1>8, <2>4, StillNoStart
  <2>6. ReadsOnce(c)'
    BY <1>5, <2>2, <2>3 DEF TokenOK, ReadsOnce, NobodyWaits, OneWaits, IsReading, Deferred
  <2>7. \A u : Runs(u, c)' => u = w
    BY <1>6, <2>2 DEF TokenOK, Lives
  <2>8. Lives(c)'
    BY <1>5, <1>8, <1>9, <2>2, <2>7, OwnLives
  <2> QED
    BY <2>5, <2>6, <2>8 DEF TokenOK
<1> QED
  BY <1>8, <1>9, AllKeep, ReadyTypes DEF TokensKept

\* do_write() and complete_request(): no reader moves, and at most a write
\* handler is queued.
LEMMA WriteMoves ==
  ASSUME LifeInv, NEW c \in Conns, NEW chunks, NEW members \in SUBSET ConnFlags,
         do_write(c, chunks, members) \/ complete_request(c, chunks, members)
  PROVE  \E hs : /\ Moved(home[c], 0, hs)
                 /\ \A j \in 1 .. Len(hs) : hs[j].conn = c /\ hs[j].kind = "write"
                 /\ \A d \in Conns \ {c} : flags'[d] = flags[d] /\ writes'[d] = writes[d]
                 /\ flags'[c] \in {members, members \cup {"is_writing"}}
<1>1. /\ home[c] \in Pool /\ ready \in [Pool -> Seq(Waiting)]
      /\ flags \in [Conns -> SUBSET ConnFlags] /\ OfConns(writes)
  BY DEF LifeInv, HttpTypeOK, ConnTypes, WorkTypes, ConnFlags
<1>0. \A ok \in BOOLEAN : LET h == Handler("write", c, ok, <<>>)
                         IN  h \in Waiting /\ h.conn = c /\ h.kind = "write"
  <2> SUFFICES ASSUME NEW ok \in BOOLEAN
               PROVE  LET h == Handler("write", c, ok, <<>>)
                      IN  h \in Waiting /\ h.conn = c /\ h.kind = "write"
    OBVIOUS
  <2>1. <<>> \in Seq(Pieces) /\ c # None
    BY NoneAssumption
  <2> QED
    BY <2>1 DEF Handler, Waiting, Handlers
<1> DEFINE Writes(hs) == hs \in Seq(Waiting) /\ \A j \in 1 .. Len(hs) : hs[j].conn = c /\ hs[j].kind = "write"
<1>2. Writes(<<>>)
  OBVIOUS
<1>3. ASSUME NEW ok \in BOOLEAN
      PROVE  Writes(<<Handler("write", c, ok, <<>>)>>)
  <2> DEFINE h == Handler("write", c, ok, <<>>)
  <2>1. h \in Waiting /\ h.conn = c /\ h.kind = "write"
    BY <1>0 DEF h
  <2> HIDE DEF h
  <2>2. <<h>> \in Seq(Waiting) /\ Len(<<h>>) = 1 /\ <<h>>[1] = h
    BY <2>1
  <2>3. Writes(<<h>>)
    BY <2>1, <2>2
  <2> QED
    BY <2>3 DEF h
<1>4. \E hs : Writes(hs) /\ (Queue(c, hs) \/ (hs = <<>> /\ ready' = ready))
  <2> HIDE DEF Writes
  <2>1. CASE do_write(c, chunks, members)
    BY <1>2, <1>3, <2>1 DEF do_write
  <2>2. CASE ~open[c] /\ complete_request(c, chunks, members)
    BY <1>2, <2>2 DEF complete_request
  <2> QED
    BY <2>1, <2>2 DEF complete_request
<1>5. PICK hs : Writes(hs) /\ (Queue(c, hs) \/ (hs = <<>> /\ ready' = ready))
  BY <1>4
<1>6. Moved(home[c], 0, hs)
  BY <1>1, <1>5, QueueMoves, NothingMoves
<1>7. /\ \A d \in Conns \ {c} : flags'[d] = flags[d] /\ writes'[d] = writes[d]
      /\ flags'[c] \in {members, members \cup {"is_writing"}}
  BY <1>1 DEF do_write, complete_request, OfConns
<1> QED
  BY <1>5, <1>6, <1>7

\* Feeding a piece to the parser.
LEMMA FedRuns ==
  ASSUME LifeInv, NEW w \in Pool, Running(w, "read"), busy[w].rest # <<>>,
         busy' = [busy EXCEPT ![w].rest = Tail(@)]
  PROVE  /\ \A u, d : Runs(u, d)' <=> Runs(u, d)
         /\ busy' \in [Pool -> InHand \cup {None}]
<1>1. busy \in [Pool -> InHand \cup {None}] /\ busy[w] \in InHand /\ busy[w].rest \in Seq(Pieces)
      /\ busy[w] # None
  BY RunningIs DEF LifeInv, HttpTypeOK, WorkTypes, Running
<1>2. PICK b : b = [busy[w] EXCEPT !.rest = Tail(@)]
  OBVIOUS
<1>3. Tail(busy[w].rest) \in Seq(Pieces)
  BY <1>1, HeadTailProperties
<1>4. b \in InHand /\ b.conn = busy[w].conn /\ b.kind = busy[w].kind
  BY <1>1, <1>2, <1>3 DEF InHand, Waiting, Handlers
<1>5. b # None
  BY <1>4, NoneAssumption DEF InHand, Waiting
<1>6. busy' = [busy EXCEPT ![w] = b]
  BY <1>1, <1>2
<1> QED
  BY <1>1, <1>4, <1>5, <1>6 DEF Runs

LEMMA TokensOfFeedHead ==
  ASSUME LifeInv, NEW w \in Pool, FeedHead(w)
  PROVE  (\E c, hs : Only(w, 0, hs, c)) /\ TokensKept
<1>1. Running(w, "read") /\ busy' = [busy EXCEPT ![w].rest = Tail(@)]
  BY DEF FeedHead, Feeding, Fed
<1>2. PICK c : c = busy[w].conn
  OBVIOUS
<1>3. /\ c \in Conns /\ Runs(w, c) /\ w = home[c] /\ IsReading(c) /\ obj[c] = "live"
      /\ busy \in [Pool -> InHand \cup {None}] /\ busy[w] \in InHand /\ busy[w] # None
  BY <1>1, <1>2, RunningIs DEF LifeInv, HttpTypeOK, WorkTypes, Running
<1>4. UNCHANGED <<obj, home, tq, open, reads>>
  BY DEF FeedHead
<1>5. \A u, d : Runs(u, d)' <=> Runs(u, d)
  BY <1>1, FedRuns DEF FeedHead, Feeding
<1>6. flags[c] \in SUBSET ConnFlags /\ ready \in [Pool -> Seq(Waiting)]
  BY <1>3 DEF LifeInv, HttpTypeOK, ConnTypes, WorkTypes, ConnFlags
<1>7. \E hs : /\ Moved(w, 0, hs)
              /\ \A j \in 1 .. Len(hs) : hs[j].conn = c /\ hs[j].kind = "write"
              /\ \A d \in Conns \ {c} : flags'[d] = flags[d] /\ writes'[d] = writes[d]
              /\ flags'[c] \in {flags[c], flags[c] \cup {"is_writing"}}
  <2>1. CASE UNCHANGED <<flags, writes, ready>>
    <3>1. Moved(w, 0, <<>>)
      BY <1>6, <2>1, NothingMoves
    <3> QED
      BY <2>1, <3>1
  <2>2. CASE \E chunks : do_write(c, chunks, flags[c])
    BY <1>3, <1>6, <2>2, WriteMoves
  <2> QED
    BY <1>2, <2>1, <2>2 DEF FeedHead
<1>8. PICK hs : /\ Moved(w, 0, hs)
                /\ \A j \in 1 .. Len(hs) : hs[j].conn = c /\ hs[j].kind = "write"
                /\ \A d \in Conns \ {c} : flags'[d] = flags[d] /\ writes'[d] = writes[d]
                /\ flags'[c] \in {flags[c], flags[c] \cup {"is_writing"}}
  BY <1>7
<1>9. Only(w, 0, hs, c)
  BY <1>4, <1>5, <1>8 DEF Only, Same
<1>10. NobodyWaits(c, "start")
  BY <1>3, NoStart DEF IsReading
<1>11. IsReading(c)' /\ (Deferred(c)' <=> Deferred(c))
  BY <1>3, <1>8 DEF IsReading, Deferred
<1>12. TokenOK(c)'
  BY <1>3, <1>4, <1>5, <1>8, <1>9, <1>10, <1>11, OwnKeep
<1> QED
  BY <1>9, <1>12, AllKeep, ReadyTypes DEF TokensKept

LEMMA TokensOfHandle ==
  ASSUME LifeInv, NEW w \in Pool, handle(w)
  PROVE  (\E c, hs : Only(w, 0, hs, c)) /\ TokensKept
<1>1. Running(w, "read") /\ busy' = [busy EXCEPT ![w].rest = Tail(@)]
  BY DEF handle, Feeding, Fed
<1>2. PICK c : c = busy[w].conn
  OBVIOUS
<1>3. /\ c \in Conns /\ Runs(w, c) /\ w = home[c] /\ IsReading(c) /\ obj[c] = "live"
  BY <1>1, <1>2, RunningIs
<1>4. UNCHANGED <<obj, home, tq, open, reads>>
  BY DEF handle
<1>5. \A u, d : Runs(u, d)' <=> Runs(u, d)
  BY <1>1, FedRuns DEF handle, Feeding
<1>6. flags[c] \in SUBSET ConnFlags /\ ready \in [Pool -> Seq(Waiting)] /\ c \in DOMAIN flags
  BY <1>3 DEF LifeInv, HttpTypeOK, ConnTypes, WorkTypes, ConnFlags
<1>7. \E hs : /\ Moved(w, 0, hs)
              /\ \A j \in 1 .. Len(hs) : hs[j].conn = c /\ hs[j].kind = "write"
              /\ \A d \in Conns \ {c} : flags'[d] = flags[d] /\ writes'[d] = writes[d]
              /\ IsReading(c)' /\ (Deferred(c)' <=> Deferred(c))
  <2>1. CASE /\ flags' = [flags EXCEPT ![c] = @ \cup {"need_to_call_after_handlers_"}]
             /\ UNCHANGED <<writes, ready>>
    <3>1. Moved(w, 0, <<>>)
      BY <1>6, <2>1, NothingMoves
    <3>2. flags'[c] = flags[c] \cup {"need_to_call_after_handlers_"}
      BY <1>6, <2>1
    <3>3. IsReading(c)' /\ (Deferred(c)' <=> Deferred(c))
      BY <1>3, <3>2 DEF IsReading, Deferred
    <3> QED
      BY <2>1, <3>1, <3>3
  <2>2. CASE \E chunks, more : /\ more \in SUBSET {"close_connection_"}
                               /\ complete_request(c, chunks, flags[c] \cup more)
    <3>1. PICK chunks, more : /\ more \in SUBSET {"close_connection_"}
                              /\ complete_request(c, chunks, flags[c] \cup more)
      BY <2>2
    <3>2. flags[c] \cup more \in SUBSET ConnFlags
      BY <1>6, <3>1 DEF ConnFlags
    <3>3. PICK hs : /\ Moved(w, 0, hs)
                    /\ \A j \in 1 .. Len(hs) : hs[j].conn = c /\ hs[j].kind = "write"
                    /\ \A d \in Conns \ {c} : flags'[d] = flags[d] /\ writes'[d] = writes[d]
                    /\ flags'[c] \in {flags[c] \cup more, flags[c] \cup more \cup {"is_writing"}}
      BY <1>3, <3>1, <3>2, WriteMoves
    <3>4. IsReading(c)' /\ (Deferred(c)' <=> Deferred(c))
      BY <1>3, <3>1, <3>3 DEF IsReading, Deferred
    <3> QED
      BY <3>3, <3>4
  <2>3. \/ /\ flags' = [flags EXCEPT ![c] = @ \cup {"need_to_call_after_handlers_"}]
           /\ UNCHANGED <<writes, ready>>
        \/ \E chunks : complete_request(c, chunks, flags[c] \cup {"close_connection_"})
        \/ \E chunks : complete_request(c, chunks, flags[c] \cup {})
    BY <1>2 DEF handle
  <2> QED
    BY <2>1, <2>2, <2>3
<1>8. PICK hs : /\ Moved(w, 0, hs)
                /\ \A j \in 1 .. Len(hs) : hs[j].conn = c /\ hs[j].kind = "write"
                /\ \A d \in Conns \ {c} : flags'[d] = flags[d] /\ writes'[d] = writes[d]
                /\ IsReading(c)' /\ (Deferred(c)' <=> Deferred(c))
  BY <1>7
<1>9. Only(w, 0, hs, c)
  BY <1>4, <1>5, <1>8 DEF Only, Same
<1>10. NobodyWaits(c, "start")
  BY <1>3, NoStart DEF IsReading
<1>12. TokenOK(c)'
  BY <1>3, <1>4, <1>5, <1>8, <1>9, <1>10, OwnKeep
<1> QED
  BY <1>9, <1>12, AllKeep, ReadyTypes DEF TokensKept

\* The handler an exception leaves is still the reader of its Connection.
LEMMA ThrownRuns ==
  ASSUME LifeInv, NEW w \in Pool, handleThrows(w)
  PROVE  /\ busy' \in [Pool -> InHand \cup {None}]
         /\ \A u, d : Runs(u, d)' <=> Runs(u, d)
         /\ \A u \in Pool : u # w => busy'[u] = busy[u]
         /\ busy'[w].conn = busy[w].conn /\ busy'[w].rest = busy[w].rest
         /\ busy'[w].kind = "thrown" /\ busy'[w] # None
<1>1. Running(w, "read") /\ busy \in [Pool -> InHand \cup {None}] /\ busy[w] \in InHand
  BY RunningIs DEF handleThrows, Feeding, LifeInv, HttpTypeOK, WorkTypes
<1>2. PICK b : b = [busy[w] EXCEPT !.kind = "thrown"]
  OBVIOUS
<1>3. b \in InHand /\ b.conn = busy[w].conn /\ b.rest = busy[w].rest /\ b.kind = "thrown"
  <2>1. busy[w] \in Handlers /\ busy[w].kind = "read" /\ busy[w].conn # None
    BY <1>1 DEF InHand, Waiting, Running
  <2>2. /\ b \in Handlers /\ b.conn = busy[w].conn /\ b.rest = busy[w].rest
        /\ b.kind = "thrown"
    BY <1>2, <2>1 DEF Handlers
  <2> QED
    BY <2>1, <2>2 DEF InHand, Waiting
<1>4. b # None
  BY <1>3, NoneAssumption DEF InHand, Waiting
<1>5. busy' = [busy EXCEPT ![w] = b]
  BY <1>1, <1>2 DEF handleThrows
<1>6. \A u, d : Runs(u, d)' <=> Runs(u, d)
  BY <1>1, <1>3, <1>4, <1>5 DEF Runs, Running
<1> QED
  BY <1>1, <1>3, <1>4, <1>5, <1>6

LEMMA TokensOfHandleThrows ==
  ASSUME LifeInv, NEW w \in Pool, handleThrows(w)
  PROVE  (\E c : Only(w, 0, <<>>, c)) /\ TokensKept
<1>1. PICK c : c = busy[w].conn
  OBVIOUS
<1>2. /\ c \in Conns /\ Runs(w, c) /\ w = home[c] /\ IsReading(c) /\ obj[c] = "live"
  BY <1>1, RunningIs DEF handleThrows, Feeding
<1>3. UNCHANGED <<obj, home, tq, open, reads, writes, ready>>
  BY DEF handleThrows
<1>4. \A u, d : Runs(u, d)' <=> Runs(u, d)
  BY ThrownRuns
<1>5. flags \in [Conns -> SUBSET ConnFlags] /\ ready \in [Pool -> Seq(Waiting)]
  BY DEF LifeInv, HttpTypeOK, ConnTypes, WorkTypes, ConnFlags
<1>6. PICK more \in SUBSET {"close_connection_"} : flags' = [flags EXCEPT ![c] = flags[c] \cup more]
  BY <1>1 DEF handleThrows
<1>7. /\ \A d \in Conns : d # c => flags'[d] = flags[d]
      /\ flags'[c] = flags[c] \cup more
  BY <1>2, <1>5, <1>6
<1>8. IsReading(c)' /\ (Deferred(c)' <=> Deferred(c))
  BY <1>2, <1>7 DEF IsReading, Deferred
<1>9. Moved(w, 0, <<>>)
  BY <1>3, <1>5, NothingMoves
<1>10. Only(w, 0, <<>>, c)
  BY <1>3, <1>4, <1>7, <1>9 DEF Only, Same
<1>11. NobodyWaits(c, "start")
  BY <1>2, NoStart DEF IsReading
<1>12. TokenOK(c)'
  <2>1. PICK p, hs : p = 0 /\ hs = <<>>
    OBVIOUS
  <2>2. Only(w, p, hs, c) /\ \A j \in 1 .. Len(hs) : hs[j].kind = "write"
    BY <1>10, <2>1
  <2>3. /\ home'[c] = home[c] /\ tq'[c] = tq[c] /\ obj'[c] = "live"
        /\ (c \in reads' <=> c \in reads)
    BY <1>2, <1>3
  <2> QED
    BY <1>2, <1>4, <1>8, <1>11, <2>2, <2>3, OwnKeep
<1> QED
  BY <1>10, <1>12, AllKeep, ReadyTypes DEF TokensKept

\* A step that takes nobody's handler off a queue and adds none.
LEMMA TokensOfNobody ==
  ASSUME LifeInv, NEW v, NEW hs, Only(v, 0, hs, None)
  PROVE  TokensKept
BY AllKeep, ReadyTypes, NoneAssumption DEF TokensKept

LEMMA TokensOfIdle ==
  ASSUME LifeInv, UNCHANGED <<flags, open, writes, reads, ready, obj, home, tq>>,
         \A u, d : Runs(u, d)' <=> Runs(u, d)
  PROVE  TokensKept
<1>1. Moved(0, 0, <<>>)
  BY NothingMoves, PoolIs DEF LifeInv, HttpTypeOK, WorkTypes
<1>2. Only(0, 0, <<>>, None)
  BY <1>1 DEF Only, Same
<1> QED
  BY <1>2, TokensOfNobody

LEMMA TokensOfFeedJunk ==
  ASSUME LifeInv, NEW w \in Pool, FeedJunk(w)
  PROVE  TokensKept
<1>1. Running(w, "read") /\ busy[w] \in InHand /\ busy \in [Pool -> InHand \cup {None}]
  BY RunningIs DEF FeedJunk, Feeding, LifeInv, HttpTypeOK, WorkTypes
<1>2. PICK b : b = [busy[w] EXCEPT !.rest = <<>>, !.ok = FALSE]
  OBVIOUS
<1>3. b \in InHand /\ b.conn = busy[w].conn /\ b.kind = busy[w].kind
  <2>1. busy[w] \in Handlers /\ <<>> \in Seq(Pieces)
    BY <1>1 DEF InHand, Waiting
  <2>2. b \in Handlers /\ b.conn = busy[w].conn /\ b.kind = busy[w].kind
    BY <1>2, <2>1 DEF Handlers
  <2> QED
    BY <1>1, <2>2 DEF InHand, Waiting
<1>4. b # None
  BY <1>3, NoneAssumption DEF InHand, Waiting
<1>5. busy' = [busy EXCEPT ![w] = b]
  BY <1>1, <1>2 DEF FeedJunk
<1>6. \A u, d : Runs(u, d)' <=> Runs(u, d)
  BY <1>1, <1>3, <1>4, <1>5 DEF Runs, Running
<1> QED
  BY <1>6, TokensOfIdle DEF FeedJunk, connVars, serverVars

LEMMA TokensOfProcessed ==
  ASSUME LifeInv, NEW w \in Pool, processed(w)
  PROVE  TokensKept
<1>1. \A u, d : Runs(u, d)' <=> Runs(u, d)
  BY DEF processed, Running, Done, Runs, LifeInv, HttpTypeOK, WorkTypes
<1> QED
  BY <1>1, TokensOfIdle DEF processed, connVars, serverVars

LEMMA TokensOfClient ==
  ASSUME LifeInv, NEW c \in Conns, Client(c)
  PROVE  TokensKept
<1>1. UNCHANGED <<flags, open, writes, reads, ready, obj, home, tq, busy>>
  BY DEF Client, SendRequest, SendBody, ClientLeaves, SendJunk, Leave, ClientReads, connVars,
         serverVars
<1>2. \A u, d : Runs(u, d)' <=> Runs(u, d)
  BY <1>1 DEF Runs
<1> QED
  BY <1>1, <1>2, TokensOfIdle

\* The handlers of c that close() queues: at most one of each kind, and that of
\* a read only if one is pending.
LEMMA AbortedIs ==
  ASSUME NEW c \in Conns
  PROVE  /\ Aborted(c) \in Seq(Waiting)
         /\ \A j \in 1 .. Len(Aborted(c)) :
              /\ Aborted(c)[j].conn = c /\ Aborted(c)[j].kind \in {"read", "write"}
              /\ Aborted(c)[j].kind = "read" => c \in reads
         /\ \A i, j \in 1 .. Len(Aborted(c)) : \A k :
              IsFor(Aborted(c)[i], c, k) /\ IsFor(Aborted(c)[j], c, k) => i = j
<1> DEFINE r == Handler("read", c, FALSE, <<>>)
           x == Handler("write", c, FALSE, <<>>)
<1>1. /\ r \in Waiting /\ r.conn = c /\ r.kind = "read"
      /\ x \in Waiting /\ x.conn = c /\ x.kind = "write"
  <2>1. <<>> \in Seq(Pieces) /\ c # None
    BY NoneAssumption
  <2> QED
    BY <2>1 DEF Handler, Waiting, Handlers
<1>2. Aborted(c) = (IF c \in reads THEN <<r>> ELSE <<>>) \o (IF writes[c] # <<>> THEN <<x>> ELSE <<>>)
  BY DEF Aborted
<1> HIDE DEF r, x
<1>3. \/ Aborted(c) = <<>>
      \/ c \in reads /\ Aborted(c) = <<r>>
      \/ Aborted(c) = <<x>>
      \/ c \in reads /\ Aborted(c) = <<r>> \o <<x>>
  <2>0. <<r>> \in Seq(Waiting) /\ <<x>> \in Seq(Waiting)
    BY <1>1
  <2>1. <<r>> \o <<>> = <<r>> /\ <<>> \o <<x>> = <<x>>
    BY <2>0, ConcatEmptySeq
  <2>2. <<>> \o <<>> = <<>>
    OBVIOUS
  <2> QED
    BY <1>2, <2>1, <2>2
<1> DEFINE As(hs) ==
      /\ hs \in Seq(Waiting)
      /\ \A j \in 1 .. Len(hs) :
           /\ hs[j].conn = c /\ hs[j].kind \in {"read", "write"}
           /\ hs[j].kind = "read" => c \in reads
      /\ \A i, j \in 1 .. Len(hs) : \A k : IsFor(hs[i], c, k) /\ IsFor(hs[j], c, k) => i = j
<1>4. As(<<>>)
  OBVIOUS
<1>5. As(<<x>>)
  BY <1>1
<1>6. c \in reads => As(<<r>>)
  BY <1>1
<1>7. c \in reads => As(<<r>> \o <<x>>)
  <2>1. PICK hs : hs = <<r>> \o <<x>>
    OBVIOUS
  <2>2. hs \in Seq(Waiting) /\ Len(hs) = 2 /\ hs[1] = r /\ hs[2] = x
    <3>1. <<r>> \in Seq(Waiting) /\ <<x>> \in Seq(Waiting) /\ Len(<<r>>) = 1 /\ Len(<<x>>) = 1
          /\ <<r>>[1] = r /\ <<x>>[1] = x
      BY <1>1
    <3> QED
      BY <2>1, <3>1, ConcatProperties
  <2>3. \A j \in 1 .. Len(hs) : j = 1 \/ j = 2
    BY <2>2
  <2>4. c \in reads => As(hs)
    BY <1>1, <2>2, <2>3 DEF IsFor
  <2> QED
    BY <2>1, <2>4
<1>8. As(Aborted(c))
  <2> HIDE DEF As
  <2> QED
    BY <1>3, <1>4, <1>5, <1>6, <1>7
<1> QED
  BY <1>8

\* The socket of c is closed, by the handler taken off the queue of its worker or not.
ClosedIn(c, p, who) ==
  /\ p \in {0, 1} /\ (p = 1 => ready[home[c]] # <<>>)
  /\ close(c, who, IF p = 1 THEN Tail(ready[home[c]]) ELSE ready[home[c]])

LEMMA CloseMoves ==
  ASSUME LifeInv, NEW c \in Conns, NEW p, NEW who, ClosedIn(c, p, who)
  PROVE  /\ Moved(home[c], p, Aborted(c))
         /\ ~open'[c] /\ writes'[c] = <<>> /\ c \notin reads'
         /\ \A d \in Conns : d # c =>
              open'[d] = open[d] /\ writes'[d] = writes[d] /\ (d \in reads' <=> d \in reads)
<1>1. home[c] \in Pool /\ Aborted(c) \in Seq(Waiting)
  BY AbortedIs DEF LifeInv, HttpTypeOK, ConnTypes
<1>2. Moved(home[c], p, Aborted(c))
  BY <1>1 DEF close, Moved, ClosedIn
<1>3. open \in [Conns -> BOOLEAN] /\ OfConns(writes)
  BY DEF LifeInv, HttpTypeOK, ConnTypes
<1>4. writes' = [d \in Conns |-> IF d = c THEN <<>> ELSE writes[d]]
  BY <1>3 DEF close, OfConns, ClosedIn
<1> QED
  BY <1>2, <1>3, <1>4 DEF close, ClosedIn

\* A step that closes the socket of c and leaves its reader in its place, or its
\* read to be answered with an error.
LEMMA TokensOfClose ==
  ASSUME LifeInv, NEW c \in Conns, NEW p, NEW who, ClosedIn(c, p, who),
         p = 1 => ready[home[c]][1].conn = c,
         UNCHANGED <<home, tq>>, NobodyWaits(c, "start"),
         \A d \in Conns : d # c => flags'[d] = flags[d] /\ obj'[d] = obj[d],
         obj'[c] \in {"live", "deleted"}, IsReading(c)' \/ IsWriting(c)' => obj'[c] = "live",
         IsReading(c)' <=> IsReading(c), Deferred(c)' <=> Deferred(c),
         \A u, d : Runs(u, d)' <=> Runs(u, d)
  PROVE  Only(home[c], p, Aborted(c), c) /\ TokensKept
<1>1. PICK v, hs : v = home[c] /\ hs = Aborted(c)
  OBVIOUS
<1>2. /\ Moved(v, p, hs) /\ c \notin reads'
      /\ \A d \in Conns : d # c =>
           open'[d] = open[d] /\ writes'[d] = writes[d] /\ (d \in reads' <=> d \in reads)
  BY <1>1, CloseMoves
<1>3. /\ \A j \in 1 .. Len(hs) :
           hs[j].conn = c /\ hs[j].kind \in {"read", "write"} /\ (hs[j].kind = "read" => c \in reads)
      /\ \A i, j \in 1 .. Len(hs) : IsFor(hs[i], c, "read") /\ IsFor(hs[j], c, "read") => i = j
  BY <1>1, AbortedIs
<1>4. Only(v, p, hs, c)
  BY <1>1, <1>2, <1>3 DEF Only, Same
<1>5. CASE c \in reads
  <2>1. \A j \in 1 .. Len(hs) : hs[j].kind # "start"
    BY <1>3
  <2>2. \A w : Runs(w, c)' <=> Runs(w, c)
    OBVIOUS
  <2>3. TokenOK(c)'
    BY <1>1, <1>2, <1>3, <1>4, <1>5, <2>1, <2>2, OwnRead
  <2> QED
    BY <1>1, <1>4, <2>3, AllKeep, ReadyTypes DEF TokensKept
<1>6. CASE c \notin reads
  <2>1. \A j \in 1 .. Len(hs) : hs[j].kind = "write"
    BY <1>3, <1>6
  <2>2. (\A w : Runs(w, c)' <=> Runs(w, c)) /\ (c \in reads' <=> c \in reads)
    BY <1>2, <1>6
  <2>3. TokenOK(c)'
    BY <1>1, <1>4, <2>1, <2>2, OwnKeep
  <2> QED
    BY <1>1, <1>4, <2>3, AllKeep, ReadyTypes DEF TokensKept
<1> QED
  BY <1>5, <1>6

\* A step that ends the read handler of c.
LEMMA DoneRuns ==
  ASSUME LifeInv, NEW w \in Pool, NEW c \in Conns, Runs(w, c), Done(w)
  PROVE  /\ \A u : ~Runs(u, c)'
         /\ \A u, d : d # c => (Runs(u, d)' <=> Runs(u, d))
         /\ busy' \in [Pool -> InHand \cup {None}]
BY DEF LifeInv, HttpTypeOK, WorkTypes, Done, Runs, TokenOK, Lives

LEMMA TokensOfReadAgain ==
  ASSUME LifeInv, NEW w \in Pool, readAgain(w)
  PROVE  TokensKept
<1>1. PICK c : c = busy[w].conn
  OBVIOUS
<1>2. /\ c \in Conns /\ Runs(w, c) /\ w = home[c] /\ IsReading(c) /\ obj[c] = "live"
      /\ c \notin reads /\ ~Deferred(c)
  BY <1>1, RunningIs DEF readAgain
<1>3. UNCHANGED <<obj, home, tq, open, writes, ready>>
  BY DEF readAgain
<1>4. (\A u : ~Runs(u, c)') /\ \A u, d : d # c => (Runs(u, d)' <=> Runs(u, d))
  BY <1>2, DoneRuns DEF readAgain
<1>5. flags \in [Conns -> SUBSET ConnFlags] /\ ready \in [Pool -> Seq(Waiting)]
  BY DEF LifeInv, HttpTypeOK, ConnTypes, WorkTypes, ConnFlags
<1>6. /\ \A d \in Conns : d # c => flags'[d] = flags[d] /\ (d \in reads' <=> d \in reads)
      /\ \/ flags'[c] = flags[c] /\ c \in reads'
         \/ flags'[c] = flags[c] \cup {"need_to_start_read_after_complete_"} /\ c \notin reads'
  BY <1>1, <1>2, <1>5 DEF readAgain
<1>7. Moved(w, 0, <<>>)
  BY <1>3, <1>5, NothingMoves
<1>8. Only(w, 0, <<>>, c)
  BY <1>3, <1>4, <1>6, <1>7 DEF Only, Same
<1>9. NobodyWaits(c, "start") /\ NobodyWaits(c, "read") /\ TokenOK(c)
  BY <1>2, NoStart DEF LifeInv, TokenOK, ReadsOnce, IsReading
<1>10. NobodyWaits(c, "read")'
  BY <1>5, <1>7, <1>9, WaitsKept DEF IsFor
<1>11. ReadsOnce(c)'
  <2>1. IsReading(c)' /\ ~(Deferred(c)' /\ c \in reads')
    BY <1>2, <1>6 DEF IsReading, Deferred
  <2> QED
    BY <1>4, <1>10, <2>1 DEF ReadsOnce, NobodyWaits, OneWaits
<1>12. StartsOnce(c)'
  BY <1>8, <1>9, StillNoStart
<1>13. Lives(c)'
  BY <1>2, <1>3, <1>4, <1>8, OwnLives
<1> QED
  BY <1>8, <1>11, <1>12, <1>13, AllKeep, ReadyTypes DEF TokensKept, TokenOK

LEMMA TokensOfReadFails ==
  ASSUME LifeInv, NEW w \in Pool, readFails(w)
  PROVE  TokensKept
<1>1. PICK c : c = busy[w].conn
  OBVIOUS
<1>2. /\ c \in Conns /\ Runs(w, c) /\ w = home[c] /\ IsReading(c) /\ obj[c] = "live"
      /\ c \notin reads /\ ~Deferred(c)
  BY <1>1, RunningIs DEF readFails
<1>3. UNCHANGED <<home, tq>>
  BY DEF readFails
<1>4. (\A u : ~Runs(u, c)') /\ \A u, d : d # c => (Runs(u, d)' <=> Runs(u, d))
  BY <1>2, DoneRuns DEF readFails
<1>5. /\ flags \in [Conns -> SUBSET ConnFlags] /\ ready \in [Pool -> Seq(Waiting)]
      /\ obj \in [Conns -> {"none", "accepting", "live", "deleted", "leaked"}]
  BY DEF LifeInv, HttpTypeOK, ConnTypes, WorkTypes, ConnFlags
<1>6. PICK hs, who : hs = Aborted(c) /\ close(c, who, ready[w])
  BY <1>1 DEF readFails
<1>7. /\ Moved(w, 0, hs) /\ c \notin reads'
      /\ \A d \in Conns : d # c =>
           open'[d] = open[d] /\ writes'[d] = writes[d] /\ (d \in reads' <=> d \in reads)
  <2>1. ClosedIn(c, 0, who)
    BY <1>2, <1>6 DEF ClosedIn
  <2> QED
    BY <1>2, <1>6, <2>1, CloseMoves
<1>8. flags' = [flags EXCEPT ![c] = flags[c] \ {"is_reading"}]
      /\ check_destroy(c, flags[c] \ {"is_reading"})
  BY <1>1 DEF readFails
<1>9. /\ \A d \in Conns : d # c => flags'[d] = flags[d] /\ obj'[d] = obj[d]
      /\ flags'[c] = flags[c] \ {"is_reading"} /\ obj'[c] \in {"live", "deleted"}
      /\ "is_writing" \in flags[c] => obj'[c] = "live"
  BY <1>2, <1>5, <1>8 DEF check_destroy
<1>10. \A j \in 1 .. Len(hs) : hs[j].conn = c /\ hs[j].kind = "write"
  BY <1>2, <1>6, AbortedIs
<1>11. Only(w, 0, hs, c)
  BY <1>3, <1>4, <1>7, <1>9, <1>10 DEF Only, Same
<1>12. NobodyWaits(c, "start") /\ NobodyWaits(c, "read") /\ TokenOK(c)
  BY <1>2, NoStart DEF LifeInv, TokenOK, ReadsOnce, IsReading
<1>13. NobodyWaits(c, "read")'
  BY <1>5, <1>7, <1>10, <1>12, WaitsKept DEF IsFor
<1>14. ReadsOnce(c)'
  <2>1. ~Deferred(c)' /\ c \notin reads'
    BY <1>2, <1>7, <1>9 DEF Deferred
  <2> QED
    BY <1>4, <1>13, <2>1 DEF ReadsOnce, NobodyWaits, OneWaits
<1>15. StartsOnce(c)'
  <2>1. \A j \in 1 .. Len(hs) : hs[j].kind # "start"
    BY <1>10
  <2> QED
    BY <1>11, <1>12, <2>1, StillNoStart
<1>16. Lives(c)'
  <2>1. IsReading(c)' \/ IsWriting(c)' => obj'[c] = "live"
    BY <1>9 DEF IsReading, IsWriting
  <2> QED
    BY <1>2, <1>3, <1>4, <1>9, <1>11, <2>1, OwnLives
<1> QED
  BY <1>11, <1>14, <1>15, <1>16, AllKeep, ReadyTypes DEF TokensKept, TokenOK

LEMMA TokensOfWritten ==
  ASSUME LifeInv, NEW w \in Pool, written(w)
  PROVE  TokensKept
<1>1. PICK c : c = Head(ready[w]).conn
  OBVIOUS
<1>2. /\ ready[w] # <<>> /\ ready[w][1].conn = c /\ c \in Conns /\ Waits(w, 1, c, "write")
      /\ w = home[c] /\ ready \in [Pool -> Seq(Waiting)]
  BY <1>1, DueIs DEF written, LifeInv, HttpTypeOK, WorkTypes
<1>3. /\ flags \in [Conns -> SUBSET ConnFlags]
      /\ obj \in [Conns -> {"none", "accepting", "live", "deleted", "leaked"}]
  BY DEF LifeInv, HttpTypeOK, ConnTypes, ConnFlags
<1>4. NobodyWaits(c, "start") /\ obj[c] \in {"live", "deleted"} /\ (IsReading(c) => obj[c] = "live")
  <2>1. ~NobodyWaits(c, "write")
    BY <1>2 DEF NobodyWaits
  <2>2. TokenOK(c)
    BY <1>2 DEF LifeInv
  <2> QED
    BY <1>2, <2>1, <2>2, NoStart DEF TokenOK, Lives
<1>5. /\ UNCHANGED <<home, tq, busy>> /\ flags' = [flags EXCEPT ![c] = flags[c] \ {"is_writing"}]
      /\ check_destroy(c, flags[c] \ {"is_writing"}) \/ obj' = obj
  BY <1>1 DEF written
<1>6. /\ \A d \in Conns : d # c => flags'[d] = flags[d] /\ obj'[d] = obj[d]
      /\ flags'[c] = flags[c] \ {"is_writing"} /\ obj'[c] \in {"live", "deleted"}
      /\ "is_reading" \in flags[c] => obj'[c] = "live"
  BY <1>2, <1>3, <1>4, <1>5 DEF check_destroy, IsReading
<1>7. /\ IsReading(c)' \/ IsWriting(c)' => obj'[c] = "live"
      /\ IsReading(c)' <=> IsReading(c)
      /\ Deferred(c)' <=> Deferred(c)
  BY <1>6 DEF IsReading, IsWriting, Deferred
<1>8. \A u, d : Runs(u, d)' <=> Runs(u, d)
  BY <1>5 DEF Runs
<1>9. CASE close(c, "asked", Tail(ready[w]))
  <2>1. ClosedIn(c, 1, "asked")
    BY <1>2, <1>9 DEF ClosedIn
  <2> QED
    BY <1>2, <1>4, <1>5, <1>6, <1>7, <1>8, <2>1, TokensOfClose
<1>10. CASE Pop(w) /\ UNCHANGED <<open, reads, writes>>
  <2>0. PICK hs : hs = <<>>
    OBVIOUS
  <2>1. Moved(w, 1, hs)
    BY <1>2, <1>10, <2>0, PopMoves
  <2>2. Only(w, 1, hs, c)
    BY <1>2, <1>5, <1>6, <1>8, <1>10, <2>0, <2>1 DEF Only, Same
  <2>3. \A u : Runs(u, c)' <=> Runs(u, c)
    BY <1>8
  <2>4. /\ home'[c] = home[c] /\ tq'[c] = tq[c] /\ (c \in reads' <=> c \in reads)
        /\ obj'[c] \in {"live", "deleted"} /\ w = home[c] /\ c \in Conns
        /\ \A j \in 1 .. Len(hs) : hs[j].kind = "write"
    BY <1>2, <1>5, <1>6, <1>10, <2>0
  <2>5. NobodyWaits(c, "start")
    BY <1>4
  <2>6. TokenOK(c)'
    BY <1>7, <2>2, <2>3, <2>4, <2>5, OwnKeep
  <2> QED
    BY <2>2, <2>6, AllKeep, ReadyTypes DEF TokensKept
<1> QED
  BY <1>1, <1>9, <1>10 DEF written

LEMMA TokensOfExpire ==
  ASSUME LifeInv, NEW w \in Pool, expire(w)
  PROVE  TokensKept
<1>1. PICK c : c = Head(dq[w]).fn
  OBVIOUS
<1>2. UNCHANGED <<obj, home, tq, flags, busy>>
  BY DEF expire
<1>3. \A u, d : Runs(u, d)' <=> Runs(u, d)
  BY <1>2 DEF Runs
<1>4. CASE c # None /\ close(c, "deadline", ready[w])
  <2>1. dq[w] \in Seq(Entries) /\ dq[w] # <<>>
    BY DEF LifeInv, HttpTypeOK, TimerTypes, expire, FrontExpired
  <2>2. dq[w][1].fn = c /\ c \in Conns /\ 1 \in 1 .. Len(dq[w])
    <3>1. dq[w][1] \in Entries /\ dq[w][1] = Head(dq[w]) /\ 1 \in 1 .. Len(dq[w])
      BY <2>1
    <3>2. dq[w][1].fn \in Conns \cup {None}
      BY <3>1 DEF Entries
    <3> QED
      BY <1>1, <1>4, <3>1, <3>2
  <2>3. EntryAt(w, 1, c)
    BY <2>2 DEF EntryAt
  <2>4. w = home[c] /\ IsReading(c) /\ obj[c] = "live"
    BY <2>2, <2>3 DEF LifeInv, TimerOK, TokenOK, Lives
  <2>5. ClosedIn(c, 0, "deadline")
    BY <1>4, <2>4 DEF ClosedIn
  <2>6. NobodyWaits(c, "start")
    BY <2>2, <2>4, NoStart DEF IsReading
  <2>7. /\ IsReading(c)' \/ IsWriting(c)' => obj'[c] = "live"
        /\ (IsReading(c)' <=> IsReading(c)) /\ (Deferred(c)' <=> Deferred(c))
        /\ obj'[c] \in {"live", "deleted"}
        /\ \A d \in Conns : d # c => flags'[d] = flags[d] /\ obj'[d] = obj[d]
    BY <1>2, <2>4 DEF IsReading, Deferred
  <2> QED
    BY <1>2, <1>3, <2>2, <2>5, <2>6, <2>7, TokensOfClose
<1>5. CASE UNCHANGED <<open, reads, writes, ready>>
  BY <1>2, <1>3, <1>5, TokensOfIdle
<1> QED
  BY <1>1, <1>4, <1>5 DEF expire

LEMMA TokensOfEnd ==
  ASSUME LifeInv, NEW c \in Conns, end(c)
  PROVE  TokensKept
<1>1. /\ home[c] \in Pool /\ flags \in [Conns -> SUBSET ConnFlags] /\ ready \in [Pool -> Seq(Waiting)]
  BY DEF LifeInv, HttpTypeOK, ConnTypes, WorkTypes, ConnFlags
<1>2. /\ Deferred(c) /\ UNCHANGED <<obj, home, tq, open, busy>> /\ reads' = reads \cup {c}
  BY DEF end, Deferred
<1>3. /\ TokenOK(c) /\ IsReading(c) /\ obj[c] = "live" /\ NobodyWaits(c, "read")
      /\ \A w : ~Runs(w, c)
  BY <1>2 DEF LifeInv, TokenOK, ReadsOnce, Lives
<1>4. PICK left : left = flags[c] \ {"need_to_call_after_handlers_",
                                     "need_to_start_read_after_complete_"}
  OBVIOUS
<1>5. left \in SUBSET ConnFlags /\ \E chunks : complete_request(c, chunks, left)
  BY <1>1, <1>4 DEF end
<1>6. PICK hs : /\ Moved(home[c], 0, hs)
                /\ \A j \in 1 .. Len(hs) : hs[j].conn = c /\ hs[j].kind = "write"
                /\ \A d \in Conns \ {c} : flags'[d] = flags[d] /\ writes'[d] = writes[d]
                /\ flags'[c] \in {left, left \cup {"is_writing"}}
  BY <1>5, WriteMoves
<1>7. \A u, d : Runs(u, d)' <=> Runs(u, d)
  BY <1>2 DEF Runs
<1>8. Only(home[c], 0, hs, c)
  BY <1>2, <1>6, <1>7 DEF Only, Same
<1>9. IsReading(c)' /\ ~Deferred(c)'
  BY <1>3, <1>4, <1>6 DEF IsReading, Deferred
<1>10. NobodyWaits(c, "read")'
  BY <1>1, <1>3, <1>6, WaitsKept DEF IsFor
<1>11. ReadsOnce(c)'
  <2>1. \A w : ~Runs(w, c)'
    BY <1>3, <1>7
  <2> QED
    BY <1>9, <1>10, <2>1 DEF ReadsOnce, NobodyWaits, OneWaits
<1>12. NobodyWaits(c, "start")
  BY <1>3, NoStart DEF IsReading
<1>13. StartsOnce(c)'
  <2>1. \A j \in 1 .. Len(hs) : hs[j].kind # "start"
    BY <1>6
  <2> QED
    BY <1>8, <1>12, <2>1, StillNoStart
<1>14. Lives(c)'
  <2>1. \A w : Runs(w, c)' => w = home[c]
    BY <1>3, <1>7
  <2> QED
    BY <1>2, <1>3, <1>8, <2>1, OwnLives
<1> QED
  BY <1>8, <1>11, <1>13, <1>14, AllKeep, ReadyTypes DEF TokensKept, TokenOK

LEMMA TokensOfReceive ==
  ASSUME LifeInv, NEW c \in Conns, Receive(c) \/ ReceiveEof(c)
  PROVE  TokensKept
<1>1. /\ home[c] \in Pool /\ ready \in [Pool -> Seq(Waiting)] /\ net[c] \in Seq(Pieces)
      /\ c \in reads /\ TokenOK(c)
  BY DEF LifeInv, HttpTypeOK, ConnTypes, WorkTypes, ClientTypes, Receive, ReceiveEof
<1>2. UNCHANGED <<obj, home, tq, open, flags, writes, busy>> /\ reads' = reads \ {c}
  BY DEF Receive, ReceiveEof
<1>3. \E h \in Waiting : h.conn = c /\ h.kind = "read" /\ Queue(c, <<h>>)
  <2>1. \E ok \in BOOLEAN, rest \in Seq(Pieces) : Queue(c, <<Handler("read", c, ok, rest)>>)
    <3>1. CASE Receive(c)
      <4>1. PICK n \in 1 .. Len(net[c]) : Queue(c, <<Handler("read", c, TRUE, SubSeq(net[c], 1, n))>>)
        BY <3>1 DEF Receive
      <4>2. SubSeq(net[c], 1, n) \in Seq(Pieces)
        BY <1>1
      <4> QED
        BY <4>1, <4>2
    <3>2. CASE ReceiveEof(c)
      <4>1. Queue(c, <<Handler("read", c, FALSE, <<>>)>>)
        BY <3>2 DEF ReceiveEof
      <4>2. <<>> \in Seq(Pieces)
        OBVIOUS
      <4> QED
        BY <4>1, <4>2
    <3> QED
      BY <3>1, <3>2
  <2>2. PICK ok \in BOOLEAN, rest \in Seq(Pieces) : Queue(c, <<Handler("read", c, ok, rest)>>)
    BY <2>1
  <2>3. Handler("read", c, ok, rest) \in Waiting /\ Handler("read", c, ok, rest).conn = c
        /\ Handler("read", c, ok, rest).kind = "read"
    BY NoneAssumption DEF Handler, Waiting, Handlers
  <2> QED
    BY <2>2, <2>3
<1>4. PICK h \in Waiting : h.conn = c /\ h.kind = "read" /\ Queue(c, <<h>>)
  BY <1>3
<1>5. PICK hs : hs = <<h>>
  OBVIOUS
<1>6. hs \in Seq(Waiting) /\ Len(hs) = 1 /\ \A j \in 1 .. Len(hs) : hs[j] = h /\ j = 1
  BY <1>4, <1>5
<1>7. Moved(home[c], 0, hs)
  BY <1>1, <1>4, <1>5, <1>6, QueueMoves
<1>8. \A u, d : Runs(u, d)' <=> Runs(u, d)
  BY <1>2 DEF Runs
<1>9. Only(home[c], 0, hs, c)
  BY <1>2, <1>4, <1>6, <1>7, <1>8 DEF Only, Same
<1>10. IsReading(c) /\ obj[c] = "live"
  BY <1>1 DEF TokenOK, ReadsOnce, Lives
<1>11. /\ (IsReading(c)' <=> IsReading(c)) /\ (Deferred(c)' <=> Deferred(c))
       /\ c \notin reads' /\ obj'[c] = "live"
  BY <1>2, <1>10 DEF IsReading, Deferred
<1>12. /\ \A j \in 1 .. Len(hs) : hs[j].kind # "start"
       /\ \A i, j \in 1 .. Len(hs) : IsFor(hs[i], c, "read") /\ IsFor(hs[j], c, "read") => i = j
  BY <1>4, <1>6
<1>13. TokenOK(c)'
  BY <1>1, <1>2, <1>8, <1>9, <1>11, <1>12, OwnRead
<1> QED
  BY <1>9, <1>13, AllKeep, ReadyTypes DEF TokensKept

LEMMA TokensOfSend ==
  ASSUME LifeInv, NEW c \in Conns, Send(c) \/ SendFails(c)
  PROVE  TokensKept
<1>1. /\ home[c] \in Pool /\ ready \in [Pool -> Seq(Waiting)] /\ OfConns(writes)
      /\ writes[c] # <<>> /\ TokenOK(c)
  BY DEF LifeInv, HttpTypeOK, ConnTypes, WorkTypes, Send, SendFails
<1>2. UNCHANGED <<obj, home, tq, open, flags, reads, busy>>
  BY DEF Send, SendFails
<1>3. \A d \in Conns : d # c => writes'[d] = writes[d]
  BY <1>1 DEF Send, SendFails, OfConns
<1>4. \E hs \in Seq(Waiting) : /\ \A j \in 1 .. Len(hs) : hs[j].conn = c /\ hs[j].kind = "write"
                               /\ Queue(c, hs)
  <2>1. CASE Queue(c, <<>>)
    <3>1. <<>> \in Seq(Waiting) /\ \A j \in 1 .. Len(<<>>) : FALSE
      OBVIOUS
    <3> QED
      BY <2>1, <3>1
  <2>2. CASE \E ok \in BOOLEAN : Queue(c, <<Handler("write", c, ok, <<>>)>>)
    <3>1. PICK ok \in BOOLEAN : Queue(c, <<Handler("write", c, ok, <<>>)>>)
      BY <2>2
    <3>2. PICK h : h = Handler("write", c, ok, <<>>)
      OBVIOUS
    <3>3. <<>> \in Seq(Pieces)
      OBVIOUS
    <3>4. h \in Waiting /\ h.conn = c /\ h.kind = "write"
      BY <3>2, <3>3, NoneAssumption DEF Handler, Waiting, Handlers
    <3>5. <<h>> \in Seq(Waiting) /\ Len(<<h>>) = 1 /\ <<h>>[1] = h
      BY <3>4
    <3>6. \A j \in 1 .. Len(<<h>>) : <<h>>[j].conn = c /\ <<h>>[j].kind = "write"
      BY <3>4, <3>5
    <3> QED
      BY <3>1, <3>2, <3>5, <3>6
  <2> QED
    BY <2>1, <2>2 DEF Send, SendFails
<1>5. PICK hs \in Seq(Waiting) : /\ \A j \in 1 .. Len(hs) : hs[j].conn = c /\ hs[j].kind = "write"
                                 /\ Queue(c, hs)
  BY <1>4
<1>6. Moved(home[c], 0, hs)
  BY <1>1, <1>5, QueueMoves
<1>7. \A u, d : Runs(u, d)' <=> Runs(u, d)
  BY <1>2 DEF Runs
<1>8. Only(home[c], 0, hs, c)
  BY <1>2, <1>3, <1>5, <1>6, <1>7 DEF Only, Same
<1>9. obj[c] \in {"live", "deleted"}
  BY <1>1 DEF TokenOK, Lives, LifeInv, HttpTypeOK, ConnTypes
<1>10. /\ (IsReading(c)' <=> IsReading(c)) /\ (Deferred(c)' <=> Deferred(c))
       /\ (c \in reads' <=> c \in reads) /\ obj'[c] \in {"live", "deleted"}
       /\ (IsReading(c)' \/ IsWriting(c)' => obj'[c] = "live")
  BY <1>1, <1>2, <1>9 DEF IsReading, IsWriting, Deferred, TokenOK, Lives
<1>11. NobodyWaits(c, "start")
  BY <1>1, NoStart
<1>12. TokenOK(c)'
  BY <1>2, <1>5, <1>7, <1>8, <1>10, <1>11, OwnKeep
<1> QED
  BY <1>8, <1>12, AllKeep, ReadyTypes DEF TokensKept

\* do_accept() changes c and the Connection it allocates.
LEMMA AcceptMoves ==
  ASSUME LifeInv, NEW c \in Conns \cup {None}, NEW s, s # "none" \/ c = None, do_accept(c, s)
  PROVE  /\ \A d \in Conns : d # c =>
              \/ obj'[d] = obj[d] /\ home'[d] = home[d] /\ tq'[d] = tq[d]
              \/ obj[d] = "none" /\ obj'[d] = "accepting" /\ home'[d] = tq'[d]
         /\ c \in Conns => obj'[c] = s /\ home'[c] = home[c] /\ tq'[c] = tq[c]
<1> DEFINE done == [d \in Conns |-> IF d = c THEN s ELSE obj[d]]
<1>1. /\ obj \in [Conns -> {"none", "accepting", "live", "deleted", "leaked"}]
      /\ home \in [Conns -> Pool] /\ tq \in [Conns -> Pool]
  BY DEF LifeInv, HttpTypeOK, ConnTypes
<1>2. c = None => c \notin Conns
  BY NoneAssumption
<1>3. (\A d \in Conns : done[d] = IF d = c THEN s ELSE obj[d]) /\ DOMAIN done = Conns
  OBVIOUS
<1>4. \/ \E d \in Conns : /\ done[d] = "none"
                          /\ obj' = [done EXCEPT ![d] = "accepting"]
                          /\ home' = [home EXCEPT ![d] = NextWorker]
                          /\ tq' = [tq EXCEPT ![d] = NextWorker]
      \/ obj' = done /\ UNCHANGED <<home, tq>>
  BY DEF do_accept
<1> HIDE DEF done
<1>5. CASE obj' = done /\ UNCHANGED <<home, tq>>
  BY <1>3, <1>5
<1>6. CASE \E d \in Conns : /\ done[d] = "none"
                            /\ obj' = [done EXCEPT ![d] = "accepting"]
                            /\ home' = [home EXCEPT ![d] = NextWorker]
                            /\ tq' = [tq EXCEPT ![d] = NextWorker]
  <2>1. PICK e \in Conns : /\ done[e] = "none"
                           /\ obj' = [done EXCEPT ![e] = "accepting"]
                           /\ home' = [home EXCEPT ![e] = NextWorker]
                           /\ tq' = [tq EXCEPT ![e] = NextWorker]
    BY <1>6
  <2>2. e # c /\ obj[e] = "none"
    BY <1>2, <1>3, <2>1
  <2>3. obj'[e] = "accepting" /\ home'[e] = NextWorker /\ tq'[e] = NextWorker
    BY <1>1, <1>3, <2>1
  <2>4. \A d \in Conns : d # e => obj'[d] = done[d] /\ home'[d] = home[d] /\ tq'[d] = tq[d]
    BY <1>1, <1>3, <2>1
  <2> QED
    BY <1>3, <2>2, <2>3, <2>4
<1> QED
  BY <1>4, <1>5, <1>6

\* A Connection that is none, accepted or forgotten is known to nobody.
LEMMA Unknown ==
  ASSUME LifeInv, NEW c \in Conns, obj[c] \in {"none", "accepting", "leaked"}
  PROVE  /\ flags[c] = {} /\ ~open[c] /\ writes[c] = <<>> /\ c \notin reads /\ home[c] = tq[c]
         /\ NobodyWaits(c, "start") /\ NobodyWaits(c, "read") /\ NobodyWaits(c, "write")
         /\ \A w : ~Runs(w, c)
         /\ \A w, i : ~EntryAt(w, i, c)
BY DEF LifeInv, TokenOK, Lives, ReadsOnce, IsReading, NobodyWaits, TimerOK

LEMMA TokensOfStartAccepting ==
  ASSUME LifeInv, StartAccepting
  PROVE  TokensKept
<1>1. UNCHANGED <<flags, open, writes, reads, ready, busy>>
  BY DEF StartAccepting
<1>2. \A d \in Conns : \/ obj'[d] = obj[d] /\ home'[d] = home[d] /\ tq'[d] = tq[d]
                       \/ obj[d] = "none" /\ obj'[d] = "accepting" /\ home'[d] = tq'[d]
  BY AcceptMoves, NoneAssumption DEF StartAccepting
<1>3. \A u, d : Runs(u, d)' <=> Runs(u, d)
  BY <1>1 DEF Runs
<1>4. Moved(0, 0, <<>>)
  BY <1>1, NothingMoves, PoolIs DEF LifeInv, HttpTypeOK, WorkTypes
<1>5. Only(0, 0, <<>>, None)
  BY <1>1, <1>2, <1>3, <1>4 DEF Only, Same
<1> QED
  BY <1>5, TokensOfNobody

LEMMA TokensOfAcceptFails ==
  ASSUME LifeInv, NEW c \in Conns, AcceptFails(c)
  PROVE  TokensKept
<1>1. UNCHANGED <<flags, open, writes, reads, ready, busy>> /\ obj[c] = "accepting"
  BY DEF AcceptFails
<1>2. /\ \A d \in Conns : d # c =>
           \/ obj'[d] = obj[d] /\ home'[d] = home[d] /\ tq'[d] = tq[d]
           \/ obj[d] = "none" /\ obj'[d] = "accepting" /\ home'[d] = tq'[d]
      /\ obj'[c] = "leaked" /\ home'[c] = home[c] /\ tq'[c] = tq[c]
  BY AcceptMoves DEF AcceptFails
<1>3. \A u, d : Runs(u, d)' <=> Runs(u, d)
  BY <1>1 DEF Runs
<1>4. /\ flags[c] = {} /\ ~open[c] /\ writes[c] = <<>> /\ c \notin reads /\ home[c] = tq[c]
      /\ NobodyWaits(c, "start") /\ NobodyWaits(c, "read") /\ NobodyWaits(c, "write")
      /\ \A w : ~Runs(w, c)
  BY <1>1, Unknown
<1>5. Moved(0, 0, <<>>)
  BY <1>1, NothingMoves, PoolIs DEF LifeInv, HttpTypeOK, WorkTypes
<1>6. Only(0, 0, <<>>, c)
  BY <1>1, <1>2, <1>3, <1>5 DEF Only, Same
<1>7. \A k : NobodyWaits(c, k)' <=> NobodyWaits(c, k)
  BY <1>1 DEF NobodyWaits, Waits
<1>8. \A w : ~Runs(w, c)'
  BY <1>3, <1>4
<1>9. ~IsReading(c)' /\ ~IsWriting(c)' /\ ~Deferred(c)'
  BY <1>1, <1>4 DEF IsReading, IsWriting, Deferred
<1>10. ReadsOnce(c)'
  BY <1>1, <1>4, <1>7, <1>8, <1>9 DEF ReadsOnce, NobodyWaits, OneWaits
<1>11. StartsOnce(c)'
  BY <1>4, <1>7 DEF StartsOnce, NobodyWaits, OneWaits
<1>12. Lives(c)'
  <2>1. NobodyWaits(c, "start")' /\ NobodyWaits(c, "read")' /\ NobodyWaits(c, "write")'
    BY <1>4, <1>7
  <2>2. /\ IsReading(c)' \/ IsWriting(c)' => obj'[c] = "live"
        /\ flags'[c] = {} /\ ~open'[c] /\ writes'[c] = <<>> /\ home'[c] = tq'[c]
    BY <1>1, <1>2, <1>4, <1>9
  <2> QED
    BY <1>8, <2>1, <2>2 DEF Lives, NobodyWaits
<1> QED
  BY <1>6, <1>10, <1>11, <1>12, AllKeep, ReadyTypes DEF TokensKept, TokenOK

LEMMA TokensOfAccept ==
  ASSUME LifeInv, NEW c \in Conns, Accept(c)
  PROVE  TokensKept
<1>1. UNCHANGED <<flags, writes, reads, busy>> /\ obj[c] = "accepting"
      /\ open' = [open EXCEPT ![c] = TRUE] /\ Queue(c, <<Handler("start", c, TRUE, <<>>)>>)
  BY DEF Accept
<1>2. /\ \A d \in Conns : d # c =>
           \/ obj'[d] = obj[d] /\ home'[d] = home[d] /\ tq'[d] = tq[d]
           \/ obj[d] = "none" /\ obj'[d] = "accepting" /\ home'[d] = tq'[d]
      /\ obj'[c] = "live" /\ home'[c] = home[c] /\ tq'[c] = tq[c]
  BY AcceptMoves DEF Accept
<1>3. \A u, d : Runs(u, d)' <=> Runs(u, d)
  BY <1>1 DEF Runs
<1>4. /\ flags[c] = {} /\ ~open[c] /\ writes[c] = <<>> /\ c \notin reads /\ home[c] = tq[c]
      /\ NobodyWaits(c, "start") /\ NobodyWaits(c, "read") /\ NobodyWaits(c, "write")
      /\ \A w : ~Runs(w, c)
  BY <1>1, Unknown
<1>5. /\ home[c] \in Pool /\ ready \in [Pool -> Seq(Waiting)] /\ open \in [Conns -> BOOLEAN]
  BY DEF LifeInv, HttpTypeOK, ConnTypes, WorkTypes
<1>6. PICK h : h = Handler("start", c, TRUE, <<>>)
  OBVIOUS
<1>7. h \in Waiting /\ h.conn = c /\ h.kind = "start"
  <2>1. <<>> \in Seq(Pieces)
    OBVIOUS
  <2> QED
    BY <1>6, <2>1, NoneAssumption DEF Handler, Waiting, Handlers
<1>8. PICK hs : hs = <<h>>
  OBVIOUS
<1>9. hs \in Seq(Waiting) /\ Len(hs) = 1 /\ \A j \in 1 .. Len(hs) : hs[j] = h /\ j = 1
  BY <1>7, <1>8
<1>10. Moved(home[c], 0, hs)
  <2>1. Queue(c, hs)
    BY <1>1, <1>6, <1>8
  <2> QED
    BY <1>5, <1>9, <2>1, QueueMoves
<1>11. Only(home[c], 0, hs, c)
  BY <1>1, <1>2, <1>3, <1>5, <1>7, <1>9, <1>10 DEF Only, Same
<1>12. NobodyWaits(c, "read")' /\ NobodyWaits(c, "write")'
  <2>1. \A j \in 1 .. Len(hs) : ~IsFor(hs[j], c, "read") /\ ~IsFor(hs[j], c, "write")
    BY <1>7, <1>9 DEF IsFor
  <2> QED
    BY <1>4, <1>5, <1>10, <2>1, WaitsKept
<1>13. OneWaits(c, "start")'
  <2>1. \A i, j \in 1 .. Len(hs) : IsFor(hs[i], c, "start") /\ IsFor(hs[j], c, "start") => i = j
    BY <1>9
  <2> QED
    BY <1>4, <1>5, <1>10, <2>1, WaitsAdded
<1>14. \A w : ~Runs(w, c)'
  BY <1>3, <1>4
<1>15. ~IsReading(c)' /\ ~IsWriting(c)' /\ ~Deferred(c)'
  BY <1>1, <1>4 DEF IsReading, IsWriting, Deferred
<1>16. ReadsOnce(c)'
  BY <1>1, <1>4, <1>12, <1>14, <1>15 DEF ReadsOnce, NobodyWaits, OneWaits
<1>17. StartsOnce(c)'
  BY <1>1, <1>2, <1>4, <1>12, <1>13 DEF StartsOnce
<1>18. Lives(c)'
  BY <1>2, <1>11, <1>14, OwnLives
<1> QED
  BY <1>11, <1>16, <1>17, <1>18, AllKeep, ReadyTypes DEF TokensKept, TokenOK

LEMMA TokensOfSecond ==
  ASSUME LifeInv, Second
  PROVE  TokensKept
<1>1. UNCHANGED <<obj, home, tq, open, flags, reads, writes, busy>>
  BY DEF Second, connVars
<1>2. PICK p : p = Handler("process", None, TRUE, <<>>)
  OBVIOUS
<1>3. p.conn = None /\ p.kind = "process" /\ p \in Waiting
  <2>1. <<>> \in Seq(Pieces)
    OBVIOUS
  <2> QED
    BY <1>2, <2>1 DEF Handler, Waiting, Handlers
<1>4. ready \in [Pool -> Seq(Waiting)]
      /\ \A w \in Pool : ready'[w] = ready[w] \/ ready'[w] = Append(ready[w], p)
  BY <1>2 DEF Second, LifeInv, HttpTypeOK, WorkTypes
<1>5. ASSUME NEW w, NEW i, NEW c \in Conns, NEW k
      PROVE  Waits(w, i, c, k)' <=> Waits(w, i, c, k)
  <2>1. c # None
    BY NoneAssumption
  <2>2. CASE w \notin Pool
    BY <2>2 DEF Waits
  <2>3. CASE w \in Pool /\ ready'[w] = ready[w]
    BY <2>3 DEF Waits
  <2>4. CASE w \in Pool /\ ready'[w] = Append(ready[w], p)
    <3>1. PICK n : n = Len(ready[w])
      OBVIOUS
    <3>2. /\ n \in Nat /\ Len(ready'[w]) = n + 1 /\ ready'[w][n + 1] = p
          /\ \A j \in 1 .. n : ready'[w][j] = ready[w][j]
      BY <1>4, <2>4, <3>1, AppendProperties
    <3>3. CASE i \in 1 .. n
      BY <3>1, <3>2, <3>3 DEF Waits
    <3>4. CASE i = n + 1
      BY <1>3, <2>1, <3>1, <3>2, <3>4 DEF Waits
    <3>5. CASE i \notin 1 .. n /\ i # n + 1
      <4>1. i \notin 1 .. n + 1
        BY <3>2, <3>5
      <4> QED
        BY <3>1, <3>2, <3>5, <4>1 DEF Waits
    <3> QED
      BY <3>3, <3>4, <3>5
  <2> QED
    BY <1>4, <2>2, <2>3, <2>4
<1>6. \A u, d : Runs(u, d)' <=> Runs(u, d)
  BY <1>1 DEF Runs
<1>7. ASSUME NEW c \in Conns
      PROVE  TokenOK(c)'
  <2>1. TokenOK(c)
    BY DEF LifeInv
  <2>2. \A k : (NobodyWaits(c, k)' <=> NobodyWaits(c, k)) /\ (OneWaits(c, k)' <=> OneWaits(c, k))
    BY <1>5 DEF NobodyWaits, OneWaits
  <2>3. ReadsOnce(c)'
    BY <1>1, <1>6, <2>1, <2>2 DEF TokenOK, ReadsOnce, IsReading, Deferred
  <2>4. StartsOnce(c)'
    BY <1>1, <2>1, <2>2 DEF TokenOK, StartsOnce
  <2>5. Lives(c)'
    BY <1>1, <1>5, <1>6, <2>1 DEF TokenOK, Lives, IsReading, IsWriting
  <2> QED
    BY <2>3, <2>4, <2>5 DEF TokenOK
<1>8. ready' \in [Pool -> Seq(Waiting)]
  <2>1. ASSUME NEW w \in Pool
        PROVE  ready'[w] \in Seq(Waiting)
    <3>1. ready[w] \in Seq(Waiting) /\ p \in Waiting
      BY <1>3, <1>4
    <3>2. Append(ready[w], p) \in Seq(Waiting)
      BY <3>1, AppendProperties
    <3> QED
      BY <1>4, <3>1, <3>2
  <2>2. ready' = [w \in Pool |-> ready'[w]]
    <3>1. ready' = [w \in Pool |-> IF Armed(w) THEN Append(ready[w], p) ELSE ready[w]]
      BY <1>2 DEF Second
    <3> QED
      BY <3>1
  <2> QED
    BY <2>1, <2>2
<1> QED
  BY <1>7, <1>8 DEF TokensKept

LEMMA TokensInit ==
  ASSUME Init
  PROVE  \A c \in Conns : TokenOK(c)
<1> SUFFICES ASSUME NEW c \in Conns
             PROVE  TokenOK(c)
  OBVIOUS
<1>1. \A k : NobodyWaits(c, k) /\ OneWaits(c, k)
  BY DEF Init, NobodyWaits, OneWaits, Waits
<1>2. (\A w : ~Runs(w, c)) /\ flags[c] = {} /\ reads = {}
  BY DEF Init, Runs
<1> QED
  BY <1>1, <1>2
     DEF Init, TokenOK, ReadsOnce, StartsOnce, Lives, NobodyWaits, IsReading, IsWriting, Deferred

LEMMA TokensStep ==
  ASSUME LifeInv, Next
  PROVE  TokensKept
<1>1. CASE \E w \in Pool : StartWorker(w)
  <2>1. UNCHANGED <<flags, open, writes, reads, ready, obj, home, tq, busy>>
    BY <1>1 DEF StartWorker, connVars
  <2> QED
    BY <2>1, TokensOfIdle DEF Runs
<1>2. CASE \E w \in Pool : Work(w)
  BY <1>2, TokensOfPick, TokensOfStart, TokensOfFeedHead, TokensOfHandle, TokensOfHandleThrows,
     TokensOfFeedJunk,
     TokensOfReadAgain, TokensOfReadFails, TokensOfWritten, TokensOfExpire, TokensOfProcessed
     DEF Work
<1>3. CASE Stop
  <2>1. UNCHANGED <<flags, open, writes, reads, ready, obj, home, tq, busy>>
    BY <1>3 DEF Stop, connVars
  <2> QED
    BY <2>1, TokensOfIdle DEF Runs
<1>4. CASE \E c \in Conns : Accept(c) \/ AcceptFails(c) \/ end(c) \/ Network(c) \/ Client(c)
  BY <1>4, TokensOfAccept, TokensOfAcceptFails, TokensOfEnd, TokensOfReceive, TokensOfSend,
     TokensOfClient DEF Network
<1> QED
  BY <1>1, <1>2, <1>3, <1>4, TokensOfStartAccepting, TokensOfSecond DEF Next

-----------------------------------------------------------------------------
(* A deadline knows how long its Connection has been idle.                 *)

TimersKept == \A d \in Conns : TimerOK(d)'

\* cancel() empties the only entry of c and no other.
LEMMA CancelledIs ==
  ASSUME LifeInv, NEW c \in Conns
  PROVE  /\ tq[c] \in Pool /\ Cancelled(c) \in Seq(Entries)
         /\ Len(Cancelled(c)) = Len(dq[tq[c]]) /\ Len(dq[tq[c]]) \in Nat
         /\ \A i \in 1 .. Len(dq[tq[c]]) :
              /\ Cancelled(c)[i].age = dq[tq[c]][i].age
              /\ \A d \in Conns : Cancelled(c)[i].fn = d => dq[tq[c]][i].fn = d /\ d # c
<1>1. PICK q, first, k : q = dq[tq[c]] /\ first = step[tq[c]] /\ k = timerKey[c]
  OBVIOUS
<1>2. tq[c] \in Pool /\ q \in Seq(Entries) /\ first \in Nat /\ k \in Nat \cup {None}
  BY <1>1 DEF LifeInv, HttpTypeOK, ConnTypes, TimerTypes
<1>3. Cancelled(c) = Cancel(q, first, k)
  BY <1>1 DEF Cancelled
<1>4. Cancel(q, first, k) \in Seq(Entries) /\ Len(Cancel(q, first, k)) = Len(q)
  BY <1>2, CancelTypes
<1>5. ASSUME NEW i \in 1 .. Len(q)
      PROVE  /\ Cancel(q, first, k)[i].age = q[i].age
             /\ \A d \in Conns : Cancel(q, first, k)[i].fn = d => q[i].fn = d /\ d # c
  <2>1. q[i] \in Entries /\ i \in DOMAIN q
    BY <1>2, <1>5
  <2>2. Cancel(q, first, k)[i] = IF k # None /\ i = k - first + 1
                                 THEN [q[i] EXCEPT !.fn = None] ELSE q[i]
    BY <2>1 DEF Cancel
  <2>3. q[i].fn = c => k # None /\ i = k - first + 1
    <3>1. q[i].fn = c => EntryAt(tq[c], i, c)
      BY <1>1, <1>2, <1>5 DEF EntryAt
    <3>2. TimerOK(c) /\ None \notin Nat
      BY NoneAssumption DEF LifeInv
    <3>3. q[i].fn = c => k = first + i - 1
      BY <1>1, <3>1, <3>2 DEF TimerOK
    <3>4. first + i - 1 \in Nat /\ (first + i - 1) - first + 1 = i
      BY <1>2, <1>5
    <3> QED
      BY <3>2, <3>3, <3>4
  <2>4. /\ [q[i] EXCEPT !.fn = None].age = q[i].age
        /\ [q[i] EXCEPT !.fn = None].fn = None
    BY <2>1 DEF Entries
  <2>5. \A d \in Conns : d # None
    BY NoneAssumption
  <2> QED
    BY <2>2, <2>3, <2>4, <2>5
<1> QED
  BY <1>1, <1>2, <1>3, <1>4, <1>5

\* Where the deadlines are, and those that have one still read.
TimersOf(d) ==
  /\ IsReading(d) => IsReading(d)' /\ tq'[d] = tq[d]
  /\ timerKey'[d] = timerKey[d] /\ idle'[d] = idle[d]

LEMMA TimersUnchanged ==
  ASSUME LifeInv, UNCHANGED timerVars, \A d \in Conns : TimersOf(d)
  PROVE  TimersKept
BY DEF LifeInv, TimersKept, TimerOK, TimersOf, EntryAt, timerVars

LEMMA TimersCancelled ==
  ASSUME LifeInv, NEW c \in Conns, cancel_deadline_timer(c),
         \A d \in Conns : d # c => TimersOf(d)
  PROVE  TimersKept
<1>1. PICK u, q : u = tq[c] /\ q = Cancelled(c)
  OBVIOUS
<1>2. /\ u \in Pool /\ Len(q) = Len(dq[u])
      /\ \A i \in 1 .. Len(dq[u]) :
           /\ q[i].age = dq[u][i].age
           /\ \A d \in Conns : q[i].fn = d => dq[u][i].fn = d /\ d # c
  BY <1>1, CancelledIs
<1>3. /\ dq' = [dq EXCEPT ![u] = q] /\ step' = step /\ dq \in [Pool -> Seq(Entries)]
  BY <1>1 DEF cancel_deadline_timer, LifeInv, HttpTypeOK, TimerTypes
<1>4. ASSUME NEW d \in Conns, NEW w, NEW i, EntryAt(w, i, d)'
      PROVE  EntryAt(w, i, d) /\ dq'[w][i].age = dq[w][i].age /\ d # c
  <2>1. CASE w = u
    BY <1>2, <1>3, <1>4, <2>1 DEF EntryAt
  <2>2. CASE w # u
    <3>1. w \in Pool => dq'[w] = dq[w]
      BY <1>3, <2>2
    <3>2. EntryAt(w, i, d) /\ dq'[w] = dq[w]
      BY <1>4, <3>1 DEF EntryAt
    <3>3. d # c
      BY <1>1, <2>2, <3>2 DEF LifeInv, TimerOK
    <3> QED
      BY <3>2, <3>3
  <2> QED
    BY <2>1, <2>2
<1> QED
  BY <1>3, <1>4 DEF TimersKept, TimerOK, TimersOf, LifeInv

LEMMA TimersStarted ==
  ASSUME LifeInv, NEW c \in Conns, start_deadline(c), IsReading(c)', tq'[c] = tq[c],
         \A d \in Conns : d # c => /\ IsReading(d) => IsReading(d)' /\ tq'[d] = tq[d]
  PROVE  TimersKept
<1>1. PICK u, q, n : u = tq[c] /\ q = Cancelled(c) /\ n = Len(dq[u])
  OBVIOUS
<1>2. /\ u \in Pool /\ Len(q) = n /\ n \in Nat /\ q \in Seq(Entries)
      /\ \A i \in 1 .. n :
           /\ q[i].age = dq[u][i].age
           /\ \A d \in Conns : q[i].fn = d => dq[u][i].fn = d /\ d # c
  BY <1>1, CancelledIs
<1>3. PICK e : e = [fn |-> c, age |-> 0]
  OBVIOUS
<1>4. e \in Entries /\ e.fn = c /\ e.age = 0
  BY <1>3, ServerAssumption DEF Entries
<1>5. PICK r : r = Append(q, e)
  OBVIOUS
<1>6. Len(r) = n + 1 /\ r[n + 1] = e /\ \A i \in 1 .. n : r[i] = q[i]
  BY <1>2, <1>4, <1>5, AppendProperties
<1>7. /\ dq' = [dq EXCEPT ![u] = r] /\ step' = step /\ dq \in [Pool -> Seq(Entries)]
      /\ timerKey' = [timerKey EXCEPT ![c] = step[u] + n] /\ step[u] \in Nat
      /\ idle' = [idle EXCEPT ![c] = 0]
      /\ timerKey \in [Conns -> Nat \cup {None}] /\ idle \in [Conns -> 0 .. Tick]
  BY <1>1, <1>2, <1>3, <1>5 DEF start_deadline, LifeInv, HttpTypeOK, TimerTypes
<1>8. ASSUME NEW d \in Conns, NEW w, NEW i, EntryAt(w, i, d)'
      PROVE  \/ EntryAt(w, i, d) /\ dq'[w][i].age = dq[w][i].age /\ d # c
             \/ w = u /\ i = n + 1 /\ d = c /\ dq'[w][i].age = 0
  <2>1. CASE w = u
    <3>1. dq'[u] = r
      BY <1>2, <1>7
    <3>2. i \in 1 .. n + 1 /\ r[i].fn = d
      BY <1>6, <1>8, <2>1, <3>1 DEF EntryAt
    <3>3. CASE i = n + 1
      BY <1>4, <1>6, <2>1, <3>1, <3>2, <3>3
    <3>4. CASE i # n + 1
      <4>1. i \in 1 .. n
        BY <1>2, <3>2, <3>4
      <4>2. r[i] = q[i] /\ q[i].fn = d
        BY <1>6, <3>2, <4>1
      <4> QED
        BY <1>1, <1>2, <2>1, <3>1, <4>1, <4>2 DEF EntryAt
    <3> QED
      BY <3>3, <3>4
  <2>2. CASE w # u
    <3>1. w \in Pool => dq'[w] = dq[w]
      BY <1>7, <2>2
    <3>2. EntryAt(w, i, d) /\ dq'[w] = dq[w]
      BY <1>8, <3>1 DEF EntryAt
    <3>3. d # c
      BY <1>1, <2>2, <3>2 DEF LifeInv, TimerOK
    <3> QED
      BY <3>2, <3>3
  <2> QED
    BY <2>1, <2>2
<1>9. ASSUME NEW d \in Conns, NEW w, NEW i, EntryAt(w, i, d)'
      PROVE  /\ w = tq'[d] /\ timerKey'[d] = step'[w] + i - 1
             /\ dq'[w][i].age <= idle'[d] /\ IsReading(d)'
  <2>1. CASE EntryAt(w, i, d) /\ dq'[w][i].age = dq[w][i].age /\ d # c
    <3>1. w = tq[d] /\ timerKey[d] = step[w] + i - 1 /\ dq[w][i].age <= idle[d] /\ IsReading(d)
      BY <2>1 DEF LifeInv, TimerOK
    <3>2. timerKey'[d] = timerKey[d] /\ idle'[d] = idle[d]
      BY <1>7, <2>1
    <3> QED
      BY <1>7, <2>1, <3>1, <3>2
  <2>2. CASE w = u /\ i = n + 1 /\ d = c /\ dq'[w][i].age = 0
    <3>1. timerKey'[c] = step[u] + n /\ idle'[c] = 0 /\ step[u] + (n + 1) - 1 = step[u] + n
      BY <1>2, <1>7
    <3> QED
      BY <1>1, <1>7, <2>2, <3>1
  <2> QED
    BY <1>8, <1>9, <2>1, <2>2
<1> QED
  BY <1>9 DEF TimersKept, TimerOK

LEMMA TimersExpired ==
  ASSUME LifeInv, NEW w \in Pool, expire(w)
  PROVE  TimersKept
<1>1. /\ dq \in [Pool -> Seq(Entries)] /\ step \in [Pool -> Nat]
      /\ dq' = [dq EXCEPT ![w] = Tail(@)] /\ step' = [step EXCEPT ![w] = @ + 1]
      /\ UNCHANGED <<tq, flags, timerKey, idle>> /\ dq[w] # <<>>
  BY DEF expire, FrontExpired, LifeInv, HttpTypeOK, TimerTypes
<1>2. PICK n : n = Len(dq[w]) - 1
  OBVIOUS
<1>3. n \in Nat /\ Len(dq'[w]) = n /\ \A i \in 1 .. n : dq'[w][i] = dq[w][i + 1] /\ i + 1 \in 1 .. Len(dq[w])
  <2>1. dq[w] \in Seq(Entries) /\ dq[w] # <<>> /\ dq'[w] = Tail(dq[w])
    BY <1>1
  <2>2. n \in Nat /\ Len(dq'[w]) = n /\ n = Len(dq[w]) - 1 /\ Len(dq[w]) \in Nat
    BY <1>2, <2>1
  <2>3. \A i \in 1 .. n : dq'[w][i] = dq[w][i + 1]
    BY <2>1, <2>2, HeadTailProperties
  <2> QED
    BY <2>2, <2>3
<1>4. ASSUME NEW d \in Conns, NEW u, NEW i, EntryAt(u, i, d)'
      PROVE  /\ u = tq'[d] /\ timerKey'[d] = step'[u] + i - 1
             /\ dq'[u][i].age <= idle'[d] /\ IsReading(d)'
  <2>1. CASE u = w
    <3>1. i \in 1 .. n /\ EntryAt(w, i + 1, d) /\ dq'[w][i] = dq[w][i + 1]
      BY <1>3, <1>4, <2>1 DEF EntryAt
    <3>2. w = tq[d] /\ timerKey[d] = step[w] + (i + 1) - 1 /\ dq[w][i + 1].age <= idle[d] /\ IsReading(d)
      BY <3>1 DEF LifeInv, TimerOK
    <3>3. step'[w] = step[w] + 1 /\ step[w] \in Nat
      BY <1>1
    <3>4. (step[w] + 1) + i - 1 = step[w] + (i + 1) - 1
      BY <3>1, <3>3
    <3> QED
      BY <1>1, <2>1, <3>1, <3>2, <3>3, <3>4 DEF IsReading
  <2>2. CASE u # w
    <3>1. u \in Pool => dq'[u] = dq[u] /\ step'[u] = step[u]
      BY <1>1, <2>2
    <3>2. EntryAt(u, i, d) /\ dq'[u] = dq[u] /\ step'[u] = step[u]
      BY <1>4, <3>1 DEF EntryAt
    <3> QED
      BY <1>1, <3>2 DEF LifeInv, TimerOK, IsReading
  <2> QED
    BY <2>1, <2>2
<1> QED
  BY <1>4 DEF TimersKept, TimerOK

LEMMA TimersOlder ==
  ASSUME LifeInv, Second
  PROVE  TimersKept
<1> DEFINE older(n) == IF n < Tick THEN n + 1 ELSE n
<1>1. /\ dq \in [Pool -> Seq(Entries)] /\ idle \in [Conns -> 0 .. Tick]
      /\ dq' = [w \in Pool |-> [i \in DOMAIN dq[w] |-> [dq[w][i] EXCEPT !.age = older(@)]]]
      /\ idle' = [c \in Conns |-> IF obj[c] = "live" THEN older(idle[c]) ELSE 0]
      /\ UNCHANGED <<tq, flags, timerKey, step>>
  BY DEF Second, connVars, LifeInv, HttpTypeOK, TimerTypes
<1>2. \A a, b \in 0 .. Tick : a <= b => older(a) <= older(b)
  BY ServerAssumption
<1>3. ASSUME NEW d \in Conns, NEW w, NEW i, EntryAt(w, i, d)'
      PROVE  EntryAt(w, i, d) /\ dq'[w][i].age = older(dq[w][i].age) /\ dq[w][i].age \in 0 .. Tick
  <2>1. PICK q : q = [j \in 1 .. Len(dq[w]) |-> [dq[w][j] EXCEPT !.age = older(@)]]
    OBVIOUS
  <2>2. w \in Pool /\ dq[w] \in Seq(Entries) /\ dq'[w] = q /\ DOMAIN q = 1 .. Len(dq[w])
        /\ Len(dq[w]) \in Nat
    BY <1>1, <1>3, <2>1 DEF EntryAt
  <2>3. Len(dq'[w]) = Len(dq[w])
    <3>1. Len(q) = Len(dq[w])
      BY <2>1, <2>2
    <3> QED
      BY <2>2, <3>1
  <2>4. i \in 1 .. Len(dq[w]) /\ dq[w][i] \in Entries
    BY <1>3, <2>2, <2>3 DEF EntryAt
  <2>5. dq'[w][i] = [dq[w][i] EXCEPT !.age = older(@)]
    BY <2>1, <2>2, <2>4
  <2>6. dq'[w][i].fn = dq[w][i].fn /\ dq'[w][i].age = older(dq[w][i].age)
        /\ dq[w][i].age \in 0 .. Tick
    BY <2>4, <2>5 DEF Entries
  <2> QED
    BY <1>3, <2>2, <2>4, <2>6 DEF EntryAt
<1>4. ASSUME NEW d \in Conns, NEW w, NEW i, EntryAt(w, i, d)'
      PROVE  /\ w = tq'[d] /\ timerKey'[d] = step'[w] + i - 1
             /\ dq'[w][i].age <= idle'[d] /\ IsReading(d)'
  <2>1. /\ EntryAt(w, i, d) /\ dq'[w][i].age = older(dq[w][i].age) /\ dq[w][i].age \in 0 .. Tick
    BY <1>3, <1>4
  <2>2. /\ w = tq[d] /\ timerKey[d] = step[w] + i - 1 /\ dq[w][i].age <= idle[d] /\ IsReading(d)
        /\ obj[d] = "live"
    BY <2>1 DEF LifeInv, TimerOK, TokenOK, Lives
  <2>3. idle'[d] = older(idle[d]) /\ idle[d] \in 0 .. Tick
    BY <1>1, <2>2
  <2>4. older(dq[w][i].age) <= older(idle[d])
    BY <1>2, <2>1, <2>2, <2>3
  <2> HIDE DEF older
  <2> QED
    BY <1>1, <2>1, <2>2, <2>3, <2>4 DEF IsReading
<1> QED
  BY <1>4 DEF TimersKept, TimerOK

\* A step that keeps the timer queues and lets nobody stop reading.
LEMMA TimersIdle ==
  ASSUME LifeInv, UNCHANGED <<timerVars, tq>>, \A d \in Conns : IsReading(d) => IsReading(d)'
  PROVE  TimersKept
<1>1. \A d \in Conns : TimersOf(d)
  BY DEF TimersOf, timerVars
<1> QED
  BY <1>1, TimersUnchanged

LEMMA WritingReads ==
  ASSUME LifeInv, NEW c \in Conns, NEW chunks, NEW members \in SUBSET ConnFlags,
         do_write(c, chunks, members) \/ complete_request(c, chunks, members),
         IsReading(c) => "is_reading" \in members,
         NEW d \in Conns, IsReading(d)
  PROVE  IsReading(d)'
<1>1. /\ \A e \in Conns \ {c} : flags'[e] = flags[e]
      /\ flags'[c] \in {members, members \cup {"is_writing"}}
  BY WriteMoves
<1> QED
  BY <1>1 DEF IsReading

LEMMA TimersOfWork ==
  ASSUME LifeInv, NEW w \in Pool, Work(w)
  PROVE  TimersKept
<1>1. flags \in [Conns -> SUBSET ConnFlags]
  BY DEF LifeInv, HttpTypeOK, ConnTypes, ConnFlags
<1>2. CASE Pick(w) \/ FeedJunk(w) \/ processed(w)
  <2>1. UNCHANGED <<timerVars, tq, flags>>
    BY <1>2 DEF Pick, FeedJunk, processed, connVars
  <2> QED
    BY <2>1, TimersIdle DEF IsReading
<1>3. CASE start(w)
  <2>1. PICK c : c = Head(ready[w]).conn
    OBVIOUS
  <2>2. c \in Conns
    BY <1>3, <2>1, DueIs DEF start
  <2>3. /\ start_deadline(c) /\ tq' = tq
        /\ flags' = [flags EXCEPT ![c] = @ \cup {"is_reading"}]
    BY <1>3, <2>1 DEF start
  <2>4. IsReading(c)' /\ \A d \in Conns : d # c => (IsReading(d) => IsReading(d)')
    BY <1>1, <2>2, <2>3 DEF IsReading
  <2> QED
    BY <2>2, <2>3, <2>4, TimersStarted
<1>4. CASE FeedHead(w)
  <2>1. PICK c : c = busy[w].conn
    OBVIOUS
  <2>2. c \in Conns /\ flags[c] \in SUBSET ConnFlags
    BY <1>1, <1>4, <2>1, RunningIs DEF FeedHead, Feeding
  <2>3. UNCHANGED <<timerVars, tq>> /\ (flags' = flags \/ \E chunks : do_write(c, chunks, flags[c]))
    BY <1>4, <2>1 DEF FeedHead
  <2>4. ASSUME NEW d \in Conns, IsReading(d)
        PROVE  IsReading(d)'
    <3>1. CASE flags' = flags
      BY <2>4, <3>1 DEF IsReading
    <3>2. CASE \E chunks : do_write(c, chunks, flags[c])
      <4>1. IsReading(c) => "is_reading" \in flags[c]
        BY DEF IsReading
      <4> QED
        BY <2>2, <2>4, <3>2, <4>1, WritingReads
    <3> QED
      BY <2>3, <3>1, <3>2
  <2> QED
    BY <2>3, <2>4, TimersIdle
<1>5. CASE handle(w)
  <2>1. PICK c : c = busy[w].conn
    OBVIOUS
  <2>2. c \in Conns /\ flags[c] \in SUBSET ConnFlags
    BY <1>1, <1>5, <2>1, RunningIs DEF handle, Feeding
  <2>3. /\ cancel_deadline_timer(c) /\ tq' = tq
        /\ \/ flags' = [flags EXCEPT ![c] = @ \cup {"need_to_call_after_handlers_"}]
           \/ \E chunks : complete_request(c, chunks, flags[c] \cup {"close_connection_"})
           \/ \E chunks : complete_request(c, chunks, flags[c] \cup {})
    BY <1>5, <2>1 DEF handle
  <2>4. ASSUME NEW d \in Conns, IsReading(d)
        PROVE  IsReading(d)'
    <3>1. CASE flags' = [flags EXCEPT ![c] = @ \cup {"need_to_call_after_handlers_"}]
      BY <1>1, <2>4, <3>1 DEF IsReading
    <3>2. CASE \E chunks, more : /\ more \in SUBSET {"close_connection_"}
                                 /\ complete_request(c, chunks, flags[c] \cup more)
      <4>1. PICK chunks, more : /\ more \in SUBSET {"close_connection_"}
                                /\ complete_request(c, chunks, flags[c] \cup more)
        BY <3>2
      <4>2. flags[c] \cup more \in SUBSET ConnFlags
            /\ (IsReading(c) => "is_reading" \in flags[c] \cup more)
        BY <2>2, <4>1 DEF ConnFlags, IsReading
      <4> QED
        BY <2>2, <2>4, <4>1, <4>2, WritingReads
    <3> QED
      BY <2>3, <3>1, <3>2
  <2>5. timerKey \in [Conns -> Nat \cup {None}]
    BY DEF LifeInv, HttpTypeOK, TimerTypes
  <2>6. \A d \in Conns : d # c => TimersOf(d)
    BY <2>3, <2>4, <2>5 DEF TimersOf, cancel_deadline_timer
  <2> QED
    BY <2>2, <2>3, <2>6, TimersCancelled
<1>6. CASE readAgain(w)
  <2>1. PICK c : c = busy[w].conn
    OBVIOUS
  <2>2. c \in Conns /\ IsReading(c)
    BY <1>6, <2>1, RunningIs DEF readAgain
  <2>3. CASE start_deadline(c) /\ UNCHANGED <<flags, tq>>
    BY <2>2, <2>3, TimersStarted DEF IsReading
  <2>4. CASE /\ UNCHANGED <<timerVars, tq>>
             /\ flags' = [flags EXCEPT ![c] = @ \cup {"need_to_start_read_after_complete_"}]
    <3>1. \A d \in Conns : IsReading(d) => IsReading(d)'
      BY <1>1, <2>4 DEF IsReading
    <3> QED
      BY <2>4, <3>1, TimersIdle
  <2> QED
    BY <1>6, <2>1, <2>3, <2>4 DEF readAgain
<1>7. CASE readFails(w)
  <2>1. PICK c : c = busy[w].conn
    OBVIOUS
  <2>2. c \in Conns
    BY <1>7, <2>1, RunningIs DEF readFails
  <2>3. /\ cancel_deadline_timer(c) /\ tq' = tq
        /\ flags' = [flags EXCEPT ![c] = flags[c] \ {"is_reading"}]
    BY <1>7, <2>1 DEF readFails
  <2>4. timerKey \in [Conns -> Nat \cup {None}]
    BY DEF LifeInv, HttpTypeOK, TimerTypes
  <2>5. \A d \in Conns : d # c => TimersOf(d)
    BY <1>1, <2>3, <2>4 DEF TimersOf, cancel_deadline_timer, IsReading
  <2> QED
    BY <2>2, <2>3, <2>5, TimersCancelled
<1>8. CASE written(w)
  <2>1. PICK c : c = Head(ready[w]).conn
    OBVIOUS
  <2>2. c \in Conns
    BY <1>8, <2>1, DueIs DEF written
  <2>3. /\ cancel_deadline_timer(c) \/ UNCHANGED timerVars
        /\ flags' = [flags EXCEPT ![c] = flags[c] \ {"is_writing"}] /\ tq' = tq
    BY <1>8, <2>1 DEF written
  <2>4. \A d \in Conns : IsReading(d) => IsReading(d)'
    BY <1>1, <2>3 DEF IsReading
  <2>5. timerKey \in [Conns -> Nat \cup {None}]
    BY DEF LifeInv, HttpTypeOK, TimerTypes
  <2>6. CASE cancel_deadline_timer(c)
    <3>1. \A d \in Conns : d # c => TimersOf(d)
      BY <2>3, <2>4, <2>5, <2>6 DEF TimersOf, cancel_deadline_timer
    <3> QED
      BY <2>2, <2>6, <3>1, TimersCancelled
  <2>7. CASE UNCHANGED timerVars
    BY <2>3, <2>4, <2>7, TimersIdle
  <2> QED
    BY <2>3, <2>6, <2>7
<1>9. CASE handleThrows(w)
  <2>1. PICK c : c = busy[w].conn
    OBVIOUS
  <2>2. c \in Conns
    BY <1>9, <2>1, RunningIs DEF handleThrows, Feeding
  <2>3. /\ cancel_deadline_timer(c) /\ tq' = tq
        /\ \E more : flags' = [flags EXCEPT ![c] = flags[c] \cup more]
    BY <1>9, <2>1 DEF handleThrows
  <2>4. timerKey \in [Conns -> Nat \cup {None}]
    BY DEF LifeInv, HttpTypeOK, TimerTypes
  <2>5. \A d \in Conns : IsReading(d) => IsReading(d)'
    BY <1>1, <2>3 DEF IsReading
  <2>6. \A d \in Conns : d # c => TimersOf(d)
    BY <2>3, <2>4, <2>5 DEF TimersOf, cancel_deadline_timer
  <2> QED
    BY <2>2, <2>3, <2>6, TimersCancelled
<1> QED
  BY <1>2, <1>3, <1>4, <1>5, <1>6, <1>7, <1>8, <1>9, TimersExpired DEF Work

LEMMA TimersOfAccept ==
  ASSUME LifeInv, NEW c \in Conns \cup {None}, NEW s, s # "none" \/ c = None, do_accept(c, s),
         UNCHANGED <<timerVars, flags>>
  PROVE  TimersKept
<1>1. \A d \in Conns : d # c =>
        \/ tq'[d] = tq[d]
        \/ obj[d] = "none"
  BY AcceptMoves
<1>2. c \in Conns => tq'[c] = tq[c]
  BY AcceptMoves
<1>3. \A d \in Conns : IsReading(d) => obj[d] # "none"
  BY DEF LifeInv, TokenOK, Lives
<1>4. \A d \in Conns : TimersOf(d)
  BY <1>1, <1>2, <1>3 DEF TimersOf, timerVars, IsReading
<1> QED
  BY <1>4, TimersUnchanged

LEMMA TimersOfEnd ==
  ASSUME LifeInv, NEW c \in Conns, end(c)
  PROVE  TimersKept
<1>1. PICK left : left = flags[c] \ {"need_to_call_after_handlers_",
                                     "need_to_start_read_after_complete_"}
  OBVIOUS
<1>2. /\ start_deadline(c) /\ tq' = tq /\ \E chunks : complete_request(c, chunks, left)
      /\ Deferred(c)
  BY <1>1 DEF end, Deferred
<1>3. left \in SUBSET ConnFlags /\ (IsReading(c) => "is_reading" \in left) /\ IsReading(c)
  BY <1>1, <1>2 DEF IsReading, LifeInv, HttpTypeOK, ConnTypes, ConnFlags, TokenOK, ReadsOnce
<1>4. \A d \in Conns : IsReading(d) => IsReading(d)'
  BY <1>2, <1>3, WritingReads
<1> QED
  BY <1>2, <1>3, <1>4, TimersStarted

LEMMA TimersStep ==
  ASSUME LifeInv, Next
  PROVE  TimersKept
<1>1. CASE \E w \in Pool : StartWorker(w)
  BY <1>1, TimersIdle DEF StartWorker, connVars, IsReading
<1>2. CASE Stop
  BY <1>2, TimersIdle DEF Stop, connVars, IsReading
<1>3. CASE StartAccepting
  BY <1>3, TimersOfAccept, NoneAssumption DEF StartAccepting
<1>4. CASE \E c \in Conns : Accept(c) \/ AcceptFails(c)
  BY <1>4, TimersOfAccept DEF Accept, AcceptFails
<1>5. CASE \E c \in Conns : Network(c) \/ Client(c)
  <2>1. UNCHANGED <<timerVars, tq, flags>>
    BY <1>5 DEF Network, Receive, ReceiveEof, Send, SendFails, Client, SendRequest, SendBody,
            ClientLeaves, SendJunk, Leave, ClientReads, connVars
  <2> QED
    BY <2>1, TimersIdle DEF IsReading
<1> QED
  BY <1>1, <1>2, <1>3, <1>4, <1>5, TimersOfWork, TimersOfEnd, TimersOlder DEF Next

-----------------------------------------------------------------------------
(* Every step keeps the types.                                             *)

LEMMA WriteTypes ==
  ASSUME LifeInv, NEW c \in Conns, NEW chunks, NEW members \in SUBSET ConnFlags,
         do_write(c, chunks, members) \/ complete_request(c, chunks, members)
  PROVE  /\ flags' \in [Conns -> SUBSET ConnFlags] /\ OfConns(writes)' /\ OfConns(out)'
         /\ clobbered' \subseteq Conns
<1>1. flags \in [Conns -> SUBSET ConnFlags] /\ OfConns(writes) /\ OfConns(out) /\ clobbered \subseteq Conns
  BY DEF LifeInv, HttpTypeOK, ConnTypes, WorkTypes, ConnFlags
<1>2. members \cup {"is_writing"} \in SUBSET ConnFlags
  BY DEF ConnFlags
<1>3. flags' \in [Conns -> SUBSET ConnFlags] /\ clobbered' \subseteq Conns
  BY <1>1, <1>2 DEF do_write, complete_request
<1>4. \/ UNCHANGED writes \/ \E v : writes' = [writes EXCEPT ![c] = v]
  BY DEF do_write, complete_request
<1>5. \/ UNCHANGED out \/ \E v : out' = [out EXCEPT ![c] = v]
  BY DEF do_write, complete_request
<1>6. OfConns(writes)'
  BY <1>1, <1>4 DEF OfConns
<1>7. OfConns(out)'
  BY <1>1, <1>5 DEF OfConns
<1> QED
  BY <1>3, <1>6, <1>7

LEMMA CloseTypes ==
  ASSUME LifeInv, NEW c \in Conns, NEW who \in {"asked", "error", "deadline"}, NEW handlers,
         close(c, who, handlers)
  PROVE  /\ open' \in [Conns -> BOOLEAN] /\ reads' \subseteq Conns /\ OfConns(writes)'
         /\ cause' \in [Conns -> {"none", "asked", "error", "deadline"}]
<1>1. /\ open \in [Conns -> BOOLEAN] /\ reads \subseteq Conns /\ OfConns(writes)
      /\ cause \in [Conns -> {"none", "asked", "error", "deadline"}]
  BY DEF LifeInv, HttpTypeOK, ConnTypes, WorkTypes
<1>2. OfConns(writes)'
  BY <1>1 DEF close, OfConns
<1>3. reads' \subseteq Conns /\ open' \in [Conns -> BOOLEAN]
  BY <1>1 DEF close
<1>4. cause' \in [Conns -> {"none", "asked", "error", "deadline"}]
  BY <1>1 DEF close
<1> QED
  BY <1>2, <1>3, <1>4

LEMMA AcceptTypes ==
  ASSUME LifeInv, NEW c, NEW s \in {"none", "live", "leaked"}, do_accept(c, s)
  PROVE  /\ obj' \in [Conns -> {"none", "accepting", "live", "deleted", "leaked"}]
         /\ home' \in [Conns -> Pool] /\ tq' \in [Conns -> Pool] /\ roundrobin' \in Pool
<1>1. /\ obj \in [Conns -> {"none", "accepting", "live", "deleted", "leaked"}]
      /\ home \in [Conns -> Pool] /\ tq \in [Conns -> Pool] /\ roundrobin \in Pool
  BY DEF LifeInv, HttpTypeOK, ConnTypes, ServerTypes
<1>2. NextWorker \in Pool
  BY <1>1, PoolIs
<1>3. PICK done : done = [d \in Conns |-> IF d = c THEN s ELSE obj[d]]
  OBVIOUS
<1>4. done \in [Conns -> {"none", "accepting", "live", "deleted", "leaked"}]
  BY <1>1, <1>3
<1>5. \/ \E d \in Conns : /\ obj' = [done EXCEPT ![d] = "accepting"]
                          /\ home' = [home EXCEPT ![d] = NextWorker]
                          /\ tq' = [tq EXCEPT ![d] = NextWorker]
                          /\ roundrobin' = NextWorker
      \/ obj' = done /\ UNCHANGED <<home, tq, roundrobin>>
  BY <1>3 DEF do_accept
<1> QED
  BY <1>1, <1>2, <1>4, <1>5

LEMMA ServerStep ==
  ASSUME LifeInv, Next
  PROVE  ServerTypes'
<1>1. ServerTypes
  BY DEF LifeInv, HttpTypeOK
<1>2. CASE \E w \in Pool : StartWorker(w)
  BY <1>1, <1>2 DEF StartWorker, ServerTypes
<1>3. CASE StartAccepting
  <2>1. roundrobin' \in Pool
    BY <1>3, AcceptTypes DEF StartAccepting
  <2> QED
    BY <1>1, <1>3, <2>1 DEF StartAccepting, ServerTypes
<1>4. CASE Stop
  BY <1>1, <1>4 DEF Stop, ServerTypes
<1>5. CASE \E c \in Conns : Accept(c) \/ AcceptFails(c)
  <2>1. roundrobin' \in Pool
    BY <1>5, AcceptTypes DEF Accept, AcceptFails
  <2>2. UNCHANGED <<phase, queueUp>>
    BY <1>5 DEF Accept, AcceptFails
  <2> QED
    BY <1>1, <2>1, <2>2 DEF ServerTypes
<1>6. CASE UNCHANGED serverVars
  BY <1>1, <1>6 DEF serverVars, ServerTypes
<1>7. CASE (\E w \in Pool : Work(w)) \/ Second \/ \E c \in Conns : end(c) \/ Network(c) \/ Client(c)
  <2>1. UNCHANGED serverVars
    <3>1. CASE \E w \in Pool : \/ Pick(w) \/ start(w) \/ FeedHead(w) \/ handle(w)
                               \/ handleThrows(w) \/ FeedJunk(w)
      BY <3>1 DEF Pick, start, FeedHead, handle, handleThrows, FeedJunk
    <3>2. CASE \E w \in Pool : readAgain(w) \/ readFails(w) \/ written(w) \/ expire(w) \/ processed(w)
      BY <3>2 DEF readAgain, readFails, written, expire, processed
    <3>3. CASE Second \/ \E c \in Conns : end(c) \/ Network(c)
      BY <3>3 DEF Second, end, Network, Receive, ReceiveEof, Send, SendFails
    <3>4. CASE \E c \in Conns : Client(c)
      BY <3>4 DEF Client, SendRequest, SendBody, ClientLeaves, SendJunk, Leave, ClientReads
    <3> QED
      BY <1>7, <3>1, <3>2, <3>3, <3>4 DEF Work
  <2> QED
    BY <1>6, <2>1
<1> QED
  BY <1>2, <1>3, <1>4, <1>5, <1>7 DEF Next

LEMMA TimerStep ==
  ASSUME LifeInv, Next
  PROVE  TimerTypes'
<1>1. TimerTypes /\ ConnTypes
  BY DEF LifeInv, HttpTypeOK
<1>2. CASE UNCHANGED timerVars
  BY <1>1, <1>2 DEF timerVars, TimerTypes
<1>3. CASE \E c \in Conns : start_deadline(c) \/ cancel_deadline_timer(c)
  BY <1>1, <1>3, StartDeadlineTypes, CancelDeadlineTypes
<1>4. CASE \E w \in Pool : expire(w)
  <2>1. PICK w \in Pool : expire(w)
    BY <1>4
  <2>2. /\ dq' = [dq EXCEPT ![w] = Tail(@)] /\ step' = [step EXCEPT ![w] = @ + 1]
        /\ UNCHANGED <<timerKey, idle>> /\ dq[w] # <<>>
    BY <2>1 DEF expire, FrontExpired
  <2>3. Tail(dq[w]) \in Seq(Entries)
    BY <1>1, <2>2, HeadTailProperties DEF TimerTypes
  <2> QED
    BY <1>1, <2>2, <2>3 DEF TimerTypes
<1>5. CASE Second
  <2> DEFINE older(n) == IF n < Tick THEN n + 1 ELSE n
  <2>1. \A n \in 0 .. Tick : older(n) \in 0 .. Tick
    BY ServerAssumption
  <2>2. /\ dq' = [w \in Pool |-> [i \in DOMAIN dq[w] |-> [dq[w][i] EXCEPT !.age = older(@)]]]
        /\ idle' = [c \in Conns |-> IF obj[c] = "live" THEN older(idle[c]) ELSE 0]
        /\ UNCHANGED <<timerKey, step>>
    BY <1>5 DEF Second
  <2> HIDE DEF older
  <2>3. ASSUME NEW w \in Pool
        PROVE  [i \in DOMAIN dq[w] |-> [dq[w][i] EXCEPT !.age = older(@)]] \in Seq(Entries)
    <3>1. dq[w] \in Seq(Entries)
      BY <1>1 DEF TimerTypes
    <3>2. ASSUME NEW e \in Entries
          PROVE  [e EXCEPT !.age = older(@)] \in Entries
      BY <2>1 DEF Entries
    <3>3. PICK q : q = [i \in 1 .. Len(dq[w]) |-> [dq[w][i] EXCEPT !.age = older(@)]]
      OBVIOUS
    <3>4. \A i \in 1 .. Len(dq[w]) : [dq[w][i] EXCEPT !.age = older(@)] \in Entries
      BY <3>1, <3>2
    <3>5. q \in [1 .. Len(dq[w]) -> Entries]
      BY <3>3, <3>4
    <3>6. q \in Seq(Entries)
      BY <3>1, <3>5
    <3>7. DOMAIN dq[w] = 1 .. Len(dq[w])
      BY <3>1
    <3> QED
      BY <3>3, <3>6, <3>7
  <2>4. dq' \in [Pool -> Seq(Entries)]
    BY <2>2, <2>3
  <2>5. idle' \in [Conns -> 0 .. Tick]
    BY <1>1, <2>1, <2>2, ServerAssumption DEF TimerTypes
  <2> QED
    BY <1>1, <2>2, <2>4, <2>5 DEF TimerTypes
<1>6. CASE \E w \in Pool : Work(w)
  <2>1. PICK w \in Pool : Work(w)
    BY <1>6
  <2>2. start(w) => Head(ready[w]).conn \in Conns
    BY <2>1, DueIs DEF start
  <2>3. written(w) => Head(ready[w]).conn \in Conns
    BY <2>1, DueIs DEF written
  <2>4. handle(w) \/ handleThrows(w) \/ readAgain(w) \/ readFails(w) => busy[w].conn \in Conns
    BY <2>1, RunningIs DEF handle, handleThrows, readAgain, readFails, Feeding
  <2>5. \/ UNCHANGED timerVars
        \/ \E c \in Conns : start_deadline(c) \/ cancel_deadline_timer(c)
        \/ expire(w)
    BY <2>1, <2>2, <2>3, <2>4 DEF Work, Pick, start, FeedHead, handle, handleThrows, FeedJunk,
       readAgain, readFails, written, processed
  <2> QED
    BY <1>2, <1>3, <1>4, <2>5
<1>7. CASE \/ \E w \in Pool : StartWorker(w)
           \/ StartAccepting \/ Stop \/ \E c \in Conns : Accept(c) \/ AcceptFails(c) \/ Network(c) \/ Client(c)
  <2>1. UNCHANGED timerVars
    BY <1>7 DEF StartWorker, StartAccepting, Stop, Accept, AcceptFails, Network, Receive, ReceiveEof,
            Send, SendFails, Client, SendRequest, SendBody, ClientLeaves, SendJunk, Leave, ClientReads
  <2> QED
    BY <1>2, <2>1
<1>8. CASE \E c \in Conns : end(c)
  BY <1>3, <1>8 DEF end
<1> QED
  BY <1>5, <1>6, <1>7, <1>8 DEF Next

LEMMA ClientStep ==
  ASSUME LifeInv, Next
  PROVE  ClientTypes'
<1>1. ClientTypes
  BY DEF LifeInv, HttpTypeOK
<1>2. CASE \E c \in Conns, k \in Kinds : SendRequest(c, k)
  <2>1. PICK c \in Conns, k \in Kinds : SendRequest(c, k)
    BY <1>2
  <2>2. PICK n : n = Len(sent[c]) + 1
    OBVIOUS
  <2>3. n \in Nat /\ k \in Request /\ sent[c] \in Seq(Kinds) /\ net[c] \in Seq(Pieces)
    BY <1>1, <2>1, <2>2, ServerAssumption DEF ClientTypes
  <2>4. Piece("head", n, k) \in Pieces /\ Piece("tail", n, k) \in Pieces
    BY <2>3 DEF Piece, Pieces
  <2>5. <<Piece("head", n, k)>> \in Seq(Pieces)
        /\ (IF k = "expect" THEN <<>> ELSE <<Piece("tail", n, k)>>) \in Seq(Pieces)
    BY <2>4
  <2>6. Request_(c, k) \in Seq(Pieces)
    BY <2>2, <2>5 DEF Request_
  <2>7. Append(sent[c], k) \in Seq(Kinds) /\ net[c] \o Request_(c, k) \in Seq(Pieces)
    BY <2>3, <2>6
  <2>8. /\ sent' = [sent EXCEPT ![c] = Append(@, k)]
        /\ net' = [net EXCEPT ![c] = @ \o Request_(c, k)]
        /\ client' = [client EXCEPT ![c] = IF k = "expect" THEN "waiting" ELSE "up"]
        /\ got' = got
    BY <2>1 DEF SendRequest
  <2> QED
    BY <1>1, <2>7, <2>8 DEF ClientTypes, OfConns
<1>3. CASE \E c \in Conns : SendBody(c)
  <2>1. PICK c \in Conns : SendBody(c)
    BY <1>3
  <2>2. PICK p : p = Piece("tail", Len(sent[c]), "expect")
    OBVIOUS
  <2>3. p \in Pieces /\ net[c] \in Seq(Pieces)
    <3>1. Len(sent[c]) \in Nat /\ net[c] \in Seq(Pieces)
      BY <1>1 DEF ClientTypes
    <3> QED
      BY <2>2, <3>1 DEF Piece, Pieces, Request
  <2>4. Append(net[c], p) \in Seq(Pieces)
    BY <2>3
  <2>5. /\ net' = [net EXCEPT ![c] = Append(@, p)] /\ client' = [client EXCEPT ![c] = "up"]
        /\ UNCHANGED <<sent, got>>
    BY <2>1, <2>2 DEF SendBody
  <2> QED
    BY <1>1, <2>4, <2>5 DEF ClientTypes, OfConns
<1>4. CASE \E c \in Conns : ClientLeaves(c) \/ SendJunk(c)
  <2>1. PICK c \in Conns, part \in {"eof", "junk"}, now \in {"left", "silent"} : Leave(c, part, now)
    BY <1>4 DEF ClientLeaves, SendJunk
  <2>2. PICK p : p = Piece(part, 0, None)
    OBVIOUS
  <2>3. p \in Pieces /\ net[c] \in Seq(Pieces)
    BY <1>1, <2>2 DEF Piece, Pieces, ClientTypes
  <2>4. Append(net[c], p) \in Seq(Pieces)
    BY <2>3
  <2>5. /\ net' = [net EXCEPT ![c] = Append(@, p)] /\ client' = [client EXCEPT ![c] = now]
        /\ UNCHANGED <<sent, got>>
    BY <2>1, <2>2 DEF Leave
  <2> QED
    BY <1>1, <2>4, <2>5 DEF ClientTypes, OfConns
<1>5. CASE \E c \in Conns : ClientReads(c)
  <2>1. OfConns(got)'
    BY <1>1, <1>5 DEF ClientReads, ClientTypes, OfConns
  <2>2. UNCHANGED <<net, sent, client>>
    BY <1>5 DEF ClientReads
  <2> QED
    BY <1>1, <2>1, <2>2 DEF ClientTypes
<1>6. CASE \E c \in Conns : Receive(c)
  <2>1. PICK c \in Conns : Receive(c)
    BY <1>6
  <2>2. PICK n \in 1 .. Len(net[c]) : net' = [net EXCEPT ![c] = SubSeq(@, n + 1, Len(@))]
    BY <2>1 DEF Receive
  <2>3. net[c] \in Seq(Pieces)
    BY <1>1 DEF ClientTypes
  <2>4. SubSeq(net[c], n + 1, Len(net[c])) \in Seq(Pieces)
    BY <2>3
  <2>5. UNCHANGED <<sent, got, client>>
    BY <2>1 DEF Receive
  <2> QED
    BY <1>1, <2>2, <2>4, <2>5 DEF ClientTypes, OfConns
<1>7. CASE UNCHANGED clientVars
  BY <1>1, <1>7 DEF clientVars, ClientTypes, OfConns
<1>8. CASE \/ \E w \in Pool : StartWorker(w) \/ Work(w)
           \/ StartAccepting \/ Stop \/ Second
           \/ \E c \in Conns : Accept(c) \/ AcceptFails(c) \/ end(c) \/ ReceiveEof(c) \/ Send(c) \/ SendFails(c)
  <2>1. UNCHANGED clientVars
    <3>1. CASE \E w \in Pool : StartWorker(w) \/ Work(w)
      <4>1. CASE \E w \in Pool : \/ StartWorker(w) \/ Pick(w) \/ start(w) \/ FeedHead(w)
                                 \/ handle(w) \/ handleThrows(w) \/ FeedJunk(w)
        BY <4>1 DEF StartWorker, Pick, start, FeedHead, handle, handleThrows, FeedJunk
      <4>2. CASE \E w \in Pool : \/ readAgain(w) \/ readFails(w) \/ written(w) \/ expire(w)
                                 \/ processed(w)
        BY <4>2 DEF readAgain, readFails, written, expire, processed
      <4> QED
        BY <3>1, <4>1, <4>2 DEF Work
    <3>2. CASE StartAccepting \/ Stop \/ Second
      BY <3>2 DEF StartAccepting, Stop, Second
    <3>3. CASE \E c \in Conns : \/ Accept(c) \/ AcceptFails(c) \/ end(c)
                                \/ ReceiveEof(c) \/ Send(c) \/ SendFails(c)
      BY <3>3 DEF Accept, AcceptFails, end, ReceiveEof, Send, SendFails
    <3> QED
      BY <1>8, <3>1, <3>2, <3>3
  <2> QED
    BY <1>7, <2>1
<1> QED
  BY <1>2, <1>3, <1>4, <1>5, <1>6, <1>8 DEF Next, Network, Client

\* The Connection's own part of a step of a worker.
LEMMA ConnOfWork ==
  ASSUME LifeInv, NEW w \in Pool, Work(w)
  PROVE  ConnTypes'
<1>0. ConnTypes /\ (flags \in [Conns -> SUBSET ConnFlags])
  BY DEF LifeInv, HttpTypeOK, ConnTypes, ConnFlags
<1>1. CASE Pick(w) \/ FeedJunk(w) \/ processed(w)
  <2>1. UNCHANGED connVars
    BY <1>1 DEF Pick, FeedJunk, processed
  <2> QED
    BY <1>0, <2>1 DEF connVars, ConnTypes, OfConns
<1>2. CASE start(w)
  <2>1. PICK c : c = Head(ready[w]).conn
    OBVIOUS
  <2>2. c \in Conns
    BY <1>2, <2>1, DueIs DEF start
  <2>3. /\ reads' = reads \cup {c} /\ flags' = [flags EXCEPT ![c] = @ \cup {"is_reading"}]
        /\ UNCHANGED <<obj, home, tq, open, resDone, parsing, serving, writes, out>>
    BY <1>2, <2>1 DEF start
  <2> QED
    BY <1>0, <2>2, <2>3 DEF ConnTypes, OfConns, ConnFlags
<1>3. CASE FeedHead(w)
  <2>1. PICK c, p : c = busy[w].conn /\ p = Head(busy[w].rest)
    OBVIOUS
  <2>2. c \in Conns /\ p \in Pieces
    BY <1>3, <2>1, RunningIs DEF FeedHead, Feeding
  <2>3. /\ parsing' = [parsing EXCEPT ![c] = [req |-> p.req, kind |-> p.kind]]
        /\ UNCHANGED <<obj, home, tq, open, resDone, serving, reads>>
        /\ UNCHANGED <<flags, writes, out>> \/ \E chunks : do_write(c, chunks, flags[c])
    BY <1>3, <2>1 DEF FeedHead
  <2>4. [req |-> p.req, kind |-> p.kind] \in Heads
    BY <2>2 DEF Pieces, Heads
  <2>5. flags' \in [Conns -> SUBSET ConnFlags] /\ OfConns(writes)' /\ OfConns(out)'
    <3>1. CASE UNCHANGED <<flags, writes, out>>
      BY <1>0, <3>1 DEF ConnTypes, OfConns
    <3>2. CASE \E chunks : do_write(c, chunks, flags[c])
      BY <1>0, <2>2, <3>2, WriteTypes
    <3> QED
      BY <2>3, <3>1, <3>2
  <2> QED
    BY <1>0, <2>2, <2>3, <2>4, <2>5 DEF ConnTypes, ConnFlags
<1>4. CASE handle(w)
  <2>1. PICK c : c = busy[w].conn
    OBVIOUS
  <2>2. c \in Conns
    BY <1>4, <2>1, RunningIs DEF handle, Feeding
  <2>3. /\ serving' = [serving EXCEPT ![c] = parsing[c]] /\ parsing' = [parsing EXCEPT ![c] = None]
        /\ \E b \in BOOLEAN : resDone' = [resDone EXCEPT ![c] = b]
        /\ UNCHANGED <<obj, home, tq, open, reads>>
        /\ \/ /\ flags' = [flags EXCEPT ![c] = @ \cup {"need_to_call_after_handlers_"}]
              /\ UNCHANGED <<writes, out>>
           \/ \E chunks : complete_request(c, chunks, flags[c] \cup {"close_connection_"})
           \/ \E chunks : complete_request(c, chunks, flags[c] \cup {})
    <3>1. resDone' = [resDone EXCEPT ![c] =
                        parsing[c].kind # "nohost" /\ (parsing[c].kind # "later" \/ resDone[c])]
      BY <1>0, <1>4, <2>1, <2>2 DEF handle, ConnTypes
    <3>2. (parsing[c].kind # "nohost" /\ (parsing[c].kind # "later" \/ resDone[c])) \in BOOLEAN
      OBVIOUS
    <3>3. \E b \in BOOLEAN : resDone' = [resDone EXCEPT ![c] = b]
      BY <3>1, <3>2
    <3> QED
      BY <1>4, <2>1, <3>3 DEF handle
  <2>4. flags' \in [Conns -> SUBSET ConnFlags] /\ OfConns(writes)' /\ OfConns(out)'
    <3>1. CASE /\ flags' = [flags EXCEPT ![c] = @ \cup {"need_to_call_after_handlers_"}]
               /\ UNCHANGED <<writes, out>>
      BY <1>0, <3>1 DEF ConnTypes, OfConns, ConnFlags
    <3>2. CASE \E chunks, more : /\ more \in SUBSET {"close_connection_"}
                                 /\ complete_request(c, chunks, flags[c] \cup more)
      <4>1. PICK chunks, more : /\ more \in SUBSET {"close_connection_"}
                                /\ complete_request(c, chunks, flags[c] \cup more)
        BY <3>2
      <4>2. flags[c] \in SUBSET ConnFlags
        BY <1>0, <2>2
      <4>3. flags[c] \cup more \in SUBSET ConnFlags
        BY <4>1, <4>2 DEF ConnFlags
      <4> QED
        BY <2>2, <4>1, <4>3, WriteTypes
    <3> QED
      BY <2>3, <3>1, <3>2
  <2>5. resDone' \in [Conns -> BOOLEAN]
    BY <1>0, <2>3 DEF ConnTypes
  <2> QED
    BY <1>0, <2>2, <2>3, <2>4, <2>5 DEF ConnTypes, ConnFlags
<1>5. CASE readAgain(w)
  <2>1. PICK c : c = busy[w].conn
    OBVIOUS
  <2>2. c \in Conns
    BY <1>5, <2>1, RunningIs DEF readAgain
  <2>3. /\ reads' \in {reads, reads \cup {c}}
        /\ flags' \in {flags, [flags EXCEPT ![c] = @ \cup {"need_to_start_read_after_complete_"}]}
        /\ UNCHANGED <<obj, home, tq, open, resDone, parsing, serving, writes, out>>
    BY <1>5, <2>1 DEF readAgain
  <2> QED
    BY <1>0, <2>2, <2>3 DEF ConnTypes, OfConns, ConnFlags
<1>6. CASE readFails(w)
  <2>1. PICK c : c = busy[w].conn
    OBVIOUS
  <2>2. c \in Conns
    BY <1>6, <2>1, RunningIs DEF readFails
  <2>3. /\ \E who \in {"asked", "error", "deadline"} : close(c, who, ready[w])
        /\ flags' = [flags EXCEPT ![c] = flags[c] \ {"is_reading"}]
        /\ obj' \in {obj, [obj EXCEPT ![c] = "deleted"]}
        /\ UNCHANGED <<home, tq, resDone, parsing, serving, out>>
    BY <1>6, <2>1 DEF readFails, check_destroy
  <2>4. open' \in [Conns -> BOOLEAN] /\ reads' \subseteq Conns /\ OfConns(writes)'
    BY <2>2, <2>3, CloseTypes
  <2> QED
    BY <1>0, <2>2, <2>3, <2>4 DEF ConnTypes, OfConns, ConnFlags
<1>7. CASE written(w)
  <2>1. PICK c : c = Head(ready[w]).conn
    OBVIOUS
  <2>2. c \in Conns
    BY <1>7, <2>1, DueIs DEF written
  <2>3. /\ close(c, "asked", Tail(ready[w])) \/ UNCHANGED <<open, reads, writes>>
        /\ flags' = [flags EXCEPT ![c] = flags[c] \ {"is_writing"}]
        /\ resDone' = [resDone EXCEPT ![c] = FALSE]
        /\ obj' \in {obj, [obj EXCEPT ![c] = "deleted"]}
        /\ UNCHANGED <<home, tq, parsing, serving, out>>
    BY <1>7, <2>1 DEF written, check_destroy, ClearResponse
  <2>4. open' \in [Conns -> BOOLEAN] /\ reads' \subseteq Conns /\ OfConns(writes)'
    <3>1. CASE close(c, "asked", Tail(ready[w]))
      BY <2>2, <3>1, CloseTypes
    <3>2. CASE UNCHANGED <<open, reads, writes>>
      BY <1>0, <3>2 DEF ConnTypes, OfConns
    <3> QED
      BY <2>3, <3>1, <3>2
  <2> QED
    BY <1>0, <2>2, <2>3, <2>4 DEF ConnTypes, OfConns, ConnFlags
<1>8. CASE expire(w)
  <2>1. PICK c : c = Head(dq[w]).fn
    OBVIOUS
  <2>2. /\ (c # None /\ close(c, "deadline", ready[w])) \/ UNCHANGED <<open, reads, writes>>
        /\ UNCHANGED <<obj, home, tq, flags, resDone, parsing, serving, out>>
        /\ dq[w] # <<>>
    BY <1>8, <2>1 DEF expire, FrontExpired
  <2>3. c \in Conns \cup {None}
    <3>1. dq[w] \in Seq(Entries)
      BY DEF LifeInv, HttpTypeOK, TimerTypes
    <3>2. Head(dq[w]) \in Entries
      BY <2>2, <3>1
    <3> QED
      BY <2>1, <3>2 DEF Entries
  <2>4. open' \in [Conns -> BOOLEAN] /\ reads' \subseteq Conns /\ OfConns(writes)'
    <3>1. CASE c # None /\ close(c, "deadline", ready[w])
      BY <2>3, <3>1, CloseTypes
    <3>2. CASE UNCHANGED <<open, reads, writes>>
      BY <1>0, <3>2 DEF ConnTypes, OfConns
    <3> QED
      BY <2>2, <3>1, <3>2
  <2> QED
    BY <1>0, <2>2, <2>4 DEF ConnTypes, OfConns
<1>9. CASE handleThrows(w)
  <2>1. PICK c : c = busy[w].conn
    OBVIOUS
  <2>2. c \in Conns
    BY <1>9, <2>1, RunningIs DEF handleThrows, Feeding
  <2>3. /\ serving' = [serving EXCEPT ![c] = parsing[c]] /\ parsing' = [parsing EXCEPT ![c] = None]
        /\ UNCHANGED <<obj, home, tq, open, reads, writes, out>>
    BY <1>9, <2>1 DEF handleThrows
  <2>4. PICK more \in SUBSET {"close_connection_"} : flags' = [flags EXCEPT ![c] = flags[c] \cup more]
    BY <1>9, <2>1 DEF handleThrows
  <2>5. flags' \in [Conns -> SUBSET ConnFlags]
    BY <1>0, <2>2, <2>4 DEF ConnFlags
  <2>6. PICK b \in BOOLEAN : resDone' = [resDone EXCEPT ![c] = b]
    <3>1. resDone' = [resDone EXCEPT ![c] = parsing[c].kind # "nohost" /\ resDone[c]]
      BY <1>0, <1>9, <2>1, <2>2 DEF handleThrows, ConnTypes
    <3>2. (parsing[c].kind # "nohost" /\ resDone[c]) \in BOOLEAN
      OBVIOUS
    <3> QED
      BY <3>1, <3>2
  <2>7. resDone' \in [Conns -> BOOLEAN]
    BY <1>0, <2>6 DEF ConnTypes
  <2> QED
    BY <1>0, <2>2, <2>3, <2>5, <2>7 DEF ConnTypes, ConnFlags, OfConns
<1> QED
  BY <1>1, <1>2, <1>3, <1>4, <1>5, <1>6, <1>7, <1>8, <1>9 DEF Work

LEMMA ConnStep ==
  ASSUME LifeInv, Next
  PROVE  ConnTypes'
<1>0. ConnTypes /\ (flags \in [Conns -> SUBSET ConnFlags])
  BY DEF LifeInv, HttpTypeOK, ConnTypes, ConnFlags
<1>1. CASE \/ \E w \in Pool : StartWorker(w)
           \/ Stop \/ Second \/ \E c \in Conns : \/ SendBody(c) \/ ClientLeaves(c) \/ SendJunk(c)
                                                 \/ \E k \in Kinds : SendRequest(c, k)
  <2>1. UNCHANGED connVars
    BY <1>1 DEF StartWorker, Stop, Second, SendBody, ClientLeaves, SendJunk, Leave, SendRequest
  <2> QED
    BY <1>0, <2>1 DEF connVars, ConnTypes, OfConns
<1>2. CASE StartAccepting \/ \E c \in Conns : Accept(c) \/ AcceptFails(c)
  <2>1. PICK c, s : s \in {"none", "live", "leaked"} /\ do_accept(c, s)
    BY <1>2 DEF StartAccepting, Accept, AcceptFails
  <2>2. /\ obj' \in [Conns -> {"none", "accepting", "live", "deleted", "leaked"}]
        /\ home' \in [Conns -> Pool] /\ tq' \in [Conns -> Pool]
    BY <2>1, AcceptTypes
  <2>3. /\ UNCHANGED <<flags, resDone, parsing, serving, reads, writes, out>>
        /\ open' = open \/ \E d \in Conns : open' = [open EXCEPT ![d] = TRUE]
    BY <1>2 DEF StartAccepting, Accept, AcceptFails
  <2>4. open' \in [Conns -> BOOLEAN]
    BY <1>0, <2>3 DEF ConnTypes
  <2> QED
    BY <1>0, <2>2, <2>3, <2>4 DEF ConnTypes, OfConns
<1>3. CASE \E c \in Conns : end(c)
  <2>1. PICK c \in Conns : end(c)
    BY <1>3
  <2>2. PICK left : left = flags[c] \ {"need_to_call_after_handlers_",
                                       "need_to_start_read_after_complete_"}
    OBVIOUS
  <2>3. /\ \E chunks : complete_request(c, chunks, left)
        /\ resDone' = [resDone EXCEPT ![c] = TRUE] /\ reads' = reads \cup {c}
        /\ UNCHANGED <<obj, home, tq, open, parsing, serving>>
    BY <2>1, <2>2 DEF end
  <2>4. left \in SUBSET ConnFlags
    BY <1>0, <2>2 DEF ConnFlags
  <2>5. flags' \in [Conns -> SUBSET ConnFlags] /\ OfConns(writes)' /\ OfConns(out)'
    BY <2>3, <2>4, WriteTypes
  <2> QED
    BY <1>0, <2>3, <2>5 DEF ConnTypes, ConnFlags
<1>4. CASE \E c \in Conns : Receive(c) \/ ReceiveEof(c)
  <2>1. /\ \E c \in Conns : reads' = reads \ {c}
        /\ UNCHANGED <<obj, home, tq, open, flags, resDone, parsing, serving, writes, out>>
    BY <1>4 DEF Receive, ReceiveEof
  <2> QED
    BY <1>0, <2>1 DEF ConnTypes, OfConns
<1>5. CASE \E c \in Conns : Send(c) \/ SendFails(c) \/ ClientReads(c)
  <2>1. /\ writes' = writes \/ \E c \in Conns : \E v : writes' = [writes EXCEPT ![c] = v]
        /\ out' = out \/ \E c \in Conns : \E v : out' = [out EXCEPT ![c] = v]
        /\ UNCHANGED <<obj, home, tq, open, flags, resDone, parsing, serving, reads>>
    BY <1>5 DEF Send, SendFails, ClientReads
  <2>2. OfConns(writes)'
    BY <1>0, <2>1 DEF ConnTypes, OfConns
  <2>3. OfConns(out)'
    BY <1>0, <2>1 DEF ConnTypes, OfConns
  <2> QED
    BY <1>0, <2>1, <2>2, <2>3 DEF ConnTypes
<1> QED
  BY <1>1, <1>2, <1>3, <1>4, <1>5, ConnOfWork DEF Next, Network, Client

LEMMA BusyStep ==
  ASSUME LifeInv, Next
  PROVE  busy' \in [Pool -> InHand \cup {None}]
<1>0. busy \in [Pool -> InHand \cup {None}] /\ ready \in [Pool -> Seq(Waiting)]
  BY DEF LifeInv, HttpTypeOK, WorkTypes
<1>1. CASE \E w \in Pool : Pick(w)
  <2>1. PICK w \in Pool : Pick(w)
    BY <1>1
  <2>2. ready[w] \in Seq(Waiting) /\ ready[w] # <<>> /\ Head(ready[w]).kind \in {"read", "process"}
        /\ busy' = [busy EXCEPT ![w] = Head(ready[w])]
    BY <1>0, <2>1 DEF Pick, Due
  <2>3. Head(ready[w]) \in Waiting
    BY <2>2
  <2>4. Head(ready[w]) \in InHand
    BY <2>2, <2>3 DEF InHand, Waiting
  <2> QED
    BY <1>0, <2>2, <2>4
<1>2. CASE \E w \in Pool : FeedHead(w) \/ handle(w)
  BY <1>2, FedRuns DEF FeedHead, handle, Feeding, Fed
<1>3. CASE \E w \in Pool : FeedJunk(w)
  <2>1. PICK w \in Pool : FeedJunk(w)
    BY <1>3
  <2>2. busy[w] \in InHand
    BY <2>1, RunningIs DEF FeedJunk, Feeding
  <2>3. PICK b : b = [busy[w] EXCEPT !.rest = <<>>, !.ok = FALSE]
    OBVIOUS
  <2>4. busy[w] \in Handlers /\ <<>> \in Seq(Pieces)
    BY <2>2 DEF InHand, Waiting
  <2>5. b \in Handlers /\ b.conn = busy[w].conn /\ b.kind = busy[w].kind
    BY <2>3, <2>4 DEF Handlers
  <2>6. b \in InHand
    BY <2>2, <2>5 DEF InHand, Waiting
  <2>7. busy' = [busy EXCEPT ![w] = b]
    BY <1>0, <2>1, <2>3 DEF FeedJunk
  <2> QED
    BY <1>0, <2>6, <2>7
<1>4. CASE \E w \in Pool : readAgain(w) \/ readFails(w) \/ processed(w)
  BY <1>0, <1>4 DEF readAgain, readFails, processed, Done
<1>6. CASE \E w \in Pool : handleThrows(w)
  BY <1>6, ThrownRuns
<1>5. CASE \/ \E w \in Pool : StartWorker(w) \/ start(w) \/ written(w) \/ expire(w)
           \/ StartAccepting \/ Stop \/ Second
           \/ \E c \in Conns : Accept(c) \/ AcceptFails(c) \/ end(c) \/ Network(c) \/ Client(c)
  <2>1. UNCHANGED busy
    BY <1>5 DEF StartWorker, start, written, expire, StartAccepting, Stop, Second, Accept, AcceptFails,
            end, Network, Receive, ReceiveEof, Send, SendFails, Client, SendRequest, SendBody,
            ClientLeaves, SendJunk, Leave, ClientReads
  <2> QED
    BY <1>0, <2>1
<1> QED
  BY <1>1, <1>2, <1>3, <1>4, <1>5, <1>6 DEF Next, Work

\* Who closes a socket.
LEMMA CauseStep ==
  ASSUME LifeInv, Next
  PROVE  /\ cause' \in [Conns -> {"none", "asked", "error", "deadline"}]
         /\ \A c \in Conns : cause[c] # "deadline" /\ cause'[c] = "deadline" => idle[c] >= Tick
<1>0. cause \in [Conns -> {"none", "asked", "error", "deadline"}]
  BY DEF LifeInv, HttpTypeOK, WorkTypes
<1>1. CASE \E c \in Conns, who \in {"asked", "error"} : \E hs : close(c, who, hs)
  <2>1. PICK c \in Conns, who \in {"asked", "error"} : \E hs : close(c, who, hs)
    BY <1>1
  <2>2. cause' \in {cause, [cause EXCEPT ![c] = who]}
    BY <2>1 DEF close
  <2> QED
    BY <1>0, <2>1, <2>2
<1>2. CASE \E w \in Pool : expire(w)
  <2>1. PICK w \in Pool : expire(w)
    BY <1>2
  <2>2. PICK c : c = Head(dq[w]).fn
    OBVIOUS
  <2>3. /\ dq[w] # <<>> /\ Head(dq[w]).age >= Tick
        /\ cause' = cause \/ (c # None /\ cause' = [cause EXCEPT ![c] = "deadline"])
    BY <2>1, <2>2 DEF expire, FrontExpired, close
  <2>4. dq[w] \in Seq(Entries)
    BY DEF LifeInv, HttpTypeOK, TimerTypes
  <2>5. Head(dq[w]) \in Entries /\ dq[w][1] = Head(dq[w]) /\ 1 \in 1 .. Len(dq[w])
    BY <2>3, <2>4
  <2>6. c \in Conns => idle[c] >= Tick
    <3>1. c \in Conns => EntryAt(w, 1, c)
      BY <2>2, <2>5 DEF EntryAt
    <3>2. c \in Conns => dq[w][1].age <= idle[c] /\ idle[c] \in 0 .. Tick /\ dq[w][1].age \in 0 .. Tick
      BY <2>5, <3>1 DEF LifeInv, TimerOK, HttpTypeOK, TimerTypes, Entries
    <3> QED
      BY <2>3, <2>5, <3>2, ServerAssumption
  <2>7. c \in Conns \cup {None}
    BY <2>2, <2>5 DEF Entries
  <2> QED
    BY <1>0, <2>3, <2>6, <2>7
<1>3. CASE \E w \in Pool : readFails(w) \/ written(w)
  <2>1. PICK w \in Pool : readFails(w) \/ written(w)
    BY <1>3
  <2>2. CASE readFails(w)
    <3>1. busy[w].conn \in Conns
      BY <2>2, RunningIs DEF readFails
    <3>2. \E who \in {"asked", "error"} : close(busy[w].conn, who, ready[w])
      BY <2>2 DEF readFails
    <3> QED
      BY <1>1, <3>1, <3>2
  <2>3. CASE written(w)
    <3>1. Head(ready[w]).conn \in Conns
      BY <2>3, DueIs DEF written
    <3>2. cause' = cause \/ close(Head(ready[w]).conn, "asked", Tail(ready[w]))
      BY <2>3 DEF written
    <3> QED
      BY <1>0, <1>1, <3>1, <3>2
  <2> QED
    BY <2>1, <2>2, <2>3
<1>4. CASE \/ \E w \in Pool : \/ StartWorker(w) \/ Pick(w) \/ start(w) \/ FeedHead(w) \/ handle(w)
                              \/ handleThrows(w) \/ FeedJunk(w) \/ readAgain(w) \/ processed(w)
           \/ StartAccepting \/ Stop \/ Second
           \/ \E c \in Conns : Accept(c) \/ AcceptFails(c) \/ end(c) \/ Network(c) \/ Client(c)
  <2>1. UNCHANGED cause
    BY <1>4 DEF StartWorker, Pick, start, FeedHead, handle, handleThrows, FeedJunk, readAgain, processed,
            StartAccepting, Stop, Second, Accept, AcceptFails, end, Network, Receive, ReceiveEof,
            Send, SendFails, Client, SendRequest, SendBody, ClientLeaves, SendJunk, Leave, ClientReads
  <2> QED
    BY <1>0, <2>1
<1> QED
  BY <1>2, <1>3, <1>4 DEF Next, Work

LEMMA ClobberedTypes ==
  ASSUME LifeInv, Next
  PROVE  clobbered' \subseteq Conns
<1>0. clobbered \subseteq Conns /\ flags \in [Conns -> SUBSET ConnFlags]
  BY DEF LifeInv, HttpTypeOK, WorkTypes, ConnTypes, ConnFlags
<1>1. CASE \E w \in Pool : FeedHead(w) \/ handle(w)
  <2>1. PICK w \in Pool : FeedHead(w) \/ handle(w)
    BY <1>1
  <2>2. PICK c : c = busy[w].conn
    OBVIOUS
  <2>3. c \in Conns
    BY <2>1, <2>2, RunningIs DEF FeedHead, handle, Feeding
  <2>4. \/ clobbered' = clobbered
        \/ \E chunks, members : do_write(c, chunks, members)
    BY <2>1, <2>2 DEF FeedHead, handle, complete_request
  <2> QED
    BY <1>0, <2>3, <2>4 DEF do_write
<1>2. CASE \E c \in Conns : end(c)
  <2>1. \/ clobbered' = clobbered
        \/ \E c \in Conns : \E chunks, members : do_write(c, chunks, members)
    BY <1>2 DEF end, complete_request
  <2> QED
    BY <1>0, <2>1 DEF do_write
<1>3. CASE \/ \E w \in Pool : \/ StartWorker(w) \/ Pick(w) \/ start(w) \/ FeedJunk(w) \/ readAgain(w)
                              \/ readFails(w) \/ written(w) \/ expire(w) \/ processed(w)
                              \/ handleThrows(w)
           \/ StartAccepting \/ Stop \/ Second
           \/ \E c \in Conns : Accept(c) \/ AcceptFails(c) \/ Network(c) \/ Client(c)
  <2>1. UNCHANGED clobbered
    <3>1. CASE \E w \in Pool : \/ StartWorker(w) \/ Pick(w) \/ start(w) \/ FeedJunk(w) \/ readAgain(w)
                               \/ readFails(w) \/ written(w) \/ expire(w) \/ processed(w)
                               \/ handleThrows(w)
      BY <3>1 DEF StartWorker, Pick, start, handleThrows, FeedJunk, readAgain, readFails, written,
              expire, processed
    <3>2. CASE StartAccepting \/ Stop \/ Second \/ \E c \in Conns : Accept(c) \/ AcceptFails(c)
      BY <3>2 DEF StartAccepting, Stop, Second, Accept, AcceptFails
    <3>3. CASE \E c \in Conns : Network(c) \/ Client(c)
      BY <3>3 DEF Network, Receive, ReceiveEof, Send, SendFails, Client, SendRequest, SendBody,
              ClientLeaves, SendJunk, Leave, ClientReads
    <3> QED
      BY <1>3, <3>1, <3>2, <3>3
  <2> QED
    BY <1>0, <2>1
<1> QED
  BY <1>1, <1>2, <1>3 DEF Next, Work

LEMMA LifeInit == Init => LifeInv
<1> SUFFICES ASSUME Init PROVE LifeInv
  OBVIOUS
<1>1. \A c \in Conns : TimerOK(c)
  BY DEF Init, TimerOK, EntryAt
<1> QED
  BY <1>1, TypeInit, TokensInit DEF LifeInv

LEMMA LifeStep == LifeInv /\ [Next]_vars => LifeInv'
<1> SUFFICES ASSUME LifeInv, [Next]_vars PROVE LifeInv'
  OBVIOUS
<1>1. CASE Next
  <2>1. ready' \in [Pool -> Seq(Waiting)] /\ \A c \in Conns : TokenOK(c)'
    BY <1>1, TokensStep DEF TokensKept
  <2>2. \A c \in Conns : TimerOK(c)'
    BY <1>1, TimersStep DEF TimersKept
  <2>3. WorkTypes'
    BY <1>1, <2>1, BusyStep, CauseStep, ClobberedTypes DEF WorkTypes
  <2>4. HttpTypeOK'
    BY <1>1, <2>3, ServerStep, ConnStep, TimerStep, ClientStep DEF HttpTypeOK
  <2> QED
    BY <2>1, <2>2, <2>4 DEF LifeInv
<1>2. CASE UNCHANGED vars
  <2> USE <1>2 DEF vars, serverVars, connVars, timerVars, clientVars
  <2>1. HttpTypeOK'
    BY DEF LifeInv, HttpTypeOK, ServerTypes, ConnTypes, TimerTypes, ClientTypes, WorkTypes, OfConns
  <2>2. ASSUME NEW c \in Conns
        PROVE  TokenOK(c)' /\ TimerOK(c)'
    <3>1. TokenOK(c) /\ TimerOK(c)
      BY DEF LifeInv
    <3>2. UNCHANGED <<obj, home, tq, open, flags, reads, writes, ready, busy, dq, step, timerKey, idle>>
      OBVIOUS
    <3>3. TokenOK(c)'
      BY <3>1, <3>2 DEF TokenOK, ReadsOnce, StartsOnce, Lives, NobodyWaits, OneWaits, Waits, Runs,
                        IsReading, IsWriting, Deferred
    <3>4. TimerOK(c)'
      BY <3>1, <3>2 DEF TimerOK, EntryAt, IsReading
    <3> QED
      BY <3>3, <3>4
  <2> QED
    BY <2>1, <2>2 DEF LifeInv
<1> QED
  BY <1>1, <1>2

\* Every member of Connection, Server and dumb_timer_queue keeps its type, for any
\* number of Connections, workers and requests and any environment.
THEOREM ServerKeepsItsTypes == Spec => []TypeOK
<1>1. LifeInv => TypeOK
  BY TypesAreTypeOK DEF LifeInv
<1> QED
  BY <1>1, LifeInit, LifeStep, PTL DEF Spec

\* Of NotClosedEarly, dumb_timer_queue: whatever clients do, and however entries
\* are added, emptied and popped, a deadline closes only a connection that has
\* been idle for a whole tick since start_deadline().
THEOREM DeadlinesAreKept == Spec => NotClosedEarly
<1>1. LifeInv /\ [Next]_vars =>
        [\A c \in Conns : cause[c] # "deadline" /\ cause'[c] = "deadline" => idle[c] >= Tick]_vars
  BY CauseStep
<1> QED
  BY <1>1, LifeInit, LifeStep, PTL DEF Spec, NotClosedEarly

-----------------------------------------------------------------------------
(***************************************************************************)
(* For clients that wait for a response before they send the next request, *)
(* and otherwise for any number of Connections, workers, requests and any  *)
(* environment: a Connection writes one thing at a time, nothing comes     *)
(* back to it once it is deleted, and the responses are each request's own *)
(* and whole.                                                              *)
(*                                                                         *)
(* The pieces of a request that a handler holds and those on the network   *)
(* are, in that order, what is left of the request and what the client     *)
(* sends when it sends no more (Recut).  What is left tells the stage the  *)
(* request is in, and the stage what the client has read (Stage): nothing  *)
(* of the answer is on its way before the whole request is fed.  With it   *)
(* the flag is_writing is true exactly while a write is pending or its     *)
(* handler waits, and that handler runs before the one that feeds the next *)
(* request (Writing): a response is begun only when none is being written. *)
(***************************************************************************)
-----------------------------------------------------------------------------
(* Sequences.                                                              *)

\* s is a beginning of e.
Begins(s, e) == Len(s) <= Len(e) /\ \A i \in 1 .. Len(s) : s[i] = e[i]

LEMMA BeginsFirst ==
  ASSUME NEW S, NEW s \in Seq(S), NEW t \in Seq(S), NEW e \in Seq(S)
  PROVE  /\ Begins(s \o t, e) => Begins(s, e)
         /\ Begins(s, s \o t) /\ Begins(s, s)
         /\ Begins(s, e) /\ Len(s) = Len(e) => s = e
<1>1. /\ s \o t \in Seq(S) /\ Len(s) \in Nat /\ Len(t) \in Nat /\ Len(s \o t) = Len(s) + Len(t)
      /\ Len(e) \in Nat /\ \A i \in 1 .. Len(s) : (s \o t)[i] = s[i]
  BY ConcatProperties
<1>2. Begins(s \o t, e) => Begins(s, e)
  BY <1>1 DEF Begins
<1>3. Begins(s, s \o t) /\ Begins(s, s)
  BY <1>1 DEF Begins
<1>4. Begins(s, e) /\ Len(s) = Len(e) => s = e
  BY DEF Begins
<1> QED
  BY <1>2, <1>3, <1>4

LEMMA BeginsMore ==
  ASSUME NEW S, NEW s \in Seq(S), NEW t \in Seq(S), NEW e \in Seq(S), Begins(s, t), Begins(t, e)
  PROVE  Begins(s, e)
BY DEF Begins

\* The same pieces, cut at two places.
Recut(q, n, r, f) ==
  /\ q \in Seq(Pieces) /\ n \in Seq(Pieces) /\ r \in Seq(Pieces) /\ f \in Seq(Pieces)
  /\ q \o n = r \o f

LEMMA FirstPiece ==
  ASSUME NEW q, NEW n, NEW r, NEW f, Recut(q, n, r, f), q # <<>>
  PROVE  /\ r # <<>> => q[1] = r[1] /\ Recut(Tail(q), n, Tail(r), f)
         /\ r = <<>> => f # <<>> /\ q[1] = f[1] /\ Recut(Tail(q), n, <<>>, Tail(f))
<1> PICK S : S = Pieces
  OBVIOUS
<1>0. /\ q \in Seq(S) /\ n \in Seq(S) /\ r \in Seq(S) /\ f \in Seq(S)
      /\ q \o n = r \o f
  BY DEF Recut
<1>1. ASSUME NEW a \in Seq(S), NEW b \in Seq(S), a # <<>>
      PROVE  /\ (a \o b)[1] = a[1] /\ Tail(a \o b) = Tail(a) \o b
  <2>1. /\ Head(a) \in S /\ Tail(a) \in Seq(S) /\ Len(Tail(a)) = Len(a) - 1
        /\ \A i \in 1 .. Len(Tail(a)) : Tail(a)[i] = a[i + 1]
    BY <1>1, HeadTailProperties
  <2>2. /\ a \o b \in Seq(S) /\ Len(a \o b) = Len(a) + Len(b)
        /\ \A i \in 1 .. Len(a) + Len(b) :
             (a \o b)[i] = IF i <= Len(a) THEN a[i] ELSE b[i - Len(a)]
    BY ConcatProperties
  <2>3. Len(a) \in Nat \ {0} /\ Len(b) \in Nat
    BY <1>1
  <2>4. a \o b # <<>>
    BY <2>2, <2>3
  <2>5. /\ Tail(a \o b) \in Seq(S) /\ Len(Tail(a \o b)) = Len(a \o b) - 1
        /\ \A i \in 1 .. Len(Tail(a \o b)) : Tail(a \o b)[i] = (a \o b)[i + 1]
    BY <2>2, <2>4, HeadTailProperties
  <2>6. /\ Tail(a) \o b \in Seq(S) /\ Len(Tail(a) \o b) = Len(a) - 1 + Len(b)
        /\ \A i \in 1 .. Len(a) - 1 + Len(b) :
             (Tail(a) \o b)[i] = IF i <= Len(a) - 1 THEN Tail(a)[i] ELSE b[i - (Len(a) - 1)]
    BY <2>1, ConcatProperties
  <2>7. ASSUME NEW i \in 1 .. Len(a) - 1 + Len(b)
        PROVE  Tail(a \o b)[i] = (Tail(a) \o b)[i]
    <3>1. Tail(a \o b)[i] = (a \o b)[i + 1] /\ i + 1 \in 1 .. Len(a) + Len(b)
      BY <2>2, <2>3, <2>5
    <3>2. i + 1 - Len(a) = i - (Len(a) - 1) /\ (i + 1 <= Len(a) <=> i <= Len(a) - 1)
      BY <2>3
    <3>3. i <= Len(a) - 1 => Tail(a)[i] = a[i + 1]
      BY <2>1, <2>3
    <3> QED
      BY <2>2, <2>6, <3>1, <3>2, <3>3
  <2>8. Len(Tail(a \o b)) = Len(a) - 1 + Len(b)
    BY <2>2, <2>3, <2>5
  <2>9. Tail(a \o b) = Tail(a) \o b
    BY <2>5, <2>6, <2>7, <2>8
  <2>10. (a \o b)[1] = a[1]
    BY <2>2, <2>3
  <2> QED
    BY <2>9, <2>10
<1>2. (q \o n)[1] = q[1] /\ Tail(q \o n) = Tail(q) \o n
  BY <1>0, <1>1
<1>3. Tail(q) \in Seq(S)
  BY <1>0, HeadTailProperties
<1>4. CASE r # <<>>
  <2>1. (r \o f)[1] = r[1] /\ Tail(r \o f) = Tail(r) \o f
    BY <1>0, <1>1, <1>4
  <2>2. Tail(r) \in Seq(S)
    BY <1>0, <1>4, HeadTailProperties
  <2>3. Tail(q) \o n = Tail(r) \o f /\ q[1] = r[1]
    BY <1>0, <1>2, <2>1
  <2> QED
    BY <1>0, <1>3, <1>4, <2>2, <2>3 DEF Recut
<1>5. CASE r = <<>>
  <2>1. r \o f = f
    BY <1>0, <1>5, ConcatEmptySeq
  <2>2. f # <<>>
    BY <1>0, <2>1, ConcatEqualIffEmpty
  <2>3. Tail(f) \in Seq(S) /\ <<>> \o Tail(f) = Tail(f)
    BY <1>0, <2>2, HeadTailProperties, ConcatEmptySeq
  <2>4. Tail(q) \o n = <<>> \o Tail(f) /\ q[1] = f[1]
    BY <1>0, <1>2, <2>1, <2>3
  <2>5. <<>> \in Seq(S)
    OBVIOUS
  <2> QED
    BY <1>0, <1>3, <1>5, <2>2, <2>3, <2>4, <2>5 DEF Recut
<1> QED
  BY <1>4, <1>5

LEMMA NothingLeft ==
  ASSUME NEW q, NEW n, Recut(q, n, <<>>, <<>>)
  PROVE  q = <<>> /\ n = <<>>
<1>1. q \in Seq(Pieces) /\ n \in Seq(Pieces) /\ q \o n = <<>>
  BY DEF Recut
<1> QED
  BY <1>1, ConcatEqualIffEmpty

-----------------------------------------------------------------------------
(* What is expected of the latest request.                                 *)

Latest(ks) == ks[Len(ks)]
Invited(ks) == Before(ks) \o Hundred(Len(ks), Latest(ks))
Whole(n, k) == <<Piece("head", n, k)>> \o (IF k = "expect" THEN <<>> ELSE <<Piece("tail", n, k)>>)

LEMMA WholeBegins ==
  ASSUME NEW n, NEW k
  PROVE  /\ Whole(n, k) # <<>> /\ Whole(n, k)[1] = Piece("head", n, k)
         /\ Tail(Whole(n, k)) = IF k = "expect" THEN <<>> ELSE <<Piece("tail", n, k)>>
<1> PICK h, t : h = Piece("head", n, k) /\ t = Piece("tail", n, k)
  OBVIOUS
<1> PICK S : S = {h, t}
  OBVIOUS
<1> DEFINE a == <<h>>
           x == <<t>>
<1>1. a \in Seq(S) /\ Len(a) = 1 /\ a[1] = h /\ x \in Seq(S) /\ Len(x) = 1 /\ x[1] = t
  OBVIOUS
<1> HIDE DEF a, x
<1>2. a # <<>> /\ a \o <<>> = a /\ Tail(a) = <<>>
  <2>1. Tail(a) \in Seq(S) /\ Len(Tail(a)) = 0
    BY <1>1, HeadTailProperties
  <2>2. \A s \in Seq(S) : Len(s) = 0 => s = <<>>
    OBVIOUS
  <2>3. a \o <<>> = a
    BY <1>1, ConcatEmptySeq
  <2>4. Tail(a) = <<>>
    BY <2>1, <2>2
  <2>5. Len(a) # Len(<<>>)
    BY <1>1
  <2> QED
    BY <2>3, <2>4, <2>5
<1>3. a \o x # <<>> /\ (a \o x)[1] = h /\ Tail(a \o x) = x
  <2>1. PICK y : y = a \o x
    OBVIOUS
  <2>2. y \in Seq(S) /\ Len(y) = 2 /\ y[1] = h /\ y[2] = t
    BY <1>1, <2>1, ConcatProperties
  <2>3. Tail(y) \in Seq(S) /\ Len(Tail(y)) = 1 /\ Tail(y)[1] = t
    BY <2>2, HeadTailProperties
  <2>4. \A u, v \in Seq(S) : Len(u) = 1 /\ Len(v) = 1 /\ u[1] = v[1] => u = v
    OBVIOUS
  <2>5. Tail(y) = x
    BY <1>1, <2>3, <2>4
  <2> QED
    BY <2>1, <2>2, <2>5
<1>4. Whole(n, k) = a \o (IF k = "expect" THEN <<>> ELSE x)
  BY DEF Whole, a, x
<1>5. CASE k = "expect"
  <2>1. Whole(n, k) = a
    BY <1>2, <1>4, <1>5
  <2>2. a[1] = Piece("head", n, k)
    BY <1>1
  <2> QED
    BY <1>2, <1>5, <2>1, <2>2
<1>6. CASE k # "expect"
  <2>1. Whole(n, k) = a \o x
    BY <1>4, <1>6
  <2>2. x = <<Piece("tail", n, k)>>
    BY DEF x
  <2> QED
    BY <1>3, <1>6, <2>1, <2>2
<1> QED
  BY <1>5, <1>6

LEMMA ExpectedIsMore ==
  ASSUME NEW ks \in Seq(Request), ks # <<>>
  PROVE  /\ Numbered(Before(ks), Len(ks) - 1) /\ Len(ks) - 1 \in Nat
         /\ Before(ks) \in Seq(Chunked) /\ Invited(ks) \in Seq(Chunked)
         /\ Own(Len(ks), Latest(ks)) \in Seq(Chunked)
         /\ Expected(ks) = Invited(ks) \o Own(Len(ks), Latest(ks))
         /\ Begins(Invited(ks), Expected(ks)) /\ Begins(Before(ks), Expected(ks))
         /\ Begins(Before(ks), Invited(ks))
         /\ Len(Invited(ks)) < Len(Expected(ks)) /\ Len(Before(ks)) < Len(Expected(ks))
<1> DEFINE n == Len(ks)
           k == Latest(ks)
           b == Before(ks)
<1>1. n \in Nat \ {0} /\ k \in Request /\ SubSeq(ks, 1, n - 1) \in Seq(Request)
      /\ Len(SubSeq(ks, 1, n - 1)) = n - 1
  BY LastApart DEF Latest
<1>2. Numbered(b, n - 1)
  BY <1>1, ExpectedNumbered DEF Before
<1>3. b \in Seq(Chunked)
  BY <1>2 DEF Numbered
<1>4. Hundred(n, k) \in Seq(Chunked) /\ Own(n, k) \in Seq(Chunked) /\ Len(Own(n, k)) \in {1, 2}
  <2>1. Hundred(n, k) \in Seq(Chunked) /\ Own(n, k) \in Seq(Chunked)
    BY <1>1, OwnChunks
  <2>2. Own(n, k) = IF k \in {"big", "bigclose"} THEN <<Chunk(n, 1), Chunk(n, 2)>>
                        ELSE <<Chunk(n, 1)>>
    BY <1>1, OwnChunks
  <2> QED
    BY <2>1, <2>2
<1>5. Invited(ks) = b \o Hundred(n, k)
  BY DEF Invited
<1>6. Expected(ks) = b \o Hundred(n, k) \o Own(n, k)
  BY ExpectedOfLast DEF Latest
<1> HIDE DEF n, k, b
<1>7. Invited(ks) \in Seq(Chunked) /\ Begins(b, Invited(ks)) /\ Len(b) <= Len(Invited(ks))
  <2>1. Invited(ks) \in Seq(Chunked) /\ Begins(b, Invited(ks))
    BY <1>3, <1>4, <1>5, ConcatProperties, BeginsFirst
  <2> QED
    BY <2>1 DEF Begins
<1>8. Expected(ks) \in Seq(Chunked) /\ Begins(Invited(ks), Expected(ks))
      /\ Len(Expected(ks)) = Len(Invited(ks)) + Len(Own(n, k))
  <2>1. Expected(ks) = Invited(ks) \o Own(n, k)
    BY <1>5, <1>6
  <2> QED
    BY <1>4, <1>7, <2>1, ConcatProperties, BeginsFirst
<1>9. Begins(b, Expected(ks))
  BY <1>3, <1>7, <1>8, BeginsMore
<1>10. Len(b) \in Nat /\ Len(Invited(ks)) \in Nat
  BY <1>3, <1>7
<1>11. Len(Invited(ks)) < Len(Expected(ks)) /\ Len(b) < Len(Expected(ks))
  <2>1. /\ Len(b) \in Nat /\ Len(Invited(ks)) \in Nat /\ Len(b) <= Len(Invited(ks))
        /\ Len(Expected(ks)) = Len(Invited(ks)) + Len(Own(n, k))
        /\ Len(Own(n, k)) = 1 \/ Len(Own(n, k)) = 2
    BY <1>4, <1>7, <1>8, <1>10
  <2>2. \A x, y, e, o \in Nat : x <= y /\ e = y + o /\ (o = 1 \/ o = 2) => y < e /\ x < e
    OBVIOUS
  <2>3. Len(Expected(ks)) \in Nat /\ Len(Own(n, k)) \in Nat
    BY <1>4, <1>8
  <2> QED
    BY <2>1, <2>2, <2>3
<1> QED
  BY <1>1, <1>2, <1>3, <1>4, <1>5, <1>6, <1>7, <1>8, <1>9, <1>11 DEF n, k, b

-----------------------------------------------------------------------------
(* What a Connection and its client have said.                             *)

\* The input of c that a handler has, waiting or running, and has not fed.
Holds(c, q) ==
  \/ \E w : Runs(w, c) /\ q = busy[w].rest
  \/ \E w, i : Waits(w, i, c, "read") /\ q = ready[w][i].rest
  \/ q = <<>> /\ NobodyWaits(c, "read") /\ \A w : ~Runs(w, c)

\* What the client sent last, when it sends no request any more.
Ends(c, f) ==
  \/ f = <<>>
  \/ f = <<Piece("junk", 0, None)>> /\ client[c] = "silent"
  \/ f = <<Piece("eof", 0, None)>> /\ client[c] = "left"

Said(c) == got[c] \o out[c] \o writes[c]
NoneGoesOut(c) == out[c] = <<>> /\ writes[c] = <<>>
Asked(c, ks) == sent[c] # <<>> /\ Latest(sent[c]) \in ks
AsksClose(c) == "close_connection_" \in flags[c]
Current(c) == [req |-> Len(sent[c]), kind |-> Latest(sent[c])]

\* All of the expected but the second chunk of a long response.
OneMissing(c, s) ==
  /\ Asked(c, {"big", "bigclose"}) /\ Begins(s, Expected(sent[c]))
  /\ Len(s) = Len(Expected(sent[c])) - 1

\* The stages of a request, when r is what is left of it to feed: it is
\* answered, or as far as it will be;
Quiet(c, r) ==
  /\ r = <<>> /\ parsing[c] = None /\ ~Later(c) /\ client[c] # "waiting"
  /\ AsksClose(c) => Asked(c, {"close", "bigclose"})
  /\ \/ Said(c) = Expected(sent[c])
     \/ ~open[c] /\ Begins(Said(c), Expected(sent[c]))
     \/ client[c] = "left" /\ writes[c] = <<>> /\ OneMissing(c, Said(c))

\* its head is on the way;
Comes(c, r) ==
  /\ r = Whole(Len(sent[c]), Latest(sent[c])) /\ parsing[c] = None /\ ~Later(c)
  /\ client[c] = "waiting" => Asked(c, {"expect"})
  /\ NoneGoesOut(c) /\ got[c] = Before(sent[c])

\* its head has been fed and the tail is on the way;
Listens(c, r) ==
  /\ r = <<Piece("tail", Len(sent[c]), Latest(sent[c]))>>
  /\ parsing[c] = Current(c) /\ ~Later(c) /\ client[c] # "waiting"
  /\ NoneGoesOut(c) /\ got[c] = Invited(sent[c])

\* the client is to read 100 Continue before it sends the tail;
Invites(c, r) ==
  /\ r = <<>> /\ Asked(c, {"expect"}) /\ parsing[c] = Current(c) /\ ~Later(c)
  /\ writes[c] = <<>>
  /\ Said(c) = Invited(sent[c]) \/ (~open[c] /\ Said(c) = Before(sent[c]))

\* the handler has returned and will answer later.
Owes(c, r) ==
  /\ r = <<>> /\ Asked(c, {"later"}) /\ parsing[c] = None /\ Later(c)
  /\ client[c] # "waiting" /\ serving[c] = Current(c) /\ ~resDone[c] /\ ~IsWriting(c)
  /\ NoneGoesOut(c) /\ got[c] = Before(sent[c])

Stage(c, r) ==
  \/ Quiet(c, r)
  \/ /\ sent[c] # <<>> /\ ~AsksClose(c)
     /\ Comes(c, r) \/ Listens(c, r) \/ Invites(c, r) \/ Owes(c, r)

InStage(c, q, r, f) ==
  Recut(q, net[c], r, f) /\ Ends(c, f) /\ Stage(c, r)

\* What holds in every stage.
Manners(c) ==
  /\ got[c] \in Seq(Chunked) /\ out[c] \in Seq(Chunked) /\ writes[c] \in Seq(Chunked)
  /\ resDone[c] => IsWriting(c) \/ ~open[c]
  /\ ~open[c] => writes[c] = <<>>
  /\ writes[c] # <<>> => Asked(c, {"big", "bigclose"}) /\ Len(writes[c]) = 1
  /\ cause[c] = "asked" =>
       /\ ~open[c] /\ Asked(c, {"close", "bigclose"})
       /\ got[c] \o out[c] = Expected(sent[c]) \/ OneMissing(c, got[c] \o out[c])
  /\ obj[c] \in {"none", "accepting", "leaked"} => sent[c] = <<>> /\ ~resDone[c]

\* The worker has fallen under the request of c: nobody says anything any more.
Fallen(c) == \E w : Runs(w, c) /\ busy[w].kind = "thrown"
Abandoned(c) ==
  /\ Fallen(c)
  /\ sent[c] # <<>> /\ client[c] # "waiting"
  /\ NoneGoesOut(c) /\ got[c] = Invited(sent[c])

Talk(c) ==
  /\ Manners(c)
  /\ Abandoned(c) \/ \E q, r, f : Holds(c, q) /\ InStage(c, q, r, f)

\* A write at a time: the flag says when one is pending, a handler that has the
\* beginning of a request comes after the one that ends the write before, and
\* runs when nothing is written.
IsRequest(q) == q # <<>> /\ q[1].part \in {"head", "tail"}
HasRequest(w, i, c) == Waits(w, i, c, "read") /\ IsRequest(ready[w][i].rest)
FeedsAlone(c) == \A w : Runs(w, c) /\ IsRequest(busy[w].rest) => ~IsWriting(c)
Writing(c) ==
  /\ OneWaits(c, "write")
  /\ ~NobodyWaits(c, "write") => writes[c] = <<>> /\ IsWriting(c)
  /\ writes[c] # <<>> => IsWriting(c)
  /\ IsWriting(c) => writes[c] # <<>> \/ ~NobodyWaits(c, "write")
  /\ \A w, i, j : HasRequest(w, i, c) /\ Waits(w, j, c, "write") => j < i
  /\ FeedsAlone(c)

TalkInv == LifeInv /\ clobbered = {} /\ \A c \in Conns : Writing(c) /\ Talk(c)

LEMMA TypesOf ==
  ASSUME LifeInv, NEW c \in Conns
  PROVE  /\ net[c] \in Seq(Pieces) /\ sent[c] \in Seq(Request) /\ OfConns(got) /\ OfConns(out)
         /\ OfConns(writes) /\ open \in [Conns -> BOOLEAN] /\ resDone \in [Conns -> BOOLEAN]
         /\ flags \in [Conns -> SUBSET ConnFlags] /\ net \in [Conns -> Seq(Pieces)]
         /\ sent \in [Conns -> Seq(Kinds)]
         /\ client \in [Conns -> {"up", "waiting", "silent", "left"}]
         /\ parsing \in [Conns -> Heads \cup {None}] /\ serving \in [Conns -> Heads \cup {None}]
         /\ ready \in [Pool -> Seq(Waiting)] /\ busy \in [Pool -> InHand \cup {None}]
         /\ obj \in [Conns -> {"none", "accepting", "live", "deleted", "leaked"}]
         /\ cause \in [Conns -> {"none", "asked", "error", "deadline"}]
         /\ home[c] \in Pool /\ TokenOK(c)
<1>1. Seq(Kinds) \subseteq Seq(Request)
  BY ServerAssumption
<1> QED
  BY <1>1 DEF LifeInv, HttpTypeOK, ConnTypes, ClientTypes, WorkTypes, ConnFlags

LEMMA OneReader ==
  ASSUME LifeInv, NEW c \in Conns, NEW w, Runs(w, c), busy[w].kind = "read"
  PROVE  ~Fallen(c)
<1>1. \A v : Runs(v, c) => v = w
  BY TypesOf DEF TokenOK, Lives
<1> QED
  BY <1>1 DEF Fallen

\* A Connection is abandoned while its worker lies, and has nothing under way.
LEMMA StillTalking ==
  ASSUME LifeInv, NEW c \in Conns, Talk(c),
         \/ \A w : ~Runs(w, c)
         \/ \E w : Runs(w, c) /\ busy[w].kind = "read"
         \/ ~NoneGoesOut(c) \/ sent[c] = <<>> \/ client[c] = "waiting"
         \/ got[c] = Expected(sent[c])
  PROVE  ~Abandoned(c) /\ \E q, r, f : Holds(c, q) /\ InStage(c, q, r, f)
<1>2. (\E w : Runs(w, c) /\ busy[w].kind = "read") => ~Fallen(c)
  BY OneReader
<1>3. ASSUME sent[c] # <<>>
      PROVE  Invited(sent[c]) # Expected(sent[c])
  <2>1. /\ Invited(sent[c]) \in Seq(Chunked) /\ Len(Invited(sent[c])) < Len(Expected(sent[c]))
    BY <1>3, TypesOf, ExpectedIsMore
  <2>2. Len(Invited(sent[c])) \in Nat
    BY <2>1
  <2> QED
    BY <2>1, <2>2
<1>4. ~Abandoned(c)
  BY <1>2, <1>3 DEF Abandoned, Fallen
<1> QED
  BY <1>4 DEF Talk

\* A step that leaves who runs the reader of d in its place.
SameReader(d) ==
  /\ \A u : Runs(u, d)' <=> Runs(u, d)
  /\ \A u : Runs(u, d) => busy'[u].rest = busy[u].rest /\ busy'[u].kind = busy[u].kind

LEMMA StillFallen ==
  ASSUME NEW d, SameReader(d), Fallen(d)
  PROVE  Fallen(d)'
BY DEF SameReader, Fallen

LEMMA HoldsOne ==
  ASSUME LifeInv, NEW c \in Conns, NEW p, NEW q, Holds(c, p), Holds(c, q)
  PROVE  p = q /\ q \in Seq(Pieces)
<1>1. ReadsOnce(c) /\ Lives(c)
  BY TypesOf DEF TokenOK
<1>2. ASSUME NEW w, NEW v, Runs(w, c), Runs(v, c)
      PROVE  w = v
  BY <1>1, <1>2 DEF Lives
<1>3. ASSUME NEW w, NEW v, NEW i, NEW j, Waits(w, i, c, "read"), Waits(v, j, c, "read")
      PROVE  w = v /\ i = j
  BY <1>1, <1>3 DEF ReadsOnce, OneWaits
<1>4. ASSUME NEW w, NEW v, NEW i, Runs(w, c), Waits(v, i, c, "read")
      PROVE  FALSE
  BY <1>1, <1>4 DEF ReadsOnce, NobodyWaits
<1>5. p = q
  BY <1>2, <1>3, <1>4 DEF Holds, NobodyWaits
<1>6. \A w : Runs(w, c) => busy[w].rest \in Seq(Pieces)
  BY TypesOf DEF Runs, InHand, Waiting, Handlers
<1>7. \A w, i : Waits(w, i, c, "read") => ready[w][i].rest \in Seq(Pieces)
  <2>1. ASSUME NEW w, NEW i, Waits(w, i, c, "read")
        PROVE  ready[w][i] \in Waiting
    BY <2>1, TypesOf DEF Waits
  <2> QED
    BY <2>1 DEF Waiting, Handlers
<1>8. q \in Seq(Pieces)
  <2>1. <<>> \in Seq(Pieces)
    OBVIOUS
  <2> QED
    BY <1>6, <1>7, <2>1 DEF Holds
<1> QED
  BY <1>5, <1>8

-----------------------------------------------------------------------------
(* Steps of others.                                                        *)

\* A step that leaves what the reader of d has to feed in its place.
ReaderKeeps(v, p, hs, d) ==
  /\ Moved(v, p, hs)
  /\ \A j \in 1 .. Len(hs) : ~IsFor(hs[j], d, "read")
  /\ p = 1 => ~IsFor(ready[v][1], d, "read")
  /\ \A u : Runs(u, d)' <=> Runs(u, d)
  /\ \A u : Runs(u, d) => busy'[u].rest = busy[u].rest

LEMMA MovedBack ==
  ASSUME ready \in [Pool -> Seq(Waiting)], NEW v, NEW p, NEW hs, Moved(v, p, hs),
         NEW c, NEW k, NEW w, NEW i, Waits(w, i, c, k),
         p = 1 => ~IsFor(ready[v][1], c, k)
  PROVE  \E j : Waits(w, j, c, k)' /\ ready'[w][j] = ready[w][i]
<1>1. CASE w # v
  <2>1. ready'[w] = ready[w]
    BY <1>1, MovedTypes DEF Waits
  <2> QED
    BY <2>1 DEF Waits
<1>2. CASE w = v
  <2>0. p \in {0, 1}
    BY DEF Moved
  <2>a. /\ Len(ready[v]) \in Nat /\ Len(hs) \in Nat
        /\ Len(ready'[v]) = Len(ready[v]) - p + Len(hs)
        /\ \A j \in 1 .. Len(ready[v]) - p : ready'[v][j] = ready[v][j + p]
    BY MovedTypes
  <2>1. /\ Len(ready[v]) \in Nat /\ p \in {0, 1} /\ Len(hs) \in Nat
        /\ Len(ready'[v]) = Len(ready[v]) - p + Len(hs)
        /\ \A j \in 1 .. Len(ready[v]) - p : ready'[v][j] = ready[v][j + p]
    BY <2>0, <2>a
  <2>2. i \in 1 .. Len(ready[v]) /\ IsFor(ready[v][i], c, k) /\ v \in Pool
    BY <1>2 DEF Waits, IsFor
  <2>3. i # 1 \/ p = 0
    BY <2>1, <2>2
  <2>4. PICK j : j \in 1 .. Len(ready[v]) - p /\ j + p = i
    <3>1. i - p \in 1 .. Len(ready[v]) - p /\ (i - p) + p = i
      BY <2>1, <2>2, <2>3
    <3> QED
      BY <3>1
  <2>5. ready'[v][j] = ready[v][i]
    BY <2>1, <2>4
  <2>6. j \in 1 .. Len(ready'[v])
    BY <2>1, <2>4
  <2> QED
    BY <1>2, <2>2, <2>5, <2>6 DEF Waits, IsFor
<1> QED
  BY <1>1, <1>2

LEMMA HoldsKept ==
  ASSUME LifeInv, NEW v, NEW p, NEW hs, NEW d \in Conns, ReaderKeeps(v, p, hs, d),
         NEW q, Holds(d, q)
  PROVE  Holds(d, q)'
<1>1. /\ ready \in [Pool -> Seq(Waiting)] /\ Moved(v, p, hs)
      /\ \A j \in 1 .. Len(hs) : ~IsFor(hs[j], d, "read")
      /\ p = 1 => ~IsFor(ready[v][1], d, "read")
  BY TypesOf DEF ReaderKeeps
<1>2. ASSUME NEW w, Runs(w, d), q = busy[w].rest
      PROVE  Holds(d, q)'
  BY <1>2 DEF ReaderKeeps, Holds
<1>3. ASSUME NEW w, NEW i, Waits(w, i, d, "read"), q = ready[w][i].rest
      PROVE  Holds(d, q)'
  <2>1. PICK j : Waits(w, j, d, "read")' /\ ready'[w][j] = ready[w][i]
    BY <1>1, <1>3, MovedBack
  <2> QED
    BY <1>3, <2>1 DEF Holds
<1>4. ASSUME q = <<>>, NobodyWaits(d, "read"), \A w : ~Runs(w, d)
      PROVE  Holds(d, q)'
  <2>1. NobodyWaits(d, "read")'
    BY <1>1, <1>4, WaitsKept
  <2> QED
    BY <1>4, <2>1 DEF Holds, ReaderKeeps
<1> QED
  BY <1>2, <1>3, <1>4 DEF Holds

\* A step in which nobody says anything on d.
SameTalk(d) ==
  /\ got'[d] = got[d] /\ out'[d] = out[d] /\ writes'[d] = writes[d] /\ net'[d] = net[d]
  /\ sent'[d] = sent[d] /\ client'[d] = client[d] /\ parsing'[d] = parsing[d]
  /\ serving'[d] = serving[d] /\ resDone'[d] = resDone[d] /\ open'[d] = open[d]
  /\ cause'[d] = cause[d]
  /\ IsWriting(d)' <=> IsWriting(d)
  /\ Later(d)' <=> Later(d)
  /\ AsksClose(d)' <=> AsksClose(d)
  /\ obj'[d] \in {"none", "accepting", "leaked"} => obj[d] \in {"none", "accepting", "leaked"}

\* The same, but that a response may be done with.
StillTalks(d) ==
  /\ got'[d] = got[d] /\ out'[d] = out[d] /\ writes'[d] = writes[d] /\ net'[d] = net[d]
  /\ sent'[d] = sent[d] /\ client'[d] = client[d] /\ parsing'[d] = parsing[d]
  /\ serving'[d] = serving[d] /\ open'[d] = open[d]
  /\ resDone'[d] => resDone[d]
  /\ IsWriting(d)' => IsWriting(d)
  /\ Later(d)' <=> Later(d)
  /\ AsksClose(d)' <=> AsksClose(d)

LEMMA StageKept ==
  ASSUME NEW d, StillTalks(d), NEW r
  PROVE  Stage(d, r) => Stage(d, r)'
<1>1. /\ (Asked(d, {"close", "bigclose"}) <=> Asked(d, {"close", "bigclose"})')
      /\ (Asked(d, {"big", "bigclose"}) <=> Asked(d, {"big", "bigclose"})')
      /\ (Asked(d, {"expect"}) <=> Asked(d, {"expect"})')
      /\ (Asked(d, {"later"}) <=> Asked(d, {"later"})')
      /\ Current(d)' = Current(d) /\ Said(d)' = Said(d)
      /\ (NoneGoesOut(d)' <=> NoneGoesOut(d))
  BY DEF StillTalks, Asked, Current, Said, NoneGoesOut
<1>2. \A s : OneMissing(d, s) => OneMissing(d, s)'
  BY <1>1 DEF OneMissing, StillTalks
<1>3. Quiet(d, r) => Quiet(d, r)'
  BY <1>1, <1>2 DEF Quiet, StillTalks
<1>4. Comes(d, r) => Comes(d, r)'
  BY <1>1 DEF Comes, StillTalks
<1>5. Listens(d, r) => Listens(d, r)'
  BY <1>1 DEF Listens, StillTalks
<1>6. Invites(d, r) => Invites(d, r)'
  BY <1>1 DEF Invites, StillTalks
<1>7. Owes(d, r) => Owes(d, r)'
  BY <1>1 DEF Owes, StillTalks
<1> QED
  BY <1>3, <1>4, <1>5, <1>6, <1>7 DEF Stage, StillTalks

LEMMA TalkKept ==
  ASSUME NEW d, SameTalk(d), Talk(d), \A q : Holds(d, q) => Holds(d, q)',
         Fallen(d) => Fallen(d)'
  PROVE  Talk(d)'
<1>1. Manners(d)'
  <2>1. Manners(d)
    BY DEF Talk
  <2> QED
    BY <2>1 DEF Manners, SameTalk, Asked, OneMissing
<1>2. CASE Abandoned(d)
  <2>1. Abandoned(d)'
    BY <1>2 DEF Abandoned, SameTalk, NoneGoesOut
  <2> QED
    BY <1>1, <2>1 DEF Talk
<1>3. ASSUME NEW q, NEW r, NEW f, Holds(d, q), InStage(d, q, r, f)
      PROVE  Talk(d)'
  <2>1. Stage(d, r)'
    <3>1. StillTalks(d)
      BY DEF SameTalk, StillTalks
    <3> QED
      BY <1>3, <3>1, StageKept DEF InStage
  <2>2. Ends(d, f)'
    BY <1>3 DEF InStage, Ends, SameTalk
  <2>3. InStage(d, q, r, f)'
    BY <1>3, <2>1, <2>2 DEF InStage, SameTalk
  <2>4. Holds(d, q)'
    BY <1>3
  <2> QED
    BY <1>1, <2>3, <2>4 DEF Talk
<1> QED
  BY <1>2, <1>3 DEF Talk

\* A step that adds no handler of a write of d and runs none.
WriterKeeps(v, p, hs, d) ==
  /\ Moved(v, p, hs)
  /\ \A j \in 1 .. Len(hs) : ~IsFor(hs[j], d, "write")
  /\ p = 1 => ~IsFor(ready[v][1], d, "write")
  /\ IsWriting(d)' <=> IsWriting(d)
  /\ writes'[d] = <<>> <=> writes[d] = <<>>

LEMMA RequestsWere ==
  ASSUME ready \in [Pool -> Seq(Waiting)], NEW v, NEW p, NEW hs, Moved(v, p, hs), NEW c,
         NEW w, NEW i, HasRequest(w, i, c)'
  PROVE  \/ w # v /\ HasRequest(w, i, c)
         \/ w = v /\ i \in 1 .. Len(ready[v]) - p /\ HasRequest(v, i + p, c)
         \/ /\ w = v /\ i \in Len(ready[v]) - p + 1 .. Len(ready[v]) - p + Len(hs)
            /\ \E j \in 1 .. Len(hs) : IsFor(hs[j], c, "read") /\ IsRequest(hs[j].rest)
<1>1. Waits(w, i, c, "read")' /\ IsRequest(ready'[w][i].rest)
  BY DEF HasRequest
<1>2. /\ Len(ready[v]) \in Nat /\ Len(ready[v]) - p \in Nat /\ Len(hs) \in Nat
      /\ \A u \in Pool \ {v} : ready'[u] = ready[u]
      /\ \A j \in 1 .. Len(ready[v]) - p : ready'[v][j] = ready[v][j + p]
      /\ \A j \in 1 .. Len(hs) : ready'[v][Len(ready[v]) - p + j] = hs[j]
  BY MovedTypes
<1>3. \/ w # v /\ Waits(w, i, c, "read")
      \/ w = v /\ i \in 1 .. Len(ready[v]) - p /\ Waits(v, i + p, c, "read")
      \/ /\ w = v /\ i \in Len(ready[v]) - p + 1 .. Len(ready[v]) - p + Len(hs)
         /\ hs[i - (Len(ready[v]) - p)].conn = c
         /\ hs[i - (Len(ready[v]) - p)].kind = "read"
  BY <1>1, WaitsMoved
<1>4. CASE w # v /\ Waits(w, i, c, "read")
  <2>1. ready'[w] = ready[w]
    BY <1>2, <1>4 DEF Waits
  <2> QED
    BY <1>1, <1>4, <2>1 DEF HasRequest
<1>5. CASE w = v /\ i \in 1 .. Len(ready[v]) - p /\ Waits(v, i + p, c, "read")
  <2>1. ready'[v][i] = ready[v][i + p]
    BY <1>2, <1>5
  <2> QED
    BY <1>1, <1>5, <2>1 DEF HasRequest
<1>6. CASE /\ w = v /\ i \in Len(ready[v]) - p + 1 .. Len(ready[v]) - p + Len(hs)
           /\ hs[i - (Len(ready[v]) - p)].conn = c
           /\ hs[i - (Len(ready[v]) - p)].kind = "read"
  <2> DEFINE n == Len(ready[v]) - p
  <2>1. n \in Nat /\ Len(hs) \in Nat /\ i \in n + 1 .. n + Len(hs)
    BY <1>2, <1>6
  <2>2. hs[i - n].conn = c /\ hs[i - n].kind = "read"
    BY <1>6
  <2>3. \A j \in 1 .. Len(hs) : ready'[v][n + j] = hs[j]
    BY <1>2
  <2> HIDE DEF n
  <2>4. i - n \in 1 .. Len(hs) /\ n + (i - n) = i
    BY <2>1
  <2>5. ready'[v][i] = hs[i - n]
    BY <2>3, <2>4
  <2>6. IsFor(hs[i - n], c, "read") /\ IsRequest(hs[i - n].rest)
    BY <1>1, <1>6, <2>2, <2>5 DEF IsFor
  <2> QED
    BY <1>6, <2>4, <2>6
<1> QED
  BY <1>3, <1>4, <1>5, <1>6

LEMMA OrderKept ==
  ASSUME ready \in [Pool -> Seq(Waiting)], NEW v, NEW p, NEW hs, Moved(v, p, hs), NEW d,
         \A j \in 1 .. Len(hs) : ~IsFor(hs[j], d, "write"),
         \A w, i, j : HasRequest(w, i, d) /\ Waits(w, j, d, "write") => j < i
  PROVE  \A w, i, j : HasRequest(w, i, d)' /\ Waits(w, j, d, "write")' => j < i
<1> SUFFICES ASSUME NEW w, NEW i, NEW j, HasRequest(w, i, d)', Waits(w, j, d, "write")'
             PROVE  j < i
  OBVIOUS
<1> DEFINE n == Len(ready[v]) - p
<1>1. n \in Nat /\ p \in {0, 1} /\ Len(hs) \in Nat
  <2>1. p \in {0, 1}
    BY DEF Moved
  <2> QED
    BY <2>1, MovedTypes
<1>2. \/ w # v /\ Waits(w, j, d, "write")
      \/ w = v /\ j \in 1 .. n /\ Waits(v, j + p, d, "write")
  <2>1. \/ w # v /\ Waits(w, j, d, "write")
        \/ w = v /\ j \in 1 .. n /\ Waits(v, j + p, d, "write")
        \/ /\ w = v /\ j \in n + 1 .. n + Len(hs)
           /\ hs[j - n].conn = d /\ hs[j - n].kind = "write"
    BY WaitsMoved
  <2>2. j \in n + 1 .. n + Len(hs) => j - n \in 1 .. Len(hs)
    BY <1>1
  <2> QED
    BY <2>1, <2>2 DEF IsFor
<1>3. \/ w # v /\ HasRequest(w, i, d)
      \/ w = v /\ i \in 1 .. n /\ HasRequest(v, i + p, d)
      \/ w = v /\ i \in n + 1 .. n + Len(hs)
  BY RequestsWere
<1> HIDE DEF n
<1>4. CASE w # v
  BY <1>2, <1>3, <1>4
<1>5. CASE w = v /\ i \in 1 .. n /\ HasRequest(v, i + p, d)
  <2>1. j + p < i + p /\ j \in 1 .. n
    BY <1>2, <1>5
  <2> QED
    BY <1>1, <1>5, <2>1
<1>6. CASE w = v /\ i \in n + 1 .. n + Len(hs)
  <2>1. j \in 1 .. n
    BY <1>2, <1>6
  <2> QED
    BY <1>1, <1>6, <2>1
<1> QED
  BY <1>3, <1>4, <1>5, <1>6

LEMMA WritingKept ==
  ASSUME LifeInv, NEW v, NEW p, NEW hs, NEW d \in Conns, WriterKeeps(v, p, hs, d),
         Writing(d), FeedsAlone(d)'
  PROVE  Writing(d)'
<1>1. /\ ready \in [Pool -> Seq(Waiting)] /\ Moved(v, p, hs)
      /\ \A j \in 1 .. Len(hs) : ~IsFor(hs[j], d, "write")
      /\ p = 1 => ~IsFor(ready[v][1], d, "write")
  BY TypesOf DEF WriterKeeps
<1>2. /\ NobodyWaits(d, "write") => NobodyWaits(d, "write")'
      /\ OneWaits(d, "write") => OneWaits(d, "write")'
  BY <1>1, WaitsKept
<1>3. NobodyWaits(d, "write")' => NobodyWaits(d, "write")
  <2>1. ASSUME NEW w, NEW i, Waits(w, i, d, "write")
        PROVE  \E j : Waits(w, j, d, "write")'
    BY <1>1, <2>1, MovedBack
  <2> QED
    BY <2>1 DEF NobodyWaits
<1>4. \A w, i, j : HasRequest(w, i, d)' /\ Waits(w, j, d, "write")' => j < i
  <2>1. \A w, i, j : HasRequest(w, i, d) /\ Waits(w, j, d, "write") => j < i
    BY DEF Writing
  <2> QED
    BY <1>1, <2>1, OrderKept
<1> QED
  BY <1>2, <1>3, <1>4 DEF Writing, WriterKeeps

\* A step that begins a write of c or ends one on the network.
WriterMoves(v, hs, c) ==
  /\ Moved(v, 0, hs)
  /\ \A i, j \in 1 .. Len(hs) : IsFor(hs[i], c, "write") /\ IsFor(hs[j], c, "write") => i = j
  /\ \A j \in 1 .. Len(hs) : ~(IsFor(hs[j], c, "read") /\ IsRequest(hs[j].rest))
  /\ IsWriting(c)'
  /\ \/ writes'[c] = <<>> /\ \E j \in 1 .. Len(hs) : IsFor(hs[j], c, "write")
     \/ writes'[c] # <<>> /\ \A j \in 1 .. Len(hs) : ~IsFor(hs[j], c, "write")

LEMMA WritingMoves ==
  ASSUME LifeInv, NEW v, NEW hs, NEW c \in Conns, WriterMoves(v, hs, c),
         NobodyWaits(c, "write"), \A w, i : ~HasRequest(w, i, c), FeedsAlone(c)'
  PROVE  Writing(c)'
<1>1. /\ ready \in [Pool -> Seq(Waiting)] /\ Moved(v, 0, hs)
      /\ \A i, j \in 1 .. Len(hs) : IsFor(hs[i], c, "write") /\ IsFor(hs[j], c, "write") => i = j
      /\ \A j \in 1 .. Len(hs) : ~(IsFor(hs[j], c, "read") /\ IsRequest(hs[j].rest))
  BY TypesOf DEF WriterMoves
<1>2. OneWaits(c, "write")'
  BY <1>1, WaitsAdded
<1>3. \A w, i : ~HasRequest(w, i, c)'
  BY <1>1, RequestsWere
<1>4. (\A j \in 1 .. Len(hs) : ~IsFor(hs[j], c, "write")) => NobodyWaits(c, "write")'
  BY <1>1, WaitsKept
<1>5. ASSUME NEW j \in 1 .. Len(hs), IsFor(hs[j], c, "write")
      PROVE  ~NobodyWaits(c, "write")'
  <2>1. v \in Pool
    BY <1>1 DEF Moved
  <2>2. /\ Len(ready[v]) \in Nat /\ Len(hs) \in Nat /\ Len(ready'[v]) = Len(ready[v]) - 0 + Len(hs)
        /\ \A i \in 1 .. Len(hs) : ready'[v][Len(ready[v]) - 0 + i] = hs[i]
    <3>1. ready \in [Pool -> Seq(Waiting)] /\ Moved(v, 0, hs)
      BY <1>1
    <3>2. PICK p : p = 0
      OBVIOUS
    <3>3. Moved(v, p, hs)
      BY <3>1, <3>2
    <3>4. /\ Len(ready[v]) \in Nat /\ Len(hs) \in Nat /\ Len(ready'[v]) = Len(ready[v]) - p + Len(hs)
          /\ \A i \in 1 .. Len(hs) : ready'[v][Len(ready[v]) - p + i] = hs[i]
      BY <3>1, <3>3, MovedTypes
    <3> QED
      BY <3>2, <3>4
  <2>3. PICK k : k = Len(ready[v]) - 0 + j
    OBVIOUS
  <2>4. k \in 1 .. Len(ready'[v]) /\ ready'[v][k] = hs[j]
    BY <2>2, <2>3
  <2>5. Waits(v, k, c, "write")'
    BY <1>5, <2>1, <2>4 DEF Waits, IsFor
  <2> QED
    BY <2>5 DEF NobodyWaits
<1> QED
  BY <1>2, <1>3, <1>4, <1>5 DEF Writing, WriterMoves

\* The step that runs the handler of a write of c.
LEMMA WritingEnds ==
  ASSUME LifeInv, NEW v, NEW hs, NEW c \in Conns, Moved(v, 1, hs), Waits(v, 1, c, "write"),
         \A j \in 1 .. Len(hs) : ~IsFor(hs[j], c, "write"), Writing(c),
         ~IsWriting(c)', writes'[c] = <<>>
  PROVE  Writing(c)'
<1>1. ready \in [Pool -> Seq(Waiting)] /\ OneWaits(c, "write")
  BY TypesOf DEF Writing
<1>2. NobodyWaits(c, "write")'
  BY <1>1, WaitsKept
<1> QED
  BY <1>2 DEF Writing, NobodyWaits, OneWaits, FeedsAlone

TalkKeeps(d) == Writing(d)' /\ Talk(d)'

LEMMA Undisturbed ==
  ASSUME TalkInv, NEW v, NEW p, NEW hs, NEW d \in Conns, Moved(v, p, hs),
         \A j \in 1 .. Len(hs) : ~IsFor(hs[j], d, "read") /\ ~IsFor(hs[j], d, "write"),
         p = 1 => ~IsFor(ready[v][1], d, "read") /\ ~IsFor(ready[v][1], d, "write"),
         SameReader(d), SameTalk(d)
  PROVE  TalkKeeps(d)
<1>1. LifeInv /\ Writing(d) /\ Talk(d)
  BY DEF TalkInv
<1>2. ReaderKeeps(v, p, hs, d) /\ WriterKeeps(v, p, hs, d)
  BY DEF ReaderKeeps, WriterKeeps, SameReader, SameTalk
<1>3. \A q : Holds(d, q) => Holds(d, q)'
  BY <1>1, <1>2, HoldsKept
<1>4. FeedsAlone(d)'
  BY <1>1 DEF Writing, FeedsAlone, SameReader, SameTalk
<1>5. Writing(d)'
  BY <1>1, <1>2, <1>4, WritingKept
<1>6. Fallen(d) => Fallen(d)'
  BY StillFallen
<1>7. Talk(d)'
  BY <1>1, <1>3, <1>6, TalkKept
<1> QED
  BY <1>5, <1>7 DEF TalkKeeps

\* A step that concerns c alone.
Moves(v, p, hs, c) ==
  /\ Moved(v, p, hs)
  /\ p = 1 => ready[v][1].conn \in {c, None}
  /\ \A j \in 1 .. Len(hs) : hs[j].conn \in {c, None}
  /\ \A d \in Conns : d # c => SameReader(d) /\ SameTalk(d)

LEMMA OthersTalk ==
  ASSUME TalkInv, NEW v, NEW p, NEW hs, NEW c, Moves(v, p, hs, c), NEW d \in Conns, d # c
  PROVE  TalkKeeps(d)
<1>1. d # None
  BY NoneAssumption
<1>2. \A j \in 1 .. Len(hs) : ~IsFor(hs[j], d, "read") /\ ~IsFor(hs[j], d, "write")
  BY <1>1 DEF Moves, IsFor
<1>3. p = 1 => ~IsFor(ready[v][1], d, "read") /\ ~IsFor(ready[v][1], d, "write")
  BY <1>1 DEF Moves, IsFor
<1> QED
  BY <1>2, <1>3, Undisturbed DEF Moves

LEMMA NoneOut ==
  ASSUME NEW c, NEW r, Stage(c, r), r # <<>>
  PROVE  NoneGoesOut(c) /\ sent[c] # <<>> /\ ~AsksClose(c) /\ (Comes(c, r) \/ Listens(c, r))
BY DEF Stage, Quiet, Comes, Listens, Invites, Owes

\* Who has the beginning of a request is in a stage in which nothing is written.
LEMMA RequestAlone ==
  ASSUME LifeInv, NEW c \in Conns, Talk(c), ~Abandoned(c), NEW q, Holds(c, q), IsRequest(q)
  PROVE  \E r, f : /\ InStage(c, q, r, f) /\ r # <<>> /\ NoneGoesOut(c)
                   /\ q[1] = r[1] /\ Recut(Tail(q), net[c], Tail(r), f)
<1>1. PICK p, r, f : Holds(c, p) /\ InStage(c, p, r, f)
  BY DEF Talk
<1>2. p = q
  BY <1>1, HoldsOne
<1>3. Recut(q, net[c], r, f) /\ q # <<>> /\ q[1].part \in {"head", "tail"}
  BY <1>1, <1>2 DEF InStage, IsRequest
<1>4. /\ r # <<>> => q[1] = r[1] /\ Recut(Tail(q), net[c], Tail(r), f)
      /\ r = <<>> => f # <<>> /\ q[1] = f[1]
  BY <1>3, FirstPiece
<1>5. f # <<>> => f[1].part \in {"junk", "eof"}
  BY <1>1 DEF InStage, Ends, Piece
<1>6. r # <<>>
  BY <1>3, <1>4, <1>5
<1>7. NoneGoesOut(c)
  BY <1>1, <1>6, NoneOut DEF InStage
<1> QED
  BY <1>1, <1>2, <1>4, <1>6, <1>7

LEMMA NothingHalfSaid ==
  ASSUME LifeInv, NEW c \in Conns, Talk(c), writes[c] # <<>>
  PROVE  \A w, i : ~HasRequest(w, i, c)
<1> SUFFICES ASSUME NEW w, NEW i, HasRequest(w, i, c)
             PROVE  FALSE
  OBVIOUS
<1>1. PICK q : q = ready[w][i].rest
  OBVIOUS
<1>2. Holds(c, q) /\ IsRequest(q)
  BY <1>1 DEF HasRequest, Holds
<1>3. ~Abandoned(c)
  BY DEF Abandoned, NoneGoesOut
<1> QED
  BY <1>2, <1>3, RequestAlone DEF NoneGoesOut

\* What has been said is a beginning of what is expected.
LEMMA SaidBegins ==
  ASSUME LifeInv, NEW c \in Conns, Manners(c), NEW r, Stage(c, r)
  PROVE  /\ Said(c) \in Seq(Chunked) /\ Expected(sent[c]) \in Seq(Chunked)
         /\ got[c] \o out[c] \in Seq(Chunked)
         /\ Begins(Said(c), Expected(sent[c]))
         /\ Begins(got[c] \o out[c], Expected(sent[c]))
         /\ writes[c] = <<>> => Said(c) = got[c] \o out[c]
         /\ Len(Said(c)) = Len(got[c] \o out[c]) + Len(writes[c])
         /\ NoneGoesOut(c) => Said(c) = got[c]
<1>1. got[c] \in Seq(Chunked) /\ out[c] \in Seq(Chunked) /\ writes[c] \in Seq(Chunked)
  BY DEF Manners
<1>2. PICK s : s = got[c] \o out[c]
  OBVIOUS
<1>3. s \in Seq(Chunked) /\ Said(c) = s \o writes[c]
  BY <1>1, <1>2, ConcatProperties DEF Said
<1>4. Said(c) \in Seq(Chunked) /\ Len(Said(c)) = Len(s) + Len(writes[c])
  BY <1>1, <1>3, ConcatProperties
<1>5. writes[c] = <<>> => Said(c) = s
  BY <1>3, ConcatEmptySeq
<1>6. NoneGoesOut(c) => Said(c) = got[c]
  BY <1>1, <1>2, <1>5, ConcatEmptySeq DEF NoneGoesOut
<1>7. sent[c] \in Seq(Request)
  BY TypesOf
<1>8. Expected(sent[c]) \in Seq(Chunked)
  BY <1>7, ExpectedNumbered DEF Numbered
<1>9. Begins(Expected(sent[c]), Expected(sent[c]))
  BY <1>8, BeginsFirst
<1>10. Begins(Said(c), Expected(sent[c]))
  <2>1. CASE Quiet(c, r)
    BY <1>9, <2>1 DEF Quiet, OneMissing
  <2>2. CASE sent[c] # <<>> /\ (Comes(c, r) \/ Listens(c, r) \/ Invites(c, r) \/ Owes(c, r))
    <3>1. Begins(Invited(sent[c]), Expected(sent[c])) /\ Begins(Before(sent[c]), Expected(sent[c]))
      BY <1>7, <2>2, ExpectedIsMore
    <3>2. Said(c) = Invited(sent[c]) \/ Said(c) = Before(sent[c])
      BY <1>6, <2>2 DEF Comes, Listens, Invites, Owes
    <3> QED
      BY <3>1, <3>2
  <2> QED
    BY <2>1, <2>2 DEF Stage
<1>11. Begins(s, Expected(sent[c]))
  BY <1>1, <1>3, <1>8, <1>10, BeginsFirst
<1> QED
  BY <1>2, <1>3, <1>4, <1>5, <1>6, <1>8, <1>10, <1>11

-----------------------------------------------------------------------------
(* Closing a socket.                                                       *)

LEMMA AbortedMore ==
  ASSUME NEW c \in Conns
  PROVE  /\ \A j \in 1 .. Len(Aborted(c)) : Aborted(c)[j].rest = <<>>
         /\ writes[c] = <<>> => \A j \in 1 .. Len(Aborted(c)) : ~IsFor(Aborted(c)[j], c, "write")
         /\ writes[c] # <<>> => \E j \in 1 .. Len(Aborted(c)) : IsFor(Aborted(c)[j], c, "write")
<1> DEFINE r == Handler("read", c, FALSE, <<>>)
           x == Handler("write", c, FALSE, <<>>)
<1>1. /\ r \in Waiting /\ x \in Waiting /\ IsFor(x, c, "write") /\ ~IsFor(r, c, "write")
      /\ r.rest = <<>> /\ x.rest = <<>>
  <2>1. c # None /\ <<>> \in Seq(Pieces)
    BY NoneAssumption
  <2> QED
    BY <2>1 DEF Handler, Waiting, Handlers, IsFor
<1>2. Aborted(c) = (IF c \in reads THEN <<r>> ELSE <<>>) \o (IF writes[c] # <<>> THEN <<x>> ELSE <<>>)
  BY DEF Aborted
<1> HIDE DEF r, x
<1>3. \/ writes[c] = <<>> /\ Aborted(c) = <<>>
      \/ writes[c] = <<>> /\ Aborted(c) = <<r>>
      \/ writes[c] # <<>> /\ Aborted(c) = <<x>>
      \/ writes[c] # <<>> /\ Aborted(c) = <<r>> \o <<x>>
  <2>0. <<r>> \in Seq(Waiting) /\ <<x>> \in Seq(Waiting)
    BY <1>1
  <2>1. <<r>> \o <<>> = <<r>> /\ <<>> \o <<x>> = <<x>>
    BY <2>0, ConcatEmptySeq
  <2>2. <<>> \o <<>> = <<>>
    OBVIOUS
  <2> QED
    BY <1>2, <2>1, <2>2
<1> DEFINE As(hs) ==
      /\ \A j \in 1 .. Len(hs) : hs[j].rest = <<>>
      /\ writes[c] = <<>> => \A j \in 1 .. Len(hs) : ~IsFor(hs[j], c, "write")
      /\ writes[c] # <<>> => \E j \in 1 .. Len(hs) : IsFor(hs[j], c, "write")
<1>4. writes[c] = <<>> => As(<<>>) /\ As(<<r>>)
  BY <1>1
<1>5. writes[c] # <<>> => As(<<x>>)
  <2>1. Len(<<x>>) = 1 /\ <<x>>[1] = x
    BY <1>1
  <2>2. PICK hs : hs = <<x>>
    OBVIOUS
  <2>3. Len(hs) = 1 /\ hs[1] = x
    BY <2>1, <2>2
  <2>4. writes[c] # <<>> => As(hs)
    BY <1>1, <2>3
  <2> QED
    BY <2>2, <2>4
<1>6. writes[c] # <<>> => As(<<r>> \o <<x>>)
  <2>1. PICK hs : hs = <<r>> \o <<x>>
    OBVIOUS
  <2>2. hs \in Seq(Waiting) /\ Len(hs) = 2 /\ hs[1] = r /\ hs[2] = x
    <3>1. <<r>> \in Seq(Waiting) /\ <<x>> \in Seq(Waiting) /\ Len(<<r>>) = 1 /\ Len(<<x>>) = 1
          /\ <<r>>[1] = r /\ <<x>>[1] = x
      BY <1>1
    <3> QED
      BY <2>1, <3>1, ConcatProperties
  <2>3. \A j \in 1 .. Len(hs) : j = 1 \/ j = 2
    BY <2>2
  <2>4. writes[c] # <<>> => As(hs)
    BY <1>1, <2>2, <2>3
  <2> QED
    BY <2>1, <2>4
<1>7. As(Aborted(c))
  <2> HIDE DEF As
  <2> QED
    BY <1>3, <1>4, <1>5, <1>6
<1> QED
  BY <1>7

\* A step that closes the socket of c: what has not been sent is lost.
Closing(c) ==
  /\ ~open'[c] /\ writes'[c] = <<>>
  /\ got'[c] = got[c] /\ out'[c] = out[c] /\ net'[c] = net[c] /\ sent'[c] = sent[c]
  /\ client'[c] = client[c] /\ parsing'[c] = parsing[c] /\ serving'[c] = serving[c]
  /\ resDone'[c] => resDone[c]
  /\ IsWriting(c)' => IsWriting(c)
  /\ Later(c)' <=> Later(c)
  /\ AsksClose(c)' <=> AsksClose(c)
  /\ cause'[c] = "asked" => cause[c] = "asked" \/ (open[c] /\ AsksClose(c))
  /\ obj'[c] \notin {"none", "accepting", "leaked"}

LEMMA ClosingStage ==
  ASSUME LifeInv, NEW c \in Conns, Manners(c), Closing(c), NEW r, Stage(c, r)
  PROVE  Stage(c, r)'
<1>1. /\ (Asked(c, {"close", "bigclose"}) <=> Asked(c, {"close", "bigclose"})')
      /\ (Asked(c, {"expect"}) <=> Asked(c, {"expect"})')
      /\ (Asked(c, {"later"}) <=> Asked(c, {"later"})')
      /\ Current(c)' = Current(c)
      /\ NoneGoesOut(c) => NoneGoesOut(c)'
  BY DEF Closing, Asked, Current, NoneGoesOut
<1>2. got[c] \o out[c] \in Seq(Chunked) /\ Begins(got[c] \o out[c], Expected(sent[c]))
      /\ (writes[c] = <<>> => Said(c) = got[c] \o out[c])
  BY SaidBegins
<1>3. Said(c)' = got[c] \o out[c]
  <2>1. PICK s : s = got[c] \o out[c]
    OBVIOUS
  <2>2. s \o <<>> = s
    BY <1>2, <2>1, ConcatEmptySeq
  <2> QED
    BY <2>1, <2>2 DEF Said, Closing
<1>4. Quiet(c, r) => Quiet(c, r)'
  BY <1>1, <1>2, <1>3 DEF Quiet, Closing
<1>5. Comes(c, r) => Comes(c, r)'
  BY <1>1 DEF Comes, Closing
<1>6. Listens(c, r) => Listens(c, r)'
  BY <1>1 DEF Listens, Closing
<1>7. Invites(c, r) => Invites(c, r)'
  BY <1>1, <1>2, <1>3 DEF Invites, Closing
<1>8. Owes(c, r) => Owes(c, r)'
  BY <1>1 DEF Owes, Closing
<1> QED
  BY <1>4, <1>5, <1>6, <1>7, <1>8 DEF Stage, Closing

LEMMA ClosedTalk ==
  ASSUME LifeInv, NEW c \in Conns, Talk(c), ~Abandoned(c), Closing(c),
         \A q : Holds(c, q) => Holds(c, q)'
  PROVE  Talk(c)'
<1>1. PICK q, r, f : Holds(c, q) /\ InStage(c, q, r, f)
  BY DEF Talk
<1>2. Manners(c) /\ Stage(c, r)
  BY <1>1 DEF Talk, InStage
<1>3. Stage(c, r)'
  BY <1>2, ClosingStage
<1>4. InStage(c, q, r, f)'
  BY <1>1, <1>3 DEF InStage, Closing, Ends
<1>5. PICK s : s = got[c] \o out[c]
  OBVIOUS
<1>6. /\ s \in Seq(Chunked) /\ Begins(s, Expected(sent[c])) /\ Expected(sent[c]) \in Seq(Chunked)
      /\ (writes[c] = <<>> => Said(c) = s) /\ Len(Said(c)) = Len(s) + Len(writes[c])
  BY <1>2, <1>5, SaidBegins
<1>7. ASSUME open[c], AsksClose(c)
      PROVE  Asked(c, {"close", "bigclose"}) /\ (s = Expected(sent[c]) \/ OneMissing(c, s))
  <2>1. /\ Asked(c, {"close", "bigclose"})
        /\ \/ Said(c) = Expected(sent[c])
           \/ writes[c] = <<>> /\ OneMissing(c, Said(c))
    BY <1>2, <1>7 DEF Stage, Quiet
  <2>2. CASE writes[c] = <<>>
    BY <1>6, <2>1, <2>2
  <2>3. CASE writes[c] # <<>>
    <3>1. Asked(c, {"big", "bigclose"}) /\ Len(writes[c]) = 1 /\ Said(c) = Expected(sent[c])
      BY <1>2, <2>1, <2>3 DEF Manners
    <3>2. Len(s) = Len(Expected(sent[c])) - 1
      BY <1>6, <3>1
    <3> QED
      BY <1>6, <2>1, <3>1, <3>2 DEF OneMissing
  <2> QED
    BY <2>2, <2>3
<1>8. cause[c] = "asked" => Asked(c, {"close", "bigclose"}) /\ (s = Expected(sent[c]) \/ OneMissing(c, s))
  BY <1>2, <1>5 DEF Manners
<1>9. Asked(c, {"close", "bigclose"}) => Asked(c, {"close", "bigclose"})'
  BY DEF Asked, Closing
<1>10. OneMissing(c, s) => OneMissing(c, s)'
  BY DEF OneMissing, Asked, Closing
<1>11. s = (got[c] \o out[c])' /\ Expected(sent[c])' = Expected(sent[c])
  BY <1>5 DEF Closing
<1>12. got'[c] \in Seq(Chunked) /\ out'[c] \in Seq(Chunked) /\ writes'[c] \in Seq(Chunked)
  BY <1>2 DEF Manners, Closing
<1>13. Manners(c)'
  BY <1>2, <1>7, <1>8, <1>9, <1>10, <1>11, <1>12 DEF Manners, Closing
<1> QED
  BY <1>1, <1>4, <1>13 DEF Talk

\* The pending read of c is answered with an error or with the end of the input.
LEMMA HoldsNothing ==
  ASSUME LifeInv, NEW v, NEW p, NEW hs, NEW c \in Conns, Moved(v, p, hs), c \in reads,
         \A j \in 1 .. Len(hs) : hs[j].rest = <<>>,
         SameReader(c), NEW q, Holds(c, q)
  PROVE  Holds(c, q)'
<1>1. ReadsOnce(c) /\ ready \in [Pool -> Seq(Waiting)]
  BY TypesOf DEF TokenOK
<1>2. NobodyWaits(c, "read") /\ \A w : ~Runs(w, c)
  BY <1>1 DEF ReadsOnce
<1>3. q = <<>>
  BY <1>2 DEF Holds, NobodyWaits
<1>4. \A w : ~Runs(w, c)'
  BY <1>2 DEF SameReader
<1>5. ASSUME NEW w, NEW i, Waits(w, i, c, "read")'
      PROVE  ready'[w][i].rest = <<>>
  <2>1. w = v /\ i \in Len(ready[v]) - p + 1 .. Len(ready[v]) - p + Len(hs)
    BY <1>1, <1>2, <1>5, WaitsMoved DEF NobodyWaits
  <2> DEFINE n == Len(ready[v]) - p
  <2>2. n \in Nat /\ Len(hs) \in Nat /\ \A j \in 1 .. Len(hs) : ready'[v][n + j] = hs[j]
    BY <1>1, MovedTypes
  <2>3. i \in n + 1 .. n + Len(hs)
    BY <2>1
  <2> HIDE DEF n
  <2>4. i - n \in 1 .. Len(hs) /\ n + (i - n) = i
    BY <2>2, <2>3
  <2>5. ready'[v][i] = hs[i - n]
    BY <2>2, <2>4
  <2> QED
    BY <2>1, <2>4, <2>5
<1> QED
  BY <1>3, <1>4, <1>5 DEF Holds, NobodyWaits

\* A socket is closed by another handler than that of a write.
LEMMA ClosingWrites ==
  ASSUME TalkInv, NEW c \in Conns, NEW who, ClosedIn(c, 0, who),
         IsWriting(c)' <=> IsWriting(c), FeedsAlone(c)'
  PROVE  Writing(c)'
<1>1. LifeInv /\ Writing(c) /\ Talk(c)
  BY DEF TalkInv
<1>2. PICK v, hs : v = home[c] /\ hs = Aborted(c)
  OBVIOUS
<1>3. Moved(v, 0, hs) /\ writes'[c] = <<>>
  BY <1>1, <1>2, CloseMoves
<1>4. /\ \A i, j \in 1 .. Len(hs) : \A k : IsFor(hs[i], c, k) /\ IsFor(hs[j], c, k) => i = j
      /\ \A j \in 1 .. Len(hs) : hs[j].rest = <<>>
      /\ writes[c] = <<>> => \A j \in 1 .. Len(hs) : ~IsFor(hs[j], c, "write")
      /\ writes[c] # <<>> => \E j \in 1 .. Len(hs) : IsFor(hs[j], c, "write")
  BY <1>2, AbortedIs, AbortedMore
<1>5. CASE writes[c] = <<>>
  <2>1. WriterKeeps(v, 0, hs, c)
    BY <1>3, <1>4, <1>5 DEF WriterKeeps
  <2> QED
    BY <1>1, <2>1, WritingKept
<1>6. CASE writes[c] # <<>>
  <2>1. WriterMoves(v, hs, c)
    BY <1>1, <1>3, <1>4, <1>6 DEF WriterMoves, Writing, IsRequest
  <2>2. NobodyWaits(c, "write") /\ \A w, i : ~HasRequest(w, i, c)
    BY <1>1, <1>6, NothingHalfSaid DEF Writing
  <2> QED
    BY <1>1, <2>1, <2>2, WritingMoves
<1> QED
  BY <1>5, <1>6

Converses == clobbered' = {} /\ \A d \in Conns : TalkKeeps(d)

LEMMA TalkOfReadFails ==
  ASSUME TalkInv, NEW w \in Pool, readFails(w)
  PROVE  Converses
<1>0. LifeInv
  BY DEF TalkInv
<1>1. PICK c : c = busy[w].conn
  OBVIOUS
<1>2. /\ c \in Conns /\ Runs(w, c) /\ w = home[c] /\ obj[c] = "live" /\ c \notin reads
      /\ busy[w].rest = <<>>
  BY <1>0, <1>1, RunningIs DEF readFails
<1>3. Writing(c) /\ Talk(c)
  BY <1>2 DEF TalkInv
<1>4. /\ \A u : ~Runs(u, c)'
      /\ \A u, d : d # c => (Runs(u, d)' <=> Runs(u, d))
  BY <1>0, <1>2, DoneRuns DEF readFails
<1>5. PICK hs, who : /\ hs = Aborted(c) /\ close(c, who, ready[w])
                     /\ who = IF busy[w].ok THEN "asked" ELSE "error"
  BY <1>1 DEF readFails
<1>6. ClosedIn(c, 0, who)
  BY <1>2, <1>5 DEF ClosedIn
<1>7. /\ Moved(w, 0, hs) /\ ~open'[c] /\ writes'[c] = <<>>
      /\ \A d \in Conns : d # c => open'[d] = open[d] /\ writes'[d] = writes[d]
  BY <1>0, <1>2, <1>5, <1>6, CloseMoves
<1>8. /\ flags' = [flags EXCEPT ![c] = flags[c] \ {"is_reading"}]
      /\ check_destroy(c, flags[c] \ {"is_reading"})
      /\ UNCHANGED <<resDone, parsing, serving, out, net, sent, got, client, clobbered>>
  BY <1>1 DEF readFails, clientVars
<1>9. /\ \A d \in Conns : d # c => flags'[d] = flags[d] /\ obj'[d] = obj[d] /\ cause'[d] = cause[d]
      /\ flags'[c] = flags[c] \ {"is_reading"} /\ obj'[c] \in {"live", "deleted"}
      /\ cause'[c] = IF open[c] THEN who ELSE cause[c]
  BY <1>0, <1>2, <1>5, <1>8, TypesOf DEF check_destroy, close
<1>10. \A d \in Conns : d # c => SameTalk(d)
  BY <1>7, <1>8, <1>9 DEF SameTalk, IsWriting, Later, AsksClose
<1>11. \A d \in Conns : d # c => SameReader(d)
  <2>1. busy' = [busy EXCEPT ![w] = None] /\ busy \in [Pool -> InHand \cup {None}]
    BY <1>0, <1>2, TypesOf DEF readFails, Done
  <2>2. \A u, d : d # c /\ Runs(u, d) => u # w
    BY <1>2 DEF Runs
  <2>3. \A u, d : d # c /\ Runs(u, d) => busy'[u] = busy[u]
    BY <2>1, <2>2 DEF Runs
  <2> QED
    BY <1>4, <2>3 DEF SameReader
<1>12. \A j \in 1 .. Len(hs) : hs[j].conn = c /\ hs[j].kind = "write"
  BY <1>2, <1>5, AbortedIs
<1>13. Moves(w, 0, hs, c)
  BY <1>7, <1>10, <1>11, <1>12 DEF Moves
<1>14. ASSUME NEW q, Holds(c, q)
       PROVE  Holds(c, q)'
  <2>1. Holds(c, busy[w].rest)
    BY <1>2 DEF Holds
  <2>2. q = <<>>
    BY <1>0, <1>2, <1>14, <2>1, HoldsOne
  <2>3. NobodyWaits(c, "read") /\ ready \in [Pool -> Seq(Waiting)]
    BY <1>0, <1>2, TypesOf DEF TokenOK, ReadsOnce
  <2>4. NobodyWaits(c, "read")'
    BY <1>7, <1>12, <2>3, WaitsKept DEF IsFor
  <2> QED
    BY <1>4, <2>2, <2>4 DEF Holds
<1>15. Closing(c)
  <2>1. cause'[c] = "asked" => cause[c] = "asked" \/ (open[c] /\ AsksClose(c))
    BY <1>1, <1>5, <1>9 DEF readFails, Failed, AsksClose
  <2> QED
    BY <1>7, <1>8, <1>9, <2>1 DEF Closing, IsWriting, Later, AsksClose
<1>16. Talk(c)'
  <2>1. Runs(w, c) /\ busy[w].kind = "read"
    BY <1>2 DEF readFails, Running
  <2>2. ~Abandoned(c)
    BY <1>0, <1>2, <1>3, <2>1, StillTalking
  <2> QED
    BY <1>0, <1>2, <1>3, <1>14, <1>15, <2>2, ClosedTalk
<1>17. Writing(c)'
  <2>1. (IsWriting(c)' <=> IsWriting(c)) /\ FeedsAlone(c)'
    BY <1>4, <1>9 DEF IsWriting, FeedsAlone
  <2> QED
    BY <1>2, <1>6, <2>1, ClosingWrites
<1> QED
  BY <1>8, <1>13, <1>16, <1>17, OthersTalk DEF Converses, TalkKeeps, TalkInv

-----------------------------------------------------------------------------
(* Steps that say nothing.                                                 *)

LEMMA SilentStep ==
  ASSUME TalkInv, NEW v, NEW p, NEW hs, Moved(v, p, hs),
         \A j \in 1 .. Len(hs) : hs[j].kind \notin {"read", "write"},
         p = 1 => ready[v][1].kind \notin {"read", "write"},
         \A d \in Conns : SameReader(d) /\ SameTalk(d), clobbered' = clobbered
  PROVE  Converses
<1>1. ASSUME NEW d \in Conns
      PROVE  TalkKeeps(d)
  <2>1. /\ \A j \in 1 .. Len(hs) : ~IsFor(hs[j], d, "read") /\ ~IsFor(hs[j], d, "write")
        /\ p = 1 => ~IsFor(ready[v][1], d, "read") /\ ~IsFor(ready[v][1], d, "write")
    BY DEF IsFor
  <2> QED
    BY <2>1, Undisturbed
<1> QED
  BY <1>1 DEF Converses, TalkInv

LEMMA SilentIdle ==
  ASSUME TalkInv, ready' = ready, \A d \in Conns : SameReader(d) /\ SameTalk(d),
         clobbered' = clobbered
  PROVE  Converses
<1>1. ready \in [Pool -> Seq(Waiting)]
  BY DEF TalkInv, LifeInv, HttpTypeOK, WorkTypes
<1>2. 0 \in Pool
  BY PoolIs
<1>3. PICK hs, v, p : hs = <<>> /\ v = 0 /\ p = 0
  OBVIOUS
<1>4. Moved(v, p, hs)
  BY <1>1, <1>2, <1>3, NothingMoves
<1> QED
  BY <1>3, <1>4, SilentStep

\* The part of the state a conversation is made of.
talkVars == <<got, out, writes, net, sent, client, parsing, serving, resDone, open, cause, flags>>

LEMMA SameVars ==
  ASSUME UNCHANGED talkVars, NEW d,
         obj'[d] \in {"none", "accepting", "leaked"} => obj[d] \in {"none", "accepting", "leaked"}
  PROVE  SameTalk(d)
BY DEF talkVars, SameTalk, IsWriting, Later, AsksClose

LEMMA SameBusy ==
  ASSUME busy' = busy, NEW d
  PROVE  SameReader(d)
BY DEF SameReader, Runs

LEMMA TalkOfServer ==
  ASSUME TalkInv,
         \/ \E w \in Pool : StartWorker(w)
         \/ Stop \/ StartAccepting \/ \E c \in Conns : AcceptFails(c)
  PROVE  Converses
<1>1. /\ ready' = ready /\ busy' = busy /\ clobbered' = clobbered
      /\ UNCHANGED talkVars
  BY DEF StartWorker, Stop, StartAccepting, AcceptFails, connVars, clientVars, talkVars
<1>2. ASSUME NEW d \in Conns,
             obj'[d] \in {"none", "accepting", "leaked"}
      PROVE  obj[d] \in {"none", "accepting", "leaked"}
  <2>0. LifeInv
    BY DEF TalkInv
  <2>1. CASE obj' = obj
    BY <1>2, <2>1
  <2>2. CASE StartAccepting
    <3>1. do_accept(None, "none")
      BY <2>2 DEF StartAccepting
    <3>2. d # None
      BY NoneAssumption
    <3> QED
      BY <1>2, <2>0, <3>1, <3>2, AcceptMoves
  <2>3. CASE \E c \in Conns : AcceptFails(c)
    <3>1. PICK c \in Conns : obj[c] = "accepting" /\ do_accept(c, "leaked")
      BY <2>3 DEF AcceptFails
    <3>2. d # c => obj'[d] = obj[d] \/ obj[d] = "none"
      BY <2>0, <3>1, AcceptMoves
    <3> QED
      BY <1>2, <3>1, <3>2
  <2> QED
    BY <2>1, <2>2, <2>3 DEF StartWorker, Stop, connVars
<1>3. \A d \in Conns : SameReader(d) /\ SameTalk(d)
  BY <1>1, <1>2, SameVars, SameBusy
<1> QED
  BY <1>1, <1>3, SilentIdle

LEMMA TalkOfProcessed ==
  ASSUME TalkInv, NEW w \in Pool, processed(w)
  PROVE  Converses
<1>1. UNCHANGED talkVars /\ obj' = obj /\ ready' = ready /\ clobbered' = clobbered
  BY DEF processed, connVars, clientVars, talkVars
<1>2. busy \in [Pool -> InHand \cup {None}] /\ busy' = [busy EXCEPT ![w] = None]
      /\ busy[w].kind = "process"
  BY DEF TalkInv, LifeInv, HttpTypeOK, WorkTypes, processed, Done, Running
<1>3. ASSUME NEW d \in Conns
      PROVE  SameReader(d)
  <2>1. \A u \in Pool \ {w} : busy'[u] = busy[u]
    BY <1>2
  <2>2. ~Runs(w, d) /\ ~Runs(w, d)'
    BY <1>2 DEF Runs
  <2> QED
    BY <2>1, <2>2 DEF SameReader, Runs
<1> QED
  BY <1>1, <1>3, SilentIdle, SameVars

LEMMA TalkOfStart ==
  ASSUME TalkInv, NEW w \in Pool, start(w)
  PROVE  Converses
<1>1. PICK c : c = Head(ready[w]).conn
  OBVIOUS
<1>2. ready[w] # <<>> /\ ready[w][1].kind = "start" /\ c \in Conns /\ ready \in [Pool -> Seq(Waiting)]
      /\ flags \in [Conns -> SUBSET ConnFlags]
  BY <1>1, DueIs, TypesOf DEF start, TalkInv, Waits
<1>3. PICK hs, p : hs = <<>> /\ p = 1
  OBVIOUS
<1>4. Moved(w, p, hs)
  BY <1>2, <1>3, PopMoves DEF start
<1>5. /\ UNCHANGED <<obj, got, out, writes, net, sent, client, parsing, serving, resDone, open, cause,
                     busy, clobbered>>
      /\ flags' = [flags EXCEPT ![c] = @ \cup {"is_reading"}]
  BY <1>1 DEF start, clientVars
<1>6. ASSUME NEW d \in Conns
      PROVE  SameTalk(d)
  <2>1. flags'[d] = flags[d] \/ flags'[d] = flags[d] \cup {"is_reading"}
    BY <1>2, <1>5
  <2> QED
    BY <1>5, <2>1 DEF SameTalk, IsWriting, Later, AsksClose
<1>7. \A d \in Conns : SameReader(d)
  BY <1>5, SameBusy
<1> QED
  BY <1>2, <1>3, <1>4, <1>5, <1>6, <1>7, SilentStep

LEMMA TalkOfReadAgain ==
  ASSUME TalkInv, NEW w \in Pool, readAgain(w)
  PROVE  Converses
<1>0. LifeInv
  BY DEF TalkInv
<1>1. PICK c : c = busy[w].conn
  OBVIOUS
<1>2. /\ c \in Conns /\ Runs(w, c) /\ w = home[c]
      /\ busy[w].rest = <<>> /\ Writing(c) /\ Talk(c)
  BY <1>0, <1>1, RunningIs DEF readAgain, TalkInv
<1>3. /\ \A u : ~Runs(u, c)'
      /\ \A u, d : d # c => (Runs(u, d)' <=> Runs(u, d))
  BY <1>0, <1>2, DoneRuns DEF readAgain
<1>4. /\ UNCHANGED <<obj, got, out, writes, net, sent, client, parsing, serving, resDone, open, cause,
                     ready, clobbered>>
      /\ \/ flags' = flags
         \/ flags' = [flags EXCEPT ![c] = @ \cup {"need_to_start_read_after_complete_"}]
  BY <1>1 DEF readAgain, clientVars
<1>5. ASSUME NEW d \in Conns
      PROVE  SameTalk(d)
  <2>1. flags'[d] = flags[d] \/ flags'[d] = flags[d] \cup {"need_to_start_read_after_complete_"}
    BY <1>0, <1>4, TypesOf
  <2> QED
    BY <1>4, <2>1 DEF SameTalk, IsWriting, Later, AsksClose
<1>6. PICK hs, p : hs = <<>> /\ p = 0
  OBVIOUS
<1>7. Moved(w, p, hs)
  <2>1. ready \in [Pool -> Seq(Waiting)]
    BY <1>0, <1>2, TypesOf
  <2> QED
    BY <1>4, <1>6, <2>1, NothingMoves
<1>8. \A d \in Conns : d # c => SameReader(d)
  <2>1. busy' = [busy EXCEPT ![w] = None] /\ busy \in [Pool -> InHand \cup {None}]
    BY <1>0, <1>2, TypesOf DEF readAgain, Done
  <2>2. \A u, d : d # c /\ Runs(u, d) => u # w
    BY <1>2 DEF Runs
  <2>3. \A u, d : d # c /\ Runs(u, d) => busy'[u] = busy[u]
    BY <2>1, <2>2 DEF Runs
  <2> QED
    BY <1>3, <2>3 DEF SameReader
<1>9. Moves(w, p, hs, c)
  BY <1>5, <1>6, <1>7, <1>8 DEF Moves
<1>10. ASSUME NEW q, Holds(c, q)
       PROVE  Holds(c, q)'
  <2>1. Holds(c, busy[w].rest)
    BY <1>2 DEF Holds
  <2>2. q = <<>>
    BY <1>0, <1>2, <1>10, <2>1, HoldsOne
  <2>3. NobodyWaits(c, "read")
    BY <1>0, <1>2, TypesOf DEF TokenOK, ReadsOnce
  <2>4. NobodyWaits(c, "read")'
    BY <1>4, <2>3 DEF NobodyWaits, Waits
  <2> QED
    BY <1>3, <2>2, <2>4 DEF Holds
<1>11. Talk(c)'
  <2>1. Runs(w, c) /\ busy[w].kind = "read"
    BY <1>2 DEF readAgain, Running
  <2>2. ~Fallen(c)
    BY <1>0, <1>2, <2>1, OneReader
  <2> QED
    BY <1>2, <1>5, <1>10, <2>2, TalkKept
<1>12. Writing(c)'
  <2>1. FeedsAlone(c)'
    BY <1>3 DEF FeedsAlone
  <2>2. WriterKeeps(w, p, hs, c)
    BY <1>2, <1>4, <1>5, <1>6, <1>7 DEF WriterKeeps, SameTalk
  <2> QED
    BY <1>0, <1>2, <2>1, <2>2, WritingKept
<1> QED
  BY <1>4, <1>9, <1>11, <1>12, OthersTalk DEF Converses, TalkKeeps, TalkInv

LEMMA TalkOfPick ==
  ASSUME TalkInv, NEW w \in Pool, Pick(w)
  PROVE  Converses
<1>0. LifeInv
  BY DEF TalkInv
<1>1. /\ UNCHANGED talkVars /\ obj' = obj /\ clobbered' = clobbered
      /\ busy' = [busy EXCEPT ![w] = Head(ready[w])] /\ Pop(w)
      /\ busy[w] = None /\ ready[w] # <<>> /\ Head(ready[w]).kind \in {"read", "process"}
  BY DEF Pick, Due, connVars, clientVars, talkVars
<1>2. ready \in [Pool -> Seq(Waiting)] /\ busy \in [Pool -> InHand \cup {None}]
  BY <1>0 DEF LifeInv, HttpTypeOK, WorkTypes
<1>3. PICK h, hs, p : h = ready[w][1] /\ hs = <<>> /\ p = 1
  OBVIOUS
<1>4. h = Head(ready[w]) /\ h \in Waiting /\ h # None
  <2>1. h = Head(ready[w]) /\ h \in Waiting
    BY <1>1, <1>2, <1>3
  <2> QED
    BY <2>1, NoneAssumption DEF Waiting
<1>5. Moved(w, p, hs)
  BY <1>1, <1>2, <1>3, PopMoves
<1>6. /\ busy'[w] = h /\ \A u \in Pool \ {w} : busy'[u] = busy[u]
      /\ \A d : ~Runs(w, d)
  BY <1>1, <1>2, <1>4 DEF Runs
<1>7. ASSUME NEW d \in Conns, ~IsFor(h, d, "read")
      PROVE  SameReader(d)
  <2>1. ~Runs(w, d)'
    BY <1>4, <1>6, <1>7 DEF Runs, IsFor, Waiting
  <2> QED
    BY <1>6, <2>1 DEF SameReader, Runs
<1>8. \A d \in Conns : SameTalk(d)
  BY <1>1, SameVars
<1>9. CASE h.kind = "process"
  <2>1. \A d \in Conns : SameReader(d)
    BY <1>7, <1>9 DEF IsFor
  <2> QED
    BY <1>1, <1>3, <1>5, <1>8, <1>9, <2>1, SilentStep
<1>10. CASE h.kind = "read"
  <2>1. PICK c : c = h.conn
    OBVIOUS
  <2>2. c \in Conns /\ Waits(w, 1, c, "read") /\ w = home[c]
    <3>1. Due(w, "read")
      BY <1>1, <1>4, <1>10 DEF Due
    <3> QED
      BY <1>0, <1>4, <2>1, <3>1, DueIs
  <2>3. Writing(c) /\ Talk(c) /\ ReadsOnce(c) /\ Lives(c)
    BY <2>2 DEF TalkInv, LifeInv, TokenOK
  <2>4. \A d \in Conns : d # c => SameReader(d) /\ SameTalk(d)
    BY <1>7, <1>8, <2>1 DEF IsFor
  <2>5. Moves(w, p, hs, c)
    BY <1>3, <1>5, <2>1, <2>4 DEF Moves
  <2>6. Runs(w, c)' /\ \A u : Runs(u, c)' => u = w
    <3>1. \A u : ~Runs(u, c)
      BY <2>2, <2>3 DEF ReadsOnce, NobodyWaits
    <3>2. \A u : Runs(u, c)' => u = w
      BY <1>6, <3>1 DEF Runs
    <3> QED
      BY <1>4, <1>6, <1>10, <2>1, <3>2 DEF Runs
  <2>7. ASSUME NEW q, Holds(c, q)
        PROVE  Holds(c, q)'
    <3>1. Holds(c, h.rest)
      BY <1>3, <2>2 DEF Holds
    <3>2. q = h.rest
      BY <1>0, <2>2, <2>7, <3>1, HoldsOne
    <3> QED
      BY <1>6, <2>6, <3>2 DEF Holds
  <2>0. ~Fallen(c) /\ ~Abandoned(c)
    BY <2>2, <2>3 DEF ReadsOnce, NobodyWaits, Fallen, Abandoned
  <2>8. Talk(c)'
    BY <1>8, <2>0, <2>2, <2>3, <2>7, TalkKept
  <2>9. ASSUME IsRequest(h.rest)
        PROVE  ~IsWriting(c)
    <3>1. Holds(c, h.rest)
      BY <1>3, <2>2 DEF Holds
    <3>2. writes[c] = <<>>
      BY <1>0, <2>0, <2>2, <2>3, <2>9, <3>1, RequestAlone DEF NoneGoesOut
    <3>3. HasRequest(w, 1, c)
      BY <1>3, <2>2, <2>9 DEF HasRequest
    <3>4. ASSUME NEW v, NEW j, Waits(v, j, c, "write")
          PROVE  FALSE
      <4>1. v = w
        BY <2>2, <2>3, <3>4 DEF Lives
      <4>2. j < 1
        BY <2>3, <3>3, <3>4, <4>1 DEF Writing
      <4>3. j \in 1 .. Len(ready[v]) /\ v \in Pool
        BY <3>4 DEF Waits
      <4> QED
        BY <1>2, <4>2, <4>3
    <3> QED
      BY <2>3, <3>2, <3>4 DEF Writing, NobodyWaits
  <2>10. FeedsAlone(c)'
    <3>1. IsWriting(c)' <=> IsWriting(c)
      BY <1>8, <2>2 DEF SameTalk
    <3> QED
      BY <1>6, <2>6, <2>9, <3>1 DEF FeedsAlone
  <2>11. WriterKeeps(w, p, hs, c)
    BY <1>3, <1>5, <1>8, <1>10, <2>2 DEF WriterKeeps, SameTalk, IsFor
  <2>12. Writing(c)'
    BY <1>0, <2>2, <2>3, <2>10, <2>11, WritingKept
  <2> QED
    BY <1>1, <2>5, <2>8, <2>12, OthersTalk DEF Converses, TalkKeeps, TalkInv
<1> QED
  BY <1>1, <1>4, <1>9, <1>10

LEMMA TalkOfFeedJunk ==
  ASSUME TalkInv, NEW w \in Pool, FeedJunk(w)
  PROVE  Converses
<1>0. LifeInv
  BY DEF TalkInv
<1>1. /\ UNCHANGED talkVars /\ obj' = obj /\ ready' = ready /\ clobbered' = clobbered
      /\ busy' = [busy EXCEPT ![w].rest = <<>>, ![w].ok = FALSE]
      /\ Running(w, "read") /\ busy[w].rest # <<>> /\ Head(busy[w].rest).part = "junk"
  BY DEF FeedJunk, Feeding, connVars, clientVars, talkVars
<1>2. PICK c, q : c = busy[w].conn /\ q = busy[w].rest
  OBVIOUS
<1>3. /\ c \in Conns /\ Runs(w, c) /\ busy[w] \in InHand /\ q \in Seq(Pieces)
      /\ ready \in [Pool -> Seq(Waiting)] /\ busy \in [Pool -> InHand \cup {None}]
  BY <1>0, <1>1, <1>2, RunningIs DEF LifeInv, HttpTypeOK, WorkTypes
<1>4. PICK b : b = busy'[w]
  OBVIOUS
<1>5. /\ b.rest = <<>> /\ b.kind = "read" /\ b.conn = c /\ b # None
      /\ \A u \in Pool \ {w} : busy'[u] = busy[u]
  <2>1. b = [busy[w] EXCEPT !.rest = <<>>, !.ok = FALSE]
    BY <1>1, <1>3, <1>4
  <2>2. /\ busy[w] \in Handlers /\ busy[w].kind = "read"
        /\ busy[w] = [kind |-> busy[w].kind, conn |-> busy[w].conn, ok |-> busy[w].ok, rest |-> busy[w].rest]
    BY <1>1, <1>3 DEF InHand, Waiting, Running, Handlers
  <2>3. b.rest = <<>> /\ b.kind = "read" /\ b.conn = c
    BY <1>2, <2>1, <2>2
  <2>4. b \in Handlers
    <3>1. <<>> \in Seq(Pieces)
      OBVIOUS
    <3> QED
      BY <2>1, <2>2, <3>1 DEF Handlers
  <2> QED
    BY <1>1, <1>3, <2>3, <2>4, NoneAssumption
<1>6. \A u, d : Runs(u, d)' <=> Runs(u, d)
  BY <1>1, <1>2, <1>3, <1>4, <1>5 DEF Runs, Running
<1>7. \A d \in Conns : SameTalk(d)
  BY <1>1, SameVars
<1>8. \A d \in Conns : d # c => SameReader(d)
  <2>1. \A u, d : d # c /\ Runs(u, d) => busy'[u] = busy[u]
    BY <1>3, <1>5 DEF Runs
  <2> QED
    BY <1>6, <2>1 DEF SameReader
<1>9. PICK hs, p : hs = <<>> /\ p = 0
  OBVIOUS
<1>10. Moves(w, p, hs, c)
  <2>1. Moved(w, p, hs)
    BY <1>1, <1>3, <1>9, NothingMoves
  <2> QED
    BY <1>7, <1>8, <1>9, <2>1 DEF Moves
<1>11. Writing(c) /\ Talk(c)
  BY <1>3 DEF TalkInv
<1>12. Holds(c, q) /\ Holds(c, <<>>)'
  BY <1>2, <1>3, <1>4, <1>5, <1>6 DEF Holds
<1>13. Stage(c, <<>>) /\ net[c] = <<>>
  <2>00. Runs(w, c) /\ busy[w].kind = "read"
    BY <1>1, <1>3 DEF Running
  <2>1. PICK t, r, f : Holds(c, t) /\ InStage(c, t, r, f)
    BY <1>0, <1>3, <1>11, <2>00, StillTalking
  <2>2. t = q
    BY <1>0, <1>3, <1>12, <2>1, HoldsOne
  <2>0. PICK n : n = net[c]
    OBVIOUS
  <2>3. Recut(q, n, r, f) /\ q # <<>> /\ q[1].part = "junk"
    BY <1>1, <1>2, <1>3, <2>0, <2>1, <2>2 DEF InStage
  <2>4. /\ r # <<>> => q[1] = r[1] /\ Recut(Tail(q), n, Tail(r), f)
        /\ r = <<>> => f # <<>> /\ q[1] = f[1] /\ Recut(Tail(q), n, <<>>, Tail(f))
    BY <2>3, FirstPiece
  <2>5. r # <<>> => r[1].part \in {"head", "tail"}
    <3>1. r # <<>> => Comes(c, r) \/ Listens(c, r)
      BY <2>1, NoneOut DEF InStage
    <3>2. /\ Piece("head", Len(sent[c]), Latest(sent[c])).part = "head"
          /\ Piece("tail", Len(sent[c]), Latest(sent[c])).part = "tail"
      BY DEF Piece
    <3>3. Whole(Len(sent[c]), Latest(sent[c]))[1] = Piece("head", Len(sent[c]), Latest(sent[c]))
      BY WholeBegins
    <3> QED
      BY <3>1, <3>2, <3>3 DEF Comes, Listens
  <2>6. r = <<>>
    BY <2>3, <2>4, <2>5
  <2>7. Tail(f) = <<>>
    <3>1. \A x : Tail(<<x>>) = <<>>
      OBVIOUS
    <3> QED
      BY <2>1, <2>4, <2>6, <3>1 DEF InStage, Ends
  <2>8. net[c] = <<>>
    <3>1. Recut(Tail(q), n, <<>>, <<>>)
      BY <2>4, <2>6, <2>7
    <3> QED
      BY <2>0, <3>1, NothingLeft
  <2> QED
    BY <2>1, <2>6, <2>8 DEF InStage
<1>14. Talk(c)'
  <2>1. Stage(c, <<>>)'
    <3>1. StillTalks(c)
      BY <1>3, <1>7 DEF SameTalk, StillTalks
    <3> QED
      BY <1>13, <3>1, StageKept
  <2>2. Manners(c)'
    <3>1. Manners(c) /\ SameTalk(c)
      BY <1>3, <1>7, <1>11 DEF Talk
    <3> QED
      BY <3>1 DEF Manners, SameTalk, Asked, OneMissing
  <2>3. Recut(<<>>, net'[c], <<>>, <<>>)
    <3>1. <<>> \in Seq(Pieces) /\ net'[c] = <<>>
      BY <1>1, <1>13 DEF talkVars
    <3> QED
      BY <3>1 DEF Recut
  <2>4. InStage(c, <<>>, <<>>, <<>>)'
    BY <2>1, <2>3 DEF InStage, Ends
  <2> QED
    BY <1>12, <2>2, <2>4 DEF Talk
<1>15. Writing(c)'
  <2>1. FeedsAlone(c)'
    <3>1. ~IsRequest(<<>>)
      BY DEF IsRequest
    <3>2. \A u : Runs(u, c)' => u = w
      BY <1>0, <1>3, <1>6 DEF LifeInv, TokenOK, Lives
    <3> QED
      BY <1>4, <1>5, <3>1, <3>2 DEF FeedsAlone
  <2>2. WriterKeeps(w, p, hs, c)
    BY <1>3, <1>7, <1>9, <1>10 DEF WriterKeeps, SameTalk, Moves
  <2> QED
    BY <1>0, <1>3, <1>11, <2>1, <2>2, WritingKept
<1> QED
  BY <1>1, <1>10, <1>14, <1>15, OthersTalk DEF Converses, TalkKeeps, TalkInv

LEMMA ClosingHolds ==
  ASSUME LifeInv, NEW c \in Conns, NEW p, NEW who, ClosedIn(c, p, who),
         p = 1 => ready[home[c]][1].kind = "write", SameReader(c), NEW q, Holds(c, q)
  PROVE  Holds(c, q)'
<1>1. PICK v, hs : v = home[c] /\ hs = Aborted(c)
  OBVIOUS
<1>2. Moved(v, p, hs)
  BY <1>1, CloseMoves
<1>3. /\ \A j \in 1 .. Len(hs) : hs[j].rest = <<>>
      /\ \A j \in 1 .. Len(hs) : hs[j].kind = "read" => c \in reads
  BY <1>1, AbortedMore, AbortedIs
<1>4. CASE c \in reads
  BY <1>2, <1>3, <1>4, HoldsNothing
<1>5. CASE c \notin reads
  <2>1. ReaderKeeps(v, p, hs, c)
    BY <1>1, <1>2, <1>3, <1>5 DEF ReaderKeeps, SameReader, IsFor
  <2> QED
    BY <2>1, HoldsKept
<1> QED
  BY <1>4, <1>5

LEMMA TalkOfExpire ==
  ASSUME TalkInv, NEW w \in Pool, expire(w)
  PROVE  Converses
<1>0. LifeInv
  BY DEF TalkInv
<1>1. PICK c : c = Head(dq[w]).fn
  OBVIOUS
<1>2. /\ UNCHANGED <<obj, home, flags, resDone, parsing, serving, out, net, sent, got, client, busy,
                     clobbered>>
      /\ \/ c # None /\ open[c] /\ close(c, "deadline", ready[w])
         \/ UNCHANGED <<open, writes, ready, cause>>
  BY <1>1 DEF expire, clientVars
<1>3. \A d \in Conns : SameReader(d)
  BY <1>2, SameBusy
<1>4. CASE UNCHANGED <<open, writes, ready, cause>>
  <2>1. UNCHANGED talkVars
    BY <1>2, <1>4 DEF talkVars
  <2> QED
    BY <1>2, <1>3, <1>4, <2>1, SameVars, SilentIdle
<1>5. CASE c # None /\ open[c] /\ close(c, "deadline", ready[w])
  <2>1. dq[w] \in Seq(Entries) /\ dq[w] # <<>>
    BY <1>0 DEF LifeInv, HttpTypeOK, TimerTypes, expire, FrontExpired
  <2>2. dq[w][1].fn = c /\ c \in Conns /\ 1 \in 1 .. Len(dq[w])
    <3>1. dq[w][1] \in Entries /\ dq[w][1] = Head(dq[w]) /\ 1 \in 1 .. Len(dq[w])
      BY <2>1
    <3>2. dq[w][1].fn \in Conns \cup {None}
      BY <3>1 DEF Entries
    <3> QED
      BY <1>1, <1>5, <3>1, <3>2
  <2>3. EntryAt(w, 1, c)
    BY <2>2 DEF EntryAt
  <2>4. w = home[c] /\ obj[c] = "live"
    BY <1>0, <2>2, <2>3 DEF LifeInv, TimerOK, TokenOK, Lives
  <2>5. PICK hs, p, who : hs = Aborted(c) /\ p = 0 /\ who = "deadline"
    OBVIOUS
  <2>6. ClosedIn(c, p, who)
    BY <1>5, <2>4, <2>5 DEF ClosedIn
  <2>7. /\ Moved(w, p, hs) /\ ~open'[c] /\ writes'[c] = <<>>
        /\ \A d \in Conns : d # c => open'[d] = open[d] /\ writes'[d] = writes[d]
    BY <1>0, <2>2, <2>4, <2>5, <2>6, CloseMoves
  <2>8. /\ cause'[c] = "deadline" /\ \A d \in Conns : d # c => cause'[d] = cause[d]
    BY <1>0, <1>5, <2>2, TypesOf DEF close
  <2>9. \A d \in Conns : d # c => SameTalk(d)
    BY <1>2, <2>7, <2>8 DEF SameTalk, IsWriting, Later, AsksClose
  <2>10. Moves(w, p, hs, c)
    BY <1>3, <2>2, <2>5, <2>7, <2>9, AbortedIs DEF Moves
  <2>11. \A q : Holds(c, q) => Holds(c, q)'
    BY <1>0, <1>3, <2>2, <2>5, <2>6, ClosingHolds
  <2>12. Closing(c)
    BY <1>2, <2>4, <2>7, <2>8 DEF Closing, IsWriting, Later, AsksClose
  <2>13. Talk(c)'
    <3>1. busy[w].kind = "process"
      BY DEF expire, Running
    <3>2. \A u : Runs(u, c) => u = w
      BY <1>0, <2>2, <2>4, TypesOf DEF TokenOK, Lives
    <3>3. ~Abandoned(c)
      BY <3>1, <3>2 DEF Abandoned, Fallen
    <3> QED
      BY <1>0, <2>2, <2>11, <2>12, <3>3, ClosedTalk DEF TalkInv
  <2>14. Writing(c)'
    <3>1. FeedsAlone(c)' /\ (IsWriting(c)' <=> IsWriting(c))
      BY <1>2, <2>2 DEF TalkInv, Writing, FeedsAlone, IsWriting, Runs
    <3> QED
      BY <2>2, <2>5, <2>6, <3>1, ClosingWrites
  <2> QED
    BY <1>2, <2>10, <2>13, <2>14, OthersTalk DEF Converses, TalkKeeps, TalkInv
<1> QED
  BY <1>2, <1>4, <1>5

LEMMA TalkOfWritten ==
  ASSUME TalkInv, NEW w \in Pool, written(w)
  PROVE  Converses
<1>0. LifeInv
  BY DEF TalkInv
<1>1. PICK c : c = Head(ready[w]).conn
  OBVIOUS
<1>2. /\ ready[w] # <<>> /\ ready[w][1].conn = c /\ c \in Conns /\ Waits(w, 1, c, "write")
      /\ ready[w][1].kind = "write"
      /\ w = home[c] /\ ready \in [Pool -> Seq(Waiting)]
  BY <1>0, <1>1, DueIs DEF written, LifeInv, HttpTypeOK, WorkTypes, Waits
<1>3. /\ flags \in [Conns -> SUBSET ConnFlags] /\ resDone \in [Conns -> BOOLEAN]
      /\ obj \in [Conns -> {"none", "accepting", "live", "deleted", "leaked"}]
      /\ cause \in [Conns -> {"none", "asked", "error", "deadline"}]
  BY <1>0, <1>2, TypesOf
<1>4. Writing(c) /\ Talk(c) /\ writes[c] = <<>> /\ IsWriting(c)
  BY <1>2 DEF TalkInv, Writing, NobodyWaits
<1>5. obj[c] \in {"live", "deleted"}
  BY <1>0, <1>2 DEF LifeInv, TokenOK, Lives
<1>6. /\ UNCHANGED <<parsing, serving, out, net, sent, got, client, busy, clobbered>>
      /\ flags' = [flags EXCEPT ![c] = flags[c] \ {"is_writing"}]
      /\ resDone' = [resDone EXCEPT ![c] = FALSE]
      /\ check_destroy(c, flags[c] \ {"is_writing"}) \/ obj' = obj
      /\ \/ AsksClose(c) /\ close(c, "asked", Tail(ready[w]))
         \/ Pop(w) /\ UNCHANGED <<open, writes, cause>>
  BY <1>1 DEF written, clientVars, ClearResponse, AsksClose
<1>7. /\ \A d \in Conns : d # c => flags'[d] = flags[d] /\ obj'[d] = obj[d] /\ resDone'[d] = resDone[d]
      /\ flags'[c] = flags[c] \ {"is_writing"} /\ obj'[c] \in {"live", "deleted"} /\ resDone'[c] = FALSE
  BY <1>2, <1>3, <1>5, <1>6 DEF check_destroy
<1>8. ~IsWriting(c)' /\ (Later(c)' <=> Later(c)) /\ (AsksClose(c)' <=> AsksClose(c))
  BY <1>7 DEF IsWriting, Later, AsksClose
<1>9. \A d \in Conns : SameReader(d)
  BY <1>6, SameBusy
<1>12. \A u : ~Runs(u, c)
  <2>1. busy[w] = None
    BY DEF written, Due
  <2>2. \A u : Runs(u, c) => u = w
    BY <1>0, <1>2, TypesOf DEF TokenOK, Lives
  <2> QED
    BY <2>1, <2>2 DEF Runs
<1>13. ~Abandoned(c)
  BY <1>12 DEF Abandoned, Fallen
<1>10. CASE AsksClose(c) /\ close(c, "asked", Tail(ready[w]))
  <2>1. PICK hs, p, who : hs = Aborted(c) /\ p = 1 /\ who = "asked"
    OBVIOUS
  <2>2. ClosedIn(c, p, who)
    BY <1>2, <1>10, <2>1 DEF ClosedIn
  <2>3. /\ Moved(w, p, hs) /\ ~open'[c] /\ writes'[c] = <<>>
        /\ \A d \in Conns : d # c => open'[d] = open[d] /\ writes'[d] = writes[d]
    BY <1>0, <1>2, <2>1, <2>2, CloseMoves
  <2>4. /\ cause'[c] = IF open[c] THEN "asked" ELSE cause[c]
        /\ \A d \in Conns : d # c => cause'[d] = cause[d]
    BY <1>2, <1>3, <1>10 DEF close
  <2>5. \A d \in Conns : d # c => SameTalk(d)
    BY <1>6, <1>7, <2>3, <2>4 DEF SameTalk, IsWriting, Later, AsksClose
  <2>6. Moves(w, p, hs, c)
    BY <1>2, <1>9, <2>1, <2>3, <2>5, AbortedIs DEF Moves
  <2>7. \A q : Holds(c, q) => Holds(c, q)'
    BY <1>0, <1>2, <1>9, <2>1, <2>2, ClosingHolds
  <2>8. Closing(c)
    BY <1>6, <1>7, <1>8, <1>10, <2>3, <2>4 DEF Closing
  <2>9. Talk(c)'
    BY <1>0, <1>2, <1>4, <1>13, <2>7, <2>8, ClosedTalk
  <2>10. Writing(c)'
    <3>1. \A j \in 1 .. Len(hs) : ~IsFor(hs[j], c, "write")
      BY <1>2, <1>4, <2>1, AbortedMore
    <3>2. Moved(w, 1, hs)
      BY <2>1, <2>3
    <3> QED
      BY <1>0, <1>2, <1>4, <1>8, <2>3, <3>1, <3>2, WritingEnds
  <2> QED
    BY <1>6, <2>6, <2>9, <2>10, OthersTalk DEF Converses, TalkKeeps, TalkInv
<1>11. CASE Pop(w) /\ UNCHANGED <<open, writes, cause>>
  <2>1. PICK hs, p : hs = <<>> /\ p = 1
    OBVIOUS
  <2>2. Moved(w, p, hs)
    BY <1>2, <1>11, <2>1, PopMoves
  <2>3. \A d \in Conns : d # c => SameTalk(d)
    BY <1>6, <1>7, <1>11 DEF SameTalk, IsWriting, Later, AsksClose
  <2>4. Moves(w, p, hs, c)
    BY <1>2, <1>9, <2>1, <2>2, <2>3 DEF Moves
  <2>5. \A q : Holds(c, q) => Holds(c, q)'
    <3>1. ReaderKeeps(w, p, hs, c)
      BY <1>2, <1>9, <2>1, <2>2 DEF ReaderKeeps, SameReader, IsFor
    <3> QED
      BY <1>0, <1>2, <3>1, HoldsKept
  <2>6. StillTalks(c)
    BY <1>6, <1>7, <1>8, <1>11 DEF StillTalks
  <2>7. PICK q, r, f : Holds(c, q) /\ InStage(c, q, r, f)
    BY <1>4, <1>13 DEF Talk
  <2>8. InStage(c, q, r, f)'
    <3>1. Stage(c, r)'
      BY <2>6, <2>7, StageKept DEF InStage
    <3> QED
      BY <2>6, <2>7, <3>1 DEF InStage, Ends, StillTalks
  <2>9. Manners(c)'
    <3>1. Manners(c)
      BY <1>4 DEF Talk
    <3> QED
      BY <1>6, <1>7, <1>11, <3>1 DEF Manners, Asked, OneMissing
  <2>10. Talk(c)'
    BY <2>5, <2>7, <2>8, <2>9 DEF Talk
  <2>11. Writing(c)'
    <3>1. Moved(w, 1, hs) /\ writes'[c] = <<>>
      BY <1>4, <1>11, <2>1, <2>2
    <3>2. \A j \in 1 .. Len(hs) : ~IsFor(hs[j], c, "write")
      BY <2>1
    <3> QED
      BY <1>0, <1>2, <1>4, <1>8, <3>1, <3>2, WritingEnds
  <2> QED
    BY <1>6, <2>4, <2>10, <2>11, OthersTalk DEF Converses, TalkKeeps, TalkInv
<1> QED
  BY <1>6, <1>10, <1>11

LEMMA TalkOfSecond ==
  ASSUME TalkInv, Second
  PROVE  Converses
<1>0. LifeInv
  BY DEF TalkInv
<1>1. UNCHANGED talkVars /\ obj' = obj /\ busy' = busy /\ clobbered' = clobbered
  BY DEF Second, connVars, clientVars, talkVars
<1>2. ready \in [Pool -> Seq(Waiting)]
  BY <1>0 DEF LifeInv, HttpTypeOK, WorkTypes
<1>3. PICK h : h = Handler("process", None, TRUE, <<>>)
  OBVIOUS
<1>4. h.kind = "process" /\ h.conn = None /\ h \in Waiting
  <2>1. <<>> \in Seq(Pieces)
    OBVIOUS
  <2> QED
    BY <1>3, <2>1 DEF Handler, Waiting, Handlers
<1>5. \A w \in Pool : ready'[w] = ready[w] \/ ready'[w] = Append(ready[w], h)
  BY <1>3 DEF Second
<1>6. ASSUME NEW d, NEW k \in {"read", "write"}, NEW w, NEW i
      PROVE  /\ Waits(w, i, d, k)' <=> Waits(w, i, d, k)
             /\ Waits(w, i, d, k) => ready'[w][i] = ready[w][i]
  <2>1. CASE w \in Pool /\ ready'[w] = ready[w]
    BY <2>1 DEF Waits
  <2>2. CASE w \in Pool /\ ready'[w] = Append(ready[w], h)
    <3>1. ready[w] \in Seq(Waiting)
      BY <1>2, <2>2
    <3>2. /\ Len(ready'[w]) = Len(ready[w]) + 1 /\ Len(ready[w]) \in Nat
          /\ ready'[w][Len(ready[w]) + 1] = h
          /\ \A j \in 1 .. Len(ready[w]) : ready'[w][j] = ready[w][j]
      BY <1>4, <2>2, <3>1, AppendProperties
    <3>3. i \in 1 .. Len(ready'[w]) => i \in 1 .. Len(ready[w]) \/ i = Len(ready[w]) + 1
      BY <3>2
    <3>4. i \in 1 .. Len(ready[w]) => i \in 1 .. Len(ready'[w])
      BY <3>2
    <3> QED
      BY <1>4, <2>2, <3>2, <3>3, <3>4 DEF Waits
  <2>3. CASE w \notin Pool
    BY <2>3 DEF Waits
  <2> QED
    BY <1>5, <2>1, <2>2, <2>3
<1>7. ASSUME NEW d \in Conns
      PROVE  TalkKeeps(d)
  <2>1. /\ NobodyWaits(d, "read")' <=> NobodyWaits(d, "read")
        /\ NobodyWaits(d, "write")' <=> NobodyWaits(d, "write")
    BY <1>6 DEF NobodyWaits
  <2>2. OneWaits(d, "write") => OneWaits(d, "write")'
    <3>1. \A w, i : Waits(w, i, d, "write")' => Waits(w, i, d, "write")
      BY <1>6
    <3> QED
      BY <3>1 DEF OneWaits
  <2>3. \A w, i : HasRequest(w, i, d)' => HasRequest(w, i, d)
    BY <1>6 DEF HasRequest
  <2>4. \A u : Runs(u, d)' <=> Runs(u, d)
    BY <1>1 DEF Runs
  <2>5. SameTalk(d) /\ Writing(d) /\ Talk(d)
    BY <1>1, SameVars DEF TalkInv
  <2>6. ASSUME NEW q, Holds(d, q)
        PROVE  Holds(d, q)'
    <3>1. ASSUME NEW w, NEW i, Waits(w, i, d, "read"), q = ready[w][i].rest
          PROVE  Holds(d, q)'
      <4>1. Waits(w, i, d, "read")' /\ ready'[w][i] = ready[w][i]
        BY <1>6, <3>1
      <4> QED
        BY <3>1, <4>1 DEF Holds
    <3> QED
      BY <1>1, <2>1, <2>4, <2>6, <3>1 DEF Holds
  <2>7. Talk(d)'
    <3>1. Fallen(d) => Fallen(d)'
      BY <1>1, <2>4 DEF Fallen
    <3> QED
      BY <2>5, <2>6, <3>1, TalkKept
  <2>8. FeedsAlone(d)'
    BY <1>1, <2>4, <2>5 DEF Writing, FeedsAlone, SameTalk
  <2>9. \A w, i, j : HasRequest(w, i, d)' /\ Waits(w, j, d, "write")' => j < i
    BY <1>6, <2>3, <2>5 DEF Writing
  <2>10. Writing(d)'
    BY <2>1, <2>2, <2>5, <2>8, <2>9 DEF Writing, SameTalk
  <2> QED
    BY <2>7, <2>10 DEF TalkKeeps
<1> QED
  BY <1>1, <1>7 DEF Converses, TalkInv

-----------------------------------------------------------------------------
(* The client.                                                             *)

LEMMA OneMore ==
  ASSUME NEW S, NEW s \in Seq(S), NEW t \in Seq(S), t # <<>>
  PROVE  /\ Append(s, Head(t)) \in Seq(S) /\ Tail(t) \in Seq(S)
         /\ Append(s, Head(t)) \o Tail(t) = s \o t
<1> DEFINE a == Append(s, Head(t))
           b == Tail(t)
<1>1. /\ Head(t) \in S /\ b \in Seq(S) /\ Len(b) = Len(t) - 1 /\ Head(t) = t[1]
      /\ \A i \in 1 .. Len(b) : b[i] = t[i + 1]
  BY HeadTailProperties
<1>2. /\ a \in Seq(S) /\ Len(a) = Len(s) + 1 /\ a[Len(s) + 1] = t[1]
      /\ \A i \in 1 .. Len(s) : a[i] = s[i]
  BY <1>1, AppendProperties
<1>3. Len(s) \in Nat /\ Len(t) \in Nat \ {0}
  OBVIOUS
<1> HIDE DEF a, b
<1>4. /\ a \o b \in Seq(S) /\ Len(a \o b) = Len(a) + Len(b)
      /\ \A i \in 1 .. Len(a) + Len(b) : (a \o b)[i] = IF i <= Len(a) THEN a[i] ELSE b[i - Len(a)]
  BY <1>1, <1>2, ConcatProperties
<1>5. /\ s \o t \in Seq(S) /\ Len(s \o t) = Len(s) + Len(t)
      /\ \A i \in 1 .. Len(s) + Len(t) : (s \o t)[i] = IF i <= Len(s) THEN s[i] ELSE t[i - Len(s)]
  BY ConcatProperties
<1>6. Len(a) + Len(b) = Len(s) + Len(t)
  BY <1>1, <1>2, <1>3
<1>7. ASSUME NEW i \in 1 .. Len(s) + Len(t)
      PROVE  (a \o b)[i] = (s \o t)[i]
  <2>1. CASE i <= Len(s)
    BY <1>2, <1>3, <1>4, <1>5, <1>6, <2>1
  <2>2. CASE i = Len(s) + 1
    BY <1>2, <1>3, <1>4, <1>5, <1>6, <2>2
  <2>3. CASE i > Len(s) + 1
    <3>1. i - Len(a) \in 1 .. Len(b) /\ (i - Len(a)) + 1 = i - Len(s)
      BY <1>1, <1>2, <1>3, <2>3
    <3>2. b[i - Len(a)] = t[i - Len(s)]
      BY <1>1, <3>1
    <3> QED
      BY <1>2, <1>3, <1>4, <1>5, <1>6, <2>3, <3>2
  <2>4. i \in Nat /\ Len(s) \in Nat
    BY <1>3
  <2>5. \A x, y \in Nat : y <= x \/ y = x + 1 \/ y > x + 1
    OBVIOUS
  <2> QED
    BY <2>1, <2>2, <2>3, <2>4, <2>5
<1>8. a \o b = s \o t
  BY <1>4, <1>5, <1>6, <1>7, SMTT(30)
<1> QED
  BY <1>1, <1>2, <1>8 DEF a, b

LEMMA CutSomewhere ==
  ASSUME NEW S, NEW s \in Seq(S), NEW n \in 1 .. Len(s)
  PROVE  /\ SubSeq(s, 1, n) \in Seq(S) /\ SubSeq(s, n + 1, Len(s)) \in Seq(S)
         /\ SubSeq(s, 1, n) \o SubSeq(s, n + 1, Len(s)) = s
<1> DEFINE a == SubSeq(s, 1, n)
           b == SubSeq(s, n + 1, Len(s))
<1>0. Len(s) \in Nat /\ n \in Nat /\ n <= Len(s)
  OBVIOUS
<1>1. a \in Seq(S) /\ Len(a) = n /\ \A i \in 1 .. n : a[i] = s[i]
  OBVIOUS
<1>2. b \in Seq(S) /\ Len(b) = Len(s) - n /\ \A i \in 1 .. Len(s) - n : b[i] = s[i + n]
  BY <1>0
<1> HIDE DEF a, b
<1>3. /\ a \o b \in Seq(S) /\ Len(a \o b) = Len(s)
      /\ \A i \in 1 .. Len(a) + Len(b) : (a \o b)[i] = IF i <= Len(a) THEN a[i] ELSE b[i - Len(a)]
  <2>1. Len(a) + Len(b) = Len(s)
    BY <1>0, <1>1, <1>2
  <2>2. /\ a \o b \in Seq(S) /\ Len(a \o b) = Len(a) + Len(b)
        /\ \A i \in 1 .. Len(a) + Len(b) : (a \o b)[i] = IF i <= Len(a) THEN a[i] ELSE b[i - Len(a)]
    <3>1. a \in Seq(S) /\ b \in Seq(S)
      BY <1>1, <1>2
    <3> QED
      BY <3>1, ConcatProperties
  <2>3. a \o b \in Seq(S) /\ Len(a \o b) = Len(s)
    BY <2>1, <2>2
  <2>4. \A i \in 1 .. Len(a) + Len(b) : (a \o b)[i] = IF i <= Len(a) THEN a[i] ELSE b[i - Len(a)]
    BY <2>2
  <2> QED
    BY <2>3, <2>4, Zenon
<1>4. ASSUME NEW i \in 1 .. Len(s)
      PROVE  (a \o b)[i] = s[i]
  <2>1. i \in 1 .. Len(a) + Len(b)
    BY <1>0, <1>1, <1>2
  <2>2. CASE i <= n
    BY <1>1, <1>3, <2>1, <2>2
  <2>3. CASE i > n
    <3>1. i - n \in 1 .. Len(s) - n /\ (i - n) + n = i
      BY <1>0, <2>3
    <3> QED
      BY <1>0, <1>1, <1>2, <1>3, <2>1, <2>3, <3>1
  <2>4. i \in Nat
    BY <1>0
  <2>5. \A x, y \in Nat : y <= x \/ y > x
    OBVIOUS
  <2> QED
    BY <1>0, <2>2, <2>3, <2>4, <2>5
<1>5. a \o b = s
  <2>1. PICK t : t = a \o b
    OBVIOUS
  <2>2. t \in Seq(S) /\ Len(t) = Len(s) /\ \A i \in 1 .. Len(s) : t[i] = s[i]
    BY <1>3, <1>4, <2>1
  <2>3. t = s
    BY <2>2
  <2> QED
    BY <2>1, <2>3
<1> QED
  BY <1>1, <1>2, <1>5 DEF a, b

\* One more piece arrives when nothing is to come after the request.
LEMMA RecutMore ==
  ASSUME NEW q, NEW n, NEW r, Recut(q, n, r, <<>>), NEW t \in Seq(Pieces)
  PROVE  Recut(q, n \o t, r, t)
<1>1. q \in Seq(Pieces) /\ n \in Seq(Pieces) /\ r \in Seq(Pieces) /\ q \o n = r \o <<>>
  BY DEF Recut
<1>2. q \o n = r
  BY <1>1, ConcatEmptySeq
<1>3. n \o t \in Seq(Pieces) /\ q \o (n \o t) = (q \o n) \o t
  <2>1. PICK S : S = Pieces
    OBVIOUS
  <2>2. q \in Seq(S) /\ n \in Seq(S) /\ t \in Seq(S)
    BY <1>1, <2>1
  <2>3. n \o t \in Seq(S)
    BY <2>2, ConcatProperties
  <2>4. q \o (n \o t) = (q \o n) \o t
    BY <2>2, ConcatAssociative
  <2> QED
    BY <2>1, <2>3, <2>4
<1> QED
  BY <1>1, <1>2, <1>3 DEF Recut

LEMMA RecutRequest ==
  ASSUME NEW q, NEW n, Recut(q, n, <<>>, <<>>), NEW t \in Seq(Pieces)
  PROVE  Recut(q, n \o t, t, <<>>)
<1>1. q = <<>> /\ n = <<>>
  BY NothingLeft
<1>2. <<>> \in Seq(Pieces) /\ <<>> \o t = t /\ t \o <<>> = t
  BY ConcatEmptySeq
<1> QED
  BY <1>1, <1>2 DEF Recut

LEMMA TalkOfOne ==
  ASSUME TalkInv, NEW c \in Conns, UNCHANGED <<ready, busy, flags, writes, clobbered>>,
         \A d \in Conns : d # c => SameTalk(d),
         (\A q : Holds(c, q) => Holds(c, q)') => Talk(c)'
  PROVE  Converses
<1>0. LifeInv
  BY DEF TalkInv
<1>1. ready \in [Pool -> Seq(Waiting)] /\ home[c] \in Pool
  BY <1>0, TypesOf
<1>2. PICK v, p, hs : v = home[c] /\ p = 0 /\ hs = <<>>
  OBVIOUS
<1>3. Moved(v, p, hs)
  BY <1>1, <1>2, NothingMoves
<1>4. \A d : SameReader(d)
  BY SameBusy
<1>5. Moves(v, p, hs, c)
  BY <1>2, <1>3, <1>4 DEF Moves
<1>6. ReaderKeeps(v, p, hs, c) /\ WriterKeeps(v, p, hs, c)
  BY <1>2, <1>3, <1>4 DEF ReaderKeeps, WriterKeeps, SameReader, IsWriting
<1>7. Talk(c)'
  BY <1>0, <1>6, HoldsKept
<1>8. Writing(c)'
  <2>1. Writing(c)
    BY DEF TalkInv
  <2>2. FeedsAlone(c)'
    BY <2>1 DEF Writing, FeedsAlone, Runs, IsWriting
  <2> QED
    BY <1>0, <1>6, <2>1, <2>2, WritingKept
<1> QED
  BY <1>5, <1>7, <1>8, OthersTalk DEF Converses, TalkKeeps, TalkInv

LEMMA TalkOfClientReads ==
  ASSUME TalkInv, NEW c \in Conns, ClientReads(c)
  PROVE  Converses
<1>0. LifeInv /\ Talk(c)
  BY DEF TalkInv
<1>1. /\ out[c] # <<>> /\ got' = [got EXCEPT ![c] = Append(@, Head(out[c]))]
      /\ out' = [out EXCEPT ![c] = Tail(@)]
      /\ UNCHANGED <<obj, open, flags, resDone, parsing, serving, writes, net, sent, client, ready,
                     busy, cause, clobbered>>
  BY DEF ClientReads
<1>2. /\ \A d \in Conns : d # c => got'[d] = got[d] /\ out'[d] = out[d]
      /\ got'[c] = Append(got[c], Head(out[c])) /\ out'[c] = Tail(out[c])
  <2>1. OfConns(got) /\ OfConns(out)
    BY <1>0, TypesOf
  <2> QED
    BY <1>1, <2>1 DEF OfConns
<1>3. \A d \in Conns : d # c => SameTalk(d)
  BY <1>1, <1>2 DEF SameTalk, IsWriting, Later, AsksClose
<1>4. Manners(c)
  BY <1>0 DEF Talk
<1>5. PICK g, o : g = got[c] /\ o = out[c]
  OBVIOUS
<1>6. g \in Seq(Chunked) /\ o \in Seq(Chunked) /\ o # <<>>
  BY <1>1, <1>4, <1>5 DEF Manners
<1>7. /\ Append(g, Head(o)) \in Seq(Chunked) /\ Tail(o) \in Seq(Chunked)
      /\ Append(g, Head(o)) \o Tail(o) = g \o o
  BY <1>6, OneMore
<1>8. got'[c] \o out'[c] = got[c] \o out[c]
  BY <1>2, <1>5, <1>7
<1>9. Said(c)' = Said(c)
  BY <1>1, <1>8 DEF Said
<1>10. Manners(c)'
  <2>1. got'[c] \in Seq(Chunked) /\ out'[c] \in Seq(Chunked)
    BY <1>2, <1>5, <1>7
  <2> QED
    BY <1>1, <1>4, <1>8, <2>1 DEF Manners, IsWriting, Asked, OneMissing
<1>11. ASSUME NEW r, Stage(c, r)
       PROVE  Stage(c, r)'
  <2>1. Quiet(c, r) \/ (sent[c] # <<>> /\ ~AsksClose(c) /\ Invites(c, r))
    BY <1>1, <1>11 DEF Stage, Comes, Listens, Owes, NoneGoesOut
  <2>2. CASE Quiet(c, r)
    BY <1>1, <1>9, <2>2 DEF Stage, Quiet, Later, AsksClose, Asked, OneMissing
  <2>3. CASE sent[c] # <<>> /\ ~AsksClose(c) /\ Invites(c, r)
    BY <1>1, <1>9, <2>3 DEF Stage, Invites, Later, AsksClose, Asked, Current
  <2> QED
    BY <2>1, <2>2, <2>3
<1>12. (\A q : Holds(c, q) => Holds(c, q)') => Talk(c)'
  <2>0. ~NoneGoesOut(c)
    BY <1>1 DEF NoneGoesOut
  <2>1. PICK q, r, f : Holds(c, q) /\ InStage(c, q, r, f)
    BY <1>0, <2>0, StillTalking
  <2>2. InStage(c, q, r, f)'
    BY <1>1, <1>11, <2>1 DEF InStage, Ends
  <2> QED
    BY <1>10, <2>1, <2>2 DEF Talk
<1> QED
  BY <1>1, <1>3, <1>12, TalkOfOne

LEMMA TalkOfLeave ==
  ASSUME TalkInv, NEW c \in Conns, ClientLeaves(c) \/ SendJunk(c)
  PROVE  Converses
<1>0. LifeInv /\ Talk(c)
  BY DEF TalkInv
<1>1. PICK part, now : Leave(c, part, now) /\ ((part = "eof" /\ now = "left") \/ (part = "junk" /\ now = "silent"))
  BY DEF ClientLeaves, SendJunk
<1>2. PICK x : x = Piece(part, 0, None)
  OBVIOUS
<1>3. /\ client[c] \in {"up", "waiting"} /\ client' = [client EXCEPT ![c] = now]
      /\ net' = [net EXCEPT ![c] = Append(@, x)]
      /\ UNCHANGED <<obj, open, flags, resDone, parsing, serving, writes, out, got, sent, ready,
                     busy, cause, clobbered>>
  BY <1>1, <1>2 DEF Leave, connVars
<1>4. /\ \A d \in Conns : d # c => net'[d] = net[d] /\ client'[d] = client[d]
      /\ net'[c] = Append(net[c], x) /\ client'[c] = now
  <2>1. net \in [Conns -> Seq(Pieces)] /\ client \in [Conns -> {"up", "waiting", "silent", "left"}]
    BY <1>0, TypesOf
  <2> QED
    BY <1>3, <2>1
<1>5. \A d \in Conns : d # c => SameTalk(d)
  BY <1>3, <1>4 DEF SameTalk, IsWriting, Later, AsksClose
<1>6. x \in Pieces
  BY <1>1, <1>2 DEF Piece, Pieces
<1>7. Manners(c)'
  <2>1. Manners(c)
    BY <1>0 DEF Talk
  <2> QED
    BY <1>3, <2>1 DEF Manners, IsWriting, Asked, OneMissing
<1>8. ASSUME NEW r, Stage(c, r)
      PROVE  Stage(c, r)'
  <2>1. now # "waiting"
    BY <1>1
  <2>2. /\ Quiet(c, r) => Quiet(c, r)'
        /\ Comes(c, r) => Comes(c, r)'
        /\ Listens(c, r) => Listens(c, r)'
        /\ Invites(c, r) => Invites(c, r)'
        /\ Owes(c, r) => Owes(c, r)'
    <3>1. Quiet(c, r) => Quiet(c, r)'
      BY <1>3, <1>4, <2>1 DEF Quiet, Said, Asked, Later, AsksClose
    <3>2. Comes(c, r) => Comes(c, r)'
      BY <1>3, <1>4, <2>1 DEF Comes, NoneGoesOut, Later
    <3>3. Listens(c, r) => Listens(c, r)'
      BY <1>3, <1>4, <2>1 DEF Listens, NoneGoesOut, Later, Current
    <3>4. Invites(c, r) => Invites(c, r)'
      BY <1>3 DEF Invites, Said, Asked, Later, Current
    <3>5. Owes(c, r) => Owes(c, r)'
      BY <1>3, <1>4, <2>1 DEF Owes, NoneGoesOut, Later, IsWriting, Asked, Current
    <3> QED
      BY <3>1, <3>2, <3>3, <3>4, <3>5
  <2> QED
    BY <1>3, <1>8, <2>2 DEF Stage, AsksClose
<1>10. ASSUME Abandoned(c)
       PROVE  Talk(c)'
  <2>1. Fallen(c)'
    BY <1>3, <1>10 DEF Abandoned, Fallen, Runs
  <2>2. now # "waiting"
    BY <1>1
  <2>3. Abandoned(c)'
    BY <1>3, <1>4, <1>10, <2>1, <2>2 DEF Abandoned, NoneGoesOut
  <2> QED
    BY <1>7, <2>3 DEF Talk
<1>9. ~Abandoned(c) /\ (\A q : Holds(c, q) => Holds(c, q)') => Talk(c)'
  <2> SUFFICES ASSUME ~Abandoned(c), \A q : Holds(c, q) => Holds(c, q)'
               PROVE  Talk(c)'
    OBVIOUS
  <2>1. PICK q, r, f : Holds(c, q) /\ InStage(c, q, r, f)
    BY <1>0 DEF Talk
  <2>2. f = <<>>
    BY <1>3, <2>1 DEF InStage, Ends
  <2>3. PICK n, t : n = net[c] /\ t = <<x>>
    OBVIOUS
  <2>4. Recut(q, n, r, <<>>) /\ t \in Seq(Pieces)
    BY <1>6, <2>1, <2>2, <2>3 DEF InStage
  <2>5. Recut(q, n \o t, r, t)
    BY <2>4, RecutMore
  <2>6. net'[c] = n \o t
    <3>1. n \in Seq(Pieces)
      BY <2>4 DEF Recut
    <3> QED
      BY <1>4, <1>6, <2>3, <3>1, AppendIsConcat
  <2>7. Ends(c, t)'
    BY <1>1, <1>2, <1>4, <2>3 DEF Ends
  <2>8. InStage(c, q, r, t)'
    BY <1>8, <2>1, <2>5, <2>6, <2>7 DEF InStage
  <2> QED
    BY <1>7, <2>1, <2>8 DEF Talk
<1> QED
  BY <1>3, <1>5, <1>9, <1>10, TalkOfOne

LEMMA TalkOfSendRequest ==
  ASSUME TalkInv, "pipeline" \notin Environment, NEW c \in Conns, NEW k \in Kinds, SendRequest(c, k)
  PROVE  Converses
<1>0. LifeInv /\ Talk(c)
  BY DEF TalkInv
<1>1. PICK ks, n, t : ks = sent[c] /\ n = Len(sent[c]) + 1 /\ t = Whole(n, k)
  OBVIOUS
<1>2. /\ obj[c] = "live" /\ client[c] = "up" /\ got[c] = Expected(sent[c])
      /\ \A i \in DOMAIN sent[c] : sent[c][i] \notin {"close", "bigclose"}
      /\ sent' = [sent EXCEPT ![c] = Append(@, k)]
      /\ net' = [net EXCEPT ![c] = @ \o t]
      /\ client' = [client EXCEPT ![c] = IF k = "expect" THEN "waiting" ELSE "up"]
      /\ UNCHANGED <<obj, open, flags, resDone, parsing, serving, writes, out, got, ready,
                     busy, cause, clobbered>>
  BY <1>1 DEF SendRequest, Request_, Whole, connVars
<1>3. /\ \A d \in Conns : d # c => net'[d] = net[d] /\ client'[d] = client[d] /\ sent'[d] = sent[d]
      /\ net'[c] = net[c] \o t /\ sent'[c] = Append(ks, k)
      /\ client'[c] = (IF k = "expect" THEN "waiting" ELSE "up")
  <2>1. /\ net \in [Conns -> Seq(Pieces)] /\ client \in [Conns -> {"up", "waiting", "silent", "left"}]
        /\ sent \in [Conns -> Seq(Kinds)]
    BY <1>0, TypesOf
  <2> QED
    BY <1>1, <1>2, <2>1
<1>4. \A d \in Conns : d # c => SameTalk(d)
  BY <1>2, <1>3 DEF SameTalk, IsWriting, Later, AsksClose
<1>5. ks \in Seq(Request) /\ k \in Request
  BY <1>0, <1>1, TypesOf, ServerAssumption
<1>6. /\ Append(ks, k) \in Seq(Request) /\ Append(ks, k) # <<>>
      /\ Len(Append(ks, k)) = n /\ n \in Nat \ {0} /\ Latest(Append(ks, k)) = k
      /\ Before(Append(ks, k)) = Expected(ks)
  <2>1. /\ Len(ks) \in Nat /\ Append(ks, k) \in Seq(Request) /\ Len(Append(ks, k)) = Len(ks) + 1
        /\ Append(ks, k)[Len(ks) + 1] = k /\ SubSeq(Append(ks, k), 1, Len(ks)) = ks
    BY <1>5
  <2>2. PICK l, m : l = Append(ks, k) /\ m = Len(ks)
    OBVIOUS
  <2>3. m \in Nat /\ Len(l) = m + 1 /\ l[m + 1] = k /\ SubSeq(l, 1, m) = ks /\ l \in Seq(Request)
    BY <2>1, <2>2
  <2>4. l # <<>> /\ (m + 1) - 1 = m /\ n = m + 1
    BY <1>1, <2>2, <2>3
  <2>5. Latest(l) = k /\ Before(l) = Expected(ks)
    BY <2>3, <2>4 DEF Latest, Before
  <2> QED
    BY <2>2, <2>3, <2>4, <2>5
<1>7. ~Asked(c, {"close", "bigclose"})
  <2>1. ASSUME ks # <<>>
        PROVE  Len(ks) \in DOMAIN ks
    BY <1>5, <2>1
  <2> QED
    BY <1>1, <1>2, <2>1 DEF Asked, Latest
<1>8. PICK q, r, f : Holds(c, q) /\ InStage(c, q, r, f)
  BY <1>0, <1>2, StillTalking
<1>9. Manners(c) /\ Stage(c, r) /\ f = <<>>
  BY <1>0, <1>2, <1>8 DEF Talk, InStage, Ends
<1>10. /\ Said(c) \in Seq(Chunked) /\ Expected(ks) \in Seq(Chunked) /\ got[c] \in Seq(Chunked)
       /\ out[c] \in Seq(Chunked) /\ writes[c] \in Seq(Chunked)
       /\ Begins(Said(c), Expected(ks)) /\ Len(Said(c)) = Len(got[c] \o out[c]) + Len(writes[c])
       /\ Len(got[c] \o out[c]) = Len(got[c]) + Len(out[c])
  <2>1. /\ Said(c) \in Seq(Chunked) /\ Expected(ks) \in Seq(Chunked)
        /\ Begins(Said(c), Expected(ks)) /\ Len(Said(c)) = Len(got[c] \o out[c]) + Len(writes[c])
    BY <1>0, <1>1, <1>9, SaidBegins
  <2>2. got[c] \in Seq(Chunked) /\ out[c] \in Seq(Chunked) /\ writes[c] \in Seq(Chunked)
    BY <1>9 DEF Manners
  <2>3. Len(got[c] \o out[c]) = Len(got[c]) + Len(out[c])
    BY <2>2, ConcatProperties
  <2> QED
    BY <2>1, <2>2, <2>3
<1>11. NoneGoesOut(c) /\ Len(Said(c)) = Len(Expected(ks))
  <2>0. PICK a, o, x, e : a = Len(Said(c)) /\ o = Len(out[c]) /\ x = Len(writes[c]) /\ e = Len(Expected(ks))
    OBVIOUS
  <2>1. /\ a = Len(Said(c)) /\ o = Len(out[c]) /\ x = Len(writes[c]) /\ e = Len(Expected(ks))
        /\ a \in Nat /\ o \in Nat /\ x \in Nat /\ e \in Nat
    <3>1. \A z \in Seq(Chunked) : Len(z) \in Nat
      OBVIOUS
    <3>2. /\ Said(c) \in Seq(Chunked) /\ Expected(ks) \in Seq(Chunked)
          /\ out[c] \in Seq(Chunked) /\ writes[c] \in Seq(Chunked)
      BY <1>10
    <3> QED
      BY <2>0, <3>1, <3>2
  <2>2. a <= e /\ a = e + o + x
    BY <1>1, <1>2, <1>10, <2>1 DEF Begins
  <2>3. o = 0 /\ x = 0 /\ a = e
    <3>1. \A h, i, j, l \in Nat : h <= l /\ h = l + i + j => i = 0 /\ j = 0 /\ h = l
      OBVIOUS
    <3>2. a \in Nat /\ o \in Nat /\ x \in Nat /\ e \in Nat
      BY <2>1
    <3> QED
      BY <2>2, <3>1, <3>2
  <2>4. \A s \in Seq(Chunked) : Len(s) = 0 => s = <<>>
    OBVIOUS
  <2> QED
    BY <1>10, <2>1, <2>3, <2>4 DEF NoneGoesOut
<1>12. Quiet(c, r)
  <2>1. ASSUME ks # <<>>
        PROVE  /\ Len(Invited(ks)) < Len(Expected(ks)) /\ Len(Before(ks)) < Len(Expected(ks))
               /\ Invited(ks) \in Seq(Chunked) /\ Before(ks) \in Seq(Chunked)
    BY <1>5, <2>1, ExpectedIsMore
  <2>2. ASSUME ks # <<>>
        PROVE  Said(c) # Invited(ks) /\ got[c] # Before(ks) /\ got[c] # Invited(ks) /\ Said(c) # Before(ks)
    <3>1. \A a, b \in Nat : a < b => a # b
      OBVIOUS
    <3>2. Len(Expected(ks)) \in Nat /\ Len(Invited(ks)) \in Nat /\ Len(Before(ks)) \in Nat
      BY <1>10, <2>1, <2>2
    <3> QED
      BY <1>1, <1>2, <1>11, <2>1, <2>2, <3>1, <3>2
  <2> QED
    BY <1>1, <1>9, <2>2 DEF Stage, Comes, Listens, Invites, Owes
<1>13. ~AsksClose(c) /\ r = <<>> /\ parsing[c] = None /\ ~Later(c)
  BY <1>7, <1>12 DEF Quiet
<1>14. t \in Seq(Pieces)
  <2>1. Piece("head", n, k) \in Pieces /\ Piece("tail", n, k) \in Pieces
    BY <1>5, <1>6 DEF Piece, Pieces
  <2>2. PICK h, x : h = Piece("head", n, k) /\ x = Piece("tail", n, k)
    OBVIOUS
  <2>3. <<h>> \in Seq(Pieces) /\ <<x>> \in Seq(Pieces) /\ <<>> \in Seq(Pieces)
    BY <2>1, <2>2
  <2> QED
    BY <1>1, <2>2, <2>3, ConcatProperties DEF Whole
<1>15. Comes(c, t)'
  <2>1. NoneGoesOut(c)' /\ parsing'[c] = None /\ ~Later(c)'
    BY <1>2, <1>11, <1>13 DEF NoneGoesOut, Later
  <2>2. t = Whole(Len(sent'[c]), Latest(sent'[c])) /\ got'[c] = Before(sent'[c])
    BY <1>1, <1>2, <1>3, <1>6
  <2>3. client'[c] = "waiting" => Asked(c, {"expect"})'
    BY <1>3, <1>6 DEF Asked
  <2> QED
    BY <2>1, <2>2, <2>3 DEF Comes
<1>16. Stage(c, t)'
  BY <1>2, <1>3, <1>6, <1>13, <1>15 DEF Stage, AsksClose
<1>17. Manners(c)'
  BY <1>2, <1>7, <1>9, <1>11 DEF Manners, NoneGoesOut, IsWriting
<1>18. InStage(c, q, t, <<>>)'
  <2>1. PICK m : m = net[c]
    OBVIOUS
  <2>2. Recut(q, m, <<>>, <<>>)
    BY <1>8, <1>9, <1>13, <2>1 DEF InStage
  <2>3. Recut(q, m \o t, t, <<>>)
    BY <1>14, <2>2, RecutRequest
  <2> QED
    BY <1>3, <1>16, <2>1, <2>3 DEF InStage, Ends
<1>19. (\A p : Holds(c, p) => Holds(c, p)') => Talk(c)'
  BY <1>8, <1>17, <1>18 DEF Talk
<1> QED
  BY <1>2, <1>4, <1>19, TalkOfOne

\* A client that has read 100 Continue has read all that was said.
LEMMA InvitationRead ==
  ASSUME NEW ks \in Seq(Request), ks # <<>>, Latest(ks) = "expect",
         NEW g \in Seq(Chunked), NEW o \in Seq(Chunked),
         g # <<>>, g[Len(g)] = Chunk(Len(ks), 0)
  PROVE  /\ g \o o # Before(ks) /\ g # Before(ks)
         /\ g \o o = Invited(ks) => g = Invited(ks) /\ o = <<>>
<1> PICK n, b, i : n = Len(ks) /\ b = Before(ks) /\ i = Invited(ks)
  OBVIOUS
<1>1. Numbered(b, n - 1) /\ n - 1 \in Nat /\ b \in Seq(Chunked) /\ i \in Seq(Chunked)
  BY ExpectedIsMore
<1>2. i = b \o <<Chunk(n, 0)>>
  BY DEF Invited, Hundred
<1>3. Len(g) \in Nat \ {0} /\ Len(o) \in Nat /\ Len(b) \in Nat
  BY <1>1
<1>4. Chunk(n, 0) \in Chunked /\ Chunk(n, 0).req = n
  BY <1>1 DEF Chunk, Chunked
<1>5. ASSUME Begins(g, b)
      PROVE  FALSE
  <2>1. Len(g) \in 1 .. Len(b) /\ b[Len(g)] = Chunk(n, 0)
    BY <1>3, <1>5 DEF Begins
  <2>2. b[Len(g)].req \in 1 .. n - 1
    BY <1>1, <2>1 DEF Numbered
  <2> QED
    BY <1>1, <1>4, <2>1, <2>2
<1>6. Begins(g, g \o o) /\ Begins(g, g)
  BY BeginsFirst
<1>7. ASSUME g \o o = i
      PROVE  g = i /\ o = <<>>
  <2>1. PICK h : h = Chunk(n, 0)
    OBVIOUS
  <2>2. /\ <<h>> \in Seq(Chunked) /\ Len(<<h>>) = 1
    BY <1>4, <2>1
  <2>3. /\ Len(i) = Len(b) + 1
        /\ \A j \in 1 .. Len(b) : i[j] = b[j]
    <3>1. PICK t : t = <<h>>
      OBVIOUS
    <3>2. t \in Seq(Chunked) /\ Len(t) = 1 /\ i = b \o t
      BY <1>2, <2>1, <2>2, <3>1
    <3>3. Len(b \o t) = Len(b) + Len(t) /\ \A j \in 1 .. Len(b) : (b \o t)[j] = b[j]
      <4>1. b \in Seq(Chunked) /\ t \in Seq(Chunked)
        BY <1>1, <3>2
      <4>2. Len(b \o t) = Len(b) + Len(t)
        BY <4>1, ConcatProperties
      <4>3. Begins(b, b \o t)
        BY <4>1, BeginsFirst
      <4> QED
        BY <4>2, <4>3 DEF Begins
    <3> QED
      BY <3>2, <3>3
  <2>4. Begins(g, i)
    BY <1>6, <1>7
  <2>5. Len(g) <= Len(i) /\ ~(Len(g) <= Len(b))
    <3>1. Len(g) <= Len(b) => Begins(g, b)
      BY <1>3, <2>3, <2>4 DEF Begins
    <3> QED
      BY <1>5, <2>4, <3>1 DEF Begins
  <2>6. Len(g) = Len(i)
    <3>1. \A x, y, z \in Nat : x <= z /\ ~(x <= y) /\ z = y + 1 => x = z
      OBVIOUS
    <3>2. Len(g) \in Nat /\ Len(i) \in Nat /\ Len(b) \in Nat
      BY <1>1
    <3> QED
      BY <2>3, <2>5, <3>1, <3>2
  <2>7. g = i
    BY <1>1, <2>4, <2>6, BeginsFirst
  <2>8. g \o o = g
    BY <1>7, <2>7
  <2>9. o = <<>>
    BY <2>8, ConcatSimplifications
  <2> QED
    BY <2>7, <2>9
<1> QED
  BY <1>5, <1>6, <1>7

LEMMA TalkOfSendBody ==
  ASSUME TalkInv, NEW c \in Conns, SendBody(c)
  PROVE  Converses
<1>0. LifeInv /\ Talk(c)
  BY DEF TalkInv
<1>1. PICK ks, n, x : ks = sent[c] /\ n = Len(sent[c]) /\ x = Piece("tail", n, "expect")
  OBVIOUS
<1>2. /\ client[c] = "waiting" /\ got[c] # <<>> /\ got[c][Len(got[c])] = Chunk(n, 0)
      /\ net' = [net EXCEPT ![c] = Append(@, x)]
      /\ client' = [client EXCEPT ![c] = "up"]
      /\ UNCHANGED <<obj, open, flags, resDone, parsing, serving, writes, out, got, sent, ready,
                     busy, cause, clobbered>>
  BY <1>1 DEF SendBody, connVars
<1>3. /\ \A d \in Conns : d # c => net'[d] = net[d] /\ client'[d] = client[d]
      /\ net'[c] = Append(net[c], x) /\ client'[c] = "up"
  <2>1. net \in [Conns -> Seq(Pieces)] /\ client \in [Conns -> {"up", "waiting", "silent", "left"}]
    BY <1>0, TypesOf
  <2> QED
    BY <1>2, <2>1
<1>4. \A d \in Conns : d # c => SameTalk(d)
  BY <1>2, <1>3 DEF SameTalk, IsWriting, Later, AsksClose
<1>5. PICK q, r, f : Holds(c, q) /\ InStage(c, q, r, f)
  BY <1>0, <1>2, StillTalking
<1>6. Manners(c) /\ Stage(c, r) /\ f = <<>>
  BY <1>0, <1>2, <1>5 DEF Talk, InStage, Ends
<1>7. sent[c] # <<>> /\ ~AsksClose(c) /\ (Comes(c, r) \/ Invites(c, r))
  BY <1>2, <1>6 DEF Stage, Quiet, Listens, Owes
<1>8. PICK g, o : g = got[c] /\ o = out[c]
  OBVIOUS
<1>9. ks \in Seq(Request) /\ ks # <<>> /\ Latest(ks) = "expect" /\ g \in Seq(Chunked) /\ o \in Seq(Chunked)
  BY <1>0, <1>1, <1>2, <1>6, <1>7, <1>8, TypesOf DEF Manners, Comes, Invites, Asked
<1>10. /\ g \o o # Before(ks) /\ g # Before(ks)
       /\ g \o o = Invited(ks) => g = Invited(ks) /\ o = <<>>
  BY <1>1, <1>2, <1>8, <1>9, InvitationRead
<1>11. Invites(c, r) /\ got[c] = Invited(sent[c]) /\ out[c] = <<>> /\ writes[c] = <<>>
  <2>1. Invites(c, r)
    BY <1>1, <1>7, <1>8, <1>10 DEF Comes
  <2>2. writes[c] = <<>> /\ Said(c) = got[c] \o out[c]
    BY <1>0, <1>6, <2>1, SaidBegins DEF Invites
  <2> QED
    BY <1>1, <1>8, <1>10, <2>1, <2>2 DEF Invites
<1>12. x \in Pieces
  BY <1>1, <1>9 DEF Piece, Pieces, Request
<1>13. Listens(c, <<x>>)'
  <2>1. x = Piece("tail", Len(sent'[c]), Latest(sent'[c]))
    BY <1>1, <1>2, <1>9
  <2>2. parsing'[c] = Current(c)' /\ ~Later(c)' /\ client'[c] # "waiting"
    BY <1>2, <1>3, <1>11 DEF Invites, Current, Later
  <2>3. NoneGoesOut(c)' /\ got'[c] = Invited(sent'[c])
    BY <1>2, <1>11 DEF NoneGoesOut
  <2> QED
    BY <2>1, <2>2, <2>3 DEF Listens
<1>14. Stage(c, <<x>>)'
  BY <1>2, <1>7, <1>13 DEF Stage, AsksClose
<1>15. Manners(c)'
  BY <1>2, <1>6 DEF Manners, IsWriting, Asked, OneMissing
<1>16. InStage(c, q, <<x>>, <<>>)'
  <2>1. PICK m, t : m = net[c] /\ t = <<x>>
    OBVIOUS
  <2>2. Recut(q, m, <<>>, <<>>) /\ t \in Seq(Pieces)
    BY <1>5, <1>6, <1>11, <1>12, <2>1 DEF InStage, Invites
  <2>3. Recut(q, m \o t, t, <<>>)
    BY <2>2, RecutRequest
  <2>4. net'[c] = m \o t
    <3>1. m \in Seq(Pieces)
      BY <2>2 DEF Recut
    <3> QED
      BY <1>3, <1>12, <2>1, <3>1, AppendIsConcat
  <2> QED
    BY <1>14, <2>1, <2>3, <2>4 DEF InStage, Ends
<1>17. (\A p : Holds(c, p) => Holds(c, p)') => Talk(c)'
  BY <1>5, <1>15, <1>16 DEF Talk
<1> QED
  BY <1>2, <1>4, <1>17, TalkOfOne

-----------------------------------------------------------------------------
(* The network.                                                            *)

\* These are one handler, of this kind.
Alone(hs, k, c, rest) ==
  /\ hs \in Seq(Waiting) /\ Len(hs) = 1
  /\ \A j \in 1 .. Len(hs) : hs[j].conn = c /\ hs[j].kind = k /\ hs[j].rest = rest

LEMMA OneHandler ==
  ASSUME NEW c \in Conns, NEW ok \in BOOLEAN, NEW k \in {"start", "read", "write"},
         NEW rest \in Seq(Pieces), NEW hs, hs = <<Handler(k, c, ok, rest)>>
  PROVE  Alone(hs, k, c, rest)
<1>1. PICK h : h = Handler(k, c, ok, rest)
  OBVIOUS
<1>2. h \in Waiting /\ h.conn = c /\ h.kind = k /\ h.rest = rest
  BY <1>1, HandlersAre
<1>3. hs \in Seq(Waiting) /\ Len(hs) = 1 /\ hs[1] = h
  BY <1>1, <1>2
<1> QED
  BY <1>2, <1>3 DEF Alone

LEMMA TalkOfReceive ==
  ASSUME TalkInv, NEW c \in Conns, Receive(c)
  PROVE  Converses
<1>0. LifeInv /\ Talk(c) /\ Writing(c)
  BY DEF TalkInv
<1>1. c \in reads /\ net[c] \in Seq(Pieces) /\ ready \in [Pool -> Seq(Waiting)] /\ home[c] \in Pool
      /\ net \in [Conns -> Seq(Pieces)] /\ ReadsOnce(c)
  BY <1>0, TypesOf DEF Receive, TokenOK
<1>2. PICK n \in 1 .. Len(net[c]) :
        /\ net' = [net EXCEPT ![c] = SubSeq(@, n + 1, Len(@))]
        /\ Queue(c, <<Handler("read", c, TRUE, SubSeq(net[c], 1, n))>>)
  BY DEF Receive
<1>3. UNCHANGED <<obj, open, flags, resDone, parsing, serving, writes, out, got, sent, client,
                  busy, cause, clobbered>>
  BY DEF Receive
<1> PICK p : p = 0
  OBVIOUS
<1>4. PICK m, a, b, v, hs :
        /\ m = net[c] /\ a = SubSeq(net[c], 1, n) /\ b = SubSeq(net[c], n + 1, Len(net[c]))
        /\ v = home[c] /\ hs = <<Handler("read", c, TRUE, a)>>
  OBVIOUS
<1>5. a \in Seq(Pieces) /\ b \in Seq(Pieces) /\ a \o b = m
  BY <1>1, <1>2, <1>4, CutSomewhere
<1>6. Alone(hs, "read", c, a)
  BY <1>4, <1>5, OneHandler
<1>7. hs \in Seq(Waiting) /\ Len(hs) = 1 /\ p # 1
  BY <1>6 DEF Alone
<1>8. Moved(v, p, hs)
  BY <1>1, <1>2, <1>4, <1>7, QueueMoves
<1>9. /\ \A d \in Conns : d # c => net'[d] = net[d]
      /\ net'[c] = b
  BY <1>1, <1>2, <1>4
<1>10. \A d \in Conns : d # c => SameTalk(d)
  BY <1>3, <1>9 DEF SameTalk, IsWriting, Later, AsksClose
<1>11. \A d : SameReader(d)
  BY <1>3, SameBusy
<1>12. \A j \in 1 .. Len(hs) : hs[j].conn = c /\ hs[j].kind = "read"
  BY <1>6 DEF Alone
<1>13. Moves(v, p, hs, c)
  BY <1>7, <1>8, <1>10, <1>11, <1>12 DEF Moves
<1>14. Holds(c, a)'
  <2>0. PICK h : h = hs[1]
    OBVIOUS
  <2>00. h.conn = c /\ h.kind = "read" /\ h.rest = a
    BY <1>6, <2>0 DEF Alone
  <2>1. \E i : Waits(v, i, c, "read")' /\ ready'[v][i] = h
    <3>1. PICK k : k = Len(ready[v]) - p + 1
      OBVIOUS
    <3>2. /\ Len(ready[v]) \in Nat /\ Len(ready'[v]) = Len(ready[v]) - p + Len(hs)
          /\ ready'[v][Len(ready[v]) - p + 1] = hs[1]
      <4>1. 1 \in 1 .. Len(hs)
        BY <1>7
      <4> QED
        BY <1>1, <1>8, <4>1, MovedTypes
    <3>3. k \in 1 .. Len(ready'[v]) /\ ready'[v][k] = h
      BY <1>4, <1>7, <2>0, <3>1, <3>2
    <3> QED
      BY <1>1, <1>4, <2>00, <3>3 DEF Waits
  <2> QED
    BY <2>00, <2>1 DEF Holds
<1>15. PICK q, r, f : Holds(c, q) /\ InStage(c, q, r, f)
  <2>1. \A u : ~Runs(u, c)
    BY <1>1 DEF ReadsOnce
  <2> QED
    BY <1>0, <2>1, StillTalking
<1>16. q = <<>>
  BY <1>1, <1>15 DEF ReadsOnce, Holds, NobodyWaits
<1>17. Stage(c, r)'
  <2>1. StillTalks(c) \/ net'[c] # net[c]
    BY <1>3 DEF StillTalks, IsWriting, Later, AsksClose
  <2>2. Stage(c, r)
    BY <1>15 DEF InStage
  <2> QED
    BY <1>3, <2>2 DEF Stage, Quiet, Comes, Listens, Invites, Owes, Said, Asked, Later, IsWriting,
                      AsksClose, NoneGoesOut, Current, OneMissing
<1>18. Recut(a, b, r, f)
  <2>1. Recut(<<>>, m, r, f)
    BY <1>4, <1>15, <1>16 DEF InStage
  <2>2. <<>> \o m = m
    BY <1>1, <1>4, ConcatEmptySeq
  <2> QED
    BY <1>5, <2>1, <2>2 DEF Recut
<1>19. InStage(c, a, r, f)'
  BY <1>3, <1>9, <1>15, <1>17, <1>18 DEF InStage, Ends
<1>20. Manners(c)'
  <2>1. Manners(c)
    BY <1>0 DEF Talk
  <2> QED
    BY <1>3, <2>1 DEF Manners, IsWriting, Asked, OneMissing
<1>21. Writing(c)'
  <2>1. WriterKeeps(v, p, hs, c)
    BY <1>3, <1>7, <1>8, <1>12 DEF WriterKeeps, IsFor, IsWriting
  <2>2. FeedsAlone(c)'
    BY <1>0, <1>3 DEF Writing, FeedsAlone, Runs, IsWriting
  <2> QED
    BY <1>0, <2>1, <2>2, WritingKept
<1> QED
  BY <1>3, <1>13, <1>14, <1>19, <1>20, <1>21, OthersTalk DEF Converses, TalkKeeps, TalkInv, Talk

LEMMA TalkOfReceiveEof ==
  ASSUME TalkInv, NEW c \in Conns, ReceiveEof(c)
  PROVE  Converses
<1>0. LifeInv /\ Talk(c) /\ Writing(c)
  BY DEF TalkInv
<1>1. c \in reads /\ ready \in [Pool -> Seq(Waiting)] /\ home[c] \in Pool
  BY <1>0, TypesOf DEF ReceiveEof
<1> PICK p : p = 0
  OBVIOUS
<1>2. PICK v, hs : v = home[c] /\ hs = <<Handler("read", c, FALSE, <<>>)>>
  OBVIOUS
<1>3. Alone(hs, "read", c, <<>>)
  <2>1. <<>> \in Seq(Pieces)
    OBVIOUS
  <2> QED
    BY <1>2, <2>1, OneHandler
<1>4. /\ hs \in Seq(Waiting) /\ p # 1
      /\ \A j \in 1 .. Len(hs) : hs[j].conn = c /\ hs[j].kind = "read"
  BY <1>3 DEF Alone
<1>5. Moved(v, p, hs)
  BY <1>1, <1>2, <1>4, QueueMoves DEF ReceiveEof
<1>6. UNCHANGED talkVars /\ UNCHANGED <<obj, busy, clobbered>>
  BY DEF ReceiveEof, clientVars, talkVars
<1>7. \A d \in Conns : SameTalk(d) /\ SameReader(d)
  BY <1>6, SameVars, SameBusy
<1>8. Moves(v, p, hs, c)
  BY <1>4, <1>5, <1>7 DEF Moves
<1>9. Talk(c)'
  <2>1. \A q : Holds(c, q) => Holds(c, q)'
    <3>1. \A j \in 1 .. Len(hs) : hs[j].rest = <<>>
      BY <1>3 DEF Alone
    <3> QED
      BY <1>0, <1>1, <1>5, <1>7, <3>1, HoldsNothing
  <2>2. Fallen(c) => Fallen(c)'
    BY <1>7, StillFallen
  <2> QED
    BY <1>0, <1>7, <2>1, <2>2, TalkKept
<1>10. Writing(c)'
  <2>1. WriterKeeps(v, p, hs, c)
    BY <1>4, <1>5, <1>7 DEF WriterKeeps, IsFor, SameTalk
  <2>2. FeedsAlone(c)'
    BY <1>0, <1>7 DEF Writing, FeedsAlone, SameReader, SameTalk
  <2> QED
    BY <1>0, <2>1, <2>2, WritingKept
<1> QED
  BY <1>6, <1>8, <1>9, <1>10, OthersTalk DEF Converses, TalkKeeps, TalkInv

LEMMA TalkOfAccept ==
  ASSUME TalkInv, NEW c \in Conns, Accept(c)
  PROVE  Converses
<1>0. LifeInv /\ Talk(c) /\ Writing(c)
  BY DEF TalkInv
<1>1. /\ ready \in [Pool -> Seq(Waiting)] /\ home[c] \in Pool /\ open \in [Conns -> BOOLEAN]
      /\ sent[c] \in Seq(Request)
  BY <1>0, TypesOf
<1>2. /\ obj[c] = "accepting" /\ open' = [open EXCEPT ![c] = TRUE] /\ do_accept(c, "live")
      /\ Queue(c, <<Handler("start", c, TRUE, <<>>)>>)
      /\ UNCHANGED <<flags, resDone, parsing, serving, writes, out, net, got, sent, client,
                  busy, cause, clobbered>>
  BY DEF Accept, clientVars
<1>3. /\ obj'[c] = "live" /\ \A d \in Conns : d # c => obj'[d] = obj[d] \/ obj[d] = "none"
  BY <1>0, <1>2, AcceptMoves
<1>4. /\ flags[c] = {} /\ ~open[c] /\ writes[c] = <<>>
  BY <1>0, <1>2, Unknown
<1> PICK p : p = 0
  OBVIOUS
<1>5. PICK v, hs : v = home[c] /\ hs = <<Handler("start", c, TRUE, <<>>)>>
  OBVIOUS
<1>6. Alone(hs, "start", c, <<>>)
  <2>1. <<>> \in Seq(Pieces)
    OBVIOUS
  <2> QED
    BY <1>5, <2>1, OneHandler
<1>7. /\ hs \in Seq(Waiting) /\ p # 1
      /\ \A j \in 1 .. Len(hs) : hs[j].conn = c /\ hs[j].kind = "start"
  BY <1>6 DEF Alone
<1>8. Moved(v, p, hs)
  BY <1>1, <1>2, <1>5, <1>7, QueueMoves
<1>9. \A d \in Conns : d # c => SameTalk(d)
  BY <1>1, <1>2, <1>3 DEF SameTalk, IsWriting, Later, AsksClose
<1>10. \A d : SameReader(d)
  BY <1>2, SameBusy
<1>11. Moves(v, p, hs, c)
  BY <1>7, <1>8, <1>9, <1>10 DEF Moves
<1>12. \A q : Holds(c, q) => Holds(c, q)'
  <2>1. ReaderKeeps(v, p, hs, c)
    BY <1>7, <1>8, <1>10 DEF ReaderKeeps, IsFor, SameReader
  <2> QED
    BY <1>0, <2>1, HoldsKept
<1>13. Writing(c)'
  <2>1. WriterKeeps(v, p, hs, c)
    BY <1>2, <1>7, <1>8 DEF WriterKeeps, IsFor, IsWriting
  <2>2. FeedsAlone(c)'
    BY <1>0, <1>2 DEF Writing, FeedsAlone, Runs, IsWriting
  <2> QED
    BY <1>0, <2>1, <2>2, WritingKept
<1>14. PICK q, r, f : Holds(c, q) /\ InStage(c, q, r, f)
  <2>1. sent[c] = <<>>
    BY <1>0, <1>2 DEF Talk, Manners
  <2> QED
    BY <1>0, <2>1, StillTalking
<1>15. Manners(c) /\ sent[c] = <<>> /\ ~resDone[c] /\ Quiet(c, r)
  BY <1>0, <1>2, <1>14 DEF Talk, Manners, InStage, Stage
<1>16. Said(c) = Expected(sent[c])
  <2>1. Expected(sent[c]) = <<>> /\ Said(c) \in Seq(Chunked) /\ Begins(Said(c), Expected(sent[c]))
    BY <1>0, <1>14, <1>15, ExpectedOfNone, SaidBegins DEF InStage
  <2>2. \A s \in Seq(Chunked) : Len(s) <= 0 => s = <<>>
    OBVIOUS
  <2> QED
    BY <2>1, <2>2 DEF Begins
<1>17. Stage(c, r)'
  <2>1. Said(c)' = Expected(sent[c])'
    BY <1>2, <1>16 DEF Said
  <2> QED
    BY <1>2, <1>15, <2>1 DEF Stage, Quiet, Later, AsksClose, Asked
<1>18. Manners(c)'
  BY <1>2, <1>3, <1>4, <1>15 DEF Manners, Asked
<1>19. InStage(c, q, r, f)'
  BY <1>2, <1>14, <1>17 DEF InStage, Ends
<1>20. Talk(c)'
  BY <1>12, <1>14, <1>18, <1>19 DEF Talk
<1> QED
  BY <1>2, <1>11, <1>13, <1>20, OthersTalk DEF Converses, TalkKeeps, TalkInv

-----------------------------------------------------------------------------
(* Writing.                                                                *)

\* These are n handlers of the end of a write.
Answers(hs, c, n) ==
  /\ hs \in Seq(Waiting) /\ Len(hs) = n
  /\ \A j \in 1 .. Len(hs) : hs[j].conn = c /\ hs[j].kind = "write"

LEMMA AnswersAre ==
  ASSUME NEW c \in Conns, NEW ok \in BOOLEAN
  PROVE  Answers(<<>>, c, 0) /\ Answers(<<Handler("write", c, ok, <<>>)>>, c, 1)
<1>1. Answers(<<>>, c, 0)
  BY DEF Answers
<1>2. PICK hs : hs = <<Handler("write", c, ok, <<>>)>>
  OBVIOUS
<1>3. Alone(hs, "write", c, <<>>)
  <2>1. <<>> \in Seq(Pieces)
    OBVIOUS
  <2> QED
    BY <1>2, <2>1, OneHandler
<1>4. Answers(hs, c, 1)
  BY <1>3 DEF Alone, Answers
<1> QED
  BY <1>1, <1>2, <1>4

LEMMA WritingAnswers ==
  ASSUME LifeInv, NEW v, NEW hs, NEW c \in Conns, NEW n, Moved(v, 0, hs), Answers(hs, c, n),
         IsWriting(c)', \/ n = 1 /\ writes'[c] = <<>>
                        \/ n = 0 /\ writes'[c] # <<>>,
         NobodyWaits(c, "write"), \A w, i : ~HasRequest(w, i, c), FeedsAlone(c)'
  PROVE  Writing(c)'
<1>1. WriterMoves(v, hs, c)
  <2>1. /\ Moved(v, 0, hs) /\ IsWriting(c)' /\ Len(hs) = n
        /\ \A j \in 1 .. Len(hs) : IsFor(hs[j], c, "write") /\ ~IsFor(hs[j], c, "read")
    BY DEF Answers, IsFor
  <2>2. CASE n = 1 /\ writes'[c] = <<>>
    <3>1. 1 \in 1 .. Len(hs) /\ \A i \in 1 .. Len(hs) : i = 1
      BY <2>1, <2>2
    <3> QED
      BY <2>1, <2>2, <3>1 DEF WriterMoves
  <2>3. CASE n = 0 /\ writes'[c] # <<>>
    <3>1. \A i \in 1 .. Len(hs) : FALSE
      BY <2>1, <2>3
    <3> QED
      BY <2>1, <2>3, <3>1 DEF WriterMoves
  <2> QED
    BY <2>2, <2>3
<1> QED
  BY <1>1, WritingMoves

LEMMA TalkOfSend ==
  ASSUME TalkInv, NEW c \in Conns, Send(c) \/ SendFails(c)
  PROVE  Converses
<1>0. LifeInv /\ Talk(c) /\ Writing(c)
  BY DEF TalkInv
<1>1. /\ writes[c] # <<>> /\ ready \in [Pool -> Seq(Waiting)] /\ home[c] \in Pool
      /\ OfConns(out) /\ OfConns(writes)
  BY <1>0, TypesOf DEF Send, SendFails
<1>2. UNCHANGED <<obj, open, flags, resDone, parsing, serving, net, got, sent, client,
                  busy, cause, clobbered>>
  BY DEF Send, SendFails, clientVars
<1>3. PICK q, r, f : Holds(c, q) /\ InStage(c, q, r, f)
  BY <1>0, <1>1, StillTalking DEF NoneGoesOut
<1>4. Manners(c) /\ Stage(c, r)
  BY <1>0, <1>3 DEF Talk, InStage
<1>5. /\ Quiet(c, r) /\ open[c] /\ Said(c) = Expected(sent[c])
      /\ Len(writes[c]) = 1 /\ Asked(c, {"big", "bigclose"}) /\ cause[c] # "asked"
  BY <1>1, <1>4 DEF Stage, Quiet, Comes, Listens, Invites, Owes, Manners, NoneGoesOut
<1>6. /\ got[c] \in Seq(Chunked) /\ out[c] \in Seq(Chunked) /\ writes[c] \in Seq(Chunked)
  BY <1>4 DEF Manners
<1>7. Tail(writes[c]) = <<>>
  <2>1. Tail(writes[c]) \in Seq(Chunked) /\ Len(Tail(writes[c])) = 0
    BY <1>1, <1>5, <1>6, HeadTailProperties
  <2>2. \A s \in Seq(Chunked) : Len(s) = 0 => s = <<>>
    OBVIOUS
  <2> QED
    BY <2>1, <2>2
<1>8. writes'[c] = <<>> /\ \A d \in Conns : d # c => out'[d] = out[d] /\ writes'[d] = writes[d]
  <2>1. CASE Send(c)
    BY <1>1, <1>7, <2>1 DEF Send, OfConns
  <2>2. CASE SendFails(c)
    BY <1>1, <2>2 DEF SendFails, OfConns
  <2> QED
    BY <2>1, <2>2
<1>9. \E hs : Answers(hs, c, 1) /\ Queue(c, hs)
  <2>1. \E ok \in BOOLEAN : Queue(c, <<Handler("write", c, ok, <<>>)>>)
    <3>1. CASE Send(c)
      BY <1>5, <3>1 DEF Send
    <3>2. CASE SendFails(c)
      BY <3>2 DEF SendFails
    <3> QED
      BY <3>1, <3>2
  <2> QED
    BY <2>1, AnswersAre
<1>10. PICK v, hs, p : Answers(hs, c, 1) /\ Queue(c, hs) /\ v = home[c] /\ p = 0
  BY <1>9
<1>11. Moved(v, p, hs)
  BY <1>1, <1>10, QueueMoves DEF Answers
<1>12. /\ \A d \in Conns : d # c => SameTalk(d)
       /\ \A d : SameReader(d)
  BY <1>2, <1>8, SameBusy DEF SameTalk, IsWriting, Later, AsksClose
<1>13. Moves(v, p, hs, c)
  BY <1>10, <1>11, <1>12 DEF Moves, Answers
<1>14. Holds(c, q)'
  <2>1. ReaderKeeps(v, p, hs, c)
    BY <1>10, <1>11, <1>12 DEF ReaderKeeps, IsFor, SameReader, Answers
  <2> QED
    BY <1>0, <1>3, <2>1, HoldsKept
<1>15. Writing(c)'
  <2>1. IsWriting(c) /\ NobodyWaits(c, "write") /\ FeedsAlone(c)
    BY <1>0, <1>1 DEF Writing
  <2>2. IsWriting(c)' /\ FeedsAlone(c)'
    BY <1>2, <2>1 DEF IsWriting, FeedsAlone, Runs
  <2>3. \A w, i : ~HasRequest(w, i, c)
    BY <1>0, <1>1, NothingHalfSaid
  <2> QED
    BY <1>0, <1>8, <1>10, <1>11, <2>1, <2>2, <2>3, WritingAnswers
<1>16. Manners(c)' /\ Quiet(c, r)'
  <2>1. CASE Send(c)
    <3>1. out'[c] = Append(out[c], Head(writes[c])) /\ client[c] # "left"
      BY <1>1, <2>1 DEF Send, OfConns
    <3>2. PICK s, t, u, x : s = got[c] /\ t = out[c] /\ u = writes[c] /\ x = out'[c]
      OBVIOUS
    <3>a. /\ s \in Seq(Chunked) /\ t \in Seq(Chunked) /\ u \in Seq(Chunked) /\ u # <<>>
          /\ x = Append(t, Head(u)) /\ Tail(u) = <<>>
      BY <1>1, <1>6, <1>7, <3>1, <3>2
    <3>b. Append(t, Head(u)) \in Seq(Chunked) /\ Append(t, Head(u)) \o Tail(u) = t \o u
      BY <3>a, OneMore
    <3>3. x \in Seq(Chunked) /\ x \o <<>> = t \o u
      BY <3>a, <3>b
    <3>4. x \o <<>> = x
      BY <3>3, ConcatEmptySeq
    <3>5. s \o x = (s \o t) \o u
      <4>1. s \o (t \o u) = (s \o t) \o u
        BY <3>a, ConcatAssociative, SMTT(30)
      <4> QED
        BY <3>3, <3>4, <4>1
    <3>6. (s \o x) \o <<>> = s \o x
      <4>1. s \o x \in Seq(Chunked)
        BY <1>6, <3>2, <3>3, ConcatProperties
      <4> QED
        BY <4>1, ConcatEmptySeq
    <3>7. Said(c)' = Said(c)
      BY <1>2, <1>8, <3>2, <3>5, <3>6 DEF Said
    <3>8. Manners(c)'
      BY <1>2, <1>4, <1>5, <1>6, <1>8, <3>2, <3>3 DEF Manners, IsWriting
    <3>9. Quiet(c, r)'
      BY <1>2, <1>5, <3>7 DEF Quiet, Later, AsksClose, Asked
    <3> QED
      BY <3>8, <3>9
  <2>2. CASE SendFails(c)
    <3>1. out' = out /\ client[c] = "left"
      BY <2>2 DEF SendFails
    <3>2. PICK s : s = got[c] \o out[c]
      OBVIOUS
    <3>3. /\ s \in Seq(Chunked) /\ Begins(s, Expected(sent[c]))
          /\ Len(Said(c)) = Len(s) + Len(writes[c])
      BY <1>0, <1>4, <3>2, SaidBegins
    <3>4. OneMissing(c, s)
      <4>1. Len(s) = Len(Expected(sent[c])) - 1
        <5>1. Len(s) \in Nat /\ Len(Expected(sent[c])) = Len(s) + 1
          BY <1>5, <3>3
        <5> QED
          BY <5>1
      <4> QED
        BY <1>5, <3>3, <4>1 DEF OneMissing
    <3>5. Said(c)' = s
      <4>1. s \o <<>> = s
        BY <3>3, ConcatEmptySeq
      <4> QED
        BY <1>2, <1>8, <3>1, <3>2, <4>1 DEF Said
    <3>6. OneMissing(c, Said(c))'
      BY <1>2, <3>4, <3>5 DEF OneMissing, Asked
    <3>7. Quiet(c, r)'
      BY <1>2, <1>5, <1>8, <3>1, <3>6 DEF Quiet, Later, AsksClose, Asked
    <3>8. Manners(c)'
      <4>1. <<>> \in Seq(Chunked)
        OBVIOUS
      <4> QED
        BY <1>2, <1>4, <1>5, <1>6, <1>8, <3>1, <4>1 DEF Manners, IsWriting
    <3> QED
      BY <3>7, <3>8
  <2> QED
    BY <2>1, <2>2
<1>17. InStage(c, q, r, f)'
  BY <1>2, <1>3, <1>16 DEF InStage, Ends, Stage
<1>18. Talk(c)'
  BY <1>14, <1>16, <1>17 DEF Talk
<1> QED
  BY <1>2, <1>13, <1>15, <1>18, OthersTalk DEF Converses, TalkKeeps, TalkInv

\* Something is said on c: to the socket when it is open, and nothing else.
Spoke(c, chunks, members) ==
  /\ clobbered' = clobbered
  /\ \A d \in Conns : d # c => flags'[d] = flags[d] /\ out'[d] = out[d] /\ writes'[d] = writes[d]
  /\ flags'[c] \in {members, members \cup {"is_writing"}}
  /\ out'[c] \in Seq(Chunked) /\ writes'[c] \in Seq(Chunked)
  /\ open[c] => /\ IsWriting(c)' /\ out'[c] \o writes'[c] = chunks
                /\ Len(writes'[c]) = Len(chunks) - 1
  /\ ~open[c] => out'[c] = <<>> /\ writes'[c] = <<>>

LEMMA Speaking ==
  ASSUME TalkInv, NEW c \in Conns, NEW chunks \in Seq(Chunked), chunks # <<>>,
         NEW members \in SUBSET ConnFlags, "is_writing" \notin members,
         do_write(c, chunks, members) \/ complete_request(c, chunks, members),
         NoneGoesOut(c), ~IsWriting(c), \A w, i : ~HasRequest(w, i, c)
  PROVE  /\ Spoke(c, chunks, members)
         /\ \E hs : /\ Moved(home[c], 0, hs)
                    /\ \A j \in 1 .. Len(hs) : hs[j].conn = c /\ hs[j].kind = "write"
         /\ FeedsAlone(c)' => Writing(c)'
<1>0. LifeInv /\ Writing(c)
  BY DEF TalkInv
<1>1. /\ ready \in [Pool -> Seq(Waiting)] /\ home[c] \in Pool /\ flags \in [Conns -> SUBSET ConnFlags]
      /\ OfConns(out) /\ OfConns(writes)
  BY <1>0, TypesOf
<1>2. out[c] = <<>> /\ writes[c] = <<>> /\ Len(<<>>) < Room
  BY ServerAssumption DEF NoneGoesOut
<1>3. NobodyWaits(c, "write")
  BY <1>0 DEF Writing
<1>4. <<>> \in Seq(Chunked)
  OBVIOUS
<1>5. CASE ~open[c] /\ complete_request(c, chunks, members)
  <2>1. /\ flags' = [flags EXCEPT ![c] = members] /\ UNCHANGED <<writes, out, ready, clobbered>>
    BY <1>5 DEF complete_request
  <2>2. flags'[c] = members /\ ~IsWriting(c)'
    BY <1>1, <2>1 DEF IsWriting
  <2>3. Spoke(c, chunks, members)
    BY <1>1, <1>2, <1>4, <1>5, <2>1, <2>2 DEF Spoke
  <2>4. PICK hs, p : hs = <<>> /\ p = 0
    OBVIOUS
  <2>5. Moved(home[c], p, hs) /\ \A j \in 1 .. Len(hs) : FALSE
    BY <1>1, <2>1, <2>4, NothingMoves
  <2>6. WriterKeeps(home[c], p, hs, c)
    BY <2>1, <2>2, <2>4, <2>5 DEF WriterKeeps
  <2>7. FeedsAlone(c)' => Writing(c)'
    BY <1>0, <2>6, WritingKept
  <2> QED
    BY <2>3, <2>4, <2>5, <2>7
<1>6. CASE do_write(c, chunks, members)
  <2>1. clobbered' = clobbered /\ flags' = [flags EXCEPT ![c] = members \cup {"is_writing"}]
    BY <1>6 DEF do_write, IsWriting
  <2>2. flags'[c] = members \cup {"is_writing"} /\ IsWriting(c)'
    BY <1>1, <2>1 DEF IsWriting
  <2>3. PICK x : x = IF Len(chunks) = 1 THEN <<Handler("write", c, TRUE, <<>>)>> ELSE <<>>
    OBVIOUS
  <2>4. /\ ~open[c] => Queue(c, <<Handler("write", c, FALSE, <<>>)>>) /\ UNCHANGED <<out, writes>>
        /\ open[c] => /\ out' = [out EXCEPT ![c] = Append(@, Head(chunks))]
                      /\ writes' = [writes EXCEPT ![c] = Tail(chunks)]
                      /\ Queue(c, x)
    BY <1>2, <1>6, <2>3 DEF do_write
  <2>5. /\ Tail(chunks) \in Seq(Chunked) /\ Len(Tail(chunks)) = Len(chunks) - 1
        /\ Len(chunks) \in Nat
    BY HeadTailProperties
  <2>6. (Len(chunks) = 1 <=> Tail(chunks) = <<>>) /\ (Len(chunks) # 1 <=> Tail(chunks) # <<>>)
    <3>1. \A s \in Seq(Chunked) : (Len(s) = 0 <=> s = <<>>) /\ Len(s) \in Nat
      OBVIOUS
    <3>2. PICK t, m, n : t = Tail(chunks) /\ m = Len(t) /\ n = Len(chunks)
      OBVIOUS
    <3>3. t \in Seq(Chunked) /\ m = n - 1 /\ n \in Nat
      BY <2>5, <3>2
    <3>4. m \in Nat /\ (m = 0 <=> t = <<>>)
      BY <3>1, <3>2, <3>3
    <3>5. (n = 1 <=> t = <<>>) /\ (n # 1 <=> t # <<>>)
      BY <3>3, <3>4
    <3> QED
      BY <3>2, <3>5
  <2>7. \E hs, n : /\ Answers(hs, c, n) /\ Queue(c, hs)
                   /\ \/ n = 1 /\ writes'[c] = <<>>
                      \/ n = 0 /\ writes'[c] # <<>>
    <3>1. CASE ~open[c]
      BY <1>2, <2>4, <3>1, AnswersAre
    <3>2. CASE open[c] /\ Len(chunks) = 1
      <4>1. Answers(x, c, 1)
        BY <2>3, <3>2, AnswersAre
      <4>2. writes'[c] = <<>>
        BY <1>1, <2>4, <2>6, <3>2 DEF OfConns
      <4> QED
        BY <2>4, <3>2, <4>1, <4>2
    <3>3. CASE open[c] /\ Len(chunks) # 1
      <4>1. Answers(x, c, 0)
        BY <2>3, <3>3, AnswersAre
      <4>2. writes'[c] # <<>>
        BY <1>1, <2>4, <2>6, <3>3 DEF OfConns
      <4> QED
        BY <2>4, <3>3, <4>1, <4>2
    <3> QED
      BY <3>1, <3>2, <3>3
  <2>8. PICK hs, n : /\ Answers(hs, c, n) /\ Queue(c, hs)
                     /\ \/ n = 1 /\ writes'[c] = <<>>
                        \/ n = 0 /\ writes'[c] # <<>>
    BY <2>7
  <2>9. Moved(home[c], 0, hs)
    BY <1>1, <2>8, QueueMoves DEF Answers
  <2>10. FeedsAlone(c)' => Writing(c)'
    BY <1>0, <1>3, <2>2, <2>8, <2>9, WritingAnswers
  <2>11. open[c] => /\ out'[c] \in Seq(Chunked) /\ writes'[c] = Tail(chunks)
                    /\ out'[c] \o writes'[c] = chunks
    <3>1. PICK e, t, u : e = <<>> /\ t = chunks /\ u = Append(e, Head(t))
      OBVIOUS
    <3>2. open[c] => out'[c] = u /\ writes'[c] = Tail(t)
      BY <1>1, <1>2, <2>4, <3>1 DEF OfConns
    <3>3. e \in Seq(Chunked) /\ t \in Seq(Chunked) /\ t # <<>> /\ e \o t = t
      BY <1>4, <3>1, ConcatEmptySeq
    <3>4. u \in Seq(Chunked) /\ u \o Tail(t) = t
      BY <3>1, <3>3, OneMore
    <3> QED
      BY <3>1, <3>2, <3>4
  <2>12. \A d \in Conns : d # c => flags'[d] = flags[d] /\ out'[d] = out[d] /\ writes'[d] = writes[d]
    BY <1>1, <2>1, <2>4 DEF OfConns
  <2>13. Spoke(c, chunks, members)
    BY <1>2, <1>4, <2>1, <2>2, <2>4, <2>5, <2>11, <2>12 DEF Spoke
  <2> QED
    BY <2>8, <2>9, <2>10, <2>13 DEF Answers
<1> QED
  BY <1>5, <1>6 DEF complete_request

\* A step of the parser: one piece less to feed.
LEMMA FedHolds ==
  ASSUME TalkInv, NEW w \in Pool, Running(w, "read"), busy[w].rest # <<>>,
         busy' = [busy EXCEPT ![w].rest = Tail(@)], NEW c, c = busy[w].conn,
         NEW q, q = busy[w].rest
  PROVE  /\ c \in Conns /\ Runs(w, c) /\ w = home[c] /\ Holds(c, q) /\ Holds(c, Tail(q))'
         /\ ~Abandoned(c)
         /\ \A d \in Conns : d # c => SameReader(d)
         /\ ~IsWriting(c)' \/ ~IsRequest(Tail(q)) => FeedsAlone(c)'
         /\ IsRequest(q) => ~IsWriting(c)
         /\ \A v, i : ~HasRequest(v, i, c)
<1>0. LifeInv
  BY DEF TalkInv
<1>1. /\ c \in Conns /\ Runs(w, c) /\ w = home[c] /\ busy[w] \in InHand
      /\ \A u, d : Runs(u, d)' <=> Runs(u, d)
      /\ busy \in [Pool -> InHand \cup {None}]
  BY <1>0, RunningIs, FedRuns DEF LifeInv, HttpTypeOK, WorkTypes
<1>2. /\ Writing(c) /\ TokenOK(c)
  BY <1>0, <1>1, TypesOf DEF TalkInv
<1>3. busy'[w].rest = Tail(q) /\ \A u \in Pool \ {w} : busy'[u] = busy[u]
  <2>1. DOMAIN busy[w] = {"kind", "conn", "ok", "rest"}
    BY <1>1 DEF InHand, Waiting, Handlers
  <2> QED
    BY <1>1, <2>1
<1>4. Holds(c, q) /\ Holds(c, Tail(q))'
  BY <1>1, <1>3 DEF Holds
<1>5. \A d \in Conns : d # c => SameReader(d)
  <2>1. \A u, d : d # c /\ Runs(u, d) => busy'[u] = busy[u]
    BY <1>3 DEF Runs
  <2> QED
    BY <1>1, <2>1 DEF SameReader
<1>6. \A u : Runs(u, c)' => u = w
  BY <1>1, <1>2 DEF TokenOK, Lives
<1>7. ~IsWriting(c)' \/ ~IsRequest(Tail(q)) => FeedsAlone(c)'
  BY <1>3, <1>6 DEF FeedsAlone
<1>8. IsRequest(q) => ~IsWriting(c)
  BY <1>1, <1>2 DEF Writing, FeedsAlone
<1>9. \A v, i : ~HasRequest(v, i, c)
  BY <1>1, <1>2 DEF TokenOK, ReadsOnce, NobodyWaits, HasRequest
<1>10. ~Abandoned(c)
  <2>1. busy[w].kind = "read"
    BY DEF Running
  <2> QED
    BY <1>0, <1>1, <2>1, OneReader DEF Abandoned
<1> QED
  BY <1>1, <1>4, <1>5, <1>7, <1>8, <1>9, <1>10

\* What is left once the first piece of a request is fed.
LEMMA RequestFed ==
  ASSUME LifeInv, NEW c \in Conns, Talk(c), ~Abandoned(c), NEW q, Holds(c, q), IsRequest(q)
  PROVE  \E r, f : /\ Stage(c, r) /\ Ends(c, f) /\ NoneGoesOut(c)
                   /\ sent[c] # <<>> /\ ~AsksClose(c) /\ Recut(Tail(q), net[c], Tail(r), f)
                   /\ \/ Comes(c, r) /\ q[1] = Piece("head", Len(sent[c]), Latest(sent[c]))
                      \/ Listens(c, r) /\ q[1] = Piece("tail", Len(sent[c]), Latest(sent[c]))
<1>1. PICK r, f : /\ InStage(c, q, r, f) /\ r # <<>> /\ NoneGoesOut(c)
                  /\ q[1] = r[1] /\ Recut(Tail(q), net[c], Tail(r), f)
  BY RequestAlone
<1>2. Stage(c, r) /\ Ends(c, f)
  BY <1>1 DEF InStage
<1>3. sent[c] # <<>> /\ ~AsksClose(c) /\ (Comes(c, r) \/ Listens(c, r))
  BY <1>1, <1>2, NoneOut
<1>4. Comes(c, r) => r[1] = Piece("head", Len(sent[c]), Latest(sent[c]))
  BY WholeBegins DEF Comes
<1>5. Listens(c, r) => r[1] = Piece("tail", Len(sent[c]), Latest(sent[c]))
  BY DEF Listens
<1> QED
  BY <1>1, <1>2, <1>3, <1>4, <1>5

\* After the whole request there is no other to feed.
LEMMA NoneFollows ==
  ASSUME NEW c, NEW q, NEW n, NEW f, Recut(q, n, <<>>, f), Ends(c, f)
  PROVE  ~IsRequest(q)
<1> SUFFICES ASSUME q # <<>>
             PROVE  q[1].part \notin {"head", "tail"}
  BY DEF IsRequest
<1>1. PICK r : r = <<>>
  OBVIOUS
<1>2. Recut(q, n, r, f)
  BY <1>1
<1>3. /\ r # <<>> => q[1] = r[1] /\ Recut(Tail(q), n, Tail(r), f)
      /\ r = <<>> => f # <<>> /\ q[1] = f[1] /\ Recut(Tail(q), n, <<>>, Tail(f))
  BY <1>2, FirstPiece
<1>4. f # <<>> /\ q[1] = f[1]
  BY <1>1, <1>3
<1> QED
  BY <1>4 DEF Ends, Piece

\* The answer to a request that is fed as a whole.
LEMMA Answered ==
  ASSUME LifeInv, NEW c \in Conns, Manners(c), sent[c] # <<>>, NoneGoesOut(c),
         got[c] = Invited(sent[c]), client[c] # "waiting", NEW chunks, NEW members,
         Spoke(c, chunks, members),
         open[c] => chunks = Own(Len(sent[c]), Latest(sent[c])),
         "need_to_call_after_handlers_" \notin members,
         "close_connection_" \in members => Asked(c, {"close", "bigclose"}),
         UNCHANGED <<obj, open, got, sent, client, cause>>, parsing'[c] = None
  PROVE  Manners(c)' /\ Quiet(c, <<>>)'
<1>1. sent[c] \in Seq(Request) /\ got[c] \in Seq(Chunked)
  BY TypesOf DEF Manners
<1>2. PICK n, k, e, g, o : /\ n = Len(sent[c]) /\ k = Latest(sent[c]) /\ e = Expected(sent[c])
                           /\ g = got[c] /\ o = Own(n, k)
  OBVIOUS
<1>3. /\ o \in Seq(Chunked) /\ g \in Seq(Chunked) /\ e = g \o o /\ Begins(g, e)
  BY <1>1, <1>2, ExpectedIsMore
<1>4. PICK x, u : x = out'[c] /\ u = writes'[c]
  OBVIOUS
<1>5. /\ x \in Seq(Chunked) /\ u \in Seq(Chunked)
      /\ open[c] => x \o u = o /\ Len(u) = Len(o) - 1
      /\ ~open[c] => x = <<>> /\ u = <<>>
  BY <1>2, <1>4 DEF Spoke
<1>6. Said(c)' = (g \o x) \o u
  BY <1>2, <1>4 DEF Said
<1>7. open[c] => (g \o x) \o u = e
  <2>1. (g \o x) \o u = g \o (x \o u)
    BY <1>3, ConcatAssociative, SMTT(30)
  <2> QED
    BY <1>3, <1>5, <2>1
<1>8. ~open[c] => (g \o x) \o u = g
  <2>1. g \o <<>> = g
    BY <1>3, ConcatEmptySeq
  <2> QED
    BY <1>5, <2>1
<1>9. /\ Later(c)' <=> FALSE
      /\ AsksClose(c)' => Asked(c, {"close", "bigclose"})'
  BY DEF Spoke, Later, AsksClose, Asked
<1>10. Quiet(c, <<>>)'
  BY <1>2, <1>3, <1>6, <1>7, <1>8, <1>9 DEF Quiet
<1>11. u # <<>> => Asked(c, {"big", "bigclose"}) /\ Len(u) = 1
  <2>1. n \in Nat
    BY <1>1, <1>2
  <2>2. o = IF k \in {"big", "bigclose"} THEN <<Chunk(n, 1), Chunk(n, 2)>> ELSE <<Chunk(n, 1)>>
    BY <1>2, <2>1, OwnChunks
  <2>3. /\ k \in {"big", "bigclose"} => Len(o) = 2
        /\ k \notin {"big", "bigclose"} => Len(o) = 1
    BY <2>2
  <2>4. \A s \in Seq(Chunked) : Len(s) = 0 => s = <<>>
    OBVIOUS
  <2>5. u # <<>> => open[c] /\ Len(u) = Len(o) - 1 /\ Len(u) # 0
    BY <1>5, <2>4
  <2>6. u # <<>> => k \in {"big", "bigclose"} /\ Len(u) = 1
    <3>1. PICK l, m : l = Len(o) /\ m = Len(u)
      OBVIOUS
    <3>2. u # <<>> => m = l - 1 /\ m # 0
      BY <2>5, <3>1
    <3>3. l = 2 \/ l = 1
      BY <2>3, <3>1
    <3>4. u # <<>> => l = 2 /\ m = 1
      BY <3>2, <3>3
    <3>5. k \notin {"big", "bigclose"} => l = 1
      BY <2>3, <3>1
    <3>6. l = 2 => k \in {"big", "bigclose"}
      BY <3>5
    <3> QED
      BY <3>1, <3>4, <3>6
  <2> QED
    BY <1>2, <2>6 DEF Asked
<1>12. Manners(c)'
  <2>1. resDone'[c] => IsWriting(c)' \/ ~open'[c]
    BY DEF Spoke
  <2>2. ~open'[c] => writes'[c] = <<>>
    BY <1>4, <1>5
  <2>3. ~open[c] => out'[c] = out[c]
    BY DEF Spoke, NoneGoesOut
  <2> QED
    BY <1>1, <1>4, <1>5, <1>11, <2>1, <2>2, <2>3 DEF Manners, Asked, OneMissing
<1> QED
  BY <1>10, <1>12

LEMMA TalkOfFeedHead ==
  ASSUME TalkInv, NEW w \in Pool, FeedHead(w)
  PROVE  Converses
<1>0. LifeInv
  BY DEF TalkInv
<1>1. PICK c, q, p : c = busy[w].conn /\ q = busy[w].rest /\ p = Head(q)
  OBVIOUS
<1>2. /\ Running(w, "read") /\ q # <<>> /\ p.part = "head"
      /\ busy' = [busy EXCEPT ![w].rest = Tail(@)]
      /\ parsing' = [parsing EXCEPT ![c] = [req |-> p.req, kind |-> p.kind]]
      /\ IF Expects100(p) THEN do_write(c, <<Chunk(p.req, 0)>>, flags[c])
         ELSE UNCHANGED <<flags, writes, out, ready, clobbered>>
      /\ UNCHANGED <<obj, open, resDone, serving, net, sent, got, client, cause>>
  BY <1>1 DEF FeedHead, Feeding, Fed, clientVars
<1>3. /\ c \in Conns /\ w = home[c] /\ Holds(c, q) /\ Holds(c, Tail(q))' /\ ~Abandoned(c)
      /\ \A d \in Conns : d # c => SameReader(d)
      /\ ~IsWriting(c)' \/ ~IsRequest(Tail(q)) => FeedsAlone(c)'
      /\ IsRequest(q) => ~IsWriting(c)
      /\ \A v, i : ~HasRequest(v, i, c)
  BY <1>1, <1>2, FedHolds
<1>4. /\ Talk(c) /\ Writing(c) /\ Manners(c) /\ q \in Seq(Pieces)
      /\ ready \in [Pool -> Seq(Waiting)] /\ home[c] \in Pool
      /\ flags \in [Conns -> SUBSET ConnFlags]
      /\ parsing \in [Conns -> Heads \cup {None}] /\ sent[c] \in Seq(Request)
  BY <1>0, <1>3, HoldsOne, TypesOf DEF TalkInv, Talk
<1>5. p = q[1] /\ IsRequest(q) /\ ~IsWriting(c)
  <2>1. p = q[1]
    BY <1>1, <1>2, <1>4
  <2> QED
    BY <1>2, <1>3, <2>1 DEF IsRequest
<1>6. PICK r, f : /\ Stage(c, r) /\ Ends(c, f) /\ NoneGoesOut(c)
                  /\ sent[c] # <<>> /\ ~AsksClose(c) /\ Recut(Tail(q), net[c], Tail(r), f)
                  /\ \/ Comes(c, r) /\ p = Piece("head", Len(sent[c]), Latest(sent[c]))
                     \/ Listens(c, r) /\ p = Piece("tail", Len(sent[c]), Latest(sent[c]))
  BY <1>0, <1>3, <1>4, <1>5, RequestFed
<1>7. PICK n, k : n = Len(sent[c]) /\ k = Latest(sent[c])
  OBVIOUS
<1>8. Comes(c, r) /\ p.req = n /\ p.kind = k
  BY <1>2, <1>6, <1>7 DEF Piece
<1>9. /\ parsing'[c] = Current(c)' /\ \A d \in Conns : d # c => parsing'[d] = parsing[d]
  BY <1>2, <1>3, <1>4, <1>7, <1>8 DEF Current
<1>10. Tail(r) = IF k = "expect" THEN <<>> ELSE <<Piece("tail", n, k)>>
  BY <1>7, <1>8, WholeBegins DEF Comes
<1>11. /\ got[c] = Before(sent[c]) /\ Before(sent[c]) \in Seq(Chunked)
       /\ Invited(sent[c]) = Before(sent[c]) \o Hundred(n, k)
  BY <1>4, <1>6, <1>7, <1>8, ExpectedIsMore DEF Comes, Invited
<1>12. CASE k # "expect"
  <2>1. UNCHANGED <<flags, writes, out, ready, clobbered>>
    BY <1>2, <1>8, <1>12 DEF Expects100
  <2>2. PICK hs, m : hs = <<>> /\ m = 0
    OBVIOUS
  <2>3. Moved(w, m, hs) /\ \A j \in 1 .. Len(hs) : FALSE
    BY <1>4, <2>1, <2>2, NothingMoves
  <2>4. \A d \in Conns : d # c => SameTalk(d)
    BY <1>2, <1>9, <2>1 DEF SameTalk, IsWriting, Later, AsksClose
  <2>5. Moves(w, m, hs, c)
    BY <1>3, <2>2, <2>3, <2>4 DEF Moves
  <2>6. Writing(c)'
    <3>1. (IsWriting(c)' <=> IsWriting(c)) /\ FeedsAlone(c)'
      BY <1>3, <1>5, <2>1 DEF IsWriting
    <3>2. WriterKeeps(w, m, hs, c)
      BY <2>1, <2>2, <2>3, <3>1 DEF WriterKeeps
    <3> QED
      BY <1>0, <1>3, <1>4, <3>1, <3>2, WritingKept
  <2>7. Listens(c, Tail(r))'
    <3>1. Invited(sent[c]) = Before(sent[c])
      <4>1. \A s \in Seq(Chunked) : s \o <<>> = s
        BY ConcatEmptySeq
      <4> QED
        BY <1>11, <1>12, <4>1 DEF Hundred
    <3>2. client[c] # "waiting"
      BY <1>7, <1>8, <1>12 DEF Comes, Asked
    <3> QED
      BY <1>2, <1>6, <1>7, <1>8, <1>9, <1>10, <1>11, <1>12, <2>1, <3>1, <3>2
         DEF Listens, Comes, Later, NoneGoesOut
  <2>8. Manners(c)'
    BY <1>2, <1>4, <2>1 DEF Manners, IsWriting, Asked, OneMissing
  <2>9. Stage(c, Tail(r))'
    BY <1>2, <1>6, <2>1, <2>7 DEF Stage, AsksClose
  <2>10. InStage(c, Tail(q), Tail(r), f)'
    BY <1>2, <1>6, <2>9 DEF InStage, Ends
  <2>11. Talk(c)'
    BY <1>3, <2>8, <2>10 DEF Talk
  <2> QED
    BY <2>1, <2>5, <2>6, <2>11, OthersTalk DEF Converses, TalkKeeps, TalkInv
<1>13. CASE k = "expect"
  <2>1. PICK chunks : chunks = <<Chunk(n, 0)>>
    OBVIOUS
  <2>2. /\ chunks \in Seq(Chunked) /\ Len(chunks) = 1 /\ chunks = Hundred(n, k)
    <3>1. n \in Nat
      BY <1>4, <1>7
    <3>2. PICK x : x = Chunk(n, 0)
      OBVIOUS
    <3>3. x \in Chunked
      BY <3>1, <3>2 DEF Chunk, Chunked
    <3> QED
      BY <1>13, <2>1, <3>2, <3>3 DEF Hundred
  <2>3. chunks # <<>>
    BY <2>2
  <2>4. do_write(c, chunks, flags[c]) /\ flags[c] \in SUBSET ConnFlags
        /\ "is_writing" \notin flags[c]
    BY <1>2, <1>3, <1>4, <1>5, <1>8, <1>13, <2>1 DEF Expects100, IsWriting
  <2>5. /\ Spoke(c, chunks, flags[c])
        /\ \E hs : /\ Moved(home[c], 0, hs)
                   /\ \A j \in 1 .. Len(hs) : hs[j].conn = c /\ hs[j].kind = "write"
        /\ FeedsAlone(c)' => Writing(c)'
    BY <1>3, <1>5, <1>6, <2>2, <2>3, <2>4, Speaking
  <2>6. PICK hs : /\ Moved(w, 0, hs)
                  /\ \A j \in 1 .. Len(hs) : hs[j].conn = c /\ hs[j].kind = "write"
    BY <1>3, <2>5
  <2>7. \A d \in Conns : d # c => SameTalk(d)
    BY <1>2, <1>9, <2>5 DEF SameTalk, IsWriting, Later, AsksClose, Spoke
  <2>8. Moves(w, 0, hs, c)
    BY <1>3, <2>6, <2>7 DEF Moves
  <2>9. Writing(c)'
    <3>1. Recut(Tail(q), net[c], <<>>, f)
      BY <1>6, <1>10, <1>13
    <3>2. ~IsRequest(Tail(q))
      BY <1>6, <3>1, NoneFollows
    <3> QED
      BY <1>3, <2>5, <3>2
  <2>10. writes'[c] = <<>> /\ (open[c] => out'[c] = chunks) /\ (~open[c] => out'[c] = <<>>)
    <3>1. PICK x, u : x = out'[c] /\ u = writes'[c]
      OBVIOUS
    <3>2. /\ x \in Seq(Chunked) /\ u \in Seq(Chunked)
          /\ open[c] => x \o u = chunks /\ Len(u) = 1 - 1
          /\ ~open[c] => x = <<>> /\ u = <<>>
      BY <2>2, <2>5, <3>1 DEF Spoke
    <3>3. \A s \in Seq(Chunked) : Len(s) = 0 => s = <<>>
      OBVIOUS
    <3>4. u = <<>>
      BY <3>2, <3>3
    <3>5. x \o <<>> = x
      BY <3>2, ConcatEmptySeq
    <3> QED
      BY <3>1, <3>2, <3>4, <3>5
  <2>11. Invites(c, <<>>)'
    <3>1. open[c] => Said(c)' = Invited(sent[c])
      <4>1. PICK b : b = Before(sent[c])
        OBVIOUS
      <4>2. b \in Seq(Chunked) /\ got'[c] = b /\ Invited(sent[c]) = b \o chunks
        BY <1>2, <1>11, <2>2, <4>1
      <4>3. b \o chunks \in Seq(Chunked)
        BY <2>2, <4>2, ConcatProperties
      <4>4. (b \o chunks) \o <<>> = b \o chunks
        BY <4>3, ConcatEmptySeq
      <4> QED
        BY <2>10, <4>2, <4>4 DEF Said
    <3>2. ~open[c] => Said(c)' = Before(sent[c])
      <4>1. PICK b : b = Before(sent[c])
        OBVIOUS
      <4>2. b \in Seq(Chunked) /\ got'[c] = b
        BY <1>2, <1>11, <4>1
      <4>3. b \o <<>> = b
        BY <4>2, ConcatEmptySeq
      <4> QED
        BY <2>10, <4>1, <4>2, <4>3 DEF Said
    <3>3. ~Later(c)'
      BY <1>8, <2>5 DEF Comes, Later, Spoke
    <3>4. Asked(c, {"expect"})'
      BY <1>2, <1>6, <1>7, <1>13 DEF Asked
    <3> QED
      BY <1>2, <1>9, <2>10, <3>1, <3>2, <3>3, <3>4 DEF Invites
  <2>12. Manners(c)'
    <3>1. resDone'[c] => IsWriting(c)' \/ ~open'[c]
      BY <1>2, <1>4, <1>5 DEF Manners
    <3>2. out'[c] \in Seq(Chunked) /\ <<>> \in Seq(Chunked)
      BY <2>5 DEF Spoke
    <3>3. ~open[c] => out'[c] = out[c]
      BY <1>6, <2>10 DEF NoneGoesOut
    <3> QED
      BY <1>2, <1>4, <2>10, <3>1, <3>2, <3>3 DEF Manners, Asked, OneMissing
  <2>13. Stage(c, <<>>)'
    <3>1. ~AsksClose(c)'
      BY <1>6, <2>5 DEF AsksClose, Spoke
    <3> QED
      BY <1>2, <1>6, <2>11, <3>1 DEF Stage
  <2>14. InStage(c, Tail(q), <<>>, f)'
    <3>1. Recut(Tail(q), net'[c], <<>>, f)
      BY <1>2, <1>6, <1>10, <1>13
    <3> QED
      BY <1>2, <1>6, <2>13, <3>1 DEF InStage, Ends
  <2>15. Talk(c)'
    BY <1>3, <2>12, <2>14 DEF Talk
  <2> QED
    BY <2>5, <2>8, <2>9, <2>15, OthersTalk DEF Converses, TalkKeeps, TalkInv, Spoke
<1> QED
  BY <1>12, <1>13

LEMMA TalkOfHandle ==
  ASSUME TalkInv, NEW w \in Pool, handle(w)
  PROVE  Converses
<1>0. LifeInv
  BY DEF TalkInv
<1>1. PICK c, q, p : c = busy[w].conn /\ q = busy[w].rest /\ p = Head(q)
  OBVIOUS
<1>2. /\ Running(w, "read") /\ q # <<>> /\ p.part = "tail"
      /\ busy' = [busy EXCEPT ![w].rest = Tail(@)]
      /\ serving' = [serving EXCEPT ![c] = parsing[c]]
      /\ parsing' = [parsing EXCEPT ![c] = None]
      /\ resDone' = [resDone EXCEPT ![c] =
                       parsing[c].kind # "nohost" /\ (parsing[c].kind # "later" \/ @)]
      /\ UNCHANGED <<obj, open, net, sent, got, client, cause>>
  BY <1>1 DEF handle, Feeding, Fed, clientVars
<1>3. /\ c \in Conns /\ w = home[c] /\ Holds(c, q) /\ Holds(c, Tail(q))' /\ ~Abandoned(c)
      /\ \A d \in Conns : d # c => SameReader(d)
      /\ ~IsWriting(c)' \/ ~IsRequest(Tail(q)) => FeedsAlone(c)'
      /\ IsRequest(q) => ~IsWriting(c)
      /\ \A v, i : ~HasRequest(v, i, c)
  BY <1>1, <1>2, FedHolds
<1>4. /\ Talk(c) /\ Writing(c) /\ Manners(c) /\ q \in Seq(Pieces)
      /\ ready \in [Pool -> Seq(Waiting)] /\ home[c] \in Pool
      /\ flags \in [Conns -> SUBSET ConnFlags]
      /\ parsing \in [Conns -> Heads \cup {None}] /\ serving \in [Conns -> Heads \cup {None}]
      /\ resDone \in [Conns -> BOOLEAN] /\ sent[c] \in Seq(Request)
  BY <1>0, <1>3, HoldsOne, TypesOf DEF TalkInv, Talk
<1>5. p = q[1] /\ IsRequest(q) /\ ~IsWriting(c)
  <2>1. p = q[1]
    BY <1>1, <1>2, <1>4
  <2> QED
    BY <1>2, <1>3, <2>1 DEF IsRequest
<1>6. PICK r, f : /\ Stage(c, r) /\ Ends(c, f) /\ NoneGoesOut(c)
                  /\ sent[c] # <<>> /\ ~AsksClose(c) /\ Recut(Tail(q), net[c], Tail(r), f)
                  /\ \/ Comes(c, r) /\ p = Piece("head", Len(sent[c]), Latest(sent[c]))
                     \/ Listens(c, r) /\ p = Piece("tail", Len(sent[c]), Latest(sent[c]))
  BY <1>0, <1>3, <1>4, <1>5, RequestFed
<1>7. PICK n, k : n = Len(sent[c]) /\ k = Latest(sent[c])
  OBVIOUS
<1>8. Listens(c, r)
  BY <1>2, <1>6 DEF Piece
<1>9. /\ parsing[c] = [req |-> n, kind |-> k] /\ ~Later(c) /\ client[c] # "waiting"
      /\ got[c] = Invited(sent[c]) /\ r = <<Piece("tail", n, k)>>
  BY <1>7, <1>8 DEF Listens, Current
<1>10. Tail(r) = <<>>
  <2>1. \A x : Tail(<<x>>) = <<>>
    OBVIOUS
  <2> QED
    BY <1>9, <2>1
<1>11. PICK h : h = parsing[c]
  OBVIOUS
<1>12. h.kind = k /\ h.req = n /\ h = [req |-> n, kind |-> k]
  BY <1>9, <1>11
<1>13. Response(h) = Own(n, k)
  BY <1>12 DEF Own
<1>14. /\ serving'[c] = h /\ parsing'[c] = None
       /\ (resDone'[c] <=> k # "nohost" /\ (k # "later" \/ resDone[c]))
       /\ \A d \in Conns : d # c => /\ parsing'[d] = parsing[d] /\ serving'[d] = serving[d]
                                    /\ resDone'[d] = resDone[d]
  BY <1>2, <1>3, <1>4, <1>11, <1>12
<1>15. ~IsRequest(Tail(q)) /\ Recut(Tail(q), net'[c], <<>>, f) /\ Ends(c, f)'
  BY <1>2, <1>6, <1>10, NoneFollows DEF Ends
<1>16. FeedsAlone(c)'
  BY <1>3, <1>15
<1>17. resDone[c] => ~open[c]
  BY <1>4, <1>5 DEF Manners
<1>18. CASE k = "later" /\ ~resDone[c]
  <2>1. /\ flags' = [flags EXCEPT ![c] = @ \cup {"need_to_call_after_handlers_"}]
        /\ UNCHANGED <<writes, out, ready, clobbered>>
    BY <1>1, <1>11, <1>12, <1>18 DEF handle
  <2>2. PICK hs, m : hs = <<>> /\ m = 0
    OBVIOUS
  <2>3. Moved(w, m, hs) /\ \A j \in 1 .. Len(hs) : FALSE
    BY <1>4, <2>1, <2>2, NothingMoves
  <2>4. /\ flags'[c] = flags[c] \cup {"need_to_call_after_handlers_"}
        /\ \A d \in Conns : d # c => flags'[d] = flags[d]
    BY <1>3, <1>4, <2>1
  <2>5. \A d \in Conns : d # c => SameTalk(d)
    BY <1>2, <1>14, <2>1, <2>4 DEF SameTalk, IsWriting, Later, AsksClose
  <2>6. Moves(w, m, hs, c)
    BY <1>3, <2>2, <2>3, <2>5 DEF Moves
  <2>7. ~IsWriting(c)' /\ Later(c)' /\ ~AsksClose(c)'
    BY <1>5, <1>6, <2>4 DEF IsWriting, Later, AsksClose
  <2>8. Writing(c)'
    <3>1. WriterKeeps(w, m, hs, c)
      BY <1>5, <2>1, <2>2, <2>3, <2>7 DEF WriterKeeps
    <3> QED
      BY <1>0, <1>3, <1>4, <1>16, <3>1, WritingKept
  <2>9. Owes(c, <<>>)'
    <3>1. Invited(sent[c]) = Before(sent[c])
      <4>1. Before(sent[c]) \in Seq(Chunked)
        BY <1>4, <1>6, ExpectedIsMore
      <4>2. Invited(sent[c]) = Before(sent[c]) \o <<>>
        BY <1>7, <1>18 DEF Invited, Hundred
      <4> QED
        BY <4>1, <4>2, ConcatEmptySeq
    <3>2. Asked(c, {"later"})' /\ Current(c)' = h
      BY <1>2, <1>6, <1>7, <1>12, <1>18 DEF Asked, Current
    <3> QED
      BY <1>2, <1>6, <1>9, <1>14, <1>18, <2>1, <2>7, <3>1, <3>2 DEF Owes, NoneGoesOut
  <2>10. Manners(c)'
    BY <1>2, <1>4, <1>14, <1>18, <2>1 DEF Manners, Asked, OneMissing
  <2>11. Stage(c, <<>>)'
    BY <1>2, <1>6, <2>7, <2>9 DEF Stage
  <2>12. InStage(c, Tail(q), <<>>, f)'
    BY <1>15, <2>11 DEF InStage
  <2>13. Talk(c)'
    BY <1>3, <2>10, <2>12 DEF Talk
  <2> QED
    BY <2>1, <2>6, <2>8, <2>13, OthersTalk DEF Converses, TalkKeeps, TalkInv
<1>19. CASE ~(k = "later" /\ ~resDone[c])
  <2>1. PICK members, chunks :
          /\ members = flags[c] \cup IF Closes(h) THEN {"close_connection_"} ELSE {}
          /\ chunks = IF h.kind = "nohost" \/ ~resDone[c] THEN Response(h) ELSE <<Chunk(0, 1)>>
    OBVIOUS
  <2>2. complete_request(c, chunks, members)
    BY <1>1, <1>11, <1>12, <1>19, <2>1 DEF handle
  <2>3. chunks \in Seq(Chunked) /\ chunks # <<>> /\ (open[c] => chunks = Own(n, k))
    <3>1. n \in Nat
      BY <1>4, <1>7
    <3>2. /\ Own(n, k) \in Seq(Chunked)
          /\ Own(n, k) = IF k \in {"big", "bigclose"} THEN <<Chunk(n, 1), Chunk(n, 2)>>
                         ELSE <<Chunk(n, 1)>>
      BY <3>1, OwnChunks
    <3>3. Own(n, k) # <<>>
      BY <3>2
    <3>4. PICK x : x = Chunk(0, 1)
      OBVIOUS
    <3>5. x \in Chunked
      BY <3>4 DEF Chunk, Chunked
    <3>6. <<x>> \in Seq(Chunked) /\ <<x>> # <<>>
      BY <3>5
    <3>7. chunks = Own(n, k) \/ (chunks = <<x>> /\ resDone[c])
      BY <1>13, <2>1, <3>4
    <3> QED
      BY <1>17, <3>2, <3>3, <3>6, <3>7
  <2>4. /\ members \in SUBSET ConnFlags /\ "is_writing" \notin members
        /\ "need_to_call_after_handlers_" \notin members
        /\ "close_connection_" \in members => Asked(c, {"close", "bigclose"})
    <3>1. flags[c] \in SUBSET ConnFlags /\ "is_writing" \notin flags[c]
          /\ "need_to_call_after_handlers_" \notin flags[c] /\ "close_connection_" \notin flags[c]
      BY <1>3, <1>4, <1>5, <1>6, <1>9 DEF IsWriting, Later, AsksClose
    <3>2. Closes(h) => Asked(c, {"close", "bigclose"})
      BY <1>6, <1>7, <1>12 DEF Closes, Asked
    <3>3. members = flags[c] \/ (members = flags[c] \cup {"close_connection_"} /\ Closes(h))
      BY <2>1
    <3> QED
      BY <3>1, <3>2, <3>3 DEF ConnFlags
  <2>5. /\ Spoke(c, chunks, members)
        /\ \E hs : /\ Moved(home[c], 0, hs)
                   /\ \A j \in 1 .. Len(hs) : hs[j].conn = c /\ hs[j].kind = "write"
        /\ FeedsAlone(c)' => Writing(c)'
    BY <1>3, <1>5, <1>6, <2>2, <2>3, <2>4, Speaking
  <2>6. PICK hs : /\ Moved(w, 0, hs)
                  /\ \A j \in 1 .. Len(hs) : hs[j].conn = c /\ hs[j].kind = "write"
    BY <1>3, <2>5
  <2>7. \A d \in Conns : d # c => SameTalk(d)
    BY <1>2, <1>14, <2>5 DEF SameTalk, IsWriting, Later, AsksClose, Spoke
  <2>8. Moves(w, 0, hs, c)
    BY <1>3, <2>6, <2>7 DEF Moves
  <2>9. Manners(c)' /\ Quiet(c, <<>>)'
    <3>1. open[c] => chunks = Own(Len(sent[c]), Latest(sent[c]))
      BY <1>7, <2>3
    <3>2. UNCHANGED <<obj, open, got, sent, client, cause>>
      BY <1>2
    <3> QED
      BY <1>0, <1>3, <1>4, <1>6, <1>9, <1>14, <2>4, <2>5, <3>1, <3>2, Answered
  <2>10. InStage(c, Tail(q), <<>>, f)'
    BY <1>15, <2>9 DEF InStage, Stage
  <2>11. Talk(c)'
    BY <1>3, <2>9, <2>10 DEF Talk
  <2> QED
    BY <1>16, <2>5, <2>8, <2>11, OthersTalk DEF Converses, TalkKeeps, TalkInv, Spoke
<1> QED
  BY <1>18, <1>19

\* The request that the exception leaves half done is the last of its Connection.
LEMMA TalkOfHandleThrows ==
  ASSUME TalkInv, NEW w \in Pool, handleThrows(w)
  PROVE  Converses
<1>0. LifeInv
  BY DEF TalkInv
<1>1. PICK c, q, more : /\ c = busy[w].conn /\ q = busy[w].rest
                        /\ more = IF Closes(parsing[c]) THEN {"close_connection_"} ELSE {}
  OBVIOUS
<1>2. /\ Running(w, "read") /\ q # <<>> /\ Head(q).part = "tail"
      /\ ~open[c] \/ client[c] = "left"
      /\ serving' = [serving EXCEPT ![c] = parsing[c]]
      /\ parsing' = [parsing EXCEPT ![c] = None]
      /\ flags' = [flags EXCEPT ![c] = @ \cup more]
      /\ resDone' = [resDone EXCEPT ![c] = parsing[c].kind # "nohost" /\ @]
      /\ UNCHANGED <<obj, open, writes, out, net, sent, got, client, cause, ready, clobbered>>
  BY <1>1 DEF handleThrows, Feeding, clientVars
<1>3. /\ c \in Conns /\ Runs(w, c) /\ w = home[c] /\ busy[w].kind = "read"
      /\ busy \in [Pool -> InHand \cup {None}] /\ q \in Seq(Pieces)
  BY <1>0, <1>1, <1>2, RunningIs DEF LifeInv, HttpTypeOK, WorkTypes, Running
<1>4. /\ \A u, d : Runs(u, d)' <=> Runs(u, d)
      /\ \A u \in Pool : u # w => busy'[u] = busy[u]
      /\ busy'[w].kind = "thrown" /\ busy'[w].rest = q
  BY <1>0, <1>1, ThrownRuns
<1>5. /\ Talk(c) /\ Writing(c) /\ Manners(c)
      /\ ready \in [Pool -> Seq(Waiting)] /\ flags \in [Conns -> SUBSET ConnFlags]
      /\ parsing \in [Conns -> Heads \cup {None}] /\ serving \in [Conns -> Heads \cup {None}]
      /\ resDone \in [Conns -> BOOLEAN]
  BY <1>0, <1>3, TypesOf DEF TalkInv, Talk
<1>6. Holds(c, q) /\ IsRequest(q)
  <2>1. Head(q) = q[1]
    BY <1>2, <1>3
  <2> QED
    BY <1>1, <1>2, <1>3, <2>1 DEF Holds, IsRequest
<1>7. ~IsWriting(c) /\ ~Abandoned(c)
  BY <1>0, <1>1, <1>3, <1>5, <1>6, OneReader DEF Writing, FeedsAlone, Abandoned
<1>8. /\ NoneGoesOut(c) /\ sent[c] # <<>> /\ client[c] # "waiting"
      /\ got[c] = Invited(sent[c])
  <2>1. PICK r, f : /\ NoneGoesOut(c) /\ sent[c] # <<>>
                    /\ \/ Comes(c, r) /\ q[1] = Piece("head", Len(sent[c]), Latest(sent[c]))
                       \/ Listens(c, r) /\ q[1] = Piece("tail", Len(sent[c]), Latest(sent[c]))
    BY <1>0, <1>3, <1>5, <1>6, <1>7, RequestFed
  <2>2. q[1].part = "tail"
    BY <1>2, <1>3
  <2> QED
    BY <2>1, <2>2 DEF Piece, Listens
<1>9. /\ flags'[c] = flags[c] \cup more /\ more \subseteq {"close_connection_"}
      /\ resDone'[c] => resDone[c]
      /\ \A d \in Conns : d # c => /\ flags'[d] = flags[d] /\ resDone'[d] = resDone[d]
                                   /\ parsing'[d] = parsing[d] /\ serving'[d] = serving[d]
  BY <1>1, <1>2, <1>3, <1>5
<1>10. PICK hs, m : hs = <<>> /\ m = 0
  OBVIOUS
<1>11. Moved(w, m, hs)
  BY <1>2, <1>5, <1>10, NothingMoves
<1>12. \A d \in Conns : d # c => SameTalk(d)
  BY <1>2, <1>9 DEF SameTalk, IsWriting, Later, AsksClose
<1>13. \A d \in Conns : d # c => SameReader(d)
  <2>1. \A u, d : d # c /\ Runs(u, d) => busy'[u] = busy[u]
    BY <1>1, <1>4 DEF Runs
  <2> QED
    BY <1>4, <2>1 DEF SameReader
<1>14. Moves(w, m, hs, c)
  BY <1>10, <1>11, <1>12, <1>13 DEF Moves
<1>15. ~IsWriting(c)'
  BY <1>7, <1>9 DEF IsWriting
<1>16. Writing(c)'
  <2>1. FeedsAlone(c)'
    BY <1>15 DEF FeedsAlone
  <2>2. WriterKeeps(w, m, hs, c)
    BY <1>2, <1>7, <1>10, <1>11, <1>15 DEF WriterKeeps
  <2> QED
    BY <1>0, <1>3, <1>5, <2>1, <2>2, WritingKept
<1>17. Manners(c)'
  <2>1. resDone'[c] => ~open'[c]
    BY <1>2, <1>5, <1>7, <1>9 DEF Manners
  <2> QED
    BY <1>2, <1>5, <1>9, <2>1 DEF Manners, Asked, OneMissing
<1>18. Abandoned(c)'
  <2>1. Fallen(c)'
    BY <1>3, <1>4 DEF Fallen
  <2> QED
    BY <1>2, <1>8, <2>1 DEF Abandoned, NoneGoesOut
<1> QED
  BY <1>2, <1>14, <1>16, <1>17, <1>18, OthersTalk DEF Converses, TalkKeeps, TalkInv, Talk

LEMMA TalkOfEnd ==
  ASSUME TalkInv, NEW c \in Conns, end(c)
  PROVE  Converses
<1>0. LifeInv /\ Talk(c) /\ Writing(c)
  BY DEF TalkInv
<1>1. PICK members, chunks :
        /\ members = flags[c] \ {"need_to_call_after_handlers_",
                                 "need_to_start_read_after_complete_"}
        /\ chunks = Response(serving[c])
  OBVIOUS
<1>2. /\ Deferred(c) /\ Later(c) /\ resDone' = [resDone EXCEPT ![c] = TRUE]
      /\ complete_request(c, chunks, members)
      /\ UNCHANGED <<obj, open, parsing, serving, net, sent, got, client, busy, cause>>
  BY <1>1 DEF end, Deferred, Later, clientVars
<1>3. /\ NobodyWaits(c, "read") /\ \A u : ~Runs(u, c)
  BY <1>0, <1>2, TypesOf DEF TokenOK, ReadsOnce
<1>4. PICK q, r, f : Holds(c, q) /\ InStage(c, q, r, f)
  BY <1>0, <1>3, StillTalking
<1>5. /\ Manners(c) /\ Owes(c, r) /\ sent[c] # <<>> /\ ~AsksClose(c)
  BY <1>0, <1>2, <1>4 DEF Talk, InStage, Stage, Quiet, Comes, Listens, Invites
<1>6. PICK n, k : n = Len(sent[c]) /\ k = Latest(sent[c])
  OBVIOUS
<1>7. /\ r = <<>> /\ k = "later" /\ parsing[c] = None /\ client[c] # "waiting"
      /\ serving[c] = [req |-> n, kind |-> k] /\ ~IsWriting(c) /\ NoneGoesOut(c)
      /\ got[c] = Before(sent[c])
  BY <1>5, <1>6 DEF Owes, Asked, Current
<1>8. sent[c] \in Seq(Request) /\ n \in Nat /\ flags[c] \in SUBSET ConnFlags
      /\ resDone \in [Conns -> BOOLEAN]
  BY <1>0, <1>6, TypesOf
<1>9. chunks = Own(n, k) /\ chunks \in Seq(Chunked) /\ chunks # <<>>
  <2>1. chunks = Own(n, k)
    BY <1>1, <1>7 DEF Own
  <2>2. /\ Own(n, k) \in Seq(Chunked)
        /\ Own(n, k) = IF k \in {"big", "bigclose"} THEN <<Chunk(n, 1), Chunk(n, 2)>>
                       ELSE <<Chunk(n, 1)>>
    BY <1>8, OwnChunks
  <2>3. Own(n, k) # <<>>
    BY <2>2
  <2> QED
    BY <2>1, <2>2, <2>3
<1>10. got[c] = Invited(sent[c])
  <2>1. Before(sent[c]) \in Seq(Chunked)
    BY <1>5, <1>8, ExpectedIsMore
  <2>2. Invited(sent[c]) = Before(sent[c]) \o <<>>
    BY <1>6, <1>7 DEF Invited, Hundred
  <2> QED
    BY <1>7, <2>1, <2>2, ConcatEmptySeq
<1>11. /\ members \in SUBSET ConnFlags /\ "is_writing" \notin members
       /\ "need_to_call_after_handlers_" \notin members /\ "close_connection_" \notin members
  BY <1>1, <1>5, <1>7, <1>8 DEF IsWriting, AsksClose
<1>12. \A w, i : ~HasRequest(w, i, c)
  BY <1>3 DEF NobodyWaits, HasRequest
<1>13. /\ Spoke(c, chunks, members)
       /\ \E hs : /\ Moved(home[c], 0, hs)
                  /\ \A j \in 1 .. Len(hs) : hs[j].conn = c /\ hs[j].kind = "write"
       /\ FeedsAlone(c)' => Writing(c)'
  BY <1>2, <1>7, <1>9, <1>11, <1>12, Speaking
<1>14. PICK v, p, hs : /\ Moved(v, p, hs) /\ p = 0
                       /\ \A j \in 1 .. Len(hs) : hs[j].conn = c /\ hs[j].kind = "write"
  BY <1>13
<1>15. /\ \A d \in Conns : d # c => SameTalk(d)
       /\ \A d : SameReader(d)
  BY <1>2, <1>8, <1>13, SameBusy DEF SameTalk, IsWriting, Later, AsksClose, Spoke
<1>16. Moves(v, p, hs, c)
  BY <1>14, <1>15 DEF Moves
<1>17. Holds(c, q)'
  <2>1. ReaderKeeps(v, p, hs, c)
    BY <1>14, <1>15 DEF ReaderKeeps, IsFor, SameReader
  <2> QED
    BY <1>0, <1>4, <2>1, HoldsKept
<1>18. Writing(c)'
  <2>1. FeedsAlone(c)'
    BY <1>2, <1>3 DEF FeedsAlone, Runs
  <2> QED
    BY <1>13, <2>1
<1>19. Manners(c)' /\ Quiet(c, <<>>)'
  <2>1. open[c] => chunks = Own(Len(sent[c]), Latest(sent[c]))
    BY <1>6, <1>9
  <2>2. UNCHANGED <<obj, open, got, sent, client, cause>> /\ parsing'[c] = None
    BY <1>2, <1>7
  <2> QED
    BY <1>0, <1>5, <1>7, <1>10, <1>11, <1>13, <2>1, <2>2, Answered
<1>20. Talk(c)'
  BY <1>2, <1>4, <1>7, <1>17, <1>19 DEF Talk, InStage, Stage, Ends
<1> QED
  BY <1>13, <1>16, <1>18, <1>20, OthersTalk DEF Converses, TalkKeeps, TalkInv, Spoke

-----------------------------------------------------------------------------
(* The invariant and what follows from it.                                 *)

LEMMA TalkInit == Init => TalkInv
<1> SUFFICES ASSUME Init PROVE TalkInv
  OBVIOUS
<1>1. LifeInv
  BY LifeInit
<1> SUFFICES ASSUME NEW c \in Conns
             PROVE  Writing(c) /\ Talk(c)
  BY <1>1 DEF TalkInv, Init
<1>2. /\ \A k : NobodyWaits(c, k) /\ OneWaits(c, k)
      /\ \A w, i, k : ~Waits(w, i, c, k)
      /\ \A w : ~Runs(w, c)
  BY DEF Init, NobodyWaits, OneWaits, Waits, Runs
<1>3. /\ got[c] = <<>> /\ out[c] = <<>> /\ writes[c] = <<>> /\ net[c] = <<>> /\ sent[c] = <<>>
      /\ client[c] = "up" /\ parsing[c] = None /\ ~resDone[c] /\ ~open[c] /\ cause[c] = "none"
      /\ flags[c] = {}
  BY DEF Init
<1>4. Writing(c)
  BY <1>2, <1>3 DEF Writing, FeedsAlone, HasRequest, IsWriting
<1>5. Manners(c)
  <2>1. <<>> \in Seq(Chunked)
    OBVIOUS
  <2> QED
    BY <1>3, <2>1 DEF Manners
<1>6. Said(c) = Expected(sent[c])
  <2>1. <<>> \o <<>> \o <<>> = <<>>
    OBVIOUS
  <2> QED
    BY <1>3, <2>1, ExpectedOfNone DEF Said
<1>7. Quiet(c, <<>>)
  BY <1>3, <1>6 DEF Quiet, Later, AsksClose
<1>8. Recut(<<>>, net[c], <<>>, <<>>)
  <2>1. <<>> \in Seq(Pieces)
    OBVIOUS
  <2> QED
    BY <1>3, <2>1 DEF Recut
<1>9. Holds(c, <<>>)
  BY <1>2 DEF Holds
<1>10. InStage(c, <<>>, <<>>, <<>>)
  BY <1>7, <1>8 DEF InStage, Ends, Stage
<1> QED
  BY <1>4, <1>5, <1>9, <1>10 DEF Talk

LEMMA TalkOfNext ==
  ASSUME TalkInv, "pipeline" \notin Environment, Next
  PROVE  Converses
<1>1. CASE \/ \E w \in Pool : StartWorker(w)
           \/ Stop \/ StartAccepting \/ \E c \in Conns : AcceptFails(c)
  BY <1>1, TalkOfServer
<1>2. CASE \E w \in Pool : Work(w)
  BY <1>2, TalkOfPick, TalkOfStart, TalkOfFeedHead, TalkOfHandle, TalkOfHandleThrows,
     TalkOfFeedJunk, TalkOfReadAgain, TalkOfReadFails, TalkOfWritten, TalkOfExpire, TalkOfProcessed DEF Work
<1>3. CASE \E c \in Conns : Network(c)
  BY <1>3, TalkOfReceive, TalkOfReceiveEof, TalkOfSend DEF Network
<1>4. CASE \E c \in Conns : Client(c)
  BY <1>4, TalkOfSendRequest, TalkOfSendBody, TalkOfLeave, TalkOfClientReads DEF Client
<1>5. CASE \E c \in Conns : Accept(c) \/ end(c)
  BY <1>5, TalkOfAccept, TalkOfEnd
<1> QED
  BY <1>1, <1>2, <1>3, <1>4, <1>5, TalkOfSecond DEF Next

LEMMA TalkStep ==
  ASSUME "pipeline" \notin Environment
  PROVE  TalkInv /\ [Next]_vars => TalkInv'
<1> SUFFICES ASSUME TalkInv, [Next]_vars PROVE TalkInv'
  OBVIOUS
<1>1. LifeInv'
  BY LifeStep DEF TalkInv
<1>2. CASE Next
  BY <1>1, <1>2, TalkOfNext DEF TalkInv, Converses, TalkKeeps
<1>3. CASE UNCHANGED vars
  <2>1. UNCHANGED talkVars /\ UNCHANGED <<obj, ready, busy, clobbered>>
    BY <1>3 DEF vars, serverVars, connVars, timerVars, clientVars, talkVars
  <2>2. \A d \in Conns : SameReader(d) /\ SameTalk(d)
    BY <2>1, SameVars, SameBusy
  <2>3. Converses
    BY <2>1, <2>2, SilentIdle
  <2> QED
    BY <1>1, <2>3 DEF TalkInv, Converses, TalkKeeps
<1> QED
  BY <1>2, <1>3

\* Nothing comes back to an object that deleted itself.
LEMMA TouchesLive == TalkInv => NothingTouchesDeleted
<1> SUFFICES ASSUME TalkInv, NEW c \in Referenced \ {None}
             PROVE  obj[c] = "live"
  BY DEF NothingTouchesDeleted
<1>0. LifeInv /\ \A d \in Conns : Writing(d) /\ TokenOK(d) /\ TimerOK(d)
  BY DEF TalkInv, LifeInv
<1>1. \A d \in Conns : IsReading(d) \/ IsWriting(d) => obj[d] = "live"
  BY <1>0 DEF TokenOK, Lives
<1>2. CASE c \in reads
  <2>1. c \in Conns
    BY <1>0, <1>2 DEF LifeInv, HttpTypeOK, ConnTypes
  <2> QED
    BY <1>0, <1>1, <1>2, <2>1 DEF TokenOK, ReadsOnce
<1>3. CASE c \in Conns /\ writes[c] # <<>>
  BY <1>0, <1>1, <1>3 DEF Writing
<1>4. ASSUME NEW w \in Pool, NEW i \in DOMAIN ready[w], ready[w][i].conn = c
      PROVE  obj[c] = "live"
  <2>1. ready[w] \in Seq(Waiting)
    BY <1>0 DEF LifeInv, HttpTypeOK, WorkTypes
  <2>2. PICK h : h = ready[w][i]
    OBVIOUS
  <2>3. i \in 1 .. Len(ready[w]) /\ h \in Waiting
    BY <2>1, <2>2
  <2>4. c \in Conns /\ h.kind \in {"start", "read", "write"}
    BY <1>4, <2>2, <2>3 DEF Waiting, Handlers
  <2>5. Waits(w, i, c, h.kind)
    BY <1>4, <2>2, <2>3 DEF Waits
  <2>6. TokenOK(c) /\ Writing(c)
    BY <1>0, <2>4
  <2> QED
    BY <1>1, <2>4, <2>5, <2>6 DEF TokenOK, ReadsOnce, StartsOnce, Writing, NobodyWaits
<1>5. ASSUME NEW w \in Pool, busy[w] # None, busy[w].conn = c
      PROVE  obj[c] = "live"
  <2>1. busy[w] \in InHand
    BY <1>0, <1>5 DEF LifeInv, HttpTypeOK, WorkTypes
  <2>2. c \in Conns /\ Runs(w, c)
    BY <1>5, <2>1 DEF InHand, Waiting, Handlers, Runs
  <2> QED
    BY <1>0, <1>1, <2>2 DEF TokenOK, ReadsOnce
<1>6. ASSUME NEW w \in Pool, NEW i \in DOMAIN dq[w], dq[w][i].fn = c
      PROVE  obj[c] = "live"
  <2>1. dq[w] \in Seq(Entries)
    BY <1>0 DEF LifeInv, HttpTypeOK, TimerTypes
  <2>2. i \in 1 .. Len(dq[w]) /\ dq[w][i] \in Entries
    BY <2>1
  <2>3. c \in Conns
    BY <1>6, <2>2 DEF Entries
  <2> QED
    BY <1>0, <1>1, <1>6, <2>2, <2>3 DEF TimerOK, EntryAt
<1>7. \/ c \in reads
      \/ c \in Conns /\ writes[c] # <<>>
      \/ \E w \in Pool : \E i \in DOMAIN ready[w] : ready[w][i].conn = c
      \/ \E w \in Pool : busy[w] # None /\ busy[w].conn = c
      \/ \E w \in Pool : \E i \in DOMAIN dq[w] : dq[w][i].fn = c
  <2> DEFINE A == UNION {{h.conn : h \in {ready[w][i] : i \in DOMAIN ready[w]}} : w \in Pool}
             B == {busy[w].conn : w \in {v \in Pool : busy[v] # None}}
             D == UNION {{e.fn : e \in {dq[w][i] : i \in DOMAIN dq[w]}} : w \in Pool}
             W == {d \in Conns : writes[d] # <<>>}
  <2>1. CASE c \in A
    <3>1. PICK w \in Pool : c \in {h.conn : h \in {ready[w][i] : i \in DOMAIN ready[w]}}
      BY <2>1
    <3> QED
      BY <3>1
  <2>2. CASE c \in B
    BY <2>2
  <2>3. CASE c \in D
    <3>1. PICK w \in Pool : c \in {e.fn : e \in {dq[w][i] : i \in DOMAIN dq[w]}}
      BY <2>3
    <3> QED
      BY <3>1
  <2>4. CASE c \in reads \/ c \in W
    BY <2>4
  <2>5. Referenced = reads \cup W \cup A \cup B \cup D
    BY DEF Referenced, A, B, D, W
  <2> HIDE DEF A, B, D, W
  <2>6. c \in reads \cup W \cup A \cup B \cup D
    BY <2>5
  <2> QED
    BY <2>1, <2>2, <2>3, <2>4, <2>6
<1> QED
  BY <1>2, <1>3, <1>4, <1>5, <1>6, <1>7

\* What was sent is a beginning of what is expected, and all of it when the
\* server closes on request.
LEMMA SaysItsOwn == TalkInv => OwnResponses /\ AnsweredBeforeClose
<1> SUFFICES ASSUME TalkInv, NEW c \in Conns
             PROVE  /\ LET s == got[c] \o out[c]
                           e == Expected(sent[c])
                       IN  Len(s) <= Len(e) /\ \A i \in DOMAIN s : s[i] = e[i]
                    /\ cause[c] = "asked" =>
                         \/ got[c] \o out[c] = Expected(sent[c])
                         \/ /\ sent[c][Len(sent[c])] = "bigclose"
                            /\ Len(got[c] \o out[c]) = Len(Expected(sent[c])) - 1
  BY DEF OwnResponses, AnsweredBeforeClose
<1>1. LifeInv /\ Manners(c) /\ (Abandoned(c) \/ \E r : Stage(c, r))
  BY DEF TalkInv, Talk, InStage
<1>2. PICK s, e : s = got[c] \o out[c] /\ e = Expected(sent[c])
  OBVIOUS
<1>3. s \in Seq(Chunked) /\ Begins(s, e)
  <2>1. CASE Abandoned(c)
    <3>1. /\ sent[c] \in Seq(Request) /\ sent[c] # <<>> /\ got[c] \in Seq(Chunked)
          /\ out[c] = <<>> /\ got[c] = Invited(sent[c])
      BY <1>1, <2>1, TypesOf DEF Abandoned, NoneGoesOut, Manners
    <3>2. s = got[c]
      BY <1>2, <3>1, ConcatEmptySeq
    <3> QED
      BY <1>2, <3>1, <3>2, ExpectedIsMore
  <2> QED
    BY <1>1, <1>2, <2>1, SaidBegins
<1>4. Len(s) <= Len(e) /\ \A i \in DOMAIN s : s[i] = e[i]
  BY <1>3 DEF Begins
<1>5. cause[c] = "asked" => s = e \/ (sent[c][Len(sent[c])] = "bigclose" /\ Len(s) = Len(e) - 1)
  BY <1>1, <1>2 DEF Manners, OneMissing, Asked, Latest
<1> QED
  BY <1>2, <1>4, <1>5

\* Of OneWriteAtATime, do_write(): a Connection never starts a write while one is
\* pending, when no client sends a request before it has the response to the last.
THEOREM OneWriteEach ==
  ASSUME "pipeline" \notin Environment
  PROVE  Spec => []OneWriteAtATime
<1>1. TalkInv /\ [Next]_vars => TalkInv'
  BY TalkStep
<1>2. TalkInv => OneWriteAtATime
  BY DEF TalkInv, OneWriteAtATime
<1> QED
  BY <1>1, <1>2, TalkInit, PTL DEF Spec

\* Of NothingTouchesDeleted, check_destroy(): a Connection deletes itself only when
\* no operation, handler or deadline knows its address.
THEOREM DeletedAlone ==
  ASSUME "pipeline" \notin Environment
  PROVE  Spec => []NothingTouchesDeleted
<1>1. TalkInv /\ [Next]_vars => TalkInv'
  BY TalkStep
<1> QED
  BY <1>1, TouchesLive, TalkInit, PTL DEF Spec

\* Of OwnResponses, complete_request() and do_write(): what a client reads is the
\* responses to its own requests in their order, whole but for the last.
THEOREM ResponsesAreOwn ==
  ASSUME "pipeline" \notin Environment
  PROVE  Spec => []OwnResponses
<1>1. TalkInv /\ [Next]_vars => TalkInv'
  BY TalkStep
<1>2. TalkInv => OwnResponses
  BY SaysItsOwn
<1> QED
  BY <1>1, <1>2, TalkInit, PTL DEF Spec

\* Of AnsweredBeforeClose, close_connection_: the server closes a connection that
\* asked for it when all is answered, or all but the end of a long response.
THEOREM AnswersBeforeClosing ==
  ASSUME "pipeline" \notin Environment
  PROVE  Spec => []AnsweredBeforeClose
<1>1. TalkInv /\ [Next]_vars => TalkInv'
  BY TalkStep
<1>2. TalkInv => AnsweredBeforeClose
  BY SaysItsOwn
<1> QED
  BY <1>1, <1>2, TalkInit, PTL DEF Spec
=============================================================================
