------------------------- MODULE RedisClientProofs -------------------------
(***************************************************************************)
(* Theorems about RedisClient for every set of calls, channels and         *)
(* messages, every environment and both builds; and, for a client used for *)
(* commands only, that it is an ordered pipe whatever goes wrong.          *)
(***************************************************************************)
EXTENDS RedisClient, SequenceTheorems, WellFoundedInduction, TLAPS

LEMMA ErrorHandlerType ==
  CallErrorHandler => alive' \in BOOLEAN /\ reported' \in BOOLEAN
BY Zenon DEF CallErrorHandler

LEMMA ErrorHandlerRemembers ==
  CallErrorHandler => (reported => reported') /\ (errorHandler = "custom" => reported')
                        /\ (errorHandler = "default" => ~alive')
BY Zenon DEF CallErrorHandler

LEMMA RefuseRemembers ==
  ASSUME NEW c, Refuse(c)
  PROVE  reported => reported'
BY Zenon DEF Refuse

LEMMA TypeInit == Init => TypeOK
<1> SUFFICES ASSUME Init PROVE TypeOK
  OBVIOUS
<1>1. \A S : <<>> \in Seq(S)
  OBVIOUS
<1>2. call \in [Calls -> {"idle", "checked", "done", "refused"}]
  BY DEF Init
<1>3. QED
  BY <1>1, <1>2 DEF Init, TypeOK

-----------------------------------------------------------------------------
(* What the steps do to the sequences, index by index.                     *)

LEMMA AppendFacts ==
  ASSUME NEW S, NEW q \in Seq(S), NEW e \in S
  PROVE  /\ Append(q, e) \in Seq(S)
         /\ Len(Append(q, e)) = Len(q) + 1
         /\ \A i \in 1..Len(q) : Append(q, e)[i] = q[i]
         /\ Append(q, e)[Len(q) + 1] = e
BY AppendProperties

LEMMA TailFacts ==
  ASSUME NEW S, NEW q \in Seq(S), q # <<>>
  PROVE  /\ Tail(q) \in Seq(S)
         /\ Len(q) \in Nat /\ Len(q) >= 1
         /\ Head(q) = q[1] /\ Head(q) \in S
         /\ Len(Tail(q)) = Len(q) - 1
         /\ \A i \in 1..Len(q) - 1 : Tail(q)[i] = q[i + 1]
OBVIOUS

LEMMA DoAsyncCommandEffect ==
  ASSUME TypeOK, doAsyncCommand
  PROVE  /\ Len(strand) >= 1
         /\ Len(strand') = Len(strand) - 1
         /\ \A i \in 1..Len(strand) - 1 : strand'[i] = strand[i + 1]
         /\ Len(queue') = Len(queue) + 1
         /\ \A i \in 1..Len(queue) : queue'[i] = queue[i]
         /\ queue'[Len(queue) + 1] = strand[1].call
         /\ Len(handlers') = Len(handlers) + 1
         /\ \A i \in 1..Len(handlers) : handlers'[i] = handlers[i]
         /\ handlers'[Len(handlers) + 1] = strand[1].call
         /\ writing' = IF Len(queue) = 0 THEN "started" ELSE writing
         /\ UNCHANGED <<reading, inbuf, connecting, state,
                        socket, toServer, toClient, accepted, executed, answered>>
<1>1. strand \in Seq(Tasks) /\ strand # <<>> /\ queue \in Seq(Calls) /\ handlers \in Seq(Calls)
  BY DEF TypeOK, doAsyncCommand
<1>2. Head(strand) = strand[1] /\ strand[1] \in Tasks
  BY <1>1
<1>3. strand[1].call \in Calls
  BY <1>2 DEF Tasks
<1>4. strand' = Tail(strand) /\ queue' = Append(queue, strand[1].call)
        /\ handlers' = Append(handlers, strand[1].call)
  BY <1>2 DEF doAsyncCommand
<1>5. Len(queue') = Len(queue) + 1 /\ Len(queue) \in Nat
  BY <1>1, <1>3, <1>4
<1>6. writing' = IF Len(queue) = 0 THEN "started" ELSE writing
  BY <1>5 DEF doAsyncCommand, StartWrite
<1>7. UNCHANGED <<reading, inbuf, connecting, state,
                  socket, toServer, toClient, accepted, executed, answered>>
  BY DEF doAsyncCommand, clientVars, serverVars, history
<1>8. QED
  BY <1>1, <1>3, <1>4, <1>6, <1>7, AppendFacts, TailFacts

LEMMA AsyncWriteEffect ==
  ASSUME TypeOK, WriteDiscipline, asyncWrite
  PROVE  /\ UNCHANGED <<strand, handlers, reading, inbuf, connecting, state,
                        socket, toServer, toClient, accepted, executed, answered, call>>
         /\ \/ /\ writing = "sent" /\ writing' # "sent"
               /\ Len(queue) >= 1
               /\ Len(queue') = Len(queue) - 1
               /\ \A i \in 1..Len(queue) - 1 : queue'[i] = queue[i + 1]
            \/ /\ writing = "started" /\ writing' = "none"
               /\ queue' = queue
<1>1. UNCHANGED <<strand, handlers, reading, inbuf, connecting, state,
                  socket, toServer, toClient, accepted, executed, answered, call>>
  BY DEF asyncWrite, clientVars, serverVars
<1>2. CASE writing = "sent"
  <2>1. queue # <<>> /\ queue \in Seq(Calls)
    BY <1>2 DEF WriteDiscipline, TypeOK
  <2>2. queue' = Tail(queue) /\ writing' = NextWrite(queue')
    BY <1>2 DEF asyncWrite
  <2>3. writing' # "sent"
    BY <2>2 DEF NextWrite
  <2>4. QED
    BY <1>1, <1>2, <2>1, <2>2, <2>3, TailFacts
<1>3. CASE writing # "sent"
  BY <1>1, <1>3 DEF asyncWrite
<1>4. QED
  BY <1>2, <1>3

LEMMA TransmitEffect ==
  ASSUME TypeOK, WriteDiscipline, Transmit
  PROVE  /\ writing = "started" /\ writing' = "sent"
         /\ Len(queue) >= 1
         /\ \/ /\ socket = "up"
               /\ Len(toServer') = Len(toServer) + 1
               /\ \A i \in 1..Len(toServer) : toServer'[i] = toServer[i]
               /\ toServer'[Len(toServer) + 1] = queue[1]
            \/ /\ socket = "broken"
               /\ toServer' = toServer
         /\ UNCHANGED <<strand, queue, handlers, reading, inbuf, connecting, state,
                        socket, toClient, accepted, executed, answered, call>>
<1>1. queue # <<>> /\ queue \in Seq(Calls) /\ toServer \in Seq(Calls)
  BY DEF Transmit, WriteDiscipline, TypeOK
<1>2. Head(queue) = queue[1] /\ queue[1] \in Calls /\ Len(queue) >= 1
  BY <1>1
<1>3. writing = "started" /\ writing' = "sent" /\ socket \in {"up", "broken"}
        /\ toServer' = IF socket = "up" THEN Append(toServer, queue[1]) ELSE toServer
  BY <1>2 DEF Transmit
<1>4. UNCHANGED <<strand, queue, handlers, reading, inbuf, connecting, state,
                  socket, toClient, accepted, executed, answered, call>>
  BY DEF Transmit, clientVars, history
<1>5. QED
  BY <1>1, <1>2, <1>3, <1>4, AppendFacts

LEMMA AsyncReadEffect ==
  ASSUME TypeOK, asyncRead
  PROVE  /\ reading /\ reading' = FALSE /\ inbuf = <<>>
         /\ \/ /\ Len(inbuf') >= 1
               /\ Len(inbuf') + Len(toClient') = Len(toClient)
               /\ \A i \in 1..Len(inbuf') : inbuf'[i] = toClient[i]
               /\ \A i \in 1..Len(toClient') : toClient'[i] = toClient[Len(inbuf') + i]
            \/ inbuf' = <<>> /\ toClient' = toClient
         /\ UNCHANGED <<strand, queue, handlers, writing, connecting, state,
                        socket, toServer, subs, accepted, executed, answered, call>>
<1>1. reading /\ reading' = FALSE /\ inbuf = <<>>
  BY DEF asyncRead
<1>2. UNCHANGED <<strand, queue, handlers, writing, connecting, state,
                  socket, toServer, subs, accepted, executed, answered, call>>
  BY DEF asyncRead, clientVars
<1>3. ASSUME NEW k \in 1..Len(toClient),
             inbuf' = SubSeq(toClient, 1, k),
             toClient' = SubSeq(toClient, k + 1, Len(toClient))
      PROVE  /\ Len(inbuf') >= 1
             /\ Len(inbuf') + Len(toClient') = Len(toClient)
             /\ \A i \in 1..Len(inbuf') : inbuf'[i] = toClient[i]
             /\ \A i \in 1..Len(toClient') : toClient'[i] = toClient[Len(inbuf') + i]
  <2>1. toClient \in Seq(Wire) /\ Len(toClient) \in Nat
    BY DEF TypeOK
  <2>2. Len(inbuf') = k /\ \A i \in 1..k : inbuf'[i] = toClient[i]
    BY <1>3, <2>1, SubSeqProperties
  <2>3. /\ Len(toClient') = Len(toClient) - k
        /\ \A i \in 1..Len(toClient) - k : toClient'[i] = toClient[k + i]
    BY <1>3, <2>1, SubSeqProperties
  <2>4. QED
    BY <2>1, <2>2, <2>3
<1>4. QED
  BY <1>1, <1>2, <1>3 DEF asyncRead

Lengths ==
  /\ Len(strand) \in Nat /\ Len(queue) \in Nat /\ Len(handlers) \in Nat
  /\ Len(inbuf) \in Nat /\ Len(toServer) \in Nat /\ Len(toClient) \in Nat
  /\ Len(accepted) \in Nat /\ Len(executed) \in Nat /\ Len(answered) \in Nat

LEMMA LengthsOK == TypeOK => Lengths
BY DEF TypeOK, Lengths

LEMMA UnsentIsNat ==
  ASSUME TypeOK, WriteDiscipline
  PROVE  Unsent \in Nat
<1>1. writing = "sent" => Len(queue) >= 1
  BY DEF TypeOK, WriteDiscipline
<1>2. QED
  BY <1>1, LengthsOK DEF Unsent, Lengths

-----------------------------------------------------------------------------
(* Induction over the natural numbers, for a set.                          *)

\* The library's induction theorems take a predicate; this one takes the set.
LEMMA SetInduction ==
  ASSUME NEW S, 0 \in S, \A n \in Nat : n \in S => n + 1 \in S
  PROVE  Nat \subseteq S
<1> DEFINE R == {ss \in Nat \X Nat : ss[1] < ss[2]}
           T == Nat \ S
<1>1. IsWellFoundedOn(R, Nat)
  BY NatLessThanWellFounded DEF OpToRel
<1>2. SUFFICES ASSUME T # {}
               PROVE  FALSE
  OBVIOUS
<1>3. PICK x \in T : \A y \in T : ~ (<<y, x>> \in R)
  <2>1. T \subseteq Nat
    OBVIOUS
  <2> HIDE DEF R, T
  <2> QED
    BY <1>1, <1>2, <2>1, WFMin
<1>4. x \in Nat /\ x # 0 /\ x \notin S
  OBVIOUS
<1>5. PICK y \in Nat : x = y + 1
  BY <1>4
<1>6. <<y, x>> \in R
  BY <1>5
<1>7. y \notin T
  BY <1>3, <1>6
<1> QED
  BY <1>4, <1>5, <1>7

-----------------------------------------------------------------------------
(* The handlers chosen from msgHandlers.                                   *)

\* f is the function Chosen is defined by, up to n.
ChoosesUpTo(f, S, n) ==
  f = [i \in 0 .. n |->
        IF i = 0 THEN <<>>
        ELSE IF msgHandlers[i] \in S THEN Append(f[i - 1], msgHandlers[i])
        ELSE f[i - 1]]

LEMMA ChoosesExists ==
  ASSUME NEW S, NEW n \in Nat
  PROVE  \E f : ChoosesUpTo(f, S, n)
<1> DEFINE T == {k \in Nat : \E f : ChoosesUpTo(f, S, k)}
<1>1. 0 \in T
  <2>1. ChoosesUpTo([i \in 0 .. 0 |-> <<>>], S, 0)
    BY DEF ChoosesUpTo
  <2> QED
    BY <2>1
<1>2. ASSUME NEW k \in Nat, k \in T
      PROVE  k + 1 \in T
  <2>1. PICK g : ChoosesUpTo(g, S, k)
    BY <1>2
  <2> DEFINE more(f, i) == IF i = 0 THEN <<>>
                           ELSE IF msgHandlers[i] \in S THEN Append(f[i - 1], msgHandlers[i])
                           ELSE f[i - 1]
             h == [i \in 0 .. k + 1 |-> more(g, i)]
  <2>2. ASSUME NEW i \in 0 .. k
        PROVE  h[i] = g[i]
    <3>1. i \in 0 .. k + 1
      OBVIOUS
    <3>2. h[i] = more(g, i)
      BY <3>1
    <3>3. g[i] = more(g, i)
      BY <2>1, Zenon DEF ChoosesUpTo
    <3> QED
      BY <3>2, <3>3
  <2>3. \A i \in 0 .. k + 1 : i # 0 => i - 1 \in 0 .. k
    OBVIOUS
  <2>4. \A i \in 0 .. k + 1 : i # 0 => h[i - 1] = g[i - 1]
    BY <2>2, <2>3
  <2>5. ChoosesUpTo(h, S, k + 1)
    BY <2>4 DEF ChoosesUpTo
  <2> QED
    BY <2>5
<1>3. n \in T
  <2> HIDE DEF T
  <2> QED
    BY <1>1, <1>2, SetInduction
<1> QED
  BY <1>3

Distinct(q) == \A i, j \in 1 .. Len(q) : q[i] = q[j] => i = j

\* q is made of some of the first n handlers.
TakenFrom(q, S, n) ==
  /\ q \in Seq(Subscribes)
  /\ \A i \in 1 .. Len(q) : q[i] \in S /\ \E j \in 1 .. n : msgHandlers[j] = q[i]
  /\ Distinct(msgHandlers) => Distinct(q)

\* Chosen gives handlers that are registered, of the set, and each once.
LEMMA ChosenFacts ==
  ASSUME NEW S, msgHandlers \in Seq(Subscribes)
  PROVE  TakenFrom(Chosen(S), S, Len(msgHandlers))
<1> DEFINE l == Len(msgHandlers)
           f == CHOOSE g : ChoosesUpTo(g, S, l)
           T == {k \in Nat : k <= l => TakenFrom(f[k], S, k)}
<1>0. l \in Nat
  OBVIOUS
<1>1. ChoosesUpTo(f, S, l)
  BY <1>0, ChoosesExists
<1>2. Chosen(S) = f[l]
  BY DEF Chosen, ChoosesUpTo
<1> HIDE DEF f, l
<1>3. 0 \in T
  <2>1. f[0] = <<>>
    BY <1>0, <1>1 DEF ChoosesUpTo
  <2>2. PICK q : q = <<>>
    OBVIOUS
  <2>3. q \in Seq(Subscribes) /\ Len(q) = 0
    BY <2>2
  <2>4. TakenFrom(q, S, 0)
    BY <2>3 DEF TakenFrom, Distinct
  <2> QED
    BY <2>1, <2>2, <2>4
<1>4. ASSUME NEW k \in Nat, k \in T
      PROVE  k + 1 \in T
  <2> SUFFICES ASSUME k + 1 <= l
               PROVE  TakenFrom(f[k + 1], S, k + 1)
    OBVIOUS
  <2>1. k + 1 \in 0 .. l /\ k + 1 # 0 /\ (k + 1) - 1 = k /\ k + 1 \in 1 .. l
    BY <1>0
  <2>2. f[k + 1] = IF msgHandlers[k + 1] \in S THEN Append(f[k], msgHandlers[k + 1]) ELSE f[k]
    BY <1>1, <2>1 DEF ChoosesUpTo
  <2>3. PICK q, e : q = f[k] /\ e = msgHandlers[k + 1]
    OBVIOUS
  <2>4. TakenFrom(q, S, k) /\ e \in Subscribes
    BY <1>0, <1>4, <2>1, <2>3 DEF l
  <2>5. CASE e \in S
    <3>1. f[k + 1] = Append(q, e)
      BY <2>2, <2>3, <2>5
    <3>2. q \in Seq(Subscribes)
      BY <2>4 DEF TakenFrom
    <3>3. /\ Append(q, e) \in Seq(Subscribes)
          /\ Len(Append(q, e)) = Len(q) + 1 /\ Len(q) \in Nat
          /\ \A i \in 1..Len(q) : Append(q, e)[i] = q[i]
          /\ Append(q, e)[Len(q) + 1] = e
      BY <2>4, <3>2, AppendFacts
    <3>4. PICK r, m : r = Append(q, e) /\ m = Len(q)
      OBVIOUS
    <3>5. /\ r \in Seq(Subscribes) /\ Len(r) = m + 1 /\ m \in Nat
          /\ \A i \in 1..m : r[i] = q[i]
          /\ r[m + 1] = e
      BY <3>3, <3>4
    <3>6. \A i \in 1 .. m : q[i] \in S /\ \E j \in 1 .. k : msgHandlers[j] = q[i]
      BY <2>4, <3>4 DEF TakenFrom
    <3>7. ASSUME NEW i \in 1 .. m + 1
          PROVE  r[i] \in S /\ \E j \in 1 .. k + 1 : msgHandlers[j] = r[i]
      <4>0. k + 1 \in 1 .. k + 1 /\ \A j \in 1 .. k : j \in 1 .. k + 1
        OBVIOUS
      <4>1. CASE i \in 1 .. m
        <5>1. r[i] = q[i] /\ q[i] \in S
          BY <3>5, <3>6, <4>1
        <5>2. PICK j \in 1 .. k : msgHandlers[j] = q[i]
          BY <3>6, <4>1
        <5> QED
          BY <4>0, <5>1, <5>2
      <4>2. CASE i = m + 1
        <5>1. r[i] = e /\ msgHandlers[k + 1] = e
          BY <2>3, <3>5, <4>2
        <5> QED
          BY <2>5, <4>0, <5>1
      <4> QED
        BY <3>5, <4>1, <4>2
    <3>8. ASSUME Distinct(msgHandlers)
          PROVE  Distinct(r)
      <4>1. \A i \in 1 .. m : r[i] # e
        <5>1. \A j \in 1 .. k : j \in 1 .. l /\ j # k + 1
          BY <1>0, <2>1
        <5>2. \A j \in 1 .. k : msgHandlers[j] # e
          BY <2>1, <2>3, <3>8, <5>1 DEF Distinct, l
        <5> QED
          BY <3>5, <3>6, <5>2
      <4>2. \A i, j \in 1 .. m : r[i] = r[j] => i = j
        BY <2>4, <3>4, <3>5, <3>8 DEF TakenFrom, Distinct
      <4>3. \A i \in 1 .. m + 1 : i \in 1 .. m \/ i = m + 1
        BY <3>5
      <4> QED
        BY <3>5, <4>1, <4>2, <4>3 DEF Distinct
    <3> QED
      BY <3>1, <3>4, <3>5, <3>7, <3>8 DEF TakenFrom
  <2>6. CASE e \notin S
    <3>1. f[k + 1] = q
      BY <2>2, <2>3, <2>6
    <3>2. \A j \in 1 .. k : j \in 1 .. k + 1
      OBVIOUS
    <3> QED
      BY <2>4, <3>1, <3>2 DEF TakenFrom
  <2> QED
    BY <2>5, <2>6
<1>5. l \in T
  <2> HIDE DEF T
  <2> QED
    BY <1>0, <1>3, <1>4, SetInduction
<1> QED
  BY <1>0, <1>2, <1>5 DEF l

-----------------------------------------------------------------------------
(* What a message does.                                                    *)

LEMMA Kinds ==
  /\ Subscribes \cap SingleShots = {} /\ Subscribes \cap Commands = {}
  /\ Subscribes \cap Unsubscribes = {} /\ SingleShots \cap Commands = {}
  /\ SingleShots \cap Unsubscribes = {} /\ Unsubscribes \cap Commands = {}
BY CallsAssumption DEF SubscriptionCalls

LEMMA ConcatFacts ==
  ASSUME NEW S, NEW p \in Seq(S), NEW q \in Seq(S)
  PROVE  /\ p \o q \in Seq(S) /\ Len(p \o q) = Len(p) + Len(q)
         /\ \A i \in 1 .. Len(p) : (p \o q)[i] = p[i]
         /\ \A i \in Len(p) + 1 .. Len(p) + Len(q) : (p \o q)[i] = q[i - Len(p)]
BY ConcatProperties

Posted(hs, m) == [i \in 1 .. Len(hs) |-> [call |-> hs[i], msg |-> m]]

LEMMA PostedFacts ==
  ASSUME NEW hs \in Seq(Subscribes \cup SingleShots), NEW m \in Messages \cup {NoMsg}
  PROVE  /\ Posted(hs, m) \in Seq(Tasks) /\ Len(Posted(hs, m)) = Len(hs)
         /\ \A i \in 1 .. Len(hs) : Posted(hs, m)[i] = [call |-> hs[i], msg |-> m]
<1>1. PICK l \in Nat : l = Len(hs)
  OBVIOUS
<1>2. \A i \in 1 .. l : [call |-> hs[i], msg |-> m] \in Tasks
  BY <1>1 DEF Tasks, Calls
<1>3. Posted(hs, m) \in [1 .. l -> Tasks]
  BY <1>1, <1>2 DEF Posted
<1>4. Posted(hs, m) \in Seq(Tasks) /\ Len(Posted(hs, m)) = l
  BY <1>1, <1>3
<1> QED
  BY <1>1, <1>4 DEF Posted

\* The handlers a message is posted to: each is registered, and a single-shot
\* handler no longer.
LEMMA PostEffect ==
  ASSUME msgHandlers \in Seq(Subscribes), singleShotMsgHandlers \subseteq SingleShots,
         NEW m, PostMessage(m)
  PROVE  \E hs \in Seq(Subscribes \cup SingleShots) :
           /\ strand' = strand \o Posted(hs, m)
           /\ \A i \in 1 .. Len(hs) :
                \/ hs[i] \in singleShotMsgHandlers \ singleShotMsgHandlers'
                \/ hs[i] \in Subscribes /\ \E j \in 1 .. Len(msgHandlers) : msgHandlers[j] = hs[i]
           /\ Distinct(msgHandlers) => Distinct(hs)
           /\ singleShotMsgHandlers' \subseteq singleShotMsgHandlers
           /\ UNCHANGED <<handlers, answered, delivered, alive, reported>>
<1>1. PICK q : q = Chosen({s \in Subscribes : ChannelOf[s] = TopicOf[m]})
  OBVIOUS
<1>2. PICK S : TakenFrom(q, S, Len(msgHandlers))
  BY <1>1, ChosenFacts
<1>3. /\ q \in Seq(Subscribes)
      /\ \A i \in 1 .. Len(q) : \E j \in 1 .. Len(msgHandlers) : msgHandlers[j] = q[i]
      /\ Distinct(msgHandlers) => Distinct(q)
  BY <1>2 DEF TakenFrom
<1>4. UNCHANGED <<handlers, answered, delivered, alive, reported>>
  BY DEF PostMessage
<1>5. CASE strand' = strand \o Posted(q, m) /\ UNCHANGED singleShotMsgHandlers
  <2>1. q \in Seq(Subscribes \cup SingleShots) /\ \A i \in 1 .. Len(q) : q[i] \in Subscribes
    BY <1>3
  <2> QED
    BY <1>3, <1>4, <1>5, <2>1
<1>6. ASSUME NEW s \in singleShotMsgHandlers,
             strand' = strand \o Posted(<<s>> \o q, m), singleShotMsgHandlers' = ShotErased(s)
      PROVE  \E hs \in Seq(Subscribes \cup SingleShots) :
               /\ strand' = strand \o Posted(hs, m)
               /\ \A i \in 1 .. Len(hs) :
                    \/ hs[i] \in singleShotMsgHandlers \ singleShotMsgHandlers'
                    \/ hs[i] \in Subscribes /\ \E j \in 1 .. Len(msgHandlers) : msgHandlers[j] = hs[i]
               /\ Distinct(msgHandlers) => Distinct(hs)
               /\ singleShotMsgHandlers' \subseteq singleShotMsgHandlers
  <2>1. PICK l \in Nat : l = Len(q)
    BY <1>3
  <2>2. PICK hs : hs = <<s>> \o q
    OBVIOUS
  <2>3. /\ hs \in Seq(Subscribes \cup SingleShots) /\ Len(hs) = l + 1
        /\ hs[1] = s /\ \A i \in 2 .. l + 1 : hs[i] = q[i - 1]
    <3>1. PICK z : z = <<s>>
      OBVIOUS
    <3>2. z \in Seq(Subscribes \cup SingleShots) /\ Len(z) = 1 /\ z[1] = s
      BY <3>1
    <3>3. q \in Seq(Subscribes \cup SingleShots)
      BY <1>3
    <3>4. /\ z \o q \in Seq(Subscribes \cup SingleShots) /\ Len(z \o q) = 1 + l
          /\ \A i \in 1 .. 1 : (z \o q)[i] = z[i]
          /\ \A i \in 1 + 1 .. 1 + l : (z \o q)[i] = q[i - 1]
      <4>1. PICK T : T = Subscribes \cup SingleShots
        OBVIOUS
      <4>2. z \in Seq(T) /\ q \in Seq(T)
        BY <3>2, <3>3, <4>1
      <4>3. /\ z \o q \in Seq(T) /\ Len(z \o q) = Len(z) + Len(q)
            /\ \A i \in 1 .. Len(z) : (z \o q)[i] = z[i]
            /\ \A i \in Len(z) + 1 .. Len(z) + Len(q) : (z \o q)[i] = q[i - Len(z)]
        BY <4>2, ConcatFacts
      <4> QED
        BY <2>1, <3>2, <4>1, <4>3
    <3>5. PICK y : y = z \o q
      OBVIOUS
    <3>6. hs = y
      BY <2>2, <3>1, <3>5
    <3>7. /\ y \in Seq(Subscribes \cup SingleShots) /\ Len(y) = 1 + l
          /\ \A i \in 1 .. 1 : y[i] = z[i]
          /\ \A i \in 1 + 1 .. 1 + l : y[i] = q[i - 1]
      BY <3>4, <3>5
    <3> QED
      BY <3>2, <3>6, <3>7
  <2>4. \A i \in 2 .. l + 1 : i - 1 \in 1 .. l
    OBVIOUS
  <2>5. \A i \in 2 .. l + 1 : hs[i] \in Subscribes /\ \E j \in 1 .. Len(msgHandlers) : msgHandlers[j] = hs[i]
    BY <1>3, <2>1, <2>3, <2>4
  <2>6. s \in singleShotMsgHandlers \ singleShotMsgHandlers'
        /\ singleShotMsgHandlers' \subseteq singleShotMsgHandlers
    BY <1>6 DEF ShotErased
  <2>7. \A i \in 1 .. l + 1 : i = 1 \/ i \in 2 .. l + 1
    OBVIOUS
  <2>8. ASSUME Distinct(msgHandlers)
        PROVE  Distinct(hs)
    <3>1. \A i, j \in 1 .. l : q[i] = q[j] => i = j
      BY <1>3, <2>1, <2>8 DEF Distinct
    <3>2. \A i, j \in 2 .. l + 1 : hs[i] = hs[j] => i = j
      <4> SUFFICES ASSUME NEW i \in 2 .. l + 1, NEW j \in 2 .. l + 1, hs[i] = hs[j]
                   PROVE  i = j
        OBVIOUS
      <4>1. i - 1 \in 1 .. l /\ j - 1 \in 1 .. l /\ q[i - 1] = q[j - 1]
        BY <2>3, <2>4
      <4>2. i - 1 = j - 1
        BY <3>1, <4>1
      <4> QED
        BY <4>2
    <3>3. s \notin Subscribes
      BY Kinds
    <3> QED
      BY <2>3, <2>5, <2>7, <3>2, <3>3 DEF Distinct
  <2> QED
    BY <1>6, <2>2, <2>3, <2>5, <2>6, <2>7, <2>8
<1>7. \/ strand' = strand \o Posted(q, m) /\ UNCHANGED singleShotMsgHandlers
      \/ \E s \in singleShotMsgHandlers :
           strand' = strand \o Posted(<<s>> \o q, m) /\ singleShotMsgHandlers' = ShotErased(s)
  BY <1>1 DEF PostMessage, Posted
<1> QED
  BY <1>4, <1>5, <1>6, <1>7

\* What a turn of asyncRead's loop does, whatever the reply: a message is
\* posted, a handler called or the error handler.
LEMMA TurnCases ==
  ASSUME parseReply
  PROVE  /\ inbuf # <<>>
         /\ UNCHANGED <<state, errorHandler, msgHandlers, owner, queue, writing, connecting,
                        serverVars, call, accepted, executed>>
         /\ \/ /\ inbuf' = Tail(inbuf) /\ reading' = (inbuf' = <<>>)
               /\ \/ /\ state = "Subscribed" /\ Head(inbuf).kind = "message"
                     /\ PostMessage(Head(inbuf).msg)
                  \/ /\ state = "Subscribed" => Head(inbuf).kind \in {"subscribe", "unsubscribe"}
                     /\ Head(inbuf).kind # "garbage"
                     /\ CallHandler(Head(inbuf))
                  \/ /\ CallErrorHandler
                     /\ UNCHANGED <<strand, handlers, singleShotMsgHandlers, answered, delivered>>
            \/ /\ inbuf' = <<>> /\ CallErrorHandler
               /\ UNCHANGED <<strand, handlers, singleShotMsgHandlers, answered, delivered, reading>>
<1>1. CASE Head(inbuf).kind = "garbage"
  BY <1>1, Zenon DEF parseReply
<1>2. CASE Head(inbuf).kind # "garbage"
  <2>1. doProcessMessage(Head(inbuf)) /\ inbuf' = Tail(inbuf) /\ reading' = (inbuf' = <<>>)
    BY <1>2, Zenon DEF parseReply, NextRead
  <2>2. \/ /\ state = "Subscribed" /\ Head(inbuf).kind = "message"
           /\ PostMessage(Head(inbuf).msg)
        \/ /\ state = "Subscribed" => Head(inbuf).kind \in {"subscribe", "unsubscribe"}
           /\ CallHandler(Head(inbuf))
        \/ /\ CallErrorHandler
           /\ UNCHANGED <<strand, handlers, singleShotMsgHandlers, answered, delivered>>
    BY <2>1, Zenon DEF doProcessMessage
  <2> QED
    BY <1>2, <2>1, <2>2, Zenon DEF parseReply
<1> QED
  BY <1>1, <1>2

LEMMA ParseType ==
  ASSUME TypeOK, parseReply
  PROVE  TypeOK'
<1> DEFINE v == Head(inbuf)
<1>1. v \in Wire /\ Tail(inbuf) \in Seq(Wire)
  BY HeadTailProperties DEF TypeOK, parseReply
<1>2. inbuf' \in Seq(Wire) /\ reading' \in BOOLEAN
  <2>1. inbuf' = Tail(inbuf) \/ inbuf' = <<>>
    BY TurnCases, Zenon
  <2>2. reading' = (inbuf' = <<>>) \/ reading' = reading
    BY TurnCases, Zenon
  <2>3. reading \in BOOLEAN
    BY DEF TypeOK
  <2>4. reading' \in BOOLEAN
    BY ONLY <2>2, <2>3, Zenon
  <2>5. <<>> \in Seq(Wire)
    OBVIOUS
  <2> QED
    BY <1>1, <2>1, <2>4, <2>5, Zenon
<1>3. /\ UNCHANGED <<state, errorHandler, msgHandlers, owner, queue, writing, connecting,
                     call, accepted, executed>>
      /\ UNCHANGED serverVars
  BY TurnCases, Zenon
<1>4. CASE state = "Subscribed" /\ v.kind = "message" /\ PostMessage(v.msg)
  <2>1. v.msg \in Messages \cup {NoMsg}
    BY <1>1 DEF Wire
  <2>2. PICK hs \in Seq(Subscribes \cup SingleShots) :
          /\ strand' = strand \o Posted(hs, v.msg)
          /\ singleShotMsgHandlers' \subseteq singleShotMsgHandlers
          /\ UNCHANGED <<handlers, answered, delivered, alive, reported>>
    BY <1>4, <2>1, PostEffect DEF TypeOK
  <2>3. strand' \in Seq(Tasks)
    <3>1. PICK p : p = Posted(hs, v.msg)
      OBVIOUS
    <3>2. p \in Seq(Tasks) /\ strand \in Seq(Tasks)
      BY <2>1, <3>1, PostedFacts DEF TypeOK
    <3>3. strand \o p \in Seq(Tasks)
      BY <3>2, ConcatFacts
    <3> QED
      BY <2>2, <3>1, <3>3
  <2> QED
    BY <1>2, <1>3, <2>2, <2>3 DEF TypeOK, serverVars
<1>5. CASE CallHandler(v)
  <2>1. [call |-> Head(handlers), reply |-> v.call] \in [call : Calls, reply : Calls \cup {NoCall}]
    BY <1>1, <1>5, HeadTailProperties DEF TypeOK, CallHandler, Wire
  <2>2. answered' \in Seq([call : Calls, reply : Calls \cup {NoCall}])
    BY <1>5, <2>1, AppendProperties DEF TypeOK, CallHandler
  <2>3. handlers' \in Seq(Calls)
    BY <1>5, HeadTailProperties DEF TypeOK, CallHandler
  <2> QED
    BY <1>2, <1>3, <1>5, <2>2, <2>3 DEF TypeOK, CallHandler, serverVars
<1>6. CASE CallErrorHandler /\ UNCHANGED <<strand, handlers, singleShotMsgHandlers, answered, delivered>>
  BY <1>2, <1>3, <1>6, ErrorHandlerType DEF TypeOK, serverVars
<1> QED
  BY <1>4, <1>5, <1>6, TurnCases, Zenon

-----------------------------------------------------------------------------
(* Types.                                                                  *)

LEMMA NextIs ==
  ASSUME Next
  PROVE  \/ installErrorHandler \/ connect \/ close
         \/ \E c \in Commands : stateValid(c) \/ command(c)
         \/ \E c \in Subscribes : subscribe(c)
         \/ \E c \in SingleShots : singleShotSubscribe(c)
         \/ \E c \in Unsubscribes : unsubscribe(c)
         \/ handleAsyncConnect \/ doAsyncCommand \/ runMsgHandler
         \/ asyncWrite \/ asyncRead \/ parseReply
         \/ Establish \/ Transmit \/ Serve \/ Break
         \/ \E m \in Messages : Publish(m)
BY Zenon DEF Next, Call, IoThread

\* A call that is made in a state it may be made in, and one that is refused.
LEMMA PostType ==
  ASSUME TypeOK, NEW c \in Calls, Post(c)
  PROVE  /\ strand' \in Seq(Tasks) /\ accepted' \in Seq(Calls)
         /\ call' \in [Calls -> {"idle", "checked", "done", "refused"}]
<1>1. CommandTask(c) \in Tasks
  BY DEF CommandTask, Tasks
<1> QED
  BY <1>1 DEF TypeOK, Post

LEMMA RefuseType ==
  ASSUME TypeOK, NEW c \in Calls, Refuse(c)
  PROVE  TypeOK'
<1>1. call' \in [Calls -> {"idle", "checked", "done", "refused"}]
  BY DEF TypeOK, Refuse
<1>2. alive' \in BOOLEAN
  BY Zenon DEF Refuse
<1>3. reported' \in BOOLEAN
  BY Zenon DEF Refuse
<1> QED
  BY <1>1, <1>2, <1>3 DEF TypeOK, Refuse, clientVars, ioVars, serverVars

LEMMA TypeKept ==
  ASSUME TypeOK, WriteDiscipline, Next
  PROVE  TypeOK'
<1>1. CASE installErrorHandler
  BY <1>1 DEF TypeOK, installErrorHandler, ioVars, serverVars, history
<1>2. CASE connect
  BY <1>2 DEF TypeOK, connect, clientVars, serverVars, history
<1>3. CASE close
  BY <1>3 DEF TypeOK, close, ioVars, history
<1>4. ASSUME NEW c \in Commands, stateValid(c)
      PROVE  TypeOK'
  <2>0. c \in Calls
    BY DEF Calls
  <2>1. CASE Refuse(c)
    BY <2>0, <2>1, RefuseType
  <2>2. CASE ~Refuse(c)
    BY <1>4, <2>2 DEF TypeOK, stateValid, clientVars, ioVars, serverVars
  <2> QED
    BY <2>1, <2>2
<1>5. ASSUME NEW c \in Commands, command(c)
      PROVE  TypeOK'
  <2>1. Post(c) /\ c \in Calls
    BY <1>5 DEF command, Calls
  <2> QED
    BY <1>5, <2>1, PostType DEF TypeOK, command, clientVars, serverVars
<1>6. ASSUME NEW c \in Subscribes, subscribe(c)
      PROVE  TypeOK'
  <2>0. c \in Calls
    BY DEF Calls
  <2>1. CASE Refuse(c)
    BY <2>0, <2>1, RefuseType
  <2>2. CASE ~Refuse(c)
    <3>1. Post(c) /\ msgHandlers' = Append(msgHandlers, c)
      BY <1>6, <2>2 DEF subscribe
    <3>2. msgHandlers' \in Seq(Subscribes)
      BY <3>1, AppendProperties DEF TypeOK
    <3>3. /\ strand' \in Seq(Tasks) /\ accepted' \in Seq(Calls)
          /\ call' \in [Calls -> {"idle", "checked", "done", "refused"}]
      BY <2>0, <3>1, PostType
    <3>4. /\ UNCHANGED <<errorHandler, singleShotMsgHandlers, owner,
                         queue, handlers, writing, reading, inbuf, connecting,
                         executed, answered, delivered, reported, alive>>
          /\ UNCHANGED serverVars /\ state' = "Subscribed"
      BY <1>6, <2>2 DEF subscribe
    <3> QED
      BY <3>2, <3>3, <3>4 DEF TypeOK, serverVars
  <2> QED
    BY <2>1, <2>2
<1>7. ASSUME NEW c \in SingleShots, singleShotSubscribe(c)
      PROVE  TypeOK'
  <2>0. c \in Calls
    BY DEF Calls
  <2>1. CASE Refuse(c)
    BY <2>0, <2>1, RefuseType
  <2>2. CASE ~Refuse(c)
    <3>1. Post(c)
      BY <1>7, <2>2 DEF singleShotSubscribe
    <3> QED
      BY <1>7, <2>0, <2>2, <3>1, PostType DEF TypeOK, singleShotSubscribe, serverVars
  <2> QED
    BY <2>1, <2>2
<1>8. ASSUME NEW c \in Unsubscribes, unsubscribe(c)
      PROVE  TypeOK'
  <2>0. c \in Calls
    BY DEF Calls
  <2>1. CASE Refuse(c)
    BY <2>0, <2>1, RefuseType
  <2>2. CASE ~Refuse(c)
    <3>1. Post(c) /\ msgHandlers' = Erased(HandleOf[c])
      BY <1>8, <2>2 DEF unsubscribe
    <3>2. msgHandlers' \in Seq(Subscribes)
      BY <3>1, ChosenFacts DEF TypeOK, Erased, TakenFrom
    <3> QED
      BY <1>8, <2>0, <2>2, <3>1, <3>2, PostType DEF TypeOK, unsubscribe, serverVars
  <2> QED
    BY <2>1, <2>2
<1>9. CASE handleAsyncConnect
  BY <1>9 DEF TypeOK, handleAsyncConnect, serverVars, history
<1>10. CASE doAsyncCommand
  <2>0. Head(strand) \in Tasks /\ Tail(strand) \in Seq(Tasks)
    BY <1>10 DEF TypeOK, doAsyncCommand
  <2>1. Head(strand).call \in Calls
    BY <2>0 DEF Tasks
  <2>2. queue' \in Seq(Calls) /\ handlers' \in Seq(Calls) /\ strand' \in Seq(Tasks)
    BY <1>10, <2>0, <2>1, AppendProperties DEF TypeOK, doAsyncCommand
  <2>3. writing' \in {"none", "started", "sent"}
    BY <1>10 DEF TypeOK, doAsyncCommand, StartWrite
  <2> QED
    BY <1>10, <2>2, <2>3 DEF TypeOK, doAsyncCommand, clientVars, serverVars, history
<1>11. CASE runMsgHandler
  <2>1. Head(strand) \in Tasks /\ Tail(strand) \in Seq(Tasks)
    BY <1>11 DEF TypeOK, runMsgHandler
  <2>2. delivered' \in Seq(Tasks) /\ strand' \in Seq(Tasks)
    BY <1>11, <2>1, AppendProperties DEF TypeOK, runMsgHandler
  <2> QED
    BY <1>11, <2>2 DEF TypeOK, runMsgHandler, clientVars, serverVars
<1>12. CASE asyncWrite
  <2>1. queue' \in Seq(Calls)
    <3>1. queue # <<>> => Tail(queue) \in Seq(Calls)
      BY DEF TypeOK
    <3>2. writing = "sent" => queue # <<>>
      BY DEF WriteDiscipline
    <3> QED
      BY <1>12, <3>1, <3>2 DEF TypeOK, asyncWrite
  <2>2. writing' \in {"none", "started", "sent"}
    BY <1>12 DEF asyncWrite, NextWrite
  <2>3. alive' \in BOOLEAN /\ reported' \in BOOLEAN
    BY <1>12, ErrorHandlerType DEF TypeOK, asyncWrite
  <2> QED
    BY <1>12, <2>1, <2>2, <2>3 DEF TypeOK, asyncWrite, clientVars, serverVars
<1>13. CASE asyncRead
  <2>1. inbuf' \in Seq(Wire) /\ toClient' \in Seq(Wire)
    <3>1. ASSUME NEW k \in 1..Len(toClient)
          PROVE  /\ SubSeq(toClient, 1, k) \in Seq(Wire)
                 /\ SubSeq(toClient, k + 1, Len(toClient)) \in Seq(Wire)
      BY <3>1, SubSeqProperties DEF TypeOK
    <3> QED
      BY <1>13, <3>1 DEF TypeOK, asyncRead
  <2>2. alive' \in BOOLEAN /\ reported' \in BOOLEAN
    BY <1>13, ErrorHandlerType DEF TypeOK, asyncRead
  <2> QED
    BY <1>13, <2>1, <2>2 DEF TypeOK, asyncRead, clientVars
<1>14. CASE parseReply
  BY <1>14, ParseType
<1>15. CASE Establish
  BY <1>15 DEF TypeOK, Establish, clientVars, ioVars, history
<1>16. CASE Transmit
  <2>1. Head(queue) \in Calls
    BY <1>16, HeadTailProperties DEF TypeOK, Transmit, WriteDiscipline
  <2>2. toServer' \in Seq(Calls)
    BY <1>16, <2>1, AppendProperties DEF TypeOK, Transmit
  <2> QED
    BY <1>16, <2>2 DEF TypeOK, Transmit, clientVars, history
<1>17. CASE Serve
  <2> DEFINE c == Head(toServer)
  <2>1. c \in Calls /\ toServer' \in Seq(Calls) /\ executed' \in Seq(Calls)
    BY <1>17, HeadTailProperties, AppendProperties DEF TypeOK, Serve
  <2>2. \A kind \in ReplyKinds(c) : Reply(kind, c) \in Wire
    BY <2>1 DEF ReplyKinds, Reply, Wire
  <2>3. toClient' \in Seq(Wire)
    <3>1. CASE toClient' = toClient
      BY <3>1 DEF TypeOK
    <3>2. ASSUME NEW kind \in ReplyKinds(c), toClient' = Append(toClient, Reply(kind, c))
          PROVE  toClient' \in Seq(Wire)
      BY <2>2, <3>2 DEF TypeOK
    <3> QED
      BY <1>17, <3>1, <3>2 DEF Serve
  <2>4. subs' \subseteq Channels
    BY <1>17, <2>1, ChannelAssumption DEF TypeOK, Serve
  <2> QED
    BY <1>17, <2>1, <2>3, <2>4 DEF TypeOK, Serve, clientVars, ioVars
<1>18. CASE Break
  BY <1>18 DEF TypeOK, Break, clientVars, ioVars, history
<1>19. ASSUME NEW m \in Messages, Publish(m)
       PROVE  TypeOK'
  <2>1. Push(m) \in Wire
    BY DEF Push, Wire
  <2>2. toClient' \in Seq(Wire) /\ pushed' \in Seq(Messages)
    BY <1>19, <2>1, AppendProperties DEF TypeOK, Publish
  <2> QED
    BY <1>19, <2>2 DEF TypeOK, Publish, clientVars, ioVars, history
<1> QED
  BY <1>1, <1>2, <1>3, <1>4, <1>5, <1>6, <1>7, <1>8, <1>9, <1>10, <1>11, <1>12,
     <1>13, <1>14, <1>15, <1>16, <1>17, <1>18, <1>19, NextIs

-----------------------------------------------------------------------------
(* Errors and writes.                                                      *)

\* Calls leave the io thread's state alone but for the strand.
LEMMA CallsPost ==
  ASSUME NEW c,
         stateValid(c) \/ command(c) \/ subscribe(c) \/ singleShotSubscribe(c) \/ unsubscribe(c)
  PROVE  /\ UNCHANGED <<errorHandler, owner, queue, handlers, writing, reading, inbuf, connecting>>
         /\ UNCHANGED serverVars
         /\ UNCHANGED <<executed, answered, delivered>>
         /\ reported => reported'
<1>1. CASE Refuse(c)
  BY <1>1, RefuseRemembers, Zenon DEF Refuse, clientVars, ioVars
<1>2. CASE ~Refuse(c)
  <2>1. /\ UNCHANGED <<errorHandler, owner, queue, handlers, writing, reading, inbuf, connecting>>
        /\ UNCHANGED serverVars
        /\ UNCHANGED <<executed, answered, delivered>>
    BY <1>2 DEF stateValid, command, subscribe, singleShotSubscribe, unsubscribe, clientVars, ioVars
  <2>2. reported' = reported
    BY <1>2, Zenon DEF stateValid, command, subscribe, singleShotSubscribe, unsubscribe
  <2> QED
    BY <2>1, <2>2, Zenon
<1> QED
  BY <1>1, <1>2

LEMMA ErrorIsDisclosed ==
  ASSUME TypeOK, IgnoredAfterClose, CallErrorHandler, owner' = owner
  PROVE  Disclosed'
<1>1. errorHandler \in {"default", "custom", "ignore"}
  BY DEF TypeOK
<1>2. CASE errorHandler = "ignore"
  BY <1>2, Zenon DEF IgnoredAfterClose, Disclosed
<1>3. CASE errorHandler = "custom"
  BY <1>3, ErrorHandlerRemembers, Zenon DEF Disclosed
<1>4. CASE errorHandler = "default"
  BY <1>4, ErrorHandlerRemembers, Zenon DEF Disclosed
<1> QED
  BY <1>1, <1>2, <1>3, <1>4

LEMMA DisclosedStays ==
  ASSUME Disclosed, alive, Next
  PROVE  Disclosed'
<1>1. (reported => reported') /\ (~owner => ~owner')
  <2>1. CASE UNCHANGED <<owner, reported>>
    BY <2>1, Zenon
  <2>2. CASE close
    BY <2>2, Zenon DEF close, history
  <2>3. ASSUME NEW c,
               stateValid(c) \/ command(c) \/ subscribe(c) \/ singleShotSubscribe(c) \/ unsubscribe(c)
        PROVE  (reported => reported') /\ (~owner => ~owner')
    BY <2>3, CallsPost
  <2>4. CASE asyncWrite
    <3>1. reported => reported'
      BY <2>4, ErrorHandlerRemembers, Zenon DEF asyncWrite
    <3>2. owner' = owner
      BY <2>4 DEF asyncWrite, clientVars
    <3> QED
      BY <3>1, <3>2, Zenon
  <2>5. CASE asyncRead
    <3>1. reported => reported'
      BY <2>5, ErrorHandlerRemembers, Zenon DEF asyncRead
    <3>2. owner' = owner
      BY <2>5 DEF asyncRead, clientVars
    <3> QED
      BY <3>1, <3>2, Zenon
  <2>6. CASE parseReply
    <3>1. reported => reported'
      BY <2>6, TurnCases, ErrorHandlerRemembers, Zenon DEF CallHandler, PostMessage
    <3>2. owner' = owner
      BY <2>6, TurnCases
    <3> QED
      BY <3>1, <3>2
  <2> QED
    BY <2>1, <2>2, <2>3, <2>4, <2>5, <2>6, NextIs, Zenon
       DEF installErrorHandler, connect, handleAsyncConnect, doAsyncCommand, runMsgHandler,
           Establish, Transmit, Serve, Break, Publish, clientVars, history
<1> QED
  BY <1>1, Zenon DEF Disclosed

LEMMA WriteKept ==
  ASSUME TypeOK, WriteDiscipline, IgnoredAfterClose, Next
  PROVE  WriteDiscipline'
<1>0. alive
  BY DEF Next
<1>1. ASSUME UNCHANGED <<queue, writing>>
      PROVE  WriteDiscipline'
  <2>1. Disclosed => Disclosed'
    BY <1>0, DisclosedStays
  <2> QED
    BY <1>1, <2>1, Zenon DEF WriteDiscipline
<1>2. ASSUME NEW c,
             stateValid(c) \/ command(c) \/ subscribe(c) \/ singleShotSubscribe(c) \/ unsubscribe(c)
      PROVE  WriteDiscipline'
  BY <1>1, <1>2, CallsPost
<1>3. CASE doAsyncCommand
  <2>1. Disclosed => Disclosed'
    BY <1>0, DisclosedStays
  <2>2. Len(queue') = Len(queue) + 1 /\ Len(queue) \in Nat
    BY <1>3, DoAsyncCommandEffect DEF TypeOK
  <2>3. writing' = IF Len(queue) = 0 THEN "started" ELSE writing
    BY <1>3, DoAsyncCommandEffect
  <2>4. queue' # <<>>
    BY <2>2
  <2>5. Len(queue) # 0 => queue # <<>>
    OBVIOUS
  <2> QED
    BY <2>1, <2>3, <2>4, <2>5 DEF WriteDiscipline
<1>4. CASE asyncWrite
  <2>1. CASE CallErrorHandler
    <3>1. \/ Disclosed' /\ writing' = "none"
          \/ queue' = Tail(queue) /\ writing' = NextWrite(queue')
      BY <1>4, <2>1, ErrorIsDisclosed, Zenon DEF asyncWrite, clientVars
    <3> QED
      BY <3>1 DEF WriteDiscipline, NextWrite
  <2>2. CASE ~CallErrorHandler
    BY <1>4, <2>2 DEF asyncWrite, WriteDiscipline, NextWrite
  <2> QED
    BY <2>1, <2>2
<1>5. CASE Transmit
  BY <1>5 DEF Transmit, WriteDiscipline, Disclosed, clientVars, history
<1>6. CASE parseReply
  BY <1>1, <1>6, TurnCases
<1> QED
  BY <1>1, <1>2, <1>3, <1>4, <1>5, <1>6, NextIs, Zenon
     DEF installErrorHandler, connect, close, handleAsyncConnect, runMsgHandler, asyncRead,
         Establish, Serve, Break, Publish, clientVars, ioVars

LEMMA IgnoredKept ==
  ASSUME IgnoredAfterClose, Next
  PROVE  IgnoredAfterClose'
<1>1. CASE UNCHANGED <<errorHandler, owner>>
  BY <1>1 DEF IgnoredAfterClose
<1>2. CASE installErrorHandler
  BY <1>2 DEF installErrorHandler, IgnoredAfterClose
<1>3. CASE close
  BY <1>3 DEF close, IgnoredAfterClose
<1>4. ASSUME NEW c,
             stateValid(c) \/ command(c) \/ subscribe(c) \/ singleShotSubscribe(c) \/ unsubscribe(c)
      PROVE  IgnoredAfterClose'
  BY <1>1, <1>4, CallsPost
<1>5. CASE parseReply
  BY <1>1, <1>5, TurnCases
<1> QED
  BY <1>1, <1>2, <1>3, <1>4, <1>5, NextIs, Zenon
     DEF connect, handleAsyncConnect, doAsyncCommand, runMsgHandler, asyncWrite, asyncRead,
         Establish, Transmit, Serve, Break, Publish, clientVars

-----------------------------------------------------------------------------
(* Calls that come in turn, among entries that are no calls.               *)

\* The calls in q are those of e after the first lo and up to hi, in order.
InTurn(q, e, lo, hi) ==
  /\ \A i \in 1 .. Len(q) : q[i] = NoCall \/ \E k \in lo + 1 .. hi : q[i] = e[k]
  /\ \A k \in lo + 1 .. hi : \E i \in 1 .. Len(q) : q[i] = e[k]
  /\ \A i, j \in 1 .. Len(q), k, l \in lo + 1 .. hi : i < j /\ q[i] = e[k] /\ q[j] = e[l] => k < l

LEMMA NothingInTurn ==
  ASSUME NEW q, Len(q) = 0, NEW e, NEW lo \in Nat
  PROVE  InTurn(q, e, lo, lo)
BY DEF InTurn

LEMMA InTurnOfMore ==
  ASSUME NEW q, NEW e, NEW f, NEW lo \in Nat, NEW hi \in Nat, InTurn(q, e, lo, hi),
         \A k \in lo + 1 .. hi : f[k] = e[k]
  PROVE  InTurn(q, f, lo, hi)
BY DEF InTurn

LEMMA InTurnSame ==
  ASSUME NEW q, NEW r, NEW e, NEW lo \in Nat, NEW hi \in Nat, InTurn(q, e, lo, hi),
         Len(r) = Len(q), \A i \in 1 .. Len(q) : r[i] = q[i]
  PROVE  InTurn(r, e, lo, hi)
BY DEF InTurn

\* An entry more that is no call.
LEMMA InTurnOther ==
  ASSUME NEW q, NEW r, NEW e, NEW lo \in Nat, NEW hi \in Nat, InTurn(q, e, lo, hi),
         Len(q) \in Nat, Len(r) \in Nat, Len(r) >= Len(q),
         \A i \in 1 .. Len(q) : r[i] = q[i],
         \A i \in Len(q) + 1 .. Len(r) : r[i] = NoCall,
         \A k \in lo + 1 .. hi : e[k] # NoCall
  PROVE  InTurn(r, e, lo, hi)
<1>1. PICK n \in Nat, m \in Nat : n = Len(q) /\ m = Len(r) /\ n <= m
  OBVIOUS
<1>2. \A i \in 1 .. n : i \in 1 .. m
  BY <1>1
<1>3. \A i \in 1 .. m : i \in 1 .. n \/ i \in n + 1 .. m
  BY <1>1
<1>4. \A i \in 1 .. m : r[i] = NoCall \/ \E k \in lo + 1 .. hi : r[i] = e[k]
  BY <1>1, <1>3 DEF InTurn
<1>5. \A k \in lo + 1 .. hi : \E i \in 1 .. m : r[i] = e[k]
  BY <1>1, <1>2 DEF InTurn
<1>6. ASSUME NEW i \in 1 .. m, NEW j \in 1 .. m, NEW k \in lo + 1 .. hi, NEW l \in lo + 1 .. hi,
             i < j, r[i] = e[k], r[j] = e[l]
      PROVE  k < l
  <2>1. i \in 1 .. n /\ j \in 1 .. n
    BY <1>1, <1>3, <1>6
  <2>2. q[i] = e[k] /\ q[j] = e[l]
    BY <1>1, <1>6, <2>1
  <2> QED
    BY <1>1, <1>6, <2>1, <2>2 DEF InTurn
<1> QED
  BY <1>1, <1>4, <1>5, <1>6 DEF InTurn

\* The next call.
LEMMA InTurnNext ==
  ASSUME NEW q, NEW r, NEW e, NEW lo \in Nat, NEW hi \in Nat, lo <= hi, InTurn(q, e, lo, hi),
         Len(q) \in Nat, Len(r) = Len(q) + 1,
         \A i \in 1 .. Len(q) : r[i] = q[i],
         r[Len(q) + 1] = e[hi + 1],
         \A k, l \in 1 .. hi + 1 : e[k] = e[l] => k = l,
         \A k \in 1 .. hi + 1 : e[k] # NoCall
  PROVE  InTurn(r, e, lo, hi + 1)
<1>1. PICK n \in Nat : n = Len(q) /\ Len(r) = n + 1
  OBVIOUS
<1>2. /\ \A i \in 1 .. n : i \in 1 .. n + 1 /\ i # n + 1
      /\ \A i \in 1 .. n + 1 : i \in 1 .. n \/ i = n + 1
      /\ n + 1 \in 1 .. n + 1
  BY <1>1
<1>3. /\ \A k \in lo + 1 .. hi : k \in lo + 1 .. hi + 1 /\ k \in 1 .. hi + 1 /\ k < hi + 1
      /\ \A k \in lo + 1 .. hi + 1 : (k \in lo + 1 .. hi \/ k = hi + 1) /\ k \in 1 .. hi + 1
      /\ hi + 1 \in lo + 1 .. hi + 1 /\ hi + 1 \in 1 .. hi + 1
  OBVIOUS
<1>4. \A i \in 1 .. n : q[i] = NoCall \/ \E k \in lo + 1 .. hi : q[i] = e[k]
  BY <1>1 DEF InTurn
<1>5. \A i \in 1 .. n + 1 : r[i] = NoCall \/ \E k \in lo + 1 .. hi + 1 : r[i] = e[k]
  <2> SUFFICES ASSUME NEW i \in 1 .. n + 1, r[i] # NoCall
               PROVE  \E k \in lo + 1 .. hi + 1 : r[i] = e[k]
    OBVIOUS
  <2>1. CASE i = n + 1
    BY <1>1, <1>3, <2>1
  <2>2. CASE i \in 1 .. n
    <3>1. PICK k \in lo + 1 .. hi : q[i] = e[k]
      BY <1>1, <1>4, <2>2
    <3> QED
      BY <1>1, <1>3, <2>2, <3>1
  <2> QED
    BY <1>2, <2>1, <2>2
<1>6. \A k \in lo + 1 .. hi + 1 : \E i \in 1 .. n + 1 : r[i] = e[k]
  <2> SUFFICES ASSUME NEW k \in lo + 1 .. hi + 1
               PROVE  \E i \in 1 .. n + 1 : r[i] = e[k]
    OBVIOUS
  <2>1. CASE k = hi + 1
    BY <1>1, <1>2, <2>1
  <2>2. CASE k \in lo + 1 .. hi
    <3>1. PICK i \in 1 .. n : q[i] = e[k]
      BY <1>1, <2>2 DEF InTurn
    <3> QED
      BY <1>1, <1>2, <3>1
  <2> QED
    BY <1>3, <2>1, <2>2
<1>7. \A i \in 1 .. n, k \in lo + 1 .. hi + 1 : r[i] = e[k] => k \in lo + 1 .. hi
  <2> SUFFICES ASSUME NEW i \in 1 .. n, r[i] = e[hi + 1]
               PROVE  FALSE
    BY <1>3
  <2>1. q[i] = e[hi + 1] /\ q[i] # NoCall
    BY <1>1, <1>3
  <2>2. PICK k \in lo + 1 .. hi : q[i] = e[k]
    BY <1>4, <2>1
  <2>3. k = hi + 1
    BY <1>3, <2>1, <2>2
  <2> QED
    BY <1>3, <2>2, <2>3
<1>8. ASSUME NEW i \in 1 .. n + 1, NEW j \in 1 .. n + 1, NEW k \in lo + 1 .. hi + 1,
             NEW l \in lo + 1 .. hi + 1, i < j, r[i] = e[k], r[j] = e[l]
      PROVE  k < l
  <2>1. i \in 1 .. n /\ k \in lo + 1 .. hi
    BY <1>1, <1>7, <1>8
  <2>2. CASE j = n + 1
    <3>1. e[l] = e[hi + 1]
      BY <1>1, <1>8, <2>2
    <3>2. l = hi + 1
      BY <1>3, <3>1
    <3> QED
      BY <1>3, <2>1, <3>2
  <2>3. CASE j \in 1 .. n
    <3>1. l \in lo + 1 .. hi /\ q[i] = e[k] /\ q[j] = e[l]
      BY <1>1, <1>7, <1>8, <2>1, <2>3
    <3> QED
      BY <1>1, <1>8, <2>1, <2>3, <3>1 DEF InTurn
  <2> QED
    BY <1>2, <2>2, <2>3
<1> QED
  BY <1>1, <1>5, <1>6, <1>8 DEF InTurn

\* The first entry: a call is the next one, and what follows goes on after it.
LEMMA InTurnFirst ==
  ASSUME NEW q, NEW r, NEW e, NEW lo \in Nat, NEW hi \in Nat, InTurn(q, e, lo, hi),
         Len(q) \in Nat, Len(q) >= 1, Len(r) = Len(q) - 1,
         \A i \in 1 .. Len(q) - 1 : r[i] = q[i + 1],
         \A k, l \in 1 .. hi : e[k] = e[l] => k = l,
         \A k \in 1 .. hi : e[k] # NoCall
  PROVE  /\ q[1] = NoCall => InTurn(r, e, lo, hi)
         /\ q[1] # NoCall => lo < hi /\ q[1] = e[lo + 1] /\ InTurn(r, e, lo + 1, hi)
<1>1. PICK n \in Nat : Len(q) = n + 1 /\ Len(r) = n
  OBVIOUS
<1>2. \A i \in 1 .. n : r[i] = q[i + 1] /\ i + 1 \in 1 .. n + 1 /\ 1 < i + 1
  BY <1>1
<1>3. 1 \in 1 .. n + 1 /\ \A i \in 1 .. n + 1 : i = 1 \/ (\E j \in 1 .. n : i = j + 1)
  <2> SUFFICES ASSUME NEW i \in 1 .. n + 1, i # 1
               PROVE  \E j \in 1 .. n : i = j + 1
    BY <1>1
  <2>1. i - 1 \in 1 .. n /\ i = (i - 1) + 1
    BY <1>1
  <2> QED
    BY <2>1
<1>0. /\ \A i \in 1 .. n + 1 : q[i] = NoCall \/ \E k \in lo + 1 .. hi : q[i] = e[k]
      /\ \A k \in lo + 1 .. hi : \E i \in 1 .. n + 1 : q[i] = e[k]
      /\ \A i, j \in 1 .. n + 1, k, l \in lo + 1 .. hi :
           i < j /\ q[i] = e[k] /\ q[j] = e[l] => k < l
  BY <1>1 DEF InTurn
<1>4. \A i, j \in 1 .. n, k, l \in lo + 1 .. hi : i < j /\ r[i] = e[k] /\ r[j] = e[l] => k < l
  <2> SUFFICES ASSUME NEW i \in 1 .. n, NEW j \in 1 .. n, NEW k \in lo + 1 .. hi, NEW l \in lo + 1 .. hi,
                      i < j, r[i] = e[k], r[j] = e[l]
               PROVE  k < l
    OBVIOUS
  <2>1. PICK x \in 1 .. n + 1, y \in 1 .. n + 1 : x = i + 1 /\ y = j + 1
    BY <1>2
  <2>2. q[x] = e[k] /\ q[y] = e[l] /\ x < y
    BY <1>2, <2>1
  <2> QED
    BY <1>1, <2>2 DEF InTurn
<1>5. \A i \in 1 .. n : r[i] = NoCall \/ \E k \in lo + 1 .. hi : r[i] = e[k]
  <2> SUFFICES ASSUME NEW i \in 1 .. n, r[i] # NoCall
               PROVE  \E k \in lo + 1 .. hi : r[i] = e[k]
    OBVIOUS
  <2>1. PICK x \in 1 .. n + 1 : x = i + 1
    BY <1>2
  <2>2. q[x] = r[i]
    BY <1>2, <2>1
  <2> QED
    BY <1>0, <2>2
<1>6. ASSUME q[1] = NoCall
      PROVE  InTurn(r, e, lo, hi)
  <2>1. \A k \in lo + 1 .. hi : \E i \in 1 .. n : r[i] = e[k]
    <3> SUFFICES ASSUME NEW k \in lo + 1 .. hi
                 PROVE  \E i \in 1 .. n : r[i] = e[k]
      OBVIOUS
    <3>1. PICK i \in 1 .. n + 1 : q[i] = e[k]
      BY <1>1 DEF InTurn
    <3>2. k \in 1 .. hi
      OBVIOUS
    <3>3. i # 1
      BY <1>6, <3>1, <3>2
    <3>4. PICK j \in 1 .. n : i = j + 1
      BY <1>3, <3>3
    <3>5. r[j] = e[k]
      BY <1>2, <3>1, <3>4
    <3> QED
      BY <3>5
  <2> QED
    BY <1>1, <1>4, <1>5, <2>1 DEF InTurn
<1>7. ASSUME q[1] # NoCall
      PROVE  lo < hi /\ q[1] = e[lo + 1] /\ InTurn(r, e, lo + 1, hi)
  <2>1. PICK k \in lo + 1 .. hi : q[1] = e[k]
    BY <1>1, <1>3, <1>7 DEF InTurn
  <2>2. lo + 1 \in lo + 1 .. hi /\ lo < hi
    BY <2>1
  <2>3. PICK i \in 1 .. n + 1 : q[i] = e[lo + 1]
    BY <1>1, <2>2 DEF InTurn
  <2>4. i = 1
    <3> SUFFICES ASSUME i # 1
                 PROVE  FALSE
      OBVIOUS
    <3>1. 1 < i
      BY <1>1
    <3>2. k < lo + 1
      BY <1>1, <1>3, <2>1, <2>2, <2>3, <3>1 DEF InTurn
    <3> QED
      BY <3>2
  <2>5. \A l \in lo + 1 + 1 .. hi : l \in lo + 1 .. hi /\ l # lo + 1 /\ l \in 1 .. hi
    OBVIOUS
  <2>6. \A l \in lo + 1 + 1 .. hi : \E j \in 1 .. n : r[j] = e[l]
    <3> SUFFICES ASSUME NEW l \in lo + 1 + 1 .. hi
                 PROVE  \E j \in 1 .. n : r[j] = e[l]
      OBVIOUS
    <3>1. PICK j \in 1 .. n + 1 : q[j] = e[l]
      BY <1>1, <2>5 DEF InTurn
    <3>2. lo + 1 \in 1 .. hi
      BY <2>2
    <3>3. j # 1
      BY <2>3, <2>4, <2>5, <3>1, <3>2
    <3>4. PICK x \in 1 .. n : j = x + 1
      BY <1>3, <3>3
    <3>5. r[x] = e[l]
      BY <1>2, <3>1, <3>4
    <3> QED
      BY <3>5
  <2>7. \A j \in 1 .. n : r[j] = NoCall \/ \E l \in lo + 1 + 1 .. hi : r[j] = e[l]
    <3> SUFFICES ASSUME NEW j \in 1 .. n, r[j] # NoCall
                 PROVE  \E l \in lo + 1 + 1 .. hi : r[j] = e[l]
      OBVIOUS
    <3>1. PICK l \in lo + 1 .. hi : r[j] = e[l]
      BY <1>5
    <3>2. PICK x \in 1 .. n + 1 : x = j + 1
      BY <1>2
    <3>3. q[x] = e[l] /\ 1 < x
      BY <1>2, <3>1, <3>2
    <3>4. lo + 1 < l
      <4>1. q[1] = e[lo + 1]
        BY <2>3, <2>4
      <4> QED
        BY <1>0, <1>3, <2>2, <3>3, <4>1
    <3>5. l \in lo + 1 + 1 .. hi
      BY <3>4
    <3> QED
      BY <3>1, <3>5
  <2>8. \A i1, j1 \in 1 .. n, k1, l1 \in lo + 1 + 1 .. hi : i1 < j1 /\ r[i1] = e[k1] /\ r[j1] = e[l1] => k1 < l1
    BY <1>4, <2>5
  <2>9. InTurn(r, e, lo + 1, hi)
    BY <1>1, <2>6, <2>7, <2>8 DEF InTurn
  <2> QED
    BY <2>2, <2>3, <2>4, <2>9
<1> QED
  BY <1>6, <1>7

-----------------------------------------------------------------------------
(* The calls accepted.                                                     *)

\* A call is accepted once, and one that is done stays done.
LEMMA AcceptCases ==
  ASSUME TypeOK, Next
  PROVE  /\ \/ accepted' = accepted
            \/ \E c \in Calls : call[c] # "done" /\ Post(c)
         /\ \A d \in Calls : call[d] = "done" => call'[d] = "done"
<1> DEFINE Kept == \A d \in Calls : call[d] = "done" => call'[d] = "done"
           More == accepted' = accepted \/ \E c \in Calls : call[c] # "done" /\ Post(c)
<1>1. CASE UNCHANGED <<accepted, call>>
  BY <1>1
<1>2. ASSUME NEW c \in Calls, call[c] \in {"idle", "checked"},
             \E v : call' = [call EXCEPT ![c] = v]
      PROVE  Kept
  BY <1>2
<1>3. ASSUME NEW c \in Calls, Refuse(c), call[c] = "idle"
      PROVE  More /\ Kept
  <2>1. accepted' = accepted /\ \E v : call' = [call EXCEPT ![c] = v]
    BY <1>3 DEF Refuse
  <2> QED
    BY <1>2, <1>3, <2>1
<1>4. ASSUME NEW c \in Calls, Post(c), call[c] \in {"idle", "checked"}
      PROVE  More /\ Kept
  <2>1. \E v : call' = [call EXCEPT ![c] = v]
    BY <1>4 DEF Post
  <2> QED
    BY <1>2, <1>4, <2>1
<1>5. ASSUME NEW c \in Commands, stateValid(c)
      PROVE  More /\ Kept
  <2>1. c \in Calls /\ call[c] = "idle"
    BY <1>5 DEF stateValid, Calls
  <2>2. CASE ~Refuse(c)
    <3>1. accepted' = accepted /\ \E v : call' = [call EXCEPT ![c] = v]
      BY <1>5, <2>2 DEF stateValid
    <3> QED
      BY <1>2, <2>1, <3>1
  <2> QED
    BY <1>3, <2>1, <2>2
<1>6. ASSUME NEW c \in Commands, command(c)
      PROVE  More /\ Kept
  <2>1. c \in Calls /\ call[c] = "checked" /\ Post(c)
    BY <1>6 DEF command, Calls
  <2> QED
    BY <1>4, <2>1
<1>7. ASSUME NEW c \in Calls, subscribe(c) \/ singleShotSubscribe(c) \/ unsubscribe(c)
      PROVE  More /\ Kept
  <2>1. call[c] = "idle" /\ (Post(c) \/ Refuse(c))
    BY <1>7 DEF subscribe, singleShotSubscribe, unsubscribe
  <2> QED
    BY <1>3, <1>4, <2>1
<1>8. \A c \in Subscribes \cup SingleShots \cup Unsubscribes : c \in Calls
  BY DEF Calls
<1>9. CASE parseReply
  BY <1>1, <1>9, TurnCases
<1> QED
  BY <1>1, <1>5, <1>6, <1>7, <1>8, <1>9, NextIs, Zenon
     DEF installErrorHandler, connect, close, handleAsyncConnect, doAsyncCommand, runMsgHandler,
         asyncWrite, asyncRead, Establish, Transmit, Serve, Break, Publish, history

LEMMA PostGrows ==
  ASSUME TypeOK, NEW c \in Calls, Post(c)
  PROVE  /\ Len(accepted') = Len(accepted) + 1
         /\ \A i \in 1 .. Len(accepted) : accepted'[i] = accepted[i]
         /\ accepted'[Len(accepted) + 1] = c
         /\ Len(strand') = Len(strand) + 1
         /\ \A i \in 1 .. Len(strand) : strand'[i] = strand[i]
         /\ strand'[Len(strand) + 1] = CommandTask(c)
<1>1. CommandTask(c) \in Tasks
  BY DEF CommandTask, Tasks
<1>2. accepted \in Seq(Calls) /\ strand \in Seq(Tasks)
  BY DEF TypeOK
<1>3. accepted' = Append(accepted, c) /\ strand' = Append(strand, CommandTask(c))
  BY DEF Post
<1> QED
  BY <1>1, <1>2, <1>3, AppendFacts

\* The invariant of any client: its types, its writes and its calls.
BaseInv ==
  /\ TypeOK /\ WriteDiscipline /\ IgnoredAfterClose
  /\ AcceptedAreDone /\ Distinct(accepted)

LEMMA BaseKept ==
  ASSUME BaseInv, Next
  PROVE  BaseInv'
<1>1. TypeOK /\ WriteDiscipline /\ IgnoredAfterClose
  BY DEF BaseInv
<1>2. TypeOK' /\ WriteDiscipline' /\ IgnoredAfterClose'
  BY <1>1, TypeKept, WriteKept, IgnoredKept
<1>3. PICK n \in Nat : n = Len(accepted)
  BY <1>1 DEF TypeOK
<1>4. /\ \A i \in 1 .. n : accepted[i] \in Calls /\ call[accepted[i]] = "done"
      /\ \A i, j \in 1 .. n : accepted[i] = accepted[j] => i = j
  BY <1>1, <1>3 DEF BaseInv, TypeOK, AcceptedAreDone, Distinct
<1>5. \A d \in Calls : call[d] = "done" => call'[d] = "done"
  BY <1>1, AcceptCases
<1>6. CASE accepted' = accepted
  BY <1>2, <1>3, <1>4, <1>5, <1>6 DEF BaseInv, AcceptedAreDone, Distinct
<1>7. ASSUME NEW c \in Calls, call[c] # "done", Post(c)
      PROVE  AcceptedAreDone' /\ Distinct(accepted)'
  <2>1. /\ Len(accepted') = n + 1 /\ accepted'[n + 1] = c
        /\ \A i \in 1 .. n : accepted'[i] = accepted[i]
    BY <1>1, <1>3, <1>7, PostGrows
  <2>2. call'[c] = "done"
    BY <1>1, <1>7 DEF Post, TypeOK
  <2>3. \A i \in 1 .. n + 1 : i \in 1 .. n \/ i = n + 1
    OBVIOUS
  <2>4. \A i \in 1 .. n : accepted[i] # c
    BY <1>4, <1>7
  <2> QED
    BY <1>4, <1>5, <2>1, <2>2, <2>3, <2>4 DEF AcceptedAreDone, Distinct
<1> QED
  BY <1>1, <1>2, <1>6, <1>7, AcceptCases DEF BaseInv

-----------------------------------------------------------------------------
(* The handlers registered.                                                *)

\* What a step does to the registered handlers.
LEMMA RegisterCases ==
  ASSUME TypeOK, Next
  PROVE  \/ /\ msgHandlers' = msgHandlers
            /\ singleShotMsgHandlers' \subseteq singleShotMsgHandlers
            /\ \A u \in Unsubscribes : call'[u] = "done" => call[u] = "done"
         \/ \E c \in Subscribes :
              /\ call[c] = "idle" /\ Post(c)
              /\ msgHandlers' = Append(msgHandlers, c)
              /\ singleShotMsgHandlers' = singleShotMsgHandlers
         \/ \E c \in SingleShots :
              /\ call[c] = "idle" /\ Post(c)
              /\ msgHandlers' = msgHandlers
              /\ singleShotMsgHandlers' = singleShotMsgHandlers \cup {c}
         \/ \E c \in Unsubscribes :
              /\ call[c] = "idle" /\ Post(c)
              /\ call[HandleOf[c]] = "done"
              /\ msgHandlers' = Erased(HandleOf[c])
              /\ singleShotMsgHandlers' = singleShotMsgHandlers
<1> DEFINE Same == UNCHANGED <<msgHandlers, singleShotMsgHandlers>>
           None == \A u \in Unsubscribes : call'[u] = "done" => call[u] = "done"
<1>0. \A u \in Unsubscribes : u \in Calls /\ u \notin Commands
  BY Kinds DEF Calls
<1>1. ASSUME NEW c \in Calls, \E v \in {"checked", "refused"} : call' = [call EXCEPT ![c] = v]
      PROVE  None
  BY <1>0, <1>1 DEF TypeOK
<1>2. ASSUME NEW c \in Calls, Refuse(c)
      PROVE  Same /\ None
  <2>1. Same /\ \E v \in {"checked", "refused"} : call' = [call EXCEPT ![c] = v]
    BY <1>2 DEF Refuse, clientVars
  <2> QED
    BY <1>1, <2>1
<1>3. ASSUME NEW c \in Commands, stateValid(c) \/ command(c)
      PROVE  Same /\ None
  <2>0. c \in Calls
    BY DEF Calls
  <2>1. CASE Refuse(c)
    BY <1>2, <2>0, <2>1
  <2>2. CASE stateValid(c) /\ ~Refuse(c)
    <3>1. Same /\ \E v \in {"checked", "refused"} : call' = [call EXCEPT ![c] = v]
      BY <2>2 DEF stateValid, clientVars
    <3> QED
      BY <1>1, <2>0, <3>1
  <2>3. CASE command(c)
    <3>1. Same /\ Post(c)
      BY <2>3 DEF command, clientVars
    <3>2. \A u \in Unsubscribes : call'[u] = call[u]
      BY <1>0, <3>1 DEF Post, TypeOK
    <3> QED
      BY <3>1, <3>2
  <2> QED
    BY <1>3, <2>1, <2>2, <2>3
<1>4. ASSUME NEW c \in Subscribes, subscribe(c), ~Refuse(c)
      PROVE  /\ call[c] = "idle" /\ Post(c)
             /\ msgHandlers' = Append(msgHandlers, c)
             /\ singleShotMsgHandlers' = singleShotMsgHandlers
  BY <1>4 DEF subscribe
<1>5. ASSUME NEW c \in SingleShots, singleShotSubscribe(c), ~Refuse(c)
      PROVE  /\ call[c] = "idle" /\ Post(c)
             /\ msgHandlers' = msgHandlers
             /\ singleShotMsgHandlers' = singleShotMsgHandlers \cup {c}
  BY <1>5 DEF singleShotSubscribe
<1>6. ASSUME NEW c \in Unsubscribes, unsubscribe(c), ~Refuse(c)
      PROVE  /\ call[c] = "idle" /\ Post(c)
             /\ call[HandleOf[c]] = "done"
             /\ msgHandlers' = Erased(HandleOf[c])
             /\ singleShotMsgHandlers' = singleShotMsgHandlers
  BY <1>6 DEF unsubscribe
<1>7. CASE parseReply
  <2>1. msgHandlers' = msgHandlers /\ call' = call
    BY <1>7, TurnCases
  <2>2. ASSUME NEW m, PostMessage(m)
        PROVE  singleShotMsgHandlers' \subseteq singleShotMsgHandlers
    BY <2>2, PostEffect DEF TypeOK
  <2>3. singleShotMsgHandlers' \subseteq singleShotMsgHandlers
    BY <1>7, <2>2, TurnCases DEF CallHandler
  <2> QED
    BY <2>1, <2>3
<1>8. \/ UNCHANGED <<msgHandlers, singleShotMsgHandlers, call>>
      \/ parseReply
      \/ \E c \in Commands : stateValid(c) \/ command(c)
      \/ \E c \in Subscribes : subscribe(c)
      \/ \E c \in SingleShots : singleShotSubscribe(c)
      \/ \E c \in Unsubscribes : unsubscribe(c)
  BY NextIs, Zenon
     DEF installErrorHandler, connect, close, handleAsyncConnect, doAsyncCommand, runMsgHandler,
         asyncWrite, asyncRead, Establish, Transmit, Serve, Break, Publish, clientVars, history
<1>9. CASE UNCHANGED <<msgHandlers, singleShotMsgHandlers, call>>
  BY <1>9
<1>10. \A c : c \in Commands \/ c \in Subscribes \/ c \in SingleShots \/ c \in Unsubscribes => c \in Calls
  BY DEF Calls
<1>11. Same => msgHandlers' = msgHandlers /\ singleShotMsgHandlers' \subseteq singleShotMsgHandlers
  OBVIOUS
<1> QED
  BY <1>2, <1>3, <1>4, <1>5, <1>6, <1>7, <1>8, <1>9, <1>10, <1>11, Zenon

\* A handler is registered by one call, which was made, and until another
\* call unsubscribes it.
RegisteredInv ==
  /\ Distinct(msgHandlers)
  /\ \A i \in 1 .. Len(msgHandlers) : call[msgHandlers[i]] = "done"
  /\ \A s \in singleShotMsgHandlers : call[s] = "done"
  /\ \A u \in Unsubscribes : call[u] = "done" =>
       /\ call[HandleOf[u]] = "done"
       /\ \A i \in 1 .. Len(msgHandlers) : msgHandlers[i] # HandleOf[u]

LEMMA RegisteredKept ==
  ASSUME TypeOK, RegisteredInv, Next
  PROVE  RegisteredInv'
<1>0. \A d \in Calls : call[d] = "done" => call'[d] = "done"
  BY AcceptCases
<1>1. PICK n \in Nat : n = Len(msgHandlers)
  BY DEF TypeOK
<1>2. \A i \in 1 .. n : msgHandlers[i] \in Subscribes /\ msgHandlers[i] \in Calls
  BY <1>1 DEF TypeOK, Calls
<1>3. \A s \in singleShotMsgHandlers : s \in Calls
  BY DEF TypeOK, Calls
<1>4. \A u \in Unsubscribes : u \in Calls /\ HandleOf[u] \in Subscribes /\ HandleOf[u] \in Calls
  BY ChannelAssumption DEF Calls
<1>6. ASSUME msgHandlers' = msgHandlers, singleShotMsgHandlers' \subseteq singleShotMsgHandlers,
             \A u \in Unsubscribes : call'[u] = "done" => call[u] = "done"
      PROVE  RegisteredInv'
  <2>1. Distinct(msgHandlers)'
    BY <1>6 DEF RegisteredInv, Distinct
  <2>2. \A i \in 1 .. n : call'[msgHandlers[i]] = "done"
    BY <1>0, <1>1, <1>2 DEF RegisteredInv
  <2>3. \A s \in singleShotMsgHandlers' : call'[s] = "done"
    BY <1>0, <1>3, <1>6 DEF RegisteredInv
  <2>4. \A u \in Unsubscribes : call'[u] = "done" =>
          /\ call'[HandleOf[u]] = "done"
          /\ \A i \in 1 .. n : msgHandlers[i] # HandleOf[u]
    BY <1>0, <1>1, <1>4, <1>6 DEF RegisteredInv
  <2> QED
    BY <1>1, <1>6, <2>1, <2>2, <2>3, <2>4 DEF RegisteredInv
<1>7. ASSUME NEW c \in Subscribes, Post(c), call[c] = "idle", msgHandlers' = Append(msgHandlers, c),
             singleShotMsgHandlers' = singleShotMsgHandlers
      PROVE  RegisteredInv'
  <2>1. c \in Calls /\ c \notin Unsubscribes
    BY Kinds DEF Calls
  <2>2. call'[c] = "done" /\ \A d \in Calls : d # c => call'[d] = call[d]
    BY <1>7, <2>1 DEF Post, TypeOK
  <2>3. /\ Len(msgHandlers') = n + 1 /\ msgHandlers'[n + 1] = c
        /\ \A i \in 1 .. n : msgHandlers'[i] = msgHandlers[i]
    <3>1. msgHandlers \in Seq(Subscribes)
      BY DEF TypeOK
    <3> QED
      BY <1>1, <1>7, <3>1, AppendFacts
  <2>4. \A i \in 1 .. n + 1 : i \in 1 .. n \/ i = n + 1
    OBVIOUS
  <2>5. \A i \in 1 .. n : msgHandlers[i] # c
    BY <1>1, <1>7 DEF RegisteredInv
  <2>6. Distinct(msgHandlers)'
    <3>1. \A i, j \in 1 .. n : msgHandlers[i] = msgHandlers[j] => i = j
      BY <1>1 DEF RegisteredInv, Distinct
    <3> QED
      BY <2>3, <2>4, <2>5, <3>1 DEF Distinct
  <2>7. \A i \in 1 .. n + 1 : call'[msgHandlers'[i]] = "done"
    BY <1>0, <1>1, <1>2, <2>2, <2>3, <2>4 DEF RegisteredInv
  <2>8. \A s \in singleShotMsgHandlers : call'[s] = "done"
    BY <1>0, <1>3 DEF RegisteredInv
  <2>9. ASSUME NEW u \in Unsubscribes, call'[u] = "done"
        PROVE  /\ call'[HandleOf[u]] = "done"
               /\ \A i \in 1 .. n + 1 : msgHandlers'[i] # HandleOf[u]
    <3>1. call[u] = "done"
      BY <1>4, <2>1, <2>2, <2>9
    <3>2. call[HandleOf[u]] = "done" /\ \A i \in 1 .. n : msgHandlers[i] # HandleOf[u]
      BY <1>1, <3>1 DEF RegisteredInv
    <3>3. HandleOf[u] # c
      BY <1>7, <3>2
    <3> QED
      BY <1>0, <1>4, <2>3, <2>4, <3>2, <3>3
  <2> QED
    BY <1>7, <2>3, <2>6, <2>7, <2>8, <2>9 DEF RegisteredInv
<1>8. ASSUME NEW c \in SingleShots, Post(c), call[c] = "idle", msgHandlers' = msgHandlers,
             singleShotMsgHandlers' = singleShotMsgHandlers \cup {c}
      PROVE  RegisteredInv'
  <2>1. c \in Calls /\ c \notin Unsubscribes
    BY Kinds DEF Calls
  <2>2. call'[c] = "done" /\ \A d \in Calls : d # c => call'[d] = call[d]
    BY <1>8, <2>1 DEF Post, TypeOK
  <2>3. Distinct(msgHandlers)'
    BY <1>8 DEF RegisteredInv, Distinct
  <2>4. \A i \in 1 .. n : call'[msgHandlers[i]] = "done"
    BY <1>0, <1>1, <1>2 DEF RegisteredInv
  <2>5. \A s \in singleShotMsgHandlers' : call'[s] = "done"
    BY <1>0, <1>3, <1>8, <2>2 DEF RegisteredInv
  <2>6. \A u \in Unsubscribes : call'[u] = "done" =>
          /\ call'[HandleOf[u]] = "done"
          /\ \A i \in 1 .. n : msgHandlers[i] # HandleOf[u]
    BY <1>0, <1>1, <1>4, <2>1, <2>2 DEF RegisteredInv
  <2> QED
    BY <1>1, <1>8, <2>3, <2>4, <2>5, <2>6 DEF RegisteredInv
<1>9. ASSUME NEW c \in Unsubscribes, Post(c), call[HandleOf[c]] = "done",
             msgHandlers' = Erased(HandleOf[c]), singleShotMsgHandlers' = singleShotMsgHandlers
      PROVE  RegisteredInv'
  <2>1. c \in Calls
    BY <1>4
  <2>2. \A d \in Calls : d # c => call'[d] = call[d]
    BY <1>9, <2>1 DEF Post, TypeOK
  <2>3. PICK q : q = msgHandlers'
    OBVIOUS
  <2>4. TakenFrom(Chosen(Subscribes \ {HandleOf[c]}), Subscribes \ {HandleOf[c]}, Len(msgHandlers))
    BY ChosenFacts DEF TypeOK
  <2>5. PICK m \in Nat : /\ m = Len(q) /\ q \in Seq(Subscribes)
                         /\ \A i \in 1 .. m : q[i] # HandleOf[c] /\ \E j \in 1 .. n : msgHandlers[j] = q[i]
    <3>1. PICK S : S = Subscribes \ {HandleOf[c]}
      OBVIOUS
    <3>2. q = Chosen(S)
      BY <1>9, <2>3, <3>1 DEF Erased
    <3>3. TakenFrom(q, S, n)
      BY <1>1, <2>4, <3>1, <3>2
    <3>4. q \in Seq(Subscribes) /\ \A i \in 1 .. Len(q) : q[i] \in S /\ \E j \in 1 .. n : msgHandlers[j] = q[i]
      BY <3>3 DEF TakenFrom
    <3>5. Len(q) \in Nat
      BY <3>4
    <3> QED
      BY <3>1, <3>4, <3>5
  <2>6. Distinct(q)
    BY <1>9, <2>3, <2>4 DEF TakenFrom, Erased, RegisteredInv
  <2>7. \A i \in 1 .. m : call'[q[i]] = "done"
    BY <1>0, <1>1, <1>2, <2>5 DEF RegisteredInv
  <2>8. \A s \in singleShotMsgHandlers : call'[s] = "done"
    BY <1>0, <1>3 DEF RegisteredInv
  <2>9. \A u \in Unsubscribes : call[u] = "done" =>
          /\ call[HandleOf[u]] = "done"
          /\ \A i \in 1 .. n : msgHandlers[i] # HandleOf[u]
    BY <1>1 DEF RegisteredInv
  <2>10. ASSUME NEW u \in Unsubscribes, call'[u] = "done"
         PROVE  /\ call'[HandleOf[u]] = "done"
                /\ \A i \in 1 .. m : q[i] # HandleOf[u]
    <3>1. CASE u = c
      BY <1>0, <1>4, <1>9, <2>5, <3>1
    <3>2. CASE u # c
      BY <1>0, <1>4, <2>2, <2>5, <2>9, <2>10, <3>2
    <3> QED
      BY <3>1, <3>2
  <2>11. Distinct(msgHandlers)'
    BY <2>3, <2>6 DEF Distinct
  <2> QED
    BY <1>9, <2>3, <2>5, <2>7, <2>8, <2>10, <2>11 DEF RegisteredInv
<1> QED
  BY <1>6, <1>7, <1>8, <1>9, RegisterCases

-----------------------------------------------------------------------------
(* What a step does to the strand.                                         *)

\* hs are the handlers the message m is posted to by this step.
PostedTo(hs, m) ==
  /\ hs \in Seq(Subscribes \cup SingleShots)
  /\ strand' = strand \o Posted(hs, m)
  /\ \A i \in 1 .. Len(hs) :
       \/ hs[i] \in singleShotMsgHandlers \ singleShotMsgHandlers'
       \/ hs[i] \in Subscribes /\ \E j \in 1 .. Len(msgHandlers) : msgHandlers[j] = hs[i]
  /\ Distinct(msgHandlers) => Distinct(hs)

\* A call is posted, and nothing else happens to what the io thread holds.
Posting(c) ==
  /\ Post(c)
  /\ UNCHANGED <<queue, handlers, writing, reading, inbuf, connecting,
                 executed, answered, delivered>>
  /\ UNCHANGED serverVars

LEMMA StrandCases ==
  ASSUME TypeOK, Next
  PROVE  \/ strand' = strand /\ delivered' = delivered
         \/ \E c \in Calls : Posting(c)
         \/ doAsyncCommand
         \/ runMsgHandler
         \/ /\ parseReply /\ Head(inbuf).kind = "message"
            /\ inbuf' = Tail(inbuf)
            /\ UNCHANGED <<handlers, answered, delivered, alive, reported>>
            /\ \E hs : PostedTo(hs, Head(inbuf).msg)
<1>1. ASSUME NEW c, stateValid(c) \/ Refuse(c)
      PROVE  strand' = strand /\ delivered' = delivered
  BY <1>1 DEF stateValid, Refuse, ioVars
<1>2. ASSUME NEW c,
             command(c) \/ subscribe(c) \/ singleShotSubscribe(c) \/ unsubscribe(c)
      PROVE  Posting(c) \/ Refuse(c)
  <2>1. Post(c) \/ Refuse(c)
    BY <1>2, Zenon DEF command, subscribe, singleShotSubscribe, unsubscribe
  <2>2. /\ UNCHANGED <<errorHandler, owner, queue, handlers, writing, reading, inbuf, connecting>>
        /\ UNCHANGED serverVars
        /\ UNCHANGED <<executed, answered, delivered>>
    BY <1>2, CallsPost, Zenon
  <2> QED
    BY <2>1, <2>2 DEF Posting
<1>3. \A c : c \in Commands \/ c \in Subscribes \/ c \in SingleShots \/ c \in Unsubscribes => c \in Calls
  BY DEF Calls
<1>4. CASE parseReply
  <2>1. PICK m : m = Head(inbuf).msg
    OBVIOUS
  <2>2. ASSUME PostMessage(m)
        PROVE  /\ UNCHANGED <<handlers, answered, delivered, alive, reported>>
               /\ \E hs : PostedTo(hs, m)
    BY <2>2, PostEffect DEF TypeOK, PostedTo
  <2> QED
    BY <1>4, <2>1, <2>2, TurnCases, Zenon DEF CallHandler
<1> QED
  BY <1>1, <1>2, <1>3, <1>4, NextIs, Zenon
     DEF installErrorHandler, connect, close, handleAsyncConnect, asyncWrite, asyncRead,
         Establish, Transmit, Serve, Break, Publish, ioVars, history

\* What holds of the tasks before and of those posted holds of the tasks after.
LEMMA PostedToFacts ==
  ASSUME TypeOK, NEW hs, NEW m \in Messages \cup {NoMsg}, PostedTo(hs, m)
  PROVE  /\ Len(strand') = Len(strand) + Len(hs) /\ Len(hs) \in Nat
         /\ \A i \in 1 .. Len(strand) : strand'[i] = strand[i]
         /\ \A i \in Len(strand) + 1 .. Len(strand) + Len(hs) :
              strand'[i] = [call |-> hs[i - Len(strand)], msg |-> m]
<1>1. PICK p : p = Posted(hs, m)
  OBVIOUS
<1>2. hs \in Seq(Subscribes \cup SingleShots) /\ strand' = strand \o p
  BY <1>1 DEF PostedTo
<1>3. /\ Posted(hs, m) \in Seq(Tasks) /\ Len(Posted(hs, m)) = Len(hs)
      /\ \A i \in 1 .. Len(hs) : Posted(hs, m)[i] = [call |-> hs[i], msg |-> m]
  BY <1>2, PostedFacts
<1>4. p \in Seq(Tasks) /\ strand \in Seq(Tasks)
  BY <1>1, <1>3 DEF TypeOK
<1>5. /\ Len(strand \o p) = Len(strand) + Len(p)
      /\ \A i \in 1 .. Len(strand) : (strand \o p)[i] = strand[i]
      /\ \A i \in Len(strand) + 1 .. Len(strand) + Len(p) : (strand \o p)[i] = p[i - Len(strand)]
  <2>1. PICK T : T = Tasks
    OBVIOUS
  <2>2. strand \in Seq(T) /\ p \in Seq(T)
    BY <1>4, <2>1
  <2>3. /\ strand \o p \in Seq(T) /\ Len(strand \o p) = Len(strand) + Len(p)
        /\ \A i \in 1 .. Len(strand) : (strand \o p)[i] = strand[i]
        /\ \A i \in Len(strand) + 1 .. Len(strand) + Len(p) : (strand \o p)[i] = p[i - Len(strand)]
    BY <2>2, ConcatFacts
  <2> QED
    BY <2>3
<1>6. PICK l \in Nat, n \in Nat : l = Len(strand) /\ n = Len(hs) /\ n = Len(p)
  BY <1>1, <1>2, <1>3, <1>4
<1>7. \A i \in l + 1 .. l + n : i - l \in 1 .. n
  BY <1>6
<1>8. \A i \in l + 1 .. l + n : strand'[i] = p[i - l]
  BY <1>2, <1>5, <1>6
<1>9. \A i \in 1 .. n : p[i] = [call |-> hs[i], msg |-> m]
  BY <1>1, <1>3, <1>6
<1>10. \A i \in l + 1 .. l + n : strand'[i] = [call |-> hs[i - l], msg |-> m]
  BY <1>7, <1>8, <1>9
<1> QED
  BY <1>2, <1>5, <1>6, <1>10

-----------------------------------------------------------------------------
(* Unsubscribing.                                                          *)

LEMMA QuietStep ==
  ASSUME TypeOK, RegisteredInv, Next, NEW s \in Subscribes, Drained(s)
  PROVE  Drained(s)'
<1>0. PICK u \in Unsubscribes : HandleOf[u] = s /\ call[u] = "done"
  BY DEF Drained, Unsubscribed
<1>1. \A i \in 1 .. Len(msgHandlers) : msgHandlers[i] # s
  BY <1>0 DEF RegisteredInv
<1>2. Unsubscribed(s)'
  <2>1. u \in Calls
    BY DEF Calls
  <2>2. call'[u] = "done"
    BY <1>0, <2>1, AcceptCases
  <2> QED
    BY <1>0, <2>2 DEF Unsubscribed
<1>3. PICK n \in Nat : n = Len(strand)
  BY DEF TypeOK
<1>4. \A i \in 1 .. n : strand[i].call # s \/ strand[i].msg = NoMsg
  BY <1>3 DEF Drained
<1>5. SUFFICES \A i \in 1 .. Len(strand') : strand'[i].call # s \/ strand'[i].msg = NoMsg
  BY <1>2 DEF Drained, Unsubscribed
<1>6. CASE strand' = strand
  BY <1>3, <1>4, <1>6
<1>7. ASSUME NEW c \in Calls, Posting(c)
      PROVE  \A i \in 1 .. Len(strand') : strand'[i].call # s \/ strand'[i].msg = NoMsg
  <2>1. /\ Len(strand') = n + 1 /\ strand'[n + 1] = CommandTask(c)
        /\ \A i \in 1 .. n : strand'[i] = strand[i]
    BY <1>3, <1>7, PostGrows DEF Posting
  <2>2. strand'[n + 1].msg = NoMsg
    BY <2>1 DEF CommandTask
  <2>3. \A i \in 1 .. n + 1 : i \in 1 .. n \/ i = n + 1
    OBVIOUS
  <2> QED
    BY <1>4, <2>1, <2>2, <2>3
<1>8. CASE doAsyncCommand \/ runMsgHandler
  <2>1. /\ Len(strand') = n - 1 /\ n >= 1
        /\ \A i \in 1 .. n - 1 : strand'[i] = strand[i + 1]
    <3>1. strand \in Seq(Tasks) /\ strand # <<>> /\ strand' = Tail(strand)
      BY <1>8 DEF TypeOK, doAsyncCommand, runMsgHandler
    <3> QED
      BY <1>3, <3>1, TailFacts
  <2>2. \A i \in 1 .. n - 1 : i + 1 \in 1 .. n
    OBVIOUS
  <2> QED
    BY <1>4, <2>1, <2>2
<1>9. ASSUME NEW hs, parseReply, PostedTo(hs, Head(inbuf).msg)
      PROVE  \A i \in 1 .. Len(strand') : strand'[i].call # s \/ strand'[i].msg = NoMsg
  <2>1. PICK m : m = Head(inbuf).msg
    OBVIOUS
  <2>2. m \in Messages \cup {NoMsg}
    <3>1. Head(inbuf) \in Wire
      BY <1>9 DEF TypeOK, parseReply
    <3> QED
      BY <2>1, <3>1 DEF Wire
  <2>3. PICK l \in Nat : l = Len(hs)
    BY <1>9 DEF PostedTo
  <2>4. /\ Len(strand') = n + l
        /\ \A i \in 1 .. n : strand'[i] = strand[i]
        /\ \A i \in n + 1 .. n + l : strand'[i] = [call |-> hs[i - n], msg |-> m]
    BY <1>3, <1>9, <2>1, <2>2, <2>3, PostedToFacts
  <2>5. \A i \in 1 .. l : hs[i] # s
    <3>1. \A i \in 1 .. l : hs[i] \in SingleShots \/ \E j \in 1 .. Len(msgHandlers) : msgHandlers[j] = hs[i]
      BY <1>9, <2>3 DEF PostedTo, TypeOK
    <3>2. s \notin SingleShots
      BY Kinds
    <3> QED
      BY <1>1, <3>1, <3>2
  <2>6. \A i \in n + 1 .. n + l : i - n \in 1 .. l
    OBVIOUS
  <2>7. ASSUME NEW i \in n + 1 .. n + l
        PROVE  strand'[i].call # s
    <3>1. PICK j \in 1 .. l : j = i - n
      BY <2>6
    <3>2. strand'[i] = [call |-> hs[j], msg |-> m]
      BY <2>4, <3>1
    <3>3. strand'[i].call = hs[j]
      BY <3>2
    <3> QED
      BY <2>5, <3>3
  <2>8. \A i \in 1 .. n + l : i \in 1 .. n \/ i \in n + 1 .. n + l
    OBVIOUS
  <2> QED
    BY <1>4, <2>4, <2>7, <2>8
<1> QED
  BY <1>6, <1>7, <1>8, <1>9, StrandCases

-----------------------------------------------------------------------------
(* The replies and messages on their way.                                  *)

OnWire == inbuf \o toClient

LEMMA WireIs ==
  ASSUME NEW p \in Seq(Wire), NEW q \in Seq(Wire)
  PROVE  /\ p \o q \in Seq(Wire) /\ Len(p \o q) = Len(p) + Len(q)
         /\ Len(p) \in Nat /\ Len(q) \in Nat
         /\ \A i \in 1 .. Len(p) : (p \o q)[i] = p[i]
         /\ \A i \in Len(p) + 1 .. Len(p) + Len(q) : (p \o q)[i] = q[i - Len(p)]
<1>1. PICK T : T = Wire
  OBVIOUS
<1>2. p \in Seq(T) /\ q \in Seq(T)
  BY <1>1
<1>3. /\ p \o q \in Seq(T) /\ Len(p \o q) = Len(p) + Len(q)
      /\ \A i \in 1 .. Len(p) : (p \o q)[i] = p[i]
      /\ \A i \in Len(p) + 1 .. Len(p) + Len(q) : (p \o q)[i] = q[i - Len(p)]
  BY <1>2, ConcatFacts
<1> QED
  BY <1>1, <1>2, <1>3

\* r is q without its first k entries.
Without(r, q, k) ==
  /\ Len(r) \in Nat /\ Len(q) = Len(r) + k
  /\ \A i \in 1 .. Len(r) : r[i] = q[i + k]

\* r is q and one entry more.
With(r, q, e) ==
  /\ Len(q) \in Nat /\ Len(r) = Len(q) + 1 /\ r[Len(q) + 1] = e
  /\ \A i \in 1 .. Len(q) : r[i] = q[i]

LEMMA WireKept ==
  ASSUME TypeOK, inbuf' = inbuf, toClient' = toClient
  PROVE  Without(OnWire', OnWire, 0)
<1>1. PICK q : q = OnWire
  OBVIOUS
<1>2. q \in Seq(Wire) /\ OnWire' = q
  BY <1>1, WireIs DEF OnWire, TypeOK
<1> QED
  BY <1>1, <1>2 DEF Without

LEMMA WireRead ==
  ASSUME TypeOK, TypeOK', asyncRead
  PROVE  Without(OnWire', OnWire, 0)
<1>1. PICK q, r, s : q = toClient /\ r = inbuf' /\ s = toClient'
  OBVIOUS
<1>2. q \in Seq(Wire) /\ r \in Seq(Wire) /\ s \in Seq(Wire) /\ inbuf = <<>>
  BY <1>1 DEF TypeOK, asyncRead
<1>3. OnWire = q /\ OnWire' = r \o s
  BY <1>1, <1>2 DEF OnWire
<1>4. \/ /\ Len(r) + Len(s) = Len(q)
         /\ \A i \in 1 .. Len(r) : r[i] = q[i]
         /\ \A i \in 1 .. Len(s) : s[i] = q[Len(r) + i]
      \/ r = <<>> /\ s = q
  BY <1>1, AsyncReadEffect
<1>5. /\ Len(r \o s) = Len(r) + Len(s)
      /\ Len(r) \in Nat /\ Len(s) \in Nat
      /\ \A i \in 1 .. Len(r) : (r \o s)[i] = r[i]
      /\ \A i \in Len(r) + 1 .. Len(r) + Len(s) : (r \o s)[i] = s[i - Len(r)]
  BY <1>2, WireIs
<1>6. CASE r = <<>> /\ s = q
  <2>1. r \o s = q /\ Len(q) \in Nat
    BY <1>2, <1>6
  <2> QED
    BY <1>3, <2>1 DEF Without
<1>7. CASE /\ Len(r) + Len(s) = Len(q)
           /\ \A i \in 1 .. Len(r) : r[i] = q[i]
           /\ \A i \in 1 .. Len(s) : s[i] = q[Len(r) + i]
  <2>1. PICK a \in Nat, b \in Nat : a = Len(r) /\ b = Len(s) /\ Len(q) = a + b
    BY <1>5, <1>7
  <2>2. ASSUME NEW i \in a + 1 .. a + b
        PROVE  (r \o s)[i] = q[i]
    <3>1. PICK j \in 1 .. b : j = i - a /\ i = a + j
      OBVIOUS
    <3>2. (r \o s)[i] = s[j] /\ s[j] = q[a + j]
      BY <1>5, <1>7, <2>1, <3>1
    <3> QED
      BY <3>1, <3>2
  <2>3. \A i \in 1 .. a : (r \o s)[i] = q[i]
    BY <1>5, <1>7, <2>1
  <2>4. \A i \in 1 .. a + b : i \in 1 .. a \/ i \in a + 1 .. a + b
    OBVIOUS
  <2>5. Len(r \o s) = a + b
    BY <1>5, <2>1
  <2>6. PICK x : x = r \o s
    OBVIOUS
  <2>7. Len(x) = a + b /\ \A i \in 1 .. a + b : x[i] = q[i]
    BY <2>2, <2>3, <2>4, <2>5, <2>6
  <2> QED
    BY <1>3, <2>1, <2>6, <2>7 DEF Without
<1> QED
  BY <1>4, <1>6, <1>7

LEMMA WireParsed ==
  ASSUME TypeOK, inbuf # <<>>, inbuf' = Tail(inbuf), toClient' = toClient
  PROVE  Without(OnWire', OnWire, 1) /\ OnWire[1] = Head(inbuf)
<1>1. PICK p, q, r : p = inbuf /\ q = toClient /\ r = Tail(inbuf)
  OBVIOUS
<1>2. /\ p \in Seq(Wire) /\ q \in Seq(Wire) /\ r \in Seq(Wire)
      /\ Len(p) \in Nat /\ Len(p) >= 1 /\ Len(r) = Len(p) - 1
      /\ \A i \in 1 .. Len(p) - 1 : r[i] = p[i + 1]
      /\ p[1] = Head(inbuf)
  BY <1>1, TailFacts DEF TypeOK
<1>3. /\ Len(p \o q) = Len(p) + Len(q)
      /\ Len(p) \in Nat /\ Len(q) \in Nat
      /\ \A i \in 1 .. Len(p) : (p \o q)[i] = p[i]
      /\ \A i \in Len(p) + 1 .. Len(p) + Len(q) : (p \o q)[i] = q[i - Len(p)]
  BY <1>2, WireIs
<1>4. /\ Len(r \o q) = Len(r) + Len(q)
      /\ Len(r) \in Nat
      /\ \A i \in 1 .. Len(r) : (r \o q)[i] = r[i]
      /\ \A i \in Len(r) + 1 .. Len(r) + Len(q) : (r \o q)[i] = q[i - Len(r)]
  BY <1>2, WireIs
<1>5. PICK a \in Nat, b \in Nat : a = Len(r) /\ Len(p) = a + 1 /\ b = Len(q)
  BY <1>2, <1>3, <1>4
<1>6. PICK x, y : x = p \o q /\ y = r \o q
  OBVIOUS
<1>7. Len(x) = a + 1 + b /\ Len(y) = a + b
  BY <1>3, <1>4, <1>5, <1>6
<1>8. ASSUME NEW i \in 1 .. a + b
      PROVE  y[i] = x[i + 1]
  <2>1. PICK j \in 1 .. a + 1 + b : j = i + 1
    OBVIOUS
  <2>2. CASE i \in 1 .. a
    <3>1. y[i] = r[i] /\ r[i] = p[i + 1]
      BY <1>2, <1>4, <1>5, <1>6, <2>2
    <3>2. j \in 1 .. a + 1
      BY <2>1, <2>2
    <3>3. x[j] = p[j]
      BY <1>3, <1>5, <1>6, <3>2
    <3> QED
      BY <2>1, <3>1, <3>3
  <2>3. CASE i \in a + 1 .. a + b
    <3>1. PICK k : k = i - a /\ k = j - (a + 1)
      BY <2>1
    <3>2. y[i] = q[k]
      BY <1>4, <1>5, <1>6, <2>3, <3>1
    <3>3. j \in a + 1 + 1 .. a + 1 + b
      BY <2>1, <2>3
    <3>4. x[j] = q[k]
      BY <1>3, <1>5, <1>6, <3>1, <3>3
    <3> QED
      BY <2>1, <3>2, <3>4
  <2> QED
    BY <2>2, <2>3
<1>9. x[1] = p[1]
  BY <1>2, <1>3, <1>5, <1>6
<1>10. OnWire = x /\ OnWire' = y
  BY <1>1, <1>6 DEF OnWire
<1> QED
  BY <1>2, <1>7, <1>8, <1>9, <1>10 DEF Without

LEMMA WireLost ==
  ASSUME TypeOK, inbuf' = <<>>, toClient' = toClient
  PROVE  \E k \in Nat : Without(OnWire', OnWire, k)
<1>1. PICK p, q : p = inbuf /\ q = toClient
  OBVIOUS
<1>2. p \in Seq(Wire) /\ q \in Seq(Wire)
  BY <1>1 DEF TypeOK
<1>3. /\ Len(p \o q) = Len(p) + Len(q)
      /\ Len(p) \in Nat /\ Len(q) \in Nat
      /\ \A i \in Len(p) + 1 .. Len(p) + Len(q) : (p \o q)[i] = q[i - Len(p)]
  BY <1>2, WireIs
<1>4. PICK a \in Nat, b \in Nat : a = Len(p) /\ b = Len(q)
  BY <1>3
<1>5. PICK x : x = p \o q
  OBVIOUS
<1>6. ASSUME NEW i \in 1 .. b
      PROVE  q[i] = x[i + a]
  <2>1. PICK j \in a + 1 .. a + b : j = i + a /\ i = j - a
    OBVIOUS
  <2> QED
    BY <1>3, <1>4, <1>5, <2>1
<1>7. Len(x) = b + a
  BY <1>3, <1>4, <1>5
<1>8. OnWire = x /\ OnWire' = q
  BY <1>1, <1>2, <1>5 DEF OnWire
<1> QED
  BY <1>4, <1>6, <1>7, <1>8 DEF Without

LEMMA WireSent ==
  ASSUME TypeOK, NEW w \in Wire, inbuf' = inbuf, toClient' = Append(toClient, w)
  PROVE  With(OnWire', OnWire, w)
<1>1. PICK p, q, r : p = inbuf /\ q = toClient /\ r = Append(toClient, w)
  OBVIOUS
<1>2. p \in Seq(Wire) /\ q \in Seq(Wire)
  BY <1>1 DEF TypeOK
<1>3. /\ Append(q, w) \in Seq(Wire) /\ Len(Append(q, w)) = Len(q) + 1
      /\ \A i \in 1 .. Len(q) : Append(q, w)[i] = q[i]
      /\ Append(q, w)[Len(q) + 1] = w
  BY <1>2, AppendFacts
<1>4. /\ r \in Seq(Wire) /\ Len(r) = Len(q) + 1
      /\ \A i \in 1 .. Len(q) : r[i] = q[i]
      /\ r[Len(q) + 1] = w
  BY <1>1, <1>3
<1>5. /\ Len(p \o q) = Len(p) + Len(q)
      /\ Len(p) \in Nat /\ Len(q) \in Nat
      /\ \A i \in 1 .. Len(p) : (p \o q)[i] = p[i]
      /\ \A i \in Len(p) + 1 .. Len(p) + Len(q) : (p \o q)[i] = q[i - Len(p)]
  BY <1>2, WireIs
<1>6. /\ Len(p \o r) = Len(p) + Len(r)
      /\ \A i \in 1 .. Len(p) : (p \o r)[i] = p[i]
      /\ \A i \in Len(p) + 1 .. Len(p) + Len(r) : (p \o r)[i] = r[i - Len(p)]
  BY <1>2, <1>4, WireIs
<1>7. PICK a \in Nat, b \in Nat : a = Len(p) /\ b = Len(q) /\ Len(r) = b + 1
  BY <1>4, <1>5
<1>8. PICK x, y : x = p \o q /\ y = p \o r
  OBVIOUS
<1>9. Len(x) = a + b /\ Len(y) = a + b + 1
  BY <1>5, <1>6, <1>7, <1>8
<1>10. ASSUME NEW i \in 1 .. a + b
       PROVE  y[i] = x[i]
  <2>1. CASE i \in 1 .. a
    BY <1>5, <1>6, <1>7, <1>8, <2>1
  <2>2. CASE i \in a + 1 .. a + b
    <3>1. PICK j \in 1 .. b : j = i - a
      BY <2>2
    <3>2. i \in a + 1 .. a + (b + 1)
      BY <2>2
    <3>3. y[i] = r[j] /\ x[i] = q[j]
      BY <1>5, <1>6, <1>7, <1>8, <2>2, <3>1, <3>2
    <3> QED
      BY <1>4, <1>7, <3>3
  <2> QED
    BY <2>1, <2>2
<1>11. y[a + b + 1] = w
  <2>1. PICK j \in a + 1 .. a + (b + 1) : j = a + b + 1 /\ j - a = b + 1
    OBVIOUS
  <2>2. y[j] = r[b + 1]
    BY <1>6, <1>7, <1>8, <2>1
  <2> QED
    BY <1>4, <1>7, <2>1, <2>2
<1>12. OnWire = x /\ OnWire' = y
  BY <1>1, <1>8 DEF OnWire
<1> QED
  BY <1>9, <1>10, <1>11, <1>12 DEF With

-----------------------------------------------------------------------------
(* Messages on their way to their handlers.                                *)

Heard(m) == \E p \in 1 .. Len(pushed) : pushed[p] = m
Earlier(m, n) == \E p, q \in 1 .. Len(pushed) : p < q /\ pushed[p] = m /\ pushed[q] = n

\* A message is a task of one that was published; u is a later task than t.
TrueTask(t) == t.msg # NoMsg => Heard(t.msg)
Follows(t, u) ==
  t.msg # NoMsg /\ u.msg # NoMsg /\ t.call = u.call =>
    t.call \notin SingleShots /\ Earlier(t.msg, u.msg)

TrueWire(w) == w.kind = "message" => Heard(w.msg)
Comes(t, w) == t.msg # NoMsg /\ w.kind = "message" => Earlier(t.msg, w.msg)
Trails(v, w) == v.kind = "message" /\ w.kind = "message" => Earlier(v.msg, w.msg)

\* The tasks run, the tasks posted and what is on the wire are in order.
Tidy(d, s, w) ==
  /\ \A i \in 1 .. Len(d) : d[i].msg # NoMsg /\ TrueTask(d[i])
  /\ \A i \in 1 .. Len(s) : TrueTask(s[i])
  /\ \A i \in 1 .. Len(w) : TrueWire(w[i])
  /\ \A i, j \in 1 .. Len(d) : i < j => Follows(d[i], d[j])
  /\ \A i \in 1 .. Len(d), j \in 1 .. Len(s) : Follows(d[i], s[j])
  /\ \A i, j \in 1 .. Len(s) : i < j => Follows(s[i], s[j])
  /\ \A i \in 1 .. Len(d), j \in 1 .. Len(w) : Comes(d[i], w[j])
  /\ \A i \in 1 .. Len(s), j \in 1 .. Len(w) : Comes(s[i], w[j])
  /\ \A i, j \in 1 .. Len(w) : i < j => Trails(w[i], w[j])

LEMMA WireShortened ==
  ASSUME NEW d, NEW s, NEW w, NEW x, NEW k \in Nat, Tidy(d, s, w), Without(x, w, k)
  PROVE  Tidy(d, s, x)
<1>1. PICK n \in Nat : n = Len(x) /\ Len(w) = n + k
  BY DEF Without
<1>2. \A i \in 1 .. n : \E j \in 1 .. n + k : j = i + k /\ x[i] = w[j]
  <2> SUFFICES ASSUME NEW i \in 1 .. n
               PROVE  i + k \in 1 .. n + k /\ x[i] = w[i + k]
    OBVIOUS
  <2> QED
    BY <1>1 DEF Without
<1>3. \A i \in 1 .. n : TrueWire(x[i])
  BY <1>1, <1>2 DEF Tidy
<1>4. \A i \in 1 .. Len(d), j \in 1 .. n : Comes(d[i], x[j])
  BY <1>1, <1>2 DEF Tidy
<1>5. \A i \in 1 .. Len(s), j \in 1 .. n : Comes(s[i], x[j])
  BY <1>1, <1>2 DEF Tidy
<1>6. ASSUME NEW i \in 1 .. n, NEW j \in 1 .. n, i < j
      PROVE  Trails(x[i], x[j])
  <2>1. PICK a \in 1 .. n + k, b \in 1 .. n + k : a = i + k /\ b = j + k /\ x[i] = w[a] /\ x[j] = w[b]
    BY <1>2
  <2> QED
    BY <1>1, <1>6, <2>1 DEF Tidy
<1> QED
  BY <1>1, <1>3, <1>4, <1>5, <1>6 DEF Tidy

LEMMA WireLengthened ==
  ASSUME NEW d, NEW s, NEW w, NEW x, NEW e, Tidy(d, s, w), With(x, w, e), e.kind # "message"
  PROVE  Tidy(d, s, x)
<1>1. PICK n \in Nat : n = Len(w) /\ Len(x) = n + 1
  BY DEF With
<1>2. \A i \in 1 .. n + 1 : (i = n + 1 /\ x[i] = e) \/ (i \in 1 .. n /\ x[i] = w[i])
  BY <1>1 DEF With
<1>3. TrueWire(e) /\ (\A t : Comes(t, e)) /\ (\A v : Trails(v, e))
  BY DEF TrueWire, Comes, Trails
<1>4. \A i \in 1 .. n + 1 : TrueWire(x[i])
  BY <1>1, <1>2, <1>3 DEF Tidy
<1>5. \A i \in 1 .. Len(d), j \in 1 .. n + 1 : Comes(d[i], x[j])
  BY <1>1, <1>2, <1>3 DEF Tidy
<1>6. \A i \in 1 .. Len(s), j \in 1 .. n + 1 : Comes(s[i], x[j])
  BY <1>1, <1>2, <1>3 DEF Tidy
<1>7. ASSUME NEW i \in 1 .. n + 1, NEW j \in 1 .. n + 1, i < j
      PROVE  Trails(x[i], x[j])
  <2>1. i \in 1 .. n /\ x[i] = w[i]
    BY <1>2, <1>7
  <2> QED
    BY <1>1, <1>2, <1>3, <1>7, <2>1 DEF Tidy
<1> QED
  BY <1>1, <1>4, <1>5, <1>6, <1>7 DEF Tidy

LEMMA CallPosted ==
  ASSUME NEW d, NEW s, NEW w, NEW r, NEW t, Tidy(d, s, w), With(r, s, t), t.msg = NoMsg
  PROVE  Tidy(d, r, w)
<1>1. PICK n \in Nat : n = Len(s) /\ Len(r) = n + 1
  BY DEF With
<1>2. \A i \in 1 .. n + 1 : (i = n + 1 /\ r[i] = t) \/ (i \in 1 .. n /\ r[i] = s[i])
  BY <1>1 DEF With
<1>3. TrueTask(t) /\ (\A v : Comes(t, v)) /\ (\A u : Follows(u, t))
  BY DEF TrueTask, Comes, Follows
<1>4. \A i \in 1 .. n + 1 : TrueTask(r[i])
  BY <1>1, <1>2, <1>3 DEF Tidy
<1>5. \A i \in 1 .. Len(d), j \in 1 .. n + 1 : Follows(d[i], r[j])
  BY <1>1, <1>2, <1>3 DEF Tidy
<1>6. \A i \in 1 .. n + 1, j \in 1 .. Len(w) : Comes(r[i], w[j])
  BY <1>1, <1>2, <1>3 DEF Tidy
<1>7. ASSUME NEW i \in 1 .. n + 1, NEW j \in 1 .. n + 1, i < j
      PROVE  Follows(r[i], r[j])
  <2>1. i \in 1 .. n /\ r[i] = s[i]
    BY <1>2, <1>7
  <2> QED
    BY <1>1, <1>2, <1>3, <1>7, <2>1 DEF Tidy
<1> QED
  BY <1>1, <1>4, <1>5, <1>6, <1>7 DEF Tidy

LEMMA TaskTaken ==
  ASSUME NEW d, NEW s, NEW w, NEW r, Tidy(d, s, w), Without(r, s, 1)
  PROVE  Tidy(d, r, w)
<1>1. PICK n \in Nat : n = Len(r) /\ Len(s) = n + 1
  BY DEF Without
<1>2. \A i \in 1 .. n : \E j \in 1 .. n + 1 : j = i + 1 /\ r[i] = s[j]
  <2> SUFFICES ASSUME NEW i \in 1 .. n
               PROVE  i + 1 \in 1 .. n + 1 /\ r[i] = s[i + 1]
    OBVIOUS
  <2> QED
    BY <1>1 DEF Without
<1>3. \A i \in 1 .. n : TrueTask(r[i])
  BY <1>1, <1>2 DEF Tidy
<1>4. \A i \in 1 .. Len(d), j \in 1 .. n : Follows(d[i], r[j])
  BY <1>1, <1>2 DEF Tidy
<1>5. \A i \in 1 .. n, j \in 1 .. Len(w) : Comes(r[i], w[j])
  BY <1>1, <1>2 DEF Tidy
<1>6. ASSUME NEW i \in 1 .. n, NEW j \in 1 .. n, i < j
      PROVE  Follows(r[i], r[j])
  <2>1. PICK a \in 1 .. n + 1, b \in 1 .. n + 1 : a = i + 1 /\ b = j + 1 /\ r[i] = s[a] /\ r[j] = s[b]
    BY <1>2
  <2> QED
    BY <1>1, <1>6, <2>1 DEF Tidy
<1> QED
  BY <1>1, <1>3, <1>4, <1>5, <1>6 DEF Tidy

LEMMA TaskRun ==
  ASSUME NEW d, NEW s, NEW w, NEW r, NEW e, Tidy(d, s, w),
         Without(r, s, 1), With(e, d, s[1]), s[1].msg # NoMsg
  PROVE  Tidy(e, r, w)
<1>1. PICK n \in Nat : n = Len(d) /\ Len(e) = n + 1
  BY DEF With
<1>2. \A i \in 1 .. n + 1 : (i = n + 1 /\ e[i] = s[1]) \/ (i \in 1 .. n /\ e[i] = d[i])
  BY <1>1 DEF With
<1>3. PICK l \in Nat : l = Len(r) /\ Len(s) = l + 1
  BY DEF Without
<1>4. 1 \in 1 .. l + 1
  OBVIOUS
<1>5. \A j \in 1 .. l : \E a \in 1 .. l + 1 : 1 < a /\ r[j] = s[a]
  <2> SUFFICES ASSUME NEW j \in 1 .. l
               PROVE  j + 1 \in 1 .. l + 1 /\ 1 < j + 1 /\ r[j] = s[j + 1]
    OBVIOUS
  <2> QED
    BY <1>3 DEF Without
<1>6. Tidy(d, r, w)
  BY TaskTaken
<1>7. \A i \in 1 .. n + 1 : e[i].msg # NoMsg /\ TrueTask(e[i])
  BY <1>1, <1>2, <1>3, <1>4 DEF Tidy
<1>8. ASSUME NEW i \in 1 .. n + 1, NEW j \in 1 .. n + 1, i < j
      PROVE  Follows(e[i], e[j])
  <2>1. i \in 1 .. n /\ e[i] = d[i]
    BY <1>2, <1>8
  <2> QED
    BY <1>1, <1>2, <1>3, <1>4, <1>8, <2>1 DEF Tidy
<1>9. ASSUME NEW i \in 1 .. n + 1, NEW j \in 1 .. l
      PROVE  Follows(e[i], r[j])
  <2>1. PICK a \in 1 .. l + 1 : 1 < a /\ r[j] = s[a]
    BY <1>5
  <2>2. Follows(s[1], s[a])
    BY <1>3, <1>4, <2>1 DEF Tidy
  <2>3. i \in 1 .. n => Follows(d[i], s[a])
    BY <1>1, <1>3 DEF Tidy
  <2> QED
    BY <1>2, <2>1, <2>2, <2>3
<1>10. \A i \in 1 .. n + 1, j \in 1 .. Len(w) : Comes(e[i], w[j])
  BY <1>1, <1>2, <1>3, <1>4 DEF Tidy
<1> QED
  BY <1>1, <1>3, <1>6, <1>7, <1>8, <1>9, <1>10 DEF Tidy

\* A message is posted: the handlers are other than those that had theirs for
\* good, and each gets it once.
LEMMA MessagePosted ==
  ASSUME NEW d, NEW s, NEW w, NEW r, NEW x, NEW hs, NEW m, Tidy(d, s, w),
         Len(s) \in Nat, Len(hs) \in Nat,
         Without(x, w, 1), w[1].kind = "message", w[1].msg = m,
         Len(r) = Len(s) + Len(hs), \A i \in 1 .. Len(s) : r[i] = s[i],
         \A i \in Len(s) + 1 .. Len(s) + Len(hs) : r[i] = [call |-> hs[i - Len(s)], msg |-> m],
         Distinct(hs),
         \A i \in 1 .. Len(hs), j \in 1 .. Len(d) : d[j].call = hs[i] => hs[i] \notin SingleShots,
         \A i \in 1 .. Len(hs), j \in 1 .. Len(s) :
           s[j].msg # NoMsg /\ s[j].call = hs[i] => hs[i] \notin SingleShots
  PROVE  Tidy(d, r, x)
<1>1. PICK n \in Nat, l \in Nat : n = Len(s) /\ l = Len(hs) /\ Len(r) = n + l
  OBVIOUS
<1>2. Tidy(d, s, x)
  BY WireShortened
<1>3. PICK k \in Nat : k = Len(x) /\ Len(w) = k + 1
  BY DEF Without
<1>4. 1 \in 1 .. k + 1
  OBVIOUS
<1>5. Heard(m)
  BY <1>3, <1>4 DEF Tidy, TrueWire
<1>6. \A j \in 1 .. k : x[j].kind = "message" => Earlier(m, x[j].msg)
  <2> SUFFICES ASSUME NEW j \in 1 .. k, x[j].kind = "message"
               PROVE  Earlier(m, x[j].msg)
    OBVIOUS
  <2>1. PICK a \in 1 .. k + 1 : a = j + 1 /\ 1 < a
    OBVIOUS
  <2>2. x[j] = w[a]
    BY <1>3, <2>1 DEF Without
  <2>3. Trails(w[1], w[a])
    BY <1>3, <1>4, <2>1 DEF Tidy
  <2> QED
    BY <2>2, <2>3 DEF Trails
<1>7. \A j \in 1 .. Len(d) : Earlier(d[j].msg, m)
  BY <1>3, <1>4 DEF Tidy, Comes
<1>8. \A j \in 1 .. n : s[j].msg # NoMsg => Earlier(s[j].msg, m)
  BY <1>1, <1>3, <1>4 DEF Tidy, Comes
<1>9. \A i \in 1 .. n : r[i] = s[i]
  BY <1>1
<1>10. ASSUME NEW i \in n + 1 .. n + l
       PROVE  \E a \in 1 .. l : a = i - n /\ r[i].call = hs[a] /\ r[i].msg = m
  <2>1. PICK a \in 1 .. l : a = i - n
    OBVIOUS
  <2>2. r[i] = [call |-> hs[a], msg |-> m]
    BY <1>1, <2>1
  <2>3. r[i].call = hs[a] /\ r[i].msg = m
    BY <2>2
  <2> QED
    BY <2>1, <2>3
<1>11. \A i \in 1 .. n + l : i \in 1 .. n \/ i \in n + 1 .. n + l
  OBVIOUS
<1>12. ASSUME NEW i \in 1 .. n + l
       PROVE  TrueTask(r[i]) /\ \A j \in 1 .. k : Comes(r[i], x[j])
  <2>1. CASE i \in 1 .. n
    BY <1>1, <1>2, <1>3, <1>9, <2>1 DEF Tidy
  <2>2. CASE i \in n + 1 .. n + l
    <3>1. r[i].msg = m
      BY <1>10, <2>2
    <3> QED
      BY <1>5, <1>6, <3>1 DEF TrueTask, Comes
  <2> QED
    BY <1>11, <2>1, <2>2
<1>13. ASSUME NEW i \in 1 .. Len(d), NEW j \in 1 .. n + l
       PROVE  Follows(d[i], r[j])
  <2>1. CASE j \in 1 .. n
    BY <1>1, <1>9, <2>1 DEF Tidy
  <2>2. CASE j \in n + 1 .. n + l
    <3>1. PICK a \in 1 .. l : r[j].call = hs[a] /\ r[j].msg = m
      BY <1>10, <2>2
    <3>2. d[i].call = hs[a] => hs[a] \notin SingleShots
      BY <1>1
    <3> QED
      BY <1>7, <3>1, <3>2 DEF Follows
  <2> QED
    BY <1>11, <2>1, <2>2
<1>14. ASSUME NEW i \in 1 .. n + l, NEW j \in 1 .. n + l, i < j
       PROVE  Follows(r[i], r[j])
  <2>1. CASE j \in 1 .. n
    <3>1. i \in 1 .. n
      BY <1>14, <2>1
    <3> QED
      BY <1>1, <1>9, <1>14, <2>1, <3>1 DEF Tidy
  <2>2. CASE j \in n + 1 .. n + l
    <3>1. PICK a \in 1 .. l : a = j - n /\ r[j].call = hs[a] /\ r[j].msg = m
      BY <1>10, <2>2
    <3>2. CASE i \in 1 .. n
      <4>1. s[i].msg # NoMsg /\ s[i].call = hs[a] => hs[a] \notin SingleShots
        BY <1>1, <3>2
      <4>2. r[i] = s[i] /\ (s[i].msg # NoMsg => Earlier(s[i].msg, m))
        BY <1>8, <1>9, <3>2
      <4> QED
        BY <3>1, <4>1, <4>2 DEF Follows
    <3>3. CASE i \in n + 1 .. n + l
      <4>1. PICK b \in 1 .. l : b = i - n /\ r[i].call = hs[b]
        BY <1>10, <3>3
      <4>2. a # b
        BY <1>14, <3>1, <4>1
      <4>3. hs[a] # hs[b]
        BY <1>1, <4>2 DEF Distinct
      <4> QED
        BY <3>1, <4>1, <4>3 DEF Follows
    <3> QED
      BY <1>11, <3>2, <3>3
  <2> QED
    BY <1>11, <2>1, <2>2
<1> QED
  BY <1>1, <1>2, <1>3, <1>12, <1>13, <1>14 DEF Tidy

LEMMA PushedGrows ==
  ASSUME TypeOK, Next
  PROVE  /\ \A m : Heard(m) => Heard(m)'
         /\ \A m, n : Earlier(m, n) => Earlier(m, n)'
         /\ pushed' = pushed \/ \E m \in Messages : Publish(m)
<1>1. pushed' = pushed \/ \E m \in Messages : Publish(m)
  <2>1. ASSUME NEW c,
               stateValid(c) \/ command(c) \/ subscribe(c) \/ singleShotSubscribe(c) \/ unsubscribe(c)
        PROVE  pushed' = pushed
    BY <2>1, CallsPost DEF serverVars
  <2>2. parseReply => pushed' = pushed
    BY TurnCases DEF serverVars
  <2> QED
    BY <2>1, <2>2, NextIs, Zenon
       DEF installErrorHandler, connect, close, handleAsyncConnect, doAsyncCommand, runMsgHandler,
           asyncWrite, asyncRead, Establish, Transmit, Serve, Break, serverVars
<1>2. PICK n \in Nat : n = Len(pushed)
  BY DEF TypeOK
<1>3. /\ \A i \in 1 .. n : i \in 1 .. Len(pushed') /\ pushed'[i] = pushed[i]
  <2>1. CASE pushed' = pushed
    BY <1>2, <2>1
  <2>2. ASSUME NEW m \in Messages, Publish(m)
        PROVE  \A i \in 1 .. n : i \in 1 .. Len(pushed') /\ pushed'[i] = pushed[i]
    <3>1. pushed \in Seq(Messages) /\ pushed' = Append(pushed, m)
      BY <2>2 DEF Publish, TypeOK
    <3>2. Len(pushed') = n + 1 /\ \A i \in 1 .. n : pushed'[i] = pushed[i]
      BY <1>2, <3>1, AppendFacts
    <3> QED
      BY <3>2
  <2> QED
    BY <1>1, <2>1, <2>2
<1>4. ASSUME NEW m, Heard(m)
      PROVE  Heard(m)'
  <2>1. PICK p \in 1 .. n : pushed[p] = m
    BY <1>2, <1>4 DEF Heard
  <2>2. p \in 1 .. Len(pushed') /\ pushed'[p] = m
    BY <1>3, <2>1
  <2> QED
    BY <2>2 DEF Heard
<1>5. ASSUME NEW m, NEW k, Earlier(m, k)
      PROVE  Earlier(m, k)'
  <2>1. PICK p \in 1 .. n, q \in 1 .. n : p < q /\ pushed[p] = m /\ pushed[q] = k
    BY <1>2, <1>5 DEF Earlier
  <2>2. /\ p \in 1 .. Len(pushed') /\ pushed'[p] = m
        /\ q \in 1 .. Len(pushed') /\ pushed'[q] = k
    BY <1>3, <2>1
  <2> QED
    BY <2>1, <2>2 DEF Earlier
<1> QED
  BY <1>1, <1>4, <1>5

LEMMA TidyStays ==
  ASSUME TypeOK, Next, NEW d, NEW s, NEW w, Tidy(d, s, w)
  PROVE  Tidy(d, s, w)'
<1>1. \A t : TrueTask(t) => TrueTask(t)'
  BY PushedGrows DEF TrueTask
<1>2. \A t : TrueWire(t) => TrueWire(t)'
  BY PushedGrows DEF TrueWire
<1>3. \A t, u : Follows(t, u) => Follows(t, u)'
  BY PushedGrows DEF Follows
<1>4. \A t, u : Comes(t, u) => Comes(t, u)'
  BY PushedGrows DEF Comes
<1>5. \A t, u : Trails(t, u) => Trails(t, u)'
  BY PushedGrows DEF Trails
<1> QED
  BY <1>1, <1>2, <1>3, <1>4, <1>5 DEF Tidy

\* A message is published: it is later than all others, wherever they are.
LEMMA MessageSent ==
  ASSUME TypeOK, NEW m \in Messages, Publish(m), NEW d, NEW s, NEW w, NEW x, NEW e,
         Tidy(d, s, w), Tidy(d, s, w)', With(x, w, e), e.msg = m
  PROVE  Tidy(d, s, x)'
<1>1. PICK n \in Nat : n = Len(pushed)
  BY DEF TypeOK
<1>2. /\ Len(pushed') = n + 1 /\ pushed'[n + 1] = m
      /\ \A i \in 1 .. n : pushed'[i] = pushed[i]
  <2>1. pushed \in Seq(Messages) /\ pushed' = Append(pushed, m)
    BY DEF Publish, TypeOK
  <2> QED
    BY <1>1, <2>1, AppendFacts
<1>3. n + 1 \in 1 .. n + 1 /\ \A p \in 1 .. n : p \in 1 .. n + 1 /\ p < n + 1
  BY <1>1
<1>4. Heard(m)'
  BY <1>2, <1>3 DEF Heard
<1>5. ASSUME NEW k, Heard(k)
      PROVE  Earlier(k, m)'
  <2>1. PICK p \in 1 .. n : pushed[p] = k
    BY <1>1, <1>5 DEF Heard
  <2> QED
    BY <1>2, <1>3, <2>1 DEF Earlier
<1>6. PICK l \in Nat : l = Len(w) /\ Len(x) = l + 1
  BY DEF With
<1>7. \A i \in 1 .. l + 1 : (i = l + 1 /\ x[i] = e) \/ (i \in 1 .. l /\ x[i] = w[i])
  BY <1>6 DEF With
<1>8. TrueWire(e)'
  BY <1>4 DEF TrueWire
<1>9. \A t : TrueTask(t) => Comes(t, e)'
  BY <1>5 DEF TrueTask, Comes
<1>10. \A v : TrueWire(v) => Trails(v, e)'
  BY <1>5 DEF TrueWire, Trails
<1>11. /\ \A i \in 1 .. Len(d) : TrueTask(d[i])
       /\ \A i \in 1 .. Len(s) : TrueTask(s[i])
       /\ \A i \in 1 .. l : TrueWire(w[i])
  BY <1>6 DEF Tidy
<1>12. \A i \in 1 .. l + 1 : TrueWire(x[i])'
  BY <1>6, <1>7, <1>8 DEF Tidy
<1>13. \A i \in 1 .. Len(d), j \in 1 .. l + 1 : Comes(d[i], x[j])'
  BY <1>6, <1>7, <1>9, <1>11 DEF Tidy
<1>14. \A i \in 1 .. Len(s), j \in 1 .. l + 1 : Comes(s[i], x[j])'
  BY <1>6, <1>7, <1>9, <1>11 DEF Tidy
<1>15. ASSUME NEW i \in 1 .. l + 1, NEW j \in 1 .. l + 1, i < j
       PROVE  Trails(x[i], x[j])'
  <2>1. i \in 1 .. l /\ x[i] = w[i]
    BY <1>7, <1>15
  <2> QED
    BY <1>6, <1>7, <1>10, <1>11, <1>15, <2>1 DEF Tidy
<1> QED
  BY <1>6, <1>12, <1>13, <1>14, <1>15 DEF Tidy

LEMMA WireCases ==
  ASSUME TypeOK, TypeOK', Next
  PROVE  \/ pushed' = pushed /\ \E k \in Nat : Without(OnWire', OnWire, k)
         \/ pushed' = pushed /\ \E w \in Wire : w.kind # "message" /\ With(OnWire', OnWire, w)
         \/ \E m \in Messages :
              /\ Publish(m)
              /\ Without(OnWire', OnWire, 0) \/ With(OnWire', OnWire, Push(m))
<1>1. CASE UNCHANGED <<inbuf, toClient, pushed>>
  <2>1. Without(OnWire', OnWire, 0)
    BY <1>1, WireKept
  <2> QED
    BY <1>1, <2>1
<1>2. CASE asyncRead
  <2>1. Without(OnWire', OnWire, 0) /\ pushed' = pushed
    BY <1>2, WireRead DEF asyncRead
  <2> QED
    BY <2>1
<1>3. CASE parseReply
  <2>1. inbuf # <<>> /\ toClient' = toClient /\ pushed' = pushed
    BY <1>3, TurnCases DEF serverVars
  <2>2. inbuf' = Tail(inbuf) \/ inbuf' = <<>>
    BY <1>3, TurnCases, Zenon
  <2> QED
    BY <2>1, <2>2, WireParsed, WireLost
<1>4. CASE Serve
  <2>1. PICK c : c = Head(toServer)
    OBVIOUS
  <2>2. c \in Calls
    BY <1>4, <2>1, HeadTailProperties DEF TypeOK, Serve
  <2>3. inbuf' = inbuf /\ pushed' = pushed
    BY <1>4 DEF Serve, ioVars
  <2>4. toClient' = toClient \/ \E kind \in ReplyKinds(c) : toClient' = Append(toClient, Reply(kind, c))
    BY <1>4, <2>1 DEF Serve
  <2>5. ASSUME NEW kind \in ReplyKinds(c)
        PROVE  Reply(kind, c) \in Wire /\ Reply(kind, c).kind # "message"
    BY <2>2, <2>5 DEF ReplyKinds, Reply, Wire
  <2>6. ASSUME NEW kind \in ReplyKinds(c), toClient' = Append(toClient, Reply(kind, c))
        PROVE  \E w \in Wire : w.kind # "message" /\ With(OnWire', OnWire, w)
    <3>1. PICK w \in Wire : w = Reply(kind, c) /\ w.kind # "message"
      BY <2>5
    <3>2. With(OnWire', OnWire, w)
      BY <2>3, <2>6, <3>1, WireSent
    <3> QED
      BY <3>1, <3>2
  <2> QED
    BY <1>1, <2>3, <2>4, <2>6
<1>5. ASSUME NEW m \in Messages, Publish(m)
      PROVE  Without(OnWire', OnWire, 0) \/ With(OnWire', OnWire, Push(m))
  <2>1. Push(m) \in Wire
    BY DEF Push, Wire
  <2>2. inbuf' = inbuf /\ (toClient' = toClient \/ toClient' = Append(toClient, Push(m)))
    BY <1>5 DEF Publish, ioVars
  <2> QED
    BY <2>1, <2>2, WireKept, WireSent
<1>6. ASSUME NEW c,
             stateValid(c) \/ command(c) \/ subscribe(c) \/ singleShotSubscribe(c) \/ unsubscribe(c)
      PROVE  UNCHANGED <<inbuf, toClient, pushed>>
  BY <1>6, CallsPost DEF serverVars
<1>7. \/ UNCHANGED <<inbuf, toClient, pushed>> \/ asyncRead \/ parseReply \/ Serve
      \/ \E m \in Messages : Publish(m)
  BY <1>6, NextIs, Zenon
     DEF installErrorHandler, connect, close, handleAsyncConnect, doAsyncCommand, runMsgHandler,
         asyncWrite, Establish, Transmit, Break, ioVars, serverVars
<1> QED
  BY <1>1, <1>2, <1>3, <1>4, <1>5, <1>7

LEMMA TidyOnward ==
  ASSUME TypeOK, TypeOK', Next, NEW d, NEW s, NEW x, Tidy(d, s, OnWire), x = OnWire'
  PROVE  Tidy(d, s, x)'
<1>1. PICK w : w = OnWire
  OBVIOUS
<1>2. Tidy(d, s, w)
  BY <1>1
<1>3. ASSUME NEW k \in Nat, Without(x, w, k)
      PROVE  Tidy(d, s, x)'
  BY <1>2, <1>3, WireShortened, TidyStays
<1>4. ASSUME NEW e, With(x, w, e), e.kind # "message"
      PROVE  Tidy(d, s, x)'
  BY <1>2, <1>4, WireLengthened, TidyStays
<1>5. ASSUME NEW m \in Messages, Publish(m), With(x, w, Push(m))
      PROVE  Tidy(d, s, x)'
  <2>1. PICK e : e = Push(m)
    OBVIOUS
  <2>3. e.msg = m
    BY <2>1 DEF Push
  <2>2. Tidy(d, s, w)'
    BY <1>2, TidyStays
  <2> QED
    BY <1>2, <1>5, <2>1, <2>2, <2>3, MessageSent
<1>6. Without(x, w, 0) => Tidy(d, s, x)'
  BY <1>3
<1> QED
  BY <1>1, <1>3, <1>4, <1>5, <1>6, WireCases

\* The handler of a task with a message was registered, and a single-shot
\* handler no longer is.
SpentTask(t) == t.msg # NoMsg => call[t.call] = "done" /\ t.call \notin singleShotMsgHandlers

DeliveryInv ==
  /\ Distinct(pushed)
  /\ Tidy(delivered, strand, OnWire)
  /\ \A i \in 1 .. Len(delivered) : SpentTask(delivered[i])
  /\ \A i \in 1 .. Len(strand) : SpentTask(strand[i])

LEMMA SpentStays ==
  ASSUME TypeOK, RegisteredInv, Next, NEW t \in Tasks, SpentTask(t)
  PROVE  SpentTask(t)'
<1>1. t.call \in Calls
  BY DEF Tasks
<1>2. call[t.call] = "done" => call'[t.call] = "done"
  BY <1>1, AcceptCases
<1>3. ASSUME call[t.call] = "done", t.call \notin singleShotMsgHandlers
      PROVE  t.call \notin singleShotMsgHandlers'
  BY <1>3, RegisterCases
<1> QED
  BY <1>2, <1>3 DEF SpentTask

LEMMA DistinctPushed ==
  ASSUME TypeOK, Distinct(pushed), Next
  PROVE  Distinct(pushed)'
<1>1. CASE pushed' = pushed
  BY <1>1 DEF Distinct
<1>2. ASSUME NEW m \in Messages, Publish(m)
      PROVE  Distinct(pushed)'
  <2>1. PICK n \in Nat : n = Len(pushed)
    BY DEF TypeOK
  <2>2. /\ Len(pushed') = n + 1 /\ pushed'[n + 1] = m
        /\ \A i \in 1 .. n : pushed'[i] = pushed[i]
    <3>1. pushed \in Seq(Messages) /\ pushed' = Append(pushed, m)
      BY <1>2 DEF Publish, TypeOK
    <3> QED
      BY <2>1, <3>1, AppendFacts
  <2>3. \A i \in 1 .. n : pushed[i] # m
    BY <1>2, <2>1 DEF Publish
  <2>4. \A i \in 1 .. n + 1 : i \in 1 .. n \/ i = n + 1
    OBVIOUS
  <2>5. \A i, j \in 1 .. n : pushed[i] = pushed[j] => i = j
    BY <2>1 DEF Distinct
  <2> QED
    BY <2>2, <2>3, <2>4, <2>5 DEF Distinct
<1> QED
  BY <1>1, <1>2, PushedGrows

LEMMA DeliveryKept ==
  ASSUME TypeOK, TypeOK', RegisteredInv, DeliveryInv, Next
  PROVE  DeliveryInv'
<1>1. Distinct(pushed)'
  BY DistinctPushed DEF DeliveryInv
<1>2. PICK d, s, w, e, r, x : /\ d = delivered /\ s = strand /\ w = OnWire
                              /\ e = delivered' /\ r = strand' /\ x = OnWire'
  OBVIOUS
<1>3. Tidy(d, s, w) /\ Tidy(d, s, OnWire)
  BY <1>2 DEF DeliveryInv
<1>4. d \in Seq(Tasks) /\ s \in Seq(Tasks) /\ e \in Seq(Tasks) /\ r \in Seq(Tasks)
  BY <1>2 DEF TypeOK
<1>5. PICK n \in Nat, l \in Nat : n = Len(d) /\ l = Len(s)
  BY <1>4
<1>6. /\ \A i \in 1 .. n : SpentTask(d[i]) /\ d[i] \in Tasks
      /\ \A i \in 1 .. l : SpentTask(s[i]) /\ s[i] \in Tasks
  BY <1>2, <1>4, <1>5 DEF DeliveryInv
<1>7. /\ \A i \in 1 .. n : SpentTask(d[i])'
      /\ \A i \in 1 .. l : SpentTask(s[i])'
  BY <1>6, SpentStays
<1>8. SUFFICES /\ Tidy(e, r, x)'
               /\ \A i \in 1 .. Len(e) : SpentTask(e[i])'
               /\ \A i \in 1 .. Len(r) : SpentTask(r[i])'
  BY <1>1, <1>2 DEF DeliveryInv
<1>9. CASE r = s /\ e = d
  BY <1>2, <1>3, <1>5, <1>7, <1>9, TidyOnward
<1>10. ASSUME NEW c \in Calls, Posting(c)
       PROVE  /\ Tidy(e, r, x)'
              /\ \A i \in 1 .. Len(e) : SpentTask(e[i])'
              /\ \A i \in 1 .. Len(r) : SpentTask(r[i])'
  <2>1. e = d
    BY <1>2, <1>10 DEF Posting
  <2>2. PICK t : t = CommandTask(c)
    OBVIOUS
  <2>3. t.msg = NoMsg
    BY <2>2 DEF CommandTask
  <2>4. /\ Len(r) = l + 1 /\ r[l + 1] = t
        /\ \A i \in 1 .. l : r[i] = s[i]
    BY <1>2, <1>5, <1>10, <2>2, PostGrows DEF Posting
  <2>5. With(r, s, t)
    BY <1>5, <2>4 DEF With
  <2>6. Tidy(d, r, OnWire)
    BY <1>2, <1>3, <2>3, <2>5, CallPosted
  <2>7. Tidy(d, r, x)'
    BY <1>2, <2>6, TidyOnward
  <2>8. SpentTask(t)'
    BY <2>3 DEF SpentTask
  <2>9. \A i \in 1 .. l + 1 : i \in 1 .. l \/ i = l + 1
    OBVIOUS
  <2> QED
    BY <1>5, <1>7, <2>1, <2>4, <2>7, <2>8, <2>9
<1>11. CASE doAsyncCommand
  <2>1. e = d
    BY <1>2, <1>11 DEF doAsyncCommand, history
  <2>2. Len(r) = l - 1 /\ l >= 1 /\ \A i \in 1 .. l - 1 : r[i] = s[i + 1]
    BY <1>2, <1>5, <1>11, DoAsyncCommandEffect
  <2>3. PICK k \in Nat : k = l - 1
    BY <2>2
  <2>4. Len(r) = k /\ l = k + 1 /\ \A i \in 1 .. k : r[i] = s[i + 1] /\ i + 1 \in 1 .. l
    BY <2>2, <2>3
  <2>5. Without(r, s, 1)
    BY <1>5, <2>4 DEF Without
  <2>6. Tidy(d, r, OnWire)
    BY <1>2, <1>3, <2>5, TaskTaken
  <2>7. Tidy(d, r, x)'
    BY <1>2, <2>6, TidyOnward
  <2> QED
    BY <1>5, <1>7, <2>1, <2>4, <2>7
<1>12. CASE runMsgHandler
  <2>1. /\ s # <<>> /\ r = Tail(s) /\ Head(s).msg # NoMsg /\ e = Append(d, Head(s))
    BY <1>2, <1>12 DEF runMsgHandler
  <2>2. /\ l >= 1 /\ Head(s) = s[1] /\ Len(r) = l - 1
        /\ \A i \in 1 .. l - 1 : r[i] = s[i + 1]
    BY <1>4, <1>5, <2>1, TailFacts
  <2>3. PICK k \in Nat : k = l - 1
    BY <2>2
  <2>4. Len(r) = k /\ l = k + 1 /\ \A i \in 1 .. k : r[i] = s[i + 1] /\ i + 1 \in 1 .. l
    BY <2>2, <2>3
  <2>5. Without(r, s, 1)
    BY <1>5, <2>4 DEF Without
  <2>6. PICK t \in Tasks : t = s[1] /\ e = Append(d, t) /\ t.msg # NoMsg
    BY <1>5, <1>6, <2>1, <2>2
  <2>7. Len(e) = n + 1 /\ e[n + 1] = t /\ \A i \in 1 .. n : e[i] = d[i]
    BY <1>4, <1>5, <2>6, AppendFacts
  <2>8. With(e, d, s[1])
    BY <1>5, <2>6, <2>7 DEF With
  <2>9. Tidy(e, r, OnWire)
    BY <1>2, <1>3, <2>5, <2>6, <2>8, TaskRun
  <2>10. Tidy(e, r, x)'
    BY <1>2, <2>9, TidyOnward
  <2>11. SpentTask(t)'
    BY <1>7, <2>2, <2>6
  <2>12. \A i \in 1 .. n + 1 : i \in 1 .. n \/ i = n + 1
    OBVIOUS
  <2> QED
    BY <1>5, <1>7, <2>4, <2>7, <2>10, <2>11, <2>12
<1>13. ASSUME parseReply, Head(inbuf).kind = "message", inbuf' = Tail(inbuf),
              delivered' = delivered, NEW hs, PostedTo(hs, Head(inbuf).msg)
       PROVE  /\ Tidy(e, r, x)'
              /\ \A i \in 1 .. Len(e) : SpentTask(e[i])'
              /\ \A i \in 1 .. Len(r) : SpentTask(r[i])'
  <2>1. PICK m : m = Head(inbuf).msg
    OBVIOUS
  <2>2. m \in Messages \cup {NoMsg}
    <3>1. Head(inbuf) \in Wire
      BY <1>13 DEF TypeOK, parseReply
    <3> QED
      BY <2>1, <3>1 DEF Wire
  <2>3. PICK k \in Nat : k = Len(hs)
    BY <1>13 DEF PostedTo
  <2>4. /\ Len(r) = l + k
        /\ \A i \in 1 .. l : r[i] = s[i]
        /\ \A i \in l + 1 .. l + k : r[i] = [call |-> hs[i - l], msg |-> m]
    BY <1>2, <1>5, <1>13, <2>1, <2>2, <2>3, PostedToFacts
  <2>5. /\ \A i \in 1 .. k :
             \/ hs[i] \in singleShotMsgHandlers \ singleShotMsgHandlers'
             \/ hs[i] \in Subscribes /\ \E j \in 1 .. Len(msgHandlers) : msgHandlers[j] = hs[i]
        /\ Distinct(hs)
    BY <1>13, <2>3 DEF PostedTo, RegisteredInv
  <2>6. /\ Without(x, w, 1) /\ w[1].kind = "message" /\ w[1].msg = m
    <3>1. toClient' = toClient /\ inbuf # <<>>
      BY <1>13, TurnCases DEF serverVars
    <3>2. Without(OnWire', OnWire, 1) /\ OnWire[1] = Head(inbuf)
      BY <1>13, <3>1, WireParsed
    <3> QED
      BY <1>2, <1>13, <2>1, <3>2
  <2>7. \A i \in 1 .. k : hs[i] \in SingleShots => hs[i] \in singleShotMsgHandlers
    BY <2>5, Kinds
  <2>8. \A i \in 1 .. k, j \in 1 .. n : d[j].call = hs[i] => hs[i] \notin SingleShots
    <3>1. \A j \in 1 .. n : d[j].msg # NoMsg
      BY <1>3, <1>5 DEF Tidy
    <3> QED
      BY <1>6, <2>7, <3>1 DEF SpentTask
  <2>9. \A i \in 1 .. k, j \in 1 .. l : s[j].msg # NoMsg /\ s[j].call = hs[i] => hs[i] \notin SingleShots
    BY <1>6, <2>7 DEF SpentTask
  <2>10. Tidy(d, r, x)
    BY <1>3, <1>5, <2>3, <2>4, <2>5, <2>6, <2>8, <2>9, MessagePosted
  <2>11. Tidy(d, r, x)'
    BY <2>10, TidyStays
  <2>12. ASSUME NEW i \in 1 .. k, NEW t, t = [call |-> hs[i], msg |-> m]
         PROVE  SpentTask(t)'
    <3>1. t.call = hs[i]
      BY <2>12
    <3>2. call' = call
      BY <1>13, TurnCases
    <3>3. call[hs[i]] = "done"
      BY <2>5 DEF RegisteredInv
    <3>4. hs[i] \notin singleShotMsgHandlers'
      <4>1. singleShotMsgHandlers' \subseteq SingleShots
        BY DEF TypeOK
      <4> QED
        BY <2>5, <4>1, Kinds
    <3> QED
      BY <3>1, <3>2, <3>3, <3>4 DEF SpentTask
  <2>13. ASSUME NEW i \in 1 .. l + k
         PROVE  SpentTask(r[i])'
    <3>1. CASE i \in 1 .. l
      BY <1>7, <2>4, <3>1
    <3>2. CASE i \in l + 1 .. l + k
      <4>1. PICK j \in 1 .. k : j = i - l
        BY <3>2
      <4>2. r[i] = [call |-> hs[j], msg |-> m]
        BY <2>4, <3>2, <4>1
      <4>3. PICK t : t = r[i]
        OBVIOUS
      <4>4. t = [call |-> hs[j], msg |-> m]
        BY <4>2, <4>3
      <4>5. SpentTask(t)'
        BY <2>12, <4>4
      <4> QED
        BY <4>3, <4>5
    <3> QED
      BY <3>1, <3>2
  <2> QED
    BY <1>2, <1>5, <1>7, <1>13, <2>4, <2>11, <2>13
<1> QED
  BY <1>2, <1>9, <1>10, <1>11, <1>12, <1>13, StrandCases

-----------------------------------------------------------------------------
(* Theorems about every client.                                            *)

SubscriberInv == BaseInv /\ RegisteredInv /\ DeliveryInv

LEMMA SubscriberInvInit == Init => SubscriberInv
<1> SUFFICES ASSUME Init PROVE SubscriberInv
  OBVIOUS
<1>1. TypeOK
  BY TypeInit
<1>2. PICK q : q = <<>>
  OBVIOUS
<1>3. /\ queue = q /\ accepted = q /\ msgHandlers = q /\ pushed = q /\ delivered = q /\ strand = q
      /\ inbuf = q /\ toClient = q
  BY <1>2 DEF Init
<1>4. /\ writing = "none" /\ errorHandler = "default" /\ singleShotMsgHandlers = {}
      /\ call = [c \in Calls |-> "idle"]
  BY DEF Init
<1>5. Len(q) = 0 /\ q \o q = q
  BY <1>2
<1>6. WriteDiscipline /\ IgnoredAfterClose
  BY <1>2, <1>3, <1>4 DEF WriteDiscipline, IgnoredAfterClose
<1>7. AcceptedAreDone /\ Distinct(accepted)
  BY <1>3, <1>5 DEF AcceptedAreDone, Distinct
<1>8. RegisteredInv
  <2>1. \A u \in Unsubscribes : call[u] # "done"
    BY <1>4 DEF Calls
  <2> QED
    BY <1>3, <1>4, <1>5, <2>1 DEF RegisteredInv, Distinct
<1>9. OnWire = q
  BY <1>3, <1>5 DEF OnWire
<1>10. DeliveryInv
  BY <1>3, <1>5, <1>9 DEF DeliveryInv, Tidy, Distinct
<1> QED
  BY <1>1, <1>6, <1>7, <1>8, <1>10 DEF SubscriberInv, BaseInv

LEMMA BaseStep ==
  ASSUME BaseInv, [Next]_vars
  PROVE  BaseInv'
<1>1. CASE Next
  BY <1>1, BaseKept
<1>2. CASE UNCHANGED vars
  <2> USE <1>2 DEF vars, clientVars, ioVars, serverVars, history
  <2>1. TypeOK'
    BY DEF BaseInv, TypeOK
  <2>2. WriteDiscipline' /\ IgnoredAfterClose'
    BY DEF BaseInv, WriteDiscipline, IgnoredAfterClose, Disclosed
  <2>3. AcceptedAreDone' /\ Distinct(accepted)'
    BY DEF BaseInv, AcceptedAreDone, Distinct
  <2> QED
    BY <2>1, <2>2, <2>3 DEF BaseInv
<1> QED
  BY <1>1, <1>2

LEMMA SubscriberInvStep ==
  ASSUME SubscriberInv, [Next]_vars
  PROVE  SubscriberInv'
<1>1. CASE Next
  <2>1. BaseInv /\ RegisteredInv /\ DeliveryInv /\ TypeOK
    BY DEF SubscriberInv, BaseInv
  <2>2. BaseInv'
    BY <1>1, <2>1, BaseKept
  <2>3. TypeOK'
    BY <2>2 DEF BaseInv
  <2>4. RegisteredInv' /\ DeliveryInv'
    BY <1>1, <2>1, <2>3, RegisteredKept, DeliveryKept
  <2> QED
    BY <2>2, <2>4 DEF SubscriberInv
<1>2. CASE UNCHANGED vars
  <2> USE <1>2 DEF vars, clientVars, ioVars, serverVars, history
  <2>1. BaseInv'
    BY BaseStep DEF SubscriberInv
  <2>4. RegisteredInv'
    BY DEF SubscriberInv, RegisteredInv, Distinct
  <2>5. DeliveryInv'
    <3>1. /\ \A t : TrueTask(t) => TrueTask(t)'
          /\ \A t : TrueWire(t) => TrueWire(t)'
          /\ \A t : SpentTask(t) => SpentTask(t)'
      BY DEF TrueTask, TrueWire, Heard, SpentTask
    <3>2. /\ \A t, u : Follows(t, u) => Follows(t, u)'
          /\ \A t, u : Comes(t, u) => Comes(t, u)'
          /\ \A t, u : Trails(t, u) => Trails(t, u)'
      BY DEF Follows, Comes, Trails, Earlier
    <3>3. PICK d, s, w : d = delivered /\ s = strand /\ w = OnWire
      OBVIOUS
    <3>4. d = delivered' /\ s = strand' /\ w = OnWire'
      BY <3>3 DEF OnWire
    <3>5. Tidy(d, s, w) => Tidy(d, s, w)'
      BY <3>1, <3>2 DEF Tidy
    <3>6. Distinct(pushed) => Distinct(pushed)'
      BY DEF Distinct
    <3> QED
      BY <3>1, <3>3, <3>4, <3>5, <3>6 DEF SubscriberInv, DeliveryInv
  <2> QED
    BY <2>1, <2>4, <2>5 DEF SubscriberInv
<1> QED
  BY <1>1, <1>2

\* The state of a client has its types, whatever calls are made, whatever is
\* published and whatever the connection and the error handler do.
THEOREM TypeCorrect == Spec => []TypeOK
<1>1. SubscriberInv => TypeOK
  BY DEF SubscriberInv, BaseInv
<1>2. QED
  BY <1>1, SubscriberInvInit, SubscriberInvStep, PTL DEF Spec

\* asyncWrite's assertion never fails, and requests wait with no write in
\* progress only after a disclosed failure.
THEOREM WritesAreDisciplined == Spec => []WriteDiscipline
<1>1. SubscriberInv => WriteDiscipline
  BY DEF SubscriberInv, BaseInv
<1>2. QED
  BY <1>1, SubscriberInvInit, SubscriberInvStep, PTL DEF Spec

\* Message handlers get the messages of their channel once each and in the
\* order of publication, and a single-shot handler gets one: for any number
\* of subscriptions and messages, across the socket, the loop of asyncRead
\* and the strand, and after any error.
THEOREM MessagesInOrder == Spec => []DeliveredInOrder
<1>1. SubscriberInv => DeliveredInOrder
  <2> SUFFICES ASSUME SubscriberInv, NEW i \in 1..Len(delivered), NEW j \in 1..Len(delivered),
                      i < j, delivered[i].call = delivered[j].call
               PROVE  /\ delivered[i].call \notin SingleShots
                      /\ Position(delivered[i].msg) < Position(delivered[j].msg)
    BY DEF DeliveredInOrder
  <2>1. Distinct(pushed) /\ Tidy(delivered, strand, OnWire)
    BY DEF SubscriberInv, DeliveryInv
  <2>2. PICK t, u : t = delivered[i] /\ u = delivered[j]
    OBVIOUS
  <2>3. Follows(t, u) /\ t.msg # NoMsg /\ u.msg # NoMsg
    BY <2>1, <2>2 DEF Tidy
  <2>4. t.call \notin SingleShots /\ Earlier(t.msg, u.msg)
    BY <2>2, <2>3 DEF Follows
  <2>5. PICK l \in Nat : l = Len(pushed)
    BY DEF SubscriberInv, BaseInv, TypeOK
  <2>6. PICK p \in 1 .. l, q \in 1 .. l : p < q /\ pushed[p] = t.msg /\ pushed[q] = u.msg
    BY <2>4, <2>5 DEF Earlier
  <2>7. \A a \in 1 .. l : Position(pushed[a]) = a
    <3> SUFFICES ASSUME NEW a \in 1 .. l
                 PROVE  Position(pushed[a]) = a
      OBVIOUS
    <3>1. \E b \in 1 .. l : pushed[b] = pushed[a]
      OBVIOUS
    <3>2. PICK m : m = pushed[a]
      OBVIOUS
    <3>3. Position(m) \in 1 .. l /\ pushed[Position(m)] = m
      BY <2>5, <3>1, <3>2, Zenon DEF Position
    <3> QED
      BY <2>1, <2>5, <3>2, <3>3 DEF Distinct
  <2>8. Position(t.msg) = p /\ Position(u.msg) = q
    BY <2>6, <2>7
  <2> QED
    BY <2>2, <2>4, <2>6, <2>8
<1>2. QED
  BY <1>1, SubscriberInvInit, SubscriberInvStep, PTL DEF Spec

\* Once unsubscribe() has returned and what was posted before it has run, the
\* handler is not called again, whatever Redis still sends.
THEOREM QuietForGood == Spec => QuietOnceDrained
<1>1. ASSUME SubscriberInv, [Next]_vars
      PROVE  [\A s \in Subscribes : Drained(s) => Drained(s)']_vars
  <2>1. CASE Next
    <3>1. TypeOK /\ RegisteredInv
      BY <1>1 DEF SubscriberInv, BaseInv
    <3> QED
      BY <2>1, <3>1, QuietStep
  <2> QED
    BY <1>1, <2>1
<1>2. QED
  BY <1>1, SubscriberInvInit, SubscriberInvStep, PTL DEF Spec, QuietOnceDrained

-----------------------------------------------------------------------------
(* Replies and calls, beside the messages.                                 *)

\* The calls in the strand and on the wire; a message is no call.
Waiting(s) == [i \in 1 .. Len(s) |-> IF s[i].msg = NoMsg THEN s[i].call ELSE NoCall]
Named(x) == [i \in 1 .. Len(x) |-> x[i].call]

\* How many calls have left the strand.
Gone == Len(answered) + Len(handlers)

\* The calls in the strand are the ones accepted after those gone.
StrandInTurn ==
  Gone <= Len(accepted) /\ InTurn(Waiting(strand), accepted, Gone, Len(accepted))

\* The queue holds the last of those gone.
QueueInTurn ==
  /\ Len(queue) <= Gone
  /\ \A i \in 1 .. Len(queue) : queue[i] = accepted[Gone - Len(queue) + i]

\* Redis has executed, and is about to receive, the first of those gone.
ServerInTurn ==
  /\ Len(executed) + Len(toServer) + Unsent <= Gone
  /\ socket \in {"none", "up"} => Len(executed) + Len(toServer) + Unsent = Gone
  /\ socket = "none" => toServer = <<>>
  /\ \A i \in 1 .. Len(executed) : executed[i] = accepted[i]
  /\ \A i \in 1 .. Len(toServer) : toServer[i] = accepted[Len(executed) + i]

\* Each of those gone has its answer or its handler waits.
HandlersInTurn ==
  /\ \A i \in 1 .. Len(answered) : answered[i] = [call |-> accepted[i], reply |-> accepted[i]]
  /\ \A i \in 1 .. Len(handlers) : handlers[i] = accepted[Len(answered) + i]

\* The replies on the wire are those to the calls executed after the answered
\* ones, all of them while the connection lasts.
RepliesInTurn ==
  /\ \A i \in 1 .. Len(OnWire) : OnWire[i].kind = "message" <=> OnWire[i].call = NoCall
  /\ \E hi \in Len(answered) .. Len(executed) :
       /\ InTurn(Named(OnWire), accepted, Len(answered), hi)
       /\ socket \in {"none", "up"} => hi = Len(executed)

\* A connection carries messages only in the state in which they are expected.
SubscribedFirst ==
  /\ \A c \in SubscriptionCalls : call[c] = "done" => state = "Subscribed"
  /\ subs # {} => state = "Subscribed"
  /\ \A i \in 1 .. Len(OnWire) : OnWire[i].kind = "message" => state = "Subscribed"
  /\ connecting => state = "NotConnected"

Aligned ==
  /\ StrandInTurn /\ QueueInTurn /\ ServerInTurn
  /\ HandlersInTurn /\ RepliesInTurn /\ SubscribedFirst

LEMMA WaitingFacts ==
  ASSUME NEW s \in Seq(Tasks)
  PROVE  /\ Len(s) \in Nat /\ Len(Waiting(s)) = Len(s)
         /\ \A i \in 1 .. Len(s) : Waiting(s)[i] = IF s[i].msg = NoMsg THEN s[i].call ELSE NoCall
<1>1. PICK n \in Nat : n = Len(s)
  OBVIOUS
<1>0. \A i \in 1 .. n : s[i] \in Tasks
  BY <1>1
<1>2. \A i \in 1 .. n : s[i].call \in Calls
  BY <1>0 DEF Tasks
<1>3. Waiting(s) \in [1 .. n -> Calls \cup {NoCall}]
  BY <1>1, <1>2 DEF Waiting
<1>4. Len(Waiting(s)) = n
  BY <1>3
<1> QED
  BY <1>1, <1>4 DEF Waiting

LEMMA NamedFacts ==
  ASSUME NEW x \in Seq(Wire)
  PROVE  /\ Len(x) \in Nat /\ Len(Named(x)) = Len(x)
         /\ \A i \in 1 .. Len(x) : Named(x)[i] = x[i].call /\ x[i].call \in Calls \cup {NoCall}
<1>1. PICK n \in Nat : n = Len(x)
  OBVIOUS
<1>0. \A i \in 1 .. n : x[i] \in Wire
  BY <1>1
<1>2. \A i \in 1 .. n : x[i].call \in Calls \cup {NoCall}
  BY <1>0 DEF Wire
<1>3. Named(x) \in [1 .. n -> Calls \cup {NoCall}]
  BY <1>1, <1>2 DEF Named
<1>4. Len(Named(x)) = n
  BY <1>3
<1> QED
  BY <1>1, <1>2, <1>4 DEF Named

\* What a step does that discloses no error.
LEMMA TalkCases ==
  ASSUME TypeOK, IgnoredAfterClose, Next, ~Disclosed'
  PROVE  \/ /\ UNCHANGED <<strand, queue, handlers, writing, inbuf, toServer, toClient, subs,
                           accepted, executed, answered>>
            /\ \/ UNCHANGED <<socket, state, connecting>>
               \/ connect \/ Establish \/ handleAsyncConnect \/ Break
         \/ \E c \in Calls : Posting(c)
         \/ doAsyncCommand
         \/ runMsgHandler
         \/ Transmit
         \/ asyncWrite /\ writing = "sent"
         \/ asyncRead
         \/ Serve
         \/ \E m \in Messages : Publish(m)
         \/ /\ parseReply /\ inbuf' = Tail(inbuf)
            /\ Head(inbuf).kind = "message"
            /\ UNCHANGED <<handlers, answered>>
            /\ \E hs : PostedTo(hs, Head(inbuf).msg)
         \/ /\ parseReply /\ inbuf' = Tail(inbuf)
            /\ state = "Subscribed" => Head(inbuf).kind # "message"
            /\ CallHandler(Head(inbuf))
<1> DEFINE Quiet == UNCHANGED <<strand, queue, handlers, writing, inbuf, toServer, toClient, subs,
                                accepted, executed, answered>>
<1>1. ASSUME NEW c, Refuse(c)
      PROVE  Quiet /\ UNCHANGED <<socket, state, connecting>>
  BY <1>1 DEF Refuse, clientVars, ioVars, serverVars
<1>2. ASSUME NEW c, stateValid(c), ~Refuse(c)
      PROVE  Quiet /\ UNCHANGED <<socket, state, connecting>>
  BY <1>2 DEF stateValid, clientVars, ioVars, serverVars
<1>3. ASSUME NEW c,
             command(c) \/ subscribe(c) \/ singleShotSubscribe(c) \/ unsubscribe(c)
      PROVE  Posting(c) \/ Refuse(c)
  <2>1. Post(c) \/ Refuse(c)
    BY <1>3, Zenon DEF command, subscribe, singleShotSubscribe, unsubscribe
  <2>2. /\ UNCHANGED <<errorHandler, owner, queue, handlers, writing, reading, inbuf, connecting>>
        /\ UNCHANGED serverVars
        /\ UNCHANGED <<executed, answered, delivered>>
    BY <1>3, CallsPost, Zenon
  <2> QED
    BY <2>1, <2>2 DEF Posting
<1>4. close => Disclosed'
  BY Zenon DEF close, Disclosed
<1>5. CASE installErrorHandler
  <2>1. Quiet /\ UNCHANGED <<socket, state, connecting>>
    BY <1>5 DEF installErrorHandler, ioVars, serverVars, history
  <2> QED
    BY <2>1
<1>6. CASE connect \/ Establish \/ handleAsyncConnect \/ Break
  <2>1. Quiet
    BY <1>6 DEF connect, Establish, handleAsyncConnect, Break, clientVars, ioVars, serverVars, history
  <2> QED
    BY <1>6, <2>1
<1>7. owner' = owner \/ close
  <2>1. ASSUME NEW c,
               stateValid(c) \/ command(c) \/ subscribe(c) \/ singleShotSubscribe(c) \/ unsubscribe(c)
        PROVE  owner' = owner
    BY <2>1, CallsPost
  <2>2. parseReply => owner' = owner
    BY TurnCases
  <2> QED
    BY <2>1, <2>2, NextIs, Zenon
       DEF installErrorHandler, connect, handleAsyncConnect, doAsyncCommand, runMsgHandler,
           asyncWrite, asyncRead, Establish, Transmit, Serve, Break, Publish, clientVars
<1>8. ~CallErrorHandler
  BY <1>4, <1>7, ErrorIsDisclosed
<1>9. asyncWrite => writing = "sent"
  BY <1>8, Zenon DEF asyncWrite
<1>10. CASE parseReply
  <2>1. PICK m : m = Head(inbuf).msg
    OBVIOUS
  <2>2. ASSUME PostMessage(m)
        PROVE  /\ UNCHANGED <<handlers, answered>>
               /\ \E hs : PostedTo(hs, m)
    BY <2>2, PostEffect DEF TypeOK, PostedTo
  <2>3. state = "Subscribed" /\ Head(inbuf).kind \in {"subscribe", "unsubscribe"} =>
          Head(inbuf).kind # "message"
    OBVIOUS
  <2> QED
    BY <1>8, <1>10, <2>1, <2>2, <2>3, TurnCases, Zenon
<1>11. \A c : c \in Commands \/ c \in Subscribes \/ c \in SingleShots \/ c \in Unsubscribes => c \in Calls
  BY DEF Calls
<1>12. \/ installErrorHandler \/ connect
       \/ \E c \in Commands : stateValid(c) \/ command(c)
       \/ \E c \in Subscribes : subscribe(c)
       \/ \E c \in SingleShots : singleShotSubscribe(c)
       \/ \E c \in Unsubscribes : unsubscribe(c)
       \/ handleAsyncConnect \/ doAsyncCommand \/ runMsgHandler
       \/ asyncWrite \/ asyncRead \/ parseReply
       \/ Establish \/ Transmit \/ Serve \/ Break
       \/ \E m \in Messages : Publish(m)
  BY <1>4, NextIs
<1>13. (\E c : Refuse(c) \/ (stateValid(c) /\ ~Refuse(c))) =>
         Quiet /\ UNCHANGED <<socket, state, connecting>>
  BY <1>1, <1>2
<1>14. \/ installErrorHandler \/ connect \/ Establish \/ handleAsyncConnect \/ Break \/ parseReply
       \/ \E c : Refuse(c) \/ (stateValid(c) /\ ~Refuse(c))
       \/ \E c \in Calls : Posting(c)
       \/ doAsyncCommand \/ runMsgHandler \/ Transmit \/ Serve
       \/ asyncWrite /\ writing = "sent"
       \/ asyncRead
       \/ \E m \in Messages : Publish(m)
  BY <1>3, <1>9, <1>11, <1>12, Zenon
<1> QED
  BY <1>5, <1>6, <1>10, <1>13, <1>14, Zenon

LEMMA AcceptedFacts ==
  ASSUME BaseInv
  PROVE  /\ Len(accepted) \in Nat
         /\ \A k, l \in 1 .. Len(accepted) : accepted[k] = accepted[l] => k = l
         /\ \A k \in 1 .. Len(accepted) : accepted[k] \in Calls /\ accepted[k] # NoCall
<1>1. PICK n \in Nat : n = Len(accepted)
  BY DEF BaseInv, TypeOK
<1>2. \A k \in 1 .. n : accepted[k] \in Calls
  BY <1>1 DEF BaseInv, TypeOK
<1>3. \A k \in 1 .. n : accepted[k] # NoCall
  BY <1>2, CallsAssumption
<1> QED
  BY <1>1, <1>2, <1>3 DEF BaseInv, Distinct

LEMMA GoneFacts ==
  ASSUME BaseInv
  PROVE  Lengths /\ Gone \in Nat /\ Unsent \in Nat /\ Unsent <= Len(queue)
                 /\ OnWire \in Seq(Wire) /\ Len(OnWire) \in Nat
<1>1. TypeOK /\ WriteDiscipline
  BY DEF BaseInv
<1>2. Lengths
  BY <1>1, LengthsOK
<1>3. Unsent \in Nat
  BY <1>1, UnsentIsNat
<1>4. OnWire \in Seq(Wire)
  BY <1>1, WireIs DEF TypeOK, OnWire
<1>5. Len(OnWire) \in Nat
  BY <1>4, NamedFacts
<1> QED
  BY <1>2, <1>3, <1>4, <1>5 DEF Lengths, Gone, Unsent

\* What stays in turn when nothing that it speaks of changes.
LEMMA SameWaiting ==
  ASSUME StrandInTurn, UNCHANGED <<strand, answered, handlers, accepted>>
  PROVE  StrandInTurn'
<1>1. PICK q : q = Waiting(strand)
  OBVIOUS
<1>2. Waiting(strand)' = q /\ Gone' = Gone
  BY <1>1 DEF Gone, Waiting
<1> QED
  BY <1>1, <1>2 DEF StrandInTurn

LEMMA SameQueue ==
  ASSUME QueueInTurn, UNCHANGED <<queue, accepted>>, Gone' = Gone
  PROVE  QueueInTurn'
BY DEF QueueInTurn

LEMMA SameServer ==
  ASSUME ServerInTurn, UNCHANGED <<queue, writing, toServer, executed, accepted, socket>>, Gone' = Gone
  PROVE  ServerInTurn'
BY DEF ServerInTurn, Unsent

LEMMA SameHandlers ==
  ASSUME HandlersInTurn, UNCHANGED <<answered, handlers, accepted>>
  PROVE  HandlersInTurn' /\ Gone' = Gone
BY DEF HandlersInTurn, Gone

LEMMA SameReplies ==
  ASSUME BaseInv, BaseInv', RepliesInTurn, Without(OnWire', OnWire, 0),
         UNCHANGED <<answered, executed, accepted, socket>>
  PROVE  RepliesInTurn'
<1>1. PICK x, y : x = OnWire /\ y = OnWire'
  OBVIOUS
<1>2. x \in Seq(Wire) /\ Len(x) \in Nat
  BY <1>1, GoneFacts
<1>3. y \in Seq(Wire)
  BY <1>1, WireIs DEF BaseInv, TypeOK, OnWire
<1>4. PICK n \in Nat : n = Len(x) /\ n = Len(y) /\ \A i \in 1 .. n : y[i] = x[i]
  BY <1>1, <1>2 DEF Without
<1>5. PICK q, r : q = Named(x) /\ r = Named(y)
  OBVIOUS
<1>6. /\ Len(q) = n /\ Len(r) = n
      /\ \A i \in 1 .. n : q[i] = x[i].call
      /\ \A i \in 1 .. n : r[i] = y[i].call
  BY <1>2, <1>3, <1>4, <1>5, NamedFacts
<1>7. PICK a \in Nat, b \in Nat : a = Len(answered) /\ b = Len(executed)
  BY GoneFacts DEF Lengths
<1>8. PICK hi \in a .. b : InTurn(q, accepted, a, hi) /\ (socket \in {"none", "up"} => hi = b)
  BY <1>1, <1>5, <1>7 DEF RepliesInTurn
<1>9. InTurn(r, accepted, a, hi)
  <2>1. hi \in Nat
    OBVIOUS
  <2>2. \A i \in 1 .. Len(q) : r[i] = q[i]
    BY <1>4, <1>6
  <2> QED
    BY <1>6, <1>8, <2>1, <2>2, InTurnSame
<1>10. \A i \in 1 .. n : y[i].kind = "message" <=> y[i].call = NoCall
  BY <1>1, <1>4 DEF RepliesInTurn
<1> QED
  BY <1>1, <1>4, <1>5, <1>7, <1>8, <1>9, <1>10 DEF RepliesInTurn

\* A call is posted.
LEMMA PostingAligned ==
  ASSUME BaseInv, BaseInv', Aligned, NEW c \in Calls, Posting(c)
  PROVE  StrandInTurn' /\ QueueInTurn' /\ ServerInTurn' /\ HandlersInTurn' /\ RepliesInTurn'
<1>0. PICK e, f : e = accepted /\ f = accepted'
  OBVIOUS
<1>1. PICK n \in Nat : e = accepted /\ f = accepted' /\ n = Len(e)
  BY <1>0, AcceptedFacts
<1>2. TypeOK /\ Post(c)
  BY DEF BaseInv, Posting
<1>3. Len(f) = n + 1 /\ f[n + 1] = c /\ \A i \in 1 .. n : f[i] = e[i]
  BY <1>1, <1>2, PostGrows
<1>4. /\ \A k, l \in 1 .. n + 1 : f[k] = f[l] => k = l
      /\ \A k \in 1 .. n + 1 : f[k] # NoCall
  <2>1. \A k, l \in 1 .. n + 1 : f[k] = f[l] => k = l
    BY <1>1, <1>3 DEF BaseInv, Distinct
  <2>2. \A k \in 1 .. n : f[k] # NoCall
    BY <1>1, <1>3, AcceptedFacts
  <2>3. f[n + 1] # NoCall
    BY <1>3, CallsAssumption
  <2>4. \A k \in 1 .. n + 1 : k \in 1 .. n \/ k = n + 1
    OBVIOUS
  <2> QED
    BY <2>1, <2>2, <2>3, <2>4
<1>5. /\ UNCHANGED <<queue, handlers, writing, executed, answered, socket, toServer>>
      /\ inbuf' = inbuf /\ toClient' = toClient
  BY DEF Posting, serverVars
<1>6. PICK g \in Nat : g = Gone /\ g = Gone' /\ g <= n
  BY <1>1, <1>5, GoneFacts DEF Aligned, StrandInTurn, Gone
<1>7. StrandInTurn'
  <2>1. PICK s, t : s = strand /\ t = strand'
    OBVIOUS
  <2>2. s \in Seq(Tasks) /\ t \in Seq(Tasks)
    BY <2>1 DEF BaseInv, TypeOK
  <2>a. PICK q, r : q = Waiting(s) /\ r = Waiting(t)
    OBVIOUS
  <2>3. PICK l \in Nat : q = Waiting(s) /\ r = Waiting(t) /\ l = Len(s) /\ Len(q) = l
    BY <2>2, <2>a, WaitingFacts
  <2>4. Len(t) = l + 1 /\ t[l + 1] = CommandTask(c) /\ \A i \in 1 .. l : t[i] = s[i]
    BY <1>2, <2>1, <2>3, PostGrows
  <2>5. \A i \in 1 .. l : i \in 1 .. l + 1
    OBVIOUS
  <2>6. Len(r) = l + 1
    BY <2>2, <2>3, <2>4, WaitingFacts
  <2>7. \A i \in 1 .. l + 1 : r[i] = IF t[i].msg = NoMsg THEN t[i].call ELSE NoCall
    BY <2>2, <2>3, <2>4, WaitingFacts
  <2>8. \A i \in 1 .. l : q[i] = IF s[i].msg = NoMsg THEN s[i].call ELSE NoCall
    BY <2>2, <2>3, WaitingFacts
  <2>9. \A i \in 1 .. l : r[i] = q[i]
    BY <2>4, <2>5, <2>7, <2>8
  <2>10. r[l + 1] = c
    <3>1. t[l + 1].msg = NoMsg /\ t[l + 1].call = c
      BY <2>4 DEF CommandTask
    <3>2. l + 1 \in 1 .. l + 1
      OBVIOUS
    <3> QED
      BY <2>7, <3>1, <3>2
  <2>11. InTurn(q, e, g, n)
    BY <1>1, <1>6, <2>1, <2>3 DEF Aligned, StrandInTurn
  <2>12. InTurn(q, f, g, n)
    <3>1. \A k \in g + 1 .. n : f[k] = e[k]
      BY <1>3
    <3> QED
      BY <2>11, <3>1, InTurnOfMore
  <2>13. InTurn(r, f, g, n + 1)
    <3>1. /\ Len(q) \in Nat /\ Len(r) = Len(q) + 1
          /\ \A i \in 1 .. Len(q) : r[i] = q[i]
          /\ r[Len(q) + 1] = f[n + 1]
      BY <1>3, <2>3, <2>6, <2>9, <2>10
    <3> QED
      BY <1>4, <1>6, <2>12, <3>1, InTurnNext
  <2> QED
    BY <1>1, <1>3, <1>6, <2>1, <2>3, <2>13 DEF StrandInTurn
<1>8. QueueInTurn'
  <2>1. PICK k \in Nat : k = Len(queue) /\ k <= g
    BY <1>6, GoneFacts DEF Aligned, QueueInTurn, Lengths
  <2>2. \A i \in 1 .. k : queue[i] = e[g - k + i]
    BY <1>1, <1>6, <2>1 DEF Aligned, QueueInTurn
  <2>3. \A i \in 1 .. k : g - k + i \in 1 .. n
    BY <1>6, <2>1
  <2>4. \A i \in 1 .. k : queue[i] = f[g - k + i]
    BY <1>3, <2>2, <2>3
  <2> QED
    BY <1>1, <1>5, <1>6, <2>1, <2>4 DEF QueueInTurn
<1>9. PICK x \in Nat, s \in Nat, u \in Nat : x = Len(executed) /\ s = Len(toServer) /\ u = Unsent /\ x + s + u <= g
  BY <1>6, GoneFacts DEF Aligned, ServerInTurn, Lengths
<1>10. ServerInTurn'
  <2>1. /\ \A i \in 1 .. x : executed[i] = e[i]
        /\ \A i \in 1 .. s : toServer[i] = e[x + i]
        /\ socket \in {"none", "up"} => x + s + u = g
        /\ socket = "none" => toServer = <<>>
    BY <1>1, <1>6, <1>9 DEF Aligned, ServerInTurn
  <2>2. \A i \in 1 .. x : i \in 1 .. n
    BY <1>6, <1>9
  <2>3. \A i \in 1 .. s : x + i \in 1 .. n
    BY <1>6, <1>9
  <2>4. /\ \A i \in 1 .. x : executed[i] = f[i]
        /\ \A i \in 1 .. s : toServer[i] = f[x + i]
    BY <1>3, <2>1, <2>2, <2>3
  <2>5. Unsent' = u
    BY <1>5, <1>9 DEF Unsent
  <2> QED
    BY <1>1, <1>5, <1>6, <1>9, <2>1, <2>4, <2>5 DEF ServerInTurn
<1>11. PICK a \in Nat, h \in Nat : a = Len(answered) /\ h = Len(handlers) /\ a + h = g
  BY <1>6, GoneFacts DEF Gone, Lengths
<1>12. HandlersInTurn'
  <2>1. /\ \A i \in 1 .. a : answered[i] = [call |-> e[i], reply |-> e[i]]
        /\ \A i \in 1 .. h : handlers[i] = e[a + i]
    BY <1>1, <1>11 DEF Aligned, HandlersInTurn
  <2>2. \A i \in 1 .. a : i \in 1 .. n
    BY <1>6, <1>11
  <2>3. \A i \in 1 .. h : a + i \in 1 .. n
    BY <1>6, <1>11
  <2>4. /\ \A i \in 1 .. a : answered[i] = [call |-> f[i], reply |-> f[i]]
        /\ \A i \in 1 .. h : handlers[i] = f[a + i]
    BY <1>3, <2>1, <2>2, <2>3
  <2> QED
    BY <1>1, <1>5, <1>11, <2>4 DEF HandlersInTurn
<1>13. RepliesInTurn'
  <2>1. OnWire' = OnWire
    BY <1>5 DEF OnWire
  <2>2. PICK q : q = Named(OnWire)
    OBVIOUS
  <2>3. PICK hi \in a .. x : InTurn(q, e, a, hi) /\ (socket \in {"none", "up"} => hi = x)
    BY <1>1, <1>9, <1>11, <2>2 DEF Aligned, RepliesInTurn
  <2>4. InTurn(q, f, a, hi)
    <3>1. hi \in Nat /\ \A k \in a + 1 .. hi : k \in 1 .. n
      BY <1>6, <1>9
    <3>2. \A k \in a + 1 .. hi : f[k] = e[k]
      BY <1>3, <3>1
    <3> QED
      BY <2>3, <3>1, <3>2, InTurnOfMore
  <2> QED
    BY <1>1, <1>5, <1>9, <1>11, <2>1, <2>2, <2>3, <2>4 DEF Aligned, RepliesInTurn
<1> QED
  BY <1>7, <1>8, <1>10, <1>12, <1>13

\* The first task leaves the strand.
LEMMA FirstTask ==
  ASSUME BaseInv, BaseInv', StrandInTurn, Len(strand) >= 1, Len(strand') = Len(strand) - 1,
         \A i \in 1 .. Len(strand) - 1 : strand'[i] = strand[i + 1]
  PROVE  /\ strand[1].msg = NoMsg =>
              /\ Gone < Len(accepted) /\ strand[1].call = accepted[Gone + 1]
              /\ InTurn(Waiting(strand'), accepted, Gone + 1, Len(accepted))
         /\ strand[1].msg # NoMsg => InTurn(Waiting(strand'), accepted, Gone, Len(accepted))
<1>1. PICK s, t, e : s = strand /\ t = strand' /\ e = accepted
  OBVIOUS
<1>2. s \in Seq(Tasks) /\ t \in Seq(Tasks)
  BY <1>1 DEF BaseInv, TypeOK
<1>3. PICK n \in Nat, g \in Nat : n = Len(e) /\ g = Gone /\ g <= n
  BY <1>1, AcceptedFacts, GoneFacts DEF StrandInTurn
<1>4. PICK q, r : q = Waiting(s) /\ r = Waiting(t)
  OBVIOUS
<1>5. /\ Len(s) \in Nat /\ Len(q) = Len(s) /\ Len(r) = Len(t)
      /\ \A i \in 1 .. Len(s) : q[i] = IF s[i].msg = NoMsg THEN s[i].call ELSE NoCall
      /\ \A i \in 1 .. Len(t) : r[i] = IF t[i].msg = NoMsg THEN t[i].call ELSE NoCall
  BY <1>2, <1>4, WaitingFacts
<1>6. PICK l \in Nat : l = Len(t) /\ Len(s) = l + 1 /\ Len(t) = Len(s) - 1
  <2>1. Len(s) >= 1 /\ Len(t) = Len(s) - 1 /\ Len(s) \in Nat
    BY <1>1, <1>5
  <2>2. Len(t) \in Nat /\ Len(s) = Len(t) + 1
    BY <2>1
  <2> QED
    BY <2>1, <2>2
<1>7. \A i \in 1 .. l : t[i] = s[i + 1] /\ i + 1 \in 1 .. l + 1
  BY <1>1, <1>6
<1>8. \A i \in 1 .. l : r[i] = q[i + 1]
  BY <1>5, <1>6, <1>7
<1>9. /\ Len(q) \in Nat /\ Len(q) >= 1 /\ Len(r) = Len(q) - 1
      /\ \A i \in 1 .. Len(q) - 1 : r[i] = q[i + 1]
  BY <1>5, <1>6, <1>8
<1>10. InTurn(q, e, g, n)
  BY <1>1, <1>3, <1>4 DEF StrandInTurn
<1>11. /\ \A k, l1 \in 1 .. n : e[k] = e[l1] => k = l1
       /\ \A k \in 1 .. n : e[k] # NoCall
  BY <1>1, <1>3, AcceptedFacts
<1>12. /\ q[1] = NoCall => InTurn(r, e, g, n)
       /\ q[1] # NoCall => g < n /\ q[1] = e[g + 1] /\ InTurn(r, e, g + 1, n)
  BY <1>9, <1>10, <1>11, InTurnFirst
<1>13. 1 \in 1 .. Len(s)
  BY <1>5, <1>6
<1>14. s[1].call # NoCall
  <2>1. s[1] \in Tasks
    BY <1>2, <1>13
  <2>2. s[1].call \in Calls
    BY <2>1 DEF Tasks
  <2> QED
    BY <2>2, CallsAssumption
<1>15. q[1] = IF s[1].msg = NoMsg THEN s[1].call ELSE NoCall
  BY <1>5, <1>13
<1> QED
  BY <1>1, <1>3, <1>4, <1>12, <1>14, <1>15

\* A call is queued and its handler waits.
LEMMA CommandAligned ==
  ASSUME BaseInv, BaseInv', Aligned, doAsyncCommand
  PROVE  StrandInTurn' /\ QueueInTurn' /\ ServerInTurn' /\ HandlersInTurn' /\ RepliesInTurn'
<1>0. TypeOK
  BY DEF BaseInv
<1>1. PICK e : e = accepted
  OBVIOUS
<1>2. PICK n \in Nat, g \in Nat, a \in Nat, h \in Nat, k \in Nat :
        /\ n = Len(e) /\ g = Gone /\ a = Len(answered) /\ h = Len(handlers) /\ k = Len(queue)
        /\ g = a + h
  <2>1. Lengths /\ Gone \in Nat
    BY GoneFacts
  <2> QED
    BY <1>1, <2>1 DEF Lengths, Gone
<1>3. PICK c : c = strand[1].call
  OBVIOUS
<1>4. /\ Len(strand) >= 1 /\ Len(strand') = Len(strand) - 1
      /\ \A i \in 1 .. Len(strand) - 1 : strand'[i] = strand[i + 1]
      /\ Len(queue') = k + 1 /\ queue'[k + 1] = c
      /\ \A i \in 1 .. k : queue'[i] = queue[i]
      /\ Len(handlers') = h + 1 /\ handlers'[h + 1] = c
      /\ \A i \in 1 .. h : handlers'[i] = handlers[i]
      /\ writing' = IF k = 0 THEN "started" ELSE writing
      /\ UNCHANGED <<inbuf, socket, toServer, toClient, accepted, executed, answered>>
  BY <1>0, <1>2, <1>3, DoAsyncCommandEffect
<1>5. strand[1].msg = NoMsg
  <2>1. strand \in Seq(Tasks) /\ strand # <<>> /\ Head(strand).msg = NoMsg
    BY <1>0 DEF TypeOK, doAsyncCommand
  <2>2. Head(strand) = strand[1]
    BY <2>1
  <2> QED
    BY <2>1, <2>2
<1>6. PICK x : x = Waiting(strand')
  OBVIOUS
<1>7. g < n /\ c = e[g + 1] /\ InTurn(x, e, g + 1, n)
  BY <1>1, <1>2, <1>3, <1>4, <1>5, <1>6, FirstTask DEF Aligned
<1>8. Gone' = g + 1 /\ accepted' = e
  BY <1>1, <1>2, <1>4 DEF Gone
<1>9. StrandInTurn'
  <2>1. x = Waiting(strand)'
    BY <1>6 DEF Waiting
  <2> QED
    BY <1>2, <1>7, <1>8, <2>1 DEF StrandInTurn
<1>10. k <= g /\ \A i \in 1 .. k : queue[i] = e[g - k + i]
  BY <1>1, <1>2 DEF Aligned, QueueInTurn
<1>11. QueueInTurn'
  <2>1. \A i \in 1 .. k + 1 : i \in 1 .. k \/ i = k + 1
    OBVIOUS
  <2>2. g + 1 - (k + 1) = g - k /\ g - k + (k + 1) = g + 1
    OBVIOUS
  <2>3. \A i \in 1 .. k + 1 : queue'[i] = e[g - k + i]
    BY <1>4, <1>7, <1>10, <2>1, <2>2
  <2> QED
    BY <1>4, <1>8, <1>10, <2>2, <2>3 DEF QueueInTurn
<1>12. Unsent' = Unsent + 1
  <2>1. writing # "none" => k # 0
    BY <1>2 DEF BaseInv, WriteDiscipline
  <2> QED
    BY <1>2, <1>4, <2>1 DEF Unsent
<1>13. ServerInTurn'
  <2>1. PICK i1 \in Nat, i2 \in Nat, i3 \in Nat : i1 = Len(executed) /\ i2 = Len(toServer) /\ i3 = Unsent
    BY GoneFacts DEF Lengths
  <2>2. /\ i1 + i2 + i3 <= g
        /\ socket \in {"none", "up"} => i1 + i2 + i3 = g
        /\ socket = "none" => toServer = <<>>
        /\ \A i \in 1 .. i1 : executed[i] = e[i]
        /\ \A i \in 1 .. i2 : toServer[i] = e[i1 + i]
    BY <1>1, <1>2, <2>1 DEF Aligned, ServerInTurn
  <2>3. Unsent' = i3 + 1
    BY <1>12, <2>1
  <2>4. Len(executed)' = i1 /\ Len(toServer)' = i2 /\ Gone' = g + 1
    BY <1>4, <1>8, <2>1
  <2>5. /\ Len(executed)' + Len(toServer)' + Unsent' <= Gone'
        /\ socket' \in {"none", "up"} => Len(executed)' + Len(toServer)' + Unsent' = Gone'
    BY <1>4, <2>2, <2>3, <2>4
  <2>6. /\ \A i \in 1 .. Len(executed)' : executed'[i] = accepted'[i]
        /\ \A i \in 1 .. Len(toServer)' : toServer'[i] = accepted'[Len(executed)' + i]
        /\ socket' = "none" => toServer' = <<>>
    BY <1>4, <1>8, <2>2, <2>4
  <2> QED
    BY <2>5, <2>6 DEF ServerInTurn
<1>14. HandlersInTurn'
  <2>1. /\ \A i \in 1 .. a : answered[i] = [call |-> e[i], reply |-> e[i]]
        /\ \A i \in 1 .. h : handlers[i] = e[a + i]
    BY <1>1, <1>2 DEF Aligned, HandlersInTurn
  <2>2. \A i \in 1 .. h + 1 : i \in 1 .. h \/ i = h + 1
    OBVIOUS
  <2>3. a + (h + 1) = g + 1
    BY <1>2
  <2>4. \A i \in 1 .. h + 1 : handlers'[i] = e[a + i]
    BY <1>4, <1>7, <2>1, <2>2, <2>3
  <2> QED
    BY <1>2, <1>4, <1>8, <2>1, <2>4 DEF HandlersInTurn
<1>15. RepliesInTurn'
  <2>1. Without(OnWire', OnWire, 0)
    BY <1>0, <1>4, WireKept
  <2> QED
    BY <1>4, <2>1, SameReplies DEF Aligned
<1> QED
  BY <1>9, <1>11, <1>13, <1>14, <1>15

\* A message is handled.
LEMMA MessageRunAligned ==
  ASSUME BaseInv, BaseInv', Aligned, runMsgHandler
  PROVE  StrandInTurn' /\ QueueInTurn' /\ ServerInTurn' /\ HandlersInTurn' /\ RepliesInTurn'
<1>0. TypeOK
  BY DEF BaseInv
<1>1. UNCHANGED <<queue, handlers, writing, inbuf, socket, toServer, toClient, accepted, executed, answered>>
  BY DEF runMsgHandler, serverVars
<1>2. /\ Len(strand) >= 1 /\ Len(strand') = Len(strand) - 1
      /\ \A i \in 1 .. Len(strand) - 1 : strand'[i] = strand[i + 1]
      /\ strand[1].msg # NoMsg
  <2>1. /\ strand \in Seq(Tasks) /\ strand # <<>> /\ Head(strand).msg # NoMsg
        /\ strand' = Tail(strand)
    BY <1>0 DEF TypeOK, runMsgHandler
  <2> QED
    BY <2>1, TailFacts
<1>3. PICK x : x = Waiting(strand')
  OBVIOUS
<1>4. InTurn(x, accepted, Gone, Len(accepted))
  BY <1>2, <1>3, FirstTask DEF Aligned
<1>5. StrandInTurn'
  <2>1. x = Waiting(strand)'
    BY <1>3 DEF Waiting
  <2>2. Gone' = Gone
    BY <1>1 DEF Gone
  <2> QED
    BY <1>1, <1>4, <2>1, <2>2 DEF Aligned, StrandInTurn
<1>6. HandlersInTurn' /\ Gone' = Gone
  BY <1>1, SameHandlers DEF Aligned
<1>7. Without(OnWire', OnWire, 0)
  BY <1>0, <1>1, WireKept
<1> QED
  BY <1>1, <1>5, <1>6, <1>7, SameQueue, SameServer, SameReplies DEF Aligned

\* The kernel takes a request.
LEMMA TransmitAligned ==
  ASSUME BaseInv, BaseInv', Aligned, Transmit
  PROVE  StrandInTurn' /\ QueueInTurn' /\ ServerInTurn' /\ HandlersInTurn' /\ RepliesInTurn'
<1>0. TypeOK /\ WriteDiscipline
  BY DEF BaseInv
<1>1. /\ writing = "started" /\ writing' = "sent"
      /\ Len(queue) >= 1
      /\ \/ /\ socket = "up"
            /\ Len(toServer') = Len(toServer) + 1
            /\ \A i \in 1 .. Len(toServer) : toServer'[i] = toServer[i]
            /\ toServer'[Len(toServer) + 1] = queue[1]
         \/ /\ socket = "broken"
            /\ toServer' = toServer
      /\ UNCHANGED <<strand, queue, handlers, inbuf, socket, toClient, accepted, executed, answered>>
  BY <1>0, TransmitEffect
<1>2. HandlersInTurn' /\ Gone' = Gone
  BY <1>1, SameHandlers DEF Aligned
<1>3. Without(OnWire', OnWire, 0)
  BY <1>0, <1>1, WireKept
<1>4. PICK e : e = accepted
  OBVIOUS
<1>5. PICK x \in Nat, s \in Nat, k \in Nat, g \in Nat :
        x = Len(executed) /\ s = Len(toServer) /\ k = Len(queue) /\ g = Gone
  BY GoneFacts DEF Lengths
<1>6. /\ k <= g /\ \A i \in 1 .. k : queue[i] = e[g - k + i]
  BY <1>4, <1>5 DEF Aligned, QueueInTurn
<1>7. Unsent = k /\ Unsent' = k - 1 /\ k >= 1
  BY <1>1, <1>5 DEF Unsent
<1>8. /\ x + s + k <= g
      /\ socket \in {"none", "up"} => x + s + k = g
      /\ socket = "none" => toServer = <<>>
      /\ \A i \in 1 .. x : executed[i] = e[i]
      /\ \A i \in 1 .. s : toServer[i] = e[x + i]
  BY <1>4, <1>5, <1>7 DEF Aligned, ServerInTurn
<1>9. queue[1] = e[g - k + 1]
  BY <1>6, <1>7
<1>10. PICK s1 \in Nat : s1 = Len(toServer')
  BY <1>1, <1>5
<1>11. /\ x + s1 + (k - 1) <= g
       /\ socket \in {"none", "up"} => x + s1 + (k - 1) = g
       /\ \A i \in 1 .. s1 : toServer'[i] = e[x + i]
  <2>1. CASE socket = "up"
    <3>1. s1 = s + 1 /\ x + (s + 1) = g - k + 1
      BY <1>1, <1>5, <1>8, <1>10, <2>1
    <3>2. \A i \in 1 .. s1 : i \in 1 .. s \/ i = s + 1
      BY <3>1
    <3>3. toServer'[s + 1] = e[x + (s + 1)]
      BY <1>1, <1>5, <1>9, <2>1, <3>1
    <3>4. \A i \in 1 .. s : toServer'[i] = e[x + i]
      BY <1>1, <1>5, <1>8, <2>1
    <3> QED
      BY <1>7, <1>8, <2>1, <3>1, <3>2, <3>3, <3>4
  <2>2. CASE socket = "broken"
    BY <1>1, <1>5, <1>7, <1>8, <1>10, <2>2
  <2> QED
    BY <1>1, <2>1, <2>2
<1>12. ServerInTurn'
  <2>1. Len(executed)' = x /\ Len(toServer)' = s1 /\ Gone' = g
    BY <1>1, <1>2, <1>5, <1>10
  <2>2. /\ Len(executed)' + Len(toServer)' + Unsent' <= Gone'
        /\ socket' \in {"none", "up"} => Len(executed)' + Len(toServer)' + Unsent' = Gone'
    BY <1>1, <1>7, <1>11, <2>1
  <2>3. /\ \A i \in 1 .. Len(executed)' : executed'[i] = accepted'[i]
        /\ \A i \in 1 .. Len(toServer)' : toServer'[i] = accepted'[Len(executed)' + i]
        /\ socket' # "none"
    BY <1>1, <1>4, <1>8, <1>11, <2>1
  <2> QED
    BY <2>2, <2>3 DEF ServerInTurn
<1> QED
  BY <1>1, <1>2, <1>3, <1>12, SameWaiting, SameQueue, SameReplies DEF Aligned

\* A write has completed.
LEMMA WrittenAligned ==
  ASSUME BaseInv, BaseInv', Aligned, asyncWrite, writing = "sent"
  PROVE  StrandInTurn' /\ QueueInTurn' /\ ServerInTurn' /\ HandlersInTurn' /\ RepliesInTurn'
<1>0. TypeOK /\ WriteDiscipline
  BY DEF BaseInv
<1>1. /\ UNCHANGED <<strand, handlers, inbuf, socket, toServer, toClient, accepted, executed, answered>>
      /\ writing' # "sent" /\ Len(queue) >= 1 /\ Len(queue') = Len(queue) - 1
      /\ \A i \in 1 .. Len(queue) - 1 : queue'[i] = queue[i + 1]
  BY <1>0, AsyncWriteEffect
<1>2. HandlersInTurn' /\ Gone' = Gone
  BY <1>1, SameHandlers DEF Aligned
<1>3. Without(OnWire', OnWire, 0)
  BY <1>0, <1>1, WireKept
<1>4. PICK e : e = accepted
  OBVIOUS
<1>5. PICK k \in Nat, g \in Nat : k = Len(queue) /\ g = Gone
  BY GoneFacts DEF Lengths
<1>6. PICK k1 \in Nat : k = k1 + 1 /\ k1 = Len(queue')
  BY <1>1, <1>5
<1>7. k <= g /\ \A i \in 1 .. k : queue[i] = e[g - k + i]
  BY <1>4, <1>5 DEF Aligned, QueueInTurn
<1>8. QueueInTurn'
  <2>1. \A i \in 1 .. k1 : i + 1 \in 1 .. k /\ g - k + (i + 1) = g - k1 + i
    BY <1>6
  <2>2. \A i \in 1 .. k1 : queue'[i] = e[g - k1 + i]
    <3>1. TAKE i \in 1 .. k1
    <3>2. PICK j : j = i + 1
      OBVIOUS
    <3>3. queue[j] = e[g - k + j] /\ g - k + j = g - k1 + i
      BY <1>7, <2>1, <3>2
    <3>4. queue'[i] = queue[j]
      BY <1>1, <1>5, <1>6, <3>2
    <3> QED
      BY <3>3, <3>4
  <2> QED
    BY <1>1, <1>2, <1>4, <1>5, <1>6, <1>7, <2>2 DEF QueueInTurn
<1>9. Unsent' = Unsent
  BY <1>1, <1>5, <1>6 DEF Unsent
<1>10. ServerInTurn'
  BY <1>1, <1>2, <1>9 DEF Aligned, ServerInTurn
<1> QED
  BY <1>1, <1>2, <1>3, <1>8, <1>10, SameWaiting, SameReplies DEF Aligned

\* Bytes are read.
LEMMA ReadAligned ==
  ASSUME BaseInv, BaseInv', Aligned, asyncRead
  PROVE  StrandInTurn' /\ QueueInTurn' /\ ServerInTurn' /\ HandlersInTurn' /\ RepliesInTurn'
<1>0. TypeOK /\ TypeOK'
  BY DEF BaseInv
<1>1. UNCHANGED <<strand, queue, handlers, writing, socket, toServer, accepted, executed, answered>>
  BY <1>0, AsyncReadEffect
<1>2. HandlersInTurn' /\ Gone' = Gone
  BY <1>1, SameHandlers DEF Aligned
<1>3. Without(OnWire', OnWire, 0)
  BY <1>0, WireRead
<1> QED
  BY <1>1, <1>2, <1>3, SameWaiting, SameQueue, SameServer, SameReplies DEF Aligned

\* One entry more on the wire, and one fewer.
LEMMA NamedMore ==
  ASSUME NEW x \in Seq(Wire), NEW y \in Seq(Wire), NEW w, With(y, x, w)
  PROVE  /\ Len(Named(x)) \in Nat /\ Len(Named(y)) = Len(Named(x)) + 1
         /\ \A i \in 1 .. Len(Named(x)) : Named(y)[i] = Named(x)[i]
         /\ Named(y)[Len(Named(x)) + 1] = w.call
<1>1. PICK q, r : q = Named(x) /\ r = Named(y)
  OBVIOUS
<1>2. PICK n \in Nat : n = Len(x) /\ Len(y) = n + 1 /\ y[n + 1] = w /\ \A i \in 1 .. n : y[i] = x[i]
  BY DEF With
<1>3. Len(q) = n /\ \A i \in 1 .. n : q[i] = x[i].call
  BY <1>1, <1>2, NamedFacts
<1>4. Len(r) = n + 1 /\ \A i \in 1 .. n + 1 : r[i] = y[i].call
  BY <1>1, <1>2, NamedFacts
<1>5. n + 1 \in 1 .. n + 1 /\ \A i \in 1 .. n : i \in 1 .. n + 1
  OBVIOUS
<1>6. r[n + 1] = w.call /\ \A i \in 1 .. n : r[i] = q[i]
  BY <1>2, <1>3, <1>4, <1>5
<1> QED
  BY <1>1, <1>3, <1>4, <1>6

LEMMA NamedLess ==
  ASSUME NEW x \in Seq(Wire), NEW y \in Seq(Wire), Without(y, x, 1)
  PROVE  /\ Len(Named(x)) \in Nat /\ Len(Named(x)) >= 1 /\ Len(Named(y)) = Len(Named(x)) - 1
         /\ \A i \in 1 .. Len(Named(x)) - 1 : Named(y)[i] = Named(x)[i + 1]
         /\ Named(x)[1] = x[1].call
<1>1. PICK q, r : q = Named(x) /\ r = Named(y)
  OBVIOUS
<1>2. PICK n \in Nat : n = Len(y) /\ Len(x) = n + 1 /\ \A i \in 1 .. n : y[i] = x[i + 1]
  BY DEF Without
<1>3. Len(q) = n + 1 /\ \A i \in 1 .. n + 1 : q[i] = x[i].call
  BY <1>1, <1>2, NamedFacts
<1>4. Len(r) = n /\ \A i \in 1 .. n : r[i] = y[i].call
  BY <1>1, <1>2, NamedFacts
<1>5. 1 \in 1 .. n + 1 /\ \A i \in 1 .. n : i + 1 \in 1 .. n + 1
  OBVIOUS
<1>6. \A i \in 1 .. n : r[i] = q[i + 1]
  BY <1>2, <1>3, <1>4, <1>5
<1>7. q[1] = x[1].call /\ (n + 1) - 1 = n
  BY <1>3, <1>5
<1> QED
  BY <1>1, <1>3, <1>4, <1>6, <1>7

LEMMA ExecutedGone ==
  ASSUME BaseInv, Aligned
  PROVE  Len(executed) + Len(toServer) <= Gone /\ Len(executed) <= Gone
<1>1. PICK x \in Nat, s \in Nat, u \in Nat, g \in Nat :
        x = Len(executed) /\ s = Len(toServer) /\ u = Unsent /\ g = Gone
  BY GoneFacts DEF Lengths
<1>2. x + s + u <= g
  BY <1>1 DEF Aligned, ServerInTurn
<1> QED
  BY <1>1, <1>2

\* A message is published.
LEMMA PublishAligned ==
  ASSUME BaseInv, BaseInv', Aligned, NEW m \in Messages, Publish(m)
  PROVE  StrandInTurn' /\ QueueInTurn' /\ ServerInTurn' /\ HandlersInTurn' /\ RepliesInTurn'
<1>0. TypeOK
  BY DEF BaseInv
<1>1. UNCHANGED <<strand, queue, handlers, writing, inbuf, socket, toServer, accepted, executed, answered>>
  BY DEF Publish, ioVars, history
<1>2. HandlersInTurn' /\ Gone' = Gone
  BY <1>1, SameHandlers DEF Aligned
<1>3. RepliesInTurn'
  <2>1. CASE toClient' = toClient
    <3>1. Without(OnWire', OnWire, 0)
      BY <1>0, <1>1, <2>1, WireKept
    <3> QED
      BY <1>1, <3>1, SameReplies DEF Aligned
  <2>2. CASE toClient' = Append(toClient, Push(m))
    <3>1. PICK w : w = Push(m)
      OBVIOUS
    <3>2. w \in Wire /\ w.kind = "message" /\ w.call = NoCall
      BY <3>1 DEF Push, Wire
    <3>3. With(OnWire', OnWire, w)
      BY <1>0, <1>1, <2>2, <3>1, <3>2, WireSent
    <3>4. PICK x, y : x = OnWire /\ y = OnWire'
      OBVIOUS
    <3>5. x \in Seq(Wire) /\ y \in Seq(Wire)
      BY <3>4, WireIs DEF BaseInv, TypeOK, OnWire
    <3>6. PICK q, r : q = Named(x) /\ r = Named(y)
      OBVIOUS
    <3>7. /\ Len(q) \in Nat /\ Len(r) = Len(q) + 1
          /\ \A i \in 1 .. Len(q) : r[i] = q[i]
          /\ r[Len(q) + 1] = NoCall
      BY <3>2, <3>3, <3>4, <3>5, <3>6, NamedMore
    <3>8. PICK a \in Nat, b \in Nat : a = Len(answered) /\ b = Len(executed)
      BY GoneFacts DEF Lengths
    <3>9. PICK e : e = accepted
      OBVIOUS
    <3>10. PICK hi \in a .. b : InTurn(q, e, a, hi) /\ (socket \in {"none", "up"} => hi = b)
      BY <3>4, <3>6, <3>8, <3>9 DEF Aligned, RepliesInTurn
    <3>11. \A k \in a + 1 .. hi : e[k] # NoCall
      <4>1. PICK n \in Nat, g \in Nat : n = Len(e) /\ g = Gone /\ g <= n
        BY <3>9, AcceptedFacts, GoneFacts DEF Aligned, StrandInTurn
      <4>2. b <= g
        BY <3>8, <4>1, ExecutedGone
      <4>3. \A k \in a + 1 .. hi : k \in 1 .. n
        BY <3>8, <4>1, <4>2
      <4> QED
        BY <3>9, <4>1, <4>3, AcceptedFacts
    <3>12. InTurn(r, e, a, hi)
      <4>1. hi \in Nat /\ Len(r) \in Nat /\ Len(r) >= Len(q)
        BY <3>7, <3>8
      <4>2. \A i \in Len(q) + 1 .. Len(r) : r[i] = NoCall
        BY <3>7
      <4> QED
        BY <3>7, <3>8, <3>10, <3>11, <4>1, <4>2, InTurnOther
    <3>13. \A i \in 1 .. Len(y) : y[i].kind = "message" <=> y[i].call = NoCall
      <4>1. PICK l \in Nat : l = Len(x) /\ Len(y) = l + 1 /\ y[l + 1] = w /\ \A i \in 1 .. l : y[i] = x[i]
        BY <3>3, <3>4 DEF With
      <4>2. \A i \in 1 .. l : x[i].kind = "message" <=> x[i].call = NoCall
        BY <3>4, <4>1 DEF Aligned, RepliesInTurn
      <4>3. \A i \in 1 .. l + 1 : i \in 1 .. l \/ i = l + 1
        OBVIOUS
      <4> QED
        BY <3>2, <4>1, <4>2, <4>3
    <3> QED
      BY <1>1, <3>4, <3>6, <3>8, <3>9, <3>10, <3>12, <3>13 DEF RepliesInTurn
  <2> QED
    BY <2>1, <2>2 DEF Publish
<1> QED
  BY <1>1, <1>2, <1>3, SameWaiting, SameQueue, SameServer DEF Aligned

\* Redis executes a request and answers it.
LEMMA ServeAligned ==
  ASSUME BaseInv, BaseInv', Aligned, Serve
  PROVE  StrandInTurn' /\ QueueInTurn' /\ ServerInTurn' /\ HandlersInTurn' /\ RepliesInTurn'
<1>0. TypeOK
  BY DEF BaseInv
<1>1. UNCHANGED <<strand, queue, handlers, writing, inbuf, socket, accepted, answered>>
  BY DEF Serve, ioVars
<1>2. HandlersInTurn' /\ Gone' = Gone
  BY <1>1, SameHandlers DEF Aligned
<1>3. PICK e, c : e = accepted /\ c = Head(toServer)
  OBVIOUS
<1>4. PICK x \in Nat, s \in Nat, u \in Nat, g \in Nat, n \in Nat, a \in Nat :
        /\ x = Len(executed) /\ s = Len(toServer) /\ u = Unsent /\ g = Gone
        /\ n = Len(e) /\ a = Len(answered)
  BY <1>3, GoneFacts DEF Lengths
<1>5. g <= n
  BY <1>3, <1>4 DEF Aligned, StrandInTurn
<1>6. /\ x + s + u <= g
      /\ socket \in {"none", "up"} => x + s + u = g
      /\ socket = "none" => toServer = <<>>
      /\ \A i \in 1 .. x : executed[i] = e[i]
      /\ \A i \in 1 .. s : toServer[i] = e[x + i]
  BY <1>3, <1>4 DEF Aligned, ServerInTurn
<1>7. /\ toServer # <<>> /\ toServer' = Tail(toServer) /\ executed' = Append(executed, c)
      /\ \/ /\ socket = "up"
            /\ \E kind \in ReplyKinds(c) : toClient' = Append(toClient, Reply(kind, c))
         \/ socket # "up" /\ UNCHANGED toClient
  BY <1>3 DEF Serve
<1>8. /\ s >= 1 /\ c = toServer[1] /\ c \in Calls /\ Len(toServer') = s - 1
      /\ \A i \in 1 .. s - 1 : toServer'[i] = toServer[i + 1]
  BY <1>0, <1>3, <1>4, <1>7, TailFacts DEF TypeOK
<1>9. /\ Len(executed') = x + 1 /\ executed'[x + 1] = c
      /\ \A i \in 1 .. x : executed'[i] = executed[i]
  BY <1>0, <1>4, <1>7, <1>8, AppendFacts DEF TypeOK
<1>10. c = e[x + 1] /\ x + 1 <= n
  <2>1. 1 \in 1 .. s
    BY <1>8
  <2> QED
    BY <1>4, <1>5, <1>6, <1>8, <2>1
<1>11. ServerInTurn'
  <2>1. PICK s1 \in Nat : s = s1 + 1 /\ Len(toServer') = s1
    BY <1>4, <1>8
  <2>2. \A i \in 1 .. s1 : toServer'[i] = e[x + 1 + i]
    <3>1. TAKE i \in 1 .. s1
    <3>2. PICK j : j = i + 1
      OBVIOUS
    <3>3. j \in 1 .. s /\ x + j = x + 1 + i
      BY <2>1, <3>2
    <3>4. toServer'[i] = toServer[j]
      BY <1>8, <2>1, <3>2
    <3> QED
      BY <1>6, <3>3, <3>4
  <2>3. \A i \in 1 .. x + 1 : i \in 1 .. x \/ i = x + 1
    OBVIOUS
  <2>4. \A i \in 1 .. x + 1 : executed'[i] = e[i]
    BY <1>6, <1>9, <1>10, <2>3
  <2>5. Len(executed)' = x + 1 /\ Len(toServer)' = s1 /\ Gone' = g /\ Unsent' = u
    BY <1>1, <1>2, <1>4, <1>9, <2>1 DEF Unsent
  <2>6. /\ Len(executed)' + Len(toServer)' + Unsent' <= Gone'
        /\ socket' \in {"none", "up"} => Len(executed)' + Len(toServer)' + Unsent' = Gone'
    BY <1>1, <1>6, <2>1, <2>5
  <2>7. /\ \A i \in 1 .. Len(executed)' : executed'[i] = accepted'[i]
        /\ \A i \in 1 .. Len(toServer)' : toServer'[i] = accepted'[Len(executed)' + i]
    BY <1>1, <1>3, <2>2, <2>4, <2>5
  <2>8. socket' # "none"
    BY <1>1, <1>6, <1>7
  <2> QED
    BY <2>6, <2>7, <2>8 DEF ServerInTurn
<1>12. RepliesInTurn'
  <2>1. PICK w, v, q, r : w = OnWire /\ v = OnWire' /\ q = Named(w) /\ r = Named(v)
    OBVIOUS
  <2>2. w \in Seq(Wire) /\ v \in Seq(Wire)
    BY <2>1, WireIs DEF BaseInv, TypeOK, OnWire
  <2>3. \A i \in 1 .. Len(w) : w[i].kind = "message" <=> w[i].call = NoCall
    BY <2>1 DEF Aligned, RepliesInTurn
  <2>4. PICK hi \in a .. x : InTurn(q, e, a, hi) /\ (socket \in {"none", "up"} => hi = x)
    BY <1>3, <1>4, <2>1 DEF Aligned, RepliesInTurn
  <2>5. CASE socket = "up"
    <3>1. PICK kind \in ReplyKinds(c) : toClient' = Append(toClient, Reply(kind, c))
      BY <1>7, <2>5
    <3>2. PICK z : z = Reply(kind, c)
      OBVIOUS
    <3>3. kind \in {"reply", "subscribe", "unsubscribe", "garbage"}
      BY DEF ReplyKinds
    <3>4. z \in Wire /\ z.kind # "message" /\ z.call = c /\ c # NoCall
      BY <1>8, <3>2, <3>3, CallsAssumption DEF Reply, Wire
    <3>5. With(v, w, z)
      BY <1>0, <1>1, <2>1, <3>1, <3>2, <3>4, WireSent
    <3>6. /\ Len(q) \in Nat /\ Len(r) = Len(q) + 1
          /\ \A i \in 1 .. Len(q) : r[i] = q[i]
          /\ r[Len(q) + 1] = c
      BY <2>1, <2>2, <3>4, <3>5, NamedMore
    <3>7. hi = x /\ a <= x
      BY <2>4, <2>5
    <3>8. /\ \A k, l \in 1 .. x + 1 : e[k] = e[l] => k = l
          /\ \A k \in 1 .. x + 1 : e[k] # NoCall
      <4>1. \A k \in 1 .. x + 1 : k \in 1 .. n
        BY <1>10
      <4>2. /\ \A k, l \in 1 .. n : e[k] = e[l] => k = l
            /\ \A k \in 1 .. n : e[k] # NoCall
        BY <1>3, <1>4, AcceptedFacts
      <4> QED
        BY <4>1, <4>2
    <3>9. InTurn(q, e, a, x)
      BY <2>4, <3>7
    <3>10. InTurn(r, e, a, x + 1)
      BY <1>10, <3>6, <3>7, <3>8, <3>9, InTurnNext
    <3>11. \A i \in 1 .. Len(v) : v[i].kind = "message" <=> v[i].call = NoCall
      <4>1. PICK l \in Nat : l = Len(w) /\ Len(v) = l + 1 /\ v[l + 1] = z /\ \A i \in 1 .. l : v[i] = w[i]
        BY <3>5 DEF With
      <4>2. \A i \in 1 .. l + 1 : i \in 1 .. l \/ i = l + 1
        OBVIOUS
      <4> QED
        BY <2>3, <3>4, <4>1, <4>2
    <3>12. x + 1 \in a .. x + 1
      BY <3>7
    <3>13. \E h2 \in a .. x + 1 : InTurn(r, e, a, h2) /\ (socket \in {"none", "up"} => h2 = x + 1)
      BY <3>10, <3>12
    <3>14. Len(answered)' = a /\ Len(executed)' = x + 1 /\ accepted' = e /\ socket' = socket
      BY <1>1, <1>3, <1>4, <1>9
    <3> QED
      BY <2>1, <3>11, <3>13, <3>14 DEF RepliesInTurn
  <2>6. CASE socket # "up" /\ toClient' = toClient
    <3>1. Without(v, w, 0)
      BY <1>0, <1>1, <2>1, <2>6, WireKept
    <3>2. PICK l \in Nat : l = Len(w) /\ l = Len(v) /\ \A i \in 1 .. l : v[i] = w[i]
      BY <3>1 DEF Without
    <3>3. /\ Len(q) = l /\ Len(r) = l
          /\ \A i \in 1 .. l : q[i] = w[i].call
          /\ \A i \in 1 .. l : r[i] = v[i].call
      BY <2>1, <2>2, <3>2, NamedFacts
    <3>4. InTurn(r, e, a, hi)
      <4>1. hi \in Nat /\ \A i \in 1 .. Len(q) : r[i] = q[i]
        BY <3>2, <3>3
      <4> QED
        BY <2>4, <3>3, <4>1, InTurnSame
    <3>5. socket \notin {"none", "up"} /\ hi \in a .. x + 1
      BY <1>6, <1>7, <2>6
    <3>6. \E h2 \in a .. x + 1 : InTurn(r, e, a, h2) /\ (socket \in {"none", "up"} => h2 = x + 1)
      BY <3>4, <3>5
    <3>7. \A i \in 1 .. Len(v) : v[i].kind = "message" <=> v[i].call = NoCall
      BY <2>3, <3>2
    <3>8. Len(answered)' = a /\ Len(executed)' = x + 1 /\ accepted' = e /\ socket' = socket
      BY <1>1, <1>3, <1>4, <1>9
    <3> QED
      BY <2>1, <3>6, <3>7, <3>8 DEF RepliesInTurn
  <2> QED
    BY <1>7, <2>5, <2>6
<1> QED
  BY <1>1, <1>2, <1>11, <1>12, SameWaiting, SameQueue DEF Aligned

\* The replies on the wire as one fact, and what the first of them is.
LEMMA FirstReply ==
  ASSUME BaseInv, BaseInv', Aligned, inbuf # <<>>, inbuf' = Tail(inbuf), toClient' = toClient
  PROVE  /\ \A i \in 1 .. Len(OnWire') : OnWire'[i].kind = "message" <=> OnWire'[i].call = NoCall
         /\ \E hi \in Len(answered) .. Len(executed) :
              /\ socket \in {"none", "up"} => hi = Len(executed)
              /\ Head(inbuf).kind = "message" => InTurn(Named(OnWire'), accepted, Len(answered), hi)
              /\ Head(inbuf).kind # "message" =>
                   /\ Len(answered) < hi /\ Head(inbuf).call = accepted[Len(answered) + 1]
                   /\ InTurn(Named(OnWire'), accepted, Len(answered) + 1, hi)
<1>0. TypeOK
  BY DEF BaseInv
<1>1. PICK w, v, q, r, z : w = OnWire /\ v = OnWire' /\ q = Named(w) /\ r = Named(v) /\ z = Head(inbuf)
  OBVIOUS
<1>2. w \in Seq(Wire) /\ v \in Seq(Wire)
  BY <1>1, WireIs DEF BaseInv, TypeOK, OnWire
<1>3. Without(v, w, 1) /\ w[1] = z
  BY <1>0, <1>1, WireParsed
<1>4. PICK l \in Nat : l = Len(v) /\ Len(w) = l + 1 /\ \A i \in 1 .. l : v[i] = w[i + 1]
  BY <1>3 DEF Without
<1>5. \A i \in 1 .. l + 1 : w[i].kind = "message" <=> w[i].call = NoCall
  BY <1>1, <1>4 DEF Aligned, RepliesInTurn
<1>6. \A i \in 1 .. l : v[i].kind = "message" <=> v[i].call = NoCall
  <2>1. \A i \in 1 .. l : i + 1 \in 1 .. l + 1
    OBVIOUS
  <2> QED
    BY <1>4, <1>5, <2>1
<1>7. z.kind = "message" <=> z.call = NoCall
  <2>1. 1 \in 1 .. l + 1
    OBVIOUS
  <2> QED
    BY <1>3, <1>5, <2>1
<1>8. PICK e : e = accepted
  OBVIOUS
<1>9. PICK a \in Nat, x \in Nat, n \in Nat, g \in Nat :
        a = Len(answered) /\ x = Len(executed) /\ n = Len(e) /\ g = Gone
  BY <1>8, GoneFacts DEF Lengths
<1>10. x <= g /\ g <= n
  BY <1>8, <1>9, ExecutedGone DEF Aligned, StrandInTurn
<1>11. PICK hi \in a .. x : InTurn(q, e, a, hi) /\ (socket \in {"none", "up"} => hi = x)
  BY <1>1, <1>8, <1>9 DEF Aligned, RepliesInTurn
<1>12. /\ \A k, k2 \in 1 .. hi : e[k] = e[k2] => k = k2
       /\ \A k \in 1 .. hi : e[k] # NoCall
  <2>1. \A k \in 1 .. hi : k \in 1 .. n
    BY <1>10
  <2>2. /\ \A k, k2 \in 1 .. n : e[k] = e[k2] => k = k2
        /\ \A k \in 1 .. n : e[k] # NoCall
    BY <1>8, <1>9, AcceptedFacts
  <2> QED
    BY <2>1, <2>2
<1>13. /\ Len(q) \in Nat /\ Len(q) >= 1 /\ Len(r) = Len(q) - 1
       /\ \A i \in 1 .. Len(q) - 1 : r[i] = q[i + 1]
       /\ q[1] = z.call
  BY <1>1, <1>2, <1>3, NamedLess
<1>14. /\ q[1] = NoCall => InTurn(r, e, a, hi)
       /\ q[1] # NoCall => a < hi /\ q[1] = e[a + 1] /\ InTurn(r, e, a + 1, hi)
  <2>1. hi \in Nat
    OBVIOUS
  <2> QED
    BY <1>11, <1>12, <1>13, <2>1, InTurnFirst
<1> QED
  BY <1>1, <1>4, <1>6, <1>7, <1>8, <1>9, <1>11, <1>13, <1>14

\* A message is posted to its handlers.
LEMMA MessageParsedAligned ==
  ASSUME BaseInv, BaseInv', DeliveryInv, Aligned,
         parseReply, inbuf' = Tail(inbuf), Head(inbuf).kind = "message",
         UNCHANGED <<handlers, answered>>,
         NEW hs, PostedTo(hs, Head(inbuf).msg)
  PROVE  StrandInTurn' /\ QueueInTurn' /\ ServerInTurn' /\ HandlersInTurn' /\ RepliesInTurn'
<1>0. TypeOK
  BY DEF BaseInv
<1>1. /\ inbuf # <<>>
      /\ UNCHANGED <<queue, handlers, writing, socket, toServer, toClient, accepted, executed, answered>>
  BY TurnCases DEF serverVars
<1>2. HandlersInTurn' /\ Gone' = Gone
  BY <1>1, SameHandlers DEF Aligned
<1>3. RepliesInTurn'
  <2>1. PICK r : r = Named(OnWire')
    OBVIOUS
  <2>2. r = Named(OnWire)'
    BY <2>1 DEF Named
  <2>3. /\ \A i \in 1 .. Len(OnWire') : OnWire'[i].kind = "message" <=> OnWire'[i].call = NoCall
        /\ \E hi \in Len(answered) .. Len(executed) :
             /\ socket \in {"none", "up"} => hi = Len(executed)
             /\ InTurn(r, accepted, Len(answered), hi)
    BY <1>1, <2>1, FirstReply
  <2> QED
    BY <1>1, <2>2, <2>3 DEF RepliesInTurn
<1>4. PICK m : m = Head(inbuf).msg
  OBVIOUS
<1>5. m \in Messages \cup {NoMsg} /\ m # NoMsg
  <2>1. inbuf \in Seq(Wire)
    BY <1>0 DEF TypeOK
  <2>2. Head(inbuf) \in Wire
    BY <1>1, <2>1
  <2>3. OnWire[1] = Head(inbuf) /\ Len(OnWire) \in Nat /\ Len(OnWire) >= 1
    <3>1. PICK w, v : w = OnWire /\ v = OnWire'
      OBVIOUS
    <3>2. Without(v, w, 1) /\ w[1] = Head(inbuf)
      BY <1>0, <1>1, <3>1, WireParsed
    <3> QED
      BY <3>1, <3>2 DEF Without
  <2>4. 1 \in 1 .. Len(OnWire)
    BY <2>3
  <2>5. TrueWire(Head(inbuf))
    BY <2>3, <2>4 DEF DeliveryInv, Tidy
  <2>6. PICK p \in 1 .. Len(pushed) : pushed[p] = m
    BY <1>4, <2>5 DEF TrueWire, Heard
  <2>7. m \in Messages
    BY <1>0, <2>6 DEF TypeOK
  <2> QED
    BY <2>7, CallsAssumption
<1>6. StrandInTurn'
  <2>1. PICK s, t : s = strand /\ t = strand'
    OBVIOUS
  <2>2. s \in Seq(Tasks) /\ t \in Seq(Tasks)
    BY <2>1 DEF BaseInv, TypeOK
  <2>3. PICK q, r : q = Waiting(s) /\ r = Waiting(t)
    OBVIOUS
  <2>4. PICK l \in Nat : l = Len(s)
    BY <2>2
  <2>5. PICK k \in Nat : k = Len(hs) /\ Len(t) = l + k
    BY <1>0, <1>4, <1>5, <2>1, <2>4, PostedToFacts
  <2>6. /\ \A i \in 1 .. l : t[i] = s[i]
        /\ \A i \in l + 1 .. l + k : t[i].msg = m
    <3>1. /\ \A i \in 1 .. Len(strand) : strand'[i] = strand[i]
          /\ \A i \in Len(strand) + 1 .. Len(strand) + Len(hs) :
               strand'[i] = [call |-> hs[i - Len(strand)], msg |-> m]
      BY <1>0, <1>4, <1>5, PostedToFacts
    <3>2. \A i \in 1 .. l : t[i] = s[i]
      BY <2>1, <2>4, <3>1
    <3>3. \A i \in l + 1 .. l + k : t[i] = [call |-> hs[i - l], msg |-> m]
      BY <2>1, <2>4, <2>5, <3>1
    <3>4. ASSUME NEW i \in l + 1 .. l + k
          PROVE  t[i].msg = m
      <4>1. PICK y : y = hs[i - l]
        OBVIOUS
      <4>2. t[i] = [call |-> y, msg |-> m]
        BY <3>3, <4>1
      <4> QED
        BY <4>2
    <3> QED
      BY <3>2, <3>4
  <2>7. Len(q) = l /\ \A i \in 1 .. l : q[i] = IF s[i].msg = NoMsg THEN s[i].call ELSE NoCall
    BY <2>2, <2>3, <2>4, WaitingFacts
  <2>8. Len(r) = l + k /\ \A i \in 1 .. l + k : r[i] = IF t[i].msg = NoMsg THEN t[i].call ELSE NoCall
    BY <2>2, <2>3, <2>5, WaitingFacts
  <2>9. \A i \in 1 .. l : r[i] = q[i]
    <3>1. \A i \in 1 .. l : i \in 1 .. l + k
      OBVIOUS
    <3> QED
      BY <2>6, <2>7, <2>8, <3>1
  <2>10. \A i \in l + 1 .. l + k : r[i] = NoCall
    <3>1. \A i \in l + 1 .. l + k : i \in 1 .. l + k
      OBVIOUS
    <3> QED
      BY <1>5, <2>6, <2>8, <3>1
  <2>11. PICK e : e = accepted
    OBVIOUS
  <2>12. PICK n \in Nat, g \in Nat : n = Len(e) /\ g = Gone /\ g <= n
    BY <2>11, AcceptedFacts, GoneFacts DEF Aligned, StrandInTurn
  <2>13. InTurn(q, e, g, n)
    BY <2>1, <2>3, <2>11, <2>12 DEF Aligned, StrandInTurn
  <2>14. InTurn(r, e, g, n)
    <3>1. \A j \in g + 1 .. n : e[j] # NoCall
      BY <2>11, <2>12, AcceptedFacts
    <3>2. /\ Len(q) \in Nat /\ Len(r) \in Nat /\ Len(r) >= Len(q)
          /\ \A i \in 1 .. Len(q) : r[i] = q[i]
          /\ \A i \in Len(q) + 1 .. Len(r) : r[i] = NoCall
      BY <2>7, <2>8, <2>9, <2>10
    <3> QED
      BY <2>13, <3>1, <3>2, InTurnOther
  <2>15. r = Waiting(strand)'
    BY <2>1, <2>3 DEF Waiting
  <2> QED
    BY <1>1, <1>2, <2>11, <2>12, <2>14, <2>15 DEF StrandInTurn
<1> QED
  BY <1>1, <1>2, <1>3, <1>6, SameQueue, SameServer DEF Aligned

\* A handler is called.
LEMMA ReplyParsedAligned ==
  ASSUME BaseInv, BaseInv', Aligned,
         parseReply, inbuf' = Tail(inbuf), Head(inbuf).kind # "message", CallHandler(Head(inbuf))
  PROVE  StrandInTurn' /\ QueueInTurn' /\ ServerInTurn' /\ HandlersInTurn' /\ RepliesInTurn'
<1>0. TypeOK
  BY DEF BaseInv
<1>1. /\ inbuf # <<>>
      /\ UNCHANGED <<queue, writing, socket, toServer, toClient, accepted, executed>>
  BY TurnCases DEF serverVars
<1>2. PICK z : z = Head(inbuf)
  OBVIOUS
<1>3. /\ handlers # <<>> /\ handlers' = Tail(handlers) /\ strand' = strand
      /\ answered' = Append(answered, [call |-> Head(handlers), reply |-> z.call])
  BY <1>2 DEF CallHandler
<1>4. PICK e : e = accepted
  OBVIOUS
<1>5. PICK a \in Nat, h \in Nat, x \in Nat :
        a = Len(answered) /\ h = Len(handlers) /\ x = Len(executed)
  BY GoneFacts DEF Lengths
<1>6. PICK hi \in a .. x :
        /\ socket \in {"none", "up"} => hi = x
        /\ a < hi /\ z.call = e[a + 1]
        /\ InTurn(Named(OnWire'), e, a + 1, hi)
  BY <1>1, <1>2, <1>4, <1>5, FirstReply
<1>7. /\ h >= 1 /\ Head(handlers) = handlers[1] /\ Head(handlers) \in Calls
      /\ Len(handlers') = h - 1
      /\ \A i \in 1 .. h - 1 : handlers'[i] = handlers[i + 1]
  BY <1>0, <1>3, <1>5, TailFacts DEF TypeOK
<1>8. PICK h1 \in Nat : h = h1 + 1 /\ Len(handlers') = h1 /\ \A i \in 1 .. h1 : handlers'[i] = handlers[i + 1]
  BY <1>7
<1>9. /\ \A i \in 1 .. a : answered[i] = [call |-> e[i], reply |-> e[i]]
      /\ \A i \in 1 .. h : handlers[i] = e[a + i]
  BY <1>4, <1>5 DEF Aligned, HandlersInTurn
<1>10. Head(handlers) = e[a + 1]
  <2>1. 1 \in 1 .. h
    BY <1>7
  <2> QED
    BY <1>7, <1>9, <2>1
<1>11. PICK y : y = [call |-> e[a + 1], reply |-> e[a + 1]]
  OBVIOUS
<1>12. /\ Len(answered') = a + 1 /\ answered'[a + 1] = y
       /\ \A i \in 1 .. a : answered'[i] = answered[i]
  <2>1. answered' = Append(answered, y)
    BY <1>3, <1>6, <1>10, <1>11
  <2>2. y \in [call : Calls, reply : Calls \cup {NoCall}]
    BY <1>7, <1>10, <1>11
  <2>3. answered \in Seq([call : Calls, reply : Calls \cup {NoCall}])
    BY <1>0 DEF TypeOK
  <2> QED
    BY <1>5, <2>1, <2>2, <2>3, AppendFacts
<1>13. Gone' = Gone
  BY <1>5, <1>8, <1>12 DEF Gone
<1>14. HandlersInTurn'
  <2>1. \A i \in 1 .. a + 1 : i \in 1 .. a \/ i = a + 1
    OBVIOUS
  <2>2. \A i \in 1 .. a + 1 : answered'[i] = [call |-> e[i], reply |-> e[i]]
    BY <1>9, <1>11, <1>12, <2>1
  <2>3. \A i \in 1 .. h1 : handlers'[i] = e[a + 1 + i]
    <3>1. TAKE i \in 1 .. h1
    <3>2. PICK j : j = i + 1
      OBVIOUS
    <3>3. j \in 1 .. h /\ a + j = a + 1 + i
      BY <1>8, <3>2
    <3>4. handlers'[i] = handlers[j]
      BY <1>8, <3>2
    <3> QED
      BY <1>9, <3>3, <3>4
  <2> QED
    BY <1>1, <1>4, <1>8, <1>12, <2>2, <2>3 DEF HandlersInTurn
<1>15. RepliesInTurn'
  <2>1. PICK r : r = Named(OnWire')
    OBVIOUS
  <2>2. r = Named(OnWire)'
    BY <2>1 DEF Named
  <2>3. \A i \in 1 .. Len(OnWire') : OnWire'[i].kind = "message" <=> OnWire'[i].call = NoCall
    BY <1>1, FirstReply
  <2>4. hi \in a + 1 .. x
    BY <1>6
  <2>5. \E h2 \in a + 1 .. x : InTurn(r, e, a + 1, h2) /\ (socket \in {"none", "up"} => h2 = x)
    BY <1>6, <2>1, <2>4
  <2>6. Len(answered)' = a + 1 /\ Len(executed)' = x /\ accepted' = e /\ socket' = socket
    BY <1>1, <1>4, <1>5, <1>12
  <2> QED
    BY <2>2, <2>3, <2>5, <2>6 DEF RepliesInTurn
<1>16. StrandInTurn'
  <2>1. PICK q : q = Waiting(strand)
    OBVIOUS
  <2>2. Waiting(strand)' = q
    BY <1>3, <2>1 DEF Waiting
  <2> QED
    BY <1>1, <1>13, <2>1, <2>2 DEF Aligned, StrandInTurn
<1> QED
  BY <1>1, <1>13, <1>14, <1>15, <1>16, SameQueue, SameServer DEF Aligned

\* What a step does to the state, as long as the client is not destroyed, and
\* which subscription calls it completes.
LEMMA StateCases ==
  ASSUME TypeOK, Next, ~close
  PROVE  /\ \/ state' = state /\ (connecting' => connecting \/ state = "NotConnected")
            \/ state \in {"Connected", "Subscribed"} /\ state' = "Subscribed" /\ connecting' = connecting
            \/ connecting /\ ~connecting'
         /\ \A d \in SubscriptionCalls : call'[d] = "done" /\ call[d] # "done" =>
              \/ state' = "Subscribed"
              \/ state' = state /\ \E s \in Subscribes : call[s] = "done"
<1> DEFINE Stays == state' = state /\ (connecting' => connecting \/ state = "NotConnected")
           Subscribing == state \in {"Connected", "Subscribed"} /\ state' = "Subscribed" /\ connecting' = connecting
           Connecting == connecting /\ ~connecting'
           NoneDone == \A d \in SubscriptionCalls : call'[d] = "done" => call[d] = "done"
<1>0. \A c : c \in Commands \/ c \in Subscribes \/ c \in SingleShots \/ c \in Unsubscribes => c \in Calls
  BY DEF Calls
<1>1. ASSUME NEW c \in Calls, \E v \in {"checked", "refused"} : call' = [call EXCEPT ![c] = v]
      PROVE  NoneDone
  BY <1>1 DEF TypeOK, SubscriptionCalls, Calls
<1>2. ASSUME NEW c \in Calls, Refuse(c)
      PROVE  Stays /\ NoneDone
  <2>1. UNCHANGED <<state, connecting>> /\ \E v \in {"checked", "refused"} : call' = [call EXCEPT ![c] = v]
    BY <1>2 DEF Refuse, clientVars, ioVars
  <2> QED
    BY <1>1, <2>1
<1>3. ASSUME NEW c \in Commands, stateValid(c) \/ command(c)
      PROVE  Stays /\ NoneDone
  <2>1. CASE Refuse(c)
    BY <1>0, <1>2, <2>1
  <2>2. CASE stateValid(c) /\ ~Refuse(c)
    <3>1. UNCHANGED <<state, connecting>> /\ \E v \in {"checked", "refused"} : call' = [call EXCEPT ![c] = v]
      BY <2>2 DEF stateValid, clientVars, ioVars
    <3> QED
      BY <1>0, <1>1, <3>1
  <2>3. CASE command(c)
    <3>1. UNCHANGED <<state, connecting>> /\ Post(c)
      BY <2>3 DEF command, clientVars
    <3>2. \A d \in SubscriptionCalls : d # c /\ d \in Calls
      BY Kinds DEF SubscriptionCalls, Calls
    <3>3. NoneDone
      BY <1>0, <3>1, <3>2 DEF Post, TypeOK
    <3> QED
      BY <3>1, <3>3
  <2> QED
    BY <1>3, <2>1, <2>2, <2>3
<1>4. ASSUME NEW c, subscribe(c) \/ singleShotSubscribe(c), ~Refuse(c)
      PROVE  Subscribing
  BY <1>4 DEF subscribe, singleShotSubscribe, MaySubscribe
<1>5. ASSUME NEW c \in Unsubscribes, unsubscribe(c), ~Refuse(c)
      PROVE  /\ UNCHANGED <<state, connecting>>
             /\ \E s \in Subscribes : call[s] = "done"
  <2>1. HandleOf[c] \in Subscribes
    BY ChannelAssumption
  <2> QED
    BY <1>5, <2>1 DEF unsubscribe
<1>6. UNCHANGED <<state, connecting>> => Stays
  OBVIOUS
<1>7. CASE UNCHANGED call /\ (Stays \/ Connecting)
  BY <1>7
<1>8. \/ UNCHANGED call /\ (Stays \/ Connecting)
      \/ \E c \in Commands : stateValid(c) \/ command(c)
      \/ \E c \in Subscribes : subscribe(c)
      \/ \E c \in SingleShots : singleShotSubscribe(c)
      \/ \E c \in Unsubscribes : unsubscribe(c)
  <2>1. parseReply => UNCHANGED <<state, connecting, call>>
    BY TurnCases
  <2>2. connect => Stays /\ UNCHANGED call
    BY DEF connect, clientVars, history
  <2>3. handleAsyncConnect => UNCHANGED call /\ Connecting
    BY Zenon DEF handleAsyncConnect, history
  <2>4. installErrorHandler \/ doAsyncCommand \/ runMsgHandler \/ asyncWrite \/ asyncRead
        \/ Establish \/ Transmit \/ Serve \/ Break \/ (\E m \in Messages : Publish(m)) =>
          UNCHANGED <<state, connecting, call>>
    BY Zenon DEF installErrorHandler, doAsyncCommand, runMsgHandler, asyncWrite, asyncRead,
                 Establish, Transmit, Serve, Break, Publish, clientVars, ioVars, history
  <2> HIDE DEF Stays, Connecting
  <2> QED
    BY <1>6, <2>1, <2>2, <2>3, <2>4, NextIs, Zenon
<1> HIDE DEF Stays
<1>9. Stays => state' = state
  BY DEF Stays
<1>10. ASSUME NEW c \in Subscribes \cup SingleShots, subscribe(c) \/ singleShotSubscribe(c)
       PROVE  (Stays /\ NoneDone) \/ Subscribing
  <2>1. c \in Calls
    BY <1>0
  <2> QED
    BY <1>2, <1>4, <1>10, <2>1, Zenon
<1>11. ASSUME NEW c \in Unsubscribes, unsubscribe(c)
       PROVE  Stays /\ (NoneDone \/ \E s \in Subscribes : call[s] = "done")
  <2>1. c \in Calls
    BY <1>0
  <2> QED
    BY <1>2, <1>5, <1>6, <1>11, <2>1, Zenon
<1>12. \/ UNCHANGED call /\ (Stays \/ Connecting)
       \/ Stays /\ NoneDone
       \/ Subscribing
       \/ Stays /\ \E s \in Subscribes : call[s] = "done"
  BY <1>3, <1>8, <1>10, <1>11
<1> QED
  BY <1>9, <1>12 DEF Stays

\* The client is subscribed before there is anything that says so.
LEMMA SubscribedKept ==
  ASSUME BaseInv, BaseInv', Aligned, Next, ~close
  PROVE  SubscribedFirst'
<1>0. TypeOK /\ TypeOK'
  BY DEF BaseInv
<1>1. /\ \A c \in SubscriptionCalls : call[c] = "done" => state = "Subscribed"
      /\ subs # {} => state = "Subscribed"
      /\ \A i \in 1 .. Len(OnWire) : OnWire[i].kind = "message" => state = "Subscribed"
      /\ connecting => state = "NotConnected"
  BY DEF Aligned, SubscribedFirst
<1>2. /\ \/ state' = state /\ (connecting' => connecting \/ state = "NotConnected")
         \/ state \in {"Connected", "Subscribed"} /\ state' = "Subscribed" /\ connecting' = connecting
         \/ connecting /\ ~connecting'
      /\ \A d \in SubscriptionCalls : call'[d] = "done" /\ call[d] # "done" =>
           \/ state' = "Subscribed"
           \/ state' = state /\ \E s \in Subscribes : call[s] = "done"
  BY <1>0, StateCases
<1>3. connecting' => state' = "NotConnected"
  <2>1. CASE state' = state /\ (connecting' => connecting \/ state = "NotConnected")
    BY <1>1, <2>1
  <2>2. CASE state \in {"Connected", "Subscribed"} /\ state' = "Subscribed" /\ connecting' = connecting
    BY <1>1, <2>2
  <2> QED
    BY <1>2, <2>1, <2>2
<1>4. state = "Subscribed" => state' = "Subscribed"
  BY <1>1, <1>2
<1>5. \A c \in SubscriptionCalls : call'[c] = "done" => state' = "Subscribed"
  <2>1. (\E s \in Subscribes : call[s] = "done") => state = "Subscribed"
    BY <1>1 DEF SubscriptionCalls
  <2> QED
    BY <1>1, <1>2, <1>4, <2>1
<1>6. subs' # {} => state' = "Subscribed"
  <2>1. CASE subs' = subs
    BY <1>1, <1>4, <2>1
  <2>2. CASE Serve
    <3>1. PICK c : c = Head(toServer)
      OBVIOUS
    <3>2. /\ toServer # <<>>
          /\ subs' = IF c \in Subscribes \cup SingleShots THEN subs \cup {ChannelOf[c]}
                     ELSE IF c \in Unsubscribes THEN subs \ {ChannelOf[HandleOf[c]]}
                     ELSE subs
      BY <2>2, <3>1 DEF Serve
    <3>3. subs' # {} => subs # {} \/ c \in Subscribes \cup SingleShots
      BY <3>2
    <3>4. call[c] = "done"
      <4>1. PICK x \in Nat, s \in Nat, g \in Nat, n \in Nat :
              x = Len(executed) /\ s = Len(toServer) /\ g = Gone /\ n = Len(accepted)
        BY GoneFacts DEF Lengths
      <4>2. x + s <= g /\ g <= n
        BY <4>1, ExecutedGone DEF Aligned, StrandInTurn
      <4>3. \A i \in 1 .. s : toServer[i] = accepted[x + i]
        BY <4>1 DEF Aligned, ServerInTurn
      <4>4. s >= 1 /\ c = toServer[1]
        BY <1>0, <3>1, <3>2, <4>1, TailFacts DEF TypeOK
      <4>5. c = accepted[x + 1] /\ x + 1 \in 1 .. n
        BY <4>2, <4>3, <4>4
      <4>6. \A i \in 1 .. n : call[accepted[i]] = "done"
        BY <4>1 DEF BaseInv, AcceptedAreDone
      <4> QED
        BY <4>5, <4>6
    <3> QED
      BY <1>1, <1>4, <3>3, <3>4 DEF SubscriptionCalls
  <2>3. subs' = subs \/ Serve
    <3>1. ASSUME NEW c,
                 stateValid(c) \/ command(c) \/ subscribe(c) \/ singleShotSubscribe(c) \/ unsubscribe(c)
          PROVE  subs' = subs
      BY <3>1, CallsPost DEF serverVars
    <3>2. parseReply => subs' = subs
      BY TurnCases DEF serverVars
    <3> QED
      BY <3>1, <3>2, NextIs, Zenon
         DEF installErrorHandler, connect, handleAsyncConnect, doAsyncCommand, runMsgHandler,
             asyncWrite, asyncRead, Establish, Transmit, Break, Publish, serverVars
  <2> QED
    BY <2>1, <2>2, <2>3
<1>7. \A i \in 1 .. Len(OnWire') : OnWire'[i].kind = "message" => state' = "Subscribed"
  <2>1. PICK w, v : w = OnWire /\ v = OnWire'
    OBVIOUS
  <2>2. \A i \in 1 .. Len(w) : w[i].kind = "message" => state' = "Subscribed"
    BY <1>1, <1>4, <2>1
  <2>3. ASSUME NEW k \in Nat, Without(v, w, k)
        PROVE  \A i \in 1 .. Len(v) : v[i].kind = "message" => state' = "Subscribed"
    <3>1. PICK l \in Nat : l = Len(v) /\ Len(w) = l + k /\ \A i \in 1 .. l : v[i] = w[i + k]
      BY <2>3 DEF Without
    <3>2. \A i \in 1 .. l : i + k \in 1 .. l + k
      OBVIOUS
    <3> QED
      BY <2>2, <3>1, <3>2
  <2>4. ASSUME NEW z, With(v, w, z), z.kind = "message" => state' = "Subscribed"
        PROVE  \A i \in 1 .. Len(v) : v[i].kind = "message" => state' = "Subscribed"
    <3>1. PICK l \in Nat : l = Len(w) /\ Len(v) = l + 1 /\ v[l + 1] = z /\ \A i \in 1 .. l : v[i] = w[i]
      BY <2>4 DEF With
    <3>2. \A i \in 1 .. l + 1 : i \in 1 .. l \/ i = l + 1
      OBVIOUS
    <3> QED
      BY <2>2, <2>4, <3>1, <3>2
  <2>5. ASSUME NEW m \in Messages, Publish(m)
        PROVE  \A i \in 1 .. Len(v) : v[i].kind = "message" => state' = "Subscribed"
    <3>1. CASE subs = {}
      <4>1. toClient' = toClient /\ inbuf' = inbuf
        BY <2>5, <3>1 DEF Publish, ioVars
      <4>2. Without(v, w, 0)
        BY <1>0, <2>1, <4>1, WireKept
      <4> QED
        BY <2>3, <4>2
    <3>2. CASE subs # {}
      BY <1>1, <1>4, <3>2
    <3> QED
      BY <3>1, <3>2
  <2>6. \/ \E k \in Nat : Without(v, w, k)
        \/ \E z \in Wire : z.kind # "message" /\ With(v, w, z)
        \/ \E m \in Messages : Publish(m)
    BY <1>0, <2>1, WireCases
  <2> QED
    BY <2>1, <2>3, <2>4, <2>5, <2>6
<1>8. PICK v : v = OnWire'
  OBVIOUS
<1> QED
  BY <1>3, <1>5, <1>6, <1>7 DEF SubscribedFirst

\* Nothing but the connection changes.
LEMMA QuietAligned ==
  ASSUME BaseInv, BaseInv', Aligned,
         UNCHANGED <<strand, queue, handlers, writing, inbuf, toServer, toClient,
                     accepted, executed, answered>>,
         socket' \in {"none", "up"} => socket \in {"none", "up"},
         socket' = "none" => socket = "none"
  PROVE  StrandInTurn' /\ QueueInTurn' /\ ServerInTurn' /\ HandlersInTurn' /\ RepliesInTurn'
<1>1. HandlersInTurn' /\ Gone' = Gone
  BY SameHandlers DEF Aligned
<1>2. Unsent' = Unsent
  BY DEF Unsent
<1>3. ServerInTurn'
  BY <1>1, <1>2 DEF Aligned, ServerInTurn
<1>4. RepliesInTurn'
  <2>1. PICK w, q : w = OnWire /\ q = Named(w)
    OBVIOUS
  <2>2. OnWire' = w /\ Named(OnWire)' = q
    BY <2>1 DEF OnWire, Named
  <2>3. PICK a, x : a = Len(answered) /\ x = Len(executed)
    OBVIOUS
  <2>4. PICK hi \in a .. x : InTurn(q, accepted, a, hi) /\ (socket \in {"none", "up"} => hi = x)
    BY <2>1, <2>3 DEF Aligned, RepliesInTurn
  <2>5. \A i \in 1 .. Len(w) : w[i].kind = "message" <=> w[i].call = NoCall
    BY <2>1 DEF Aligned, RepliesInTurn
  <2> QED
    BY <2>2, <2>3, <2>4, <2>5 DEF RepliesInTurn
<1> QED
  BY <1>1, <1>3, <1>4, SameWaiting, SameQueue DEF Aligned

\* One lemma per step above; together they are every step that discloses no
\* error.
LEMMA AlignedKept ==
  ASSUME BaseInv, BaseInv', DeliveryInv, Aligned, Next, ~Disclosed'
  PROVE  Aligned'
<1>0. TypeOK /\ IgnoredAfterClose
  BY DEF BaseInv
<1>1. ~close
  BY Zenon DEF close, Disclosed
<1>2. SubscribedFirst'
  BY <1>1, SubscribedKept
<1> DEFINE InTurnAll == StrandInTurn /\ QueueInTurn /\ ServerInTurn /\ HandlersInTurn /\ RepliesInTurn
<1> HIDE DEF InTurnAll
<1>3. ASSUME UNCHANGED <<strand, queue, handlers, writing, inbuf, toServer, toClient, subs,
                         accepted, executed, answered>>,
             \/ UNCHANGED <<socket, state, connecting>>
             \/ connect \/ Establish \/ handleAsyncConnect \/ Break
      PROVE  InTurnAll'
  <2>1. /\ socket' \in {"none", "up"} => socket \in {"none", "up"}
        /\ socket' = "none" => socket = "none"
    <3>1. CASE UNCHANGED <<socket, state, connecting>>
      BY <3>1
    <3>2. connect => socket' = socket
      BY DEF connect, serverVars
    <3>3. Establish => socket = "none" /\ socket' = "up"
      BY DEF Establish
    <3>4. handleAsyncConnect => socket' = socket
      BY DEF handleAsyncConnect, serverVars
    <3>5. Break => socket = "up" /\ socket' = "broken"
      BY DEF Break
    <3> QED
      BY <1>3, <3>1, <3>2, <3>3, <3>4, <3>5
  <2> QED
    BY <1>3, <2>1, QuietAligned DEF InTurnAll
<1>4. ASSUME NEW c \in Calls, Posting(c)
      PROVE  InTurnAll'
  BY <1>4, PostingAligned DEF InTurnAll
<1>5. doAsyncCommand => InTurnAll'
  BY CommandAligned DEF InTurnAll
<1>6. runMsgHandler => InTurnAll'
  BY MessageRunAligned DEF InTurnAll
<1>7. Transmit => InTurnAll'
  BY TransmitAligned DEF InTurnAll
<1>8. asyncWrite /\ writing = "sent" => InTurnAll'
  BY WrittenAligned DEF InTurnAll
<1>9. asyncRead => InTurnAll'
  BY ReadAligned DEF InTurnAll
<1>10. Serve => InTurnAll'
  BY ServeAligned DEF InTurnAll
<1>11. ASSUME NEW m \in Messages, Publish(m)
       PROVE  InTurnAll'
  BY <1>11, PublishAligned DEF InTurnAll
<1>12. ASSUME parseReply, inbuf' = Tail(inbuf), Head(inbuf).kind = "message",
              UNCHANGED <<handlers, answered>>, \E hs : PostedTo(hs, Head(inbuf).msg)
       PROVE  InTurnAll'
  BY <1>12, MessageParsedAligned DEF InTurnAll
<1>13. ASSUME parseReply, inbuf' = Tail(inbuf), CallHandler(Head(inbuf)),
              state = "Subscribed" => Head(inbuf).kind # "message"
       PROVE  InTurnAll'
  <2>1. inbuf # <<>> /\ toClient' = toClient
    BY <1>13, TurnCases DEF serverVars
  <2>2. PICK w, v : w = OnWire /\ v = OnWire'
    OBVIOUS
  <2>3. Without(v, w, 1) /\ w[1] = Head(inbuf)
    BY <1>0, <1>13, <2>1, <2>2, WireParsed
  <2>4. 1 \in 1 .. Len(w)
    BY <2>3 DEF Without
  <2>5. Head(inbuf).kind = "message" => state = "Subscribed"
    BY <2>2, <2>3, <2>4 DEF Aligned, SubscribedFirst
  <2> QED
    BY <1>13, <2>5, ReplyParsedAligned DEF InTurnAll
<1>14. InTurnAll'
  BY <1>0, <1>3, <1>4, <1>5, <1>6, <1>7, <1>8, <1>9, <1>10, <1>11, <1>12, <1>13, TalkCases, Zenon
<1> QED
  BY <1>2, <1>14 DEF Aligned, InTurnAll

\* As long as no error is disclosed, replies and calls are aligned.
TalkInv == Disclosed \/ Aligned

LEMMA TalkInvInit == Init => TalkInv
<1> SUFFICES ASSUME Init PROVE Aligned
  BY DEF TalkInv
<1>1. PICK q : q = <<>>
  OBVIOUS
<1>2. /\ queue = q /\ accepted = q /\ strand = q /\ handlers = q /\ answered = q /\ executed = q
      /\ toServer = q /\ inbuf = q /\ toClient = q
  BY <1>1 DEF Init
<1>3. /\ writing = "none" /\ socket = "none" /\ state = "NotConnected" /\ subs = {}
      /\ call = [c \in Calls |-> "idle"]
  BY DEF Init
<1>4. Len(q) = 0 /\ q \o q = q /\ 1 .. 0 = {}
  BY <1>1
<1>5. OnWire = q
  BY <1>2, <1>4 DEF OnWire
<1>6. Gone = 0 /\ Unsent = 0
  BY <1>2, <1>3, <1>4 DEF Gone, Unsent
<1>7. Len(Waiting(q)) = 0 /\ Len(Named(q)) = 0
  <2>1. q \in Seq(Tasks) /\ q \in Seq(Wire)
    BY <1>1
  <2> QED
    BY <1>4, <2>1, WaitingFacts, NamedFacts
<1>8. InTurn(Waiting(q), accepted, 0, 0) /\ InTurn(Named(q), accepted, 0, 0)
  BY <1>7, NothingInTurn
<1>9. StrandInTurn
  BY <1>2, <1>4, <1>6, <1>8 DEF StrandInTurn
<1>10. QueueInTurn
  BY <1>2, <1>4, <1>6 DEF QueueInTurn
<1>11. ServerInTurn
  <2>1. toServer = <<>>
    BY <1>1, <1>2
  <2> QED
    BY <1>2, <1>4, <1>6, <2>1 DEF ServerInTurn
<1>12. HandlersInTurn
  BY <1>2, <1>4 DEF HandlersInTurn
<1>13. RepliesInTurn
  <2>1. 0 \in 0 .. 0
    OBVIOUS
  <2> QED
    BY <1>2, <1>4, <1>5, <1>8, <2>1 DEF RepliesInTurn
<1>14. SubscribedFirst
  <2>1. \A c \in SubscriptionCalls : call[c] # "done"
    BY <1>3 DEF SubscriptionCalls, Calls
  <2> QED
    BY <1>3, <1>4, <1>5, <2>1 DEF SubscribedFirst
<1> QED
  BY <1>9, <1>10, <1>11, <1>12, <1>13, <1>14 DEF Aligned

LEMMA TalkInvStep ==
  ASSUME SubscriberInv, SubscriberInv', TalkInv, [Next]_vars
  PROVE  TalkInv'
<1>1. BaseInv /\ BaseInv' /\ DeliveryInv
  BY DEF SubscriberInv
<1>2. CASE Next
  <2>1. Disclosed => Disclosed'
    BY <1>2, DisclosedStays DEF Next
  <2>2. Aligned /\ ~Disclosed' => Aligned'
    BY <1>1, <1>2, AlignedKept
  <2> QED
    BY <2>1, <2>2 DEF TalkInv
<1>3. CASE UNCHANGED vars
  <2> USE <1>3 DEF vars, clientVars, ioVars, serverVars, history
  <2>1. Disclosed => Disclosed'
    BY Zenon DEF Disclosed
  <2>2. ASSUME Aligned
        PROVE  Aligned'
    <3>1. StrandInTurn' /\ QueueInTurn' /\ ServerInTurn' /\ HandlersInTurn' /\ RepliesInTurn'
      BY <1>1, <2>2, QuietAligned
    <3>2. SubscribedFirst'
      BY <2>2 DEF Aligned, SubscribedFirst, OnWire
    <3> QED
      BY <3>1, <3>2 DEF Aligned
  <2> QED
    BY <2>1, <2>2 DEF TalkInv
<1> QED
  BY <1>2, <1>3

\* Every handler is called with the reply to its own call, in posting order,
\* as long as no error is disclosed: messages that arrive between the replies
\* and are posted between the calls displace none of them.
THEOREM RepliesMatch == Spec => []ReplyMatchesCall
<1>1. TalkInv => ReplyMatchesCall
  BY DEF TalkInv, Aligned, HandlersInTurn, ReplyMatchesCall
<1>2. SubscriberInv /\ TalkInv /\ [Next]_vars => (SubscriberInv /\ TalkInv)'
  BY SubscriberInvStep, TalkInvStep
<1>3. QED
  BY <1>1, <1>2, SubscriberInvInit, TalkInvInit, PTL DEF Spec

-----------------------------------------------------------------------------
(* A client used for commands only.                                        *)

\* The client is used the way the push server uses it: for commands only.
NoSubscriptions == SubscriptionCalls = {}

LEMMA OnlyCommands ==
  ASSUME NoSubscriptions
  PROVE  /\ Calls = Commands
         /\ Subscribes = {} /\ SingleShots = {} /\ Unsubscribes = {}
BY DEF NoSubscriptions, SubscriptionCalls, Calls

LEMMA NextCases ==
  ASSUME NoSubscriptions, [Next]_vars
  PROVE  \/ alive /\ installErrorHandler
         \/ alive /\ connect
         \/ alive /\ close
         \/ alive /\ \E c \in Commands : stateValid(c)
         \/ alive /\ \E c \in Commands : command(c)
         \/ alive /\ handleAsyncConnect
         \/ alive /\ doAsyncCommand
         \/ alive /\ runMsgHandler
         \/ alive /\ asyncWrite
         \/ alive /\ asyncRead
         \/ alive /\ parseReply
         \/ alive /\ Establish
         \/ alive /\ Transmit
         \/ alive /\ Serve
         \/ alive /\ Break
         \/ alive /\ \E m \in Messages : Publish(m)
         \/ UNCHANGED vars
BY OnlyCommands, Zenon DEF Next, Call, IoThread

\* With no subscriptions the strand holds no message handler to run.
LEMMA NoMessageTask ==
  ASSUME TypeOK, SubmissionInOrder, runMsgHandler
  PROVE  FALSE
<1>1. Len(strand) >= 1 /\ Head(strand) = strand[1]
  BY DEF TypeOK, runMsgHandler
<1>2. 1 \in 1..Len(strand)
  <2>1. Len(strand) \in Nat
    BY DEF TypeOK
  <2>2. QED
    BY ONLY <1>1, <2>1
<1>3. strand[1] = CommandTask(accepted[Len(accepted) - Len(strand) + 1])
  <2>1. \A i \in 1..Len(strand) :
          strand[i] = CommandTask(accepted[Len(accepted) - Len(strand) + i])
    BY DEF SubmissionInOrder
  <2>2. QED
    BY ONLY <1>2, <2>1
<1>4. QED
  BY <1>1, <1>3 DEF runMsgHandler, CommandTask

\* What a parsed reply does: a handler is called or the error handler is.
LEMMA ParseCases ==
  ASSUME TypeOK, CommandsOnly, parseReply
  PROVE  /\ inbuf # <<>>
         /\ UNCHANGED <<strand, queue, writing, connecting, owner, state, errorHandler,
                        msgHandlers, serverVars, call, accepted, executed>>
         /\ reading' => inbuf' = <<>> \/ reading
         /\ \/ /\ handlers # <<>>
               /\ inbuf' = Tail(inbuf)
               /\ answered' = Append(answered, [call |-> Head(handlers), reply |-> Head(inbuf).call])
               /\ handlers' = Tail(handlers)
               /\ UNCHANGED <<alive, reported>>
            \/ /\ handlers = <<>>
               /\ inbuf' = Tail(inbuf)
               /\ CallErrorHandler
               /\ UNCHANGED <<handlers, answered>>
            \/ /\ Head(inbuf).kind = "garbage"
               /\ inbuf' = <<>>
               /\ reading' = reading
               /\ CallErrorHandler
               /\ UNCHANGED <<handlers, answered>>
<1>1. state # "Subscribed"
  BY DEF CommandsOnly
<1>2. CASE Head(inbuf).kind # "garbage"
  <2>1. doProcessMessage(Head(inbuf)) /\ inbuf' = Tail(inbuf) /\ inbuf # <<>>
    BY <1>2 DEF parseReply
  <2>2. \/ CallHandler(Head(inbuf))
        \/ /\ handlers = <<>>
           /\ CallErrorHandler
           /\ UNCHANGED <<strand, handlers, singleShotMsgHandlers, answered, delivered>>
    BY <1>1, <2>1, Zenon DEF doProcessMessage
  <2>3. reading' => inbuf' = <<>>
    BY <1>2, Zenon DEF parseReply, NextRead
  <2>4. QED
    BY <2>1, <2>2, <2>3, Zenon DEF parseReply, CallHandler
<1>3. CASE Head(inbuf).kind = "garbage"
  BY <1>3, Zenon DEF parseReply
<1>4. QED
  BY <1>2, <1>3, Zenon

LEMMA CommandEffect ==
  ASSUME NoSubscriptions, TypeOK, NEW c \in Commands, command(c)
  PROVE  /\ Len(accepted') = Len(accepted) + 1
         /\ \A i \in 1..Len(accepted) : accepted'[i] = accepted[i]
         /\ accepted'[Len(accepted) + 1] = c
         /\ Len(strand') = Len(strand) + 1
         /\ \A i \in 1..Len(strand) : strand'[i] = strand[i]
         /\ strand'[Len(strand) + 1] = CommandTask(c)
         /\ UNCHANGED <<queue, handlers, writing, reading, inbuf, connecting, state,
                        socket, toServer, toClient, executed, answered>>
<1>1. c \in Calls /\ CommandTask(c) \in Tasks
  BY OnlyCommands DEF CommandTask, Tasks
<1>2. accepted \in Seq(Calls) /\ strand \in Seq(Tasks)
  BY DEF TypeOK
<1>3. accepted' = Append(accepted, c) /\ strand' = Append(strand, CommandTask(c))
  BY DEF command, Post
<1>4. UNCHANGED <<queue, handlers, writing, reading, inbuf, connecting, state,
                  socket, toServer, toClient, executed, answered>>
  BY DEF command, clientVars, serverVars
<1>5. QED
  BY <1>1, <1>2, <1>3, <1>4, AppendFacts

LEMMA ServeEffect ==
  ASSUME NoSubscriptions, TypeOK, Serve
  PROVE  /\ Len(toServer) >= 1
         /\ Len(toServer') = Len(toServer) - 1
         /\ \A i \in 1..Len(toServer) - 1 : toServer'[i] = toServer[i + 1]
         /\ Len(executed') = Len(executed) + 1
         /\ \A i \in 1..Len(executed) : executed'[i] = executed[i]
         /\ executed'[Len(executed) + 1] = toServer[1]
         /\ \/ /\ socket = "up"
               /\ Len(toClient') = Len(toClient) + 1
               /\ \A i \in 1..Len(toClient) : toClient'[i] = toClient[i]
               /\ toClient'[Len(toClient) + 1].call = toServer[1]
               /\ toClient'[Len(toClient) + 1].kind \in {"reply", "garbage"}
            \/ /\ socket # "up"
               /\ toClient' = toClient
         /\ UNCHANGED <<strand, queue, handlers, writing, reading, inbuf, connecting, state,
                        socket, subs, accepted, answered, call>>
<1>1. toServer \in Seq(Calls) /\ toServer # <<>> /\ executed \in Seq(Calls)
        /\ toClient \in Seq(Wire)
  BY DEF TypeOK, Serve
<1>2. Head(toServer) = toServer[1] /\ toServer[1] \in Commands
  BY <1>1, OnlyCommands
<1>3. toServer' = Tail(toServer) /\ executed' = Append(executed, toServer[1])
  BY <1>2 DEF Serve
<1>4. subs' = subs
  BY <1>2, OnlyCommands DEF Serve
<1>5. \/ /\ socket = "up"
         /\ \E kind \in ReplyKinds(toServer[1]) :
              toClient' = Append(toClient, Reply(kind, toServer[1]))
      \/ socket # "up" /\ toClient' = toClient
  BY <1>2 DEF Serve
<1>6. ASSUME NEW kind \in ReplyKinds(toServer[1]),
             toClient' = Append(toClient, Reply(kind, toServer[1]))
      PROVE  /\ Len(toClient') = Len(toClient) + 1
             /\ \A i \in 1..Len(toClient) : toClient'[i] = toClient[i]
             /\ toClient'[Len(toClient) + 1].call = toServer[1]
             /\ toClient'[Len(toClient) + 1].kind \in {"reply", "garbage"}
  <2>1. kind \in {"reply", "garbage"}
    BY <1>2, <1>6, OnlyCommands DEF ReplyKinds
  <2>2. Reply(kind, toServer[1]) \in Wire
    BY <1>2, <2>1, OnlyCommands DEF Reply, Wire
  <2>3. /\ Reply(kind, toServer[1]).call = toServer[1]
        /\ Reply(kind, toServer[1]).kind \in {"reply", "garbage"}
    BY <2>1 DEF Reply
  <2>4. QED
    BY <1>1, <1>6, <2>2, <2>3, AppendFacts
<1>7. UNCHANGED <<strand, queue, handlers, writing, reading, inbuf, connecting, state,
                  socket, accepted, answered, call>>
  BY DEF Serve, clientVars, ioVars
<1>8. toServer[1] \in Calls
  BY <1>2, OnlyCommands
<1>9. QED
  BY <1>1, <1>3, <1>4, <1>5, <1>6, <1>7, <1>8, AppendFacts, TailFacts

LEMMA ParseReplyEffect ==
  ASSUME TypeOK, CommandsOnly, parseReply
  PROVE  /\ UNCHANGED <<strand, queue, writing, connecting, state,
                        socket, toServer, toClient, subs, accepted, executed, call>>
         /\ Len(inbuf) >= 1
         /\ reading' => inbuf' = <<>> \/ reading
         /\ \/ /\ Len(handlers) >= 1
               /\ Len(inbuf') = Len(inbuf) - 1
               /\ \A i \in 1..Len(inbuf) - 1 : inbuf'[i] = inbuf[i + 1]
               /\ Len(answered') = Len(answered) + 1
               /\ \A i \in 1..Len(answered) : answered'[i] = answered[i]
               /\ answered'[Len(answered) + 1] = [call |-> handlers[1], reply |-> inbuf[1].call]
               /\ Len(handlers') = Len(handlers) - 1
               /\ \A i \in 1..Len(handlers) - 1 : handlers'[i] = handlers[i + 1]
            \/ /\ Len(handlers) = 0
               /\ UNCHANGED <<handlers, answered>>
               /\ Len(inbuf') = Len(inbuf) - 1
               /\ \A i \in 1..Len(inbuf) - 1 : inbuf'[i] = inbuf[i + 1]
            \/ /\ inbuf' = <<>> /\ reading' = reading
               /\ UNCHANGED <<handlers, answered>>
<1>1. inbuf \in Seq(Wire) /\ handlers \in Seq(Calls)
        /\ answered \in Seq([call : Calls, reply : Calls \cup {NoCall}])
  BY DEF TypeOK
<1>2. inbuf # <<>> /\ Head(inbuf) = inbuf[1] /\ inbuf[1] \in Wire
  BY <1>1, ParseCases
<1>3. inbuf[1].call \in Calls \cup {NoCall}
  BY <1>2 DEF Wire
<1>4. /\ UNCHANGED <<strand, queue, writing, connecting, state,
                     socket, toServer, toClient, subs, accepted, executed, call>>
      /\ reading' => inbuf' = <<>> \/ reading
  BY ParseCases DEF serverVars
<1>5. CASE handlers # <<>> /\ inbuf' = Tail(inbuf) /\ handlers' = Tail(handlers)
             /\ answered' = Append(answered, [call |-> Head(handlers), reply |-> Head(inbuf).call])
  <2>1. Head(handlers) = handlers[1] /\ handlers[1] \in Calls
    BY <1>1, <1>5
  <2>2. [call |-> handlers[1], reply |-> inbuf[1].call] \in [call : Calls, reply : Calls \cup {NoCall}]
    BY <1>3, <2>1
  <2>3. answered' = Append(answered, [call |-> handlers[1], reply |-> inbuf[1].call])
    BY <1>2, <1>5, <2>1
  <2>4. /\ Len(answered') = Len(answered) + 1
        /\ \A i \in 1..Len(answered) : answered'[i] = answered[i]
        /\ answered'[Len(answered) + 1] = [call |-> handlers[1], reply |-> inbuf[1].call]
    BY <1>1, <2>2, <2>3, AppendFacts
  <2>5. QED
    BY <1>1, <1>2, <1>4, <1>5, <2>4, TailFacts
<1>6. CASE handlers = <<>> /\ inbuf' = Tail(inbuf) /\ UNCHANGED <<handlers, answered>>
  BY <1>1, <1>2, <1>4, <1>6, TailFacts
<1>7. CASE inbuf' = <<>> /\ reading' = reading /\ UNCHANGED <<handlers, answered>>
  BY <1>1, <1>2, <1>4, <1>7, TailFacts
<1>8. QED
  BY <1>5, <1>6, <1>7, ParseCases

-----------------------------------------------------------------------------
(* The parts of the inductive invariant, one lemma each.                   *)

LEMMA TypeStays ==
  ASSUME TypeOK, WriteDiscipline, [Next]_vars
  PROVE  TypeOK'
<1>1. CASE Next
  BY <1>1, TypeKept
<1>2. CASE UNCHANGED vars
  BY <1>2 DEF vars, clientVars, ioVars, serverVars, history, TypeOK
<1> QED
  BY <1>1, <1>2

LEMMA ExecutedBound ==
  ASSUME TypeOK, WriteDiscipline, ExecutionInOrder
  PROVE  Len(executed) + Len(strand) <= Len(accepted)
<1>2. Lengths
  BY LengthsOK
<1>3. Unsent \in Nat
  BY UnsentIsNat
<1>4. Len(executed) + Len(toServer) + Unsent + Len(strand) <= Len(accepted)
  BY DEF ExecutionInOrder
<1>5. QED
  BY <1>2, <1>3, <1>4 DEF Lengths

LEMMA SubmissionStep ==
  ASSUME NoSubscriptions, TypeOK, WriteDiscipline, PipelineInv, [Next]_vars
  PROVE  SubmissionInOrder'
<1> DEFINE S == Len(strand)
           Q == Len(queue)
           A == Len(accepted)
<1>0. /\ S \in Nat /\ Q \in Nat /\ A \in Nat /\ S + Q <= A
      /\ \A i \in 1..S : strand[i] = CommandTask(accepted[A - S + i])
      /\ \A i \in 1..Q : queue[i] = accepted[A - S - Q + i]
  BY LengthsOK DEF PipelineInv, SubmissionInOrder, Lengths
<1>1. CASE UNCHANGED <<accepted, strand, queue>>
  BY <1>0, <1>1 DEF SubmissionInOrder
<1>2. ASSUME NEW c \in Commands, command(c)
      PROVE  SubmissionInOrder'
  <2>1. /\ Len(accepted') = A + 1 /\ Len(strand') = S + 1 /\ queue' = queue
        /\ \A i \in 1..A : accepted'[i] = accepted[i]
        /\ accepted'[A + 1] = c
        /\ \A i \in 1..S : strand'[i] = strand[i]
        /\ strand'[S + 1] = CommandTask(c)
    BY <1>2, CommandEffect
  <2> HIDE DEF S, Q, A
  <2>2. ASSUME NEW i \in 1..S + 1
        PROVE  strand'[i] = CommandTask(accepted'[A - S + i])
    <3>1. CASE i <= S
      <4>1. i \in 1..S /\ A - S + i \in 1..A
        BY <1>0, <3>1
      <4>2. QED
        BY <1>0, <2>1, <4>1
    <3>2. CASE i = S + 1
      <4>1. A - S + i = A + 1
        BY <1>0, <3>2
      <4>2. QED
        BY <2>1, <3>2, <4>1
    <3>3. QED
      BY <1>0, <3>1, <3>2
  <2>3. ASSUME NEW i \in 1..Q
        PROVE  queue'[i] = accepted'[A - S - Q + i]
    <3>1. A - S - Q + i \in 1..A
      BY <1>0
    <3>2. QED
      BY <1>0, <2>1, <3>1
  <2>4. Len(accepted') - Len(strand') = A - S /\ Len(queue') = Q
    BY <1>0, <2>1 DEF Q
  <2>5. Len(strand') + Len(queue') <= Len(accepted')
    BY ONLY <1>0, <2>1, <2>4
  <2>6. \A i \in 1..Len(strand') :
          strand'[i] = CommandTask(accepted'[Len(accepted') - Len(strand') + i])
    BY ONLY <2>1, <2>2, <2>4
  <2>7. \A i \in 1..Len(queue') :
          queue'[i] = accepted'[Len(accepted') - Len(strand') - Len(queue') + i]
    BY ONLY <2>3, <2>4
  <2>8. QED
    BY <2>5, <2>6, <2>7 DEF SubmissionInOrder
<1>3. CASE doAsyncCommand
  <2>1. /\ S >= 1 /\ Len(strand') = S - 1 /\ Len(queue') = Q + 1
        /\ accepted' = accepted /\ Len(accepted') = A
        /\ \A i \in 1..S - 1 : strand'[i] = strand[i + 1]
        /\ \A i \in 1..Q : queue'[i] = queue[i]
        /\ queue'[Q + 1] = strand[1].call
    BY <1>3, DoAsyncCommandEffect
  <2> HIDE DEF S, Q, A
  <2>2. ASSUME NEW i \in 1..S - 1
        PROVE  strand'[i] = CommandTask(accepted[A - (S - 1) + i])
    <3>1. i + 1 \in 1..S /\ A - S + (i + 1) = A - (S - 1) + i
      BY <1>0, <2>1
    <3>2. strand[i + 1] = CommandTask(accepted[A - S + (i + 1)])
      BY <1>0, <3>1
    <3>3. QED
      BY <2>1, <3>1, <3>2
  <2>3. strand[1].call = accepted[A - S + 1]
    <3>1. 1 \in 1..S
      BY <1>0, <2>1
    <3>2. strand[1] = CommandTask(accepted[A - S + 1])
      BY <1>0, <3>1
    <3>3. QED
      BY <3>2 DEF CommandTask
  <2>4. ASSUME NEW i \in 1..Q + 1
        PROVE  queue'[i] = accepted[A - (S - 1) - (Q + 1) + i]
    <3>1. A - (S - 1) - (Q + 1) + i = A - S - Q + i
      BY <1>0
    <3>2. CASE i \in 1..Q
      BY <1>0, <2>1, <3>1, <3>2
    <3>3. CASE i = Q + 1
      <4>1. A - S - Q + i = A - S + 1
        BY <1>0, <3>3
      <4>2. QED
        BY <2>1, <2>3, <3>1, <3>3, <4>1
    <3>4. QED
      BY <1>0, <3>2, <3>3
  <2>5. QED
    BY <1>0, <2>1, <2>2, <2>4 DEF SubmissionInOrder
<1>4. CASE asyncWrite
  <2>1. /\ accepted' = accepted /\ strand' = strand
        /\ \/ queue' = queue
           \/ /\ Q >= 1 /\ Len(queue') = Q - 1
              /\ \A i \in 1..Q - 1 : queue'[i] = queue[i + 1]
    BY <1>4, AsyncWriteEffect
  <2>2. CASE queue' = queue
    BY <1>0, <2>1, <2>2 DEF SubmissionInOrder
  <2>3. CASE Q >= 1 /\ Len(queue') = Q - 1 /\ \A i \in 1..Q - 1 : queue'[i] = queue[i + 1]
    <3> HIDE DEF Q
    <3>1. ASSUME NEW i \in 1..Q - 1
          PROVE  queue'[i] = accepted[A - S - (Q - 1) + i]
      <4>1. i + 1 \in 1..Q /\ A - S - Q + (i + 1) = A - S - (Q - 1) + i
        BY <1>0, <2>3
      <4>2. QED
        BY <1>0, <2>3, <4>1
    <3>2. QED
      BY <1>0, <2>1, <2>3, <3>1 DEF SubmissionInOrder
  <2>4. QED
    BY <2>1, <2>2, <2>3
<1>5. QED
  BY <1>1, <1>2, <1>3, <1>4, NextCases, NoMessageTask, TransmitEffect, ServeEffect,
     AsyncReadEffect, ParseReplyEffect
     DEF PipelineInv, installErrorHandler, connect, close, stateValid, Refuse,
         handleAsyncConnect, Establish, Break, Publish,
         vars, clientVars, ioVars, serverVars, history

LEMMA ExecutionStep ==
  ASSUME NoSubscriptions, TypeOK, WriteDiscipline, PipelineInv, [Next]_vars
  PROVE  ExecutionInOrder'
<1> DEFINE E == Len(executed)
           T == Len(toServer)
           A == Len(accepted)
<1>0. /\ E \in Nat /\ T \in Nat /\ A \in Nat
      /\ Len(strand) \in Nat /\ Len(queue) \in Nat /\ Len(strand) + Len(queue) <= A
      /\ E + T + Unsent + Len(strand) <= A
      /\ socket \in {"none", "up"} => E + T + Unsent + Len(strand) = A
      /\ \A i \in 1..E : executed[i] = accepted[i]
      /\ \A i \in 1..T : toServer[i] = accepted[E + i]
  BY LengthsOK DEF PipelineInv, ExecutionInOrder, SubmissionInOrder, Lengths
<1>1a. writing \in {"started", "sent"} => Len(queue) >= 1
  BY DEF WriteDiscipline, TypeOK
<1>1. Unsent \in Nat
  BY <1>0, <1>1a DEF Unsent
<1>2. ASSUME NEW c \in Commands, command(c)
      PROVE  ExecutionInOrder'
  <2>1. /\ Len(accepted') = A + 1 /\ Len(strand') = Len(strand) + 1
        /\ \A i \in 1..A : accepted'[i] = accepted[i]
        /\ UNCHANGED <<queue, writing, executed, toServer, socket>>
    BY <1>2, CommandEffect
  <2>2. Unsent' = Unsent
    BY <2>1 DEF Unsent
  <2>3. ASSUME NEW i \in 1..E PROVE executed'[i] = accepted'[i]
    <3>1. i \in 1..A
      BY <1>0, <1>1
    <3>2. QED
      BY <1>0, <2>1, <3>1
  <2>4. ASSUME NEW i \in 1..T PROVE toServer'[i] = accepted'[E + i]
    <3>1. E + i \in 1..A
      BY <1>0, <1>1
    <3>2. QED
      BY <1>0, <2>1, <3>1
  <2>5. /\ Len(executed') = E /\ Len(toServer') = T
        /\ Len(accepted') = A + 1 /\ Len(strand') = Len(strand) + 1
    BY <2>1
  <2>6. /\ Len(executed') + Len(toServer') + Unsent' + Len(strand') <= Len(accepted')
        /\ socket' \in {"none", "up"} =>
             Len(executed') + Len(toServer') + Unsent' + Len(strand') = Len(accepted')
    <3> HIDE DEF E, T, A
    <3>1. socket' = socket
      BY <2>1
    <3>2. QED
      BY ONLY <1>0, <1>1, <2>2, <2>5, <3>1
  <2>7. QED
    BY ONLY <2>3, <2>4, <2>5, <2>6 DEF ExecutionInOrder
<1>3. CASE doAsyncCommand
  <2>1. /\ Len(strand) >= 1 /\ Len(strand') = Len(strand) - 1
        /\ Len(queue') = Len(queue) + 1
        /\ writing' = IF Len(queue) = 0 THEN "started" ELSE writing
        /\ UNCHANGED <<accepted, executed, toServer, socket>>
    BY <1>3, DoAsyncCommandEffect
  <2>2. Unsent' = Unsent + 1
    BY <1>0, <1>1a, <2>1 DEF Unsent, TypeOK
  <2>3. QED
    BY <1>0, <1>1, <2>1, <2>2 DEF ExecutionInOrder
<1>4. CASE asyncWrite
  <2>1. UNCHANGED <<accepted, executed, toServer, socket, strand>>
    BY <1>4, AsyncWriteEffect
  <2>2. Unsent' = Unsent
    BY <1>0, <1>4, AsyncWriteEffect DEF Unsent
  <2>3. QED
    BY <1>0, <2>1, <2>2 DEF ExecutionInOrder
<1>5. CASE Transmit
  <2>1. Unsent' = Unsent - 1 /\ Unsent = Len(queue) /\ Len(queue) >= 1
    BY <1>0, <1>5, TransmitEffect DEF Unsent
  <2>2. UNCHANGED <<accepted, executed, socket, strand, queue>>
    BY <1>5, TransmitEffect
  <2>3. CASE socket = "broken" /\ toServer' = toServer
    BY <1>0, <1>1, <2>1, <2>2, <2>3 DEF ExecutionInOrder
  <2>4. CASE socket = "up" /\ Len(toServer') = T + 1 /\ toServer'[T + 1] = queue[1]
               /\ \A i \in 1..T : toServer'[i] = toServer[i]
    <3>1. queue[1] = accepted[A - Len(strand) - Len(queue) + 1]
      <4>1. 1 \in 1..Len(queue)
        BY <1>0, <2>1
      <4>2. QED
        BY <4>1 DEF PipelineInv, SubmissionInOrder
    <3>2. E + T + Unsent + Len(strand) = A
      BY <1>0, <2>4
    <3>2a. A - Len(strand) - Len(queue) + 1 = E + (T + 1)
      <4>1. /\ E \in Nat /\ T \in Nat /\ A \in Nat /\ Len(strand) \in Nat /\ Len(queue) \in Nat
            /\ E + T + Len(queue) + Len(strand) = A
        BY <1>0, <2>1, <3>2
      <4> HIDE DEF E, T, A
      <4>2. QED
        BY ONLY <4>1
    <3>3. ASSUME NEW i \in 1..T + 1 PROVE toServer'[i] = accepted[E + i]
      <4>1. CASE i = T + 1
        BY <2>4, <3>1, <3>2a, <4>1
      <4>2. CASE i \in 1..T
        BY <1>0, <2>4, <4>2
      <4>3. QED
        BY <1>0, <4>1, <4>2
    <3>4. Len(executed') + Len(toServer') + Unsent' + Len(strand') = Len(accepted')
      BY <1>0, <1>1, <2>1, <2>2, <2>4, <3>2
    <3>5. /\ \A i \in 1..Len(executed') : executed'[i] = accepted'[i]
          /\ \A i \in 1..Len(toServer') : toServer'[i] = accepted'[Len(executed') + i]
      BY <1>0, <2>2, <2>4, <3>3
    <3>6. QED
      BY <1>0, <2>2, <3>4, <3>5 DEF ExecutionInOrder
  <2>5. QED
    BY <1>5, <2>3, <2>4, TransmitEffect
<1>6. CASE Serve
  <2>1. /\ T >= 1 /\ Len(toServer') = T - 1 /\ Len(executed') = E + 1
        /\ \A i \in 1..T - 1 : toServer'[i] = toServer[i + 1]
        /\ \A i \in 1..E : executed'[i] = executed[i]
        /\ executed'[E + 1] = toServer[1]
        /\ UNCHANGED <<accepted, strand, queue, writing, socket>>
    BY <1>6, ServeEffect
  <2>2. Unsent' = Unsent
    BY <2>1 DEF Unsent
  <2>3. ASSUME NEW i \in 1..E + 1 PROVE executed'[i] = accepted[i]
    <3>1. CASE i = E + 1
      <4>1. 1 \in 1..T
        BY <1>0, <2>1
      <4>2. toServer[1] = accepted[E + 1]
        BY <1>0, <4>1
      <4>3. QED
        BY <2>1, <3>1, <4>2
    <3>2. CASE i \in 1..E
      BY <1>0, <2>1, <3>2
    <3>3. QED
      BY <1>0, <3>1, <3>2
  <2>4. ASSUME NEW i \in 1..T - 1 PROVE toServer'[i] = accepted[(E + 1) + i]
    <3>1. i + 1 \in 1..T /\ E + (i + 1) = (E + 1) + i
      BY <1>0, <2>1
    <3>2. toServer[i + 1] = accepted[E + (i + 1)]
      BY <1>0, <3>1
    <3>3. QED
      BY <2>1, <3>1, <3>2
  <2>5. Len(executed') + Len(toServer') + Unsent' + Len(strand') = E + T + Unsent + Len(strand)
    BY <1>0, <1>1, <2>1, <2>2
  <2>6. /\ \A i \in 1..Len(executed') : executed'[i] = accepted'[i]
        /\ \A i \in 1..Len(toServer') : toServer'[i] = accepted'[Len(executed') + i]
    BY <1>0, <2>1, <2>3, <2>4
  <2>7. QED
    BY <1>0, <2>1, <2>5, <2>6 DEF ExecutionInOrder
<1>7. CASE UNCHANGED <<accepted, strand, queue, writing, executed, toServer>>
             /\ (socket' \in {"none", "up"} => socket \in {"none", "up"})
  <2>1. Unsent' = Unsent
    BY <1>7 DEF Unsent
  <2>2. QED
    BY <1>0, <1>7, <2>1 DEF ExecutionInOrder
<1>8. QED
  BY <1>2, <1>3, <1>4, <1>5, <1>6, <1>7, NextCases, NoMessageTask, AsyncReadEffect,
     ParseReplyEffect
     DEF PipelineInv, installErrorHandler, connect, close, stateValid, Refuse,
         handleAsyncConnect, Establish, Break, Publish,
         vars, clientVars, ioVars, serverVars, history

LEMMA HandlersStep ==
  ASSUME NoSubscriptions, TypeOK, WriteDiscipline, PipelineInv, [Next]_vars
  PROVE  HandlersInOrder'
<1> DEFINE N == Len(answered)
           H == Len(handlers)
           A == Len(accepted)
<1>0. /\ N \in Nat /\ H \in Nat /\ A \in Nat /\ Len(strand) \in Nat
      /\ N + H + Len(strand) = A
      /\ \A i \in 1..N : answered[i].call = accepted[i]
      /\ \A i \in 1..H : handlers[i] = accepted[N + i]
  BY LengthsOK DEF PipelineInv, HandlersInOrder, Lengths
<1>1. CASE UNCHANGED <<accepted, strand, handlers, answered>>
  BY <1>0, <1>1 DEF HandlersInOrder
<1>2. ASSUME NEW c \in Commands, command(c)
      PROVE  HandlersInOrder'
  <2>1. /\ Len(accepted') = A + 1 /\ Len(strand') = Len(strand) + 1
        /\ \A i \in 1..A : accepted'[i] = accepted[i]
        /\ UNCHANGED <<handlers, answered>>
    BY <1>2, CommandEffect
  <2>2. ASSUME NEW i \in 1..N PROVE answered'[i].call = accepted'[i]
    <3>1. i \in 1..A
      BY <1>0
    <3>2. QED
      BY <1>0, <2>1, <3>1
  <2>3. ASSUME NEW i \in 1..H PROVE handlers'[i] = accepted'[N + i]
    <3>1. N + i \in 1..A
      BY <1>0
    <3>2. QED
      BY <1>0, <2>1, <3>1
  <2>4. Len(answered') + Len(handlers') + Len(strand') = Len(accepted')
    BY <1>0, <2>1
  <2>5. /\ \A i \in 1..Len(answered') : answered'[i].call = accepted'[i]
        /\ \A i \in 1..Len(handlers') : handlers'[i] = accepted'[Len(answered') + i]
    BY <2>1, <2>2, <2>3
  <2>6. QED
    BY <2>4, <2>5 DEF HandlersInOrder
<1>3. CASE doAsyncCommand
  <2>1. /\ Len(strand) >= 1 /\ Len(strand') = Len(strand) - 1
        /\ Len(handlers') = H + 1
        /\ \A i \in 1..H : handlers'[i] = handlers[i]
        /\ handlers'[H + 1] = strand[1].call
        /\ UNCHANGED <<accepted, answered>>
    BY <1>3, DoAsyncCommandEffect
  <2>2. strand[1].call = accepted[A - Len(strand) + 1]
    <3>1. 1 \in 1..Len(strand)
      BY <1>0, <2>1
    <3>2. strand[1] = CommandTask(accepted[A - Len(strand) + 1])
      BY <3>1 DEF PipelineInv, SubmissionInOrder
    <3>3. QED
      BY <3>2 DEF CommandTask
  <2>3. A - Len(strand) + 1 = N + (H + 1)
    BY <1>0
  <2>4. ASSUME NEW i \in 1..H + 1 PROVE handlers'[i] = accepted[N + i]
    <3>1. CASE i = H + 1
      BY <2>1, <2>2, <2>3, <3>1
    <3>2. CASE i \in 1..H
      BY <1>0, <2>1, <3>2
    <3>3. QED
      BY <1>0, <3>1, <3>2
  <2>5. QED
    BY <1>0, <2>1, <2>4 DEF HandlersInOrder
<1>4. CASE parseReply
  <2>1. UNCHANGED <<accepted, strand>>
    BY <1>4, ParseReplyEffect DEF PipelineInv
  <2>2. CASE UNCHANGED <<handlers, answered>>
    BY <1>1, <2>1, <2>2
  <2>3. CASE /\ H >= 1 /\ Len(handlers') = H - 1 /\ Len(answered') = N + 1
             /\ \A i \in 1..N : answered'[i] = answered[i]
             /\ answered'[N + 1] = [call |-> handlers[1], reply |-> inbuf[1].call]
             /\ \A i \in 1..H - 1 : handlers'[i] = handlers[i + 1]
    <3>1. ASSUME NEW i \in 1..N + 1 PROVE answered'[i].call = accepted[i]
      <4>1. CASE i = N + 1
        <5>1. 1 \in 1..H
          BY <1>0, <2>3
        <5>2. handlers[1] = accepted[N + 1]
          BY <1>0, <5>1
        <5>3. QED
          BY <2>3, <4>1, <5>2
      <4>2. CASE i \in 1..N
        BY <1>0, <2>3, <4>2
      <4>3. QED
        BY <1>0, <4>1, <4>2
    <3>2. ASSUME NEW i \in 1..H - 1 PROVE handlers'[i] = accepted[(N + 1) + i]
      <4>1. i + 1 \in 1..H /\ N + (i + 1) = (N + 1) + i
        BY <1>0, <2>3
      <4>2. handlers[i + 1] = accepted[N + (i + 1)]
        BY <1>0, <4>1
      <4>3. QED
        BY <2>3, <4>1, <4>2
    <3>3. Len(answered') + Len(handlers') + Len(strand') = Len(accepted')
      <4>1. /\ N \in Nat /\ H \in Nat /\ A \in Nat /\ Len(strand) \in Nat
            /\ N + H + Len(strand) = A
        BY <1>0
      <4>2. /\ Len(handlers') = H - 1 /\ Len(answered') = N + 1
            /\ Len(strand') = Len(strand) /\ Len(accepted') = A
        BY <2>1, <2>3
      <4> HIDE DEF N, H, A
      <4>3. QED
        BY ONLY <4>1, <4>2
    <3>4. /\ \A i \in 1..Len(answered') : answered'[i].call = accepted'[i]
          /\ \A i \in 1..Len(handlers') : handlers'[i] = accepted'[Len(answered') + i]
      BY <1>0, <2>1, <2>3, <3>1, <3>2
    <3>5. QED
      BY <3>3, <3>4 DEF HandlersInOrder
  <2>4. QED
    BY <1>4, <2>2, <2>3, ParseReplyEffect DEF PipelineInv
<1>5. QED
  BY <1>1, <1>2, <1>3, <1>4, NextCases, NoMessageTask, AsyncWriteEffect, TransmitEffect,
     ServeEffect, AsyncReadEffect
     DEF PipelineInv, installErrorHandler, connect, close, stateValid, Refuse,
         handleAsyncConnect, Establish, Break, Publish,
         vars, clientVars, ioVars, serverVars, history

LEMMA RepliesStep ==
  ASSUME NoSubscriptions, TypeOK, WriteDiscipline, PipelineInv, [Next]_vars
  PROVE  RepliesInOrder'
<1> DEFINE N == Len(answered)
           E == Len(executed)
           B == Len(inbuf)
           W == Len(toClient)
           Reads == reading \/ inbuf # <<>>
<1>0. N \in Nat /\ E \in Nat /\ B \in Nat /\ W \in Nat /\ N <= E
  BY LengthsOK DEF Lengths, PipelineInv, RepliesInOrder
<1>1. \A i \in 1..N : answered[i].reply = executed[i]
  BY DEF PipelineInv, RepliesInOrder
<1>2. reading => inbuf = <<>>
  BY DEF PipelineInv, RepliesInOrder
<1>3. ASSUME Reads
      PROVE  /\ N + B + W <= E
             /\ socket = "up" => N + B + W = E
             /\ \A i \in 1..B : inbuf[i].call = executed[N + i]
             /\ \A i \in 1..W : toClient[i].call = executed[N + B + i]
  BY <1>3 DEF PipelineInv, RepliesInOrder
<1>4. CASE /\ UNCHANGED <<answered, executed, reading, inbuf, toClient>>
           /\ socket' = "up" /\ Reads => socket = "up"
  BY <1>0, <1>1, <1>2, <1>3, <1>4 DEF RepliesInOrder
<1>5. CASE handleAsyncConnect
  <2>1. UNCHANGED <<answered, executed, inbuf, toClient, socket>> /\ connecting
    BY <1>5 DEF handleAsyncConnect, serverVars, history
  <2>2. Len(accepted) = 0 /\ inbuf = <<>> /\ toClient = <<>>
    BY <2>1 DEF PipelineInv, ConnectedFirst
  <2>3. E <= Len(accepted)
    BY LengthsOK, ExecutedBound, <1>0 DEF PipelineInv, Lengths
  <2>4. N = 0 /\ E = 0 /\ B = 0 /\ W = 0
    BY <1>0, <2>2, <2>3
  <2>5. QED
    BY <1>0, <2>1, <2>2, <2>4 DEF RepliesInOrder
<1>6. CASE asyncRead
  <2>1. /\ reading /\ reading' = FALSE /\ inbuf = <<>> /\ B = 0
        /\ UNCHANGED <<executed, answered, socket>>
    BY <1>6, AsyncReadEffect
  <2>2. CASE inbuf' = <<>> /\ toClient' = toClient
    BY <1>0, <1>1, <2>1, <2>2 DEF RepliesInOrder
  <2>3. CASE /\ Len(inbuf') >= 1 /\ Len(inbuf') + Len(toClient') = W
             /\ \A i \in 1..Len(inbuf') : inbuf'[i] = toClient[i]
             /\ \A i \in 1..Len(toClient') : toClient'[i] = toClient[Len(inbuf') + i]
    <3>1. Len(inbuf') \in Nat /\ Len(toClient') \in Nat
      <4>1. TypeOK'
        BY TypeStays DEF PipelineInv
      <4>2. inbuf' \in Seq(Wire) /\ toClient' \in Seq(Wire)
        BY <4>1 DEF TypeOK
      <4>3. QED
        BY <4>2
    <3>2. ASSUME NEW i \in 1..Len(inbuf')
          PROVE  inbuf'[i].call = executed[N + i]
      <4>1. i \in 1..W /\ N + B + i = N + i
        BY <1>0, <2>1, <2>3, <3>1
      <4>2. QED
        BY <1>3, <2>1, <2>3, <4>1
    <3>3. ASSUME NEW i \in 1..Len(toClient')
          PROVE  toClient'[i].call = executed[N + Len(inbuf') + i]
      <4>1. Len(inbuf') + i \in 1..W /\ N + B + (Len(inbuf') + i) = N + Len(inbuf') + i
        BY <1>0, <2>1, <2>3, <3>1
      <4>2. toClient[Len(inbuf') + i].call = executed[N + B + (Len(inbuf') + i)]
        BY <1>3, <2>1, <4>1
      <4>3. QED
        BY <2>3, <4>1, <4>2
    <3>4. N + Len(inbuf') + Len(toClient') = N + B + W
      BY <1>0, <2>1, <2>3, <3>1
    <3>5. QED
      BY <1>0, <1>1, <1>3, <2>1, <3>2, <3>3, <3>4 DEF RepliesInOrder
  <2>4. QED
    BY <1>6, <2>2, <2>3, AsyncReadEffect
<1>7. CASE parseReply
  <2>1. /\ UNCHANGED <<executed, toClient, socket>> /\ B >= 1
        /\ reading' => inbuf' = <<>> \/ reading
    BY <1>7, ParseReplyEffect DEF PipelineInv
  <2>2. inbuf # <<>> /\ ~reading /\ Reads
    BY <1>2, <2>1
  <2>3. /\ N + B + W <= E
        /\ socket = "up" => N + B + W = E
        /\ \A i \in 1..B : inbuf[i].call = executed[N + i]
        /\ \A i \in 1..W : toClient[i].call = executed[N + B + i]
    BY <1>3, <2>2
  <2>4. Len(handlers) # 0
    <3>1. E + Len(strand) <= Len(accepted)
      BY ExecutedBound DEF PipelineInv
    <3>2. N + Len(handlers) + Len(strand) = Len(accepted) /\ Len(handlers) \in Nat
            /\ Len(strand) \in Nat /\ Len(accepted) \in Nat
      BY LengthsOK DEF PipelineInv, HandlersInOrder, Lengths
    <3>3. N + 1 <= E
      BY <1>0, <2>1, <2>3
    <3> HIDE DEF N, E
    <3>4. QED
      BY <1>0, <3>1, <3>2, <3>3
  <2>5. CASE inbuf' = <<>> /\ reading' = reading /\ UNCHANGED answered
    BY <1>0, <1>1, <2>1, <2>2, <2>5 DEF RepliesInOrder
  <2>6. CASE /\ Len(inbuf') = B - 1
             /\ \A i \in 1..B - 1 : inbuf'[i] = inbuf[i + 1]
             /\ Len(answered') = N + 1
             /\ \A i \in 1..N : answered'[i] = answered[i]
             /\ answered'[N + 1] = [call |-> handlers[1], reply |-> inbuf[1].call]
    <3>1. ASSUME NEW i \in 1..N + 1
          PROVE  answered'[i].reply = executed[i]
      <4>1. CASE i = N + 1
        <5>1. 1 \in 1..B
          BY <1>0, <2>1
        <5>2. inbuf[1].call = executed[N + 1]
          BY <2>3, <5>1
        <5>3. QED
          BY <2>6, <4>1, <5>2
      <4>2. CASE i \in 1..N
        BY <1>1, <2>6, <4>2
      <4>3. QED
        BY <1>0, <4>1, <4>2
    <3>2. ASSUME NEW i \in 1..B - 1
          PROVE  inbuf'[i].call = executed[(N + 1) + i]
      <4>1. i + 1 \in 1..B /\ N + (i + 1) = (N + 1) + i
        BY <1>0, <2>1
      <4>2. inbuf[i + 1].call = executed[N + (i + 1)]
        BY <2>3, <4>1
      <4>3. QED
        BY <2>6, <4>1, <4>2
    <3>3. (N + 1) + (B - 1) = N + B
      BY <1>0
    <3>4. ASSUME NEW i \in 1..W
          PROVE  toClient[i].call = executed[(N + 1) + (B - 1) + i]
      BY <2>3, <3>3
    <3>5. N + 1 <= E
      BY <1>0, <2>1, <2>3
    <3>6. /\ Len(answered') <= Len(executed')
          /\ \A i \in 1..Len(answered') : answered'[i].reply = executed'[i]
      BY <2>1, <2>6, <3>1, <3>5
    <3>7. reading' => inbuf' = <<>>
      BY <2>1, <2>2
    <3>8. /\ Len(answered') + Len(inbuf') + Len(toClient') <= Len(executed')
          /\ socket' = "up" => Len(answered') + Len(inbuf') + Len(toClient') = Len(executed')
      BY <2>1, <2>3, <2>6, <3>3
    <3>9. /\ \A i \in 1..Len(inbuf') : inbuf'[i].call = executed'[Len(answered') + i]
          /\ \A i \in 1..Len(toClient') :
               toClient'[i].call = executed'[Len(answered') + Len(inbuf') + i]
      BY <2>1, <2>6, <3>2, <3>4
    <3>10. QED
      BY <3>6, <3>7, <3>8, <3>9 DEF RepliesInOrder
  <2>7. QED
    BY <1>7, <2>4, <2>5, <2>6, ParseReplyEffect DEF PipelineInv
<1>8. CASE Serve
  <2>1. /\ Len(executed') = E + 1
        /\ \A i \in 1..E : executed'[i] = executed[i]
        /\ executed'[E + 1] = toServer[1]
        /\ UNCHANGED <<answered, reading, inbuf, socket>>
    BY <1>8, ServeEffect
  <2>2. /\ Len(answered') <= Len(executed')
        /\ \A i \in 1..Len(answered') : answered'[i].reply = executed'[i]
        /\ reading' => inbuf' = <<>>
    BY <1>0, <1>1, <1>2, <2>1
  <2>3. CASE ~Reads
    BY <2>1, <2>2, <2>3 DEF RepliesInOrder
  <2>4. CASE Reads
    <3>1. /\ N + B + W <= E
          /\ socket = "up" => N + B + W = E
          /\ \A i \in 1..B : inbuf[i].call = executed[N + i]
          /\ \A i \in 1..W : toClient[i].call = executed[N + B + i]
      BY <1>3, <2>4
    <3>2. ASSUME NEW i \in 1..B
          PROVE  inbuf'[i].call = executed'[N + i]
      <4>1. N + i \in 1..E
        BY <1>0, <3>1
      <4>2. QED
        BY <2>1, <3>1, <4>1
    <3>3. ASSUME NEW i \in 1..W
          PROVE  toClient[i].call = executed'[N + B + i]
      <4>1. N + B + i \in 1..E
        BY <1>0, <3>1
      <4>2. QED
        BY <2>1, <3>1, <4>1
    <3>4. CASE socket # "up" /\ toClient' = toClient
      BY <1>0, <2>1, <2>2, <3>1, <3>2, <3>3, <3>4 DEF RepliesInOrder
    <3>5. CASE /\ socket = "up" /\ Len(toClient') = W + 1
               /\ \A i \in 1..W : toClient'[i] = toClient[i]
               /\ toClient'[W + 1].call = toServer[1]
      <4>1. N + B + (W + 1) = E + 1
        <5>1. N + B + W = E
          BY <3>1, <3>5
        <5> HIDE DEF N, B, W, E
        <5>2. QED
          BY <1>0, <5>1
      <4>2. ASSUME NEW i \in 1..W + 1
            PROVE  toClient'[i].call = executed'[N + B + i]
        <5>1. CASE i = W + 1
          BY <2>1, <3>5, <4>1, <5>1
        <5>2. CASE i \in 1..W
          BY <3>3, <3>5, <5>2
        <5>3. QED
          BY <1>0, <5>1, <5>2
      <4>3. N + B + Len(toClient') = Len(executed')
        BY <2>1, <3>5, <4>1
      <4>4. QED
        BY <1>0, <2>1, <2>2, <3>2, <3>5, <4>2, <4>3 DEF RepliesInOrder
    <3>6. QED
      BY <1>8, <3>4, <3>5, ServeEffect
  <2>5. QED
    BY <2>3, <2>4
<1>9. CASE Establish
  BY <1>4, <1>9 DEF Establish, PipelineInv, ConnectedFirst, clientVars, ioVars, history
<1>10. ASSUME NEW m \in Messages, Publish(m)
       PROVE  RepliesInOrder'
  <2>1. toClient' = toClient
    BY <1>10 DEF Publish, PipelineInv, CommandsOnly
  <2>2. QED
    BY <1>4, <1>10, <2>1 DEF Publish, ioVars, history
<1>11. QED
  BY <1>4, <1>5, <1>6, <1>7, <1>8, <1>9, <1>10, NextCases, NoMessageTask, CommandEffect,
     DoAsyncCommandEffect, AsyncWriteEffect, TransmitEffect
     DEF PipelineInv, installErrorHandler, connect, close, stateValid, Refuse, Break,
         vars, clientVars, ioVars, serverVars, history

LEMMA ConnectedStep ==
  ASSUME NoSubscriptions, TypeOK, WriteDiscipline, PipelineInv, [Next]_vars
  PROVE  ConnectedFirst'
<1> USE DEF ConnectedFirst
<1>0. ConnectedFirst
  BY DEF PipelineInv
<1>1. CASE UNCHANGED <<state, socket, connecting, accepted, call, reading, inbuf, toClient>>
  BY <1>0, <1>1
<1>2. CASE connect
  BY <1>0, <1>2 DEF connect, clientVars, serverVars, history
<1>3. CASE close
  BY <1>0, <1>3 DEF close, ioVars, history
<1>4. ASSUME NEW c \in Commands, stateValid(c)
      PROVE  ConnectedFirst'
  <2>1. UNCHANGED <<state, socket, connecting, accepted, reading, inbuf, toClient>>
    BY <1>4 DEF stateValid, Refuse, clientVars, ioVars, serverVars
  <2>2. CASE state = "Connected"
    BY <1>0, <2>1, <2>2
  <2>3. CASE state # "Connected"
    <3>1. call' = [call EXCEPT ![c] = "refused"]
      BY <1>4, <2>3 DEF stateValid, Refuse
    <3>2. \A d \in Calls : call[d] # "checked" => call'[d] # "checked"
      BY <3>1 DEF TypeOK
    <3>3. QED
      BY <1>0, <2>1, <3>2
  <2>4. QED
    BY <2>2, <2>3
<1>5. ASSUME NEW c \in Commands, command(c)
      PROVE  ConnectedFirst'
  <2>1. socket # "none" /\ ~connecting
    BY <1>0, <1>5, OnlyCommands DEF command
  <2>2. QED
    BY <1>5, <2>1, CommandEffect
<1>6. CASE handleAsyncConnect
  BY <1>0, <1>6 DEF handleAsyncConnect, serverVars, history
<1>7. CASE asyncRead
  <2>1. socket # "none" /\ ~connecting
    BY <1>0, <1>7, AsyncReadEffect
  <2>2. QED
    BY <1>0, <1>7, <2>1, AsyncReadEffect
<1>8. CASE parseReply
  <2>1. socket # "none" /\ ~connecting
    BY <1>0, <1>8, ParseReplyEffect DEF PipelineInv
  <2>2. QED
    BY <1>0, <1>8, <2>1, ParseReplyEffect DEF PipelineInv
<1>9. CASE Serve
  <2>1. Len(accepted) > 0
    <3>1. Len(toServer) >= 1 /\ Unsent \in Nat
      BY <1>9, ServeEffect, UnsentIsNat
    <3>2. Len(executed) + Len(toServer) + Unsent + Len(strand) <= Len(accepted)
      BY DEF PipelineInv, ExecutionInOrder
    <3>3. QED
      BY <3>1, <3>2, LengthsOK DEF Lengths
  <2>2. socket # "none" /\ ~connecting
    BY <1>0, <2>1
  <2>3. QED
    BY <1>0, <1>9, <2>2, ServeEffect
<1>10. CASE Establish
  BY <1>0, <1>10 DEF Establish, clientVars, ioVars, history
<1>11. CASE Break
  BY <1>0, <1>11 DEF Break, clientVars, ioVars, history
<1>12. ASSUME NEW m \in Messages, Publish(m)
       PROVE  ConnectedFirst'
  <2>1. toClient' = toClient
    BY <1>12 DEF Publish, PipelineInv, CommandsOnly
  <2>2. QED
    BY <1>1, <1>12, <2>1 DEF Publish, clientVars, ioVars, history
<1>13. QED
  BY <1>1, <1>2, <1>3, <1>4, <1>5, <1>6, <1>7, <1>8, <1>9, <1>10, <1>11, <1>12, NextCases,
     NoMessageTask, AsyncWriteEffect, TransmitEffect
     DEF PipelineInv, installErrorHandler, doAsyncCommand,
         vars, clientVars, ioVars, serverVars, history

LEMMA CommandsOnlyStep ==
  ASSUME NoSubscriptions, TypeOK, WriteDiscipline, PipelineInv, [Next]_vars
  PROVE  CommandsOnly'
<1> USE DEF CommandsOnly
<1>0. CommandsOnly /\ Lengths
  BY LengthsOK DEF PipelineInv
<1>1. CASE UNCHANGED <<subs, inbuf, toClient>> /\ state' # "Subscribed"
  BY <1>0, <1>1
<1>2. CASE asyncRead
  <2>1. state' # "Subscribed" /\ subs' = {}
    BY <1>0, <1>2, AsyncReadEffect
  <2>2. CASE inbuf' = <<>> /\ toClient' = toClient
    BY <1>0, <2>1, <2>2
  <2>3. CASE /\ Len(inbuf') + Len(toClient') = Len(toClient)
             /\ \A i \in 1..Len(inbuf') : inbuf'[i] = toClient[i]
             /\ \A i \in 1..Len(toClient') : toClient'[i] = toClient[Len(inbuf') + i]
    <3>1. Len(inbuf') \in Nat /\ Len(toClient') \in Nat
      <4>1. TypeOK'
        BY TypeStays DEF PipelineInv
      <4>2. inbuf' \in Seq(Wire) /\ toClient' \in Seq(Wire)
        BY <4>1 DEF TypeOK
      <4>3. QED
        BY <4>2
    <3>2. ASSUME NEW i \in 1..Len(inbuf')
          PROVE  inbuf'[i].kind \in {"reply", "garbage"}
      <4>1. i \in 1..Len(toClient)
        BY <1>0, <2>3, <3>1 DEF Lengths
      <4>2. QED
        BY <1>0, <2>3, <4>1
    <3>3. ASSUME NEW i \in 1..Len(toClient')
          PROVE  toClient'[i].kind \in {"reply", "garbage"}
      <4>1. Len(inbuf') + i \in 1..Len(toClient)
        BY <1>0, <2>3, <3>1 DEF Lengths
      <4>2. QED
        BY <1>0, <2>3, <4>1
    <3>4. QED
      BY <2>1, <3>2, <3>3
  <2>4. QED
    BY <1>2, <2>2, <2>3, AsyncReadEffect
<1>3. CASE parseReply
  <2>1. UNCHANGED <<state, subs, toClient>>
    BY <1>0, <1>3, ParseReplyEffect
  <2>2. CASE inbuf' = <<>>
    BY <1>0, <2>1, <2>2
  <2>3. CASE Len(inbuf') = Len(inbuf) - 1 /\ \A i \in 1..Len(inbuf) - 1 : inbuf'[i] = inbuf[i + 1]
    <3>1. ASSUME NEW i \in 1..Len(inbuf')
          PROVE  inbuf'[i].kind \in {"reply", "garbage"}
      <4>1. i \in 1..Len(inbuf) - 1 /\ i + 1 \in 1..Len(inbuf)
        BY <1>0, <2>3 DEF Lengths
      <4>2. QED
        BY <1>0, <2>3, <4>1
    <3>2. QED
      BY <1>0, <2>1, <3>1
  <2>4. QED
    BY <1>0, <1>3, <2>2, <2>3, ParseReplyEffect
<1>4. CASE Serve
  <2>1. UNCHANGED <<state, subs, inbuf>>
    BY <1>4, ServeEffect
  <2>2. CASE toClient' = toClient
    BY <1>0, <2>1, <2>2
  <2>3. CASE /\ Len(toClient') = Len(toClient) + 1
             /\ \A i \in 1..Len(toClient) : toClient'[i] = toClient[i]
             /\ toClient'[Len(toClient) + 1].kind \in {"reply", "garbage"}
    BY <1>0, <2>1, <2>3 DEF Lengths
  <2>4. QED
    BY <1>4, <2>2, <2>3, ServeEffect
<1>5. ASSUME NEW m \in Messages, Publish(m)
      PROVE  CommandsOnly'
  BY <1>0, <1>1, <1>5 DEF Publish, clientVars, ioVars
<1>6. QED
  BY <1>0, <1>1, <1>2, <1>3, <1>4, <1>5, NextCases, NoMessageTask, AsyncWriteEffect, TransmitEffect
     DEF PipelineInv, installErrorHandler, connect, close, stateValid, Refuse, command,
         handleAsyncConnect, doAsyncCommand, asyncWrite, Transmit, Establish, Break,
         vars, clientVars, ioVars, serverVars, history

-----------------------------------------------------------------------------
(* Theorems about a client used for commands only.                         *)

ClientInv == BaseInv /\ PipelineInv

LEMMA ClientInvInit == Init => ClientInv
<1> SUFFICES ASSUME Init PROVE ClientInv
  OBVIOUS
<1>1. BaseInv
  BY SubscriberInvInit DEF SubscriberInv
<1>2. PipelineInv
  BY DEF Init, PipelineInv, SubmissionInOrder, ExecutionInOrder, HandlersInOrder,
     RepliesInOrder, ConnectedFirst, CommandsOnly, IgnoredAfterClose, AcceptedAreDone, Unsent
<1> QED
  BY <1>1, <1>2 DEF ClientInv

LEMMA ClientInvStep ==
  ASSUME NoSubscriptions, ClientInv, [Next]_vars
  PROVE  ClientInv'
<1>1. TypeOK /\ WriteDiscipline /\ BaseInv /\ PipelineInv
  BY DEF ClientInv, BaseInv
<1>2. BaseInv'
  BY <1>1, BaseStep
<1>3. IgnoredAfterClose' /\ AcceptedAreDone'
  BY <1>2 DEF BaseInv
<1>4. PipelineInv'
  BY <1>1, <1>3, SubmissionStep, ExecutionStep, HandlersStep, RepliesStep, ConnectedStep,
     CommandsOnlyStep DEF PipelineInv
<1> QED
  BY <1>2, <1>4 DEF ClientInv

\* Requests, executions, handlers and replies stay aligned.
THEOREM PipelineAligned ==
  ASSUME NoSubscriptions
  PROVE  Spec => []PipelineInv
<1>1. ClientInv => PipelineInv
  BY DEF ClientInv
<1>2. QED
  BY <1>1, ClientInvInit, ClientInvStep, PTL DEF Spec

\* A client used for commands only calls every handler with the reply to its
\* own call even after an error: nothing can come between replies and calls.
OwnReplies ==
  \A i \in 1..Len(answered) : answered[i] = [call |-> accepted[i], reply |-> accepted[i]]

\* Every handler is called with the reply to its own call, in posting order,
\* for any number of commands and even after an error.
THEOREM OwnRepliesAlways ==
  ASSUME NoSubscriptions
  PROVE  Spec => []OwnReplies
<1>1. ClientInv => OwnReplies
  <2> SUFFICES ASSUME ClientInv, NEW i \in 1..Len(answered)
               PROVE  answered[i] = [call |-> accepted[i], reply |-> accepted[i]]
    BY DEF OwnReplies
  <2> DEFINE Pairs == [call : Calls, reply : Calls \cup {NoCall}]
  <2>a. answered \in Seq(Pairs) /\ executed \in Seq(Calls)
    BY DEF ClientInv, BaseInv, TypeOK
  <2>b. answered[i] \in Pairs /\ Len(answered) \in Nat /\ Len(executed) \in Nat
    <3> HIDE DEF Pairs
    <3> QED
      BY ONLY <2>a, i \in 1..Len(answered)
  <2>1. /\ answered[i] \in [call : Calls, reply : Calls \cup {NoCall}]
        /\ Len(answered) \in Nat /\ Len(executed) \in Nat
    BY <2>b
  <2>2. answered[i].call = accepted[i] /\ answered[i].reply = executed[i]
    BY DEF ClientInv, PipelineInv, HandlersInOrder, RepliesInOrder
  <2>3. i \in 1..Len(executed)
    BY <2>1 DEF ClientInv, PipelineInv, RepliesInOrder
  <2>4. executed[i] = accepted[i]
    BY <2>3 DEF ClientInv, PipelineInv, ExecutionInOrder
  <2>5. QED
    BY <2>1, <2>2, <2>4
<1>2. QED
  BY <1>1, ClientInvInit, ClientInvStep, PTL DEF Spec

LEMMA PipeInit == Init => Pipe!Init
BY DEF Init, Pipe!Init

LEMMA PipeStep ==
  ASSUME NoSubscriptions, ClientInv, [Next]_vars
  PROVE  [Pipe!Next]_Pipe!pipeVars
<1> USE DEF Pipe!pipeVars
<1>0. TypeOK /\ WriteDiscipline /\ PipelineInv /\ Lengths
  BY LengthsOK DEF ClientInv, BaseInv
<1>1. CASE UNCHANGED <<accepted, executed, answered>>
  BY <1>1
<1>2. ASSUME NEW c \in Commands, command(c)
      PROVE  Pipe!Next
  <2>1. c \in Calls /\ call[c] = "checked" /\ accepted' = Append(accepted, c)
          /\ UNCHANGED <<executed, answered>>
    BY <1>2, OnlyCommands DEF command, Post
  <2>2. \A i \in 1..Len(accepted) : accepted[i] # c
    BY <1>0, <2>1 DEF PipelineInv, AcceptedAreDone
  <2>3. Pipe!Accept(c)
    BY <2>1, <2>2 DEF Pipe!Accept
  <2>4. QED
    BY <2>1, <2>3 DEF Pipe!Next
<1>3. CASE Serve
  <2>1. toServer # <<>> /\ toServer \in Seq(Calls)
          /\ executed' = Append(executed, Head(toServer)) /\ UNCHANGED <<accepted, answered>>
    BY <1>0, <1>3 DEF Serve, TypeOK
  <2>2. Head(toServer) = toServer[1] /\ Len(toServer) >= 1
    BY <2>1
  <2>3. toServer[1] = accepted[Len(executed) + 1]
    BY <1>0, <2>2 DEF PipelineInv, ExecutionInOrder, Lengths
  <2>4. Len(executed) < Len(accepted)
    <3>1. Len(executed) + Len(toServer) + Unsent + Len(strand) <= Len(accepted) /\ Unsent \in Nat
      BY <1>0, UnsentIsNat DEF PipelineInv, ExecutionInOrder
    <3>2. QED
      BY <1>0, <2>2, <3>1 DEF Lengths
  <2>5. QED
    BY <2>1, <2>2, <2>3, <2>4 DEF Pipe!Next, Pipe!Execute
<1>4. CASE parseReply
  <2>1. UNCHANGED <<accepted, executed>> /\ inbuf # <<>>
    BY <1>0, <1>4, ParseCases DEF PipelineInv
  <2>2. CASE /\ handlers # <<>>
             /\ answered' = Append(answered, [call |-> Head(handlers), reply |-> Head(inbuf).call])
    <3>1. Head(handlers) = handlers[1] /\ Head(inbuf) = inbuf[1]
            /\ Len(handlers) >= 1 /\ Len(inbuf) >= 1
      BY <1>0, <2>1, <2>2 DEF TypeOK
    <3>2. handlers[1] = accepted[Len(answered) + 1]
      BY <1>0, <3>1 DEF PipelineInv, HandlersInOrder, Lengths
    <3>3. inbuf[1].call = executed[Len(answered) + 1] /\ Len(answered) < Len(executed)
      BY <1>0, <2>1, <3>1 DEF PipelineInv, RepliesInOrder, Lengths
    <3>4. executed[Len(answered) + 1] = accepted[Len(answered) + 1]
      BY <1>0, <3>3 DEF PipelineInv, ExecutionInOrder, Lengths
    <3>5. QED
      BY <2>1, <2>2, <3>1, <3>2, <3>3, <3>4 DEF Pipe!Next, Pipe!Answer
  <2>3. CASE UNCHANGED answered
    BY <1>1, <2>1, <2>3
  <2>4. QED
    BY <1>0, <1>4, <2>2, <2>3, ParseCases DEF PipelineInv
<1>5. QED
  BY <1>0, <1>1, <1>2, <1>3, <1>4, NextCases, NoMessageTask
     DEF PipelineInv, installErrorHandler, connect, close, stateValid, Refuse,
         handleAsyncConnect, doAsyncCommand, asyncWrite, asyncRead, Establish, Transmit,
         Break, Publish, vars, clientVars, ioVars, serverVars, history

\* A client used for commands only implements the ordered pipe.
THEOREM ClientImplementsPipe ==
  ASSUME NoSubscriptions
  PROVE  Spec => ImplementsPipe
<1>1. Init => Pipe!Init
  BY PipeInit
<1>2. QED
  BY <1>1, ClientInvInit, ClientInvStep, PipeStep, PTL
     DEF Spec, ImplementsPipe, Pipe!Spec
=============================================================================
