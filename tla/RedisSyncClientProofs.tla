----------------------- MODULE RedisSyncClientProofs -----------------------
(***************************************************************************)
(* Proof that the synchronous client, called by one thread at a time,      *)
(* returns to every call the reply to its own command.                     *)
(*                                                                         *)
(* OwnReply is not inductive: a call returns the first reply it finds, so  *)
(* the invariant says whose reply that is.  OneAtATime does: until an      *)
(* error has been reported, everything on its way to or from Redis belongs *)
(* to the one call in progress.                                            *)
(***************************************************************************)
EXTENDS RedisSyncClient, TLAPS

SyncInv == TypeOK /\ OneAtATime /\ OwnReply

LEMMA SyncInit == Init => SyncInv
<1> SUFFICES ASSUME Init PROVE SyncInv
  OBVIOUS
<1>1. TypeOK
  BY DEF Init, TypeOK
<1>2. ~Told
  BY SyncAssumption DEF Init, Told
<1>3. OneAtATime
  BY DEF Init, OneAtATime
<1>4. OwnReply
  BY SyncAssumption DEF Init, OwnReply
<1>5. QED
  BY <1>1, <1>3, <1>4 DEF SyncInv

\* A call that has not returned yet returns v.
LEMMA ReturnKeeps ==
  ASSUME TypeOK, OneAtATime, NEW c \in Calls, phase[c] # "done",
         NEW v \in Calls \cup {Raised, Null}, Return(c, v)
  PROVE  /\ phase' \in [Calls -> {"idle", "reading", "done"}]
         /\ outcome' \in [Calls -> Calls \cup {Pending, Raised, Null}]
         /\ \A a, b \in Calls : phase'[a] = "reading" /\ phase'[b] = "reading" => a = b
         /\ \A a \in Calls : phase'[a] # "done" => outcome'[a] = Pending
         /\ \A a \in Calls : a # c => outcome'[a] = outcome[a] /\ phase'[a] = phase[a]
         /\ outcome'[c] = v /\ phase'[c] = "done"
         /\ Told => Told'
<1>1. /\ phase' = [phase EXCEPT ![c] = "done"] /\ outcome' = [outcome EXCEPT ![c] = v]
      /\ phase \in [Calls -> {"idle", "reading", "done"}]
      /\ outcome \in [Calls -> Calls \cup {Pending, Raised, Null}]
  BY DEF Return, TypeOK
<1>2. /\ \A a \in Calls : a # c => outcome'[a] = outcome[a] /\ phase'[a] = phase[a]
      /\ outcome'[c] = v /\ phase'[c] = "done"
  BY <1>1
<1>3. Told => Told'
  <2>1. outcome[c] \notin {Raised, Null}
    BY SyncAssumption DEF OneAtATime
  <2>2. QED
    BY <1>2, <2>1 DEF Told
<1>4. QED
  BY <1>1, <1>2, <1>3 DEF OneAtATime

\* Once an error has been reported little is left to show.
LEMMA AfterTold ==
  ASSUME Told', TypeOK',
         \A a, b \in Calls : phase'[a] = "reading" /\ phase'[b] = "reading" => a = b,
         \A a \in Calls : phase'[a] # "done" => outcome'[a] = Pending
  PROVE  SyncInv'
BY DEF SyncInv, OneAtATime, OwnReply

LEMMA ReturnErrorStep ==
  ASSUME SyncInv, NEW c \in Calls, phase[c] # "done",
         Return(c, Raised) \/ Return(c, Null),
         TypeOK => /\ state' \in {"NotConnected", "Connected"}
                   /\ errorHandler' \in {"default", "custom"}
                   /\ alive' \in BOOLEAN
                   /\ socket' \in {"none", "up", "broken"}
                   /\ toServer' \in Seq(Calls) /\ toClient' \in Seq(Wire)
  PROVE  SyncInv'
<1>1. PICK v \in {Raised, Null} : Return(c, v)
  OBVIOUS
<1>2. /\ phase' \in [Calls -> {"idle", "reading", "done"}]
      /\ outcome' \in [Calls -> Calls \cup {Pending, Raised, Null}]
      /\ \A a, b \in Calls : phase'[a] = "reading" /\ phase'[b] = "reading" => a = b
      /\ \A a \in Calls : phase'[a] # "done" => outcome'[a] = Pending
      /\ outcome'[c] = v
  BY <1>1, ReturnKeeps DEF SyncInv
<1>3. Told'
  BY <1>2 DEF Told
<1>4. TypeOK'
  BY <1>2 DEF TypeOK, SyncInv
<1>5. QED
  BY <1>2, <1>3, <1>4, AfterTold

LEMMA WriteStep ==
  ASSUME SyncInv, ~Shared, NEW c \in Calls, write(c)
  PROVE  SyncInv'
<1> USE DEF clientVars
<1>0. TypeOK /\ OneAtATime /\ OwnReply
  BY DEF SyncInv
<1>1. phase[c] = "idle" /\ \A d \in Calls : phase[d] # "reading"
  BY DEF write, MayCall
<1>2. CASE ReturnError(c)
  <2>1. Return(c, Raised) \/ Return(c, Null)
    BY <1>2 DEF ReturnError
  <2>2. toServer' \in Seq(Calls) /\ UNCHANGED <<state, errorHandler, alive, socket, toClient>>
    BY <1>0 DEF write, TypeOK
  <2>3. QED
    BY <1>0, <1>1, <2>1, <2>2, ReturnErrorStep DEF TypeOK
<1>3. CASE /\ phase' = [phase EXCEPT ![c] = "reading"]
           /\ toServer' = Append(toServer, c) \/ toServer' = toServer
           /\ UNCHANGED <<outcome, state, errorHandler, alive, socket, toClient>>
  <2>1. TypeOK'
    BY <1>0, <1>3 DEF TypeOK
  <2>2. phase'[c] = "reading" /\ \A a \in Calls : a # c => phase'[a] = phase[a]
    BY <1>0, <1>3 DEF TypeOK
  <2>3. /\ \A a, b \in Calls : phase'[a] = "reading" /\ phase'[b] = "reading" => a = b
        /\ \A a \in Calls : phase'[a] # "done" => outcome'[a] = Pending
    BY <1>0, <1>1, <1>3, <2>2 DEF OneAtATime
  <2>4. Told' = Told
    BY <1>3 DEF Told
  <2>5. OwnReply'
    BY <1>0, <1>3, <2>4 DEF OwnReply
  <2>6. CASE Told
    BY <2>1, <2>3, <2>4, <2>6, AfterTold
  <2>7. CASE ~Told
    <3>1. toServer = <<>>
      <4>1. ASSUME toServer # <<>> PROVE FALSE
        <5>1. 1 \in 1..Len(toServer) /\ toServer[1] \in Calls
          BY <1>0, <4>1 DEF TypeOK
        <5>2. QED
          BY <1>0, <1>1, <2>7, <5>1 DEF OneAtATime
      <4>2. QED
        BY <4>1
    <3>2. toClient = <<>>
      <4>1. ASSUME toClient # <<>> PROVE FALSE
        <5>1. 1 \in 1..Len(toClient) /\ toClient[1] \in Wire
          BY <1>0, <4>1 DEF TypeOK
        <5>2. toClient[1].call \in Calls
          BY <5>1 DEF Wire
        <5>3. QED
          BY <1>0, <1>1, <2>7, <5>1, <5>2 DEF OneAtATime
      <4>2. QED
        BY <4>1
    <3>3. toClient' = <<>> /\ (toServer' = <<c>> \/ toServer' = <<>>)
      BY <1>3, <3>1, <3>2
    <3>4. /\ Len(toServer') <= 1 /\ Len(toClient') = 0
          /\ \A i \in 1..Len(toServer') : phase'[toServer'[i]] = "reading"
      <4>1. CASE toServer' = <<c>>
        <5>1. Len(toServer') = 1 /\ toServer'[1] = c
          BY ONLY <4>1
        <5>2. QED
          BY ONLY <2>2, <3>3, <5>1
      <4>2. CASE toServer' = <<>>
        BY ONLY <3>3, <4>2
      <4>3. QED
        BY <3>3, <4>1, <4>2
    <3>5. OneAtATime'
      BY <2>3, <3>3, <3>4 DEF OneAtATime
    <3>6. QED
      BY <2>1, <2>5, <3>5 DEF SyncInv
  <2>8. QED
    BY <2>6, <2>7
<1>4. QED
  BY <1>2, <1>3 DEF write

LEMMA ReadStep ==
  ASSUME SyncInv, NEW c \in Calls, read(c)
  PROVE  SyncInv'
<1> USE DEF clientVars
<1>0. TypeOK /\ OneAtATime /\ OwnReply /\ phase[c] = "reading"
  BY DEF SyncInv, read
<1>1. PICK k \in 1..Len(toClient) : toClient' = SubSeq(toClient, k + 1, Len(toClient))
  BY DEF read, Consume
<1>2. /\ toClient' \in Seq(Wire)
      /\ Len(toClient) \in Nat /\ Len(toClient) >= 1
      /\ Head(toClient) = toClient[1] /\ Head(toClient) \in Wire
      /\ UNCHANGED <<state, errorHandler, alive, socket, toServer>>
  <2>1. toClient \in Seq(Wire)
    BY <1>0 DEF TypeOK
  <2>2. QED
    BY <1>1, <2>1 DEF read
<1>3. CASE ReturnError(c)
  <2>1. Return(c, Raised) \/ Return(c, Null)
    BY <1>3 DEF ReturnError
  <2>2. QED
    BY <1>0, <1>2, <2>1, ReturnErrorStep DEF TypeOK
<1>4. CASE Head(toClient).kind # "garbage" /\ Return(c, Head(toClient).call)
  <2> DEFINE v == Head(toClient).call
  <2>1. v \in Calls
    BY <1>2 DEF Wire
  <2>2. /\ phase' \in [Calls -> {"idle", "reading", "done"}]
        /\ outcome' \in [Calls -> Calls \cup {Pending, Raised, Null}]
        /\ \A a, b \in Calls : phase'[a] = "reading" /\ phase'[b] = "reading" => a = b
        /\ \A a \in Calls : phase'[a] # "done" => outcome'[a] = Pending
        /\ \A a \in Calls : a # c => outcome'[a] = outcome[a] /\ phase'[a] = phase[a]
        /\ outcome'[c] = v /\ phase'[c] = "done"
        /\ Told => Told'
    <3> HIDE DEF v
    <3>1. Return(c, v)
      BY <1>4 DEF v
    <3>2. QED
      BY <1>0, <2>1, <3>1, ReturnKeeps
  <2>3. TypeOK'
    BY <1>0, <1>2, <2>2 DEF TypeOK
  <2>4. CASE Told
    BY <2>2, <2>3, <2>4, AfterTold
  <2>5. CASE ~Told
    <3>1. Len(toClient) = 1 /\ toServer = <<>>
      BY <1>0, <1>2, <1>4, <2>5 DEF OneAtATime
    <3>2. phase[v] = "reading"
      BY <1>0, <1>2, <2>5 DEF OneAtATime
    <3>3. v = c
      BY <1>0, <2>1, <3>2 DEF OneAtATime
    <3>4. toClient' = <<>> /\ toServer' = <<>>
      <4>1. k = 1
        BY <1>1, <3>1
      <4>2. toClient \in Seq(Wire)
        BY <1>0 DEF TypeOK
      <4>3. QED
        BY <1>1, <1>2, <3>1, <4>1, <4>2
    <3>5. OneAtATime'
      BY <2>2, <3>4 DEF OneAtATime
    <3>6. OwnReply'
      <4>1. ASSUME NEW a \in Calls, outcome'[a] \in Calls PROVE outcome'[a] = a \/ Told'
        BY <1>0, <2>2, <2>5, <3>3, <4>1 DEF OwnReply
      <4>2. QED
        BY <4>1 DEF OwnReply
    <3>7. QED
      BY <2>3, <3>5, <3>6 DEF SyncInv
  <2>6. QED
    BY <2>4, <2>5
<1>5. QED
  BY <1>3, <1>4 DEF read

LEMMA ServeStep ==
  ASSUME SyncInv, Serve
  PROVE  SyncInv'
<1> USE DEF clientVars
<1>0. TypeOK /\ OneAtATime /\ OwnReply
  BY DEF SyncInv
<1> DEFINE c == Head(toServer)
<1>1. /\ c \in Calls /\ Len(toServer) \in Nat /\ Len(toServer) >= 1 /\ c = toServer[1]
      /\ toServer' = Tail(toServer) /\ toServer' \in Seq(Calls)
  BY <1>0 DEF Serve, TypeOK
<1>2. /\ \/ toClient' = Append(toClient, Bytes("reply", c))
         \/ toClient' = toClient \o <<Bytes("garbage", c), Bytes("rest", c)>>
         \/ toClient' = toClient
      /\ UNCHANGED <<state, errorHandler, phase, outcome, alive, socket>>
  BY DEF Serve
<1> HIDE DEF c
<1>3. \A kind \in {"reply", "garbage", "rest"} : Bytes(kind, c) \in Wire
  BY <1>1 DEF Bytes, Wire
<1>4. toClient' \in Seq(Wire)
  <2>1. toClient \in Seq(Wire)
    BY <1>0 DEF TypeOK
  <2>2. <<Bytes("garbage", c), Bytes("rest", c)>> \in Seq(Wire)
    BY <1>3
  <2> DEFINE r == Bytes("reply", c)
             g == <<Bytes("garbage", c), Bytes("rest", c)>>
  <2>3. r \in Wire
    BY <1>3
  <2>4. toClient' = Append(toClient, r) \/ toClient' = toClient \o g \/ toClient' = toClient
    BY <1>2
  <2> HIDE DEF r, g
  <2>5. g \in Seq(Wire)
    BY <2>2 DEF g
  <2>6. Append(toClient, r) \in Seq(Wire)
    BY ONLY <2>1, <2>3
  <2>7. toClient \o g \in Seq(Wire)
    BY ONLY <2>1, <2>5
  <2>8. QED
    BY <2>1, <2>4, <2>6, <2>7, Zenon
<1>5. TypeOK'
  BY <1>0, <1>1, <1>2, <1>4 DEF TypeOK
<1>6. Told' = Told
  BY <1>2 DEF Told
<1>7. OwnReply'
  BY <1>0, <1>2, <1>6 DEF OwnReply
<1>8. CASE Told
  BY <1>0, <1>2, <1>5, <1>6, <1>8, AfterTold DEF OneAtATime
<1>9. CASE ~Told
  <2>0. /\ \A i \in 1..Len(toServer) : phase[toServer[i]] = "reading"
        /\ toServer = <<>> \/ toClient = <<>>
        /\ Len(toServer) <= 1
    BY <1>0, <1>9 DEF OneAtATime
  <2>a. 1 \in 1..Len(toServer) /\ toServer # <<>>
    BY <1>1 DEF Serve
  <2>1. Len(toServer) = 1 /\ toClient = <<>> /\ phase[c] = "reading"
    <3>a. Len(toServer) \in Nat /\ Len(toServer) >= 1 /\ Len(toServer) <= 1
      BY <1>1, <2>0
    <3>b. \A n \in Nat : n >= 1 /\ n <= 1 => n = 1
      OBVIOUS
    <3>1. Len(toServer) = 1
      BY <3>a, <3>b, Zenon
    <3>2. toClient = <<>>
      BY ONLY <2>0, <2>a
    <3>3. phase[c] = "reading"
      BY <1>1, <2>0, <2>a
    <3>4. QED
      BY <3>1, <3>2, <3>3
  <2>2. toServer' = <<>>
    BY <1>0, <1>1, <2>1 DEF TypeOK
  <2>3. \/ toClient' = <<>>
        \/ /\ Len(toClient') = 1 /\ toClient'[1] = Bytes("reply", c)
        \/ /\ Len(toClient') = 2 /\ toClient'[1] = Bytes("garbage", c)
           /\ toClient'[2] = Bytes("rest", c)
    BY <1>2, <2>1
  <2>4. \/ toClient' = <<>>
        \/ Len(toClient') = 1 /\ toClient'[1].kind = "reply"
        \/ Len(toClient') = 2 /\ toClient'[1].kind = "garbage"
    BY <2>3 DEF Bytes
  <2>5. ASSUME NEW i \in 1..Len(toClient') PROVE phase'[toClient'[i].call] = "reading"
    <3>1. toClient'[i].call = c
      BY <2>3, <2>5 DEF Bytes
    <3>2. QED
      BY <1>2, <2>1, <3>1
  <2>6. OneAtATime'
    BY <1>0, <1>2, <2>2, <2>4, <2>5 DEF OneAtATime
  <2>7. QED
    BY <1>5, <1>7, <2>6 DEF SyncInv
<1>10. QED
  BY <1>8, <1>9

LEMMA SyncStep ==
  ASSUME ~Shared, SyncInv, [Next]_vars
  PROVE  SyncInv'
<1> USE DEF clientVars
<1>1. CASE UNCHANGED <<phase, outcome, alive, toServer, toClient>>
           /\ state' \in {"NotConnected", "Connected"}
           /\ errorHandler' \in {"default", "custom"}
           /\ socket' \in {"none", "up", "broken"}
  BY <1>1 DEF SyncInv, TypeOK, OneAtATime, OwnReply, Told
<1>2. CASE connect \/ installErrorHandler \/ Break \/ UNCHANGED vars
  BY <1>1, <1>2 DEF connect, installErrorHandler, Break, vars, SyncInv, TypeOK
<1>3. ASSUME NEW c \in Calls, stateValid(c) PROVE SyncInv'
  <2>1. alive' \in BOOLEAN
    BY <1>3, Zenon DEF stateValid
  <2>2. phase[c] # "done" /\ UNCHANGED <<state, errorHandler, socket, toServer, toClient>>
    BY <1>3 DEF stateValid, MayCall
  <2>3. CASE Asserts
    <3>1. UNCHANGED <<phase, outcome>>
      BY <1>3, <2>3 DEF stateValid
    <3>2. QED
      BY <2>1, <2>2, <3>1 DEF SyncInv, TypeOK, OneAtATime, OwnReply, Told
  <2>4. CASE ~Asserts
    <3>1. Return(c, Raised) \/ Return(c, Null)
      BY <1>3, <2>4 DEF stateValid, ReturnError
    <3>2. QED
      BY <2>1, <2>2, <3>1, ReturnErrorStep DEF TypeOK
  <2>5. QED
    BY <2>3, <2>4
<1>4. ASSUME NEW c \in Calls, readFails(c) PROVE SyncInv'
  BY <1>4, ReturnErrorStep DEF readFails, TypeOK
<1>5. QED
  BY <1>2, <1>3, <1>4, WriteStep, ReadStep, ServeStep DEF Next, Caller

\* Called by one thread at a time, and for any number of calls, the client
\* returns to every call the reply to its own command until an error has been
\* reported to a caller.
THEOREM SyncOwnReply ==
  ASSUME ~Shared
  PROVE  Spec => []OwnReply
<1>1. SyncInv => OwnReply
  BY DEF SyncInv
<1>2. QED
  BY <1>1, SyncInit, SyncStep, PTL DEF Spec

\* Called by one thread at a time, nothing that belongs to another call than
\* the one in progress is on its way to or from Redis, until an error has been
\* reported to a caller.
THEOREM SyncOneAtATime ==
  ASSUME ~Shared
  PROVE  Spec => []OneAtATime
<1>1. SyncInv => OneAtATime
  BY DEF SyncInv
<1>2. QED
  BY <1>1, SyncInit, SyncStep, PTL DEF Spec
=============================================================================
