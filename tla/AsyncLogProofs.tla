--------------------------- MODULE AsyncLogProofs ---------------------------
(***************************************************************************)
(* Three promises of the asynchronous logger for any number of threads,    *)
(* calls, places and sinks: sinks are given what was logged, in each       *)
(* thread's order and once; a flush request covers what had been logged    *)
(* before it; and a worker that ended left nothing in the queue.           *)
(*                                                                         *)
(* The three rest on one invariant, which follows a message from the call  *)
(* through its place in the queue to the worker's hands and the sinks.  A  *)
(* message must find certain others ahead of it: a log message those its   *)
(* thread logged before, a flush request those it covers.  As places are   *)
(* taken in order, what is ahead in the queue is ahead in the sinks.       *)
(***************************************************************************)
EXTENDS AsyncLog, SequenceTheorems, FiniteSetTheorems, FunctionTheorems, TLAPS

LogMessages == [type : {"log"}, by : Callers, call : Nat, covers : {{}}]
AllMessages == [type : {"log", "flush", "terminate"}, by : Callers, call : Nat,
                covers : SUBSET LogMessages]
UsedPlaces == [state : {"filling", "ready", "emptying"},
            by : Callers \cup {WorkerThread, Nobody}, item : AllMessages]

AsyncTypeOK ==
  /\ slots \in Seq(UsedPlaces)
  /\ outcome \in [Callers \cup {WorkerThread} -> Queue!Outcomes]
  /\ got \in [Callers \cup {WorkerThread} -> AllMessages \cup {NoMessage}]
  /\ doing \in [Callers -> {"idle", "push", "fill", "join"}]
  /\ msg \in [Callers -> AllMessages \cup {NoMessage}]
  /\ calls \in Nat
  /\ logged \in [Callers -> Seq(LogMessages)]
  /\ destroyed \in {"no", "begun", "done", "aborted"}
  /\ worker \in {"dequeue", "release", "process", "quiet", "ended", "dead"}
  /\ flush_requested \in BOOLEAN /\ terminate_requested \in BOOLEAN
  /\ written \in [SinkIds -> Seq(LogMessages)]
  /\ flushed \in [SinkIds -> Nat]
  /\ promised \subseteq LogMessages

-----------------------------------------------------------------------------
(* Where a message is.                                                     *)

Holding == worker \in {"release", "process"}
Held(x) == Holding /\ got[WorkerThread] = x
InSink(s, x) == \E i \in 1 .. Len(written[s]) : written[s][i] = x
GivenAt(s, i, x) == s \in SinkIds /\ i \in 1 .. Len(written[s]) /\ written[s][i] = x
Done(x) == \A s \in SinkIds : InSink(s, x)
InLog(t, x) == \E i \in 1 .. Len(logged[t]) : logged[t][i] = x
IsLogged(x) == \E t \in Callers : InLog(t, x)

ReadyAt(i, x) == i \in 1 .. Len(slots) /\ slots[i].state = "ready" /\ slots[i].item = x
FillingAt(i, t, x) ==
  /\ i \in 1 .. Len(slots) /\ slots[i].state = "filling"
  /\ slots[i].by = t /\ slots[i].item = x
Pushing(t, x) == doing[t] = "push" /\ msg[t] = x
Sending(t, x) == doing[t] \in {"push", "fill"} /\ msg[t] = x

\* x is in the sinks before whatever has the place n, or before what comes next.
Ahead(x, n) == Done(x) \/ Held(x) \/ \E i \in 1 .. n - 1 : ReadyAt(i, x)
AheadOfAll(x) == Done(x) \/ Held(x) \/ \E i \in 1 .. Len(slots) : ReadyAt(i, x)

\* x must be in the sinks before m.
Earlier(x, m) ==
  /\ m.type = "log"
  /\ \E k \in 1 .. Len(logged[m.by]) :
       logged[m.by][k] = m /\ \E h \in 1 .. k - 1 : logged[m.by][h] = x
Precedes(x, m) == x \in m.covers \/ Earlier(x, m)

-----------------------------------------------------------------------------
(* The invariant.                                                          *)

\* What a caller is about to send is its own.
CallsInv ==
  \A t \in Callers : \A m : Sending(t, m) =>
    /\ m \in AllMessages /\ m.by = t
    /\ m.type = "log" => m \in LogMessages /\ m.call < calls
    /\ \A x \in m.covers : IsLogged(x)

\* A place being emptied is the oldest, one being filled is its caller's only
\* one; what is ready, held or in a sink has been logged.
PlacesInv ==
  /\ \A i \in 1 .. Len(slots) : slots[i].state = "emptying" => i = 1 /\ worker = "release"
  /\ \A i, t, m : FillingAt(i, t, m) => t \in Callers /\ doing[t] = "fill" /\ msg[t] = m
  /\ \A i, j, t, m, n : FillingAt(i, t, m) /\ FillingAt(j, t, n) => i = j
  /\ \A i, m : ReadyAt(i, m) =>
       (m.type = "log" => IsLogged(m)) /\ \A x \in m.covers : IsLogged(x)
  /\ \A m : Held(m) => m \in AllMessages /\ (m.type = "log" => IsLogged(m))
  /\ \A t \in Callers : \A x : InLog(t, x) => x.by = t
  /\ \A s \in SinkIds : \A x : InSink(s, x) => IsLogged(x)

\* No log message is anywhere twice.
OnceInv ==
  /\ \A t \in Callers : \A m : Pushing(t, m) => ~IsLogged(m)
  /\ \A x : IsLogged(x) => x.call < calls
  /\ \A i, t, m : FillingAt(i, t, m) => ~IsLogged(m)
  /\ \A i, m : ReadyAt(i, m) /\ m.type = "log" =>
       /\ ~Held(m) /\ \A s \in SinkIds : ~InSink(s, m)
       /\ \A j : ReadyAt(j, m) => i = j
  /\ \A m : Held(m) /\ m.type = "log" => \A s \in SinkIds : ~InSink(s, m)
  /\ \A t \in Callers : \A i, j \in 1 .. Len(logged[t]) : logged[t][i] = logged[t][j] => i = j
  /\ \A s \in SinkIds : \A i, j \in 1 .. Len(written[s]) :
       written[s][i] = written[s][j] => i = j

\* What a sink was given came after those that must precede it.
SinksInOrder ==
  \A s, i, m, x : GivenAt(s, i, m) /\ Earlier(x, m) => \E j : GivenAt(s, j, x) /\ j < i

\* Whatever is sent is behind those that must precede it.
AheadInv ==
  /\ worker # "dead" =>
       /\ \A x : IsLogged(x) => AheadOfAll(x)
       /\ \A i, t, m : FillingAt(i, t, m) =>
            /\ \A x \in m.covers : Ahead(x, i)
            /\ \A x : InLog(t, x) => Ahead(x, i)
       /\ \A i, m : ReadyAt(i, m) => \A x : Precedes(x, m) => Ahead(x, i)
  /\ \A m : Held(m) => \A x : Precedes(x, m) => Done(x)
  /\ SinksInOrder

\* What a flush request promised is in the sinks, and flushed once it is seen to.
FlushInv ==
  /\ \A s \in SinkIds : flushed[s] <= Len(written[s])
  /\ worker # "dead" => \A x \in promised : Done(x)
  /\ worker # "dead" /\ ~flush_requested => \A s \in SinkIds : promised \subseteq OnDisk(s)

\* The last message is the last: nobody is in a call when it has been sent.
Terminating ==
  \/ terminate_requested
  \/ \E i, m : ReadyAt(i, m) /\ m.type = "terminate"
  \/ \E m : Held(m) /\ m.type = "terminate"
EndInv ==
  /\ \A t \in Callers : \A m : Sending(t, m) /\ m.type = "terminate" =>
       destroyed = "begun" /\ \A u \in Callers : u # t => doing[u] = "idle"
  /\ Terminating =>
       destroyed \in {"begun", "done"} /\ \A u \in Callers : doing[u] \in {"idle", "join"}
  /\ terminate_requested => flush_requested \/ worker \in {"ended", "dead"}
  /\ terminate_requested /\ worker \in {"quiet", "ended"} => slots = <<>>
  /\ worker = "ended" =>
       terminate_requested /\ \A s \in SinkIds : flushed[s] = Len(written[s])

AsyncInv ==
  /\ AsyncTypeOK /\ CallsInv /\ PlacesInv /\ OnceInv /\ AheadInv /\ FlushInv /\ EndInv

-----------------------------------------------------------------------------
(* What the calls of the queue do to the places.                           *)

\* The oldest place freed, the others move up.
LEMMA TrimmedIs ==
  ASSUME NEW q \in Seq(UsedPlaces), NEW f, Len(q) > 0,
         f = [q EXCEPT ![1] = Queue!FreeSlot]
  PROVE  /\ Queue!Trimmed(f) \in Seq(UsedPlaces)
         /\ Len(Queue!Trimmed(f)) = Len(q) - 1
         /\ \A i \in 1 .. Len(q) - 1 : Queue!Trimmed(f)[i] = q[i + 1]
<1> DEFINE n == Len(q)
           used == {i \in DOMAIN f : f[i].state # "free"}
<1>1. n \in Nat /\ n > 0 /\ DOMAIN q = 1 .. n /\ \A i \in 1 .. n : q[i] \in UsedPlaces
  BY LenProperties, ElementOfSeq
<1>2. /\ DOMAIN f = 1 .. n /\ f[1].state = "free"
      /\ \A i \in 2 .. n : f[i] = q[i] /\ f[i].state # "free"
  BY <1>1 DEF Queue!FreeSlot, UsedPlaces
<1>3. Len(f) = n
  BY <1>1, <1>2
<1>4. used = 2 .. n
  BY <1>1, <1>2
<1>5. CASE n = 1
  <2>1. used = {}
    BY <1>4, <1>5
  <2>2. Queue!Trimmed(f) = <<>>
    BY <2>1 DEF Queue!Trimmed
  <2> QED
    BY <1>5, <2>2, EmptySeq
<1>6. CASE n > 1
  <2>1. 2 \in used /\ used # {}
    BY <1>1, <1>4, <1>6
  <2>2. (CHOOSE i \in used : \A j \in used : i <= j) = 2
    <3>1. \A i \in used : i \in Int /\ 2 <= i
      BY <1>4
    <3> HIDE DEF used
    <3>2. 2 \in used /\ \A j \in used : 2 <= j
      BY <2>1, <3>1
    <3>3. \A i \in used : (\A j \in used : i <= j) => i = 2
      BY <2>1, <3>1
    <3> QED
      BY <3>2, <3>3
  <2>3. Queue!Trimmed(f) = SubSeq(f, 2, n)
    BY <1>3, <2>1, <2>2 DEF Queue!Trimmed
  <2>4. SubSeq(f, 2, n) = SubSeq(q, 2, n)
    BY <1>1, <1>2, <1>3
  <2> HIDE DEF n
  <2>5. /\ SubSeq(q, 2, n) \in Seq(UsedPlaces)
        /\ Len(SubSeq(q, 2, n)) = n - 1
        /\ \A i \in 1 .. n - 1 : SubSeq(q, 2, n)[i] = q[i + 1]
    <3>1. 2 \in Int /\ n \in Int /\ 2 <= n
      BY <1>1, <1>6
    <3>2. \A i \in 2 .. n : q[i] \in UsedPlaces
      BY <1>1
    <3>3. /\ SubSeq(q, 2, n) \in Seq(UsedPlaces)
          /\ Len(SubSeq(q, 2, n)) = n - 2 + 1
          /\ \A i \in 1 .. n - 2 + 1 : SubSeq(q, 2, n)[i] = q[2 + i - 1]
      BY <3>1, <3>2, SubSeqProperties
    <3>4. n - 2 + 1 = n - 1 /\ \A i \in 1 .. n - 1 : 2 + i - 1 = i + 1
      BY <3>1
    <3> QED
      BY <3>3, <3>4
  <2> QED
    BY <2>3, <2>4, <2>5 DEF n
<1>7. n = 1 \/ n > 1
  BY <1>1
<1> HIDE DEF used
<1> QED
  BY <1>5, <1>6, <1>7

LEMMA AppendElements ==
  ASSUME NEW S, NEW q \in Seq(S), NEW x \in S
  PROVE  /\ Append(q, x) \in Seq(S) /\ Len(Append(q, x)) = Len(q) + 1
         /\ \A i \in 1 .. Len(q) : i \in 1 .. Len(Append(q, x)) /\ Append(q, x)[i] = q[i]
         /\ Append(q, x)[Len(q) + 1] = x
         /\ \A i \in 1 .. Len(Append(q, x)) : i \in 1 .. Len(q) \/ i = Len(q) + 1
         /\ Len(q) \in Nat /\ Len(q) + 1 \in 1 .. Len(Append(q, x))
<1>1. Len(q) \in Nat
  BY LenProperties
<1> QED
  BY <1>1, AppendProperties

\* The same in terms of where a message is ready or being filled in.
LEMMA Reserved ==
  ASSUME AsyncTypeOK, NEW t \in Callers, NEW m \in AllMessages, Queue!Reserve(t, m)
  PROVE  /\ slots' \in Seq(UsedPlaces) /\ Len(slots') = Len(slots) + 1 /\ Len(slots) \in Nat
         /\ \A i, x : ReadyAt(i, x)' <=> ReadyAt(i, x)
         /\ \A i, u, x : FillingAt(i, u, x)' <=>
              FillingAt(i, u, x) \/ (i = Len(slots) + 1 /\ u = t /\ x = m)
         /\ \A i \in 1 .. Len(slots') : slots'[i].state = "emptying" =>
              i \in 1 .. Len(slots) /\ slots[i].state = "emptying"
         /\ UNCHANGED <<outcome, got>>
<1> DEFINE p == [state |-> "filling", by |-> t, item |-> m]
<1>1. p \in UsedPlaces /\ slots \in Seq(UsedPlaces) /\ slots' = Append(slots, p)
  BY DEF UsedPlaces, AsyncTypeOK, Queue!Reserve
<1>2. p.state = "filling" /\ p.by = t /\ p.item = m
  OBVIOUS
<1> HIDE DEF p
<1>3. /\ slots' \in Seq(UsedPlaces) /\ Len(slots') = Len(slots) + 1
      /\ \A i \in 1 .. Len(slots) : i \in 1 .. Len(slots') /\ slots'[i] = slots[i]
      /\ slots'[Len(slots) + 1] = p
      /\ \A i \in 1 .. Len(slots') : i \in 1 .. Len(slots) \/ i = Len(slots) + 1
      /\ Len(slots) \in Nat /\ Len(slots) + 1 \in 1 .. Len(slots')
  BY <1>1, AppendElements
<1>4. \A i, x : ReadyAt(i, x)' <=> ReadyAt(i, x)
  BY <1>2, <1>3 DEF ReadyAt
<1>5. \A i, u, x : FillingAt(i, u, x)' <=>
        FillingAt(i, u, x) \/ (i = Len(slots) + 1 /\ u = t /\ x = m)
  <2>1. Len(slots) + 1 \notin 1 .. Len(slots)
    BY <1>3
  <2> QED
    BY <1>2, <1>3, <2>1 DEF FillingAt
<1> QED
  BY <1>2, <1>3, <1>4, <1>5 DEF Queue!Reserve

LEMMA Published ==
  ASSUME AsyncTypeOK, NEW t \in Callers, Queue!Publish(t)
  PROVE  \E i, m :
           /\ FillingAt(i, t, m)
           /\ slots' \in Seq(UsedPlaces) /\ Len(slots') = Len(slots) /\ Len(slots) \in Nat
           /\ \A j, x : ReadyAt(j, x)' <=> ReadyAt(j, x) \/ (j = i /\ x = m)
           /\ \A j, u, x : FillingAt(j, u, x)' <=> FillingAt(j, u, x) /\ j # i
           /\ \A j \in 1 .. Len(slots) : slots'[j].state = "emptying" =>
                slots[j].state = "emptying"
           /\ UNCHANGED got /\ outcome' = [outcome EXCEPT ![t] = "accepted"]
<1>1. PICK i \in DOMAIN slots :
        /\ slots[i].state = "filling" /\ slots[i].by = t
        /\ slots' = [slots EXCEPT ![i].state = "ready", ![i].by = Nobody]
        /\ outcome' = [outcome EXCEPT ![t] = "accepted"] /\ UNCHANGED got
  BY DEF Queue!Publish
<1>2. /\ slots \in Seq(UsedPlaces) /\ DOMAIN slots = 1 .. Len(slots) /\ Len(slots) \in Nat
      /\ \A j \in 1 .. Len(slots) : slots[j] \in UsedPlaces
  BY LenProperties, ElementOfSeq DEF AsyncTypeOK
<1> DEFINE p == [slots[i] EXCEPT !.state = "ready", !.by = Nobody]
           m == slots[i].item
<1>3. p \in UsedPlaces /\ p.state = "ready" /\ p.item = m /\ i \in 1 .. Len(slots)
  BY <1>1, <1>2 DEF UsedPlaces
<1>4. slots' = [slots EXCEPT ![i] = p]
  BY <1>1
<1> HIDE DEF p
<1>5. /\ slots' \in Seq(UsedPlaces) /\ Len(slots') = Len(slots)
      /\ \A j \in 1 .. Len(slots) : slots'[j] = IF j = i THEN p ELSE slots[j]
  BY <1>2, <1>3, <1>4, ExceptSeq
<1>6. FillingAt(i, t, m)
  BY <1>1, <1>3 DEF FillingAt
<1>7. \A j, x : ReadyAt(j, x)' <=> ReadyAt(j, x) \/ (j = i /\ x = m)
  BY <1>1, <1>3, <1>5 DEF ReadyAt
<1>8. \A j, u, x : FillingAt(j, u, x)' <=> FillingAt(j, u, x) /\ j # i
  BY <1>3, <1>5 DEF FillingAt
<1> HIDE DEF m
<1> QED
  BY <1>1, <1>2, <1>3, <1>5, <1>6, <1>7, <1>8

\* With no place being emptied, the worker takes the item at the first place.
LEMMA Taken ==
  ASSUME AsyncTypeOK, PlacesInv, worker = "dequeue", Queue!Take(WorkerThread)
  PROVE  \E m \in AllMessages :
           /\ ReadyAt(1, m) /\ got'[WorkerThread] = m
           /\ got' = [got EXCEPT ![WorkerThread] = m]
           /\ slots' \in Seq(UsedPlaces) /\ Len(slots') = Len(slots) /\ Len(slots) \in Nat
           /\ \A j, x : ReadyAt(j, x)' <=> ReadyAt(j, x) /\ j # 1
           /\ \A j, u, x : FillingAt(j, u, x)' <=> FillingAt(j, u, x)
           /\ \A j \in 1 .. Len(slots) : slots'[j].state = "emptying" =>
                j = 1 \/ slots[j].state = "emptying"
           /\ UNCHANGED outcome
<1>1. PICK i \in DOMAIN slots :
        /\ Queue!AtFront(i) /\ slots[i].state = "ready"
        /\ slots' = [slots EXCEPT ![i].state = "emptying", ![i].by = WorkerThread]
        /\ got' = [got EXCEPT ![WorkerThread] = slots[i].item] /\ UNCHANGED outcome
  BY DEF Queue!Take
<1>2. /\ slots \in Seq(UsedPlaces) /\ DOMAIN slots = 1 .. Len(slots) /\ Len(slots) \in Nat
      /\ \A j \in 1 .. Len(slots) : slots[j] \in UsedPlaces
  BY LenProperties, ElementOfSeq DEF AsyncTypeOK
<1>3. i = 1
  <2>1. \A j \in 1 .. Len(slots) : slots[j].state \notin {"emptying", "free"}
    BY <1>2 DEF PlacesInv, UsedPlaces
  <2>2. i > 1 => 1 \in 1 .. i - 1 /\ 1 \in 1 .. Len(slots)
    BY <1>2
  <2> QED
    BY <1>1, <1>2, <2>1, <2>2 DEF Queue!AtFront
<1> DEFINE p == [slots[1] EXCEPT !.state = "emptying", !.by = WorkerThread]
           m == slots[1].item
<1>4. p \in UsedPlaces /\ p.state = "emptying" /\ 1 \in 1 .. Len(slots) /\ m \in AllMessages
  BY <1>1, <1>2, <1>3 DEF UsedPlaces
<1>5. slots' = [slots EXCEPT ![1] = p]
  BY <1>1, <1>3
<1> HIDE DEF p
<1>6. /\ slots' \in Seq(UsedPlaces) /\ Len(slots') = Len(slots)
      /\ \A j \in 1 .. Len(slots) : slots'[j] = IF j = 1 THEN p ELSE slots[j]
  BY <1>2, <1>4, <1>5, ExceptSeq
<1>7. ReadyAt(1, m)
  BY <1>1, <1>3, <1>4 DEF ReadyAt
<1>8. \A j, x : ReadyAt(j, x)' <=> ReadyAt(j, x) /\ j # 1
  BY <1>4, <1>6 DEF ReadyAt
<1>9. \A j, u, x : FillingAt(j, u, x)' <=> FillingAt(j, u, x)
  BY <1>1, <1>3, <1>4, <1>6 DEF FillingAt
<1>10. got' = [got EXCEPT ![WorkerThread] = m] /\ got'[WorkerThread] = m
  BY <1>1, <1>3 DEF AsyncTypeOK
<1> HIDE DEF m
<1> QED
  BY <1>1, <1>2, <1>4, <1>6, <1>7, <1>8, <1>9, <1>10

LEMMA Released ==
  ASSUME AsyncTypeOK, PlacesInv, Queue!Release(WorkerThread)
  PROVE  /\ slots' \in Seq(UsedPlaces) /\ Len(slots') = Len(slots) - 1 /\ Len(slots) \in Nat
         /\ \A j, x : ReadyAt(j, x)' <=> ReadyAt(j + 1, x) /\ j \in Nat \ {0}
         /\ \A j, x : ReadyAt(j, x) => j - 1 \in Nat \ {0} /\ ReadyAt(j - 1, x)'
         /\ \A j, u, x : FillingAt(j, u, x)' <=> FillingAt(j + 1, u, x) /\ j \in Nat \ {0}
         /\ \A j, u, x : FillingAt(j, u, x) => j - 1 \in Nat \ {0} /\ FillingAt(j - 1, u, x)'
         /\ \A j \in 1 .. Len(slots') : slots'[j].state # "emptying"
         /\ UNCHANGED got /\ outcome' = [outcome EXCEPT ![WorkerThread] = "taken"]
<1>1. PICK i \in DOMAIN slots :
        /\ slots[i].state = "emptying"
        /\ slots' = Queue!Trimmed([slots EXCEPT ![i] = Queue!FreeSlot])
        /\ outcome' = [outcome EXCEPT ![WorkerThread] = "taken"] /\ UNCHANGED got
  BY DEF Queue!Release
<1>2. /\ slots \in Seq(UsedPlaces) /\ DOMAIN slots = 1 .. Len(slots) /\ Len(slots) \in Nat
      /\ \A j \in 1 .. Len(slots) : slots[j] \in UsedPlaces
  BY LenProperties, ElementOfSeq DEF AsyncTypeOK
<1>3. i = 1 /\ Len(slots) > 0
  BY <1>1, <1>2 DEF PlacesInv
<1>4. /\ slots' \in Seq(UsedPlaces) /\ Len(slots') = Len(slots) - 1
      /\ \A j \in 1 .. Len(slots) - 1 : slots'[j] = slots[j + 1]
  <2>1. PICK f : f = [slots EXCEPT ![1] = Queue!FreeSlot]
    OBVIOUS
  <2>2. slots' = Queue!Trimmed(f)
    BY <1>1, <1>3, <2>1
  <2> QED
    BY <1>2, <1>3, <2>1, <2>2, TrimmedIs
<1>5. /\ \A j : j \in 1 .. Len(slots') <=> j \in Nat \ {0} /\ j + 1 \in 1 .. Len(slots)
      /\ \A j \in 2 .. Len(slots) : j - 1 \in 1 .. Len(slots') /\ slots'[j - 1] = slots[j]
  BY <1>2, <1>4
<1>6. \A j \in 1 .. Len(slots) : slots[j].state # "emptying" => j \in 2 .. Len(slots)
  BY <1>1, <1>2, <1>3
<1>7. \A j, x : ReadyAt(j, x)' <=> ReadyAt(j + 1, x) /\ j \in Nat \ {0}
  BY <1>4, <1>5 DEF ReadyAt
<1>8. \A j, u, x : FillingAt(j, u, x)' <=> FillingAt(j + 1, u, x) /\ j \in Nat \ {0}
  BY <1>4, <1>5 DEF FillingAt
<1>9. \A j, x : ReadyAt(j, x) => j - 1 \in Nat \ {0} /\ ReadyAt(j - 1, x)'
  BY <1>5, <1>6 DEF ReadyAt
<1>10. \A j, u, x : FillingAt(j, u, x) => j - 1 \in Nat \ {0} /\ FillingAt(j - 1, u, x)'
  BY <1>5, <1>6 DEF FillingAt
<1>11. \A j \in 1 .. Len(slots') : slots'[j].state # "emptying"
  <2>1. \A j \in 2 .. Len(slots) : slots[j].state # "emptying"
    BY <1>2 DEF PlacesInv
  <2>2. \A j \in 1 .. Len(slots') : j + 1 \in 2 .. Len(slots) /\ slots'[j] = slots[j + 1]
    BY <1>2, <1>4
  <2> QED
    BY <2>1, <2>2
<1> QED
  BY <1>1, <1>2, <1>4, <1>7, <1>8, <1>9, <1>10, <1>11
-----------------------------------------------------------------------------
(* The steps, one lemma each.                                              *)

LEMMA AsyncInvInit == AsyncInit => AsyncInv
<1> SUFFICES ASSUME AsyncInit
             PROVE  AsyncInv
  OBVIOUS
<1>1. /\ slots = <<>> /\ Len(slots) = 0 /\ worker = "dequeue"
      /\ \A t \in Callers : doing[t] = "idle" /\ logged[t] = <<>> /\ Len(logged[t]) = 0
      /\ \A s \in SinkIds : written[s] = <<>> /\ Len(written[s]) = 0 /\ flushed[s] = 0
      /\ terminate_requested = FALSE /\ flush_requested = FALSE /\ promised = {}
  BY EmptySeq DEF AsyncInit, Queue!QueueInit
<1>2. /\ \A i, x : ~ReadyAt(i, x)
      /\ \A i, t, x : ~FillingAt(i, t, x)
      /\ \A x : ~Held(x) /\ ~IsLogged(x)
      /\ \A t \in Callers : \A x : ~InLog(t, x) /\ ~Pushing(t, x) /\ ~Sending(t, x)
      /\ \A s \in SinkIds : \A x : ~InSink(s, x)
  BY <1>1 DEF ReadyAt, FillingAt, Held, Holding, IsLogged, InLog, InSink, Pushing, Sending
<1>3. AsyncTypeOK
  BY EmptySeq DEF AsyncInit, AsyncTypeOK, Queue!QueueInit, Queue!Outcomes
<1>4. CallsInv /\ PlacesInv /\ OnceInv
  BY <1>1, <1>2 DEF CallsInv, PlacesInv, OnceInv
<1>5. AheadInv
  BY <1>1, <1>2 DEF AheadInv, SinksInOrder, GivenAt
<1>6. FlushInv
  BY <1>1 DEF FlushInv
<1>7. EndInv
  BY <1>1, <1>2 DEF EndInv, Terminating
<1> QED
  BY <1>3, <1>4, <1>5, <1>6, <1>7 DEF AsyncInv

\* What depends on the queue, the worker, the sinks and the logs alone.
Frame == <<slots, got, worker, logged, written>>

LEMMA FrameKeeps ==
  ASSUME UNCHANGED Frame
  PROVE  /\ \A i, x : ReadyAt(i, x)' <=> ReadyAt(i, x)
         /\ \A i, t, x : FillingAt(i, t, x)' <=> FillingAt(i, t, x)
         /\ \A x : (Held(x)' <=> Held(x)) /\ (Done(x)' <=> Done(x))
         /\ \A s, x : InSink(s, x)' <=> InSink(s, x)
         /\ \A t, x : InLog(t, x)' <=> InLog(t, x)
         /\ \A x : (IsLogged(x)' <=> IsLogged(x)) /\ (AheadOfAll(x)' <=> AheadOfAll(x))
         /\ \A x, n : Ahead(x, n)' <=> Ahead(x, n)
         /\ \A x, m : (Earlier(x, m)' <=> Earlier(x, m)) /\ (Precedes(x, m)' <=> Precedes(x, m))
BY DEF Frame, ReadyAt, FillingAt, Held, Holding, Done, InSink, InLog, IsLogged, AheadOfAll,
       Ahead, Earlier, Precedes

LEMMA SinksKeep ==
  ASSUME SinksInOrder, written' = written,
         \A x, m : Earlier(x, m)' => Earlier(x, m)
  PROVE  SinksInOrder'
<1>1. \A s, i, x : GivenAt(s, i, x)' <=> GivenAt(s, i, x)
  BY DEF GivenAt
<1> QED
  BY <1>1 DEF SinksInOrder

LEMMA FrameAhead ==
  ASSUME AheadInv, UNCHANGED Frame
  PROVE  AheadInv'
<1>1. UNCHANGED <<slots, got, worker, logged, written>>
  BY DEF Frame
<1>2. SinksInOrder'
  BY <1>1, FrameKeeps, SinksKeep DEF AheadInv
<1> QED
  BY <1>1, <1>2, FrameKeeps DEF AheadInv

LEMMA FrameFlush ==
  ASSUME FlushInv, UNCHANGED Frame, UNCHANGED <<flushed, flush_requested, promised>>
  PROVE  FlushInv'
<1>1. UNCHANGED <<slots, got, worker, logged, written>>
  BY DEF Frame
<1> QED
  BY <1>1, FrameKeeps DEF FlushInv, OnDisk

\* What a call of log() or flush(), or the destructor, begins with.
Starts(t, m) ==
  /\ doing[t] = "idle" /\ m \in AllMessages /\ m.by = t
  /\ doing' = [doing EXCEPT ![t] = "push"] /\ msg' = [msg EXCEPT ![t] = m]
  /\ m.type = "log" => m \in LogMessages /\ m.call = calls /\ calls' = calls + 1
  /\ \A x \in m.covers : IsLogged(x)
  /\ m.type = "terminate" => destroyed' = "begun" /\ \A u \in Callers : doing[u] = "idle"

LEMMA CallStarts ==
  ASSUME AsyncTypeOK, NEW t \in Callers, log(t) \/ flush(t) \/ Destroy(t)
  PROVE  /\ UNCHANGED <<slots, outcome, got, logged, flush_requested, terminate_requested,
                        written, flushed, worker, promised>>
         /\ calls' \in {calls, calls + 1} /\ destroyed = "no"
         /\ destroyed' \in {"no", "begun", "aborted"}
         /\ UNCHANGED <<doing, msg>> \/ \E m : Starts(t, m)
<1>1. calls \in Nat /\ \A u \in Callers : logged[u] \in Seq(LogMessages)
  BY DEF AsyncTypeOK
<1>2. ASSUME NEW x \in LoggedMessages
      PROVE  x \in LogMessages /\ IsLogged(x)
  <2>1. PICK u \in Callers : \E i \in DOMAIN logged[u] : x = logged[u][i]
    BY <1>2 DEF LoggedMessages
  <2>1a. PICK i \in DOMAIN logged[u] : x = logged[u][i]
    BY <2>1
  <2>2. i \in 1 .. Len(logged[u]) /\ logged[u][i] \in LogMessages
    BY <1>1, <2>1a, LenProperties, ElementOfSeq
  <2> QED
    BY <2>1a, <2>2 DEF IsLogged, InLog
<1>3. CASE log(t)
  <2> DEFINE m == Message("log", t, calls, {})
  <2>1. m \in LogMessages /\ m \in AllMessages /\ m.by = t /\ m.type = "log"
        /\ m.call = calls /\ m.covers = {}
    BY <1>1 DEF Message, LogMessages, AllMessages
  <2>2. /\ doing[t] = "idle" /\ destroyed = "no" /\ calls' = calls + 1
        /\ UNCHANGED <<slots, outcome, got, logged, flush_requested, terminate_requested,
                       written, flushed, worker, promised>>
    BY <1>3 DEF log, Calls, asyncQueueVars, sinkVars
  <2>3. CASE Begins(t, m) /\ UNCHANGED destroyed
    <3>1. Starts(t, m)
      BY <2>1, <2>2, <2>3 DEF Begins, Starts
    <3> QED
      BY <2>2, <2>3, <3>1
  <2>4. CASE Throws(t) /\ destroyed' = "aborted"
    BY <2>2, <2>4 DEF Throws
  <2> QED
    BY <1>3, <2>3, <2>4 DEF log
<1>4. CASE flush(t)
  <2> DEFINE m == Message("flush", t, calls, LoggedMessages)
  <2>1. m \in AllMessages /\ m.by = t /\ m.type = "flush" /\ m.covers = LoggedMessages
    BY <1>1, <1>2 DEF Message, AllMessages
  <2>2. /\ doing[t] = "idle" /\ destroyed = "no" /\ calls' = calls + 1 /\ UNCHANGED destroyed
        /\ UNCHANGED <<slots, outcome, got, logged, flush_requested, terminate_requested,
                       written, flushed, worker, promised>>
    BY <1>4 DEF flush, Calls, asyncQueueVars, sinkVars
  <2>3. CASE Begins(t, m)
    <3>1. Starts(t, m)
      BY <1>2, <2>1, <2>2, <2>3 DEF Begins, Starts
    <3> QED
      BY <2>2, <3>1
  <2>4. CASE Throws(t)
    BY <2>2, <2>4 DEF Throws
  <2> QED
    BY <1>4, <2>3, <2>4 DEF flush
<1>5. CASE Destroy(t)
  <2> DEFINE m == Message("terminate", t, calls, {})
  <2>1. m \in AllMessages /\ m.by = t /\ m.type = "terminate" /\ m.covers = {}
    BY <1>1 DEF Message, AllMessages
  <2>2. /\ destroyed = "no" /\ \A u \in Callers : doing[u] = "idle"
        /\ UNCHANGED <<slots, outcome, got, logged, flush_requested, terminate_requested,
                       written, flushed, worker, promised, calls>>
    BY <1>5 DEF Destroy, asyncQueueVars, sinkVars
  <2>3. CASE Begins(t, m) /\ destroyed' = "begun"
    <3>1. Starts(t, m)
      BY <2>1, <2>2, <2>3 DEF Begins, Starts
    <3> QED
      BY <2>2, <2>3, <3>1
  <2>4. CASE Throws(t) /\ destroyed' = "aborted"
    BY <2>2, <2>4 DEF Throws
  <2> QED
    BY <1>5, <2>3, <2>4 DEF Destroy
<1> QED
  BY <1>3, <1>4, <1>5

LEMMA InvStarts ==
  ASSUME AsyncInv, NEW t \in Callers, log(t) \/ flush(t) \/ Destroy(t)
  PROVE  AsyncInv'
<1>1. /\ UNCHANGED <<slots, outcome, got, logged, flush_requested, terminate_requested,
                     written, flushed, worker, promised>>
      /\ calls' \in {calls, calls + 1} /\ destroyed = "no"
      /\ destroyed' \in {"no", "begun", "aborted"}
      /\ UNCHANGED <<doing, msg>> \/ \E m : Starts(t, m)
  BY CallStarts DEF AsyncInv
<1>2. UNCHANGED Frame /\ calls \in Nat
  BY <1>1 DEF Frame, AsyncInv, AsyncTypeOK
<1>3. AsyncTypeOK'
  <2>1. /\ doing' \in [Callers -> {"idle", "push", "fill", "join"}]
        /\ msg' \in [Callers -> AllMessages \cup {NoMessage}]
    <3>1. /\ doing \in [Callers -> {"idle", "push", "fill", "join"}]
          /\ msg \in [Callers -> AllMessages \cup {NoMessage}]
      BY DEF AsyncInv, AsyncTypeOK
    <3>2. ASSUME NEW m, Starts(t, m)
          PROVE  /\ doing' \in [Callers -> {"idle", "push", "fill", "join"}]
                 /\ msg' \in [Callers -> AllMessages \cup {NoMessage}]
      BY <3>1, <3>2 DEF Starts
    <3> QED
      BY <1>1, <3>1, <3>2
  <2>2. calls' \in Nat
    BY <1>1, <1>2
  <2> QED
    BY <1>1, <2>1, <2>2 DEF AsyncInv, AsyncTypeOK
<1>4. ~Terminating /\ ~Terminating'
  <2>1. ~Terminating
    BY <1>1 DEF AsyncInv, EndInv
  <2> QED
    BY <1>1, <1>2, <2>1, FrameKeeps DEF Terminating
\* A caller's message is the old one, or the one it starts with.
<1>5. /\ \A u \in Callers : \A x : Sending(u, x)' =>
           Sending(u, x) \/ (u = t /\ Starts(t, x))
      /\ \A u \in Callers : \A x : Pushing(u, x)' =>
           Pushing(u, x) \/ (u = t /\ Starts(t, x))
      /\ \A u \in Callers : doing[u] = "fill" => doing'[u] = "fill" /\ msg'[u] = msg[u]
  <2>1. CASE UNCHANGED <<doing, msg>>
    BY <2>1 DEF Sending, Pushing
  <2>2. CASE \E m : Starts(t, m)
    <3>1. PICK m : Starts(t, m)
      BY <2>2
    <3>2. /\ doing[t] = "idle" /\ doing'[t] = "push" /\ msg'[t] = m
          /\ \A u \in Callers : u # t => doing'[u] = doing[u] /\ msg'[u] = msg[u]
      BY <3>1 DEF Starts, AsyncInv, AsyncTypeOK
    <3> QED
      BY <3>1, <3>2 DEF Sending, Pushing
  <2> QED
    BY <1>1, <2>1, <2>2
<1>6. CallsInv'
  <2> SUFFICES ASSUME NEW u \in Callers, NEW m, Sending(u, m)'
               PROVE  /\ m \in AllMessages /\ m.by = u
                      /\ m.type = "log" => m \in LogMessages /\ m.call < calls'
                      /\ \A x \in m.covers : IsLogged(x)'
    BY DEF CallsInv
  <2>1. CASE Sending(u, m)
    <3>1. /\ m \in AllMessages /\ m.by = u
          /\ m.type = "log" => m \in LogMessages /\ m.call < calls
          /\ \A x \in m.covers : IsLogged(x)
      BY <2>1 DEF AsyncInv, CallsInv
    <3>2. m \in LogMessages => m.call \in Nat
      BY DEF LogMessages
    <3> QED
      BY <1>1, <1>2, <3>1, <3>2, FrameKeeps
  <2>2. CASE u = t /\ Starts(t, m)
    BY <1>2, <2>2, FrameKeeps DEF Starts
  <2> QED
    BY <1>5, <2>1, <2>2
<1>7. PlacesInv'
  <2>1. \A i, u, m : FillingAt(i, u, m)' => u \in Callers /\ doing'[u] = "fill" /\ msg'[u] = m
    BY <1>2, <1>5, FrameKeeps DEF AsyncInv, PlacesInv
  <2> QED
    BY <1>1, <1>2, <2>1, FrameKeeps DEF AsyncInv, PlacesInv
<1>8. OnceInv'
  <2>1. ASSUME NEW u \in Callers, NEW m, Pushing(u, m)'
        PROVE  ~IsLogged(m)'
    <3>1. CASE Pushing(u, m)
      BY <1>2, <3>1, FrameKeeps DEF AsyncInv, OnceInv
    <3>2. CASE u = t /\ Starts(t, m)
      <4>1. IsLogged(m) => m \in LogMessages /\ m.call < calls
        BY ElementOfSeq DEF IsLogged, InLog, AsyncInv, AsyncTypeOK, OnceInv
      <4>2. m \in LogMessages => m.type = "log" /\ m.call \in Nat
        BY DEF LogMessages
      <4>3. ~IsLogged(m)
        BY <1>2, <3>2, <4>1, <4>2 DEF Starts
      <4> QED
        BY <1>2, <4>3, FrameKeeps
    <3> QED
      BY <1>5, <2>1, <3>1, <3>2
  <2>2. \A x : IsLogged(x) => x.call < calls'
    <3> SUFFICES ASSUME NEW x, IsLogged(x)
                 PROVE  x.call < calls'
      OBVIOUS
    <3>1. x \in LogMessages /\ x.call < calls
      BY ElementOfSeq DEF IsLogged, InLog, AsyncInv, AsyncTypeOK, OnceInv
    <3>2. x.call \in Nat
      BY <3>1 DEF LogMessages
    <3> QED
      BY <1>1, <1>2, <3>1, <3>2
  <2> QED
    BY <1>1, <1>2, <2>1, <2>2, FrameKeeps DEF AsyncInv, OnceInv
<1>9. AheadInv' /\ FlushInv'
  BY <1>1, <1>2, FrameAhead, FrameFlush DEF AsyncInv
<1>10. EndInv'
  <2>1. ASSUME NEW u \in Callers, NEW m, Sending(u, m)', m.type = "terminate"
        PROVE  destroyed' = "begun" /\ \A v \in Callers : v # u => doing'[v] = "idle"
    <3>1. ~Sending(u, m)
      BY <1>1, <2>1 DEF AsyncInv, EndInv
    <3>2. u = t /\ Starts(t, m)
      BY <1>5, <2>1, <3>1
    <3> QED
      BY <2>1, <3>2 DEF Starts, AsyncInv, AsyncTypeOK
  <2> QED
    BY <1>1, <1>4, <2>1 DEF AsyncInv, EndInv
<1> QED
  BY <1>3, <1>6, <1>7, <1>8, <1>9, <1>10 DEF AsyncInv

\* A call that ends without a trace in the queue: a message is discarded, or
\* found no place and will be tried again, or the destructor has joined.
Ends(t) ==
  /\ UNCHANGED Frame
  /\ UNCHANGED <<msg, calls, flush_requested, terminate_requested, flushed, promised>>
  /\ outcome' \in [Callers \cup {WorkerThread} -> Queue!Outcomes]
  /\ \/ UNCHANGED <<doing, destroyed>>
     \/ /\ doing[t] = "push" /\ UNCHANGED destroyed
        /\ \E d \in {"idle", "join"} : doing' = [doing EXCEPT ![t] = d]
     \/ /\ doing[t] = "join" /\ destroyed' = "done"
        /\ doing' = [doing EXCEPT ![t] = "idle"]

LEMMA InvEnds ==
  ASSUME AsyncInv, NEW t \in Callers, Ends(t)
  PROVE  AsyncInv'
<1>1. /\ UNCHANGED <<slots, got, worker, logged, written, msg, calls, flush_requested,
                     terminate_requested, flushed, promised>>
      /\ UNCHANGED Frame
  BY DEF Ends, Frame
<1>2. doing \in [Callers -> {"idle", "push", "fill", "join"}]
  BY DEF AsyncInv, AsyncTypeOK
<1>3. /\ doing' \in [Callers -> {"idle", "push", "fill", "join"}]
      /\ destroyed' \in {destroyed, "done"}
      /\ \A u \in Callers : \/ doing'[u] = doing[u]
                            \/ /\ doing[u] \in {"push", "join"}
                               /\ doing'[u] \in {"idle", "join"} /\ u = t
      /\ destroyed' # destroyed => doing[t] = "join"
  BY <1>2 DEF Ends
<1>4. \A u \in Callers : \A m : /\ Sending(u, m)' => Sending(u, m)
                                /\ Pushing(u, m)' => Pushing(u, m)
  BY <1>1, <1>3 DEF Sending, Pushing
<1>5. AsyncTypeOK'
  BY <1>1, <1>3 DEF AsyncInv, AsyncTypeOK, Ends
<1>6. CallsInv'
  BY <1>1, <1>4, FrameKeeps DEF AsyncInv, CallsInv
<1>7. PlacesInv'
  <2>1. \A i, u, m : FillingAt(i, u, m)' => u \in Callers /\ doing'[u] = "fill" /\ msg'[u] = m
    BY <1>1, <1>3, FrameKeeps DEF AsyncInv, PlacesInv
  <2> QED
    BY <1>1, <2>1, FrameKeeps DEF AsyncInv, PlacesInv
<1>8. OnceInv'
  BY <1>1, <1>4, FrameKeeps DEF AsyncInv, OnceInv
<1>9. AheadInv' /\ FlushInv'
  BY <1>1, FrameAhead, FrameFlush DEF AsyncInv
<1>10. EndInv'
  <2>1. ASSUME NEW u \in Callers, NEW m, Sending(u, m)', m.type = "terminate"
        PROVE  destroyed' = "begun" /\ \A v \in Callers : v # u => doing'[v] = "idle"
    <3>1. Sending(u, m)
      BY <1>4, <2>1
    <3>2. destroyed = "begun" /\ \A v \in Callers : v # u => doing[v] = "idle"
      BY <2>1, <3>1 DEF AsyncInv, EndInv
    <3>3. doing[u] # "join"
      BY <3>1 DEF Sending
    <3>4. doing[t] # "join"
      BY <3>2, <3>3
    <3> QED
      BY <1>3, <3>2, <3>4
  <2>2. Terminating' => Terminating
    BY <1>1, FrameKeeps DEF Terminating
  <2>3. Terminating' =>
          destroyed' \in {"begun", "done"} /\ \A u \in Callers : doing'[u] \in {"idle", "join"}
    BY <1>3, <2>2 DEF AsyncInv, EndInv
  <2> QED
    BY <1>1, <2>1, <2>3 DEF AsyncInv, EndInv
<1> QED
  BY <1>5, <1>6, <1>7, <1>8, <1>9, <1>10 DEF AsyncInv

LEMMA InvRefused ==
  ASSUME AsyncInv, NEW t \in Callers, FindPlace(t), Queue!Refuse(t)
  PROVE  AsyncInv'
<1>1. /\ doing[t] = "push"
      /\ UNCHANGED <<slots, got, worker, logged, written, msg, calls, flush_requested,
                     terminate_requested, flushed, promised, destroyed>>
      /\ outcome' = [outcome EXCEPT ![t] = "refused"]
  BY DEF FindPlace, Queue!Refuse, helperVars, sinkVars
<1>2. outcome' \in [Callers \cup {WorkerThread} -> Queue!Outcomes]
  BY <1>1 DEF AsyncInv, AsyncTypeOK, Queue!Outcomes
<1>3. ~Queue!Reserve(t, msg[t])
  BY DEF Queue!Reserve, Queue!Refuse
<1>4. doing' = doing \/ \E d \in {"idle", "join"} : doing' = [doing EXCEPT ![t] = d]
  BY <1>3 DEF FindPlace, AfterPush
<1>5. Ends(t)
  BY <1>1, <1>2, <1>4 DEF Ends, Frame
<1> QED
  BY <1>5, InvEnds

LEMMA InvJoin ==
  ASSUME AsyncInv, NEW t \in Callers, Join(t)
  PROVE  AsyncInv'
<1>1. Ends(t)
  BY DEF Join, Ends, Frame, asyncQueueVars, helperVars, sinkVars, AsyncInv, AsyncTypeOK
<1> QED
  BY <1>1, InvEnds

LEMMA InvReserved ==
  ASSUME AsyncInv, NEW t \in Callers, FindPlace(t), Queue!Reserve(t, msg[t])
  PROVE  AsyncInv'
<1>1. /\ doing[t] = "push" /\ ~Queue!Refuse(t)
      /\ UNCHANGED <<worker, logged, written, msg, calls, flush_requested,
                     terminate_requested, flushed, promised, destroyed>>
  BY DEF FindPlace, Queue!Reserve, Queue!Refuse, helperVars, sinkVars
<1>2. doing' = [doing EXCEPT ![t] = "fill"]
  BY <1>1 DEF FindPlace
<1> PICK m : m = msg[t]
  OBVIOUS
<1>3. /\ Sending(t, m) /\ Pushing(t, m)
      /\ m \in AllMessages /\ m.by = t /\ \A x \in m.covers : IsLogged(x)
  BY <1>1 DEF AsyncInv, CallsInv, Sending, Pushing
<1>4. /\ slots' \in Seq(UsedPlaces) /\ Len(slots') = Len(slots) + 1 /\ Len(slots) \in Nat
      /\ \A i, x : ReadyAt(i, x)' <=> ReadyAt(i, x)
      /\ \A i, u, x : FillingAt(i, u, x)' <=>
           FillingAt(i, u, x) \/ (i = Len(slots) + 1 /\ u = t /\ x = m)
      /\ \A i \in 1 .. Len(slots') : slots'[i].state = "emptying" =>
           i \in 1 .. Len(slots) /\ slots[i].state = "emptying"
      /\ UNCHANGED <<outcome, got>>
  BY <1>3, Reserved DEF AsyncInv
<1>5. /\ doing \in [Callers -> {"idle", "push", "fill", "join"}]
      /\ doing' \in [Callers -> {"idle", "push", "fill", "join"}]
      /\ doing'[t] = "fill" /\ \A u \in Callers : u # t => doing'[u] = doing[u]
  BY <1>2 DEF AsyncInv, AsyncTypeOK
<1>6. \A u \in Callers : \A x : /\ Sending(u, x)' <=> Sending(u, x)
                                /\ Pushing(u, x)' => Pushing(u, x) /\ u # t
  BY <1>1, <1>5 DEF Sending, Pushing
<1>7. /\ \A x : (Held(x)' <=> Held(x)) /\ (Done(x)' <=> Done(x))
      /\ \A s, x : InSink(s, x)' <=> InSink(s, x)
      /\ \A u, x : InLog(u, x)' <=> InLog(u, x)
      /\ \A x : IsLogged(x)' <=> IsLogged(x)
      /\ \A x, y : (Earlier(x, y)' <=> Earlier(x, y)) /\ (Precedes(x, y)' <=> Precedes(x, y))
  BY <1>1, <1>4 DEF Held, Holding, Done, InSink, InLog, IsLogged, Earlier, Precedes
<1>8. \A x, n : Ahead(x, n)' <=> Ahead(x, n)
  BY <1>4, <1>7 DEF Ahead
<1>9. \A x : AheadOfAll(x) => AheadOfAll(x)' /\ Ahead(x, Len(slots) + 1)
  <2>1. \A i \in 1 .. Len(slots) : i \in 1 .. Len(slots') /\ i \in 1 .. (Len(slots) + 1) - 1
    BY <1>4
  <2> QED
    BY <1>4, <1>7, <2>1 DEF AheadOfAll, Ahead
<1>10. AsyncTypeOK'
  BY <1>1, <1>4, <1>5 DEF AsyncInv, AsyncTypeOK
<1>11. CallsInv'
  BY <1>1, <1>6, <1>7 DEF AsyncInv, CallsInv
<1>12. \A i, x : ~FillingAt(i, t, x)
  BY <1>1 DEF AsyncInv, PlacesInv
<1>13. PlacesInv'
  <2>1. \A i, u, x : FillingAt(i, u, x)' => u \in Callers /\ doing'[u] = "fill" /\ msg'[u] = x
    BY <1>1, <1>4, <1>5 DEF AsyncInv, PlacesInv
  <2>2. \A i, j, u, x, y : FillingAt(i, u, x)' /\ FillingAt(j, u, y)' => i = j
    BY <1>4, <1>12 DEF AsyncInv, PlacesInv
  <2>3. \A i \in 1 .. Len(slots') : slots'[i].state = "emptying" => i = 1 /\ worker' = "release"
    BY <1>1, <1>4 DEF AsyncInv, PlacesInv
  <2> QED
    BY <1>4, <1>7, <2>1, <2>2, <2>3 DEF AsyncInv, PlacesInv
<1>14. OnceInv'
  <2>1. \A i, u, x : FillingAt(i, u, x)' => ~IsLogged(x)'
    BY <1>3, <1>4, <1>7 DEF AsyncInv, OnceInv
  <2> QED
    BY <1>1, <1>4, <1>6, <1>7, <2>1 DEF AsyncInv, OnceInv
<1>15. AheadInv'
  <2>1. ASSUME worker # "dead"
        PROVE  /\ \A x : IsLogged(x) => AheadOfAll(x)'
               /\ \A i, u, y : FillingAt(i, u, y)' =>
                    /\ \A x \in y.covers : Ahead(x, i)
                    /\ \A x : InLog(u, x) => Ahead(x, i)
               /\ \A i, y : ReadyAt(i, y) => \A x : Precedes(x, y) => Ahead(x, i)
    <3>1. \A x : IsLogged(x) => AheadOfAll(x)
      BY <2>1 DEF AsyncInv, AheadInv
    <3>2. \A x : InLog(t, x) => IsLogged(x)
      BY DEF IsLogged
    <3>3. ASSUME NEW i, NEW u, NEW y, FillingAt(i, u, y)'
          PROVE  /\ \A x \in y.covers : Ahead(x, i)
                 /\ \A x : InLog(u, x) => Ahead(x, i)
      <4>1. CASE FillingAt(i, u, y)
        BY <2>1, <4>1 DEF AsyncInv, AheadInv
      <4>2. CASE i = Len(slots) + 1 /\ u = t /\ y = m
        BY <1>3, <1>9, <3>1, <3>2, <4>2
      <4> QED
        BY <1>4, <3>3, <4>1, <4>2
    <3>4. \A i, y : ReadyAt(i, y) => \A x : Precedes(x, y) => Ahead(x, i)
      BY <2>1 DEF AsyncInv, AheadInv
    <3>5. \A x : IsLogged(x) => AheadOfAll(x)'
      BY <1>9, <3>1
    <3> QED
      BY <3>3, <3>4, <3>5
  <2>2. worker' # "dead" =>
          /\ \A x : IsLogged(x)' => AheadOfAll(x)'
          /\ \A i, u, y : FillingAt(i, u, y)' =>
               /\ \A x \in y.covers : Ahead(x, i)'
               /\ \A x : InLog(u, x)' => Ahead(x, i)'
          /\ \A i, y : ReadyAt(i, y)' => \A x : Precedes(x, y)' => Ahead(x, i)'
    <3> SUFFICES ASSUME worker # "dead"
                 PROVE  /\ \A x : IsLogged(x)' => AheadOfAll(x)'
                        /\ \A i, u, y : FillingAt(i, u, y)' =>
                             /\ \A x \in y.covers : Ahead(x, i)'
                             /\ \A x : InLog(u, x)' => Ahead(x, i)'
                        /\ \A i, y : ReadyAt(i, y)' => \A x : Precedes(x, y)' => Ahead(x, i)'
      BY <1>1
    <3>1. \A x : IsLogged(x)' => AheadOfAll(x)'
      BY <1>7, <2>1
    <3>2. ASSUME NEW i, NEW u, NEW y, FillingAt(i, u, y)'
          PROVE  /\ \A x \in y.covers : Ahead(x, i)'
                 /\ \A x : InLog(u, x)' => Ahead(x, i)'
      BY <1>7, <1>8, <2>1, <3>2
    <3>3. \A i, y : ReadyAt(i, y)' => \A x : Precedes(x, y)' => Ahead(x, i)'
      BY <1>4, <1>7, <1>8, <2>1
    <3> QED
      BY <3>1, <3>2, <3>3
  <2>3. \A y : Held(y)' => \A x : Precedes(x, y)' => Done(x)'
    <3>1. \A y : Held(y) => \A x : Precedes(x, y) => Done(x)
      BY DEF AsyncInv, AheadInv
    <3> QED
      BY <1>7, <3>1
  <2>4. SinksInOrder'
    BY <1>1, <1>7, SinksKeep DEF AsyncInv, AheadInv
  <2> QED
    BY <2>2, <2>3, <2>4 DEF AheadInv
<1>16. FlushInv'
  BY <1>1, <1>7 DEF AsyncInv, FlushInv, OnDisk
<1>17. EndInv'
  <2>1. ~Terminating /\ ~terminate_requested
    BY <1>1 DEF AsyncInv, EndInv, Terminating
  <2>2. ~Terminating'
    BY <1>1, <1>4, <1>7, <2>1 DEF Terminating
  <2>3. ASSUME NEW u \in Callers, NEW x, Sending(u, x)', x.type = "terminate"
        PROVE  destroyed' = "begun" /\ \A v \in Callers : v # u => doing'[v] = "idle"
    <3>1. Sending(u, x)
      BY <1>6, <2>3
    <3>2. destroyed = "begun" /\ \A v \in Callers : v # u => doing[v] = "idle"
      BY <2>3, <3>1 DEF AsyncInv, EndInv
    <3>3. u = t
      BY <1>1, <3>2
    <3> QED
      BY <1>1, <1>5, <3>2, <3>3
  <2>4. worker # "ended"
    BY <2>1 DEF AsyncInv, EndInv
  <2> QED
    BY <1>1, <2>1, <2>2, <2>3, <2>4 DEF AsyncInv, EndInv
<1> QED
  BY <1>10, <1>11, <1>13, <1>14, <1>15, <1>16, <1>17 DEF AsyncInv

\* What a log() that has filled its place adds to what was logged.
LEMMA LogGrows ==
  ASSUME AsyncTypeOK, PlacesInv, NEW t \in Callers, NEW m, m.by = t, ~IsLogged(m),
         m.type = "log" => m \in LogMessages,
         logged' = IF m.type = "log" THEN [logged EXCEPT ![t] = Append(@, m)] ELSE logged
  PROVE  /\ logged' \in [Callers -> Seq(LogMessages)]
         /\ \A u \in Callers : \A x : InLog(u, x)' <=>
              InLog(u, x) \/ (m.type = "log" /\ u = t /\ x = m)
         /\ \A x : IsLogged(x)' <=> IsLogged(x) \/ (m.type = "log" /\ x = m)
         /\ \A x, y : IsLogged(y) /\ Earlier(x, y)' => Earlier(x, y)
         /\ \A x : Earlier(x, m)' => InLog(t, x)
         /\ (\A u \in Callers : \A i, j \in 1 .. Len(logged[u]) :
               logged[u][i] = logged[u][j] => i = j)
            => (\A u \in Callers : \A i, j \in 1 .. Len(logged'[u]) :
                  logged'[u][i] = logged'[u][j] => i = j)
<1>1. logged \in [Callers -> Seq(LogMessages)]
  BY DEF AsyncTypeOK
<1>2. CASE m.type # "log"
  <2>1. logged' = logged
    BY <1>2
  <2>2. ~Earlier(0, m) /\ \A x : ~Earlier(x, m)'
    BY <1>2 DEF Earlier
  <2> QED
    BY <1>1, <1>2, <2>1, <2>2 DEF InLog, IsLogged, Earlier
<1>3. CASE m.type = "log"
  <2> DEFINE q == logged[t]
             r == Append(q, m)
  <2>1. q \in Seq(LogMessages) /\ m \in LogMessages
    BY <1>1, <1>3
  <2>2. /\ logged' = [logged EXCEPT ![t] = r]
        /\ logged'[t] = r /\ \A u \in Callers : u # t => logged'[u] = logged[u]
    BY <1>1, <1>3
  <2>3. /\ r \in Seq(LogMessages) /\ Len(r) = Len(q) + 1
        /\ \A i \in 1 .. Len(q) : i \in 1 .. Len(r) /\ r[i] = q[i]
        /\ r[Len(q) + 1] = m
        /\ \A i \in 1 .. Len(r) : i \in 1 .. Len(q) \/ i = Len(q) + 1
        /\ Len(q) \in Nat /\ Len(q) + 1 \in 1 .. Len(r)
    <3> HIDE DEF q
    <3> QED
      BY <2>1, AppendElements
  <2>4. \A i \in 1 .. Len(q) : q[i] # m
    BY DEF IsLogged, InLog
  <2> HIDE DEF r
  <2>5. logged' \in [Callers -> Seq(LogMessages)]
    BY <1>1, <2>2, <2>3
  <2>6. \A u \in Callers : \A x : InLog(u, x)' <=> InLog(u, x) \/ (u = t /\ x = m)
    <3>1. \A x : InLog(t, x)' <=> InLog(t, x) \/ x = m
      BY <2>2, <2>3 DEF InLog
    <3>2. \A u \in Callers : u # t => \A x : InLog(u, x)' <=> InLog(u, x)
      BY <2>2 DEF InLog
    <3> QED
      BY <3>1, <3>2
  <2>7. \A x : IsLogged(x)' <=> IsLogged(x) \/ x = m
    BY <2>6 DEF IsLogged
  <2>8. ASSUME NEW x, NEW y, IsLogged(y), Earlier(x, y)'
        PROVE  Earlier(x, y)
    <3>1. y # m /\ y.by \in Callers /\ y.type = "log"
      BY <2>8 DEF IsLogged, PlacesInv, Earlier
    <3>2. PICK k \in 1 .. Len(logged'[y.by]) :
            logged'[y.by][k] = y /\ \E h \in 1 .. k - 1 : logged'[y.by][h] = x
      BY <2>8 DEF Earlier
    <3>3. CASE y.by # t
      BY <2>2, <3>1, <3>2, <3>3 DEF Earlier
    <3>4. CASE y.by = t
      <4>1. k \in 1 .. Len(q) /\ q[k] = y
        BY <2>2, <2>3, <3>1, <3>2, <3>4
      <4>2. PICK h \in 1 .. k - 1 : r[h] = x
        BY <2>2, <3>2, <3>4
      <4>3. h \in 1 .. Len(q) /\ q[h] = x
        BY <2>3, <4>1, <4>2
      <4> QED
        BY <3>1, <3>4, <4>1, <4>3 DEF Earlier
    <3> QED
      BY <3>3, <3>4
  <2>9. ASSUME NEW x, Earlier(x, m)'
        PROVE  InLog(t, x)
    <3>1. PICK k \in 1 .. Len(r) : r[k] = m /\ \E h \in 1 .. k - 1 : r[h] = x
      BY <2>2, <2>9 DEF Earlier
    <3>2. k = Len(q) + 1
      BY <2>3, <2>4, <3>1
    <3>3. PICK h \in 1 .. k - 1 : r[h] = x
      BY <3>1
    <3>4. h \in 1 .. Len(q) /\ q[h] = x
      BY <2>3, <3>2, <3>3
    <3> QED
      BY <3>4 DEF InLog
  <2>10. ASSUME \A u \in Callers : \A i, j \in 1 .. Len(logged[u]) :
                  logged[u][i] = logged[u][j] => i = j
         PROVE  \A u \in Callers : \A i, j \in 1 .. Len(logged'[u]) :
                  logged'[u][i] = logged'[u][j] => i = j
    <3>1. \A i, j \in 1 .. Len(r) : r[i] = r[j] => i = j
      BY <2>3, <2>4, <2>10
    <3> QED
      BY <2>2, <2>10, <3>1
  <2> QED
    BY <1>3, <2>5, <2>6, <2>7, <2>8, <2>9, <2>10
<1> QED
  BY <1>2, <1>3

LEMMA InvFill ==
  ASSUME AsyncInv, NEW t \in Callers, Fill(t)
  PROVE  AsyncInv'
<1>1. /\ Queue!Publish(t) /\ doing[t] = "fill"
      /\ doing' = [doing EXCEPT ![t] = AfterPush(t)]
      /\ logged' = IF msg[t].type = "log"
                   THEN [logged EXCEPT ![t] = Append(@, msg[t])] ELSE logged
      /\ UNCHANGED <<worker, written, msg, calls, flush_requested,
                     terminate_requested, flushed, promised, destroyed>>
  BY DEF Fill, helperVars, sinkVars
<1> PICK i, m :
      /\ FillingAt(i, t, m)
      /\ slots' \in Seq(UsedPlaces) /\ Len(slots') = Len(slots) /\ Len(slots) \in Nat
      /\ \A j, x : ReadyAt(j, x)' <=> ReadyAt(j, x) \/ (j = i /\ x = m)
      /\ \A j, u, x : FillingAt(j, u, x)' <=> FillingAt(j, u, x) /\ j # i
      /\ \A j \in 1 .. Len(slots) : slots'[j].state = "emptying" =>
           slots[j].state = "emptying"
      /\ UNCHANGED got /\ outcome' = [outcome EXCEPT ![t] = "accepted"]
  BY <1>1, Published DEF AsyncInv
<1>2. msg[t] = m /\ Sending(t, m) /\ ~IsLogged(m)
  BY <1>1 DEF AsyncInv, PlacesInv, OnceInv, Sending
<1>3. /\ m \in AllMessages /\ m.by = t /\ \A x \in m.covers : IsLogged(x)
      /\ m.type = "log" => m \in LogMessages /\ m.call < calls
  BY <1>2 DEF AsyncInv, CallsInv
<1>4. /\ logged' \in [Callers -> Seq(LogMessages)]
      /\ \A u \in Callers : \A x : InLog(u, x)' <=>
           InLog(u, x) \/ (m.type = "log" /\ u = t /\ x = m)
      /\ \A x : IsLogged(x)' <=> IsLogged(x) \/ (m.type = "log" /\ x = m)
      /\ \A x, y : IsLogged(y) /\ Earlier(x, y)' => Earlier(x, y)
      /\ \A x : Earlier(x, m)' => InLog(t, x)
      /\ (\A u \in Callers : \A h, j \in 1 .. Len(logged[u]) :
            logged[u][h] = logged[u][j] => h = j)
         => (\A u \in Callers : \A h, j \in 1 .. Len(logged'[u]) :
               logged'[u][h] = logged'[u][j] => h = j)
  <2>1. logged' = IF m.type = "log" THEN [logged EXCEPT ![t] = Append(@, m)] ELSE logged
    BY <1>1, <1>2
  <2> QED
    BY <1>2, <1>3, <2>1, LogGrows DEF AsyncInv
<1>5. /\ doing \in [Callers -> {"idle", "push", "fill", "join"}]
      /\ doing' \in [Callers -> {"idle", "push", "fill", "join"}]
      /\ doing'[t] \in {"idle", "join"} /\ \A u \in Callers : u # t => doing'[u] = doing[u]
  BY <1>1 DEF AsyncInv, AsyncTypeOK, AfterPush
<1>6. \A u \in Callers : \A x : /\ Sending(u, x)' => Sending(u, x) /\ u # t
                                /\ Pushing(u, x)' => Pushing(u, x) /\ u # t
  BY <1>1, <1>5 DEF Sending, Pushing
<1>7. /\ \A x : (Held(x)' <=> Held(x)) /\ (Done(x)' <=> Done(x))
      /\ \A s, x : InSink(s, x)' <=> InSink(s, x)
      /\ \A s, j, x : GivenAt(s, j, x)' <=> GivenAt(s, j, x)
  BY <1>1 DEF Held, Holding, Done, InSink, GivenAt
<1>8. /\ \A x, n : Ahead(x, n) => Ahead(x, n)'
      /\ \A x : AheadOfAll(x) => AheadOfAll(x)'
  <2>1. \A j, x : ReadyAt(j, x) => ReadyAt(j, x)'
    OBVIOUS
  <2>2. \A x, n : Ahead(x, n) => Ahead(x, n)'
    BY <1>7, <2>1 DEF Ahead
  <2>3. \A x : AheadOfAll(x) => AheadOfAll(x)'
    BY <1>7, <2>1 DEF AheadOfAll
  <2> QED
    BY <2>2, <2>3
<1>9. AsyncTypeOK'
  <2>1. outcome' \in [Callers \cup {WorkerThread} -> Queue!Outcomes]
    BY DEF AsyncInv, AsyncTypeOK, Queue!Outcomes
  <2> QED
    BY <1>1, <1>4, <1>5, <2>1 DEF AsyncInv, AsyncTypeOK
<1>10. CallsInv'
  BY <1>1, <1>4, <1>6 DEF AsyncInv, CallsInv
<1>11. PlacesInv'
  <2>1. \A j, u, x : FillingAt(j, u, x)' => u \in Callers /\ doing'[u] = "fill" /\ msg'[u] = x
    <3>1. \A j, u, x : FillingAt(j, u, x)' => u # t
      BY DEF AsyncInv, PlacesInv
    <3> QED
      BY <1>1, <1>5, <3>1 DEF AsyncInv, PlacesInv
  <2>2. \A j, h, u, x, y : FillingAt(j, u, x)' /\ FillingAt(h, u, y)' => j = h
    BY DEF AsyncInv, PlacesInv
  <2>3. \A j \in 1 .. Len(slots') : slots'[j].state = "emptying" => j = 1 /\ worker' = "release"
    BY <1>1 DEF AsyncInv, PlacesInv
  <2>4. ASSUME NEW j, NEW x, ReadyAt(j, x)'
        PROVE  (x.type = "log" => IsLogged(x)') /\ \A y \in x.covers : IsLogged(y)'
    <3>1. CASE ReadyAt(j, x)
      BY <1>4, <3>1 DEF AsyncInv, PlacesInv
    <3>2. CASE x = m
      BY <1>3, <1>4, <3>2
    <3> QED
      BY <2>4, <3>1, <3>2
  <2>5. \A x : Held(x)' => x \in AllMessages /\ (x.type = "log" => IsLogged(x)')
    BY <1>4, <1>7 DEF AsyncInv, PlacesInv
  <2>6. \A u \in Callers : \A x : InLog(u, x)' => x.by = u
    BY <1>3, <1>4 DEF AsyncInv, PlacesInv
  <2>7. \A s \in SinkIds : \A x : InSink(s, x)' => IsLogged(x)'
    BY <1>4, <1>7 DEF AsyncInv, PlacesInv
  <2> QED
    BY <2>1, <2>2, <2>3, <2>4, <2>5, <2>6, <2>7 DEF PlacesInv
<1>12. OnceInv'
  <2>1. \A u \in Callers : \A x : Pushing(u, x)' => ~IsLogged(x)'
    <3>1. \A u \in Callers : \A x : Pushing(u, x) => Sending(u, x)
      BY DEF Pushing, Sending
    <3>2. \A u \in Callers : \A x : Sending(u, x) => x.by = u
      BY DEF AsyncInv, CallsInv
    <3> QED
      BY <1>3, <1>4, <1>6, <3>1, <3>2 DEF AsyncInv, OnceInv
  <2>2. \A x : IsLogged(x)' => x.call < calls'
    BY <1>1, <1>3, <1>4 DEF AsyncInv, OnceInv
  <2>3. ASSUME NEW j, NEW u, NEW x, FillingAt(j, u, x)'
        PROVE  ~IsLogged(x)'
    <3>1. FillingAt(j, u, x) /\ u # t /\ u \in Callers /\ doing[u] = "fill" /\ msg[u] = x
      BY <2>3 DEF AsyncInv, PlacesInv
    <3>2. x.by = u
      BY <3>1 DEF AsyncInv, CallsInv, Sending
    <3> QED
      BY <1>3, <1>4, <3>1, <3>2 DEF AsyncInv, OnceInv
  <2>4. ASSUME NEW j, NEW x, ReadyAt(j, x)', x.type = "log"
        PROVE  /\ ~Held(x)' /\ \A s \in SinkIds : ~InSink(s, x)'
               /\ \A h : ReadyAt(h, x)' => j = h
    <3>1. \A h : ReadyAt(h, x) => IsLogged(x)
      BY <2>4 DEF AsyncInv, PlacesInv
    <3>2. CASE x = m
      <4>1. \A h : ~ReadyAt(h, m)
        BY <1>2, <3>1, <3>2
      <4>2. ~Held(m) /\ \A s \in SinkIds : ~InSink(s, m)
        BY <1>2, <2>4, <3>2 DEF AsyncInv, PlacesInv
      <4> QED
        BY <1>7, <2>4, <3>2, <4>1, <4>2
    <3>3. CASE x # m
      BY <1>7, <2>4, <3>3 DEF AsyncInv, OnceInv
    <3> QED
      BY <3>2, <3>3
  <2>5. \A x : Held(x)' /\ x.type = "log" => \A s \in SinkIds : ~InSink(s, x)'
    BY <1>7 DEF AsyncInv, OnceInv
  <2>6. \A u \in Callers : \A h, j \in 1 .. Len(logged'[u]) : logged'[u][h] = logged'[u][j] => h = j
    BY <1>4 DEF AsyncInv, OnceInv
  <2>7. \A s \in SinkIds : \A h, j \in 1 .. Len(written'[s]) :
          written'[s][h] = written'[s][j] => h = j
    BY <1>1 DEF AsyncInv, OnceInv
  <2> QED
    BY <2>1, <2>2, <2>3, <2>4, <2>5, <2>6, <2>7 DEF OnceInv
<1>13. AheadInv'
  <2>1. ASSUME worker # "dead"
        PROVE  /\ \A x : IsLogged(x)' => AheadOfAll(x)'
               /\ \A j, u, y : FillingAt(j, u, y)' =>
                    /\ \A x \in y.covers : Ahead(x, j)'
                    /\ \A x : InLog(u, x)' => Ahead(x, j)'
               /\ \A j, y : ReadyAt(j, y)' => \A x : Precedes(x, y)' => Ahead(x, j)'
    <3>1. ASSUME NEW x, IsLogged(x)'
          PROVE  AheadOfAll(x)'
      <4>1. CASE IsLogged(x)
        BY <1>8, <2>1, <4>1 DEF AsyncInv, AheadInv
      <4>2. CASE x = m
        <5>1. ReadyAt(i, x)' /\ i \in 1 .. Len(slots')
          BY <4>2 DEF FillingAt
        <5> QED
          BY <5>1 DEF AheadOfAll
      <4> QED
        BY <1>4, <3>1, <4>1, <4>2
    <3>2. ASSUME NEW j, NEW u, NEW y, FillingAt(j, u, y)'
          PROVE  /\ \A x \in y.covers : Ahead(x, j)'
                 /\ \A x : InLog(u, x)' => Ahead(x, j)'
      <4>1. FillingAt(j, u, y) /\ u # t /\ u \in Callers
        BY <3>2 DEF AsyncInv, PlacesInv
      <4>2. /\ \A x \in y.covers : Ahead(x, j)
            /\ \A x : InLog(u, x) => Ahead(x, j)
        BY <2>1, <4>1 DEF AsyncInv, AheadInv
      <4> QED
        BY <1>4, <1>8, <4>1, <4>2
    <3>3. ASSUME NEW j, NEW y, ReadyAt(j, y)', NEW x, Precedes(x, y)'
          PROVE  Ahead(x, j)'
      <4>1. x \in y.covers \/ Earlier(x, y)'
        BY <3>3 DEF Precedes
      <4>2. CASE j = i /\ y = m
        <5>1. x \in m.covers \/ InLog(t, x)
          BY <1>4, <4>1, <4>2
        <5>2. Ahead(x, i)
          BY <2>1, <5>1 DEF AsyncInv, AheadInv
        <5> QED
          BY <1>8, <4>2, <5>2
      <4>3. CASE ReadyAt(j, y)
        <5>1. Earlier(x, y)' => y.type = "log"
          BY DEF Earlier
        <5>2. Earlier(x, y)' => IsLogged(y)
          BY <4>3, <5>1 DEF AsyncInv, PlacesInv
        <5>3. Precedes(x, y)
          BY <1>4, <4>1, <5>2 DEF Precedes
        <5> QED
          BY <1>8, <2>1, <4>3, <5>3 DEF AsyncInv, AheadInv
      <4> QED
        BY <3>3, <4>2, <4>3
    <3> QED
      BY <3>1, <3>2, <3>3
  <2>2. ASSUME NEW y, Held(y)', NEW x, Precedes(x, y)'
        PROVE  Done(x)'
    <3>1. Held(y) /\ (y.type = "log" => IsLogged(y))
      BY <1>7, <2>2 DEF AsyncInv, PlacesInv
    <3>2. Earlier(x, y)' => y.type = "log"
      BY DEF Earlier
    <3>3. Precedes(x, y)
      BY <1>4, <2>2, <3>1, <3>2 DEF Precedes
    <3> QED
      BY <1>7, <3>1, <3>3 DEF AsyncInv, AheadInv
  <2>3. SinksInOrder'
    <3>1. \A s, j, y : GivenAt(s, j, y) => IsLogged(y)
      BY DEF AsyncInv, PlacesInv, GivenAt, InSink
    <3> QED
      BY <1>4, <1>7, <3>1 DEF AsyncInv, AheadInv, SinksInOrder
  <2> QED
    BY <1>1, <2>1, <2>2, <2>3 DEF AheadInv
<1>14. FlushInv'
  BY <1>1, <1>7 DEF AsyncInv, FlushInv, OnDisk
<1>15. EndInv'
  <2>1. ~Terminating /\ ~terminate_requested
    BY <1>1 DEF AsyncInv, EndInv, Terminating
  <2>2. ASSUME NEW u \in Callers, NEW x, Sending(u, x)', x.type = "terminate"
        PROVE  destroyed' = "begun" /\ \A v \in Callers : v # u => doing'[v] = "idle"
    <3>1. Sending(u, x) /\ u # t
      BY <1>6, <2>2
    <3> QED
      BY <1>1, <2>2, <3>1 DEF AsyncInv, EndInv
  <2>3. Terminating' => m.type = "terminate"
    BY <1>1, <1>7, <2>1 DEF Terminating
  <2>4. m.type = "terminate" =>
          destroyed' \in {"begun", "done"} /\ \A u \in Callers : doing'[u] \in {"idle", "join"}
    BY <1>1, <1>2, <1>5 DEF AsyncInv, EndInv
  <2>5. worker # "ended"
    BY <2>1 DEF AsyncInv, EndInv
  <2> QED
    BY <1>1, <2>1, <2>2, <2>3, <2>4, <2>5 DEF EndInv
<1> QED
  BY <1>9, <1>10, <1>11, <1>12, <1>13, <1>14, <1>15 DEF AsyncInv

\* Messages that were logged are log messages, and so is what precedes a message.
LEMMA LoggedAreLogs ==
  ASSUME AsyncTypeOK
  PROVE  \A x : IsLogged(x) => x \in LogMessages /\ x.type = "log"
<1>1. \A x : IsLogged(x) => x \in LogMessages
  BY ElementOfSeq DEF AsyncTypeOK, IsLogged, InLog
<1> QED
  BY <1>1 DEF LogMessages

LEMMA PrecedingAreLogged ==
  ASSUME PlacesInv, NEW m, m.type = "log" => IsLogged(m), \A x \in m.covers : IsLogged(x),
         NEW x, Precedes(x, m)
  PROVE  IsLogged(x)
<1>1. CASE Earlier(x, m)
  <2>1. m.by \in Callers
    BY <1>1 DEF Earlier, IsLogged, PlacesInv
  <2>2. PICK k \in 1 .. Len(logged[m.by]) : \E h \in 1 .. k - 1 : logged[m.by][h] = x
    BY <1>1 DEF Earlier
  <2>3. PICK h \in 1 .. k - 1 : logged[m.by][h] = x
    BY <2>2
  <2>4. h \in 1 .. Len(logged[m.by])
    BY <2>2, <2>3
  <2> QED
    BY <2>1, <2>3, <2>4 DEF IsLogged, InLog
<1> QED
  BY <1>1 DEF Precedes

LEMMA InvTake ==
  ASSUME AsyncInv, worker = "dequeue", Queue!Take(WorkerThread), worker' = "release",
         UNCHANGED <<callVars, helperVars, sinkVars, promised>>
  PROVE  AsyncInv'
<1>1. UNCHANGED <<doing, msg, calls, logged, destroyed, flush_requested, terminate_requested,
                  written, flushed, promised>>
  BY DEF callVars, helperVars, sinkVars
<1> PICK m \in AllMessages :
      /\ ReadyAt(1, m) /\ got'[WorkerThread] = m
      /\ got' = [got EXCEPT ![WorkerThread] = m]
      /\ slots' \in Seq(UsedPlaces) /\ Len(slots') = Len(slots) /\ Len(slots) \in Nat
      /\ \A j, x : ReadyAt(j, x)' <=> ReadyAt(j, x) /\ j # 1
      /\ \A j, u, x : FillingAt(j, u, x)' <=> FillingAt(j, u, x)
      /\ \A j \in 1 .. Len(slots) : slots'[j].state = "emptying" =>
           j = 1 \/ slots[j].state = "emptying"
      /\ UNCHANGED outcome
  BY Taken DEF AsyncInv
<1>2. \A x : ~Held(x) /\ (Held(x)' <=> x = m)
  BY DEF Held, Holding
<1>3. \A x : ReadyAt(1, x) => x = m
  BY DEF ReadyAt
<1>4. /\ \A s, x : InSink(s, x)' <=> InSink(s, x)
      /\ \A s, i, x : GivenAt(s, i, x)' <=> GivenAt(s, i, x)
      /\ \A x : (Done(x)' <=> Done(x)) /\ (IsLogged(x)' <=> IsLogged(x))
      /\ \A u, x : (InLog(u, x)' <=> InLog(u, x)) /\ (Pushing(u, x)' <=> Pushing(u, x))
                   /\ (Sending(u, x)' <=> Sending(u, x))
      /\ \A x, y : (Earlier(x, y)' <=> Earlier(x, y)) /\ (Precedes(x, y)' <=> Precedes(x, y))
  BY <1>1 DEF InSink, GivenAt, Done, InLog, IsLogged, Earlier, Precedes, Pushing, Sending
<1>5. /\ \A x, n : Ahead(x, n) => Ahead(x, n)'
      /\ \A x : AheadOfAll(x) => AheadOfAll(x)'
  <2>1. \A j, x : ReadyAt(j, x) => ReadyAt(j, x)' \/ Held(x)'
    BY <1>2, <1>3
  <2>2. \A x, n : Ahead(x, n) => Ahead(x, n)'
    BY <1>2, <1>4, <2>1 DEF Ahead
  <2>3. \A x : AheadOfAll(x) => AheadOfAll(x)'
    BY <1>2, <1>4, <2>1 DEF AheadOfAll
  <2> QED
    BY <2>2, <2>3
<1>6. AsyncTypeOK'
  BY <1>1 DEF AsyncInv, AsyncTypeOK
<1>7. CallsInv'
  BY <1>1, <1>4 DEF AsyncInv, CallsInv
<1>8. PlacesInv'
  <2>1. \A j \in 1 .. Len(slots') : slots'[j].state = "emptying" => j = 1 /\ worker' = "release"
    BY DEF AsyncInv, PlacesInv
  <2>2. \A x : Held(x)' => x \in AllMessages /\ (x.type = "log" => IsLogged(x)')
    BY <1>2, <1>4 DEF AsyncInv, PlacesInv
  <2> QED
    BY <1>1, <1>4, <2>1, <2>2 DEF AsyncInv, PlacesInv
<1>9. OnceInv'
  <2>1. \A j, x : ReadyAt(j, x)' /\ x.type = "log" =>
          /\ ~Held(x)' /\ \A s \in SinkIds : ~InSink(s, x)'
          /\ \A h : ReadyAt(h, x)' => j = h
    BY <1>2, <1>4 DEF AsyncInv, OnceInv
  <2>2. \A x : Held(x)' /\ x.type = "log" => \A s \in SinkIds : ~InSink(s, x)'
    BY <1>2, <1>4 DEF AsyncInv, OnceInv
  <2> QED
    BY <1>1, <1>4, <2>1, <2>2 DEF AsyncInv, OnceInv
<1>10. AheadInv'
  <2>1. /\ \A x : IsLogged(x) => AheadOfAll(x)
        /\ \A i, t, y : FillingAt(i, t, y) =>
             /\ \A x \in y.covers : Ahead(x, i)
             /\ \A x : InLog(t, x) => Ahead(x, i)
        /\ \A i, y : ReadyAt(i, y) => \A x : Precedes(x, y) => Ahead(x, i)
    BY DEF AsyncInv, AheadInv
  <2>2. /\ \A x : IsLogged(x)' => AheadOfAll(x)'
        /\ \A i, t, y : FillingAt(i, t, y)' =>
             /\ \A x \in y.covers : Ahead(x, i)'
             /\ \A x : InLog(t, x)' => Ahead(x, i)'
        /\ \A i, y : ReadyAt(i, y)' => \A x : Precedes(x, y)' => Ahead(x, i)'
    BY <1>4, <1>5, <2>1
  <2>3. \A x : Precedes(x, m) => Done(x)
    <3>1. \A x : Precedes(x, m) => Ahead(x, 1)
      BY <2>1
    <3>2. 1 .. 1 - 1 = {}
      OBVIOUS
    <3> QED
      BY <1>2, <3>1, <3>2 DEF Ahead
  <2>4. SinksInOrder'
    BY <1>4 DEF AsyncInv, AheadInv, SinksInOrder
  <2> QED
    BY <1>2, <1>4, <2>2, <2>3, <2>4 DEF AheadInv
<1>11. FlushInv'
  BY <1>1, <1>4 DEF AsyncInv, FlushInv, OnDisk
<1>12. EndInv'
  <2>1. Terminating' => Terminating
    BY <1>1, <1>2 DEF Terminating
  <2> QED
    BY <1>1, <1>4, <2>1 DEF AsyncInv, EndInv
<1> QED
  BY <1>6, <1>7, <1>8, <1>9, <1>10, <1>11, <1>12 DEF AsyncInv

LEMMA InvRelease ==
  ASSUME AsyncInv, worker = "release", Queue!Release(WorkerThread), worker' = "process",
         UNCHANGED <<callVars, helperVars, sinkVars, promised>>
  PROVE  AsyncInv'
<1>1. UNCHANGED <<doing, msg, calls, logged, destroyed, flush_requested, terminate_requested,
                  written, flushed, promised>>
  BY DEF callVars, helperVars, sinkVars
<1>2. /\ slots' \in Seq(UsedPlaces) /\ Len(slots') = Len(slots) - 1 /\ Len(slots) \in Nat
      /\ \A j, x : ReadyAt(j, x)' <=> ReadyAt(j + 1, x) /\ j \in Nat \ {0}
      /\ \A j, x : ReadyAt(j, x) => j - 1 \in Nat \ {0} /\ ReadyAt(j - 1, x)'
      /\ \A j, u, x : FillingAt(j, u, x)' <=> FillingAt(j + 1, u, x) /\ j \in Nat \ {0}
      /\ \A j, u, x : FillingAt(j, u, x) => j - 1 \in Nat \ {0} /\ FillingAt(j - 1, u, x)'
      /\ \A j \in 1 .. Len(slots') : slots'[j].state # "emptying"
      /\ UNCHANGED got /\ outcome' = [outcome EXCEPT ![WorkerThread] = "taken"]
  BY Released DEF AsyncInv
<1>3. \A x : Held(x)' <=> Held(x)
  BY <1>2 DEF Held, Holding
<1>4. /\ \A s, x : InSink(s, x)' <=> InSink(s, x)
      /\ \A s, i, x : GivenAt(s, i, x)' <=> GivenAt(s, i, x)
      /\ \A x : (Done(x)' <=> Done(x)) /\ (IsLogged(x)' <=> IsLogged(x))
      /\ \A u, x : (InLog(u, x)' <=> InLog(u, x)) /\ (Pushing(u, x)' <=> Pushing(u, x))
                   /\ (Sending(u, x)' <=> Sending(u, x))
      /\ \A x, y : (Earlier(x, y)' <=> Earlier(x, y)) /\ (Precedes(x, y)' <=> Precedes(x, y))
  BY <1>1 DEF InSink, GivenAt, Done, InLog, IsLogged, Earlier, Precedes, Pushing, Sending
<1>5. /\ \A x : \A n \in Nat \ {0} : Ahead(x, n + 1) => Ahead(x, n)'
      /\ \A x : AheadOfAll(x) => AheadOfAll(x)'
  <2>1. ASSUME NEW x, NEW n \in Nat \ {0}, Ahead(x, n + 1)
        PROVE  Ahead(x, n)'
    <3>1. CASE \E i \in 1 .. n : ReadyAt(i, x)
      <4>1. PICK i \in 1 .. n : ReadyAt(i, x)
        BY <3>1
      <4>2. i - 1 \in Nat \ {0} /\ ReadyAt(i - 1, x)'
        BY <1>2, <4>1
      <4>3. i - 1 \in 1 .. n - 1
        BY <4>2
      <4> QED
        BY <4>2, <4>3 DEF Ahead
    <3>2. (n + 1) - 1 = n
      OBVIOUS
    <3> QED
      BY <1>3, <1>4, <2>1, <3>1, <3>2 DEF Ahead
  <2>2. ASSUME NEW x, AheadOfAll(x)
        PROVE  AheadOfAll(x)'
    <3>1. CASE \E i \in 1 .. Len(slots) : ReadyAt(i, x)
      <4>1. PICK i \in 1 .. Len(slots) : ReadyAt(i, x)
        BY <3>1
      <4>2. i - 1 \in Nat \ {0} /\ ReadyAt(i - 1, x)'
        BY <1>2, <4>1
      <4>3. i - 1 \in 1 .. Len(slots')
        BY <1>2, <4>2
      <4> QED
        BY <4>2, <4>3 DEF AheadOfAll
    <3> QED
      BY <1>3, <1>4, <2>2, <3>1 DEF AheadOfAll
  <2> QED
    BY <2>1, <2>2
<1>6. AsyncTypeOK'
  <2>1. outcome' \in [Callers \cup {WorkerThread} -> Queue!Outcomes]
    BY <1>2 DEF AsyncInv, AsyncTypeOK, Queue!Outcomes
  <2> QED
    BY <1>1, <1>2, <2>1 DEF AsyncInv, AsyncTypeOK
<1>7. CallsInv'
  BY <1>1, <1>4 DEF AsyncInv, CallsInv
<1>8. PlacesInv'
  <2>1. \A i, j, t, m, n : FillingAt(i, t, m)' /\ FillingAt(j, t, n)' => i = j
    <3> SUFFICES ASSUME NEW i, NEW j, NEW t, NEW m, NEW n,
                        FillingAt(i, t, m)', FillingAt(j, t, n)'
                 PROVE  i = j
      OBVIOUS
    <3>1. i \in Nat /\ j \in Nat /\ i + 1 = j + 1
      BY <1>2 DEF AsyncInv, PlacesInv
    <3> QED
      BY <3>1
  <2>2. \A i, t, m : FillingAt(i, t, m)' => t \in Callers /\ doing[t] = "fill" /\ msg[t] = m
    BY <1>2 DEF AsyncInv, PlacesInv
  <2>3. \A i, m : ReadyAt(i, m)' =>
          (m.type = "log" => IsLogged(m)) /\ \A x \in m.covers : IsLogged(x)
    BY <1>2 DEF AsyncInv, PlacesInv
  <2>4. \A m : Held(m)' => m \in AllMessages /\ (m.type = "log" => IsLogged(m))
    BY <1>3 DEF AsyncInv, PlacesInv
  <2> QED
    BY <1>1, <1>2, <1>4, <2>1, <2>2, <2>3, <2>4 DEF AsyncInv, PlacesInv
<1>9. OnceInv'
  <2>1. ASSUME NEW j, NEW x, ReadyAt(j, x)', x.type = "log"
        PROVE  /\ ~Held(x)' /\ \A s \in SinkIds : ~InSink(s, x)'
               /\ \A h : ReadyAt(h, x)' => j = h
    <3>1. ReadyAt(j + 1, x) /\ j \in Nat
      BY <1>2, <2>1
    <3>2. /\ ~Held(x) /\ \A s \in SinkIds : ~InSink(s, x)
          /\ \A h : ReadyAt(h, x) => j + 1 = h
      BY <2>1, <3>1 DEF AsyncInv, OnceInv
    <3>3. ASSUME NEW h, ReadyAt(h, x)'
          PROVE  j = h
      <4>1. h \in Nat /\ j + 1 = h + 1
        BY <1>2, <3>2, <3>3
      <4> QED
        BY <3>1, <4>1
    <3> QED
      BY <1>3, <1>4, <3>2, <3>3
  <2>2. \A i, t, m : FillingAt(i, t, m)' => ~IsLogged(m)
    BY <1>2 DEF AsyncInv, OnceInv
  <2>3. \A m : Held(m)' /\ m.type = "log" => \A s \in SinkIds : ~InSink(s, m)'
    BY <1>3, <1>4 DEF AsyncInv, OnceInv
  <2> QED
    BY <1>1, <1>4, <2>1, <2>2, <2>3 DEF AsyncInv, OnceInv
<1>10. AheadInv'
  <2>1. /\ \A x : IsLogged(x) => AheadOfAll(x)
        /\ \A i, t, y : FillingAt(i, t, y) =>
             /\ \A x \in y.covers : Ahead(x, i)
             /\ \A x : InLog(t, x) => Ahead(x, i)
        /\ \A i, y : ReadyAt(i, y) => \A x : Precedes(x, y) => Ahead(x, i)
    BY DEF AsyncInv, AheadInv
  <2>2. \A x : IsLogged(x)' => AheadOfAll(x)'
    BY <1>4, <1>5, <2>1
  <2>3. ASSUME NEW i, NEW t, NEW y, FillingAt(i, t, y)'
        PROVE  /\ \A x \in y.covers : Ahead(x, i)'
               /\ \A x : InLog(t, x)' => Ahead(x, i)'
    <3>1. FillingAt(i + 1, t, y) /\ i \in Nat \ {0}
      BY <1>2, <2>3
    <3> QED
      BY <1>4, <1>5, <2>1, <3>1
  <2>4. ASSUME NEW i, NEW y, ReadyAt(i, y)', NEW x, Precedes(x, y)'
        PROVE  Ahead(x, i)'
    <3>1. ReadyAt(i + 1, y) /\ i \in Nat \ {0} /\ Precedes(x, y)
      BY <1>2, <1>4, <2>4
    <3> QED
      BY <1>5, <2>1, <3>1
  <2>5. \A y : Held(y)' => \A x : Precedes(x, y)' => Done(x)'
    BY <1>3, <1>4 DEF AsyncInv, AheadInv
  <2>6. SinksInOrder'
    BY <1>4 DEF AsyncInv, AheadInv, SinksInOrder
  <2> QED
    BY <2>2, <2>3, <2>4, <2>5, <2>6 DEF AheadInv
<1>11. FlushInv'
  BY <1>1, <1>4 DEF AsyncInv, FlushInv, OnDisk
<1>12. EndInv'
  <2>1. Terminating' => Terminating
    BY <1>1, <1>2, <1>3 DEF Terminating
  <2> QED
    BY <1>1, <1>4, <2>1 DEF AsyncInv, EndInv
<1> QED
  BY <1>6, <1>7, <1>8, <1>9, <1>10, <1>11, <1>12 DEF AsyncInv

\* Where the worker holds no message, before and after.
LEMMA IdleKeeps ==
  ASSUME ~Holding, ~Holding', UNCHANGED <<slots, got, logged, written>>
  PROVE  /\ \A i, x : ReadyAt(i, x)' <=> ReadyAt(i, x)
         /\ \A i, t, x : FillingAt(i, t, x)' <=> FillingAt(i, t, x)
         /\ \A x : ~Held(x) /\ ~Held(x)' /\ (Done(x)' <=> Done(x))
         /\ \A s, x : InSink(s, x)' <=> InSink(s, x)
         /\ \A s, i, x : GivenAt(s, i, x)' <=> GivenAt(s, i, x)
         /\ \A t, x : InLog(t, x)' <=> InLog(t, x)
         /\ \A x : (IsLogged(x)' <=> IsLogged(x)) /\ (AheadOfAll(x)' <=> AheadOfAll(x))
         /\ \A x, n : Ahead(x, n)' <=> Ahead(x, n)
         /\ \A x, m : (Earlier(x, m)' <=> Earlier(x, m)) /\ (Precedes(x, m)' <=> Precedes(x, m))
<1>1. /\ \A i, x : ReadyAt(i, x)' <=> ReadyAt(i, x)
      /\ \A i, t, x : FillingAt(i, t, x)' <=> FillingAt(i, t, x)
      /\ \A x : ~Held(x) /\ ~Held(x)' /\ (Done(x)' <=> Done(x))
  BY DEF ReadyAt, FillingAt, Held, Done, InSink
<1>2. /\ \A s, x : InSink(s, x)' <=> InSink(s, x)
      /\ \A s, i, x : GivenAt(s, i, x)' <=> GivenAt(s, i, x)
      /\ \A t, x : InLog(t, x)' <=> InLog(t, x)
      /\ \A x : IsLogged(x)' <=> IsLogged(x)
      /\ \A x, m : (Earlier(x, m)' <=> Earlier(x, m)) /\ (Precedes(x, m)' <=> Precedes(x, m))
  BY DEF InSink, GivenAt, InLog, IsLogged, Earlier, Precedes
<1>3. /\ \A x : AheadOfAll(x)' <=> AheadOfAll(x)
      /\ \A x, n : Ahead(x, n)' <=> Ahead(x, n)
  BY <1>1 DEF AheadOfAll, Ahead
<1> QED
  BY <1>1, <1>2, <1>3

\* What a step of the idle worker leaves as it is.
LEMMA IdleInv ==
  ASSUME AsyncInv, worker \in {"dequeue", "quiet"}, worker' \in {"dequeue", "quiet", "ended"},
         UNCHANGED <<slots, got, doing, msg, calls, logged, destroyed, terminate_requested,
                     written, promised>>
  PROVE  /\ CallsInv' /\ PlacesInv' /\ OnceInv' /\ AheadInv'
         /\ Terminating' <=> Terminating
<1>1. ~Holding /\ ~Holding'
  BY DEF Holding
<1>2. \A t \in Callers : \A x :
        (Pushing(t, x)' <=> Pushing(t, x)) /\ (Sending(t, x)' <=> Sending(t, x))
  BY DEF Pushing, Sending
<1>3. CallsInv'
  BY <1>1, <1>2, IdleKeeps DEF AsyncInv, CallsInv
<1>4. PlacesInv'
  <2>1. \A i \in 1 .. Len(slots) : slots[i].state # "emptying"
    BY DEF AsyncInv, PlacesInv
  <2> QED
    BY <1>1, <2>1, IdleKeeps DEF AsyncInv, PlacesInv
<1>5. OnceInv'
  BY <1>1, <1>2, IdleKeeps DEF AsyncInv, OnceInv
<1>6. AheadInv'
  BY <1>1, IdleKeeps DEF AsyncInv, AheadInv, SinksInOrder
<1>7. Terminating' <=> Terminating
  BY <1>1, IdleKeeps DEF Terminating
<1> QED
  BY <1>3, <1>4, <1>5, <1>6, <1>7

\* Nothing is to be had.  When the worker was told to end, nothing is coming either.
LEMMA InvNothing ==
  ASSUME AsyncInv, worker = "dequeue", Queue!FindNothing(WorkerThread), worker' = "quiet",
         UNCHANGED <<callVars, helperVars, sinkVars, promised>>
  PROVE  AsyncInv'
<1>1. UNCHANGED <<slots, got, doing, msg, calls, logged, destroyed, flush_requested,
                  terminate_requested, written, flushed, promised>>
  BY DEF callVars, helperVars, sinkVars, Queue!FindNothing
<1>2. /\ CallsInv' /\ PlacesInv' /\ OnceInv' /\ AheadInv'
      /\ Terminating' <=> Terminating
  BY <1>1, IdleInv
<1>3. AsyncTypeOK'
  <2>1. outcome' \in [Callers \cup {WorkerThread} -> Queue!Outcomes]
    BY DEF AsyncInv, AsyncTypeOK, Queue!FindNothing, Queue!Outcomes
  <2> QED
    BY <1>1, <2>1 DEF AsyncInv, AsyncTypeOK
<1>4. FlushInv'
  <2>1. \A x : Done(x)' <=> Done(x)
    BY <1>1 DEF Done, InSink
  <2> QED
    BY <1>1, <2>1 DEF AsyncInv, FlushInv, OnDisk
<1>5. terminate_requested => slots = <<>>
  <2> SUFFICES ASSUME terminate_requested, slots # <<>>
               PROVE  FALSE
    OBVIOUS
  <2>1. slots \in Seq(UsedPlaces) /\ Len(slots) \in Nat /\ DOMAIN slots = 1 .. Len(slots)
    BY LenProperties DEF AsyncInv, AsyncTypeOK
  <2>2. 1 \in 1 .. Len(slots)
    BY <2>1, EmptySeq
  <2>3. slots[1] \in UsedPlaces
    BY <2>1, <2>2, ElementOfSeq
  <2>4. slots[1].state # "emptying"
    BY <2>2 DEF AsyncInv, PlacesInv
  <2>5. slots[1].state # "ready"
    <3>1. 1 .. 1 - 1 = {}
      OBVIOUS
    <3> QED
      BY <2>1, <2>2, <3>1 DEF Queue!FindNothing, Queue!AtFront
  <2>6. slots[1].state = "filling"
    BY <2>3, <2>4, <2>5 DEF UsedPlaces
  <2>7. PICK t, m : FillingAt(1, t, m)
    BY <2>2, <2>6 DEF FillingAt
  <2>8. t \in Callers /\ doing[t] = "fill"
    BY <2>7 DEF AsyncInv, PlacesInv
  <2> QED
    BY <2>8 DEF AsyncInv, EndInv, Terminating
<1>6. EndInv'
  <2>1. \A t \in Callers : \A m : Sending(t, m)' <=> Sending(t, m)
    BY <1>1 DEF Sending
  <2> QED
    BY <1>1, <1>2, <1>5, <2>1 DEF AsyncInv, EndInv
<1> QED
  BY <1>2, <1>3, <1>4, <1>6 DEF AsyncInv

\* The queue was empty: a flush reaches all that was promised.
LEMMA InvQuiet ==
  ASSUME AsyncInv, Quiet
  PROVE  AsyncInv'
<1>1. /\ worker = "quiet" /\ worker' = AfterQuiet
      /\ UNCHANGED <<slots, outcome, got, doing, msg, calls, logged, destroyed,
                     terminate_requested, written, promised>>
      /\ \/ flushed' = [s \in SinkIds |-> Len(written[s])] /\ flush_requested' = FALSE
         \/ ~flush_requested /\ UNCHANGED <<flushed, flush_requested>>
  BY DEF Quiet, asyncQueueVars, callVars
<1>2. /\ worker' = IF terminate_requested THEN "ended" ELSE "dequeue"
      /\ worker' \in {"dequeue", "ended"}
  BY <1>1 DEF AfterQuiet
<1>3. /\ CallsInv' /\ PlacesInv' /\ OnceInv' /\ AheadInv'
      /\ Terminating' <=> Terminating
  BY <1>1, <1>2, IdleInv
<1>4. \A s \in SinkIds : written[s] \in Seq(LogMessages) /\ Len(written[s]) \in Nat
  BY LenProperties DEF AsyncInv, AsyncTypeOK
<1>5. AsyncTypeOK'
  <2>1. flushed' \in [SinkIds -> Nat] /\ flush_requested' \in BOOLEAN
    BY <1>1, <1>4 DEF AsyncInv, AsyncTypeOK
  <2> QED
    BY <1>1, <1>2, <2>1 DEF AsyncInv, AsyncTypeOK
<1>6. FlushInv'
  <2>1. \A x : Done(x)' <=> Done(x)
    BY <1>1 DEF Done, InSink
  <2>2. CASE flushed' = [s \in SinkIds |-> Len(written[s])]
    <3>1. \A s \in SinkIds : flushed'[s] <= Len(written'[s])
      BY <1>1, <1>4, <2>2
    <3>2. ASSUME NEW s \in SinkIds, NEW x \in promised
          PROVE  x \in OnDisk(s)'
      <4>1. InSink(s, x)
        BY <1>1 DEF AsyncInv, FlushInv, Done
      <4>2. PICK i \in 1 .. Len(written[s]) : written[s][i] = x
        BY <4>1 DEF InSink
      <4> QED
        BY <1>1, <2>2, <4>2 DEF OnDisk
    <3>3. \A s \in SinkIds : promised' \subseteq OnDisk(s)'
      BY <1>1, <3>2
    <3> QED
      BY <1>1, <2>1, <3>1, <3>3 DEF AsyncInv, FlushInv
  <2>3. CASE ~flush_requested /\ UNCHANGED <<flushed, flush_requested>>
    BY <1>1, <2>1, <2>3 DEF AsyncInv, FlushInv, OnDisk
  <2> QED
    BY <1>1, <2>2, <2>3
<1>7. EndInv'
  <2>1. \A t \in Callers : \A m : Sending(t, m)' <=> Sending(t, m)
    BY <1>1 DEF Sending
  <2>2. terminate_requested =>
          /\ worker' = "ended" /\ slots = <<>>
          /\ \A s \in SinkIds : flushed'[s] = Len(written'[s])
    BY <1>1, <1>2 DEF AsyncInv, EndInv
  <2> QED
    BY <1>1, <1>2, <1>3, <2>1, <2>2 DEF AsyncInv, EndInv
<1> QED
  BY <1>3, <1>5, <1>6, <1>7 DEF AsyncInv

\* A request is no log message: nothing is waiting for it.
LEMMA InvRemember ==
  ASSUME AsyncInv, Remember
  PROVE  AsyncInv'
<1> PICK m : m = got[WorkerThread]
  OBVIOUS
<1>1. /\ worker = "process" /\ worker' = "dequeue" /\ m.type # "log"
      /\ UNCHANGED <<slots, outcome, got, doing, msg, calls, logged, destroyed,
                     written, flushed>>
      /\ flush_requested' = TRUE /\ promised' = promised \cup m.covers
      /\ terminate_requested' = (terminate_requested \/ m.type = "terminate")
  BY DEF Remember, asyncQueueVars, callVars, sinkVars
<1>2. Held(m) /\ m \in AllMessages /\ \A x : ~Held(x)' /\ (Held(x) <=> x = m)
  BY <1>1 DEF Held, Holding, AsyncInv, PlacesInv
<1>3. /\ \A i, x : ReadyAt(i, x)' <=> ReadyAt(i, x)
      /\ \A i, t, x : FillingAt(i, t, x)' <=> FillingAt(i, t, x)
      /\ \A s, x : InSink(s, x)' <=> InSink(s, x)
      /\ \A s, i, x : GivenAt(s, i, x)' <=> GivenAt(s, i, x)
      /\ \A x : (Done(x)' <=> Done(x)) /\ (IsLogged(x)' <=> IsLogged(x))
      /\ \A u, x : (InLog(u, x)' <=> InLog(u, x)) /\ (Pushing(u, x)' <=> Pushing(u, x))
                   /\ (Sending(u, x)' <=> Sending(u, x))
      /\ \A x, y : (Earlier(x, y)' <=> Earlier(x, y)) /\ (Precedes(x, y)' <=> Precedes(x, y))
  BY <1>1 DEF ReadyAt, FillingAt, InSink, GivenAt, Done, InLog, IsLogged, Earlier, Precedes,
              Pushing, Sending
<1>4. \A x : IsLogged(x) => x \in LogMessages /\ ~Held(x)
  BY <1>1, <1>2, LoggedAreLogs DEF AsyncInv
<1>5. /\ \A x, n : IsLogged(x) /\ Ahead(x, n) => Ahead(x, n)'
      /\ \A x : IsLogged(x) /\ AheadOfAll(x) => AheadOfAll(x)'
  BY <1>1, <1>3, <1>4 DEF Ahead, AheadOfAll
<1>6. AsyncTypeOK'
  <2>1. m.covers \subseteq LogMessages
    BY <1>2 DEF AllMessages
  <2>2. promised' \subseteq LogMessages /\ terminate_requested' \in BOOLEAN
    BY <1>1, <2>1 DEF AsyncInv, AsyncTypeOK
  <2> QED
    BY <1>1, <2>2 DEF AsyncInv, AsyncTypeOK
<1>7. CallsInv'
  BY <1>1, <1>3 DEF AsyncInv, CallsInv
<1>8. PlacesInv'
  <2>1. \A i \in 1 .. Len(slots) : slots[i].state # "emptying"
    BY <1>1 DEF AsyncInv, PlacesInv
  <2> QED
    BY <1>1, <1>2, <1>3, <2>1 DEF AsyncInv, PlacesInv
<1>9. OnceInv'
  BY <1>1, <1>2, <1>3 DEF AsyncInv, OnceInv
<1>10. AheadInv'
  <2>1. /\ \A x : IsLogged(x) => AheadOfAll(x)
        /\ \A i, t, y : FillingAt(i, t, y) =>
             /\ \A x \in y.covers : Ahead(x, i)
             /\ \A x : InLog(t, x) => Ahead(x, i)
        /\ \A i, y : ReadyAt(i, y) => \A x : Precedes(x, y) => Ahead(x, i)
    BY <1>1 DEF AsyncInv, AheadInv
  <2>2. \A x : IsLogged(x)' => AheadOfAll(x)'
    BY <1>3, <1>5, <2>1
  <2>3. ASSUME NEW i, NEW t, NEW y, FillingAt(i, t, y)
        PROVE  /\ \A x \in y.covers : Ahead(x, i)'
               /\ \A x : InLog(t, x) => Ahead(x, i)'
    <3>1. t \in Callers /\ Sending(t, y)
      BY <2>3 DEF AsyncInv, PlacesInv, Sending
    <3>2. /\ \A x \in y.covers : IsLogged(x)
          /\ \A x : InLog(t, x) => IsLogged(x)
      BY <3>1 DEF AsyncInv, CallsInv, IsLogged
    <3> QED
      BY <1>5, <2>1, <2>3, <3>2
  <2>4. ASSUME NEW i, NEW y, ReadyAt(i, y), NEW x, Precedes(x, y)
        PROVE  Ahead(x, i)'
    <3>1. (y.type = "log" => IsLogged(y)) /\ \A z \in y.covers : IsLogged(z)
      BY <2>4 DEF AsyncInv, PlacesInv
    <3>2. IsLogged(x)
      BY <2>4, <3>1, PrecedingAreLogged DEF AsyncInv
    <3> QED
      BY <1>5, <2>1, <2>4, <3>2
  <2>5. SinksInOrder'
    BY <1>3 DEF AsyncInv, AheadInv, SinksInOrder
  <2> QED
    BY <1>2, <1>3, <2>2, <2>3, <2>4, <2>5 DEF AheadInv
<1>11. FlushInv'
  <2>1. \A x \in m.covers : Done(x)
    BY <1>2 DEF AsyncInv, AheadInv, Precedes
  <2>2. \A x \in promised' : Done(x)'
    BY <1>1, <1>3, <2>1 DEF AsyncInv, FlushInv
  <2> QED
    BY <1>1, <2>2 DEF AsyncInv, FlushInv
<1>12. EndInv'
  <2>1. Terminating' => Terminating
    BY <1>1, <1>2, <1>3 DEF Terminating
  <2> QED
    BY <1>1, <1>3, <2>1 DEF AsyncInv, EndInv
<1> QED
  BY <1>6, <1>7, <1>8, <1>9, <1>10, <1>11, <1>12 DEF AsyncInv

\* A log message goes to the sinks in which it is not yet, all of them or as far
\* as one throws; those that must precede it are there.
LEMMA InvWrite ==
  ASSUME AsyncInv, Write
  PROVE  AsyncInv'
<1> PICK m : m = got[WorkerThread]
  OBVIOUS
<1>1. PICK G : /\ GiveTo(G)
               /\ \/ G = SinkIds /\ worker' = "dequeue"
                  \/ worker' = "dead"
  BY DEF Write
<1>2. /\ worker = "process" /\ worker' \in {"dequeue", "dead"} /\ m.type = "log"
      /\ UNCHANGED <<slots, outcome, got, doing, msg, calls, logged, destroyed,
                     flush_requested, terminate_requested, flushed, promised>>
  BY <1>1 DEF Write, asyncQueueVars, callVars
<1>3. Held(m) /\ IsLogged(m) /\ m \in LogMessages /\ \A x : ~Held(x)' /\ (Held(x) <=> x = m)
  <2>1. Held(m) /\ IsLogged(m) /\ \A x : ~Held(x)' /\ (Held(x) <=> x = m)
    BY <1>2 DEF Held, Holding, AsyncInv, PlacesInv
  <2> QED
    BY <2>1, LoggedAreLogs DEF AsyncInv
<1>4. written' = [s \in SinkIds |-> IF s \in G THEN Append(written[s], m) ELSE written[s]]
  BY <1>1 DEF GiveTo
<1>5. ASSUME NEW s \in SinkIds
      PROVE  /\ written[s] \in Seq(LogMessages) /\ Len(written[s]) \in Nat
             /\ written'[s] \in Seq(LogMessages) /\ Len(written[s]) <= Len(written'[s])
             /\ \A i \in 1 .. Len(written[s]) :
                  i \in 1 .. Len(written'[s]) /\ written'[s][i] = written[s][i]
             /\ \A i \in 1 .. Len(written'[s]) :
                  i \in 1 .. Len(written[s]) \/
                  (s \in G /\ i = Len(written[s]) + 1 /\ written'[s][i] = m)
             /\ s \in G => \E n : GivenAt(s, n, m)'
  <2>1. written[s] \in Seq(LogMessages) /\ Len(written[s]) \in Nat
    BY LenProperties DEF AsyncInv, AsyncTypeOK
  <2>2. CASE s \in G
    <3>1. written'[s] = Append(written[s], m)
      BY <1>4, <2>2
    <3>2. PICK w : w = Append(written[s], m)
      OBVIOUS
    <3>3. /\ w \in Seq(LogMessages) /\ Len(w) = Len(written[s]) + 1
          /\ \A i \in 1 .. Len(written[s]) : i \in 1 .. Len(w) /\ w[i] = written[s][i]
          /\ w[Len(written[s]) + 1] = m
          /\ \A i \in 1 .. Len(w) : i \in 1 .. Len(written[s]) \/ i = Len(written[s]) + 1
          /\ Len(written[s]) + 1 \in 1 .. Len(w)
      BY <1>3, <2>1, <3>2, AppendElements
    <3>4. Len(written[s]) <= Len(w)
      BY <2>1, <3>3
    <3>5. written'[s] = w
      BY <3>1, <3>2
    <3>6. \E n : GivenAt(s, n, m)'
      <4>1. PICK n : n = Len(written[s]) + 1
        OBVIOUS
      <4>2. n \in 1 .. Len(written'[s]) /\ written'[s][n] = m
        BY <3>3, <3>5, <4>1
      <4>3. GivenAt(s, n, m)'
        BY <4>2 DEF GivenAt
      <4> QED
        BY <4>3
    <3> QED
      BY <2>1, <2>2, <3>3, <3>4, <3>5, <3>6
  <2>3. CASE s \notin G
    <3>1. written'[s] = written[s]
      BY <1>4, <2>3
    <3> QED
      BY <2>1, <2>3, <3>1
  <2> QED
    BY <2>2, <2>3
<1>6. /\ \A s, i, x : GivenAt(s, i, x) => GivenAt(s, i, x)'
      /\ \A s, i, x : GivenAt(s, i, x)' =>
           GivenAt(s, i, x) \/ (s \in G /\ i = Len(written[s]) + 1 /\ x = m)
  BY <1>5 DEF GivenAt
<1>7. /\ \A s \in SinkIds : \A x : InSink(s, x) <=> \E i : GivenAt(s, i, x)
      /\ \A s \in SinkIds : \A x : InSink(s, x)' <=> \E i : GivenAt(s, i, x)'
  BY DEF InSink, GivenAt
<1>8. /\ \A s \in SinkIds : \A x : InSink(s, x) => InSink(s, x)'
      /\ \A s \in SinkIds : \A x : InSink(s, x)' => InSink(s, x) \/ x = m
      /\ \A x : Done(x) => Done(x)'
      /\ worker' # "dead" => Done(m)'
  <2>1. \A s \in SinkIds : \A x : InSink(s, x) => InSink(s, x)'
    BY <1>6, <1>7
  <2>2. \A s \in SinkIds : \A x : InSink(s, x)' => InSink(s, x) \/ x = m
    BY <1>6, <1>7
  <2>3. \A x : Done(x) => Done(x)'
    BY <2>1 DEF Done
  <2>4. worker' # "dead" => Done(m)'
    BY <1>1, <1>5, <1>7 DEF Done
  <2> QED
    BY <2>1, <2>2, <2>3, <2>4
<1>9. \A s \in SinkIds : ~InSink(s, m)
  BY <1>2, <1>3 DEF AsyncInv, OnceInv
<1>10. /\ \A i, x : ReadyAt(i, x)' <=> ReadyAt(i, x)
       /\ \A i, t, x : FillingAt(i, t, x)' <=> FillingAt(i, t, x)
       /\ \A x : IsLogged(x)' <=> IsLogged(x)
       /\ \A u, x : (InLog(u, x)' <=> InLog(u, x)) /\ (Pushing(u, x)' <=> Pushing(u, x))
                    /\ (Sending(u, x)' <=> Sending(u, x))
       /\ \A x, y : (Earlier(x, y)' <=> Earlier(x, y)) /\ (Precedes(x, y)' <=> Precedes(x, y))
  BY <1>2 DEF ReadyAt, FillingAt, InLog, IsLogged, Earlier, Precedes, Pushing, Sending
<1>11. worker' # "dead" =>
         /\ \A x, n : Ahead(x, n) => Ahead(x, n)'
         /\ \A x : AheadOfAll(x) => AheadOfAll(x)'
  <2> SUFFICES ASSUME worker' # "dead"
               PROVE  /\ \A x, n : Ahead(x, n) => Ahead(x, n)'
                      /\ \A x : AheadOfAll(x) => AheadOfAll(x)'
    OBVIOUS
  <2>1. \A x : Done(x) \/ Held(x) => Done(x)'
    BY <1>3, <1>8
  <2> QED
    BY <1>2, <1>10, <2>1 DEF Ahead, AheadOfAll
<1>12. AsyncTypeOK'
  <2>1. written' \in [SinkIds -> Seq(LogMessages)]
    BY <1>4, <1>5
  <2> QED
    BY <1>2, <2>1 DEF AsyncInv, AsyncTypeOK
<1>13. CallsInv'
  BY <1>2, <1>10 DEF AsyncInv, CallsInv
<1>14. PlacesInv'
  <2>1. \A i \in 1 .. Len(slots) : slots[i].state # "emptying"
    BY <1>2 DEF AsyncInv, PlacesInv
  <2>2. \A s \in SinkIds : \A x : InSink(s, x)' => IsLogged(x)
    BY <1>3, <1>8 DEF AsyncInv, PlacesInv
  <2> QED
    BY <1>2, <1>3, <1>10, <2>1, <2>2 DEF AsyncInv, PlacesInv
<1>15. OnceInv'
  <2>1. ASSUME NEW i, NEW y, ReadyAt(i, y), y.type = "log"
        PROVE  /\ \A s \in SinkIds : ~InSink(s, y)'
               /\ \A j : ReadyAt(j, y) => i = j
    <3>1. /\ y # m /\ \A s \in SinkIds : ~InSink(s, y)
          /\ \A j : ReadyAt(j, y) => i = j
      BY <1>3, <2>1 DEF AsyncInv, OnceInv
    <3> QED
      BY <1>8, <3>1
  <2>2. ASSUME NEW s \in SinkIds, NEW i \in 1 .. Len(written'[s]), NEW j \in 1 .. Len(written'[s]),
               written'[s][i] = written'[s][j]
        PROVE  i = j
    <3>1. \A k \in 1 .. Len(written[s]) : written[s][k] # m
      BY <1>9 DEF InSink
    <3>2. i \in 1 .. Len(written[s]) /\ j \in 1 .. Len(written[s]) => i = j
      BY <1>5, <2>2 DEF AsyncInv, OnceInv
    <3> QED
      BY <1>5, <2>2, <3>1, <3>2
  <2> QED
    BY <1>2, <1>3, <1>10, <2>1, <2>2 DEF AsyncInv, OnceInv
<1>16. AheadInv'
  <2>1. ASSUME worker' # "dead"
        PROVE  /\ \A x : IsLogged(x)' => AheadOfAll(x)'
               /\ \A i, t, y : FillingAt(i, t, y)' =>
                    /\ \A x \in y.covers : Ahead(x, i)'
                    /\ \A x : InLog(t, x)' => Ahead(x, i)'
               /\ \A i, y : ReadyAt(i, y)' => \A x : Precedes(x, y)' => Ahead(x, i)'
    <3>1. /\ \A x : IsLogged(x) => AheadOfAll(x)
          /\ \A i, t, y : FillingAt(i, t, y) =>
               /\ \A x \in y.covers : Ahead(x, i)
               /\ \A x : InLog(t, x) => Ahead(x, i)
          /\ \A i, y : ReadyAt(i, y) => \A x : Precedes(x, y) => Ahead(x, i)
      BY <1>2 DEF AsyncInv, AheadInv
    <3> QED
      BY <1>10, <1>11, <2>1, <3>1
  <2>2. ASSUME NEW s, NEW i, NEW y, NEW x, GivenAt(s, i, y)', Earlier(x, y)
        PROVE  \E j : GivenAt(s, j, x)' /\ j < i
    <3>1. CASE GivenAt(s, i, y)
      <4>1. \E j : GivenAt(s, j, x) /\ j < i
        BY <2>2, <3>1 DEF AsyncInv, AheadInv, SinksInOrder
      <4> QED
        BY <1>6, <4>1
    <3>2. CASE i = Len(written[s]) + 1 /\ y = m
      <4>1. s \in SinkIds
        BY <2>2 DEF GivenAt
      <4>2. InSink(s, x)
        BY <1>3, <2>2, <3>2, <4>1 DEF AsyncInv, AheadInv, Precedes, Done
      <4>3. PICK j : GivenAt(s, j, x)
        BY <1>7, <4>1, <4>2
      <4>4. j < i
        BY <1>5, <3>2, <4>1, <4>3 DEF GivenAt
      <4> QED
        BY <1>6, <4>3, <4>4
    <3> QED
      BY <1>6, <2>2, <3>1, <3>2
  <2>3. SinksInOrder'
    BY <1>10, <2>2 DEF SinksInOrder
  <2> QED
    BY <1>3, <2>1, <2>3 DEF AheadInv
<1>17. FlushInv'
  <2>1. \A s \in SinkIds : flushed[s] <= Len(written'[s])
    <3>1. \A s \in SinkIds : flushed[s] \in Nat /\ flushed[s] <= Len(written[s])
      BY DEF AsyncInv, AsyncTypeOK, FlushInv
    <3>2. \A s \in SinkIds : written'[s] \in Seq(LogMessages) => Len(written'[s]) \in Nat
      BY LenProperties
    <3> QED
      BY <1>5, <3>1, <3>2
  <2>2. \A s \in SinkIds : OnDisk(s) \subseteq OnDisk(s)'
    <3>1. \A s \in SinkIds : \A i \in 1 .. flushed[s] : i \in 1 .. Len(written[s])
      BY <1>5 DEF AsyncInv, AsyncTypeOK, FlushInv
    <3> QED
      BY <1>2, <1>5, <3>1 DEF OnDisk
  <2> QED
    BY <1>2, <1>8, <2>1, <2>2 DEF AsyncInv, FlushInv
<1>18. EndInv'
  <2>1. Terminating' <=> Terminating
    BY <1>2, <1>3, <1>10 DEF Terminating
  <2> QED
    BY <1>2, <1>10, <2>1 DEF AsyncInv, EndInv
<1> QED
  BY <1>12, <1>13, <1>14, <1>15, <1>16, <1>17, <1>18 DEF AsyncInv

LEMMA InvStep == AsyncInv /\ [AsyncNext]_asyncVars => AsyncInv'
<1> SUFFICES ASSUME AsyncInv, [AsyncNext]_asyncVars
             PROVE  AsyncInv'
  OBVIOUS
<1>1. ASSUME NEW t \in Callers, log(t) \/ flush(t) \/ Destroy(t)
      PROVE  AsyncInv'
  BY <1>1, InvStarts
<1>2. ASSUME NEW t \in Callers, push_msg(t)
      PROVE  AsyncInv'
  <2>1. CASE Fill(t)
    BY <2>1, InvFill
  <2>2. CASE FindPlace(t)
    <3>1. Queue!Reserve(t, msg[t]) \/ Queue!Refuse(t)
      BY <2>2 DEF FindPlace
    <3> QED
      BY <2>2, <3>1, InvReserved, InvRefused
  <2> QED
    BY <1>2, <2>1, <2>2 DEF push_msg
<1>3. ASSUME NEW t \in Callers, Join(t)
      PROVE  AsyncInv'
  BY <1>3, InvJoin
<1>4. CASE Dequeue
  <2>1. UNCHANGED <<callVars, helperVars, sinkVars, promised>>
    BY <1>4 DEF Dequeue
  <2>2. CASE worker = "dequeue" /\ Queue!Take(WorkerThread) /\ worker' = "release"
    BY <2>1, <2>2, InvTake
  <2>3. CASE worker = "release" /\ Queue!Release(WorkerThread) /\ worker' = "process"
    BY <2>1, <2>3, InvRelease
  <2>4. CASE worker = "dequeue" /\ Queue!FindNothing(WorkerThread) /\ worker' = "quiet"
    BY <2>1, <2>4, InvNothing
  <2> QED
    BY <1>4, <2>2, <2>3, <2>4 DEF Dequeue
<1>5. CASE Remember \/ Write \/ Quiet
  BY <1>5, InvRemember, InvWrite, InvQuiet
<1>6. CASE UNCHANGED asyncVars
  <2>1. /\ UNCHANGED <<slots, outcome, got, doing, msg, calls, logged, destroyed, worker,
                       flush_requested, terminate_requested, written, flushed, promised>>
        /\ UNCHANGED Frame
    BY <1>6 DEF asyncVars, asyncQueueVars, callVars, helperVars, sinkVars, Frame
  <2>2. AsyncTypeOK'
    BY <2>1 DEF AsyncInv, AsyncTypeOK
  <2>3. \A t \in Callers : \A x :
          (Pushing(t, x)' <=> Pushing(t, x)) /\ (Sending(t, x)' <=> Sending(t, x))
    BY <2>1 DEF Pushing, Sending
  <2>4. CallsInv' /\ PlacesInv' /\ OnceInv'
    BY <2>1, <2>3, FrameKeeps DEF AsyncInv, CallsInv, PlacesInv, OnceInv
  <2>5. AheadInv' /\ FlushInv'
    BY <2>1, FrameAhead, FrameFlush DEF AsyncInv
  <2>6. EndInv'
    <3>1. Terminating' <=> Terminating
      BY <2>1, FrameKeeps DEF Terminating
    <3> QED
      BY <2>1, <2>3, <3>1 DEF AsyncInv, EndInv
  <2> QED
    BY <2>2, <2>4, <2>5, <2>6 DEF AsyncInv
<1> QED
  BY <1>1, <1>2, <1>3, <1>4, <1>5, <1>6 DEF AsyncNext, worker_loop

-----------------------------------------------------------------------------
(* The promises.                                                           *)

\* A message is followed from log() through its place in the queue into the sinks
\* (async_log_helper::log to process_next_msg), whoever calls, however often the
\* queue was full and wherever a sink threw.
THEOREM MessagesFollowed == AsyncSpec => []AsyncInv
<1>1. AsyncInit => AsyncInv
  BY AsyncInvInit
<1>2. AsyncInv /\ [AsyncNext]_asyncVars => AsyncInv'
  BY InvStep
<1> QED
  BY <1>1, <1>2, PTL DEF AsyncSpec

LEMMA OrderIsEnough == AsyncInv => WrittenAsLogged
<1> SUFFICES ASSUME AsyncInv
             PROVE  WrittenAsLogged
  OBVIOUS
<1>1. ASSUME NEW s \in SinkIds, NEW i \in 1 .. Len(written[s])
      PROVE  LET m == written[s][i]
             IN  \E k \in 1 .. Len(logged[m.by]) :
                   /\ logged[m.by][k] = m
                   /\ \A h \in 1 .. k - 1 :
                        \E j \in 1 .. i - 1 : written[s][j] = logged[m.by][h]
  <2>1. PICK m : m = written[s][i]
    OBVIOUS
  <2>2. IsLogged(m) /\ m.type = "log" /\ GivenAt(s, i, m)
    <3>1. InSink(s, m) /\ GivenAt(s, i, m)
      BY <2>1 DEF InSink, GivenAt
    <3>2. IsLogged(m)
      BY <3>1 DEF AsyncInv, PlacesInv
    <3> QED
      BY <3>1, <3>2, LoggedAreLogs DEF AsyncInv
  <2>3. m.by \in Callers /\ InLog(m.by, m)
    BY <2>2 DEF IsLogged, AsyncInv, PlacesInv
  <2>4. PICK n \in 1 .. Len(logged[m.by]) : logged[m.by][n] = m
    BY <2>3 DEF InLog
  <2>5. ASSUME NEW h \in 1 .. n - 1
        PROVE  \E j \in 1 .. i - 1 : written[s][j] = logged[m.by][h]
    <3>1. PICK x : x = logged[m.by][h]
      OBVIOUS
    <3>2. Earlier(x, m)
      BY <2>2, <2>4, <3>1 DEF Earlier
    <3>3. PICK j : GivenAt(s, j, x) /\ j < i
      BY <2>2, <3>2 DEF AsyncInv, AheadInv, SinksInOrder
    <3>4. j \in 1 .. i - 1 /\ written[s][j] = x
      BY <3>3 DEF GivenAt
    <3> QED
      BY <3>1, <3>4
  <2>6. \E k \in 1 .. Len(logged[m.by]) :
          /\ logged[m.by][k] = m
          /\ \A h \in 1 .. k - 1 : \E j \in 1 .. i - 1 : written[s][j] = logged[m.by][h]
    BY <2>4, <2>5
  <2> QED
    BY <2>1, <2>6, Zenon
<1>2. \A s \in SinkIds : \A i, j \in 1 .. Len(written[s]) : written[s][i] = written[s][j] => i = j
  BY DEF AsyncInv, OnceInv
<1> QED
  BY <1>1, <1>2, Zenon DEF WrittenAsLogged

\* Each sink is given messages that were logged, each once, and each after all
\* that its thread logged before (async_log_helper::push_msg and
\* process_next_msg; the queue's order is what carries this).
THEOREM WrittenInOrder == AsyncSpec => []WrittenAsLogged
BY MessagesFollowed, OrderIsEnough, PTL

\* When the worker has taken a flush request from the queue and has seen to it
\* (handle_flush_interval), every message whose log() had returned before the request
\* was made is flushed in every sink.  flush() returns long before, when its request
\* is queued or refused: the theorem is about the worker, not about that call.
THEOREM FlushKept == AsyncSpec => []FlushCoversWhatWasLogged
<1>1. AsyncInv => FlushCoversWhatWasLogged
  BY DEF AsyncInv, FlushInv, FlushCoversWhatWasLogged, WorkerIsDead
<1> QED
  BY <1>1, MessagesFollowed, PTL

LEMMA EndIsEnough == AsyncInv => NothingLeftBehind
<1> SUFFICES ASSUME AsyncInv, worker = "ended"
             PROVE  /\ slots = <<>>
                    /\ \A s \in SinkIds :
                         /\ flushed[s] = Len(written[s])
                         /\ Len(written[s]) = Cardinality(LoggedMessages)
  BY DEF NothingLeftBehind
<1>1. slots = <<>> /\ \A s \in SinkIds : flushed[s] = Len(written[s])
  BY DEF AsyncInv, EndInv
<1>2. \A t \in Callers : DOMAIN logged[t] = 1 .. Len(logged[t])
  BY LenProperties DEF AsyncInv, AsyncTypeOK
<1>3. \A x : x \in LoggedMessages <=> IsLogged(x)
  BY <1>2 DEF LoggedMessages, IsLogged, InLog
<1>4. ASSUME NEW s \in SinkIds
      PROVE  Len(written[s]) = Cardinality(LoggedMessages)
  <2>1. \A x : InSink(s, x) <=> x \in LoggedMessages
    <3>1. \A i, x : ~ReadyAt(i, x)
      BY <1>1, EmptySeq DEF ReadyAt
    <3>2. \A x : IsLogged(x) => Done(x)
      BY <3>1 DEF AsyncInv, AheadInv, AheadOfAll, Held, Holding
    <3> QED
      BY <1>3, <3>2 DEF AsyncInv, PlacesInv, Done
  <2>2. PICK w, n : w = written[s] /\ n = Len(w)
    OBVIOUS
  <2>3. n \in Nat
    BY <2>2, LenProperties DEF AsyncInv, AsyncTypeOK
  <2>4. /\ \A x \in LoggedMessages : \E i \in 1 .. n : w[i] = x
        /\ \A i \in 1 .. n : w[i] \in LoggedMessages
        /\ \A i, j \in 1 .. n : w[i] = w[j] => i = j
    BY <2>1, <2>2 DEF InSink, AsyncInv, OnceInv
  <2> DEFINE f == [i \in 1 .. n |-> w[i]]
  <2>5. f \in Bijection(1 .. n, LoggedMessages)
    BY <2>4 DEF Bijection, Injection, Surjection, IsInjective
  <2>6. ExistsBijection(1 .. n, LoggedMessages)
    BY <2>5 DEF ExistsBijection
  <2> QED
    BY <2>2, <2>3, <2>6, FS_CountingElements
<1> QED
  BY <1>1, <1>4

\* A worker that ended as it was told to has emptied the queue, and every sink has
\* got and flushed every message that was logged (the destructor's join).
THEOREM NothingIsLeft == AsyncSpec => []NothingLeftBehind
BY MessagesFollowed, EndIsEnough, PTL
=============================================================================
