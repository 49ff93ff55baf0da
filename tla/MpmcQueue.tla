------------------------------ MODULE MpmcQueue -------------------------------
(***************************************************************************)
(* The queue between the threads that log and spdlog's worker              *)
(* (include/spdlog/details/mpmc_bounded_q.h), one step per access to       *)
(* shared memory.  A cell's sequence_ says whose turn it is: position p    *)
(* may be filled when it is p, emptied when it is p + 1, and is then set   *)
(* to the position that uses the cell next.  Nothing is locked: a thread   *)
(* may stop between any two steps.                                         *)
(*                                                                         *)
(* Positions are numbers without a width: a size_t comes round to the      *)
(* same cell because the size is a power of two (checked in the            *)
(* constructor), and a thread would have to sleep through 2^64 calls for   *)
(* two positions to be confused.                                           *)
(***************************************************************************)
EXTENDS Integers, Sequences

CONSTANTS Enqueuers, Dequeuers,  \* the threads
          Data, NoData,          \* the items, and an empty one
          NoThread,
          BufferSize,            \* a power of two
          MaxEnqueues            \* bound: positions handed out

ASSUME MpmcAssumption ==
  /\ Enqueuers \cap Dequeuers = {} /\ NoData \notin Data
  /\ BufferSize \in Nat /\ BufferSize >= 2
  /\ \E n \in 1 .. BufferSize : BufferSize = 2 ^ n
  /\ MaxEnqueues \in Nat

VARIABLES
  buffer,       \* cell -> its sequence_ and data_
  enqueue_pos, dequeue_pos,
  at,           \* thread -> the step it is about to take
  pos,          \* thread -> its local pos
  datum,        \* thread -> the item it puts in or has taken
  returned      \* thread -> how its last call ended

mpmcVars == <<buffer, enqueue_pos, dequeue_pos, at, pos, datum, returned>>

MpmcThreads == Enqueuers \cup Dequeuers

MpmcInit ==
  /\ buffer = [i \in 0 .. BufferSize - 1 |-> [sequence |-> i, data |-> NoData]]
  /\ enqueue_pos = 0 /\ dequeue_pos = 0
  /\ at = [t \in MpmcThreads |-> "idle"]
  /\ pos = [t \in MpmcThreads |-> 0]
  /\ datum = [t \in MpmcThreads |-> NoData]
  /\ returned = [t \in MpmcThreads |-> "none"]

\* pos & buffer_mask_
Cell(t) == pos[t] % BufferSize
sequence(t) == buffer[Cell(t)].sequence
Goto(t, where) == at' = [at EXCEPT ![t] = where]
Load(t, from) == pos' = [pos EXCEPT ![t] = from]
Return(t, how) ==
  /\ Goto(t, "idle")
  /\ returned' = [returned EXCEPT ![t] = how]

\* What the sequence says of the position: dif, of the code.
DifEnqueue(t) == sequence(t) - pos[t]
DifDequeue(t) == sequence(t) - (pos[t] + 1)

-------------------------------------------------------------------------------
EnqueueCall(t) ==
  /\ at[t] = "idle" /\ enqueue_pos < MaxEnqueues
  /\ \E d \in Data : datum' = [datum EXCEPT ![t] = d]
  /\ Load(t, enqueue_pos)
  /\ Goto(t, "look")
  /\ UNCHANGED <<buffer, enqueue_pos, dequeue_pos, returned>>

\* Both calls look at the cell of their position ...
Look(t, dif, whenBehind) ==
  /\ at[t] = "look"
  /\ \/ dif = 0 /\ Goto(t, "claim") /\ UNCHANGED returned
     \/ dif < 0 /\ Return(t, whenBehind)
     \/ dif > 0 /\ Goto(t, "reload") /\ UNCHANGED returned
  /\ UNCHANGED <<buffer, enqueue_pos, dequeue_pos, pos, datum>>

EnqueueLook(t) == Look(t, DifEnqueue(t), "refused")
DequeueLook(t) == Look(t, DifDequeue(t), "nothing")

\* ... and claim it with compare_exchange_weak, which may also fail for no
\* reason and leaves the position it read in pos.
EnqueueClaim(t) ==
  /\ at[t] = "claim"
  /\ \/ /\ enqueue_pos = pos[t]
        /\ enqueue_pos' = enqueue_pos + 1
        /\ Goto(t, "move") /\ UNCHANGED pos
     \/ Load(t, enqueue_pos) /\ Goto(t, "look") /\ UNCHANGED enqueue_pos
  /\ UNCHANGED <<buffer, dequeue_pos, datum, returned>>

EnqueueReload(t) ==
  /\ at[t] = "reload"
  /\ Load(t, enqueue_pos) /\ Goto(t, "look")
  /\ UNCHANGED <<buffer, enqueue_pos, dequeue_pos, datum, returned>>

EnqueueMove(t) ==
  /\ at[t] = "move"
  /\ buffer' = [buffer EXCEPT ![Cell(t)].data = datum[t]]
  /\ Goto(t, "publish")
  /\ UNCHANGED <<enqueue_pos, dequeue_pos, pos, datum, returned>>

EnqueuePublish(t) ==
  /\ at[t] = "publish"
  /\ buffer' = [buffer EXCEPT ![Cell(t)].sequence = pos[t] + 1]
  /\ Return(t, "accepted")
  /\ datum' = [datum EXCEPT ![t] = NoData]
  /\ UNCHANGED <<enqueue_pos, dequeue_pos, pos>>

-------------------------------------------------------------------------------
DequeueCall(t) ==
  /\ at[t] = "idle"
  /\ Load(t, dequeue_pos)
  /\ Goto(t, "look")
  /\ UNCHANGED <<buffer, enqueue_pos, dequeue_pos, datum, returned>>

DequeueClaim(t) ==
  /\ at[t] = "claim"
  /\ \/ /\ dequeue_pos = pos[t]
        /\ dequeue_pos' = dequeue_pos + 1
        /\ Goto(t, "move") /\ UNCHANGED pos
     \/ Load(t, dequeue_pos) /\ Goto(t, "look") /\ UNCHANGED dequeue_pos
  /\ UNCHANGED <<buffer, enqueue_pos, datum, returned>>

DequeueReload(t) ==
  /\ at[t] = "reload"
  /\ Load(t, dequeue_pos) /\ Goto(t, "look")
  /\ UNCHANGED <<buffer, enqueue_pos, dequeue_pos, datum, returned>>

DequeueMove(t) ==
  /\ at[t] = "move"
  /\ datum' = [datum EXCEPT ![t] = buffer[Cell(t)].data]
  /\ Goto(t, "publish")
  /\ UNCHANGED <<buffer, enqueue_pos, dequeue_pos, pos, returned>>

\* mutant: the cell is given to the position after the right one
DequeuePublishLate(t) ==
  /\ at[t] = "publish"
  /\ buffer' = [buffer EXCEPT ![Cell(t)].sequence = pos[t] + BufferSize + 1]
  /\ Return(t, "taken")
  /\ UNCHANGED <<enqueue_pos, dequeue_pos, pos, datum>>

\* The cell is free for the position one round later: pos + buffer_mask_ + 1.
DequeuePublish(t) ==
  /\ at[t] = "publish"
  /\ buffer' = [buffer EXCEPT ![Cell(t)].sequence = pos[t] + BufferSize]
  /\ Return(t, "taken")
  /\ UNCHANGED <<enqueue_pos, dequeue_pos, pos, datum>>

-------------------------------------------------------------------------------
enqueue(t) ==
  \/ EnqueueCall(t) \/ EnqueueLook(t) \/ EnqueueClaim(t)
  \/ EnqueueReload(t) \/ EnqueueMove(t) \/ EnqueuePublish(t)

dequeue(t) ==
  \/ DequeueCall(t) \/ DequeueLook(t) \/ DequeueClaim(t)
  \/ DequeueReload(t) \/ DequeueMove(t) \/ DequeuePublish(t)

MpmcNext ==
  \/ \E t \in Enqueuers : enqueue(t)
  \/ \E t \in Dequeuers : dequeue(t)

MpmcSpec == MpmcInit /\ [][MpmcNext]_mpmcVars

-------------------------------------------------------------------------------
(* The queue as its callers see it. *)
Emptied(p) == buffer[p % BufferSize].sequence >= p + BufferSize
Filled(p) == buffer[p % BufferSize].sequence >= p + 1

\* The positions handed out and not all emptied again.
Oldest ==
  CHOOSE p \in 0 .. enqueue_pos :
    /\ p = enqueue_pos \/ ~Emptied(p)
    /\ \A q \in 0 .. p - 1 : Emptied(q)

WorksOn(t, p) == at[t] \in {"move", "publish"} /\ pos[t] = p
Worker(threads, p) == CHOOSE t \in threads : WorksOn(t, p)

Slot(p) ==
  CASE Emptied(p) -> [state |-> "free", by |-> NoThread, item |-> NoData]
    [] ~Filled(p) -> [state |-> "filling", by |-> Worker(Enqueuers, p),
                      item |-> datum[Worker(Enqueuers, p)]]
    [] Filled(p) /\ ~Emptied(p) ->
         [state |-> IF p < dequeue_pos THEN "emptying" ELSE "ready",
          by |-> IF p < dequeue_pos THEN Worker(Dequeuers, p) ELSE NoThread,
          item |-> buffer[p % BufferSize].data]

SlotsInUse == [i \in 1 .. enqueue_pos - Oldest |-> Slot(Oldest + i - 1)]

TakenBy(t) ==
  CASE t \in Enqueuers -> NoData
    [] t \in Dequeuers /\ at[t] = "move" -> buffer[Cell(t)].data
    [] t \in Dequeuers /\ at[t] # "move" -> datum[t]

Bounded == INSTANCE BoundedQueue WITH
  QueueThreads <- MpmcThreads, Items <- Data, NoItem <- NoData,
  Nobody <- NoThread, QueueSize <- BufferSize,
  slots <- SlotsInUse, outcome <- returned,
  got <- [t \in MpmcThreads |-> TakenBy(t)]

\* Through any interleaving of its steps the queue behaves as one that works
\* in one step: items leave in the order their places were reserved in, each
\* once, "full" and "empty" are said only when they were so, and no cell is
\* refilled before it has been read.
ImplementsBoundedQueue == Bounded!QueueSpec
===============================================================================
