----------------------------- MODULE BoundedQueue -----------------------------
(***************************************************************************)
(* What spdlog's lock-free queue promises its callers                      *)
(* (include/spdlog/details/mpmc_bounded_q.h): places handed out in order,  *)
(* at most QueueSize of them in use, each filled by the thread it was      *)
(* given to and emptied by the thread that took it.  Two things of the     *)
(* real queue belong to the promise: a place counts as used from the       *)
(* moment it is reserved until the one who took it has copied the item     *)
(* out, and an item is not to be had, however ready, while the place       *)
(* before it is still being filled.  MpmcQueue implements this module;     *)
(* AsyncLog is built on it.                                                *)
(***************************************************************************)
EXTENDS Naturals, Sequences

CONSTANTS QueueThreads,   \* the threads that call enqueue or dequeue
          Items,          \* what is put in
          NoItem,         \* a place without an item
          Nobody,         \* a place no thread is working on
          QueueSize       \* the places there are

VARIABLES
  slots,    \* the places in use, the oldest first
  outcome,  \* how the last call of each thread ended
  got       \* the item each thread took last

queueVars == <<slots, outcome, got>>

SlotStates == {"filling", "ready", "emptying", "free"}
Outcomes == {"none", "accepted", "refused", "taken", "nothing"}

QueueInit ==
  /\ slots = <<>>
  /\ outcome = [t \in QueueThreads |-> "none"]
  /\ got = [t \in QueueThreads |-> NoItem]

Full == Len(slots) = QueueSize

FreeSlot == [state |-> "free", by |-> Nobody, item |-> NoItem]

\* The place from which the next item is taken: the first not yet taken.
AtFront(i) ==
  /\ i \in DOMAIN slots
  /\ slots[i].state \in {"filling", "ready"}
  /\ \A j \in 1 .. i - 1 : slots[j].state \in {"emptying", "free"}

\* Places freed at the old end can be handed out again.
Trimmed(q) ==
  LET used == {i \in DOMAIN q : q[i].state # "free"}
  IN  IF used = {} THEN <<>>
      ELSE SubSeq(q, CHOOSE i \in used : \A j \in used : i <= j, Len(q))

\* enqueue() is given the next place ...
Reserve(t, d) ==
  /\ ~Full
  /\ slots' = Append(slots, [state |-> "filling", by |-> t, item |-> d])
  /\ UNCHANGED <<outcome, got>>

\* ... and has filled it: the call returns true.
Publish(t) ==
  \E i \in DOMAIN slots :
    /\ slots[i].state = "filling" /\ slots[i].by = t
    /\ slots' = [slots EXCEPT ![i].state = "ready", ![i].by = Nobody]
    /\ outcome' = [outcome EXCEPT ![t] = "accepted"]
    /\ UNCHANGED got

\* enqueue() returns false, only when every place is in use.
Refuse(t) ==
  /\ Full
  /\ outcome' = [outcome EXCEPT ![t] = "refused"]
  /\ UNCHANGED <<slots, got>>

\* dequeue() takes the oldest item ...
Take(t) ==
  \E i \in DOMAIN slots :
    /\ AtFront(i) /\ slots[i].state = "ready"
    /\ slots' = [slots EXCEPT ![i].state = "emptying", ![i].by = t]
    /\ got' = [got EXCEPT ![t] = slots[i].item]
    /\ UNCHANGED outcome

\* ... and has copied it out: the call returns true, the place is free.
Release(t) ==
  \E i \in DOMAIN slots :
    /\ slots[i].state = "emptying" /\ slots[i].by = t
    /\ slots' = Trimmed([slots EXCEPT ![i] = FreeSlot])
    /\ outcome' = [outcome EXCEPT ![t] = "taken"]
    /\ UNCHANGED got

\* dequeue() returns false, only when the item in front is not there yet.
FindNothing(t) ==
  /\ ~\E i \in DOMAIN slots : AtFront(i) /\ slots[i].state = "ready"
  /\ outcome' = [outcome EXCEPT ![t] = "nothing"]
  /\ UNCHANGED <<slots, got>>

QueueNext ==
  \E t \in QueueThreads :
    \/ \E d \in Items : Reserve(t, d)
    \/ Publish(t) \/ Refuse(t)
    \/ Take(t) \/ Release(t) \/ FindNothing(t)

QueueSpec == QueueInit /\ [][QueueNext]_queueVars
===============================================================================
