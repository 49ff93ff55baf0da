--------------------------- MODULE MpmcQueueProofs ----------------------------
(***************************************************************************)
(* The lock-free queue of spdlog implements the one that works in one      *)
(* step, for any threads, any items and any size of the ring.              *)
(*                                                                         *)
(* A ring of BufferSize cells holds the last BufferSize positions handed   *)
(* out, the window.  Every other position shares its cell with one of the  *)
(* window, which is why a thread that has slept cannot be misled.  The     *)
(* invariant says what the sequence_ of a position of the window may be    *)
(* and who is at work there; that each step of the code is a step of       *)
(* BoundedQueue or none follows from it.                                   *)
(***************************************************************************)
EXTENDS MpmcQueue, SequenceTheorems, WellFoundedInduction, TLAPS

\* The cell of a position.
SeqAt(p) == buffer[p % BufferSize].sequence
DataAt(p) == buffer[p % BufferSize].data
SameCell(p, q) == p % BufferSize = q % BufferSize

Window == enqueue_pos - BufferSize .. enqueue_pos - 1

Steps == {"idle", "look", "claim", "reload", "move", "publish"}
Working(t) == at[t] \in {"move", "publish"}

MpmcTypeOK ==
  /\ buffer \in [0 .. BufferSize - 1 -> [sequence : Nat, data : Data \cup {NoData}]]
  /\ enqueue_pos \in Nat /\ dequeue_pos \in Nat
  /\ at \in [MpmcThreads -> Steps]
  /\ pos \in [MpmcThreads -> Nat]
  /\ datum \in [MpmcThreads -> Data \cup {NoData}]
  /\ returned \in [MpmcThreads -> Bounded!Outcomes]

\* At most BufferSize positions are between the two ends.
EndsInv == dequeue_pos <= enqueue_pos /\ enqueue_pos <= dequeue_pos + BufferSize

\* A position not yet taken is being filled or is filled; one that was taken
\* is being emptied or is free for the next round.
TurnAt(p) ==
  IF p >= dequeue_pos
  THEN \/ SeqAt(p) = p /\ \E t \in Enqueuers : WorksOn(t, p)
       \/ SeqAt(p) = p + 1
  ELSE \/ SeqAt(p) = p + 1 /\ \E t \in Dequeuers : WorksOn(t, p)
       \/ SeqAt(p) = p + BufferSize
TurnsInv == \A p \in Window : TurnAt(p)

\* Who is at work is there alone, in the window, and it is his turn.
WorkersInv ==
  /\ \A t \in Enqueuers : Working(t) =>
       dequeue_pos <= pos[t] /\ pos[t] < enqueue_pos /\ SeqAt(pos[t]) = pos[t]
  /\ \A t \in Dequeuers : Working(t) =>
       /\ enqueue_pos - BufferSize <= pos[t] /\ pos[t] < dequeue_pos
       /\ SeqAt(pos[t]) = pos[t] + 1
  /\ \A t, u \in Enqueuers : Working(t) /\ Working(u) /\ pos[t] = pos[u] => t = u
  /\ \A t, u \in Dequeuers : Working(t) /\ Working(u) /\ pos[t] = pos[u] => t = u

\* What a thread has read of the ends is old, never wrong, and the turn it saw
\* is still its own unless the position has gone to another.
ReadersInv ==
  /\ \A t \in Enqueuers :
       /\ pos[t] <= enqueue_pos
       /\ at[t] = "claim" => pos[t] < enqueue_pos \/ SeqAt(pos[t]) = pos[t]
  /\ \A t \in Dequeuers :
       /\ pos[t] <= dequeue_pos
       /\ at[t] = "claim" => pos[t] < dequeue_pos \/ SeqAt(pos[t]) = pos[t] + 1

ItemsInv ==
  \A t \in Enqueuers :
    /\ at[t] # "idle" => datum[t] \in Data
    /\ at[t] = "publish" => DataAt(pos[t]) = datum[t]

MpmcInv == MpmcTypeOK /\ EndsInv /\ TurnsInv /\ WorkersInv /\ ReadersInv /\ ItemsInv

-------------------------------------------------------------------------------
(* Positions and cells. *)

LEMMA SizeFacts == BufferSize \in Nat /\ BufferSize >= 2 /\ NoData \notin Data
BY MpmcAssumption

LEMMA CellRange == \A p \in Int : p % BufferSize \in 0 .. BufferSize - 1
BY SizeFacts

LEMMA Division ==
  \A p \in Int : /\ p \div BufferSize \in Int
                 /\ p = BufferSize * (p \div BufferSize) + (p % BufferSize)
BY SizeFacts

LEMMA Multiples ==
  \A k \in Int : /\ k >= 1 => BufferSize * k >= BufferSize
                 /\ k <= 0 => BufferSize * k <= 0
                 /\ k <= -1 => BufferSize * k <= -BufferSize
BY SizeFacts

LEMMA Distributes ==
  \A i, j \in Int : /\ BufferSize * (i - j) = BufferSize * i - BufferSize * j
                    /\ BufferSize * (i + j) = BufferSize * i + BufferSize * j
                    /\ BufferSize * i \in Int
BY SizeFacts

\* Two positions of a cell are a whole number of rounds apart.
LEMMA RoundsApart ==
  ASSUME NEW p \in Int, NEW q \in Int, SameCell(p, q)
  PROVE  \E k \in Int : q - p = BufferSize * k
<1> DEFINE i == p \div BufferSize  j == q \div BufferSize
<1>1. /\ i \in Int /\ p = BufferSize * i + (p % BufferSize)
      /\ j \in Int /\ q = BufferSize * j + (q % BufferSize)
  BY Division
<1>2. p % BufferSize \in Int /\ q % BufferSize \in Int
  BY CellRange
<1>3. j - i \in Int /\ BufferSize * (j - i) = BufferSize * j - BufferSize * i
  <2> HIDE DEF i, j
  <2> QED
    BY <1>1, Distributes
<1>4. BufferSize * i \in Int /\ BufferSize * j \in Int
  <2> HIDE DEF i, j
  <2> QED
    BY <1>1, Distributes
<1>5. q - p = BufferSize * (j - i)
  <2> HIDE DEF i, j
  <2> DEFINE a == BufferSize * i  b == BufferSize * j  c == BufferSize * (j - i)
             r == p % BufferSize  u == q % BufferSize
  <2>1. /\ a \in Int /\ b \in Int /\ r \in Int /\ u \in Int /\ r = u
        /\ p = a + r /\ q = b + u /\ c = b - a
    BY <1>1, <1>2, <1>3, <1>4 DEF SameCell
  <2> HIDE DEF a, b, c, r, u
  <2>2. q - p = c
    BY <2>1
  <2> QED
    BY <2>2 DEF c
<1> QED
  BY <1>3, <1>5

\* The next position of a cell is a round later.
LEMMA NextRound ==
  \A p, q \in Int : SameCell(p, q) /\ p < q => p + BufferSize <= q
BY RoundsApart, Multiples, SizeFacts

LEMMA Rounds ==
  ASSUME NEW p \in Int, NEW k \in Int
  PROVE  SameCell(p, p + BufferSize * k)
<1> DEFINE a == BufferSize * k  q == p + a
           i == p \div BufferSize  j == q \div BufferSize
           r == p % BufferSize  u == q % BufferSize
<1>1. a \in Int /\ q \in Int
  <2>1. a \in Int
    BY Distributes
  <2> HIDE DEF a
  <2> QED
    BY <2>1
<1>2. /\ i \in Int /\ p = BufferSize * i + r /\ r \in 0 .. BufferSize - 1
      /\ j \in Int /\ q = BufferSize * j + u /\ u \in 0 .. BufferSize - 1
  <2> HIDE DEF q
  <2> QED
    BY <1>1, Division, CellRange
<1> DEFINE b == BufferSize * i  c == BufferSize * j  d == j - i  m == d - k
<1>3. d \in Int /\ m \in Int /\ b \in Int /\ c \in Int
  <2> HIDE DEF i, j
  <2> QED
    BY <1>2, Distributes
<1>4. BufferSize * m = c - b - a
  <2>1. BufferSize * d = c - b
    <3> HIDE DEF i, j
    <3> QED
      BY <1>2, Distributes
  <2>2. BufferSize * m = BufferSize * d - a
    <3> HIDE DEF d
    <3> QED
      BY <1>3, Distributes
  <2> QED
    BY <2>1, <2>2
<1>5. BufferSize * m = r - u
  <2>1. q = p + a /\ p = b + r /\ q = c + u
    BY <1>2
  <2> HIDE DEF a, b, c, m, r, u, q
  <2>2. r \in Int /\ u \in Int
    BY <1>2, SizeFacts
  <2> QED
    BY <1>1, <1>3, <1>4, <2>1, <2>2
<1>6. m = 0
  <2> HIDE DEF m, r, u
  <2> QED
    BY <1>2, <1>3, <1>5, Multiples, SizeFacts
<1>7. r = u
  <2>1. BufferSize * m = 0
    BY <1>6, SizeFacts
  <2> HIDE DEF m, r, u
  <2> QED
    BY <1>2, <1>5, <2>1, SizeFacts
<1> QED
  BY <1>7 DEF SameCell

LEMMA OneRound == \A p \in Int : SameCell(p, p + BufferSize) /\ SameCell(p, p - BufferSize)
<1> SUFFICES ASSUME NEW p \in Int
             PROVE  SameCell(p, p + BufferSize) /\ SameCell(p, p - BufferSize)
  OBVIOUS
<1>1. BufferSize * 1 = BufferSize /\ BufferSize * (-1) = - BufferSize
  BY SizeFacts
<1>2. SameCell(p, p + BufferSize * 1) /\ SameCell(p, p + BufferSize * (-1))
  BY Rounds
<1> QED
  BY <1>1, <1>2, SizeFacts

\* Every position shares its cell with one of the window that ends before e.
LEMMA WindowReaches ==
  ASSUME NEW e \in Int, NEW p \in Int
  PROVE  \E q \in e - BufferSize .. e - 1 : SameCell(p, q)
<1> DEFINE x == p - e  k == x \div BufferSize  r == x % BufferSize
           a == BufferSize * k  q == e + r - BufferSize
<1>1. x \in Int /\ p = e + x
  OBVIOUS
<1>2. k \in Int /\ x = a + r /\ r \in 0 .. BufferSize - 1
  <2> HIDE DEF x
  <2> QED
    BY <1>1, Division, CellRange
<1>3. a \in Int
  <2> HIDE DEF k
  <2> QED
    BY <1>2, Distributes
<1>4. BufferSize * (-(k + 1)) = -(a + BufferSize)
  <2>1. -(k + 1) = (0 - 1) - k
    BY <1>2
  <2>2. BufferSize * ((0 - 1) - k) = BufferSize * (0 - 1) - BufferSize * k
    <3> HIDE DEF k
    <3> QED
      BY <1>2, Distributes
  <2>3. BufferSize * (0 - 1) = - BufferSize
    BY SizeFacts
  <2> HIDE DEF a
  <2>4. BufferSize * (-(k + 1)) = - BufferSize - a
    BY <2>1, <2>2, <2>3 DEF a
  <2> QED
    BY <1>3, <2>4, SizeFacts
<1>5. p + BufferSize * (-(k + 1)) = q
  <2> HIDE DEF x, k, a, r
  <2> QED
    BY <1>1, <1>2, <1>3, <1>4, SizeFacts
<1>6. SameCell(p, q)
  <2>1. -(k + 1) \in Int
    BY <1>2
  <2> HIDE DEF k, q
  <2> QED
    BY <1>5, <2>1, Rounds
<1>7. q \in e - BufferSize .. e - 1
  <2> HIDE DEF r
  <2> QED
    BY <1>2, SizeFacts
<1> QED
  BY <1>6, <1>7

-------------------------------------------------------------------------------
(* What a step does to the cells. *)

LEMMA CellTypes ==
  ASSUME MpmcTypeOK
  PROVE  \A p \in Int : /\ SeqAt(p) \in Nat /\ DataAt(p) \in Data \cup {NoData}
                        /\ \A q \in Int : SameCell(p, q) =>
                             SeqAt(p) = SeqAt(q) /\ DataAt(p) = DataAt(q)
BY CellRange DEF MpmcTypeOK, SeqAt, DataAt, SameCell

LEMMA SequenceSet ==
  ASSUME MpmcTypeOK, NEW p \in Int, NEW n \in Nat,
         buffer' = [buffer EXCEPT ![p % BufferSize].sequence = n]
  PROVE  /\ buffer' \in [0 .. BufferSize - 1 -> [sequence : Nat, data : Data \cup {NoData}]]
         /\ \A q \in Int : /\ SeqAt(q)' = IF SameCell(p, q) THEN n ELSE SeqAt(q)
                           /\ DataAt(q)' = DataAt(q)
<1>1. p % BufferSize \in 0 .. BufferSize - 1
  BY CellRange
<1> QED
  BY <1>1, CellRange DEF MpmcTypeOK, SeqAt, DataAt, SameCell

LEMMA DataSet ==
  ASSUME MpmcTypeOK, NEW p \in Int, NEW d \in Data,
         buffer' = [buffer EXCEPT ![p % BufferSize].data = d]
  PROVE  /\ buffer' \in [0 .. BufferSize - 1 -> [sequence : Nat, data : Data \cup {NoData}]]
         /\ \A q \in Int : /\ DataAt(q)' = IF SameCell(p, q) THEN d ELSE DataAt(q)
                           /\ SeqAt(q)' = SeqAt(q)
<1>1. p % BufferSize \in 0 .. BufferSize - 1
  BY CellRange
<1> QED
  BY <1>1, CellRange DEF MpmcTypeOK, SeqAt, DataAt, SameCell

LEMMA CellsKept ==
  ASSUME UNCHANGED buffer
  PROVE  \A q \in Int : SeqAt(q)' = SeqAt(q) /\ DataAt(q)' = DataAt(q)
BY DEF SeqAt, DataAt

\* Within a round, a cell is one position.
LEMMA OneOfARound ==
  ASSUME NEW p \in Int, NEW q \in Int, SameCell(p, q),
         p < q + BufferSize, q < p + BufferSize
  PROVE  p = q
<1>1. SameCell(q, p)
  BY DEF SameCell
<1> QED
  BY <1>1, NextRound, SizeFacts

LEMMA EndsAreNumbers ==
  ASSUME MpmcTypeOK
  PROVE  /\ enqueue_pos \in Nat /\ dequeue_pos \in Nat /\ BufferSize \in Nat
         /\ \A t \in MpmcThreads : pos[t] \in Nat /\ at[t] \in Steps
         /\ Window \subseteq Int
         /\ Enqueuers \subseteq MpmcThreads /\ Dequeuers \subseteq MpmcThreads
         /\ Enqueuers \cap Dequeuers = {}
BY MpmcAssumption DEF MpmcTypeOK, MpmcThreads, Window

LEMMA WorkersOn ==
  ASSUME NEW t \in MpmcThreads, NEW p
  PROVE  /\ WorksOn(t, p) <=> Working(t) /\ pos[t] = p
         /\ WorksOn(t, p)' <=> Working(t)' /\ pos'[t] = p
BY DEF WorksOn, Working

\* The turns of the window, without whose they are.
LEMMA TurnCases ==
  ASSUME MpmcInv, NEW p \in Window
  PROVE  /\ p \in Int
         /\ SeqAt(p) \in {p, p + 1, p + BufferSize}
         /\ p >= dequeue_pos => SeqAt(p) \in {p, p + 1}
         /\ p < dequeue_pos => SeqAt(p) \in {p + 1, p + BufferSize}
BY SizeFacts, EndsAreNumbers DEF MpmcInv, TurnsInv, TurnAt

\* A position before the window has been emptied.
LEMMA BeforeWindow ==
  ASSUME MpmcInv, NEW p \in Int, p < enqueue_pos - BufferSize
  PROVE  SeqAt(p) >= p + BufferSize
<1>1. MpmcTypeOK /\ enqueue_pos \in Int
  BY EndsAreNumbers DEF MpmcInv
<1>2. PICK q \in enqueue_pos - BufferSize .. enqueue_pos - 1 : SameCell(p, q)
  BY <1>1, WindowReaches
<1>3. q \in Int /\ p < q /\ q \in Window
  BY <1>1, SizeFacts DEF Window
<1>4. p + BufferSize <= q
  BY <1>2, <1>3, NextRound
<1>5. SeqAt(p) = SeqAt(q) /\ SeqAt(q) \in Nat
  BY <1>1, <1>2, <1>3, CellTypes
<1>6. SeqAt(q) >= q
  BY <1>3, TurnCases, SizeFacts
<1> QED
  BY <1>3, <1>4, <1>5, <1>6, SizeFacts

\* What the end of the window meets: the cell one round earlier.
LEMMA NextCell ==
  ASSUME MpmcInv
  PROVE  /\ enqueue_pos - BufferSize \in Window
         /\ SeqAt(enqueue_pos) = SeqAt(enqueue_pos - BufferSize)
         /\ SameCell(enqueue_pos - BufferSize, enqueue_pos)
<1>1. MpmcTypeOK /\ enqueue_pos \in Int
  BY EndsAreNumbers DEF MpmcInv
<1>2. enqueue_pos - BufferSize \in Window
  BY <1>1, SizeFacts DEF Window
<1>3. SameCell(enqueue_pos - BufferSize, enqueue_pos)
  BY <1>1, SizeFacts, OneRound DEF SameCell
<1> QED
  BY <1>1, <1>2, <1>3, SizeFacts, CellTypes

-------------------------------------------------------------------------------
(* Types. *)

LEMMA TypesKept ==
  ASSUME MpmcInv, MpmcNext
  PROVE  MpmcTypeOK'
<1>1. /\ MpmcTypeOK /\ ItemsInv
      /\ Enqueuers \subseteq MpmcThreads /\ Dequeuers \subseteq MpmcThreads
  BY EndsAreNumbers DEF MpmcInv
<1>2. ASSUME NEW t \in Enqueuers, enqueue(t)
      PROVE  MpmcTypeOK'
  <2>1. t \in MpmcThreads /\ pos[t] \in Nat /\ pos[t] + 1 \in Nat
    BY <1>1, <1>2 DEF MpmcTypeOK
  <2>2. CASE EnqueueCall(t)
    BY <1>1, <2>1, <2>2 DEF MpmcTypeOK, EnqueueCall, Goto, Load, Steps
  <2>3. CASE EnqueueLook(t)
    BY <1>1, <2>1, <2>3
    DEF MpmcTypeOK, EnqueueLook, Look, Goto, Return, Steps, Bounded!Outcomes
  <2>4. CASE EnqueueClaim(t)
    BY <1>1, <2>1, <2>4 DEF MpmcTypeOK, EnqueueClaim, Goto, Load, Steps
  <2>5. CASE EnqueueReload(t)
    BY <1>1, <2>1, <2>5 DEF MpmcTypeOK, EnqueueReload, Goto, Load, Steps
  <2>6. CASE EnqueueMove(t)
    <3>1. datum[t] \in Data
      BY <1>1, <1>2, <2>6 DEF ItemsInv, EnqueueMove
    <3> DEFINE p == pos[t]  d == datum[t]
    <3>2. buffer' = [buffer EXCEPT ![p % BufferSize].data = d] /\ p \in Int /\ d \in Data
      BY <2>1, <2>6, <3>1 DEF EnqueueMove, Cell
    <3> HIDE DEF p, d
    <3>3. buffer' \in [0 .. BufferSize - 1 -> [sequence : Nat, data : Data \cup {NoData}]]
      BY <1>1, <2>1, <3>1, <3>2, DataSet
    <3>4. /\ at' = [at EXCEPT ![t] = "publish"]
          /\ UNCHANGED <<enqueue_pos, dequeue_pos, pos, datum, returned>>
      BY <2>6 DEF EnqueueMove, Goto
    <3> QED
      BY <1>1, <2>1, <3>3, <3>4 DEF MpmcTypeOK, Steps, Bounded!Outcomes
  <2>7. CASE EnqueuePublish(t)
    <3> DEFINE p == pos[t]  n == pos[t] + 1
    <3>1. buffer' = [buffer EXCEPT ![p % BufferSize].sequence = n] /\ p \in Int /\ n \in Nat
      BY <2>1, <2>7 DEF EnqueuePublish, Cell
    <3> HIDE DEF p, n
    <3>2. buffer' \in [0 .. BufferSize - 1 -> [sequence : Nat, data : Data \cup {NoData}]]
      BY <1>1, <2>1, <3>1, SequenceSet
    <3>3. /\ at' = [at EXCEPT ![t] = "idle"]
          /\ returned' = [returned EXCEPT ![t] = "accepted"]
          /\ datum' = [datum EXCEPT ![t] = NoData]
          /\ UNCHANGED <<enqueue_pos, dequeue_pos, pos>>
      BY <2>7 DEF EnqueuePublish, Return, Goto
    <3> QED
      BY <1>1, <2>1, <3>2, <3>3 DEF MpmcTypeOK, Steps, Bounded!Outcomes
  <2> QED
    BY <1>2, <2>2, <2>3, <2>4, <2>5, <2>6, <2>7 DEF enqueue
<1>3. ASSUME NEW t \in Dequeuers, dequeue(t)
      PROVE  MpmcTypeOK'
  <2>1. t \in MpmcThreads /\ pos[t] \in Nat /\ pos[t] + BufferSize \in Nat
    BY <1>1, <1>3, SizeFacts DEF MpmcTypeOK
  <2>2. CASE DequeueCall(t)
    BY <1>1, <2>1, <2>2 DEF MpmcTypeOK, DequeueCall, Goto, Load, Steps
  <2>3. CASE DequeueLook(t)
    BY <1>1, <2>1, <2>3
    DEF MpmcTypeOK, DequeueLook, Look, Goto, Return, Steps, Bounded!Outcomes
  <2>4. CASE DequeueClaim(t)
    BY <1>1, <2>1, <2>4 DEF MpmcTypeOK, DequeueClaim, Goto, Load, Steps
  <2>5. CASE DequeueReload(t)
    BY <1>1, <2>1, <2>5 DEF MpmcTypeOK, DequeueReload, Goto, Load, Steps
  <2>6. CASE DequeueMove(t)
    <3>1. DataAt(pos[t]) \in Data \cup {NoData}
      BY <1>1, <2>1, CellTypes
    <3>2. /\ at' = [at EXCEPT ![t] = "publish"]
          /\ datum' = [datum EXCEPT ![t] = DataAt(pos[t])]
          /\ UNCHANGED <<buffer, enqueue_pos, dequeue_pos, pos, returned>>
      BY <2>6 DEF DequeueMove, Goto, DataAt, Cell
    <3> QED
      BY <1>1, <2>1, <3>1, <3>2 DEF MpmcTypeOK, Steps, Bounded!Outcomes
  <2>7. CASE DequeuePublish(t)
    <3> DEFINE p == pos[t]  n == pos[t] + BufferSize
    <3>1. buffer' = [buffer EXCEPT ![p % BufferSize].sequence = n] /\ p \in Int /\ n \in Nat
      BY <2>1, <2>7 DEF DequeuePublish, Cell
    <3> HIDE DEF p, n
    <3>2. buffer' \in [0 .. BufferSize - 1 -> [sequence : Nat, data : Data \cup {NoData}]]
      BY <1>1, <2>1, <3>1, SequenceSet
    <3>3. /\ at' = [at EXCEPT ![t] = "idle"]
          /\ returned' = [returned EXCEPT ![t] = "taken"]
          /\ UNCHANGED <<enqueue_pos, dequeue_pos, pos, datum>>
      BY <2>7 DEF DequeuePublish, Return, Goto
    <3> QED
      BY <1>1, <2>1, <3>2, <3>3 DEF MpmcTypeOK, Steps, Bounded!Outcomes
  <2> QED
    BY <1>3, <2>2, <2>3, <2>4, <2>5, <2>6, <2>7 DEF dequeue
<1> QED
  BY <1>2, <1>3 DEF MpmcNext

-------------------------------------------------------------------------------
(* The steps that keep the ends and the sequences. *)

LEMMA WorkGoesOn ==
  ASSUME MpmcInv, MpmcTypeOK', UNCHANGED <<enqueue_pos, dequeue_pos>>,
         \A p \in Int : SeqAt(p)' = SeqAt(p),
         \A u \in MpmcThreads : /\ Working(u)' <=> Working(u)
                                /\ Working(u) => pos'[u] = pos[u]
  PROVE  EndsInv' /\ TurnsInv' /\ WorkersInv'
<1>1. /\ enqueue_pos' = enqueue_pos /\ dequeue_pos' = dequeue_pos
      /\ enqueue_pos \in Nat /\ dequeue_pos \in Nat /\ Window' = Window
      /\ Window \subseteq Int
      /\ Enqueuers \subseteq MpmcThreads /\ Dequeuers \subseteq MpmcThreads
      /\ \A t \in MpmcThreads : pos[t] \in Nat
  BY EndsAreNumbers DEF MpmcInv, Window
<1>2. EndsInv'
  BY <1>1 DEF MpmcInv, EndsInv
<1>3. ASSUME NEW p \in Window
      PROVE  TurnAt(p)'
  <2>1. p \in Int /\ SeqAt(p)' = SeqAt(p) /\ TurnAt(p)
    BY <1>1 DEF MpmcInv, TurnsInv
  <2>2. \A u \in MpmcThreads : WorksOn(u, p) => WorksOn(u, p)'
    BY WorkersOn
  <2> QED
    BY <1>1, <2>1, <2>2 DEF TurnAt
<1>4. WorkersInv'
  <2>1. \A u \in MpmcThreads : Working(u) => SeqAt(pos[u])' = SeqAt(pos[u])
    BY <1>1
  <2>2. \A u \in MpmcThreads : Working(u)' =>
          Working(u) /\ pos'[u] = pos[u] /\ (SeqAt(pos[u]))' = SeqAt(pos[u])
    BY <1>1 DEF SeqAt
  <2> QED
    BY <1>1, <2>2 DEF MpmcInv, WorkersInv
<1> QED
  BY <1>1, <1>2, <1>3, <1>4 DEF TurnsInv

\* A thread that has nothing to do with a cell yet reads, or its call ends.
OnlyReads(t) ==
  /\ UNCHANGED <<buffer, enqueue_pos, dequeue_pos>>
  /\ ~Working(t) /\ at'[t] \notin {"move", "publish"}
  /\ \A u \in MpmcThreads \ {t} :
       at'[u] = at[u] /\ pos'[u] = pos[u] /\ datum'[u] = datum[u]
  /\ t \in Enqueuers =>
       /\ pos'[t] \in {pos[t], enqueue_pos}
       /\ at'[t] = "claim" => SeqAt(pos'[t]) = pos'[t]
       /\ at'[t] # "idle" => datum'[t] \in Data
  /\ t \in Dequeuers =>
       /\ pos'[t] \in {pos[t], dequeue_pos}
       /\ at'[t] = "claim" => SeqAt(pos'[t]) = pos'[t] + 1

LEMMA ReadingKeeps ==
  ASSUME MpmcInv, MpmcTypeOK', NEW t \in MpmcThreads, OnlyReads(t)
  PROVE  MpmcInv'
<1>1. /\ enqueue_pos' = enqueue_pos /\ dequeue_pos' = dequeue_pos
      /\ enqueue_pos \in Nat /\ dequeue_pos \in Nat
      /\ Enqueuers \subseteq MpmcThreads /\ Dequeuers \subseteq MpmcThreads
      /\ Enqueuers \cap Dequeuers = {}
      /\ \A u \in MpmcThreads : pos[u] \in Nat /\ pos'[u] \in Nat
  BY EndsAreNumbers DEF MpmcInv, OnlyReads, MpmcTypeOK
<1>2. \A p : SeqAt(p)' = SeqAt(p) /\ DataAt(p)' = DataAt(p)
  BY DEF OnlyReads, SeqAt, DataAt
<1>3. \A u \in MpmcThreads : /\ Working(u)' <=> Working(u)
                             /\ Working(u) => pos'[u] = pos[u]
  BY DEF OnlyReads, Working
<1>4. EndsInv' /\ TurnsInv' /\ WorkersInv'
  <2>1. UNCHANGED <<enqueue_pos, dequeue_pos>> /\ \A p \in Int : SeqAt(p)' = SeqAt(p)
    BY <1>1, <1>2
  <2> QED
    BY <1>3, <2>1, WorkGoesOn
<1>5. \A u \in MpmcThreads : /\ SeqAt(pos[u])' = buffer[pos'[u] % BufferSize].sequence
                             /\ DataAt(pos[u])' = buffer[pos'[u] % BufferSize].data
  BY DEF OnlyReads, SeqAt, DataAt
<1>6. ReadersInv'
  BY <1>1, <1>5 DEF MpmcInv, ReadersInv, OnlyReads, SeqAt
<1>7. ItemsInv'
  BY <1>1, <1>5 DEF MpmcInv, ItemsInv, OnlyReads, DataAt
<1> QED
  BY <1>4, <1>6, <1>7 DEF MpmcInv

LEMMA EnqueueReads ==
  ASSUME MpmcInv, MpmcNext, NEW t \in Enqueuers,
         \/ EnqueueCall(t) \/ EnqueueLook(t) \/ EnqueueReload(t)
         \/ EnqueueClaim(t) /\ enqueue_pos' = enqueue_pos
  PROVE  OnlyReads(t)
<1>1. /\ t \in MpmcThreads /\ t \notin Dequeuers
      /\ MpmcTypeOK /\ ItemsInv /\ enqueue_pos + 1 # enqueue_pos
      /\ pos[t] \in Nat /\ SeqAt(pos[t]) \in Nat
  BY EndsAreNumbers, CellTypes DEF MpmcInv
<1>2. CASE EnqueueCall(t)
  BY <1>1, <1>2 DEF EnqueueCall, OnlyReads, Goto, Load, Working, MpmcTypeOK
<1>3. CASE EnqueueLook(t)
  <2>1. at[t] = "look" /\ datum[t] \in Data
    BY <1>1, <1>3 DEF EnqueueLook, Look, ItemsInv
  <2>2. /\ UNCHANGED <<buffer, enqueue_pos, dequeue_pos, pos, datum>>
        /\ \E a \in {"claim", "idle", "reload"} :
             /\ at' = [at EXCEPT ![t] = a]
             /\ a = "claim" => SeqAt(pos[t]) - pos[t] = 0
    BY <1>3 DEF EnqueueLook, Look, Goto, Return, DifEnqueue, sequence, Cell, SeqAt
  <2>3. SeqAt(pos[t]) - pos[t] = 0 => SeqAt(pos[t]) = pos[t]
    BY <1>1
  <2> QED
    BY <1>1, <2>1, <2>2, <2>3 DEF OnlyReads, Working, MpmcTypeOK
<1>4. CASE EnqueueReload(t)
  BY <1>1, <1>4 DEF EnqueueReload, OnlyReads, Goto, Load, Working, MpmcTypeOK, ItemsInv
<1>5. CASE EnqueueClaim(t) /\ enqueue_pos' = enqueue_pos
  BY <1>1, <1>5 DEF EnqueueClaim, OnlyReads, Goto, Load, Working, MpmcTypeOK, ItemsInv
<1> QED
  BY <1>2, <1>3, <1>4, <1>5

LEMMA DequeueReads ==
  ASSUME MpmcInv, MpmcNext, NEW t \in Dequeuers,
         \/ DequeueCall(t) \/ DequeueLook(t) \/ DequeueReload(t)
         \/ DequeueClaim(t) /\ dequeue_pos' = dequeue_pos
  PROVE  OnlyReads(t)
<1>1. /\ t \in MpmcThreads /\ t \notin Enqueuers
      /\ MpmcTypeOK /\ dequeue_pos + 1 # dequeue_pos
      /\ pos[t] \in Nat /\ SeqAt(pos[t]) \in Nat
  BY EndsAreNumbers, CellTypes DEF MpmcInv
<1>2. CASE DequeueCall(t)
  BY <1>1, <1>2 DEF DequeueCall, OnlyReads, Goto, Load, Working, MpmcTypeOK
<1>3. CASE DequeueLook(t)
  <2>1. at[t] = "look"
    BY <1>3 DEF DequeueLook, Look
  <2>2. /\ UNCHANGED <<buffer, enqueue_pos, dequeue_pos, pos, datum>>
        /\ \E a \in {"claim", "idle", "reload"} :
             /\ at' = [at EXCEPT ![t] = a]
             /\ a = "claim" => SeqAt(pos[t]) - (pos[t] + 1) = 0
    BY <1>3 DEF DequeueLook, Look, Goto, Return, DifDequeue, sequence, Cell, SeqAt
  <2>3. SeqAt(pos[t]) - (pos[t] + 1) = 0 => SeqAt(pos[t]) = pos[t] + 1
    BY <1>1
  <2> QED
    BY <1>1, <2>1, <2>2, <2>3 DEF OnlyReads, Working, MpmcTypeOK
<1>4. CASE DequeueReload(t)
  BY <1>1, <1>4 DEF DequeueReload, OnlyReads, Goto, Load, Working, MpmcTypeOK
<1>5. CASE DequeueClaim(t) /\ dequeue_pos' = dequeue_pos
  BY <1>1, <1>5 DEF DequeueClaim, OnlyReads, Goto, Load, Working, MpmcTypeOK
<1> QED
  BY <1>2, <1>3, <1>4, <1>5

-------------------------------------------------------------------------------
(* The steps of a thread that has a place. *)

LEMMA EnqueueMoveKeeps ==
  ASSUME MpmcInv, MpmcTypeOK', NEW t \in Enqueuers, EnqueueMove(t)
  PROVE  /\ MpmcInv'
         /\ \A p \in Int : /\ SeqAt(p)' = SeqAt(p)
                           /\ ~SameCell(pos[t], p) => DataAt(p)' = DataAt(p)
         /\ DataAt(pos[t])' = datum[t]
<1>1. /\ MpmcTypeOK /\ t \in MpmcThreads /\ t \notin Dequeuers /\ pos[t] \in Int
      /\ enqueue_pos \in Nat /\ dequeue_pos \in Nat /\ BufferSize \in Nat
      /\ Enqueuers \subseteq MpmcThreads /\ Dequeuers \subseteq MpmcThreads
      /\ \A u \in MpmcThreads : pos[u] \in Nat
  BY EndsAreNumbers DEF MpmcInv
<1>2. /\ at[t] = "move" /\ at' = [at EXCEPT ![t] = "publish"]
      /\ UNCHANGED <<enqueue_pos, dequeue_pos, pos, datum, returned>>
      /\ datum[t] \in Data
  BY DEF EnqueueMove, Goto, MpmcInv, ItemsInv
<1>3. \A q \in Int : /\ DataAt(q)' = IF SameCell(pos[t], q) THEN datum[t] ELSE DataAt(q)
                     /\ SeqAt(q)' = SeqAt(q)
  <2> DEFINE p == pos[t]  d == datum[t]
  <2>1. buffer' = [buffer EXCEPT ![p % BufferSize].data = d] /\ p \in Int /\ d \in Data
    BY <1>1, <1>2 DEF EnqueueMove, Cell
  <2> HIDE DEF p, d
  <2>2. \A q \in Int : /\ DataAt(q)' = IF SameCell(p, q) THEN d ELSE DataAt(q)
                       /\ SeqAt(q)' = SeqAt(q)
    BY <1>1, <2>1, DataSet
  <2> QED
    BY <2>2 DEF p, d
<1>4. \A u \in MpmcThreads : /\ Working(u)' <=> Working(u)
                             /\ at'[u] = IF u = t THEN "publish" ELSE at[u]
  BY <1>1, <1>2 DEF MpmcTypeOK, Working
<1>5. EndsInv' /\ TurnsInv' /\ WorkersInv'
  BY <1>2, <1>3, <1>4, WorkGoesOn
<1>6. \A u \in MpmcThreads : /\ SeqAt(pos[u])' = SeqAt(pos[u])
                             /\ DataAt(pos[u])' = IF SameCell(pos[t], pos[u]) THEN datum[t]
                                                  ELSE DataAt(pos[u])
  <2> SUFFICES ASSUME NEW u \in MpmcThreads
               PROVE  /\ SeqAt(pos[u])' = SeqAt(pos[u])
                      /\ DataAt(pos[u])' = IF SameCell(pos[t], pos[u]) THEN datum[t]
                                           ELSE DataAt(pos[u])
    OBVIOUS
  <2> DEFINE q == pos[u]
  <2>1. q \in Int /\ pos'[u] = q
    BY <1>1, <1>2
  <2>2. SeqAt(pos[u])' = buffer'[q % BufferSize].sequence
        /\ DataAt(pos[u])' = buffer'[q % BufferSize].data
    BY <2>1 DEF SeqAt, DataAt
  <2> QED
    BY <1>3, <2>1, <2>2 DEF SeqAt, DataAt
<1>7. ReadersInv'
  BY <1>1, <1>2, <1>4, <1>6 DEF MpmcInv, ReadersInv
<1>8. ItemsInv'
  <2> SUFFICES ASSUME NEW u \in Enqueuers
               PROVE  /\ at'[u] # "idle" => datum'[u] \in Data
                      /\ at'[u] = "publish" => DataAt(pos[u])' = datum'[u]
    BY DEF ItemsInv
  <2>1. CASE u = t
    BY <1>1, <1>2, <1>6, <2>1 DEF SameCell
  <2>2. CASE u # t
    <3>1. at'[u] = at[u] /\ datum'[u] = datum[u] /\ u \in MpmcThreads
      BY <1>1, <1>2, <1>4, <2>2
    <3>2. ASSUME at[u] = "publish"
          PROVE  ~SameCell(pos[t], pos[u])
      <4>1. Working(u) /\ Working(t)
        BY <1>2, <3>2 DEF Working
      <4>2. /\ pos[u] # pos[t]
            /\ dequeue_pos <= pos[t] /\ pos[t] < enqueue_pos
            /\ dequeue_pos <= pos[u] /\ pos[u] < enqueue_pos
            /\ enqueue_pos <= dequeue_pos + BufferSize
        BY <2>2, <4>1 DEF MpmcInv, WorkersInv, EndsInv
      <4>3. pos[t] < pos[u] + BufferSize /\ pos[u] < pos[t] + BufferSize /\ pos[u] \in Int
        BY <1>1, <3>1, <4>2
      <4> QED
        BY <1>1, <4>2, <4>3, OneOfARound
    <3> QED
      BY <1>6, <3>1, <3>2 DEF MpmcInv, ItemsInv
  <2> QED
    BY <2>1, <2>2
<1>9. DataAt(pos[t])' = datum[t]
  BY <1>1, <1>6 DEF SameCell
<1> QED
  BY <1>3, <1>5, <1>7, <1>8, <1>9 DEF MpmcInv

LEMMA DequeueMoveKeeps ==
  ASSUME MpmcInv, MpmcTypeOK', NEW t \in Dequeuers, DequeueMove(t)
  PROVE  MpmcInv'
<1>1. /\ MpmcTypeOK /\ t \in MpmcThreads /\ t \notin Enqueuers
      /\ Enqueuers \subseteq MpmcThreads /\ Dequeuers \subseteq MpmcThreads
  BY EndsAreNumbers DEF MpmcInv
<1>2. /\ at[t] = "move" /\ at' = [at EXCEPT ![t] = "publish"]
      /\ UNCHANGED <<buffer, enqueue_pos, dequeue_pos, pos, returned>>
      /\ \A u \in MpmcThreads : u # t => datum'[u] = datum[u]
  BY <1>1 DEF DequeueMove, Goto, MpmcTypeOK
<1>3. \A u \in MpmcThreads : /\ Working(u)' <=> Working(u)
                             /\ at'[u] = IF u = t THEN "publish" ELSE at[u]
  BY <1>1, <1>2 DEF MpmcTypeOK, Working
<1>4. \A p : SeqAt(p)' = SeqAt(p) /\ DataAt(p)' = DataAt(p)
  BY <1>2 DEF SeqAt, DataAt
<1>5. EndsInv' /\ TurnsInv' /\ WorkersInv'
  BY <1>2, <1>3, <1>4, WorkGoesOn
<1>6. ReadersInv'
  BY <1>1, <1>2, <1>3 DEF MpmcInv, ReadersInv, SeqAt
<1>7. ItemsInv'
  BY <1>1, <1>2, <1>3 DEF MpmcInv, ItemsInv, DataAt
<1> QED
  BY <1>5, <1>6, <1>7 DEF MpmcInv

\* Nobody else works on the cell of one who works, and who may claim a
\* position claims another.
LEMMA WorkerAlone ==
  ASSUME MpmcInv, NEW t \in MpmcThreads, Working(t)
  PROVE  /\ pos[t] \in Window
         /\ \A q \in Window : SameCell(pos[t], q) => q = pos[t]
         /\ \A u \in MpmcThreads \ {t} :
              Working(u) => pos[u] \in Window /\ ~SameCell(pos[t], pos[u])
         /\ SeqAt(enqueue_pos) = enqueue_pos => ~SameCell(pos[t], enqueue_pos)
         /\ SeqAt(dequeue_pos) = dequeue_pos + 1 => ~SameCell(pos[t], dequeue_pos)
<1>1. /\ MpmcTypeOK /\ pos[t] \in Nat
      /\ enqueue_pos \in Nat /\ dequeue_pos \in Nat
      /\ BufferSize \in Nat /\ BufferSize >= 2
      /\ \A u \in MpmcThreads : pos[u] \in Nat
      /\ dequeue_pos <= enqueue_pos /\ enqueue_pos <= dequeue_pos + BufferSize
  BY EndsAreNumbers, SizeFacts DEF MpmcInv, EndsInv
<1>2. \A u \in MpmcThreads : Working(u) => pos[u] \in Window
  BY <1>1 DEF MpmcInv, WorkersInv, MpmcThreads, Window
<1>3. \A p, q \in Window : SameCell(p, q) => p = q
  <2> SUFFICES ASSUME NEW p \in Window, NEW q \in Window, SameCell(p, q)
               PROVE  p = q
    OBVIOUS
  <2>1. p \in Int /\ q \in Int /\ p < q + BufferSize /\ q < p + BufferSize
    BY <1>1 DEF Window
  <2> QED
    BY <2>1, OneOfARound
<1>4. \A q \in Int : SameCell(pos[t], q) => SeqAt(q) = SeqAt(pos[t])
  BY <1>1, CellTypes
<1>5. \A u \in MpmcThreads \ {t} : Working(u) => pos[u] # pos[t]
  <2>1. \A u \in Enqueuers : Working(u) => dequeue_pos <= pos[u]
    BY DEF MpmcInv, WorkersInv
  <2>2. \A u \in Dequeuers : Working(u) => pos[u] < dequeue_pos
    BY DEF MpmcInv, WorkersInv
  <2> SUFFICES ASSUME NEW u \in MpmcThreads \ {t}, Working(u)
               PROVE  pos[u] # pos[t]
    OBVIOUS
  <2>3. CASE t \in Enqueuers /\ u \in Enqueuers
    BY <2>3 DEF MpmcInv, WorkersInv
  <2>4. CASE t \in Dequeuers /\ u \in Dequeuers
    BY <2>4 DEF MpmcInv, WorkersInv
  <2>5. CASE t \in Enqueuers /\ u \in Dequeuers
    BY <1>1, <2>1, <2>2, <2>5
  <2>6. CASE t \in Dequeuers /\ u \in Enqueuers
    BY <1>1, <2>1, <2>2, <2>6
  <2> QED
    BY <2>3, <2>4, <2>5, <2>6 DEF MpmcThreads
<1>6. /\ t \in Enqueuers => SeqAt(pos[t]) = pos[t] /\ dequeue_pos <= pos[t]
                            /\ pos[t] < enqueue_pos
      /\ t \in Dequeuers => /\ SeqAt(pos[t]) = pos[t] + 1 /\ pos[t] < dequeue_pos
                            /\ enqueue_pos <= pos[t] + BufferSize
      /\ t \in Enqueuers \/ t \in Dequeuers
  <2>1. t \in Dequeuers => enqueue_pos - BufferSize <= pos[t]
    BY DEF MpmcInv, WorkersInv
  <2>2. enqueue_pos - BufferSize <= pos[t] => enqueue_pos <= pos[t] + BufferSize
    BY <1>1
  <2> QED
    BY <2>1, <2>2 DEF MpmcInv, WorkersInv, MpmcThreads
<1>7. ASSUME SeqAt(enqueue_pos) = enqueue_pos, SameCell(pos[t], enqueue_pos)
      PROVE  FALSE
  <2>1. SeqAt(pos[t]) = enqueue_pos
    BY <1>1, <1>4, <1>7
  <2>2. pos[t] + BufferSize <= enqueue_pos
    BY <1>1, <1>6, <1>7, NextRound
  <2> QED
    BY <1>1, <1>6, <2>1, <2>2
<1>8. ASSUME SeqAt(dequeue_pos) = dequeue_pos + 1, SameCell(pos[t], dequeue_pos)
      PROVE  FALSE
  <2>1. SeqAt(pos[t]) = dequeue_pos + 1
    BY <1>1, <1>4, <1>8
  <2>2. CASE t \in Enqueuers
    <3>1. pos[t] < dequeue_pos + BufferSize /\ dequeue_pos < pos[t] + BufferSize
      BY <1>1, <1>6, <2>2
    <3>2. pos[t] = dequeue_pos
      BY <1>1, <1>8, <3>1, OneOfARound
    <3> QED
      BY <1>1, <1>6, <2>1, <2>2, <3>2
  <2>3. CASE t \in Dequeuers
    BY <1>1, <1>6, <2>1, <2>3
  <2> QED
    BY <1>6, <2>2, <2>3
<1>9. ASSUME NEW u \in MpmcThreads \ {t}, Working(u)
      PROVE  pos[u] \in Window /\ ~SameCell(pos[t], pos[u])
  BY <1>2, <1>3, <1>5, <1>9
<1> QED
  BY <1>2, <1>3, <1>7, <1>8, <1>9

\* A claim succeeds only where it may.
LEMMA EnqueueClaims ==
  ASSUME MpmcInv, NEW t \in Enqueuers, EnqueueClaim(t), enqueue_pos' # enqueue_pos
  PROVE  /\ enqueue_pos' = enqueue_pos + 1 /\ pos[t] = enqueue_pos
         /\ SeqAt(enqueue_pos) = enqueue_pos
         /\ enqueue_pos < dequeue_pos + BufferSize
         /\ at[t] = "claim" /\ at' = [at EXCEPT ![t] = "move"]
         /\ UNCHANGED <<buffer, dequeue_pos, pos, datum, returned>>
<1>1. /\ enqueue_pos' = enqueue_pos + 1 /\ pos[t] = enqueue_pos
      /\ at[t] = "claim" /\ at' = [at EXCEPT ![t] = "move"]
      /\ UNCHANGED <<buffer, dequeue_pos, pos, datum, returned>>
  BY DEF EnqueueClaim, Goto, Load
<1>2. enqueue_pos \in Nat /\ dequeue_pos \in Nat /\ BufferSize \in Nat /\ BufferSize >= 2
  BY EndsAreNumbers, SizeFacts DEF MpmcInv
<1>3. SeqAt(enqueue_pos) = enqueue_pos
  BY <1>1, <1>2 DEF MpmcInv, ReadersInv
<1>4. enqueue_pos < dequeue_pos + BufferSize
  <2> DEFINE p == enqueue_pos - BufferSize
  <2>1. p \in Window /\ SeqAt(p) = enqueue_pos
    BY <1>3, NextCell
  <2>2. p >= dequeue_pos => SeqAt(p) \in {p, p + 1}
    BY <2>1, TurnCases
  <2> QED
    BY <1>2, <2>1, <2>2
<1> QED
  BY <1>1, <1>3, <1>4

LEMMA DequeueClaims ==
  ASSUME MpmcInv, NEW t \in Dequeuers, DequeueClaim(t), dequeue_pos' # dequeue_pos
  PROVE  /\ dequeue_pos' = dequeue_pos + 1 /\ pos[t] = dequeue_pos
         /\ SeqAt(dequeue_pos) = dequeue_pos + 1
         /\ dequeue_pos < enqueue_pos
         /\ at[t] = "claim" /\ at' = [at EXCEPT ![t] = "move"]
         /\ UNCHANGED <<buffer, enqueue_pos, pos, datum, returned>>
<1>1. /\ dequeue_pos' = dequeue_pos + 1 /\ pos[t] = dequeue_pos
      /\ at[t] = "claim" /\ at' = [at EXCEPT ![t] = "move"]
      /\ UNCHANGED <<buffer, enqueue_pos, pos, datum, returned>>
  BY DEF DequeueClaim, Goto, Load
<1>2. /\ enqueue_pos \in Nat /\ dequeue_pos \in Nat /\ BufferSize \in Nat /\ BufferSize >= 2
      /\ dequeue_pos <= enqueue_pos
  BY EndsAreNumbers, SizeFacts DEF MpmcInv, EndsInv
<1>3. SeqAt(dequeue_pos) = dequeue_pos + 1
  BY <1>1, <1>2 DEF MpmcInv, ReadersInv
<1>4. dequeue_pos < enqueue_pos
  <2> DEFINE p == enqueue_pos - BufferSize
  <2>1. p \in Window /\ SeqAt(p) = SeqAt(enqueue_pos)
    BY NextCell
  <2>2. p < dequeue_pos => SeqAt(p) \in {p + 1, p + BufferSize}
    BY <2>1, TurnCases
  <2> QED
    BY <1>2, <1>3, <2>1, <2>2
<1> QED
  BY <1>1, <1>3, <1>4

LEMMA EnqueueClaimKeeps ==
  ASSUME MpmcInv, MpmcTypeOK', NEW t \in Enqueuers,
         EnqueueClaim(t), enqueue_pos' # enqueue_pos
  PROVE  MpmcInv'
<1>1. /\ MpmcTypeOK /\ t \in MpmcThreads /\ t \notin Dequeuers
      /\ enqueue_pos \in Nat /\ dequeue_pos \in Nat /\ BufferSize \in Nat /\ BufferSize >= 2
      /\ Enqueuers \subseteq MpmcThreads /\ Dequeuers \subseteq MpmcThreads
      /\ \A u \in MpmcThreads : pos[u] \in Nat
      /\ dequeue_pos <= enqueue_pos
  BY EndsAreNumbers, SizeFacts DEF MpmcInv, EndsInv
<1>2. /\ enqueue_pos' = enqueue_pos + 1 /\ pos[t] = enqueue_pos
      /\ SeqAt(enqueue_pos) = enqueue_pos
      /\ enqueue_pos < dequeue_pos + BufferSize
      /\ at[t] = "claim" /\ at' = [at EXCEPT ![t] = "move"]
      /\ UNCHANGED <<buffer, dequeue_pos, pos, datum, returned>>
  BY EnqueueClaims
<1>3. /\ \A p : SeqAt(p)' = SeqAt(p) /\ DataAt(p)' = DataAt(p)
      /\ \A u \in MpmcThreads :
           /\ SeqAt(pos[u])' = SeqAt(pos[u]) /\ DataAt(pos[u])' = DataAt(pos[u])
           /\ at'[u] = IF u = t THEN "move" ELSE at[u]
           /\ Working(u)' <=> Working(u) \/ u = t
           /\ \A p : WorksOn(u, p) => WorksOn(u, p)'
  BY <1>1, <1>2 DEF SeqAt, DataAt, Working, WorksOn, MpmcTypeOK
<1>4. EndsInv'
  BY <1>1, <1>2 DEF EndsInv
<1>5. TurnsInv'
  <2> SUFFICES ASSUME NEW p \in Window'
               PROVE  TurnAt(p)'
    BY DEF TurnsInv
  <2>1. p \in Int /\ p <= enqueue_pos /\ p >= enqueue_pos - BufferSize
    BY <1>1, <1>2 DEF Window
  <2>2. CASE p = enqueue_pos
    <3>1. WorksOn(t, p)'
      BY <1>1, <1>2, <1>3, <2>2 DEF WorksOn
    <3> QED
      BY <1>1, <1>2, <1>3, <2>2, <3>1 DEF TurnAt
  <2>3. CASE p # enqueue_pos
    <3>1. TurnAt(p)
      BY <1>1, <2>1, <2>3 DEF Window, MpmcInv, TurnsInv
    <3> QED
      BY <1>1, <1>2, <1>3, <3>1 DEF TurnAt
  <2> QED
    BY <2>2, <2>3
<1>6. WorkersInv'
  <2>1. \A u \in Enqueuers : Working(u) => dequeue_pos <= pos[u] /\ pos[u] < enqueue_pos
    BY DEF MpmcInv, WorkersInv
  <2>2. \A u \in Enqueuers : Working(u)' =>
          dequeue_pos' <= pos'[u] /\ pos'[u] < enqueue_pos' /\ SeqAt(pos[u])' = pos'[u]
    <3> SUFFICES ASSUME NEW u \in Enqueuers, Working(u)'
                 PROVE  /\ dequeue_pos' <= pos'[u] /\ pos'[u] < enqueue_pos'
                        /\ SeqAt(pos[u])' = pos'[u]
      OBVIOUS
    <3>1. CASE u = t
      BY <1>1, <1>2, <1>3, <3>1
    <3>2. CASE u # t
      <4>1. Working(u) /\ SeqAt(pos[u]) = pos[u]
        BY <1>1, <1>3, <3>2 DEF MpmcInv, WorkersInv
      <4> QED
        BY <1>1, <1>2, <1>3, <2>1, <4>1
    <3> QED
      BY <3>1, <3>2
  <2>3. \A u \in Dequeuers : Working(u)' =>
          /\ enqueue_pos' - BufferSize <= pos'[u] /\ pos'[u] < dequeue_pos'
          /\ SeqAt(pos[u])' = pos'[u] + 1
    <3> SUFFICES ASSUME NEW u \in Dequeuers, Working(u)'
                 PROVE  /\ enqueue_pos' - BufferSize <= pos'[u] /\ pos'[u] < dequeue_pos'
                        /\ SeqAt(pos[u])' = pos'[u] + 1
      OBVIOUS
    <3>1. /\ Working(u) /\ enqueue_pos - BufferSize <= pos[u] /\ pos[u] < dequeue_pos
          /\ SeqAt(pos[u]) = pos[u] + 1
      BY <1>1, <1>3 DEF MpmcInv, WorkersInv
    <3>2. pos[u] # enqueue_pos - BufferSize
      BY <1>1, <1>2, <3>1, NextCell
    <3> QED
      BY <1>1, <1>2, <1>3, <3>1, <3>2
  <2>4. \A u, v \in Enqueuers :
          Working(u)' /\ Working(v)' /\ pos'[u] = pos'[v] => u = v
    <3> SUFFICES ASSUME NEW u \in Enqueuers, NEW v \in Enqueuers,
                        Working(u)', Working(v)', pos'[u] = pos'[v]
                 PROVE  u = v
      OBVIOUS
    <3>1. pos[u] = pos[v] /\ (Working(u) \/ u = t) /\ (Working(v) \/ v = t)
      BY <1>1, <1>2, <1>3
    <3>2. ASSUME NEW x \in Enqueuers, Working(x)
          PROVE  pos[x] # pos[t]
      BY <1>1, <1>2, <2>1, <3>2
    <3> QED
      BY <3>1, <3>2 DEF MpmcInv, WorkersInv
  <2>5. \A u, v \in Dequeuers :
          Working(u)' /\ Working(v)' /\ pos'[u] = pos'[v] => u = v
    BY <1>1, <1>2, <1>3 DEF MpmcInv, WorkersInv
  <2> QED
    BY <2>2, <2>3, <2>4, <2>5 DEF WorkersInv
<1>7. ReadersInv'
  <2>1. \A u \in Enqueuers : pos'[u] < enqueue_pos'
    BY <1>1, <1>2 DEF MpmcInv, ReadersInv
  <2>2. \A u \in Enqueuers : pos'[u] <= enqueue_pos'
    BY <1>1, <1>2, <2>1
  <2>3. \A u \in Dequeuers :
          /\ pos'[u] <= dequeue_pos'
          /\ at'[u] = "claim" => pos'[u] < dequeue_pos' \/ SeqAt(pos[u])' = pos'[u] + 1
    BY <1>1, <1>2, <1>3 DEF MpmcInv, ReadersInv
  <2> QED
    BY <2>1, <2>2, <2>3 DEF ReadersInv
<1>8. ItemsInv'
  BY <1>1, <1>2, <1>3 DEF MpmcInv, ItemsInv
<1> QED
  BY <1>4, <1>5, <1>6, <1>7, <1>8 DEF MpmcInv

LEMMA DequeueClaimKeeps ==
  ASSUME MpmcInv, MpmcTypeOK', NEW t \in Dequeuers,
         DequeueClaim(t), dequeue_pos' # dequeue_pos
  PROVE  MpmcInv'
<1>1. /\ MpmcTypeOK /\ t \in MpmcThreads /\ t \notin Enqueuers
      /\ enqueue_pos \in Nat /\ dequeue_pos \in Nat /\ BufferSize \in Nat /\ BufferSize >= 2
      /\ Enqueuers \subseteq MpmcThreads /\ Dequeuers \subseteq MpmcThreads
      /\ \A u \in MpmcThreads : pos[u] \in Nat
      /\ dequeue_pos <= enqueue_pos /\ enqueue_pos <= dequeue_pos + BufferSize
  BY EndsAreNumbers, SizeFacts DEF MpmcInv, EndsInv
<1>2. /\ dequeue_pos' = dequeue_pos + 1 /\ pos[t] = dequeue_pos
      /\ SeqAt(dequeue_pos) = dequeue_pos + 1
      /\ dequeue_pos < enqueue_pos
      /\ at[t] = "claim" /\ at' = [at EXCEPT ![t] = "move"]
      /\ UNCHANGED <<buffer, enqueue_pos, pos, datum, returned>>
  BY DequeueClaims
<1>3. /\ \A p : SeqAt(p)' = SeqAt(p) /\ DataAt(p)' = DataAt(p)
      /\ \A u \in MpmcThreads :
           /\ SeqAt(pos[u])' = SeqAt(pos[u]) /\ DataAt(pos[u])' = DataAt(pos[u])
           /\ at'[u] = IF u = t THEN "move" ELSE at[u]
           /\ Working(u)' <=> Working(u) \/ u = t
           /\ \A p : WorksOn(u, p) => WorksOn(u, p)'
           /\ u = t => WorksOn(u, pos[t])'
  BY <1>1, <1>2 DEF SeqAt, DataAt, Working, WorksOn, MpmcTypeOK
<1>4. EndsInv'
  BY <1>1, <1>2 DEF EndsInv
<1>5. TurnsInv'
  <2> SUFFICES ASSUME NEW p \in Window
               PROVE  TurnAt(p)'
    BY <1>2 DEF TurnsInv, Window
  <2>1. p \in Int /\ TurnAt(p)
    BY <1>1 DEF Window, MpmcInv, TurnsInv
  <2>2. CASE p = dequeue_pos
    <3>1. WorksOn(t, p)' /\ SeqAt(p)' = p + 1 /\ ~(p >= dequeue_pos')
      BY <1>1, <1>2, <1>3, <2>2
    <3> QED
      BY <3>1 DEF TurnAt
  <2>3. CASE p # dequeue_pos
    <3>1. p >= dequeue_pos' <=> p >= dequeue_pos
      BY <1>1, <1>2, <2>1, <2>3
    <3> QED
      BY <1>1, <1>3, <2>1, <3>1 DEF TurnAt
  <2> QED
    BY <2>2, <2>3
<1>6. WorkersInv'
  <2>1. \A u \in Dequeuers : Working(u) =>
          /\ enqueue_pos - BufferSize <= pos[u] /\ pos[u] < dequeue_pos
          /\ SeqAt(pos[u]) = pos[u] + 1
    BY DEF MpmcInv, WorkersInv
  <2>2. \A u \in Enqueuers : Working(u)' =>
          dequeue_pos' <= pos'[u] /\ pos'[u] < enqueue_pos' /\ SeqAt(pos[u])' = pos'[u]
    <3> SUFFICES ASSUME NEW u \in Enqueuers, Working(u)'
                 PROVE  /\ dequeue_pos' <= pos'[u] /\ pos'[u] < enqueue_pos'
                        /\ SeqAt(pos[u])' = pos'[u]
      OBVIOUS
    <3>1. Working(u) /\ SeqAt(pos[u]) = pos[u] /\ dequeue_pos <= pos[u] /\ pos[u] < enqueue_pos
      BY <1>1, <1>3 DEF MpmcInv, WorkersInv
    <3>2. pos[u] # dequeue_pos
      BY <1>1, <1>2, <3>1
    <3> QED
      BY <1>1, <1>2, <1>3, <3>1, <3>2
  <2>3. \A u \in Dequeuers : Working(u)' =>
          /\ enqueue_pos' - BufferSize <= pos'[u] /\ pos'[u] < dequeue_pos'
          /\ SeqAt(pos[u])' = pos'[u] + 1
    <3> SUFFICES ASSUME NEW u \in Dequeuers, Working(u)'
                 PROVE  /\ enqueue_pos' - BufferSize <= pos'[u] /\ pos'[u] < dequeue_pos'
                        /\ SeqAt(pos[u])' = pos'[u] + 1
      OBVIOUS
    <3>1. CASE u = t
      BY <1>1, <1>2, <1>3, <3>1
    <3>2. CASE u # t
      BY <1>1, <1>2, <1>3, <2>1, <3>2
    <3> QED
      BY <3>1, <3>2
  <2>4. \A u, v \in Dequeuers :
          Working(u)' /\ Working(v)' /\ pos'[u] = pos'[v] => u = v
    <3> SUFFICES ASSUME NEW u \in Dequeuers, NEW v \in Dequeuers,
                        Working(u)', Working(v)', pos'[u] = pos'[v]
                 PROVE  u = v
      OBVIOUS
    <3>1. pos[u] = pos[v] /\ (Working(u) \/ u = t) /\ (Working(v) \/ v = t)
      BY <1>1, <1>2, <1>3
    <3>2. ASSUME NEW x \in Dequeuers, Working(x)
          PROVE  pos[x] # pos[t]
      BY <1>1, <1>2, <2>1, <3>2
    <3> QED
      BY <3>1, <3>2 DEF MpmcInv, WorkersInv
  <2>5. \A u, v \in Enqueuers :
          Working(u)' /\ Working(v)' /\ pos'[u] = pos'[v] => u = v
    BY <1>1, <1>2, <1>3 DEF MpmcInv, WorkersInv
  <2> QED
    BY <2>2, <2>3, <2>4, <2>5 DEF WorkersInv
<1>7. ReadersInv'
  <2>1. \A u \in Dequeuers : pos'[u] < dequeue_pos'
    BY <1>1, <1>2 DEF MpmcInv, ReadersInv
  <2>2. \A u \in Dequeuers : pos'[u] <= dequeue_pos'
    BY <1>1, <1>2, <2>1
  <2>3. \A u \in Enqueuers :
          /\ pos'[u] <= enqueue_pos'
          /\ at'[u] = "claim" => pos'[u] < enqueue_pos' \/ SeqAt(pos[u])' = pos'[u]
    BY <1>1, <1>2, <1>3 DEF MpmcInv, ReadersInv
  <2> QED
    BY <2>1, <2>2, <2>3 DEF ReadersInv
<1>8. ItemsInv'
  BY <1>1, <1>2, <1>3 DEF MpmcInv, ItemsInv
<1> QED
  BY <1>4, <1>5, <1>6, <1>7, <1>8 DEF MpmcInv

\* A thread leaves the cell it worked on to the next in turn.
Publishes(t, next) ==
  /\ at[t] = "publish" /\ at' = [at EXCEPT ![t] = "idle"]
  /\ buffer' = [buffer EXCEPT ![pos[t] % BufferSize].sequence = next]
  /\ UNCHANGED <<enqueue_pos, dequeue_pos, pos>>
  /\ \A u \in MpmcThreads \ {t} : datum'[u] = datum[u]

LEMMA ThreadsPublish ==
  ASSUME MpmcInv, NEW t \in MpmcThreads
  PROVE  /\ t \in Enqueuers /\ EnqueuePublish(t) => Publishes(t, pos[t] + 1)
         /\ t \in Dequeuers /\ DequeuePublish(t) => Publishes(t, pos[t] + BufferSize)
BY DEF MpmcInv, MpmcTypeOK, EnqueuePublish, DequeuePublish, Publishes, Return, Goto, Cell

LEMMA PublishSets ==
  ASSUME MpmcInv, NEW t \in MpmcThreads, NEW next \in Nat, Publishes(t, next)
  PROVE  /\ Working(t) /\ pos[t] \in Nat
         /\ \A q \in Int : /\ SeqAt(q)' = IF SameCell(pos[t], q) THEN next ELSE SeqAt(q)
                           /\ DataAt(q)' = DataAt(q)
         /\ \A u \in MpmcThreads : /\ Working(u)' <=> Working(u) /\ u # t
                                   /\ at'[u] = IF u = t THEN "idle" ELSE at[u]
<1>1. /\ MpmcTypeOK /\ pos[t] \in Nat
  BY EndsAreNumbers DEF MpmcInv
<1>2. \A q \in Int : /\ SeqAt(q)' = IF SameCell(pos[t], q) THEN next ELSE SeqAt(q)
                     /\ DataAt(q)' = DataAt(q)
  <2> DEFINE p == pos[t]
  <2>1. buffer' = [buffer EXCEPT ![p % BufferSize].sequence = next] /\ p \in Int
    BY <1>1 DEF Publishes
  <2> HIDE DEF p
  <2>2. \A q \in Int : /\ SeqAt(q)' = IF SameCell(p, q) THEN next ELSE SeqAt(q)
                       /\ DataAt(q)' = DataAt(q)
    BY <1>1, <2>1, SequenceSet
  <2> QED
    BY <2>2 DEF p
<1>3. Working(t)
  BY DEF Publishes, Working
<1>4. \A u \in MpmcThreads : at'[u] = IF u = t THEN "idle" ELSE at[u]
  BY <1>1 DEF Publishes, MpmcTypeOK
<1>5. \A u \in MpmcThreads : Working(u)' <=> Working(u) /\ u # t
  BY <1>4 DEF Working
<1> QED
  BY <1>1, <1>2, <1>3, <1>4, <1>5

LEMMA PublishKeeps ==
  ASSUME MpmcInv, MpmcTypeOK', NEW t \in MpmcThreads, NEW next \in Nat, Publishes(t, next),
         next = IF t \in Enqueuers THEN pos[t] + 1 ELSE pos[t] + BufferSize
  PROVE  MpmcInv'
<1>1. /\ MpmcTypeOK
      /\ enqueue_pos \in Nat /\ dequeue_pos \in Nat /\ BufferSize \in Nat /\ BufferSize >= 2
      /\ Enqueuers \subseteq MpmcThreads /\ Dequeuers \subseteq MpmcThreads
      /\ Enqueuers \cap Dequeuers = {} /\ Window \subseteq Int
      /\ \A u \in MpmcThreads : pos[u] \in Nat
      /\ t \in Enqueuers \/ t \in Dequeuers
  BY EndsAreNumbers, SizeFacts DEF MpmcInv, MpmcThreads
<1>2. /\ enqueue_pos' = enqueue_pos /\ dequeue_pos' = dequeue_pos /\ pos' = pos
      /\ Window' = Window
      /\ \A u \in MpmcThreads \ {t} : datum'[u] = datum[u]
  BY DEF Publishes, Window
<1>3. /\ Working(t)
      /\ \A q \in Int : /\ SeqAt(q)' = IF SameCell(pos[t], q) THEN next ELSE SeqAt(q)
                        /\ DataAt(q)' = DataAt(q)
      /\ \A u \in MpmcThreads : /\ Working(u)' <=> Working(u) /\ u # t
                                /\ at'[u] = IF u = t THEN "idle" ELSE at[u]
  BY PublishSets
<1>4. \A u \in MpmcThreads :
        /\ SeqAt(pos[u])' = IF SameCell(pos[t], pos[u]) THEN next ELSE SeqAt(pos[u])
        /\ DataAt(pos[u])' = DataAt(pos[u])
  <2> SUFFICES ASSUME NEW u \in MpmcThreads
               PROVE  /\ SeqAt(pos[u])' = IF SameCell(pos[t], pos[u]) THEN next
                                          ELSE SeqAt(pos[u])
                      /\ DataAt(pos[u])' = DataAt(pos[u])
    OBVIOUS
  <2> DEFINE q == pos[u]
  <2>1. q \in Int /\ pos'[u] = q
    BY <1>1, <1>2
  <2>2. SeqAt(pos[u])' = buffer'[q % BufferSize].sequence
        /\ DataAt(pos[u])' = buffer'[q % BufferSize].data
    BY <2>1 DEF SeqAt, DataAt
  <2> QED
    BY <1>3, <2>1, <2>2 DEF SeqAt, DataAt
<1>5. /\ pos[t] \in Window
      /\ \A q \in Window : SameCell(pos[t], q) => q = pos[t]
      /\ \A u \in MpmcThreads \ {t} :
           Working(u) => pos[u] \in Window /\ ~SameCell(pos[t], pos[u])
      /\ SeqAt(enqueue_pos) = enqueue_pos => ~SameCell(pos[t], enqueue_pos)
      /\ SeqAt(dequeue_pos) = dequeue_pos + 1 => ~SameCell(pos[t], dequeue_pos)
  BY <1>3, WorkerAlone
<1>6. /\ t \in Enqueuers => pos[t] >= dequeue_pos
      /\ t \in Dequeuers => pos[t] < dequeue_pos
  BY <1>1, <1>3 DEF MpmcInv, WorkersInv
<1>7. EndsInv'
  BY <1>2 DEF MpmcInv, EndsInv
<1>8. TurnsInv'
  <2> SUFFICES ASSUME NEW p \in Window
               PROVE  TurnAt(p)'
    BY <1>2 DEF TurnsInv
  <2>1. p \in Int /\ TurnAt(p)
    BY <1>1 DEF MpmcInv, TurnsInv
  <2>2. CASE p = pos[t]
    <3>1. SeqAt(p)' = next
      BY <1>3, <2>1, <2>2 DEF SameCell
    <3>2. CASE t \in Enqueuers
      BY <1>1, <1>2, <1>6, <2>1, <2>2, <3>1, <3>2 DEF TurnAt
    <3>3. CASE t \in Dequeuers
      <4>1. t \notin Enqueuers /\ p < dequeue_pos
        BY <1>1, <1>6, <2>2, <3>3
      <4>2. ~(p >= dequeue_pos') /\ next = p + BufferSize
        BY <1>1, <1>2, <2>1, <2>2, <4>1
      <4> QED
        BY <3>1, <4>2 DEF TurnAt
    <3> QED
      BY <1>1, <3>2, <3>3
  <2>3. CASE p # pos[t]
    <3>1. SeqAt(p)' = SeqAt(p)
      BY <1>3, <1>5, <2>1, <2>3
    <3>2. \A u \in MpmcThreads : WorksOn(u, p) => WorksOn(u, p)'
      BY <1>2, <1>3, <2>3, WorkersOn
    <3> QED
      BY <1>1, <1>2, <2>1, <3>1, <3>2 DEF TurnAt
  <2> QED
    BY <2>2, <2>3
<1>9. WorkersInv'
  <2>1. \A u \in MpmcThreads : Working(u)' =>
          Working(u) /\ pos'[u] = pos[u] /\ SeqAt(pos[u])' = SeqAt(pos[u])
    BY <1>2, <1>3, <1>4, <1>5
  <2> QED
    BY <1>1, <1>2, <2>1 DEF MpmcInv, WorkersInv
<1>10. ReadersInv'
  <2>1. ASSUME NEW u \in Enqueuers
        PROVE  /\ pos'[u] <= enqueue_pos'
               /\ at'[u] = "claim" => pos'[u] < enqueue_pos' \/ SeqAt(pos[u])' = pos'[u]
    <3>1. pos'[u] <= enqueue_pos'
      BY <1>2 DEF MpmcInv, ReadersInv
    <3>2. ASSUME at'[u] = "claim", ~(pos'[u] < enqueue_pos')
          PROVE  SeqAt(pos[u])' = pos'[u]
      <4>1. u \in MpmcThreads /\ at[u] = "claim" /\ pos[u] = enqueue_pos /\ pos'[u] = pos[u]
        BY <1>1, <1>2, <1>3, <3>1, <3>2
      <4>2. SeqAt(enqueue_pos) = enqueue_pos
        BY <1>1, <4>1 DEF MpmcInv, ReadersInv
      <4> QED
        BY <1>4, <1>5, <4>1, <4>2
    <3> QED
      BY <3>1, <3>2
  <2>2. ASSUME NEW u \in Dequeuers
        PROVE  /\ pos'[u] <= dequeue_pos'
               /\ at'[u] = "claim" => pos'[u] < dequeue_pos' \/ SeqAt(pos[u])' = pos'[u] + 1
    <3>1. pos'[u] <= dequeue_pos'
      BY <1>2 DEF MpmcInv, ReadersInv
    <3>2. ASSUME at'[u] = "claim", ~(pos'[u] < dequeue_pos')
          PROVE  SeqAt(pos[u])' = pos'[u] + 1
      <4>1. u \in MpmcThreads /\ at[u] = "claim" /\ pos[u] = dequeue_pos /\ pos'[u] = pos[u]
        BY <1>1, <1>2, <1>3, <3>1, <3>2
      <4>2. SeqAt(dequeue_pos) = dequeue_pos + 1
        BY <1>1, <4>1 DEF MpmcInv, ReadersInv
      <4> QED
        BY <1>4, <1>5, <4>1, <4>2
    <3> QED
      BY <3>1, <3>2
  <2> QED
    BY <2>1, <2>2 DEF ReadersInv
<1>11. ItemsInv'
  <2> SUFFICES ASSUME NEW u \in Enqueuers
               PROVE  /\ at'[u] # "idle" => datum'[u] \in Data
                      /\ at'[u] = "publish" => DataAt(pos[u])' = datum'[u]
    BY DEF ItemsInv
  <2>1. CASE u = t
    BY <1>1, <1>3, <2>1
  <2>2. CASE u # t
    BY <1>1, <1>2, <1>3, <1>4, <2>2 DEF MpmcInv, ItemsInv
  <2> QED
    BY <2>1, <2>2
<1> QED
  BY <1>7, <1>8, <1>9, <1>10, <1>11 DEF MpmcInv

-------------------------------------------------------------------------------
(* The invariant. *)

LEMMA MpmcInitInv == MpmcInit => MpmcInv
<1> SUFFICES ASSUME MpmcInit PROVE MpmcInv
  OBVIOUS
<1>1. MpmcTypeOK
  BY SizeFacts DEF MpmcInit, MpmcTypeOK, Steps, Bounded!Outcomes
<1>2. /\ enqueue_pos = 0 /\ dequeue_pos = 0 /\ BufferSize \in Nat /\ BufferSize >= 2
      /\ \A t \in MpmcThreads : at[t] = "idle" /\ pos[t] = 0 /\ ~Working(t)
      /\ Enqueuers \subseteq MpmcThreads /\ Dequeuers \subseteq MpmcThreads
  BY SizeFacts DEF MpmcInit, Working, MpmcThreads
<1>3. EndsInv
  BY <1>2 DEF EndsInv
<1>4. TurnsInv
  <2> SUFFICES ASSUME NEW p \in Window
               PROVE  TurnAt(p)
    BY DEF TurnsInv
  <2>1. p \in Int /\ p < 0 /\ p + BufferSize \in 0 .. BufferSize - 1
    BY <1>2 DEF Window
  <2>2. SameCell(p, p + BufferSize)
    BY <2>1, OneRound
  <2>3. (p + BufferSize) % BufferSize = p + BufferSize
    <3> DEFINE q == p + BufferSize
    <3>1. q \in 0 .. BufferSize - 1
      BY <2>1
    <3> HIDE DEF q
    <3>2. q % BufferSize = q
      BY <3>1, SizeFacts
    <3> QED
      BY <3>2 DEF q
  <2>4. SeqAt(p) = p + BufferSize
    BY <2>1, <2>2, <2>3 DEF SeqAt, SameCell, MpmcInit
  <2> QED
    BY <1>2, <2>1, <2>4 DEF TurnAt
<1>5. WorkersInv /\ ReadersInv /\ ItemsInv
  BY <1>2 DEF WorkersInv, ReadersInv, ItemsInv
<1> QED
  BY <1>1, <1>3, <1>4, <1>5 DEF MpmcInv

LEMMA MpmcInvKept == MpmcInv /\ [MpmcNext]_mpmcVars => MpmcInv'
<1> SUFFICES ASSUME MpmcInv, [MpmcNext]_mpmcVars
             PROVE  MpmcInv'
  OBVIOUS
<1>1. CASE UNCHANGED mpmcVars
  BY <1>1 DEF mpmcVars, MpmcInv, MpmcTypeOK, EndsInv, TurnsInv, TurnAt, Window, SeqAt, DataAt,
              WorksOn, WorkersInv, Working, ReadersInv, ItemsInv
<1>2. CASE MpmcNext
  <2>1. /\ MpmcTypeOK'
        /\ Enqueuers \subseteq MpmcThreads /\ Dequeuers \subseteq MpmcThreads
        /\ Enqueuers \cap Dequeuers = {}
        /\ \A t \in MpmcThreads : pos[t] + 1 \in Nat /\ pos[t] + BufferSize \in Nat
    BY <1>2, TypesKept, EndsAreNumbers DEF MpmcInv
  <2>2. ASSUME NEW t \in Enqueuers, enqueue(t)
        PROVE  MpmcInv'
    <3>1. CASE \/ EnqueueCall(t) \/ EnqueueLook(t) \/ EnqueueReload(t)
               \/ EnqueueClaim(t) /\ enqueue_pos' = enqueue_pos
      <4>1. OnlyReads(t)
        BY <1>2, <3>1, EnqueueReads
      <4> QED
        BY <2>1, <4>1, ReadingKeeps
    <3>2. CASE EnqueueClaim(t) /\ enqueue_pos' # enqueue_pos
      BY <2>1, <3>2, EnqueueClaimKeeps
    <3>3. CASE EnqueueMove(t)
      BY <2>1, <3>3, EnqueueMoveKeeps
    <3>4. CASE EnqueuePublish(t)
      <4> DEFINE next == pos[t] + 1
      <4>1. t \in MpmcThreads /\ next \in Nat
        BY <2>1
      <4>2. Publishes(t, next)
        BY <3>4, <4>1, ThreadsPublish
      <4>3. next = IF t \in Enqueuers THEN pos[t] + 1 ELSE pos[t] + BufferSize
        OBVIOUS
      <4> HIDE DEF next
      <4> QED
        BY <2>1, <4>1, <4>2, <4>3, PublishKeeps
    <3> QED
      BY <2>2, <3>1, <3>2, <3>3, <3>4 DEF enqueue
  <2>3. ASSUME NEW t \in Dequeuers, dequeue(t)
        PROVE  MpmcInv'
    <3>1. CASE \/ DequeueCall(t) \/ DequeueLook(t) \/ DequeueReload(t)
               \/ DequeueClaim(t) /\ dequeue_pos' = dequeue_pos
      <4>1. OnlyReads(t)
        BY <1>2, <3>1, DequeueReads
      <4> QED
        BY <2>1, <4>1, ReadingKeeps
    <3>2. CASE DequeueClaim(t) /\ dequeue_pos' # dequeue_pos
      BY <2>1, <3>2, DequeueClaimKeeps
    <3>3. CASE DequeueMove(t)
      BY <2>1, <3>3, DequeueMoveKeeps
    <3>4. CASE DequeuePublish(t)
      <4> DEFINE next == pos[t] + BufferSize
      <4>1. t \in MpmcThreads /\ next \in Nat /\ t \notin Enqueuers
        BY <2>1
      <4>2. Publishes(t, next)
        BY <3>4, <4>1, ThreadsPublish
      <4>3. next = IF t \in Enqueuers THEN pos[t] + 1 ELSE pos[t] + BufferSize
        BY <4>1
      <4> HIDE DEF next
      <4> QED
        BY <2>1, <4>1, <4>2, <4>3, PublishKeeps
    <3> QED
      BY <2>3, <3>1, <3>2, <3>3, <3>4 DEF dequeue
  <2> QED
    BY <1>2, <2>2, <2>3 DEF MpmcNext
<1> QED
  BY <1>1, <1>2

\* mpmc_bounded_q.h: whatever the threads do and wherever they stop, a cell is
\* worked on by one thread at a time, whose turn its sequence_ says it is.
THEOREM CellsAreOwned == MpmcSpec => []MpmcInv
BY MpmcInitInv, MpmcInvKept, PTL DEF MpmcSpec

-------------------------------------------------------------------------------
(* The places in use. *)

LEMMA LeastNumber ==
  ASSUME NEW T, T \subseteq Nat, T # {}
  PROVE  \E x \in T : \A y \in T : x <= y
<1> DEFINE R == {ss \in Nat \X Nat : ss[1] < ss[2]}
<1>1. IsWellFoundedOn(R, Nat)
  BY NatLessThanWellFounded DEF OpToRel
<1>2. \E x \in T : \A y \in T : ~ (<<y, x>> \in R)
  <2> HIDE DEF R
  <2> QED
    BY <1>1, WFMin
<1>3. \A x, y \in Nat : y < x => <<y, x>> \in R
  OBVIOUS
<1>4. \A x, y \in Nat : ~(y < x) => x <= y
  OBVIOUS
<1> QED
  <2> HIDE DEF R
  <2> QED
    BY <1>2, <1>3, <1>4

FirstInUse(p) ==
  /\ p \in 0 .. enqueue_pos
  /\ p = enqueue_pos \/ ~Emptied(p)
  /\ \A q \in 0 .. p - 1 : Emptied(q)

LEMMA OldestIs ==
  (MpmcInv => \A p : FirstInUse(p) => Oldest = p)
<1> SUFFICES ASSUME MpmcInv, NEW p, FirstInUse(p)
             PROVE  Oldest = p
  OBVIOUS
<1>1. enqueue_pos \in Nat
  BY DEF MpmcInv, MpmcTypeOK
<1>2. \A q : FirstInUse(q) => q = p
  BY <1>1 DEF FirstInUse
<1>3. Oldest = CHOOSE q \in 0 .. enqueue_pos : FirstInUse(q)
  BY DEF Oldest, FirstInUse
<1>4. p \in 0 .. enqueue_pos
  BY DEF FirstInUse
<1> QED
  BY <1>2, <1>3, <1>4

LEMMA OldestIsNext ==
  (MpmcInv => \A p : FirstInUse(p) => Oldest = p)'
BY OldestIs, PTL

LEMMA SequenceOf ==
  \A p : /\ Emptied(p) <=> SeqAt(p) >= p + BufferSize
         /\ Filled(p) <=> SeqAt(p) >= p + 1
BY DEF Emptied, Filled, SeqAt

\* The oldest place in use is in the window, and not after one that was not taken.
LEMMA OldestFacts ==
  MpmcInv =>
    /\ Oldest \in 0 .. enqueue_pos
    /\ Oldest = enqueue_pos \/ ~Emptied(Oldest)
    /\ \A q \in 0 .. Oldest - 1 : Emptied(q)
    /\ Oldest >= enqueue_pos - BufferSize /\ Oldest <= dequeue_pos
    /\ Oldest .. enqueue_pos - 1 \subseteq Window
<1> SUFFICES ASSUME MpmcInv
             PROVE  /\ Oldest \in 0 .. enqueue_pos
                    /\ Oldest = enqueue_pos \/ ~Emptied(Oldest)
                    /\ \A q \in 0 .. Oldest - 1 : Emptied(q)
                    /\ Oldest >= enqueue_pos - BufferSize /\ Oldest <= dequeue_pos
                    /\ Oldest .. enqueue_pos - 1 \subseteq Window
  OBVIOUS
<1>1. /\ enqueue_pos \in Nat /\ dequeue_pos \in Nat /\ BufferSize \in Nat /\ BufferSize >= 2
      /\ dequeue_pos <= enqueue_pos /\ enqueue_pos <= dequeue_pos + BufferSize
  BY EndsAreNumbers, SizeFacts DEF MpmcInv, EndsInv
<1>2. PICK p : FirstInUse(p)
  <2> DEFINE T == {q \in 0 .. enqueue_pos : q = enqueue_pos \/ ~Emptied(q)}
  <2>1. T \subseteq Nat /\ T # {}
    <3>1. enqueue_pos \in T
      BY <1>1
    <3> QED
      BY <1>1, <3>1
  <2>2. PICK p \in T : \A y \in T : p <= y
    <3> HIDE DEF T
    <3> QED
      BY <2>1, LeastNumber
  <2>3. p \in 0 .. enqueue_pos /\ (p = enqueue_pos \/ ~Emptied(p))
    OBVIOUS
  <2>4. ASSUME NEW q \in 0 .. p - 1
        PROVE  Emptied(q)
    <3>1. q \in 0 .. enqueue_pos /\ q # enqueue_pos /\ ~(p <= q)
      BY <1>1, <2>3, <2>4
    <3> QED
      BY <2>2, <3>1
  <2> QED
    BY <2>3, <2>4 DEF FirstInUse
<1>3. Oldest = p
  BY <1>2, OldestIs
<1>4. /\ Oldest \in 0 .. enqueue_pos /\ (Oldest = enqueue_pos \/ ~Emptied(Oldest))
      /\ \A q \in 0 .. Oldest - 1 : Emptied(q)
  BY <1>2, <1>3 DEF FirstInUse
<1>5. Oldest >= enqueue_pos - BufferSize
  <2> SUFFICES ASSUME Oldest < enqueue_pos - BufferSize
               PROVE  FALSE
    BY <1>1, <1>4
  <2>1. Emptied(Oldest) /\ Oldest # enqueue_pos
    BY <1>1, <1>4, BeforeWindow, SequenceOf
  <2> QED
    BY <1>4, <2>1
<1>6. Oldest <= dequeue_pos
  <2> SUFFICES ASSUME dequeue_pos < Oldest
               PROVE  FALSE
    BY <1>1, <1>4
  <2>1. dequeue_pos \in Window
    BY <1>1, <1>4 DEF Window
  <2>2. SeqAt(dequeue_pos) \in {dequeue_pos, dequeue_pos + 1}
    BY <1>1, <2>1, TurnCases
  <2>3. Emptied(dequeue_pos)
    BY <1>1, <1>4
  <2> QED
    BY <1>1, <2>2, <2>3, SequenceOf
<1>7. Oldest .. enqueue_pos - 1 \subseteq Window
  BY <1>1, <1>4, <1>5 DEF Window
<1> QED
  BY <1>4, <1>5, <1>6, <1>7

LEMMA OldestFactsNext ==
  (MpmcInv =>
    /\ Oldest \in 0 .. enqueue_pos
    /\ Oldest = enqueue_pos \/ ~Emptied(Oldest)
    /\ \A q \in 0 .. Oldest - 1 : Emptied(q)
    /\ Oldest >= enqueue_pos - BufferSize /\ Oldest <= dequeue_pos
    /\ Oldest .. enqueue_pos - 1 \subseteq Window)'
BY OldestFacts, PTL

\* The four states of a place.
Filling(t, d) == [state |-> "filling", by |-> t, item |-> d]
Ready(d) == [state |-> "ready", by |-> NoThread, item |-> d]
Emptying(t, d) == [state |-> "emptying", by |-> t, item |-> d]
Free == [state |-> "free", by |-> NoThread, item |-> NoData]

IsFilled(p) == p >= dequeue_pos /\ SeqAt(p) = p + 1
IsEmptied(p) == p < dequeue_pos /\ SeqAt(p) = p + BufferSize

LEMMA SlotIs ==
  MpmcInv => \A p \in Window :
    /\ \/ \E t \in Enqueuers : WorksOn(t, p)
       \/ IsFilled(p)
       \/ \E t \in Dequeuers : WorksOn(t, p)
       \/ IsEmptied(p)
    /\ \A t \in Enqueuers : WorksOn(t, p) => Slot(p) = Filling(t, datum[t])
    /\ IsFilled(p) => Slot(p) = Ready(DataAt(p))
    /\ \A t \in Dequeuers : WorksOn(t, p) => Slot(p) = Emptying(t, DataAt(p))
    /\ IsEmptied(p) => Slot(p) = Free
<1> SUFFICES ASSUME MpmcInv, NEW p \in Window
             PROVE  /\ \/ \E t \in Enqueuers : WorksOn(t, p)
                       \/ IsFilled(p)
                       \/ \E t \in Dequeuers : WorksOn(t, p)
                       \/ IsEmptied(p)
                    /\ \A t \in Enqueuers : WorksOn(t, p) => Slot(p) = Filling(t, datum[t])
                    /\ IsFilled(p) => Slot(p) = Ready(DataAt(p))
                    /\ \A t \in Dequeuers : WorksOn(t, p) => Slot(p) = Emptying(t, DataAt(p))
                    /\ IsEmptied(p) => Slot(p) = Free
  OBVIOUS
<1>1. /\ p \in Int /\ dequeue_pos \in Nat /\ enqueue_pos \in Nat
      /\ BufferSize \in Nat /\ BufferSize >= 2 /\ TurnAt(p)
  BY EndsAreNumbers, SizeFacts DEF MpmcInv, TurnsInv
<1>2. \/ \E t \in Enqueuers : WorksOn(t, p)
      \/ IsFilled(p)
      \/ \E t \in Dequeuers : WorksOn(t, p)
      \/ IsEmptied(p)
  BY <1>1 DEF TurnAt, IsFilled, IsEmptied
<1>3. ASSUME NEW t \in Enqueuers, WorksOn(t, p)
      PROVE  Slot(p) = Filling(t, datum[t])
  <2>1. SeqAt(p) = p
    BY <1>3 DEF MpmcInv, WorkersInv, WorksOn, Working
  <2>2. ~Emptied(p) /\ ~Filled(p)
    BY <1>1, <2>1, SequenceOf
  <2>3. \A u \in Enqueuers : WorksOn(u, p) => u = t
    BY <1>3 DEF MpmcInv, WorkersInv, WorksOn, Working
  <2>4. Worker(Enqueuers, p) = t
    BY <1>3, <2>3 DEF Worker
  <2> QED
    BY <2>2, <2>4 DEF Slot, Filling
<1>4. ASSUME IsFilled(p)
      PROVE  Slot(p) = Ready(DataAt(p))
  <2>1. ~Emptied(p) /\ Filled(p) /\ ~(p < dequeue_pos)
    BY <1>1, <1>4, SequenceOf DEF IsFilled
  <2> QED
    BY <2>1 DEF Slot, Ready, DataAt
<1>5. ASSUME NEW t \in Dequeuers, WorksOn(t, p)
      PROVE  Slot(p) = Emptying(t, DataAt(p))
  <2>1. SeqAt(p) = p + 1 /\ p < dequeue_pos
    BY <1>5 DEF MpmcInv, WorkersInv, WorksOn, Working
  <2>2. ~Emptied(p) /\ Filled(p)
    BY <1>1, <2>1, SequenceOf
  <2>3. \A u \in Dequeuers : WorksOn(u, p) => u = t
    BY <1>5 DEF MpmcInv, WorkersInv, WorksOn, Working
  <2>4. Worker(Dequeuers, p) = t
    BY <1>5, <2>3 DEF Worker
  <2> QED
    BY <2>1, <2>2, <2>4 DEF Slot, Emptying, DataAt
<1>6. ASSUME IsEmptied(p)
      PROVE  Slot(p) = Free
  <2>1. Emptied(p) /\ Filled(p)
    BY <1>1, <1>6, SequenceOf DEF IsEmptied
  <2> QED
    BY <2>1 DEF Slot, Free
<1> QED
  BY <1>2, <1>3, <1>4, <1>5, <1>6

LEMMA SlotIsNext ==
  (MpmcInv => \A p \in Window :
    /\ \/ \E t \in Enqueuers : WorksOn(t, p)
       \/ IsFilled(p)
       \/ \E t \in Dequeuers : WorksOn(t, p)
       \/ IsEmptied(p)
    /\ \A t \in Enqueuers : WorksOn(t, p) => Slot(p) = Filling(t, datum[t])
    /\ IsFilled(p) => Slot(p) = Ready(DataAt(p))
    /\ \A t \in Dequeuers : WorksOn(t, p) => Slot(p) = Emptying(t, DataAt(p))
    /\ IsEmptied(p) => Slot(p) = Free)'
BY SlotIs, PTL

\* A place nothing was done to is as it was.
LEMMA SlotKept ==
  ASSUME MpmcInv, MpmcInv', NEW p \in Window, p \in Window',
         SeqAt(p)' = SeqAt(p), p >= dequeue_pos' <=> p >= dequeue_pos,
         \A t \in MpmcThreads : WorksOn(t, p) => WorksOn(t, p)',
         \A t \in Enqueuers : WorksOn(t, p) => datum'[t] = datum[t],
         (\E t \in Enqueuers : WorksOn(t, p)) \/ DataAt(p)' = DataAt(p)
  PROVE  Slot(p)' = Slot(p)
<1>1. /\ p \in Int /\ dequeue_pos \in Nat /\ dequeue_pos' \in Nat
      /\ Enqueuers \subseteq MpmcThreads /\ Dequeuers \subseteq MpmcThreads
  BY EndsAreNumbers DEF MpmcInv, MpmcTypeOK
<1>2. /\ \/ \E t \in Enqueuers : WorksOn(t, p)
         \/ IsFilled(p)
         \/ \E t \in Dequeuers : WorksOn(t, p)
         \/ IsEmptied(p)
      /\ \A t \in Enqueuers : WorksOn(t, p) => Slot(p) = Filling(t, datum[t])
      /\ IsFilled(p) => Slot(p) = Ready(DataAt(p))
      /\ \A t \in Dequeuers : WorksOn(t, p) => Slot(p) = Emptying(t, DataAt(p))
      /\ IsEmptied(p) => Slot(p) = Free
  BY SlotIs
<1>3. /\ \A t \in Enqueuers : WorksOn(t, p)' => Slot(p)' = Filling(t, datum'[t])
      /\ IsFilled(p)' => Slot(p)' = Ready(DataAt(p)')
      /\ \A t \in Dequeuers : WorksOn(t, p)' => Slot(p)' = Emptying(t, DataAt(p)')
      /\ IsEmptied(p)' => Slot(p)' = Free
  BY SlotIsNext DEF Filling, Ready, Emptying, Free
<1>4. CASE \E t \in Enqueuers : WorksOn(t, p)
  BY <1>1, <1>2, <1>3, <1>4
<1>5. CASE (~\E t \in Enqueuers : WorksOn(t, p)) /\ IsFilled(p)
  <2>1. IsFilled(p)'
    BY <1>5 DEF IsFilled
  <2> QED
    BY <1>2, <1>3, <1>5, <2>1
<1>6. CASE (~\E t \in Enqueuers : WorksOn(t, p)) /\ \E t \in Dequeuers : WorksOn(t, p)
  BY <1>1, <1>2, <1>3, <1>6
<1>7. CASE (~\E t \in Enqueuers : WorksOn(t, p)) /\ IsEmptied(p)
  <2>1. IsEmptied(p)'
    BY <1>1, <1>7 DEF IsEmptied
  <2> QED
    BY <1>2, <1>3, <1>7, <2>1
<1> QED
  BY <1>2, <1>4, <1>5, <1>6, <1>7

LEMMA UpTo ==
  \A a, b, p \in Nat : p <= a /\ a <= b =>
    /\ p \in 0 .. b /\ (p = b \/ p \in 0 .. b - 1)
    /\ \A q \in 0 .. p - 1 : q \in 0 .. b - 1 /\ q < a
OBVIOUS

LEMMA OldestKept ==
  ASSUME MpmcInv, MpmcInv', enqueue_pos' \in {enqueue_pos, enqueue_pos + 1},
         \A p \in 0 .. enqueue_pos' - 1 : Emptied(p)' <=> p < enqueue_pos /\ Emptied(p)
  PROVE  Oldest' = Oldest
<1>1. PICK p : p = Oldest
  OBVIOUS
<1>2. /\ enqueue_pos \in Nat /\ p \in 0 .. enqueue_pos
      /\ p = enqueue_pos \/ ~Emptied(p)
      /\ \A q \in 0 .. p - 1 : Emptied(q)
  BY <1>1, OldestFacts, EndsAreNumbers DEF MpmcInv
<1>3. /\ p \in 0 .. enqueue_pos' /\ (p = enqueue_pos' \/ p \in 0 .. enqueue_pos' - 1)
      /\ \A q \in 0 .. p - 1 : q \in 0 .. enqueue_pos' - 1 /\ q < enqueue_pos
  <2>1. enqueue_pos' = enqueue_pos \/ enqueue_pos' = enqueue_pos + 1
    OBVIOUS
  <2>2. /\ enqueue_pos' \in Nat /\ enqueue_pos <= enqueue_pos' /\ p \in Nat /\ p <= enqueue_pos
        /\ enqueue_pos \in Nat
    BY <1>2, <2>1
  <2> QED
    BY <2>2, UpTo
<1>4. p \in 0 .. enqueue_pos' - 1 => ~(Emptied(p)')
  <2> SUFFICES ASSUME p \in 0 .. enqueue_pos' - 1, Emptied(p)'
               PROVE  FALSE
    OBVIOUS
  <2>1. p < enqueue_pos /\ Emptied(p)
    OBVIOUS
  <2> QED
    BY <1>2, <2>1
<1>5. \A q \in 0 .. p - 1 : Emptied(q)'
  <2> SUFFICES ASSUME NEW q \in 0 .. p - 1
               PROVE  Emptied(q)'
    OBVIOUS
  <2>1. q \in 0 .. enqueue_pos' - 1 /\ q < enqueue_pos /\ Emptied(q)
    BY <1>2, <1>3
  <2> QED
    BY <2>1
<1>6. FirstInUse(p)'
  BY <1>3, <1>4, <1>5 DEF FirstInUse
<1> QED
  BY <1>1, <1>6, OldestIsNext

LEMMA SlotsAre ==
  MpmcInv =>
    /\ enqueue_pos - Oldest \in Nat /\ enqueue_pos - Oldest <= BufferSize
    /\ SlotsInUse = [i \in 1 .. enqueue_pos - Oldest |-> SlotsInUse[i]]
    /\ DOMAIN SlotsInUse = 1 .. enqueue_pos - Oldest
    /\ Len(SlotsInUse) = enqueue_pos - Oldest
    /\ \A i, p : i \in 1 .. enqueue_pos - Oldest /\ p = Oldest + i - 1 =>
         SlotsInUse[i] = Slot(p) /\ p \in Oldest .. enqueue_pos - 1
<1> SUFFICES ASSUME MpmcInv
             PROVE  /\ enqueue_pos - Oldest \in Nat /\ enqueue_pos - Oldest <= BufferSize
                    /\ SlotsInUse = [i \in 1 .. enqueue_pos - Oldest |-> SlotsInUse[i]]
                    /\ DOMAIN SlotsInUse = 1 .. enqueue_pos - Oldest
                    /\ Len(SlotsInUse) = enqueue_pos - Oldest
                    /\ \A i, p : i \in 1 .. enqueue_pos - Oldest /\ p = Oldest + i - 1 =>
                         SlotsInUse[i] = Slot(p) /\ p \in Oldest .. enqueue_pos - 1
  OBVIOUS
<1>1. /\ enqueue_pos \in Nat /\ Oldest \in 0 .. enqueue_pos
      /\ Oldest >= enqueue_pos - BufferSize /\ BufferSize \in Nat
  BY OldestFacts, EndsAreNumbers DEF MpmcInv
<1> DEFINE n == enqueue_pos - Oldest
<1>2. n \in Nat /\ n <= BufferSize
  BY <1>1
<1>3. SlotsInUse = [i \in 1 .. n |-> Slot(Oldest + i - 1)]
  BY DEF SlotsInUse
<1>4. Len(SlotsInUse) = n /\ DOMAIN SlotsInUse = 1 .. n
  <2> HIDE DEF n
  <2> QED
    BY <1>2, <1>3
<1>5. \A i \in 1 .. n : Oldest + i - 1 \in Oldest .. enqueue_pos - 1
  BY <1>1
<1> QED
  BY <1>2, <1>3, <1>4, <1>5

LEMMA SlotsAreNext ==
  (MpmcInv =>
    /\ enqueue_pos - Oldest \in Nat /\ enqueue_pos - Oldest <= BufferSize
    /\ SlotsInUse = [i \in 1 .. enqueue_pos - Oldest |-> SlotsInUse[i]]
    /\ DOMAIN SlotsInUse = 1 .. enqueue_pos - Oldest
    /\ Len(SlotsInUse) = enqueue_pos - Oldest
    /\ \A i, p : i \in 1 .. enqueue_pos - Oldest /\ p = Oldest + i - 1 =>
         SlotsInUse[i] = Slot(p) /\ p \in Oldest .. enqueue_pos - 1)'
BY SlotsAre, PTL

LEMMA SlotsKept ==
  ASSUME MpmcInv, MpmcInv', Oldest' = Oldest, enqueue_pos' = enqueue_pos,
         \A p \in Oldest .. enqueue_pos - 1 : Slot(p)' = Slot(p)
  PROVE  SlotsInUse' = SlotsInUse
<1>1. \A i \in 1 .. enqueue_pos - Oldest : SlotsInUse'[i] = SlotsInUse[i]
  BY SlotsAre, SlotsAreNext
<1> QED
  BY <1>1, SlotsAre, SlotsAreNext

LEMMA TakenIs ==
  /\ \A t \in Enqueuers : TakenBy(t) = NoData
  /\ \A t \in Dequeuers : TakenBy(t) = IF at[t] = "move" THEN DataAt(pos[t]) ELSE datum[t]
BY MpmcAssumption DEF TakenBy, Cell, DataAt

LEMMA TakenIsNext ==
  (/\ \A t \in Enqueuers : TakenBy(t) = NoData
   /\ \A t \in Dequeuers : TakenBy(t) = IF at[t] = "move" THEN DataAt(pos[t]) ELSE datum[t])'
BY TakenIs, PTL

Taken == [t \in MpmcThreads |-> TakenBy(t)]

LEMMA TakenKept ==
  ASSUME NEW t,
         \A u \in Dequeuers \ {t} :
           /\ at'[u] = at[u] /\ datum'[u] = datum[u]
           /\ at[u] = "move" => DataAt(pos[u])' = DataAt(pos[u]),
         t \in Dequeuers => TakenBy(t)' = TakenBy(t)
  PROVE  Taken' = Taken
<1>1. \A u \in Enqueuers : TakenBy(u)' = TakenBy(u)
  BY TakenIs, TakenIsNext
<1>2. \A u \in Dequeuers \ {t} : TakenBy(u)' = TakenBy(u)
  BY TakenIs, TakenIsNext
<1>3. \A u \in MpmcThreads : TakenBy(u)' = TakenBy(u)
  BY <1>1, <1>2 DEF MpmcThreads
<1> QED
  BY <1>3 DEF Taken

LEMMA StateOf ==
  ASSUME MpmcInv, NEW p \in Window
  PROVE  /\ p >= dequeue_pos => Slot(p).state \in {"filling", "ready"}
         /\ p < dequeue_pos => Slot(p).state \in {"emptying", "free"}
         /\ Slot(p).state = "ready" => IsFilled(p)
         /\ Slot(p).state = "free" <=> Emptied(p)
<1>1. /\ p \in Int /\ dequeue_pos \in Nat /\ enqueue_pos \in Nat
      /\ BufferSize \in Nat /\ BufferSize >= 2
  BY EndsAreNumbers, SizeFacts DEF MpmcInv
<1>2. /\ \A t \in Enqueuers : WorksOn(t, p) => Slot(p) = Filling(t, datum[t])
      /\ IsFilled(p) => Slot(p) = Ready(DataAt(p))
      /\ \A t \in Dequeuers : WorksOn(t, p) => Slot(p) = Emptying(t, DataAt(p))
      /\ IsEmptied(p) => Slot(p) = Free
  BY SlotIs
<1>3. CASE \E t \in Enqueuers : WorksOn(t, p)
  <2>1. p >= dequeue_pos /\ SeqAt(p) = p
    BY <1>1, <1>3 DEF MpmcInv, WorkersInv, WorksOn, Working
  <2> QED
    BY <1>1, <1>2, <1>3, <2>1, SequenceOf DEF Filling
<1>4. CASE IsFilled(p)
  BY <1>1, <1>2, <1>4, SequenceOf DEF Ready, IsFilled
<1>5. CASE \E t \in Dequeuers : WorksOn(t, p)
  <2>1. p < dequeue_pos /\ SeqAt(p) = p + 1
    BY <1>1, <1>5 DEF MpmcInv, WorkersInv, WorksOn, Working
  <2> QED
    BY <1>1, <1>2, <1>5, <2>1, SequenceOf DEF Emptying
<1>6. CASE IsEmptied(p)
  BY <1>1, <1>2, <1>6, SequenceOf DEF Free, IsEmptied
<1> QED
  BY <1>3, <1>4, <1>5, <1>6, SlotIs

\* A sequence_ is never behind a position that was handed out.
LEMMA NotBehind ==
  ASSUME MpmcInv, NEW p \in Int
  PROVE  /\ p < enqueue_pos => SeqAt(p) >= p
         /\ p < dequeue_pos => SeqAt(p) >= p + 1
<1>1. /\ dequeue_pos \in Nat /\ enqueue_pos \in Nat /\ dequeue_pos <= enqueue_pos
      /\ BufferSize \in Nat /\ BufferSize >= 2 /\ SeqAt(p) \in Nat
  BY EndsAreNumbers, SizeFacts, CellTypes DEF MpmcInv, EndsInv
<1>2. CASE p < enqueue_pos - BufferSize
  BY <1>1, <1>2, BeforeWindow
<1>3. CASE p >= enqueue_pos - BufferSize /\ p < enqueue_pos
  <2>1. p \in Window
    BY <1>1, <1>3 DEF Window
  <2> QED
    BY <1>1, <2>1, TurnCases
<1> QED
  BY <1>1, <1>2, <1>3

-------------------------------------------------------------------------------
(* Each step of the code is a step of BoundedQueue or none. *)

LEMMA ReadingStutters ==
  ASSUME MpmcInv, MpmcInv', NEW t \in MpmcThreads, OnlyReads(t),
         t \in Dequeuers => datum'[t] = datum[t]
  PROVE  SlotsInUse' = SlotsInUse /\ Taken' = Taken
<1>1. /\ enqueue_pos' = enqueue_pos /\ dequeue_pos' = dequeue_pos /\ enqueue_pos \in Nat
      /\ \A p : SeqAt(p)' = SeqAt(p) /\ DataAt(p)' = DataAt(p) /\ (Emptied(p)' <=> Emptied(p))
      /\ Window' = Window /\ Oldest .. enqueue_pos - 1 \subseteq Window
      /\ Enqueuers \subseteq MpmcThreads /\ Dequeuers \subseteq MpmcThreads
  BY OldestFacts, EndsAreNumbers DEF OnlyReads, SeqAt, DataAt, Window, Emptied, MpmcInv
<1>2. \A u \in MpmcThreads : Working(u) =>
        at'[u] = at[u] /\ pos'[u] = pos[u] /\ datum'[u] = datum[u]
  BY DEF OnlyReads
<1>3. ASSUME NEW p \in Window
      PROVE  Slot(p)' = Slot(p)
  <2>1. p \in Window' /\ (p >= dequeue_pos' <=> p >= dequeue_pos)
    BY <1>1
  <2>2. /\ \A u \in MpmcThreads : WorksOn(u, p) => WorksOn(u, p)'
        /\ \A u \in Enqueuers : WorksOn(u, p) => datum'[u] = datum[u]
    BY <1>1, <1>2 DEF WorksOn, Working
  <2>3. SeqAt(p)' = SeqAt(p) /\ DataAt(p)' = DataAt(p)
    BY <1>1
  <2> QED
    BY <2>1, <2>2, <2>3, SlotKept
<1>4. Oldest' = Oldest
  BY <1>1, OldestKept
<1>5. SlotsInUse' = SlotsInUse
  BY <1>1, <1>3, <1>4, SlotsKept
<1>6. \A u \in Dequeuers \ {t} :
        /\ at'[u] = at[u] /\ datum'[u] = datum[u] /\ pos'[u] = pos[u]
        /\ at[u] = "move" => DataAt(pos[u])' = DataAt(pos[u])
  BY <1>1 DEF OnlyReads, DataAt
<1>7. t \in Dequeuers => TakenBy(t)' = TakenBy(t)
  <2> SUFFICES ASSUME t \in Dequeuers
               PROVE  TakenBy(t)' = TakenBy(t)
    OBVIOUS
  <2>1. at[t] # "move" /\ at'[t] # "move" /\ datum'[t] = datum[t]
    BY DEF OnlyReads, Working
  <2> QED
    BY <2>1, TakenIs, TakenIsNext
<1>8. Taken' = Taken
  BY <1>6, <1>7, TakenKept
<1> QED
  BY <1>5, <1>8

\* enqueue() returns false: the cell of enqueue_pos is not free yet.
LEMMA RefusesWhenFull ==
  ASSUME MpmcInv, NEW t \in Enqueuers, SeqAt(pos[t]) < pos[t]
  PROVE  Len(SlotsInUse) = BufferSize
<1>1. /\ enqueue_pos \in Nat /\ dequeue_pos \in Nat /\ BufferSize \in Nat /\ BufferSize >= 2
      /\ pos[t] \in Nat /\ pos[t] <= enqueue_pos
      /\ \A u \in Dequeuers : pos[u] \in Nat
  BY EndsAreNumbers, SizeFacts DEF MpmcInv, ReadersInv
<1> DEFINE w == enqueue_pos - BufferSize
<1>2. pos[t] = enqueue_pos
  <2>1. SeqAt(pos[t]) \in Nat
    BY <1>1, CellTypes DEF MpmcInv
  <2> QED
    BY <1>1, <2>1, NotBehind
<1>3. w \in Window /\ SeqAt(w) < w + BufferSize /\ w \in Int
  BY <1>1, <1>2, NextCell
<1>4. w >= 0
  <2> SUFFICES ASSUME w < 0
               PROVE  FALSE
    BY <1>3
  <2>1. TurnAt(w) /\ ~(w >= dequeue_pos)
    BY <1>1, <1>3 DEF MpmcInv, TurnsInv
  <2>2. PICK u \in Dequeuers : WorksOn(u, w)
    BY <1>1, <1>3, <2>1 DEF TurnAt
  <2> QED
    BY <1>1, <2>2 DEF WorksOn
<1>5. ~Emptied(w)
  <2>1. SeqAt(w) \in Nat
    BY <1>3, CellTypes DEF MpmcInv
  <2> QED
    BY <1>1, <1>3, <2>1, SequenceOf
<1>6. Oldest = w
  <2>1. /\ Oldest \in 0 .. enqueue_pos /\ Oldest >= w
        /\ \A q \in 0 .. Oldest - 1 : Emptied(q)
    BY OldestFacts
  <2>2. Oldest > w => w \in 0 .. Oldest - 1
    BY <1>1, <1>3, <1>4, <2>1
  <2> HIDE DEF w
  <2> QED
    BY <1>1, <1>3, <1>5, <2>1, <2>2
<1> QED
  BY <1>1, <1>6, SlotsAre

\* dequeue() returns false: the item in front is not there yet.
LEMMA FindsNothing ==
  ASSUME MpmcInv, NEW t \in Dequeuers, SeqAt(pos[t]) < pos[t] + 1
  PROVE  ~\E i \in DOMAIN SlotsInUse : Bounded!AtFront(i) /\ SlotsInUse[i].state = "ready"
<1>1. /\ enqueue_pos \in Nat /\ dequeue_pos \in Nat /\ BufferSize \in Nat /\ BufferSize >= 2
      /\ pos[t] \in Nat /\ pos[t] <= dequeue_pos
      /\ Oldest \in Nat /\ Oldest <= dequeue_pos
      /\ Oldest .. enqueue_pos - 1 \subseteq Window
  BY EndsAreNumbers, SizeFacts, OldestFacts DEF MpmcInv, ReadersInv
<1>2. pos[t] = dequeue_pos
  <2>1. SeqAt(pos[t]) \in Nat
    BY <1>1, CellTypes DEF MpmcInv
  <2> QED
    BY <1>1, <2>1, NotBehind
<1> SUFFICES ASSUME NEW i \in DOMAIN SlotsInUse,
                    Bounded!AtFront(i), SlotsInUse[i].state = "ready"
             PROVE  FALSE
  OBVIOUS
<1> DEFINE p == Oldest + i - 1  j == dequeue_pos - Oldest + 1
<1>3. /\ i \in 1 .. enqueue_pos - Oldest /\ SlotsInUse[i] = Slot(p)
      /\ p \in Oldest .. enqueue_pos - 1
  BY SlotsAre
<1>4. IsFilled(p) /\ p \in Int
  <2> HIDE DEF p
  <2> QED
    BY <1>1, <1>3, StateOf
<1>5. p > dequeue_pos
  <2> HIDE DEF p
  <2> QED
    BY <1>1, <1>2, <1>4 DEF IsFilled
<1>6. j \in 1 .. i - 1 /\ j \in 1 .. enqueue_pos - Oldest /\ dequeue_pos = Oldest + j - 1
  BY <1>1, <1>3, <1>5
<1>7. SlotsInUse[j] = Slot(dequeue_pos) /\ dequeue_pos \in Oldest .. enqueue_pos - 1
  <2> HIDE DEF j
  <2> QED
    BY <1>6, SlotsAre
<1>8. Slot(dequeue_pos).state \in {"filling", "ready"}
  BY <1>1, <1>7, StateOf
<1>9. SlotsInUse[j].state \in {"emptying", "free"}
  <2> HIDE DEF j
  <2> QED
    BY <1>6 DEF Bounded!AtFront
<1> QED
  BY <1>7, <1>8, <1>9

LEMMA EnqueueMoveStutters ==
  ASSUME MpmcInv, MpmcInv', NEW t \in Enqueuers, EnqueueMove(t)
  PROVE  SlotsInUse' = SlotsInUse /\ Taken' = Taken
<1>1. /\ enqueue_pos' = enqueue_pos /\ dequeue_pos' = dequeue_pos /\ pos' = pos /\ datum' = datum
      /\ at[t] = "move" /\ at' = [at EXCEPT ![t] = "publish"]
      /\ Window' = Window /\ Window \subseteq Int /\ enqueue_pos \in Nat
      /\ Oldest .. enqueue_pos - 1 \subseteq Window
      /\ Enqueuers \subseteq MpmcThreads /\ Dequeuers \subseteq MpmcThreads
      /\ t \notin Dequeuers /\ t \in MpmcThreads
  BY OldestFacts, EndsAreNumbers DEF EnqueueMove, Goto, Window, MpmcInv
<1>2. \A u \in MpmcThreads : at'[u] = IF u = t THEN "publish" ELSE at[u]
  BY <1>1 DEF MpmcInv, MpmcTypeOK
<1>3. \A p \in Int : /\ SeqAt(p)' = SeqAt(p)
                     /\ ~SameCell(pos[t], p) => DataAt(p)' = DataAt(p)
  <2>1. MpmcTypeOK'
    BY DEF MpmcInv
  <2> QED
    BY <2>1, EnqueueMoveKeeps
<1>4. Working(t)
  BY <1>1 DEF Working
<1>5. /\ \A q \in Window : SameCell(pos[t], q) => q = pos[t]
      /\ \A u \in MpmcThreads \ {t} :
           Working(u) => pos[u] \in Window /\ ~SameCell(pos[t], pos[u])
  BY <1>1, <1>4, WorkerAlone
<1>6. ASSUME NEW p \in Window
      PROVE  Slot(p)' = Slot(p)
  <2>1. p \in Window' /\ (p >= dequeue_pos' <=> p >= dequeue_pos) /\ SeqAt(p)' = SeqAt(p)
    BY <1>1, <1>3
  <2>2. /\ \A u \in MpmcThreads : WorksOn(u, p) => WorksOn(u, p)'
        /\ \A u \in Enqueuers : WorksOn(u, p) => datum'[u] = datum[u]
    BY <1>1, <1>2 DEF WorksOn
  <2>3. (\E u \in Enqueuers : WorksOn(u, p)) \/ DataAt(p)' = DataAt(p)
    <3>1. CASE p = pos[t]
      BY <1>1, <3>1 DEF WorksOn
    <3>2. CASE p # pos[t]
      BY <1>1, <1>3, <1>5, <3>2
    <3> QED
      BY <3>1, <3>2
  <2> QED
    BY <2>1, <2>2, <2>3, SlotKept
<1>7. Oldest' = Oldest
  <2>1. \A p \in 0 .. enqueue_pos' - 1 : Emptied(p)' <=> p < enqueue_pos /\ Emptied(p)
    BY <1>1, <1>3 DEF Emptied, SeqAt
  <2> QED
    BY <1>1, <2>1, OldestKept
<1>8. SlotsInUse' = SlotsInUse
  BY <1>1, <1>6, <1>7, SlotsKept
<1>9. ASSUME NEW u \in Dequeuers \ {t}
      PROVE  /\ at'[u] = at[u] /\ datum'[u] = datum[u]
             /\ at[u] = "move" => DataAt(pos[u])' = DataAt(pos[u])
  <2>1. at'[u] = at[u] /\ datum'[u] = datum[u]
    BY <1>1, <1>2
  <2>2. ASSUME at[u] = "move"
        PROVE  DataAt(pos[u])' = DataAt(pos[u])
    <3>1. PICK q : q = pos[u]
      OBVIOUS
    <3>2. q \in Int /\ ~SameCell(pos[t], q)
      BY <1>1, <1>5, <2>2, <3>1 DEF Working
    <3>3. DataAt(q)' = DataAt(q)
      BY <1>3, <3>2
    <3> QED
      BY <1>1, <3>1, <3>3 DEF DataAt
  <2> QED
    BY <2>1, <2>2
<1>10. Taken' = Taken
  BY <1>1, <1>9, TakenKept
<1> QED
  BY <1>8, <1>10

LEMMA DequeueMoveStutters ==
  ASSUME MpmcInv, MpmcInv', NEW t \in Dequeuers, DequeueMove(t)
  PROVE  SlotsInUse' = SlotsInUse /\ Taken' = Taken
<1>1. /\ enqueue_pos' = enqueue_pos /\ dequeue_pos' = dequeue_pos /\ pos' = pos
      /\ buffer' = buffer
      /\ at[t] = "move" /\ at' = [at EXCEPT ![t] = "publish"]
      /\ Window' = Window /\ enqueue_pos \in Nat
      /\ Oldest .. enqueue_pos - 1 \subseteq Window
      /\ Enqueuers \subseteq MpmcThreads /\ Dequeuers \subseteq MpmcThreads
      /\ t \notin Enqueuers /\ t \in MpmcThreads
  BY OldestFacts, EndsAreNumbers DEF DequeueMove, Goto, Window, MpmcInv
<1>2. \A u \in MpmcThreads : /\ at'[u] = IF u = t THEN "publish" ELSE at[u]
                             /\ datum'[u] = IF u = t THEN DataAt(pos[t]) ELSE datum[u]
  BY <1>1 DEF MpmcInv, MpmcTypeOK, DequeueMove, DataAt, Cell
<1>3. \A p : SeqAt(p)' = SeqAt(p) /\ DataAt(p)' = DataAt(p) /\ (Emptied(p)' <=> Emptied(p))
  BY <1>1 DEF SeqAt, DataAt, Emptied
<1>4. ASSUME NEW p \in Window
      PROVE  Slot(p)' = Slot(p)
  <2>1. p \in Window' /\ (p >= dequeue_pos' <=> p >= dequeue_pos)
    BY <1>1
  <2>2. /\ \A u \in MpmcThreads : WorksOn(u, p) => WorksOn(u, p)'
        /\ \A u \in Enqueuers : WorksOn(u, p) => datum'[u] = datum[u]
    BY <1>1, <1>2 DEF WorksOn
  <2>3. SeqAt(p)' = SeqAt(p) /\ DataAt(p)' = DataAt(p)
    BY <1>3
  <2> QED
    BY <2>1, <2>2, <2>3, SlotKept
<1>5. Oldest' = Oldest
  BY <1>1, <1>3, OldestKept
<1>6. SlotsInUse' = SlotsInUse
  BY <1>1, <1>4, <1>5, SlotsKept
<1>7. \A u \in Dequeuers \ {t} :
        /\ at'[u] = at[u] /\ datum'[u] = datum[u]
        /\ at[u] = "move" => DataAt(pos[u])' = DataAt(pos[u])
  BY <1>1, <1>2 DEF DataAt
<1>8. TakenBy(t)' = TakenBy(t)
  BY <1>1, <1>2, TakenIs, TakenIsNext
<1>9. Taken' = Taken
  BY <1>7, <1>8, TakenKept
<1> QED
  BY <1>6, <1>9

LEMMA AppendIs ==
  ASSUME NEW n \in Nat, NEW s, NEW r, NEW x,
         s = [i \in 1 .. n |-> s[i]], r = [i \in 1 .. n + 1 |-> r[i]],
         \A i \in 1 .. n : r[i] = s[i], r[n + 1] = x
  PROVE  r = Append(s, x)
<1> DEFINE S == {s[i] : i \in 1 .. n} \cup {x}
<1>1. s \in Seq(S) /\ Len(s) = n /\ x \in S
  OBVIOUS
<1>2. r \in Seq(S) /\ Len(r) = n + 1
  <2>1. \A i \in 1 .. n + 1 : r[i] \in S
    <3> SUFFICES ASSUME NEW i \in 1 .. n + 1
                 PROVE  r[i] \in S
      OBVIOUS
    <3>1. i \in 1 .. n \/ i = n + 1
      OBVIOUS
    <3> QED
      BY <3>1
  <2> HIDE DEF S
  <2> QED
    BY <2>1
<1>3. /\ Append(s, x) \in Seq(S) /\ Len(Append(s, x)) = n + 1
      /\ \A i \in 1 .. n : Append(s, x)[i] = s[i]
      /\ Append(s, x)[n + 1] = x
  <2> HIDE DEF S
  <2> QED
    BY <1>1, AppendProperties
<1>4. \A i \in 1 .. n + 1 : r[i] = Append(s, x)[i]
  <2>1. \A i \in 1 .. n + 1 : i \in 1 .. n \/ i = n + 1
    OBVIOUS
  <2> QED
    BY <1>3, <2>1
<1> HIDE DEF S
<1> QED
  BY <1>2, <1>3, <1>4, SeqEqual

LEMMA OneChanged ==
  ASSUME NEW n, NEW s, NEW r, NEW k \in 1 .. n, NEW x,
         s = [i \in 1 .. n |-> s[i]], r = [i \in 1 .. n |-> r[i]],
         \A i \in 1 .. n : r[i] = IF i = k THEN x ELSE s[i]
  PROVE  r = [s EXCEPT ![k] = x]
OBVIOUS

LEMMA ClaimReserves ==
  ASSUME MpmcInv, MpmcInv', NEW t \in Enqueuers, EnqueueClaim(t), enqueue_pos' # enqueue_pos
  PROVE  /\ Len(SlotsInUse) # BufferSize
         /\ SlotsInUse' = Append(SlotsInUse, Filling(t, datum[t]))
         /\ Taken' = Taken /\ datum[t] \in Data
<1>1. /\ enqueue_pos' = enqueue_pos + 1 /\ pos[t] = enqueue_pos
      /\ SeqAt(enqueue_pos) = enqueue_pos
      /\ at[t] = "claim" /\ at' = [at EXCEPT ![t] = "move"]
      /\ UNCHANGED <<buffer, dequeue_pos, pos, datum, returned>>
  BY EnqueueClaims
<1>2. /\ enqueue_pos \in Nat /\ dequeue_pos \in Nat /\ BufferSize \in Nat /\ BufferSize >= 2
      /\ Oldest \in 0 .. enqueue_pos /\ Oldest >= enqueue_pos - BufferSize
      /\ (Oldest = enqueue_pos \/ ~Emptied(Oldest))
      /\ Oldest .. enqueue_pos - 1 \subseteq Window
      /\ Enqueuers \subseteq MpmcThreads /\ Dequeuers \subseteq MpmcThreads
      /\ t \notin Dequeuers /\ t \in MpmcThreads
  BY OldestFacts, EndsAreNumbers, SizeFacts DEF MpmcInv
<1>3. /\ \A u \in MpmcThreads : at'[u] = IF u = t THEN "move" ELSE at[u]
      /\ \A p : SeqAt(p)' = SeqAt(p) /\ DataAt(p)' = DataAt(p) /\ (Emptied(p)' <=> Emptied(p))
      /\ \A p : p \in Window' <=> p \in enqueue_pos + 1 - BufferSize .. enqueue_pos
  BY <1>1, <1>2 DEF MpmcInv, MpmcTypeOK, SeqAt, DataAt, Emptied, Window
<1>4. Oldest # enqueue_pos - BufferSize
  <2>1. Emptied(enqueue_pos - BufferSize)
    <3> DEFINE w == enqueue_pos - BufferSize
    <3>1. SeqAt(w) = w + BufferSize
      BY <1>1, <1>2, NextCell
    <3> HIDE DEF w
    <3>2. Emptied(w)
      BY <1>1, <1>2, <3>1, SequenceOf DEF w
    <3> QED
      BY <3>2 DEF w
  <2> QED
    BY <1>2, <2>1
<1>5. Len(SlotsInUse) # BufferSize
  BY <1>2, <1>4, SlotsAre
<1>6. PICK e : e = enqueue_pos
  OBVIOUS
<1>7. ~(Emptied(e)')
  BY <1>1, <1>2, <1>3, <1>6, SequenceOf
<1>8. Oldest' = Oldest
  <2>1. \A p \in 0 .. enqueue_pos' - 1 : Emptied(p)' <=> p < enqueue_pos /\ Emptied(p)
    <3> SUFFICES ASSUME NEW p \in 0 .. enqueue_pos' - 1
                 PROVE  Emptied(p)' <=> p < enqueue_pos /\ Emptied(p)
      OBVIOUS
    <3>1. p < enqueue_pos \/ p = e
      BY <1>1, <1>2, <1>6
    <3> QED
      BY <1>2, <1>3, <1>6, <1>7, <3>1
  <2> QED
    BY <1>1, <2>1, OldestKept
<1>9. ASSUME NEW p \in Oldest .. enqueue_pos - 1
      PROVE  Slot(p)' = Slot(p)
  <2>1. p \in Window /\ p \in Window' /\ (p >= dequeue_pos' <=> p >= dequeue_pos)
    BY <1>1, <1>2, <1>3, <1>4
  <2>2. /\ \A u \in MpmcThreads : WorksOn(u, p) => WorksOn(u, p)'
        /\ \A u \in Enqueuers : WorksOn(u, p) => datum'[u] = datum[u]
    BY <1>1, <1>3 DEF WorksOn
  <2> QED
    BY <1>3, <2>1, <2>2, SlotKept
<1>10. Slot(e)' = Filling(t, datum[t])
  <2>1. e \in Window'
    BY <1>2, <1>3, <1>6
  <2>2. WorksOn(t, e)'
    BY <1>1, <1>2, <1>3, <1>6 DEF WorksOn
  <2> QED
    BY <1>1, <2>1, <2>2, SlotIsNext DEF Filling
<1>11. SlotsInUse' = Append(SlotsInUse, Filling(t, datum[t]))
  <2>1. PICK n : n = enqueue_pos - Oldest
    OBVIOUS
  <2>2. n \in Nat /\ enqueue_pos' - Oldest' = n + 1
    BY <1>1, <1>2, <1>8, <2>1
  <2>3. SlotsInUse = [i \in 1 .. n |-> SlotsInUse[i]]
    BY <2>1, SlotsAre
  <2>4. SlotsInUse' = [i \in 1 .. n + 1 |-> SlotsInUse'[i]]
    BY <2>2, SlotsAreNext
  <2>5. \A i \in 1 .. n : SlotsInUse'[i] = SlotsInUse[i]
    <3> SUFFICES ASSUME NEW i \in 1 .. n
                 PROVE  SlotsInUse'[i] = SlotsInUse[i]
      OBVIOUS
    <3>1. PICK p : p = Oldest + i - 1
      OBVIOUS
    <3>2. SlotsInUse[i] = Slot(p) /\ p \in Oldest .. enqueue_pos - 1
      BY <2>1, <3>1, SlotsAre
    <3>3. i \in 1 .. enqueue_pos' - Oldest' /\ p = Oldest' + i - 1
      BY <1>8, <2>2, <3>1
    <3>4. SlotsInUse'[i] = Slot(p)'
      BY <3>3, SlotsAreNext
    <3> QED
      BY <1>9, <3>2, <3>4
  <2>6. SlotsInUse'[n + 1] = Slot(e)'
    <3>1. n + 1 \in 1 .. enqueue_pos' - Oldest' /\ e = Oldest' + (n + 1) - 1
      BY <1>2, <1>6, <1>8, <2>1, <2>2
    <3> QED
      BY <3>1, SlotsAreNext
  <2> QED
    BY <1>10, <2>2, <2>3, <2>4, <2>5, <2>6, AppendIs
<1>12. Taken' = Taken
  <2>1. \A u \in Dequeuers \ {t} :
          /\ at'[u] = at[u] /\ datum'[u] = datum[u]
          /\ at[u] = "move" => DataAt(pos[u])' = DataAt(pos[u])
    BY <1>1, <1>2, <1>3 DEF DataAt
  <2> QED
    BY <1>2, <2>1, TakenKept
<1>13. datum[t] \in Data
  BY <1>1 DEF MpmcInv, ItemsInv
<1> QED
  BY <1>5, <1>11, <1>12, <1>13

\* The place of a position, when its state changes and no other does.
LEMMA PlaceChanged ==
  ASSUME MpmcInv, MpmcInv', Oldest' = Oldest, enqueue_pos' = enqueue_pos,
         NEW p \in Oldest .. enqueue_pos - 1,
         \A q \in Oldest .. enqueue_pos - 1 : q # p => Slot(q)' = Slot(q)
  PROVE  LET i == p - Oldest + 1
         IN  /\ i \in DOMAIN SlotsInUse /\ SlotsInUse[i] = Slot(p)
             /\ SlotsInUse' = [SlotsInUse EXCEPT ![i] = Slot(p)']
<1>1. enqueue_pos \in Nat /\ Oldest \in Nat
  BY OldestFacts, EndsAreNumbers DEF MpmcInv
<1>2. PICK k, n : k = p - Oldest + 1 /\ n = enqueue_pos - Oldest
  OBVIOUS
<1>3. k \in 1 .. n /\ p = Oldest + k - 1 /\ n \in Nat
  BY <1>1, <1>2
<1>4. /\ SlotsInUse = [i \in 1 .. n |-> SlotsInUse[i]] /\ DOMAIN SlotsInUse = 1 .. n
      /\ SlotsInUse' = [i \in 1 .. n |-> SlotsInUse'[i]]
      /\ SlotsInUse[k] = Slot(p) /\ SlotsInUse'[k] = Slot(p)'
  BY <1>2, <1>3, SlotsAre, SlotsAreNext
<1>5. ASSUME NEW i \in 1 .. n, i # k
      PROVE  SlotsInUse'[i] = SlotsInUse[i]
  <2>1. PICK q : q = Oldest + i - 1
    OBVIOUS
  <2>2. SlotsInUse[i] = Slot(q) /\ q \in Oldest .. enqueue_pos - 1
    BY <1>2, <2>1, SlotsAre
  <2>3. SlotsInUse'[i] = Slot(q)'
    BY <1>2, <2>1, SlotsAreNext
  <2>4. q # p
    BY <1>1, <1>3, <1>5, <2>1
  <2> QED
    BY <2>2, <2>3, <2>4
<1>6. SlotsInUse' = [SlotsInUse EXCEPT ![k] = Slot(p)']
  BY <1>3, <1>4, <1>5, OneChanged
<1> QED
  BY <1>2, <1>3, <1>4, <1>6

\* What publishing leaves as it was.
LEMMA PublishLeaves ==
  ASSUME MpmcInv, MpmcInv', NEW t \in MpmcThreads, NEW next \in Nat, Publishes(t, next),
         NEW p, p = pos[t], next >= p + 1
  PROVE  /\ p \in Window /\ p \in Int /\ Window' = Window
         /\ enqueue_pos' = enqueue_pos /\ dequeue_pos' = dequeue_pos
         /\ SeqAt(p)' = next /\ DataAt(p)' = DataAt(p) /\ WorksOn(t, p)
         /\ \A q \in 0 .. enqueue_pos - 1 : q # p => (Emptied(q)' <=> Emptied(q))
         /\ \A q \in Window : q # p => Slot(q)' = Slot(q)
         /\ (t \in Dequeuers => datum'[t] = datum[t]) => Taken' = Taken
<1>1. /\ MpmcTypeOK /\ enqueue_pos \in Nat /\ dequeue_pos \in Nat
      /\ BufferSize \in Nat /\ BufferSize >= 2
      /\ Enqueuers \subseteq MpmcThreads /\ Dequeuers \subseteq MpmcThreads
      /\ Window \subseteq Int
      /\ \A u \in MpmcThreads : pos[u] \in Nat
  BY EndsAreNumbers, SizeFacts DEF MpmcInv
<1>2. /\ enqueue_pos' = enqueue_pos /\ dequeue_pos' = dequeue_pos /\ pos' = pos
      /\ Window' = Window
      /\ \A u \in MpmcThreads \ {t} : datum'[u] = datum[u]
  BY DEF Publishes, Window
<1>3. /\ Working(t)
      /\ \A q \in Int : /\ SeqAt(q)' = IF SameCell(p, q) THEN next ELSE SeqAt(q)
                        /\ DataAt(q)' = DataAt(q)
      /\ \A u \in MpmcThreads : at'[u] = IF u = t THEN "idle" ELSE at[u]
  BY PublishSets
<1>4. /\ p \in Window
      /\ \A q \in Window : SameCell(p, q) => q = p
  BY <1>3, WorkerAlone
<1>5. p \in Int /\ SeqAt(p)' = next /\ DataAt(p)' = DataAt(p) /\ WorksOn(t, p)
  BY <1>1, <1>3, <1>4 DEF SameCell, WorksOn, Working
<1>6. ASSUME NEW q \in 0 .. enqueue_pos - 1, q # p
      PROVE  Emptied(q)' <=> Emptied(q)
  <2>1. q \in Int
    OBVIOUS
  <2>2. CASE ~SameCell(p, q)
    BY <1>3, <2>1, <2>2, SequenceOf DEF Emptied, SeqAt
  <2>3. CASE SameCell(p, q)
    <3>1. q \notin Window /\ SameCell(q, p)
      BY <1>4, <1>6, <2>3 DEF SameCell
    <3>2. q < enqueue_pos - BufferSize /\ q < p
      BY <1>1, <1>4, <1>5, <3>1 DEF Window
    <3>3. Emptied(q)
      BY <1>1, <2>1, <3>2, BeforeWindow, SequenceOf
    <3>4. q + BufferSize <= p
      BY <1>5, <2>1, <3>1, <3>2, NextRound
    <3>5. SeqAt(q)' = next /\ next >= q + BufferSize
      BY <1>1, <1>3, <1>5, <2>1, <2>3, <3>4
    <3> QED
      BY <3>3, <3>5 DEF Emptied, SeqAt
  <2> QED
    BY <2>2, <2>3
<1>7. ASSUME NEW q \in Window, q # p
      PROVE  Slot(q)' = Slot(q)
  <2>1. q \in Window' /\ (q >= dequeue_pos' <=> q >= dequeue_pos)
    BY <1>2
  <2>2. SeqAt(q)' = SeqAt(q) /\ DataAt(q)' = DataAt(q)
    BY <1>1, <1>3, <1>4, <1>7
  <2>3. \A u \in MpmcThreads : WorksOn(u, q) =>
          u # t /\ WorksOn(u, q)' /\ datum'[u] = datum[u]
    BY <1>2, <1>3, <1>7 DEF WorksOn
  <2> QED
    BY <1>1, <2>1, <2>2, <2>3, SlotKept
<1>8. ASSUME t \in Dequeuers => datum'[t] = datum[t]
      PROVE  Taken' = Taken
  <2>1. ASSUME NEW u \in MpmcThreads
        PROVE  DataAt(pos[u])' = DataAt(pos[u])
    <3>1. PICK q : q = pos[u]
      OBVIOUS
    <3>2. q \in Int /\ pos'[u] = q
      BY <1>1, <1>2, <3>1
    <3>3. DataAt(q)' = DataAt(q)
      BY <1>3, <3>2
    <3> QED
      BY <3>1, <3>2, <3>3 DEF DataAt
  <2>2. \A u \in Dequeuers \ {t} :
          /\ at'[u] = at[u] /\ datum'[u] = datum[u]
          /\ at[u] = "move" => DataAt(pos[u])' = DataAt(pos[u])
    BY <1>1, <1>2, <1>3, <2>1
  <2>3. at[t] # "move" /\ at'[t] # "move"
    BY <1>3 DEF Publishes
  <2>4. t \in Dequeuers => TakenBy(t)' = TakenBy(t)
    BY <1>8, <2>3, TakenIs, TakenIsNext
  <2> QED
    BY <2>2, <2>4, TakenKept
<1> QED
  BY <1>2, <1>4, <1>5, <1>6, <1>7, <1>8

\* Two fields of a record of a sequence, changed together.
Restated(s, i, x, y) == [s EXCEPT ![i].state = x, ![i].by = y]
Placed(x, y, c) == [state |-> x, by |-> y, item |-> c]
IsFunction(s) == s = [j \in DOMAIN s |-> s[j]]

LEMMA RecordChanged ==
  ASSUME NEW s, NEW i, i \in DOMAIN s, IsFunction(s),
         NEW a, NEW b, NEW c, NEW x, NEW y, s[i] = Placed(a, b, c)
  PROVE  Restated(s, i, x, y) = [s EXCEPT ![i] = Placed(x, y, c)]
<1> USE DEF Placed, IsFunction
<1> DEFINE one == [s EXCEPT ![i].state = x]
           r == [s[i] EXCEPT !.state = x]
<1>1. r = [state |-> x, by |-> b, item |-> c]
  OBVIOUS
<1>2. one = [s EXCEPT ![i] = r]
  OBVIOUS
<1>3. one[i] = r /\ \A j \in DOMAIN s : j # i => one[j] = s[j]
  BY <1>2
<1>4. [r EXCEPT !.by = y] = [state |-> x, by |-> y, item |-> c]
  <2> HIDE DEF r
  <2> QED
    BY <1>1
<1>5. Restated(s, i, x, y) = [one EXCEPT ![i].by = y]
  BY DEF Restated
<1>6. [one EXCEPT ![i].by = y] = [one EXCEPT ![i] = [r EXCEPT !.by = y]]
  BY <1>3
<1>7. [one EXCEPT ![i] = [r EXCEPT !.by = y]] = [s EXCEPT ![i] = [r EXCEPT !.by = y]]
  BY <1>2, <1>3
<1> QED
  BY <1>4, <1>5, <1>6, <1>7

LEMMA EnqueuePublishes ==
  ASSUME MpmcInv, MpmcInv', NEW t \in Enqueuers, EnqueuePublish(t)
  PROVE  /\ \E i \in DOMAIN SlotsInUse :
              /\ SlotsInUse[i].state = "filling" /\ SlotsInUse[i].by = t
              /\ SlotsInUse' = [SlotsInUse EXCEPT ![i].state = "ready", ![i].by = NoThread]
         /\ Taken' = Taken
<1>1. /\ t \in MpmcThreads /\ t \notin Dequeuers /\ pos[t] \in Nat
      /\ enqueue_pos \in Nat /\ dequeue_pos \in Nat
      /\ BufferSize \in Nat /\ BufferSize >= 2
      /\ Oldest \in Nat /\ Oldest <= dequeue_pos
  BY EndsAreNumbers, SizeFacts, OldestFacts DEF MpmcInv
<1>2. PICK p, next : p = pos[t] /\ next = pos[t] + 1
  OBVIOUS
<1>3. next \in Nat /\ next >= p + 1 /\ p \in Nat
  BY <1>1, <1>2
<1>4. Publishes(t, next)
  BY <1>1, <1>2, ThreadsPublish
<1>5. /\ p \in Window /\ p \in Int /\ Window' = Window
      /\ enqueue_pos' = enqueue_pos /\ dequeue_pos' = dequeue_pos
      /\ SeqAt(p)' = next /\ DataAt(p)' = DataAt(p) /\ WorksOn(t, p)
      /\ \A q \in 0 .. enqueue_pos - 1 : q # p => (Emptied(q)' <=> Emptied(q))
      /\ \A q \in Window : q # p => Slot(q)' = Slot(q)
      /\ Taken' = Taken
  BY <1>1, <1>2, <1>3, <1>4, PublishLeaves
<1>6. /\ dequeue_pos <= p /\ p < enqueue_pos /\ SeqAt(p) = p
      /\ DataAt(p) = datum[t]
  BY <1>2, <1>4, <1>5 DEF MpmcInv, WorkersInv, ItemsInv, WorksOn, Working, Publishes
<1>7. Oldest' = Oldest
  <2>1. Emptied(p)' <=> Emptied(p)
    <3>1. ~Emptied(p)
      BY <1>1, <1>3, <1>6, SequenceOf
    <3>2. ~(SeqAt(p)' >= p + BufferSize)
      BY <1>1, <1>2, <1>3, <1>5
    <3> QED
      BY <3>1, <3>2 DEF Emptied, SeqAt
  <2>2. \A q \in 0 .. enqueue_pos' - 1 : Emptied(q)' <=> q < enqueue_pos /\ Emptied(q)
    BY <1>1, <1>5, <2>1
  <2> QED
    BY <1>5, <2>2, OldestKept
<1>8. Slot(p) = Filling(t, datum[t]) /\ Slot(p)' = Ready(datum[t])
  <2>1. Slot(p) = Filling(t, datum[t])
    BY <1>5, SlotIs
  <2>2. IsFilled(p)'
    BY <1>2, <1>5, <1>6 DEF IsFilled
  <2>3. Slot(p)' = Ready(DataAt(p)')
    BY <1>5, <2>2, SlotIsNext DEF Ready
  <2> QED
    BY <1>5, <1>6, <2>1, <2>3
<1>9. p \in Oldest .. enqueue_pos - 1
  BY <1>1, <1>3, <1>6
<1>10. Oldest .. enqueue_pos - 1 \subseteq Window
  BY OldestFacts
<1>11. PICK i : i = p - Oldest + 1
  OBVIOUS
<1>12. /\ i \in DOMAIN SlotsInUse /\ SlotsInUse[i] = Slot(p)
       /\ SlotsInUse' = [SlotsInUse EXCEPT ![i] = Slot(p)']
  BY <1>5, <1>7, <1>9, <1>10, <1>11, PlaceChanged
<1>13. SlotsInUse[i].state = "filling" /\ SlotsInUse[i].by = t
  BY <1>8, <1>12 DEF Filling
<1>14. SlotsInUse' = [SlotsInUse EXCEPT ![i].state = "ready", ![i].by = NoThread]
  <2>1. SlotsInUse[i] = [state |-> "filling", by |-> t, item |-> datum[t]]
    BY <1>8, <1>12 DEF Filling
  <2>2. SlotsInUse' = [SlotsInUse EXCEPT
                         ![i] = [state |-> "ready", by |-> NoThread, item |-> datum[t]]]
    BY <1>8, <1>12 DEF Ready
  <2>3. SlotsInUse = [j \in DOMAIN SlotsInUse |-> SlotsInUse[j]]
    BY SlotsAre
  <2>4. [SlotsInUse EXCEPT ![i].state = "ready", ![i].by = NoThread]
          = [SlotsInUse EXCEPT
               ![i] = [state |-> "ready", by |-> NoThread, item |-> datum[t]]]
    <3>1. IsFunction(SlotsInUse) /\ SlotsInUse[i] = Placed("filling", t, datum[t])
      BY <2>1, <2>3 DEF IsFunction, Placed
    <3>2. Restated(SlotsInUse, i, "ready", NoThread)
            = [SlotsInUse EXCEPT ![i] = Placed("ready", NoThread, datum[t])]
      BY <1>12, <3>1, RecordChanged
    <3> QED
      BY <3>2 DEF Restated, Placed
  <2> QED
    BY <2>2, <2>4
<1> QED
  BY <1>5, <1>12, <1>13, <1>14

LEMMA ClaimTakes ==
  ASSUME MpmcInv, MpmcInv', NEW t \in Dequeuers, DequeueClaim(t), dequeue_pos' # dequeue_pos
  PROVE  \E i \in DOMAIN SlotsInUse :
           /\ Bounded!AtFront(i) /\ SlotsInUse[i].state = "ready"
           /\ SlotsInUse' = [SlotsInUse EXCEPT ![i].state = "emptying", ![i].by = t]
           /\ Taken' = [Taken EXCEPT ![t] = SlotsInUse[i].item]
<1>1. /\ dequeue_pos' = dequeue_pos + 1 /\ pos[t] = dequeue_pos
      /\ SeqAt(dequeue_pos) = dequeue_pos + 1
      /\ dequeue_pos < enqueue_pos
      /\ at[t] = "claim" /\ at' = [at EXCEPT ![t] = "move"]
      /\ UNCHANGED <<buffer, enqueue_pos, pos, datum, returned>>
  BY DequeueClaims
<1>2. /\ enqueue_pos \in Nat /\ dequeue_pos \in Nat /\ BufferSize \in Nat /\ BufferSize >= 2
      /\ Oldest \in Nat /\ Oldest <= dequeue_pos
      /\ Oldest .. enqueue_pos - 1 \subseteq Window /\ Window' = Window
      /\ Enqueuers \subseteq MpmcThreads /\ Dequeuers \subseteq MpmcThreads
      /\ t \notin Enqueuers /\ t \in MpmcThreads
  BY <1>1, OldestFacts, EndsAreNumbers, SizeFacts DEF MpmcInv, Window
<1>3. /\ \A u \in MpmcThreads : at'[u] = IF u = t THEN "move" ELSE at[u]
      /\ \A p : SeqAt(p)' = SeqAt(p) /\ DataAt(p)' = DataAt(p) /\ (Emptied(p)' <=> Emptied(p))
  BY <1>1, <1>2 DEF MpmcInv, MpmcTypeOK, SeqAt, DataAt, Emptied
<1>4. PICK p, i : p = dequeue_pos /\ i = dequeue_pos - Oldest + 1
  OBVIOUS
<1>5. p \in Oldest .. enqueue_pos - 1 /\ p \in Window /\ p \in Nat
  BY <1>1, <1>2, <1>4
<1>6. Oldest' = Oldest
  <2>1. \A q \in 0 .. enqueue_pos' - 1 : Emptied(q)' <=> q < enqueue_pos /\ Emptied(q)
    BY <1>1, <1>2, <1>3
  <2> QED
    BY <1>1, <2>1, OldestKept
<1>7. ASSUME NEW q \in Oldest .. enqueue_pos - 1, q # p
      PROVE  Slot(q)' = Slot(q)
  <2>1. q \in Window /\ q \in Window' /\ (q >= dequeue_pos' <=> q >= dequeue_pos)
    BY <1>1, <1>2, <1>4, <1>7
  <2>2. /\ \A u \in MpmcThreads : WorksOn(u, q) => WorksOn(u, q)'
        /\ \A u \in Enqueuers : WorksOn(u, q) => datum'[u] = datum[u]
    BY <1>1, <1>3 DEF WorksOn
  <2> QED
    BY <1>3, <2>1, <2>2, SlotKept
<1>8. Slot(p) = Ready(DataAt(p))
  <2>1. IsFilled(p)
    BY <1>1, <1>2, <1>4 DEF IsFilled
  <2> QED
    BY <1>5, <2>1, SlotIs
<1>9. Slot(p)' = Emptying(t, DataAt(p))
  <2>1. WorksOn(t, p)'
    BY <1>1, <1>2, <1>3, <1>4 DEF WorksOn
  <2>2. Slot(p)' = Emptying(t, DataAt(p)')
    BY <1>2, <1>5, <2>1, SlotIsNext DEF Emptying
  <2> QED
    BY <1>3, <2>2
<1>10. /\ i \in DOMAIN SlotsInUse /\ SlotsInUse[i] = Slot(p)
       /\ SlotsInUse' = [SlotsInUse EXCEPT ![i] = Slot(p)']
  BY <1>1, <1>4, <1>5, <1>6, <1>7, PlaceChanged
<1>11. SlotsInUse' = [SlotsInUse EXCEPT ![i].state = "emptying", ![i].by = t]
  <2>1. SlotsInUse[i] = [state |-> "ready", by |-> NoThread, item |-> DataAt(p)]
    BY <1>8, <1>10 DEF Ready
  <2>2. SlotsInUse' = [SlotsInUse EXCEPT
                         ![i] = [state |-> "emptying", by |-> t, item |-> DataAt(p)]]
    BY <1>9, <1>10 DEF Emptying
  <2>3. SlotsInUse = [j \in DOMAIN SlotsInUse |-> SlotsInUse[j]]
    BY SlotsAre
  <2>4. [SlotsInUse EXCEPT ![i].state = "emptying", ![i].by = t]
          = [SlotsInUse EXCEPT
               ![i] = [state |-> "emptying", by |-> t, item |-> DataAt(p)]]
    <3>1. IsFunction(SlotsInUse) /\ SlotsInUse[i] = Placed("ready", NoThread, DataAt(p))
      BY <2>1, <2>3 DEF IsFunction, Placed
    <3>2. Restated(SlotsInUse, i, "emptying", t)
            = [SlotsInUse EXCEPT ![i] = Placed("emptying", t, DataAt(p))]
      <4>1. PICK d : d = DataAt(p)
        OBVIOUS
      <4>2. i \in DOMAIN SlotsInUse /\ SlotsInUse[i] = Placed("ready", NoThread, d)
        BY <1>10, <3>1, <4>1
      <4>3. Restated(SlotsInUse, i, "emptying", t)
              = [SlotsInUse EXCEPT ![i] = Placed("emptying", t, d)]
        BY <3>1, <4>2, RecordChanged
      <4> QED
        BY <4>1, <4>3
    <3> QED
      BY <3>2 DEF Restated, Placed
  <2> QED
    BY <2>2, <2>4
<1>12. Bounded!AtFront(i) /\ SlotsInUse[i].state = "ready"
  <2>1. SlotsInUse[i].state = "ready"
    BY <1>8, <1>10 DEF Ready
  <2>2. ASSUME NEW j \in 1 .. i - 1
        PROVE  SlotsInUse[j].state \in {"emptying", "free"}
    <3>1. PICK q : q = Oldest + j - 1
      OBVIOUS
    <3>2. j \in 1 .. enqueue_pos - Oldest /\ q < dequeue_pos
      BY <1>1, <1>2, <1>4, <3>1
    <3>3. SlotsInUse[j] = Slot(q) /\ q \in Oldest .. enqueue_pos - 1
      BY <3>1, <3>2, SlotsAre
    <3> QED
      BY <1>2, <3>2, <3>3, StateOf
  <2> QED
    BY <1>10, <2>1, <2>2 DEF Bounded!AtFront
<1>13. Taken' = [Taken EXCEPT ![t] = SlotsInUse[i].item]
  <2>1. SlotsInUse[i].item = DataAt(p)
    BY <1>8, <1>10 DEF Ready
  <2>2. \A u \in Enqueuers : TakenBy(u)' = TakenBy(u)
    BY TakenIs, TakenIsNext
  <2>3. \A u \in Dequeuers \ {t} : TakenBy(u)' = TakenBy(u)
    <3>1. \A u \in Dequeuers \ {t} : at'[u] = at[u] /\ DataAt(pos[u])' = DataAt(pos[u])
                                    /\ datum'[u] = datum[u]
      BY <1>1, <1>2, <1>3 DEF DataAt
    <3> QED
      BY <3>1, TakenIs, TakenIsNext
  <2>4. TakenBy(t)' = DataAt(p)
    <3>1. at'[t] = "move" /\ DataAt(pos[t])' = DataAt(p)
      BY <1>1, <1>2, <1>3, <1>4 DEF DataAt
    <3> QED
      BY <3>1, TakenIsNext
  <2>5. \A u \in MpmcThreads : TakenBy(u)' = IF u = t THEN DataAt(p) ELSE TakenBy(u)
    BY <1>2, <2>2, <2>3, <2>4 DEF MpmcThreads
  <2> QED
    BY <2>1, <2>5 DEF Taken
<1> QED
  BY <1>10, <1>11, <1>12, <1>13

IsPart(r, f, m, n) ==
  /\ r = [i \in 1 .. n - m + 1 |-> r[i]]
  /\ \A i \in 1 .. n - m + 1 : r[i] = f[m + i - 1]

LEMMA SubSeqIs ==
  ASSUME NEW m, NEW n, NEW f, NEW r, m \in Int, n \in Int, m <= n, IsPart(r, f, m, n)
  PROVE  r = SubSeq(f, m, n)
<1> USE DEF IsPart
<1> DEFINE S == {f[i] : i \in m .. n}
<1>1. \A i \in m .. n : f[i] \in S
  OBVIOUS
<1>2. \A i \in 1 .. n - m + 1 : r[i] \in S
  <2>1. \A i \in 1 .. n - m + 1 : m + i - 1 \in m .. n
    OBVIOUS
  <2> QED
    BY <1>1, <2>1
<1>3. PICK l : l = n - m + 1 /\ l \in Nat
  OBVIOUS
<1> HIDE DEF S
<1>4. r \in Seq(S) /\ Len(r) = l
  BY <1>2, <1>3
<1>5. /\ SubSeq(f, m, n) \in Seq(S)
      /\ Len(SubSeq(f, m, n)) = l
      /\ \A i \in 1 .. l : SubSeq(f, m, n)[i] = f[m + i - 1]
  BY <1>1, <1>3, SubSeqProperties
<1> QED
  BY <1>3, <1>4, <1>5, SeqEqual

\* Trimming drops the free places at the old end, and no other.
LosesFree(f, r, n, k) ==
  /\ n \in Nat /\ f = [i \in 1 .. n |-> f[i]]
  /\ k \in 0 .. n /\ r = [i \in 1 .. n - k |-> r[i]]
  /\ \A i \in 1 .. k : f[i].state = "free"
  /\ k = n \/ f[k + 1].state # "free"
  /\ \A i \in 1 .. n - k : r[i] = f[k + i]

LEMMA TrimmedIs ==
  ASSUME NEW f, NEW r, NEW n, NEW k, LosesFree(f, r, n, k)
  PROVE  r = Bounded!Trimmed(f)
<1> USE DEF LosesFree
<1> DEFINE used == {i \in DOMAIN f : f[i].state # "free"}
<1>1. DOMAIN f = 1 .. n /\ Len(f) = n
  OBVIOUS
<1>2. CASE k = n
  <2>1. used = {}
    BY <1>1, <1>2
  <2>2. Bounded!Trimmed(f) = <<>>
    BY <2>1 DEF Bounded!Trimmed
  <2>3. r = <<>>
    BY <1>2
  <2> QED
    BY <2>2, <2>3
<1>3. CASE k < n
  <2>1. k + 1 \in used /\ \A i \in used : k + 1 <= i
    <3>1. k + 1 \in DOMAIN f /\ f[k + 1].state # "free"
      BY <1>1, <1>3
    <3>2. \A i \in 1 .. n : i \in 1 .. k \/ k + 1 <= i
      OBVIOUS
    <3> QED
      BY <1>1, <3>1, <3>2
  <2>2. used # {}
    BY <2>1
  <2>3. \A i \in used : (\A j \in used : i <= j) => i = k + 1
    <3>1. used \subseteq Int
      BY <1>1
    <3> QED
      BY <2>1, <3>1
  <2>4. (CHOOSE i \in used : \A j \in used : i <= j) = k + 1
    <3> HIDE DEF used
    <3> QED
      BY <2>1, <2>3
  <2>5. Bounded!Trimmed(f) = SubSeq(f, k + 1, n)
    BY <1>1, <2>2, <2>4 DEF Bounded!Trimmed
  <2>6. PICK m : m = k + 1
    OBVIOUS
  <2>7. m \in Int /\ m <= n /\ n - m + 1 = n - k
    BY <1>3, <2>6
  <2>8. \A i \in 1 .. n - k : m + i - 1 = k + i
    BY <2>6
  <2>9. r = SubSeq(f, m, n)
    <3>1. r = [i \in 1 .. n - m + 1 |-> r[i]]
      BY <2>7
    <3>2. \A i \in 1 .. n - m + 1 : r[i] = f[m + i - 1]
      BY <2>7, <2>8
    <3>3. IsPart(r, f, m, n)
      BY <3>1, <3>2 DEF IsPart
    <3>4. m \in Int /\ n \in Int /\ m <= n
      BY <2>7
    <3> QED
      BY <3>3, <3>4, SubSeqIs, Zenon
  <2> QED
    BY <2>5, <2>6, <2>9
<1> QED
  BY <1>2, <1>3

LEMMA FreeIs ==
  (MpmcInv => \A p \in Window : Slot(p).state = "free" <=> Emptied(p))
BY StateOf

LEMMA FreeIsNext ==
  (MpmcInv => \A p \in Window : Slot(p).state = "free" <=> Emptied(p))'
BY FreeIs, PTL

LEMMA DequeueReleases ==
  ASSUME MpmcInv, MpmcInv', NEW t \in Dequeuers, DequeuePublish(t)
  PROVE  /\ \E i \in DOMAIN SlotsInUse :
              /\ SlotsInUse[i].state = "emptying" /\ SlotsInUse[i].by = t
              /\ SlotsInUse' = Bounded!Trimmed([SlotsInUse EXCEPT ![i] = Free])
         /\ Taken' = Taken
<1>1. /\ t \in MpmcThreads /\ t \notin Enqueuers /\ pos[t] \in Nat
      /\ enqueue_pos \in Nat /\ dequeue_pos \in Nat
      /\ BufferSize \in Nat /\ BufferSize >= 2
  BY EndsAreNumbers, SizeFacts DEF MpmcInv
<1>2. PICK p, next : p = pos[t] /\ next = pos[t] + BufferSize
  OBVIOUS
<1>3. next \in Nat /\ next >= p + 1 /\ p \in Nat
  BY <1>1, <1>2
<1>4. Publishes(t, next)
  BY <1>1, <1>2, ThreadsPublish
<1>5. datum' = datum
  BY DEF DequeuePublish
<1>6. /\ p \in Window /\ Window' = Window
      /\ enqueue_pos' = enqueue_pos /\ dequeue_pos' = dequeue_pos
      /\ SeqAt(p)' = next /\ DataAt(p)' = DataAt(p) /\ WorksOn(t, p)
      /\ \A q \in 0 .. enqueue_pos - 1 : q # p => (Emptied(q)' <=> Emptied(q))
      /\ \A q \in Window : q # p => Slot(q)' = Slot(q)
      /\ Taken' = Taken
  BY <1>1, <1>2, <1>3, <1>4, <1>5, PublishLeaves
<1>7. /\ p < dequeue_pos /\ p < enqueue_pos /\ SeqAt(p) = p + 1
      /\ p \in 0 .. enqueue_pos - 1
  BY <1>1, <1>2, <1>3, <1>4, <1>6
     DEF MpmcInv, WorkersInv, WorksOn, Working, Publishes, EndsInv
<1>8. ~Emptied(p) /\ Emptied(p)'
  <2>1. ~Emptied(p)
    BY <1>1, <1>3, <1>7, SequenceOf
  <2>2. SeqAt(p)' >= p + BufferSize
    BY <1>1, <1>2, <1>3, <1>6
  <2> QED
    BY <2>1, <2>2 DEF Emptied, SeqAt
<1>9. PICK o, e : o = Oldest /\ e = Oldest'
  OBVIOUS
<1>10. /\ o \in 0 .. enqueue_pos /\ e \in 0 .. enqueue_pos
       /\ \A q \in 0 .. o - 1 : Emptied(q)
       /\ \A q \in 0 .. e - 1 : Emptied(q)'
       /\ e = enqueue_pos \/ ~(Emptied(e)')
       /\ o .. enqueue_pos - 1 \subseteq Window
  BY <1>6, <1>9, OldestFacts, OldestFactsNext
<1>11. p \in o .. enqueue_pos - 1
  BY <1>1, <1>3, <1>7, <1>8, <1>10
<1>12. o <= e
  <2> SUFFICES ASSUME e < o
               PROVE  FALSE
    BY <1>1, <1>10
  <2>1. e \in 0 .. o - 1 /\ e \in 0 .. enqueue_pos - 1
    BY <1>1, <1>10
  <2>2. Emptied(e)'
    BY <1>6, <1>8, <1>10, <2>1
  <2> QED
    BY <1>1, <1>10, <2>1, <2>2
<1>13. PICK n, k, i : n = enqueue_pos - o /\ k = e - o /\ i = p - o + 1
  OBVIOUS
<1>14. n \in Nat /\ k \in 0 .. n /\ i \in 1 .. n /\ n - k = enqueue_pos - e
  BY <1>1, <1>10, <1>11, <1>12, <1>13
<1>15. PICK f : f = [SlotsInUse EXCEPT ![i] = Free]
  OBVIOUS
<1>16. /\ Slot(p) = Emptying(t, DataAt(p)) /\ Slot(p)' = Free
  <2>1. IsEmptied(p)'
    BY <1>2, <1>6, <1>7 DEF IsEmptied
  <2> QED
    BY <1>6, <2>1, SlotIs, SlotIsNext
<1>17. /\ DOMAIN SlotsInUse = 1 .. n
       /\ \A j, q : j \in 1 .. n /\ q = o + j - 1 =>
            SlotsInUse[j] = Slot(q) /\ q \in o .. enqueue_pos - 1
       /\ SlotsInUse' = [j \in 1 .. n - k |-> SlotsInUse'[j]]
       /\ \A j, q : j \in 1 .. n - k /\ q = e + j - 1 => SlotsInUse'[j] = Slot(q)'
  BY <1>6, <1>9, <1>13, <1>14, SlotsAre, SlotsAreNext
<1>18. f = [j \in 1 .. n |-> f[j]]
  BY <1>15, <1>17
<1>19. ASSUME NEW j \in 1 .. n, NEW q, q = o + j - 1
       PROVE  f[j] = Slot(q)' /\ q \in Window /\ q \in Window' /\ q \in 0 .. enqueue_pos - 1
  <2>1. SlotsInUse[j] = Slot(q) /\ q \in o .. enqueue_pos - 1
    BY <1>17, <1>19
  <2>2. q \in Window /\ q \in 0 .. enqueue_pos - 1
    BY <1>10, <2>1
  <2>3. CASE j = i
    <3>1. q = p
      BY <1>1, <1>3, <1>10, <1>13, <1>19, <2>3
    <3> QED
      BY <1>6, <1>15, <1>16, <1>17, <2>2, <2>3, <3>1
  <2>4. CASE j # i
    <3>1. q # p
      BY <1>1, <1>3, <1>10, <1>13, <1>19, <2>4
    <3> QED
      BY <1>6, <1>15, <1>17, <2>1, <2>2, <2>4, <3>1
  <2> QED
    BY <2>3, <2>4
<1>20. \A j \in 1 .. k : f[j].state = "free"
  <2> SUFFICES ASSUME NEW j \in 1 .. k
               PROVE  f[j].state = "free"
    OBVIOUS
  <2>1. PICK q : q = o + j - 1
    OBVIOUS
  <2>2. j \in 1 .. n /\ q \in 0 .. e - 1
    BY <1>1, <1>10, <1>13, <1>14, <2>1
  <2>3. f[j] = Slot(q)' /\ q \in Window'
    BY <1>19, <2>1, <2>2
  <2>4. Emptied(q)'
    BY <1>10, <2>2
  <2> QED
    BY <2>3, <2>4, FreeIsNext
<1>21. k = n \/ f[k + 1].state # "free"
  <2> SUFFICES ASSUME k # n
               PROVE  f[k + 1].state # "free"
    OBVIOUS
  <2>1. PICK j : j = k + 1
    OBVIOUS
  <2>2. j \in 1 .. n /\ e = o + j - 1 /\ e # enqueue_pos
    BY <1>1, <1>10, <1>13, <1>14, <2>1
  <2>3. f[j] = Slot(e)' /\ e \in Window'
    BY <1>19, <2>2
  <2>4. ~(Emptied(e)')
    BY <1>10, <2>2
  <2> QED
    BY <2>1, <2>3, <2>4, FreeIsNext
<1>22. \A j \in 1 .. n - k : SlotsInUse'[j] = f[k + j]
  <2> SUFFICES ASSUME NEW j \in 1 .. n - k
               PROVE  SlotsInUse'[j] = f[k + j]
    OBVIOUS
  <2>1. PICK q, l : q = e + j - 1 /\ l = k + j
    OBVIOUS
  <2>2. l \in 1 .. n /\ q = o + l - 1
    BY <1>1, <1>10, <1>13, <1>14, <2>1
  <2> QED
    BY <1>17, <1>19, <2>1, <2>2
<1>23. SlotsInUse' = Bounded!Trimmed(f)
  <2>1. PICK r : r = SlotsInUse'
    OBVIOUS
  <2>2. n \in Nat /\ k \in 0 .. n /\ r = [j \in 1 .. n - k |-> r[j]]
    BY <1>14, <1>17, <2>1
  <2>3. \A j \in 1 .. n - k : r[j] = f[k + j]
    BY <1>22, <2>1
  <2>4. LosesFree(f, r, n, k)
    BY <1>18, <1>20, <1>21, <2>2, <2>3 DEF LosesFree
  <2>5. r = Bounded!Trimmed(f)
    BY <2>4, TrimmedIs
  <2> QED
    BY <2>1, <2>5
<1>24. /\ i \in DOMAIN SlotsInUse
       /\ SlotsInUse[i].state = "emptying" /\ SlotsInUse[i].by = t
  <2>1. SlotsInUse[i] = Slot(p)
    <3>1. p = o + i - 1
      BY <1>1, <1>3, <1>10, <1>13
    <3> QED
      BY <1>14, <1>17, <3>1
  <2> QED
    BY <1>14, <1>16, <1>17, <2>1 DEF Emptying
<1> QED
  BY <1>6, <1>15, <1>23, <1>24

LEMMA SeenUnchanged ==
  ASSUME SlotsInUse' = SlotsInUse, returned' = returned, Taken' = Taken
  PROVE  UNCHANGED Bounded!queueVars
BY DEF Bounded!queueVars, Taken

LEMMA EnqueueImplements ==
  ASSUME MpmcInv, MpmcInv', MpmcNext, NEW t \in Enqueuers, enqueue(t)
  PROVE  Bounded!QueueNext \/ UNCHANGED Bounded!queueVars
<1>1. t \in MpmcThreads /\ t \notin Dequeuers
  BY EndsAreNumbers DEF MpmcInv
<1>2. CASE \/ EnqueueCall(t) \/ EnqueueLook(t) \/ EnqueueReload(t)
           \/ EnqueueClaim(t) /\ enqueue_pos' = enqueue_pos
  <2>1. OnlyReads(t)
    BY <1>2, EnqueueReads
  <2>2. SlotsInUse' = SlotsInUse /\ Taken' = Taken
    BY <1>1, <2>1, ReadingStutters
  <2>3. \/ returned' = returned
        \/ /\ SeqAt(pos[t]) - pos[t] < 0
           /\ returned' = [returned EXCEPT ![t] = "refused"]
    BY <1>2 DEF EnqueueCall, EnqueueLook, Look, EnqueueReload, EnqueueClaim, Return,
                DifEnqueue, sequence, Cell, SeqAt
  <2>4. CASE returned' = returned
    BY <2>2, <2>4, SeenUnchanged
  <2>5. CASE /\ SeqAt(pos[t]) - pos[t] < 0
             /\ returned' = [returned EXCEPT ![t] = "refused"]
    <3>1. SeqAt(pos[t]) < pos[t]
      BY <1>1, <2>5, EndsAreNumbers, CellTypes DEF MpmcInv
    <3>2. Bounded!Full
      BY <3>1, RefusesWhenFull DEF Bounded!Full
    <3>3. Bounded!Refuse(t)
      BY <2>2, <2>5, <3>2 DEF Bounded!Refuse, Taken
    <3> QED
      BY <1>1, <3>3 DEF Bounded!QueueNext
  <2> QED
    BY <2>3, <2>4, <2>5
<1>3. CASE EnqueueClaim(t) /\ enqueue_pos' # enqueue_pos
  <2>1. /\ Len(SlotsInUse) # BufferSize
        /\ SlotsInUse' = Append(SlotsInUse, Filling(t, datum[t]))
        /\ Taken' = Taken /\ datum[t] \in Data
    BY <1>3, ClaimReserves
  <2>2. returned' = returned
    BY <1>3 DEF EnqueueClaim
  <2>3. Bounded!Reserve(t, datum[t])
    BY <2>1, <2>2 DEF Bounded!Reserve, Bounded!Full, Filling, Taken
  <2> QED
    BY <1>1, <2>1, <2>3 DEF Bounded!QueueNext
<1>4. CASE EnqueueMove(t)
  <2>1. SlotsInUse' = SlotsInUse /\ Taken' = Taken
    BY <1>4, EnqueueMoveStutters
  <2> QED
    BY <1>4, <2>1, SeenUnchanged DEF EnqueueMove
<1>5. CASE EnqueuePublish(t)
  <2>1. /\ \E i \in DOMAIN SlotsInUse :
             /\ SlotsInUse[i].state = "filling" /\ SlotsInUse[i].by = t
             /\ SlotsInUse' = [SlotsInUse EXCEPT ![i].state = "ready", ![i].by = NoThread]
        /\ Taken' = Taken
    BY <1>5, EnqueuePublishes
  <2>2. returned' = [returned EXCEPT ![t] = "accepted"]
    BY <1>5 DEF EnqueuePublish, Return
  <2>3. Bounded!Publish(t)
    BY <2>1, <2>2 DEF Bounded!Publish, Taken
  <2> QED
    BY <1>1, <2>3 DEF Bounded!QueueNext
<1> QED
  BY <1>2, <1>3, <1>4, <1>5 DEF enqueue

LEMMA DequeueImplements ==
  ASSUME MpmcInv, MpmcInv', MpmcNext, NEW t \in Dequeuers, dequeue(t)
  PROVE  Bounded!QueueNext \/ UNCHANGED Bounded!queueVars
<1>1. t \in MpmcThreads /\ t \notin Enqueuers
  BY EndsAreNumbers DEF MpmcInv
<1>2. CASE \/ DequeueCall(t) \/ DequeueLook(t) \/ DequeueReload(t)
           \/ DequeueClaim(t) /\ dequeue_pos' = dequeue_pos
  <2>1. OnlyReads(t) /\ datum' = datum
    BY <1>2, DequeueReads DEF DequeueCall, DequeueLook, Look, DequeueReload, DequeueClaim
  <2>2. SlotsInUse' = SlotsInUse /\ Taken' = Taken
    BY <1>1, <2>1, ReadingStutters
  <2>3. \/ returned' = returned
        \/ /\ SeqAt(pos[t]) - (pos[t] + 1) < 0
           /\ returned' = [returned EXCEPT ![t] = "nothing"]
    BY <1>2 DEF DequeueCall, DequeueLook, Look, DequeueReload, DequeueClaim, Return,
                DifDequeue, sequence, Cell, SeqAt
  <2>4. CASE returned' = returned
    BY <2>2, <2>4, SeenUnchanged
  <2>5. CASE /\ SeqAt(pos[t]) - (pos[t] + 1) < 0
             /\ returned' = [returned EXCEPT ![t] = "nothing"]
    <3>1. SeqAt(pos[t]) < pos[t] + 1
      BY <1>1, <2>5, EndsAreNumbers, CellTypes DEF MpmcInv
    <3>2. ~\E i \in DOMAIN SlotsInUse : Bounded!AtFront(i) /\ SlotsInUse[i].state = "ready"
      BY <3>1, FindsNothing
    <3>3. Bounded!FindNothing(t)
      BY <2>2, <2>5, <3>2 DEF Bounded!FindNothing, Taken
    <3> QED
      BY <1>1, <3>3 DEF Bounded!QueueNext
  <2> QED
    BY <2>3, <2>4, <2>5
<1>3. CASE DequeueClaim(t) /\ dequeue_pos' # dequeue_pos
  <2>1. \E i \in DOMAIN SlotsInUse :
          /\ Bounded!AtFront(i) /\ SlotsInUse[i].state = "ready"
          /\ SlotsInUse' = [SlotsInUse EXCEPT ![i].state = "emptying", ![i].by = t]
          /\ Taken' = [Taken EXCEPT ![t] = SlotsInUse[i].item]
    BY <1>3, ClaimTakes
  <2>2. returned' = returned
    BY <1>3 DEF DequeueClaim
  <2>3. Bounded!Take(t)
    BY <2>1, <2>2 DEF Bounded!Take, Taken
  <2> QED
    BY <1>1, <2>3 DEF Bounded!QueueNext
<1>4. CASE DequeueMove(t)
  <2>1. SlotsInUse' = SlotsInUse /\ Taken' = Taken
    BY <1>4, DequeueMoveStutters
  <2> QED
    BY <1>4, <2>1, SeenUnchanged DEF DequeueMove
<1>5. CASE DequeuePublish(t)
  <2>1. /\ \E i \in DOMAIN SlotsInUse :
             /\ SlotsInUse[i].state = "emptying" /\ SlotsInUse[i].by = t
             /\ SlotsInUse' = Bounded!Trimmed([SlotsInUse EXCEPT ![i] = Free])
        /\ Taken' = Taken
    BY <1>5, DequeueReleases
  <2>2. returned' = [returned EXCEPT ![t] = "taken"]
    BY <1>5 DEF DequeuePublish, Return
  <2>3. Bounded!FreeSlot = Free
    BY DEF Bounded!FreeSlot, Free
  <2>4. Bounded!Release(t)
    BY <2>1, <2>2, <2>3 DEF Bounded!Release, Taken
  <2> QED
    BY <1>1, <2>4 DEF Bounded!QueueNext
<1> QED
  BY <1>2, <1>3, <1>4, <1>5 DEF dequeue

LEMMA StepsImplement ==
  MpmcInv /\ MpmcInv' /\ [MpmcNext]_mpmcVars => [Bounded!QueueNext]_Bounded!queueVars
<1> SUFFICES ASSUME MpmcInv, MpmcInv', [MpmcNext]_mpmcVars
             PROVE  Bounded!QueueNext \/ UNCHANGED Bounded!queueVars
  OBVIOUS
<1>1. CASE MpmcNext
  BY <1>1, EnqueueImplements, DequeueImplements DEF MpmcNext
<1>2. CASE UNCHANGED mpmcVars
  <2>1. UNCHANGED <<buffer, enqueue_pos, dequeue_pos, at, pos, datum, returned>>
    BY <1>2 DEF mpmcVars
  <2>2. SlotsInUse' = SlotsInUse
    BY <2>1 DEF SlotsInUse, Oldest, Slot, Emptied, Filled, Worker, WorksOn
  <2>3. Taken' = Taken
    BY <2>1 DEF Taken, TakenBy, Cell
  <2> QED
    BY <2>1, <2>2, <2>3, SeenUnchanged
<1> QED
  BY <1>1, <1>2

LEMMA InitImplements == MpmcInit => Bounded!QueueInit
<1> SUFFICES ASSUME MpmcInit
             PROVE  Bounded!QueueInit
  OBVIOUS
<1>1. MpmcInv
  BY MpmcInitInv
<1>2. enqueue_pos = 0 /\ returned = [t \in MpmcThreads |-> "none"]
  BY DEF MpmcInit
<1>3. Oldest = 0
  <2>1. FirstInUse(0)
    BY <1>2 DEF FirstInUse
  <2> QED
    BY <1>1, <2>1, OldestIs
<1>4. SlotsInUse = <<>>
  BY <1>2, <1>3 DEF SlotsInUse
<1>5. \A t \in MpmcThreads : TakenBy(t) = NoData
  <2>1. \A t \in MpmcThreads : at[t] # "move" /\ datum[t] = NoData
    BY DEF MpmcInit
  <2> QED
    BY <2>1, TakenIs DEF MpmcThreads
<1> QED
  BY <1>2, <1>4, <1>5 DEF Bounded!QueueInit

\* mpmc_bounded_q.h: for any number of threads, any items and any size of the
\* queue, its lock-free enqueue() and dequeue() are those of a queue that works
\* in one step: every access to shared memory is a step of BoundedQueue or
\* changes nothing of what the callers see.
THEOREM QueueImplemented == MpmcSpec => ImplementsBoundedQueue
BY CellsAreOwned, InitImplements, StepsImplement, PTL
   DEF MpmcSpec, ImplementsBoundedQueue, Bounded!QueueSpec
===============================================================================
