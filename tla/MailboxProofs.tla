--------------------------- MODULE MailboxProofs ---------------------------
(***************************************************************************)
(* Three promises of the mailboxes for any number of users, messages and   *)
(* requests and any cap: a list over the cap is about to be trimmed, a     *)
(* response of /gcm/recv lists messages in the order they were sent, and a *)
(* message is lost only in the window between a snapshot and its trim, or  *)
(* because enough newer ones pushed it out.                                *)
(*                                                                         *)
(* The first is inductive together with the types.  The second is not: a   *)
(* response is what a list was, and a list what the pipe made of it, so    *)
(* the invariant follows a message from AddMsg through the pipe and the    *)
(* list to the HTTP thread and the response.  The third adds that what a   *)
(* trim on its way would drop was seen by the request that sent it, or has *)
(* been pushed since, and counts the newer messages of a list above what   *)
(* the cap cuts.                                                           *)
(***************************************************************************)
EXTENDS Mailbox, SequenceTheorems, FiniteSetTheorems, TLAPS

\* m was sent before n, when the messages sent are s.
Before(s, m, n) == \E i, j \in 1..Len(s) : i < j /\ s[i] = m /\ s[j] = n
WasSent(s, m) == \E i \in 1..Len(s) : s[i] = m

\* The messages of a list of t, newest first, and of a response, oldest first.
ListOfToken(s, l, t) ==
  /\ \A i \in 1..Len(l) : WasSent(s, l[i]) /\ ToOf[l[i]] = t
  /\ \A i, j \in 1..Len(l) : i < j => Before(s, l[j], l[i])
ResponseTo(s, l, t) ==
  /\ \A i \in 1..Len(l) : WasSent(s, l[i]) /\ ToOf[l[i]] = t
  /\ \A i, j \in 1..Len(l) : i < j => Before(s, l[i], l[j])

IsPush(r) == r.op = "LPUSH"

SentOnce == \A i, j \in 1..Len(sent) : sent[i] = sent[j] => i = j
ListsInOrder == \A t \in Tokens : ListOfToken(sent, list[t], t)
PipeInOrder ==
  /\ \A i \in 1..Len(pipe) : IsPush(pipe[i]) =>
       WasSent(sent, pipe[i].msgs[1]) /\ pipe[i].token = ToOf[pipe[i].msgs[1]]
  /\ \A i, j \in 1..Len(pipe) : i < j /\ IsPush(pipe[i]) /\ IsPush(pipe[j]) =>
       Before(sent, pipe[i].msgs[1], pipe[j].msgs[1])
ListsBeforePipe ==
  \A t \in Tokens : \A k \in 1..Len(list[t]) : \A i \in 1..Len(pipe) :
    IsPush(pipe[i]) => Before(sent, list[t][k], pipe[i].msgs[1])
WorkerInOrder == worker # <<>> => ListOfToken(sent, worker[1].arr, worker[1].token)
ResponsesInOrder == \A k \in 1..Len(got) : ResponseTo(sent, got[k].msgs, got[k].token)

OrderInv ==
  /\ SentOnce /\ ListsInOrder /\ PipeInOrder /\ ListsBeforePipe
  /\ WorkerInOrder /\ ResponsesInOrder

\* A key that is not a list holds no messages; without it the LTRIM on its way
\* could be refused.
WrongTypeEmpty == \A t \in WrongType : Len(list[t]) = 0
CapInv == MailboxTypeOK /\ WrongTypeEmpty /\ OverflowIsTrimmed

-----------------------------------------------------------------------------
(* What the operators do.                                                  *)

LEMMA RequestTypes ==
  /\ \A m \in Messages : /\ LPUSH(m) \in Requests /\ IsPush(LPUSH(m))
                         /\ LPUSH(m).msgs = <<m>> /\ LPUSH(m).token = ToOf[m]
  /\ \A t \in Tokens : /\ KEEP(t) \in Requests /\ DROP(t) \in Requests
                       /\ ~IsPush(KEEP(t)) /\ ~IsPush(DROP(t))
                       /\ KEEP(t).token = t /\ DROP(t).token = t
  /\ \A r \in Requests : ~IsPush(r) =>
       r.op = "LTRIM" /\ r.first \in {0, Cap} /\ r.last \in {Cap - 1, -1}
  /\ \A r \in Requests : r.token \in Tokens
<1>1. ASSUME NEW m \in Messages
      PROVE  /\ LPUSH(m) \in Requests /\ IsPush(LPUSH(m))
             /\ LPUSH(m).msgs = <<m>> /\ LPUSH(m).token = ToOf[m]
  BY MailboxAssumption DEF LPUSH, Requests, IsPush
<1>2. ASSUME NEW t \in Tokens
      PROVE  /\ KEEP(t) \in Requests /\ DROP(t) \in Requests
             /\ ~IsPush(KEEP(t)) /\ ~IsPush(DROP(t))
             /\ KEEP(t).token = t /\ DROP(t).token = t
  BY DEF KEEP, DROP, LTRIM, Requests, IsPush
<1>3. \A r \in Requests : ~IsPush(r) =>
        r.op = "LTRIM" /\ r.first \in {0, Cap} /\ r.last \in {Cap - 1, -1}
  BY DEF Requests, IsPush
<1>4. \A r \in Requests : r.token \in Tokens
  BY DEF Requests
<1>5. QED
  BY <1>1, <1>2, <1>3, <1>4

\* LTRIM leaves a stretch of the list.
LEMMA TrimLeaves ==
  ASSUME NEW l \in Seq(Messages), NEW r \in Requests, ~IsPush(r)
  PROVE  /\ Applied(r, l) \in Seq(Messages)
         /\ Len(Applied(r, l)) <= Len(l)
         /\ r.first = 0 /\ r.last = Cap - 1 => Len(Applied(r, l)) <= Cap
         /\ \E d \in 0..Cap : \A i \in 1..Len(Applied(r, l)) :
              i + d \in 1..Len(l) /\ Applied(r, l)[i] = l[i + d]
<1> DEFINE n == IF r.last \in 0..Len(l) - 1 THEN r.last + 1 ELSE Len(l)
<1>1. /\ Cap \in Nat /\ r.first \in {0, Cap} /\ r.last \in {Cap - 1, -1}
      /\ r.op = "LTRIM" /\ Len(l) \in Nat
  BY RequestTypes, MailboxAssumption
<1>2. n \in Int /\ n <= Len(l)
  BY <1>1
<1>3. Applied(r, l) = SubSeq(l, r.first + 1, n)
  BY <1>1 DEF Applied
<1>4. \A i \in r.first + 1 .. n : l[i] \in Messages
  BY <1>1, <1>2, ElementOfSeq
<1>5. /\ Applied(r, l) \in Seq(Messages)
      /\ Len(Applied(r, l)) = IF r.first + 1 <= n THEN n - r.first ELSE 0
      /\ \A i \in 1 .. n - r.first : Applied(r, l)[i] = l[r.first + i]
  <2> DEFINE first == r.first + 1
  <2>1. first \in Int /\ n \in Int /\ \A i \in first .. n : l[i] \in Messages
    BY <1>1, <1>2, <1>4
  <2>2. /\ SubSeq(l, first, n) \in Seq(Messages)
        /\ Len(SubSeq(l, first, n)) = IF first <= n THEN n - first + 1 ELSE 0
        /\ \A i \in 1 .. n - first + 1 : SubSeq(l, first, n)[i] = l[first + i - 1]
    <3> HIDE DEF n, first
    <3> QED
      BY <2>1, SubSeqProperties
  <2>3. /\ first = r.first + 1 /\ r.first \in Int /\ n \in Int
        /\ n - first + 1 = n - r.first /\ \A i \in Int : first + i - 1 = r.first + i
    <3> HIDE DEF n
    <3>1. r.first \in Int
      BY <1>1
    <3> QED
      BY <3>1, <1>2
  <2>4. QED
    <3> HIDE DEF n, first
    <3>1. ASSUME NEW i \in 1 .. n - r.first
          PROVE  SubSeq(l, first, n)[i] = l[r.first + i]
      <4>1. i \in 1 .. n - first + 1 /\ first + i - 1 = r.first + i
        BY <2>3
      <4> QED
        BY <4>1, <2>2
    <3>2. Len(SubSeq(l, first, n)) = IF r.first + 1 <= n THEN n - r.first ELSE 0
      BY <2>2, <2>3
    <3>3. Applied(r, l) = SubSeq(l, first, n)
      BY <1>3, <2>3
    <3> QED
      BY <2>2, <3>1, <3>2, <3>3
<1>6. r.first = 0 /\ r.last = Cap - 1 => n <= Cap
  BY <1>1, MailboxAssumption
<1>7. r.first \in 0..Cap
  BY <1>1
<1>8. Len(Applied(r, l)) <= Len(l)
  <2> HIDE DEF n
  <2> QED
    BY <1>1, <1>2, <1>5, <1>7
<1>9. r.first = 0 /\ r.last = Cap - 1 => Len(Applied(r, l)) <= Cap
  <2> HIDE DEF n
  <2> QED
    BY <1>1, <1>2, <1>5, <1>6
<1>10. \A i \in 1..Len(Applied(r, l)) :
         i + r.first \in 1..Len(l) /\ Applied(r, l)[i] = l[i + r.first]
  <2> HIDE DEF n
  <2> QED
    BY <1>1, <1>2, <1>5, <1>7
<1>11. QED
  BY <1>5, <1>7, <1>8, <1>9, <1>10

\* LPUSH puts the message in front of the list.
LEMMA PushLeaves ==
  ASSUME NEW l \in Seq(Messages), NEW r \in Requests, IsPush(r),
         NEW m \in Messages, r.msgs = <<m>>
  PROVE  /\ Applied(r, l) \in Seq(Messages)
         /\ Len(Applied(r, l)) = Len(l) + 1 /\ Len(l) \in Nat
         /\ Applied(r, l)[1] = m
         /\ \A i \in 2..Len(l) + 1 : Applied(r, l)[i] = l[i - 1]
<1>1. Applied(r, l) = <<m>> \o l
  BY DEF Applied, IsPush
<1>2. <<m>> \in Seq(Messages) /\ Len(<<m>>) = 1 /\ <<m>>[1] = m /\ Len(l) \in Nat
  BY LenProperties
<1>3. /\ <<m>> \o l \in Seq(Messages) /\ Len(<<m>> \o l) = Len(<<m>>) + Len(l)
      /\ \A i \in 1..Len(<<m>>) + Len(l) : (<<m>> \o l)[i] =
           IF i <= Len(<<m>>) THEN <<m>>[i] ELSE l[i - Len(<<m>>)]
  BY <1>2, ConcatProperties
<1>4. QED
  BY <1>1, <1>2, <1>3

\* Appending to a sequence and taking its head, element by element.
LEMMA AppendElements ==
  ASSUME NEW S, NEW q \in Seq(S), NEW x \in S
  PROVE  /\ Append(q, x) \in Seq(S) /\ Len(Append(q, x)) = Len(q) + 1
         /\ \A i \in 1..Len(q) : Append(q, x)[i] = q[i]
         /\ Append(q, x)[Len(q) + 1] = x
         /\ Len(q) \in Nat
BY AppendProperties

LEMMA TailElements ==
  ASSUME NEW S, NEW q \in Seq(S), q # <<>>
  PROVE  /\ Head(q) \in S /\ Head(q) = q[1]
         /\ Tail(q) \in Seq(S) /\ Len(Tail(q)) = Len(q) - 1
         /\ \A i \in 1..Len(q) - 1 : Tail(q)[i] = q[i + 1]
         /\ Len(q) \in Nat /\ Len(q) > 0
BY HeadTailProperties, EmptySeq, LenProperties

LEMMA OldestFirstElements ==
  ASSUME NEW q \in Seq(Messages)
  PROVE  /\ OldestFirst(q) \in Seq(Messages)
         /\ Len(OldestFirst(q)) = Len(q) /\ Len(q) \in Nat
         /\ \A i \in 1..Len(q) : /\ Len(q) - i + 1 \in 1..Len(q)
                                /\ OldestFirst(q)[i] = q[Len(q) - i + 1]
<1>1. Len(q) \in Nat /\ \A i \in 1..Len(q) : q[i] \in Messages
  BY LenProperties, ElementOfSeq
<1>2. \A i \in 1..Len(q) : Len(q) - i + 1 \in 1..Len(q)
  BY <1>1
<1>3. [i \in 1..Len(q) |-> q[Len(q) - i + 1]] \in Seq(Messages)
  BY <1>1, <1>2, IsASeq
<1>4. OldestFirst(q) = [i \in 1..Len(q) |-> q[Len(q) - i + 1]]
  BY DEF OldestFirst, Reverse
<1>5. Len(OldestFirst(q)) = Len(q)
  BY <1>1, <1>3, <1>4
<1>6. QED
  BY <1>1, <1>2, <1>3, <1>4, <1>5

-----------------------------------------------------------------------------
(* Types.                                                                  *)

LEMMA TypeInit == MailboxInit => MailboxTypeOK
BY DEF MailboxInit, MailboxTypeOK

LEMMA TypeAddMsg ==
  ASSUME MailboxTypeOK, NEW m \in Messages, AddMsg(m)
  PROVE  MailboxTypeOK'
<1>1. LPUSH(m) \in Requests /\ LPUSH(m).msgs = <<m>>
  BY RequestTypes
<1>2. /\ pipe' \in Seq(Requests) /\ Len(pipe') = Len(pipe) + 1 /\ Len(pipe) \in Nat
      /\ \A i \in 1..Len(pipe) : pipe'[i] = pipe[i]
      /\ pipe'[Len(pipe) + 1] = LPUSH(m)
  BY <1>1, AppendElements DEF AddMsg, MailboxTypeOK
<1>3. ASSUME NEW i \in 1..Len(pipe'), pipe'[i].op = "LPUSH"
      PROVE  \E x \in Messages : pipe'[i].msgs = <<x>>
  <2>1. CASE i \in 1..Len(pipe)
    BY <2>1, <1>2, <1>3 DEF MailboxTypeOK
  <2>2. CASE i = Len(pipe) + 1
    BY <2>2, <1>1, <1>2
  <2>3. QED
    BY <2>1, <2>2, <1>2
<1>4. sent' \in Seq(Messages)
  BY AppendElements DEF AddMsg, MailboxTypeOK
<1>5. QED
  BY <1>2, <1>3, <1>4 DEF AddMsg, MailboxTypeOK

LEMMA TypeGetMsg ==
  ASSUME MailboxTypeOK, NEW t \in Tokens, GetMsg(t)
  PROVE  MailboxTypeOK'
<1>1. CASE t \in WrongType
  <2> DEFINE r == [token |-> t, status |-> 408, msgs |-> <<>>]
  <2>1. r \in Responses
    BY DEF Responses
  <2>2. got' = Append(got, r) /\ got \in Seq(Responses)
    BY <1>1 DEF GetMsg, MailboxTypeOK
  <2>3. got' \in Seq(Responses)
    <3> HIDE DEF r
    <3> QED
      BY <2>1, <2>2, AppendElements
  <2>4. QED
    BY <1>1, <2>3 DEF GetMsg, MailboxTypeOK
<1>2. CASE t \notin WrongType
  <2>1. [token |-> t, arr |-> list[t]] \in Readings
    BY DEF MailboxTypeOK, Readings
  <2>2. worker' \in [{1} -> Readings]
    BY <1>2, <2>1 DEF GetMsg
  <2>3. QED
    BY <1>2, <2>2 DEF GetMsg, MailboxTypeOK
<1>3. QED
  BY <1>1, <1>2

LEMMA TypeRespond ==
  ASSUME MailboxTypeOK, Respond
  PROVE  MailboxTypeOK'
<1> DEFINE t == worker[1].token
<1>1. t \in Tokens /\ worker[1].arr \in Seq(Messages)
  BY DEF Respond, MailboxTypeOK, Readings
<1>2. DROP(t) \in Requests /\ DROP(t).op # "LPUSH"
  BY <1>1, RequestTypes DEF IsPush
<1>3. /\ pipe' \in Seq(Requests) /\ Len(pipe') = Len(pipe) + 1 /\ Len(pipe) \in Nat
      /\ \A i \in 1..Len(pipe) : pipe'[i] = pipe[i]
      /\ pipe'[Len(pipe) + 1] = DROP(t)
  BY <1>2, AppendElements DEF Respond, MailboxTypeOK
<1>4. ASSUME NEW i \in 1..Len(pipe'), pipe'[i].op = "LPUSH"
      PROVE  \E x \in Messages : pipe'[i].msgs = <<x>>
  <2>1. i \in 1..Len(pipe)
    <3> HIDE DEF t
    <3> QED
      BY <1>2, <1>3, <1>4
  <2>2. QED
    BY <2>1, <1>3, <1>4 DEF MailboxTypeOK
<1>5. OldestFirst(worker[1].arr) \in Seq(Messages)
  BY <1>1, OldestFirstElements
<1>6. [token |-> t, status |-> 200, msgs |-> OldestFirst(worker[1].arr)]
        \in Responses
  BY <1>1, <1>5 DEF Responses
<1>7. got' \in Seq(Responses)
  BY <1>6, AppendElements DEF Respond, MailboxTypeOK
<1>8. QED
  BY <1>3, <1>4, <1>7 DEF Respond, MailboxTypeOK

\* What Execute finds at the head of the pipe and makes of its list.
LEMMA Executed ==
  ASSUME MailboxTypeOK, Execute
  PROVE  \E r \in Requests :
           /\ r = pipe[1] /\ r = Head(pipe)
           /\ IsPush(r) => \E m \in Messages : r.msgs = <<m>>
           /\ r.token \in Tokens
           /\ pipe' = Tail(pipe) /\ pipe' \in Seq(Requests)
           /\ Len(pipe) \in Nat /\ Len(pipe) > 0 /\ Len(pipe') = Len(pipe) - 1
           /\ \A i \in 1..Len(pipe') : pipe'[i] = pipe[i + 1]
           /\ Applied(r, list[r.token]) \in Seq(Messages)
           /\ list' \in [Tokens -> Seq(Messages)]
           /\ \A t \in Tokens : list'[t] =
                IF t = r.token /\ t \notin WrongType
                THEN Applied(r, list[t]) ELSE list[t]
           /\ replies \in Seq(Answers)
           /\ replies' = Append(replies, [op |-> r.op, token |-> r.token,
                 ok |-> r.token \notin WrongType,
                 n |-> IF r.token \notin WrongType /\ r.op = "LPUSH"
                       THEN Len(Applied(r, list[r.token])) ELSE 0])
           /\ exposed' \in {exposed, exposed \cup {r.msgs[1]}}
           /\ exposed' # exposed => IsPush(r)
<1> DEFINE r == Head(pipe)
           l == Applied(r, list[r.token])
<1>1. /\ pipe # <<>> /\ pipe \in Seq(Requests) /\ list \in [Tokens -> Seq(Messages)]
      /\ pipe' = Tail(pipe) /\ replies \in Seq(Answers)
  BY DEF Execute, MailboxTypeOK
<1>2. /\ r \in Requests /\ r = pipe[1]
      /\ pipe' \in Seq(Requests)
      /\ Len(pipe) \in Nat /\ Len(pipe) > 0 /\ Len(pipe') = Len(pipe) - 1
      /\ \A i \in 1..Len(pipe) - 1 : pipe'[i] = pipe[i + 1]
  BY <1>1, TailElements
<1>3. IsPush(r) => \E m \in Messages : r.msgs = <<m>>
  <2>1. 1 \in 1..Len(pipe)
    BY <1>2
  <2>2. QED
    BY <2>1, <1>2 DEF MailboxTypeOK, IsPush
<1>4. r.token \in Tokens /\ list[r.token] \in Seq(Messages)
  BY <1>1, <1>2, RequestTypes
<1>5. l \in Seq(Messages)
  <2> HIDE DEF r
  <2> QED
    BY <1>2, <1>3, <1>4, TrimLeaves, PushLeaves
<1>6. list' = [list EXCEPT ![r.token] = IF r.token \notin WrongType THEN l ELSE list[r.token]]
  BY DEF Execute
<1>7. list' \in [Tokens -> Seq(Messages)]
  <2> HIDE DEF r, l
  <2> QED
    BY <1>1, <1>4, <1>5, <1>6
<1>8. \A t \in Tokens : list'[t] =
        IF t = r.token /\ t \notin WrongType THEN Applied(r, list[t]) ELSE list[t]
  <2> HIDE DEF r
  <2> QED
    BY <1>1, <1>4, <1>6
<1>9. /\ replies' = Append(replies, [op |-> r.op, token |-> r.token,
             ok |-> r.token \notin WrongType,
             n |-> IF r.token \notin WrongType /\ r.op = "LPUSH" THEN Len(l) ELSE 0])
      /\ exposed' \in {exposed, exposed \cup {r.msgs[1]}}
      /\ exposed' # exposed => r.op = "LPUSH"
  BY DEF Execute
<1>10. QED
  <2> HIDE DEF r
  <2> WITNESS r \in Requests
  <2> QED
    BY <1>1, <1>2, <1>3, <1>4, <1>5, <1>7, <1>8, <1>9 DEF IsPush

LEMMA TypeExecute ==
  ASSUME MailboxTypeOK, Execute
  PROVE  MailboxTypeOK'
<1> PICK r \in Requests :
      /\ IsPush(r) => \E m \in Messages : r.msgs = <<m>>
      /\ r.token \in Tokens
      /\ pipe' \in Seq(Requests)
      /\ Len(pipe) \in Nat /\ Len(pipe) > 0 /\ Len(pipe') = Len(pipe) - 1
      /\ \A i \in 1..Len(pipe') : pipe'[i] = pipe[i + 1]
      /\ Applied(r, list[r.token]) \in Seq(Messages)
      /\ list' \in [Tokens -> Seq(Messages)]
      /\ replies \in Seq(Answers)
      /\ replies' = Append(replies, [op |-> r.op, token |-> r.token,
            ok |-> r.token \notin WrongType,
            n |-> IF r.token \notin WrongType /\ r.op = "LPUSH"
                  THEN Len(Applied(r, list[r.token])) ELSE 0])
      /\ exposed' \in {exposed, exposed \cup {r.msgs[1]}}
      /\ exposed' # exposed => IsPush(r)
  BY Executed
<1>1. ASSUME NEW i \in 1..Len(pipe'), pipe'[i].op = "LPUSH"
      PROVE  \E m \in Messages : pipe'[i].msgs = <<m>>
  <2>1. i + 1 \in 1..Len(pipe) /\ pipe'[i] = pipe[i + 1]
    OBVIOUS
  <2>2. pipe[i + 1].op = "LPUSH"
    BY <1>1, <2>1
  <2>3. \E m \in Messages : pipe[i + 1].msgs = <<m>>
    BY <2>1, <2>2 DEF MailboxTypeOK
  <2>4. QED
    BY <2>1, <2>3
<1> DEFINE a == [op |-> r.op, token |-> r.token, ok |-> r.token \notin WrongType,
                 n |-> IF r.token \notin WrongType /\ r.op = "LPUSH"
                       THEN Len(Applied(r, list[r.token])) ELSE 0]
<1>2. a \in Answers
  <2>1. Len(Applied(r, list[r.token])) \in Nat
    BY LenProperties
  <2>2. r.op \in {"LPUSH", "LTRIM"}
    BY DEF Requests
  <2>3. QED
    BY <2>1, <2>2 DEF Answers
<1>3. replies' \in Seq(Answers)
  <2> HIDE DEF a
  <2>1. replies' = Append(replies, a)
    BY DEF a
  <2>2. QED
    BY <2>1, <1>2, AppendElements
<1>4. exposed' \subseteq Messages
  BY DEF MailboxTypeOK
<1>5. UNCHANGED <<worker, sent, got>>
  BY DEF Execute
<1>6. QED
  BY <1>1, <1>3, <1>4, <1>5 DEF MailboxTypeOK

LEMMA TypeOnReply ==
  ASSUME MailboxTypeOK, onReply
  PROVE  MailboxTypeOK'
<1>1. /\ replies # <<>> /\ replies \in Seq(Answers) /\ pipe \in Seq(Requests)
      /\ replies' = Tail(replies)
      /\ UNCHANGED <<list, worker, sent, got, exposed>>
  BY DEF onReply, MailboxTypeOK
<1>2. Head(replies) \in Answers /\ replies' \in Seq(Answers)
  BY <1>1, TailElements
<1>3. CASE ~NeedsTrim(Head(replies))
  <2>1. pipe' = pipe
    BY <1>3 DEF onReply
  <2>2. QED
    BY <1>1, <1>2, <2>1 DEF MailboxTypeOK
<1>4. CASE NeedsTrim(Head(replies))
  <2> DEFINE k == KEEP(Head(replies).token)
  <2>1. Head(replies).token \in Tokens
    BY <1>2 DEF Answers
  <2>2. k \in Requests /\ ~IsPush(k)
    BY <2>1, RequestTypes
  <2>3. pipe' = Append(pipe, k)
    BY <1>4 DEF onReply
  <2> HIDE DEF k
  <2>4. /\ pipe' \in Seq(Requests) /\ Len(pipe') = Len(pipe) + 1 /\ Len(pipe) \in Nat
        /\ \A i \in 1..Len(pipe) : pipe'[i] = pipe[i]
        /\ pipe'[Len(pipe) + 1] = k
    BY <1>1, <2>2, <2>3, AppendElements
  <2>5. ASSUME NEW i \in 1..Len(pipe'), pipe'[i].op = "LPUSH"
        PROVE  \E m \in Messages : pipe'[i].msgs = <<m>>
    <3>1. i \in 1..Len(pipe)
      BY <2>2, <2>4, <2>5 DEF IsPush
    <3>2. QED
      BY <3>1, <2>4, <2>5 DEF MailboxTypeOK
  <2>6. QED
    BY <1>1, <1>2, <2>4, <2>5 DEF MailboxTypeOK
<1>5. QED
  BY <1>3, <1>4

LEMMA TypeStep ==
  ASSUME MailboxTypeOK, [MailboxNext]_mailboxVars
  PROVE  MailboxTypeOK'
<1>1. CASE UNCHANGED mailboxVars
  BY <1>1 DEF MailboxTypeOK, mailboxVars
<1>2. CASE MailboxNext
  BY <1>2, TypeAddMsg, TypeGetMsg, TypeRespond, TypeExecute, TypeOnReply DEF MailboxNext
<1>3. QED
  BY <1>1, <1>2

-----------------------------------------------------------------------------
(* A list over the cap is about to be trimmed.                             *)

LEMMA CapInit == MailboxInit => CapInv
<1>1. ASSUME MailboxInit, NEW t \in Tokens
      PROVE  Len(list[t]) = 0
  BY <1>1, EmptySeq DEF MailboxInit
<1>2. QED
  BY <1>1, TypeInit, MailboxAssumption DEF CapInv, WrongTypeEmpty, OverflowIsTrimmed

\* What is on its way stays on its way when something is added behind it.
LEMMA CapAppends ==
  ASSUME CapInv, MailboxTypeOK', UNCHANGED <<list, replies>>,
         pipe' = pipe \/ \E r \in Requests : pipe' = Append(pipe, r)
  PROVE  CapInv'
<1>1. Len(pipe) \in Nat /\ Len(pipe') \in Nat /\ Len(pipe) <= Len(pipe')
      /\ \A i \in 1..Len(pipe) : pipe'[i] = pipe[i]
  BY AppendElements, LenProperties DEF CapInv, MailboxTypeOK
<1>2. \A i \in 1..Len(pipe) : i \in 1..Len(pipe')
  BY <1>1
<1>3. WrongTypeEmpty'
  BY DEF CapInv, WrongTypeEmpty
<1>4. ASSUME NEW t \in Tokens, Len(list'[t]) > Cap
      PROVE  \/ \E i \in 1..Len(pipe') : pipe'[i] = KEEP(t)
             \/ \E i \in 1..Len(replies') : NeedsTrim(replies'[i]) /\ replies'[i].token = t
  BY <1>1, <1>2, <1>4 DEF CapInv, OverflowIsTrimmed
<1>5. QED
  BY <1>3, <1>4 DEF CapInv, OverflowIsTrimmed

LEMMA CapExecute ==
  ASSUME CapInv, Execute
  PROVE  CapInv'
<1>1. MailboxTypeOK /\ MailboxTypeOK'
  BY TypeExecute DEF CapInv
<1> PICK r \in Requests :
      /\ r = pipe[1]
      /\ IsPush(r) => \E m \in Messages : r.msgs = <<m>>
      /\ r.token \in Tokens
      /\ Len(pipe) \in Nat /\ Len(pipe) > 0 /\ Len(pipe') = Len(pipe) - 1
      /\ \A i \in 1..Len(pipe') : pipe'[i] = pipe[i + 1]
      /\ \A t \in Tokens : list'[t] =
           IF t = r.token /\ t \notin WrongType THEN Applied(r, list[t]) ELSE list[t]
      /\ replies \in Seq(Answers)
      /\ replies' = Append(replies, [op |-> r.op, token |-> r.token,
            ok |-> r.token \notin WrongType,
            n |-> IF r.token \notin WrongType /\ r.op = "LPUSH"
                  THEN Len(Applied(r, list[r.token])) ELSE 0])
  BY <1>1, Executed
<1>2. WrongTypeEmpty'
  BY MailboxAssumption DEF CapInv, WrongTypeEmpty
<1> DEFINE a == [op |-> r.op, token |-> r.token, ok |-> r.token \notin WrongType,
                 n |-> IF r.token \notin WrongType /\ r.op = "LPUSH"
                       THEN Len(Applied(r, list[r.token])) ELSE 0]
<1>3. /\ Len(replies) \in Nat /\ Len(replies') = Len(replies) + 1
      /\ \A i \in 1..Len(replies) : replies'[i] = replies[i]
      /\ replies'[Len(replies) + 1] = a
  <2>1. replies' \in Seq(Answers) /\ replies' = Append(replies, a)
    BY <1>1 DEF MailboxTypeOK
  <2> HIDE DEF a
  <2>2. QED
    BY <2>1, AppendProperties
<1>4. ASSUME NEW t \in Tokens, Len(list'[t]) > Cap
      PROVE  \/ \E i \in 1..Len(pipe') : pipe'[i] = KEEP(t)
             \/ \E i \in 1..Len(replies') : NeedsTrim(replies'[i]) /\ replies'[i].token = t
  <2>1. CASE t = r.token /\ t \notin WrongType /\ IsPush(r)
    <3>1. a.op = "LPUSH" /\ a.ok /\ a.n = Len(list'[t]) /\ a.token = t
      BY <2>1 DEF IsPush
    <3>2. Len(list'[t]) \in Nat /\ Cap \in Nat
      BY <1>1, LenProperties, MailboxAssumption DEF MailboxTypeOK
    <3>3. NeedsTrim(a) /\ a.token = t
      <4> HIDE DEF a
      <4> QED
        BY <3>1, <3>2, <1>4 DEF NeedsTrim
    <3>4. Len(replies) + 1 \in 1..Len(replies')
      BY <1>3
    <3>5. QED
      <4> HIDE DEF a
      <4> QED
        BY <3>3, <3>4, <1>3
  <2>2. CASE ~(t = r.token /\ t \notin WrongType /\ IsPush(r))
    <3>1. list[t] \in Seq(Messages) /\ Len(list[t]) \in Nat /\ Cap \in Nat
          /\ Len(list'[t]) \in Nat
      BY <1>1, LenProperties, MailboxAssumption DEF MailboxTypeOK
    <3>2. Len(list'[t]) <= Len(list[t])
      <4>1. CASE t = r.token /\ t \notin WrongType
        BY <4>1, <2>2, <3>1, TrimLeaves
      <4>2. CASE ~(t = r.token /\ t \notin WrongType)
        BY <4>2, <3>1
      <4>3. QED
        BY <4>1, <4>2
    <3>3. r # KEEP(t)
      <4>1. SUFFICES ASSUME r = KEEP(t) PROVE FALSE
        OBVIOUS
      <4>2. r.token = t /\ r.first = 0 /\ r.last = Cap - 1 /\ ~IsPush(r)
        BY <4>1, RequestTypes DEF KEEP, LTRIM
      <4>3. t \notin WrongType
        BY <1>2, <1>4, <3>1 DEF WrongTypeEmpty
      <4>4. list'[t] = Applied(r, list[t])
        BY <4>2, <4>3
      <4>5. Len(list'[t]) <= Cap
        BY <4>2, <4>4, <3>1, TrimLeaves
      <4>6. QED
        BY <4>5, <1>4, <3>1
    <3>4. Len(list[t]) > Cap
      BY <3>1, <3>2, <1>4
    <3>5. CASE \E i \in 1..Len(pipe) : pipe[i] = KEEP(t)
      <4>1. PICK i \in 1..Len(pipe) : pipe[i] = KEEP(t)
        BY <3>5
      <4>2. i # 1
        BY <4>1, <3>3
      <4>3. i - 1 \in 1..Len(pipe') /\ pipe'[i - 1] = pipe[i]
        BY <4>2
      <4>4. QED
        BY <4>1, <4>3
    <3>6. CASE \E i \in 1..Len(replies) : NeedsTrim(replies[i]) /\ replies[i].token = t
      <4>1. PICK i \in 1..Len(replies) : NeedsTrim(replies[i]) /\ replies[i].token = t
        BY <3>6
      <4>2. i \in 1..Len(replies') /\ replies'[i] = replies[i]
        BY <1>3
      <4>3. QED
        BY <4>1, <4>2
    <3>7. QED
      BY <3>4, <3>5, <3>6 DEF CapInv, OverflowIsTrimmed
  <2>3. QED
    BY <2>1, <2>2
<1>5. QED
  BY <1>1, <1>2, <1>4 DEF CapInv, OverflowIsTrimmed

LEMMA CapOnReply ==
  ASSUME CapInv, onReply
  PROVE  CapInv'
<1>1. MailboxTypeOK /\ MailboxTypeOK'
  BY TypeOnReply DEF CapInv
<1>2. /\ replies # <<>> /\ replies \in Seq(Answers) /\ pipe \in Seq(Requests)
      /\ replies' = Tail(replies) /\ list' = list
      /\ pipe' = IF NeedsTrim(Head(replies))
                 THEN Append(pipe, KEEP(Head(replies).token)) ELSE pipe
  BY <1>1 DEF onReply, MailboxTypeOK
<1>3. /\ Head(replies) = replies[1] /\ Head(replies) \in Answers
      /\ Len(replies') = Len(replies) - 1
      /\ \A i \in 1..Len(replies) - 1 : replies'[i] = replies[i + 1]
      /\ Len(replies) \in Nat
  BY <1>2, TailElements
<1>4. Head(replies).token \in Tokens /\ KEEP(Head(replies).token) \in Requests
  BY <1>3, RequestTypes DEF Answers
<1>5. /\ Len(pipe) \in Nat /\ Len(pipe') \in Nat /\ Len(pipe) <= Len(pipe')
      /\ \A i \in 1..Len(pipe) : pipe'[i] = pipe[i]
      /\ NeedsTrim(Head(replies)) =>
           Len(pipe') > 0 /\ pipe'[Len(pipe')] = KEEP(Head(replies).token)
  BY <1>2, <1>4, AppendElements
<1>6. WrongTypeEmpty'
  BY <1>2 DEF CapInv, WrongTypeEmpty
<1>7. ASSUME NEW t \in Tokens, Len(list'[t]) > Cap
      PROVE  \/ \E i \in 1..Len(pipe') : pipe'[i] = KEEP(t)
             \/ \E i \in 1..Len(replies') : NeedsTrim(replies'[i]) /\ replies'[i].token = t
  <2>1. CASE \E i \in 1..Len(pipe) : pipe[i] = KEEP(t)
    BY <2>1, <1>5
  <2>2. CASE \E i \in 1..Len(replies) : NeedsTrim(replies[i]) /\ replies[i].token = t
    <3>1. PICK i \in 1..Len(replies) : NeedsTrim(replies[i]) /\ replies[i].token = t
      BY <2>2
    <3>2. CASE i = 1
      <4>1. Len(pipe') \in 1..Len(pipe') /\ pipe'[Len(pipe')] = KEEP(t)
        BY <1>3, <1>5, <3>1, <3>2
      <4>2. QED
        BY <4>1
    <3>3. CASE i # 1
      <4>1. i - 1 \in 1..Len(replies') /\ replies'[i - 1] = replies[i]
        BY <1>3, <3>3
      <4>2. QED
        BY <3>1, <4>1
    <3>4. QED
      BY <3>2, <3>3
  <2>3. QED
    BY <1>2, <1>7, <2>1, <2>2 DEF CapInv, OverflowIsTrimmed
<1>8. QED
  BY <1>1, <1>6, <1>7 DEF CapInv, OverflowIsTrimmed

LEMMA CapStep ==
  ASSUME CapInv, [MailboxNext]_mailboxVars
  PROVE  CapInv'
<1>1. MailboxTypeOK /\ MailboxTypeOK'
  BY TypeStep DEF CapInv
<1>2. CASE UNCHANGED mailboxVars
  BY <1>1, <1>2, CapAppends DEF mailboxVars
<1>3. ASSUME NEW m \in Messages, AddMsg(m)
      PROVE  CapInv'
  BY <1>1, <1>3, RequestTypes, CapAppends DEF AddMsg
<1>4. ASSUME NEW t \in Tokens, GetMsg(t)
      PROVE  CapInv'
  BY <1>1, <1>4, CapAppends DEF GetMsg
<1>5. CASE Respond
  <2>1. worker[1].token \in Tokens
    BY <1>1, <1>5 DEF Respond, MailboxTypeOK, Readings
  <2>2. QED
    BY <1>1, <1>5, <2>1, RequestTypes, CapAppends DEF Respond
<1>6. QED
  BY <1>2, <1>3, <1>4, <1>5, CapExecute, CapOnReply DEF MailboxNext

\* Whatever is queued in between, a list over the cap has an LTRIM 0 99 on its
\* way or a reply that makes AddMsg's handler send one: the cap of AddMsg.
THEOREM OverflowTrimmed == MailboxSpec => []OverflowIsTrimmed
<1>1. MailboxSpec => []CapInv
  BY CapInit, CapStep, PTL DEF MailboxSpec
<1>2. CapInv => OverflowIsTrimmed
  BY DEF CapInv
<1>3. QED
  BY <1>1, <1>2, PTL

-----------------------------------------------------------------------------
(* A response lists its messages in the order they were sent.              *)

LEMMA OrderInit == MailboxInit => OrderInv
<1> SUFFICES ASSUME MailboxInit PROVE OrderInv
  OBVIOUS
<1>1. Len(sent) = 0 /\ Len(pipe) = 0 /\ Len(got) = 0 /\ \A t \in Tokens : Len(list[t]) = 0
  BY EmptySeq DEF MailboxInit
<1>2. worker = <<>>
  BY DEF MailboxInit
<1>3. QED
  BY <1>1, <1>2 DEF OrderInv, SentOnce, ListsInOrder, PipeInOrder, ListsBeforePipe,
                    WorkerInOrder, ResponsesInOrder, ListOfToken

\* The message sent last comes after all the others, and they keep their order.
LEMMA SentGrows ==
  ASSUME MailboxTypeOK, SentOnce, NEW m \in Messages, AddMsg(m)
  PROVE  /\ SentOnce' /\ WasSent(sent', m)
         /\ \A x : WasSent(sent, x) => WasSent(sent', x) /\ Before(sent', x, m)
         /\ \A x, y : Before(sent, x, y) => Before(sent', x, y)
<1>1. /\ Len(sent) \in Nat /\ Len(sent') = Len(sent) + 1
      /\ \A i \in 1..Len(sent) : sent'[i] = sent[i]
      /\ sent'[Len(sent) + 1] = m
  BY AppendElements DEF AddMsg, MailboxTypeOK
<1>2. \A i \in 1..Len(sent) : i \in 1..Len(sent') /\ i < Len(sent) + 1 /\ sent[i] # m
  BY <1>1 DEF AddMsg
<1>3. Len(sent) + 1 \in 1..Len(sent')
  BY <1>1
<1>4. SentOnce'
  <2> SUFFICES ASSUME NEW i \in 1..Len(sent'), NEW j \in 1..Len(sent'), sent'[i] = sent'[j]
               PROVE  i = j
    BY DEF SentOnce
  <2>1. (i \in 1..Len(sent) \/ i = Len(sent) + 1) /\ (j \in 1..Len(sent) \/ j = Len(sent) + 1)
    BY <1>1
  <2>2. QED
    BY <2>1, <1>1, <1>2 DEF SentOnce
<1>5. WasSent(sent', m)
  BY <1>1, <1>3 DEF WasSent
<1>6. ASSUME NEW x, WasSent(sent, x)
      PROVE  WasSent(sent', x) /\ Before(sent', x, m)
  BY <1>1, <1>2, <1>3, <1>6 DEF WasSent, Before
<1>7. ASSUME NEW x, NEW y, Before(sent, x, y)
      PROVE  Before(sent', x, y)
  BY <1>1, <1>2, <1>7 DEF Before
<1>8. QED
  BY <1>4, <1>5, <1>6, <1>7

LEMMA OrderAddMsg ==
  ASSUME MailboxTypeOK, OrderInv, NEW m \in Messages, AddMsg(m)
  PROVE  OrderInv'
<1>1. /\ SentOnce' /\ WasSent(sent', m)
      /\ \A x : WasSent(sent, x) => WasSent(sent', x) /\ Before(sent', x, m)
      /\ \A x, y : Before(sent, x, y) => Before(sent', x, y)
  BY SentGrows DEF OrderInv
<1>2. UNCHANGED <<list, worker, got>>
  BY DEF AddMsg
<1>3. \A l, t : ListOfToken(sent, l, t) => ListOfToken(sent', l, t)
  BY <1>1 DEF ListOfToken
<1>4. \A l, t : ResponseTo(sent, l, t) => ResponseTo(sent', l, t)
  BY <1>1 DEF ResponseTo
<1>5. ListsInOrder'
  BY <1>2, <1>3 DEF OrderInv, ListsInOrder
<1>6. WorkerInOrder'
  BY <1>2, <1>3 DEF OrderInv, WorkerInOrder
<1>7. ResponsesInOrder'
  BY <1>2, <1>4 DEF OrderInv, ResponsesInOrder
<1> DEFINE r == LPUSH(m)
<1>8. r \in Requests /\ IsPush(r) /\ r.msgs[1] = m /\ r.token = ToOf[m]
  BY RequestTypes
<1>9. pipe' = Append(pipe, r) /\ pipe \in Seq(Requests)
  BY DEF AddMsg, MailboxTypeOK
<1> HIDE DEF r
<1>10. /\ Len(pipe) \in Nat /\ Len(pipe') = Len(pipe) + 1
       /\ \A i \in 1..Len(pipe) : pipe'[i] = pipe[i]
       /\ pipe'[Len(pipe) + 1] = r
  BY <1>8, <1>9, AppendElements
<1>11. \A i \in 1..Len(pipe') : i \in 1..Len(pipe) \/ i = Len(pipe) + 1
  BY <1>10
<1>12. PipeInOrder'
  <2>1. ASSUME NEW i \in 1..Len(pipe'), IsPush(pipe'[i])
        PROVE  WasSent(sent', pipe'[i].msgs[1]) /\ pipe'[i].token = ToOf[pipe'[i].msgs[1]]
    BY <1>1, <1>8, <1>10, <1>11, <2>1 DEF OrderInv, PipeInOrder
  <2>2. ASSUME NEW i \in 1..Len(pipe'), NEW j \in 1..Len(pipe'), i < j,
               IsPush(pipe'[i]), IsPush(pipe'[j])
        PROVE  Before(sent', pipe'[i].msgs[1], pipe'[j].msgs[1])
    <3>1. i \in 1..Len(pipe) /\ pipe'[i] = pipe[i]
      BY <1>10, <2>2
    <3>2. CASE j \in 1..Len(pipe)
      BY <3>1, <3>2, <2>2, <1>1, <1>10 DEF OrderInv, PipeInOrder
    <3>3. CASE j = Len(pipe) + 1
      BY <3>1, <3>3, <2>2, <1>1, <1>8, <1>10 DEF OrderInv, PipeInOrder
    <3>4. QED
      BY <3>2, <3>3, <1>11
  <2>3. QED
    BY <2>1, <2>2 DEF PipeInOrder
<1>13. ListsBeforePipe'
  <2> SUFFICES ASSUME NEW t \in Tokens, NEW k \in 1..Len(list[t]), NEW i \in 1..Len(pipe'),
                      IsPush(pipe'[i])
               PROVE  Before(sent', list[t][k], pipe'[i].msgs[1])
    BY <1>2 DEF ListsBeforePipe
  <2>1. WasSent(sent, list[t][k])
    BY DEF OrderInv, ListsInOrder, ListOfToken
  <2>2. CASE i \in 1..Len(pipe)
    BY <2>2, <1>1, <1>10 DEF OrderInv, ListsBeforePipe
  <2>3. CASE i = Len(pipe) + 1
    BY <2>1, <2>3, <1>1, <1>8, <1>10
  <2>4. QED
    BY <2>2, <2>3, <1>11
<1>14. QED
  BY <1>1, <1>5, <1>6, <1>7, <1>12, <1>13 DEF OrderInv

LEMMA OrderGetMsg ==
  ASSUME MailboxTypeOK, OrderInv, NEW t \in Tokens, GetMsg(t)
  PROVE  OrderInv'
<1>1. UNCHANGED <<list, pipe, sent>>
  BY DEF GetMsg
<1>2. SentOnce' /\ ListsInOrder' /\ PipeInOrder' /\ ListsBeforePipe'
  BY <1>1 DEF OrderInv, SentOnce, ListsInOrder, PipeInOrder, ListsBeforePipe
<1>3. CASE t \in WrongType
  <2> DEFINE r == [token |-> t, status |-> 408, msgs |-> <<>>]
  <2>1. r \in Responses /\ r.msgs = <<>> /\ r.token = t
    BY DEF Responses
  <2>2. got' = Append(got, r) /\ got \in Seq(Responses) /\ worker' = worker
    BY <1>3 DEF GetMsg, MailboxTypeOK
  <2> HIDE DEF r
  <2>3. /\ Len(got) \in Nat /\ Len(got') = Len(got) + 1
        /\ \A i \in 1..Len(got) : got'[i] = got[i]
        /\ got'[Len(got) + 1] = r
    BY <2>1, <2>2, AppendElements
  <2>4. ResponseTo(sent, <<>>, t)
    BY EmptySeq DEF ResponseTo
  <2>5. ASSUME NEW k \in 1..Len(got')
        PROVE  ResponseTo(sent, got'[k].msgs, got'[k].token)
    <3>1. CASE k \in 1..Len(got)
      BY <3>1, <2>3 DEF OrderInv, ResponsesInOrder
    <3>2. CASE k = Len(got) + 1
      BY <3>2, <2>1, <2>3, <2>4
    <3>3. QED
      BY <3>1, <3>2, <2>3
  <2>6. ResponsesInOrder'
    BY <1>1, <2>5 DEF ResponsesInOrder
  <2>7. WorkerInOrder'
    BY <1>1, <2>2 DEF OrderInv, WorkerInOrder
  <2>8. QED
    BY <1>2, <2>6, <2>7 DEF OrderInv
<1>4. CASE t \notin WrongType
  <2>1. worker' = <<[token |-> t, arr |-> list[t]]>> /\ got' = got
    BY <1>4 DEF GetMsg
  <2>2. worker'[1].arr = list[t] /\ worker'[1].token = t
    BY <2>1
  <2>3. WorkerInOrder'
    BY <1>1, <2>2 DEF OrderInv, ListsInOrder, WorkerInOrder
  <2>4. ResponsesInOrder'
    BY <1>1, <2>1 DEF OrderInv, ResponsesInOrder
  <2>5. QED
    BY <1>2, <2>3, <2>4 DEF OrderInv
<1>5. QED
  BY <1>3, <1>4

\* An LTRIM posted behind the others disturbs no order.
LEMMA TrimPosted ==
  ASSUME MailboxTypeOK, OrderInv, NEW r \in Requests, ~IsPush(r),
         pipe' = Append(pipe, r), UNCHANGED <<list, sent>>
  PROVE  PipeInOrder' /\ ListsBeforePipe'
<1>1. /\ Len(pipe) \in Nat /\ Len(pipe') = Len(pipe) + 1
      /\ \A i \in 1..Len(pipe) : pipe'[i] = pipe[i]
      /\ pipe'[Len(pipe) + 1] = r
  BY AppendElements DEF MailboxTypeOK
<1>2. \A i \in 1..Len(pipe') : IsPush(pipe'[i]) => i \in 1..Len(pipe) /\ pipe'[i] = pipe[i]
  BY <1>1
<1>3. PipeInOrder'
  BY <1>2 DEF OrderInv, PipeInOrder
<1>4. ListsBeforePipe'
  BY <1>2 DEF OrderInv, ListsBeforePipe
<1>5. QED
  BY <1>3, <1>4

LEMMA OrderRespond ==
  ASSUME MailboxTypeOK, OrderInv, Respond
  PROVE  OrderInv'
<1> DEFINE l == worker[1].arr
           t == worker[1].token
           r == [token |-> t, status |-> 200, msgs |-> OldestFirst(l)]
<1>1. t \in Tokens /\ l \in Seq(Messages) /\ ListOfToken(sent, l, t)
  BY DEF Respond, MailboxTypeOK, Readings, OrderInv, WorkerInOrder
<1>2. /\ OldestFirst(l) \in Seq(Messages)
      /\ Len(OldestFirst(l)) = Len(l) /\ Len(l) \in Nat
      /\ \A i \in 1..Len(l) : Len(l) - i + 1 \in 1..Len(l)
                              /\ OldestFirst(l)[i] = l[Len(l) - i + 1]
  BY <1>1, OldestFirstElements
<1>3. UNCHANGED <<list, sent>> /\ worker' = <<>>
  BY DEF Respond
<1>4. PipeInOrder' /\ ListsBeforePipe'
  <2>1. DROP(t) \in Requests /\ ~IsPush(DROP(t)) /\ pipe' = Append(pipe, DROP(t))
    BY <1>1, RequestTypes DEF Respond
  <2>2. QED
    BY <1>3, <2>1, TrimPosted
<1>5. ResponseTo(sent, OldestFirst(l), t)
  <2> HIDE DEF l, t
  <2>1. ASSUME NEW i \in 1..Len(l)
        PROVE  WasSent(sent, OldestFirst(l)[i]) /\ ToOf[OldestFirst(l)[i]] = t
    BY <1>1, <1>2 DEF ListOfToken
  <2>2. ASSUME NEW i \in 1..Len(l), NEW j \in 1..Len(l), i < j
        PROVE  Before(sent, OldestFirst(l)[i], OldestFirst(l)[j])
    <3>1. Len(l) - j + 1 < Len(l) - i + 1
      BY <1>2, <2>2
    <3>2. Before(sent, l[Len(l) - i + 1], l[Len(l) - j + 1])
      BY <3>1, <1>1, <1>2 DEF ListOfToken
    <3>3. QED
      BY <3>2, <1>2
  <2>3. QED
    BY <1>2, <2>1, <2>2 DEF ResponseTo
<1>6. r \in Responses /\ r.msgs = OldestFirst(l) /\ r.token = t
  BY <1>1, <1>2 DEF Responses
<1>7. got' = Append(got, r) /\ got \in Seq(Responses)
  BY DEF Respond, MailboxTypeOK
<1>8. ResponsesInOrder'
  <2> HIDE DEF l, t, r
  <2>1. /\ Len(got) \in Nat /\ Len(got') = Len(got) + 1
        /\ \A i \in 1..Len(got) : got'[i] = got[i]
        /\ got'[Len(got) + 1] = r
    BY <1>6, <1>7, AppendElements
  <2>2. ASSUME NEW k \in 1..Len(got')
        PROVE  ResponseTo(sent, got'[k].msgs, got'[k].token)
    <3>1. CASE k \in 1..Len(got)
      BY <3>1, <2>1 DEF OrderInv, ResponsesInOrder
    <3>2. CASE k = Len(got) + 1
      BY <3>2, <1>5, <1>6, <2>1
    <3>3. QED
      BY <3>1, <3>2, <2>1
  <2>3. QED
    BY <1>3, <2>2 DEF ResponsesInOrder
<1>9. SentOnce' /\ ListsInOrder' /\ WorkerInOrder'
  BY <1>3 DEF OrderInv, SentOnce, ListsInOrder, WorkerInOrder
<1>10. QED
  BY <1>4, <1>8, <1>9 DEF OrderInv

LEMMA OrderOnReply ==
  ASSUME MailboxTypeOK, OrderInv, onReply
  PROVE  OrderInv'
<1>1. UNCHANGED <<list, worker, sent, got>>
  BY DEF onReply
<1>2. PipeInOrder' /\ ListsBeforePipe'
  <2>1. CASE ~NeedsTrim(Head(replies))
    <3>1. pipe' = pipe
      BY <2>1 DEF onReply
    <3>2. QED
      BY <1>1, <3>1 DEF OrderInv, PipeInOrder, ListsBeforePipe
  <2>2. CASE NeedsTrim(Head(replies))
    <3>1. replies # <<>> /\ replies \in Seq(Answers)
      BY DEF onReply, MailboxTypeOK
    <3>2. Head(replies) \in Answers
      BY <3>1, TailElements
    <3>3. KEEP(Head(replies).token) \in Requests /\ ~IsPush(KEEP(Head(replies).token))
      BY <3>2, RequestTypes DEF Answers
    <3>4. pipe' = Append(pipe, KEEP(Head(replies).token))
      BY <2>2 DEF onReply
    <3>5. QED
      BY <1>1, <3>3, <3>4, TrimPosted
  <2>3. QED
    BY <2>1, <2>2
<1>3. SentOnce' /\ ListsInOrder' /\ WorkerInOrder' /\ ResponsesInOrder'
  BY <1>1 DEF OrderInv, SentOnce, ListsInOrder, WorkerInOrder, ResponsesInOrder
<1>4. QED
  BY <1>2, <1>3 DEF OrderInv

\* What LTRIM leaves of an ordered list, and LPUSH of a newer message makes of
\* it, is ordered.
LEMMA TrimKeepsOrder ==
  ASSUME NEW s, NEW t, NEW q \in Seq(Messages), ListOfToken(s, q, t),
         NEW r \in Requests, ~IsPush(r)
  PROVE  /\ ListOfToken(s, Applied(r, q), t)
         /\ \A k \in 1..Len(Applied(r, q)) : \E j \in 1..Len(q) : Applied(r, q)[k] = q[j]
<1> DEFINE l == Applied(r, q)
<1>1. /\ l \in Seq(Messages)
      /\ \E d \in 0..Cap : \A i \in 1..Len(l) : i + d \in 1..Len(q) /\ l[i] = q[i + d]
  BY TrimLeaves
<1> HIDE DEF l
<1>2. PICK d \in 0..Cap : \A i \in 1..Len(l) : i + d \in 1..Len(q) /\ l[i] = q[i + d]
  BY <1>1
<1>3. Len(l) \in Nat /\ d \in Int
  BY <1>1, LenProperties, MailboxAssumption
<1>4. ASSUME NEW i \in 1..Len(l)
      PROVE  WasSent(s, l[i]) /\ ToOf[l[i]] = t
  BY <1>2 DEF ListOfToken
<1>5. ASSUME NEW i \in 1..Len(l), NEW j \in 1..Len(l), i < j
      PROVE  Before(s, l[j], l[i])
  <2>1. i + d < j + d
    BY <1>3, <1>5
  <2>2. QED
    BY <1>2, <2>1 DEF ListOfToken
<1>6. ListOfToken(s, l, t)
  BY <1>4, <1>5 DEF ListOfToken
<1>7. QED
  BY <1>2, <1>6 DEF l

LEMMA PushKeepsOrder ==
  ASSUME NEW s, NEW t, NEW q \in Seq(Messages), ListOfToken(s, q, t),
         NEW r \in Requests, IsPush(r), NEW m \in Messages, r.msgs = <<m>>,
         WasSent(s, m), ToOf[m] = t, \A k \in 1..Len(q) : Before(s, q[k], m)
  PROVE  /\ ListOfToken(s, Applied(r, q), t)
         /\ \A k \in 1..Len(Applied(r, q)) :
              Applied(r, q)[k] = m \/ \E j \in 1..Len(q) : Applied(r, q)[k] = q[j]
<1> DEFINE l == Applied(r, q)
<1>1. /\ Len(l) = Len(q) + 1 /\ Len(q) \in Nat /\ l[1] = m
      /\ \A i \in 2..Len(q) + 1 : l[i] = q[i - 1]
  BY PushLeaves
<1> HIDE DEF l
<1>2. \A i \in 1..Len(l) : i = 1 \/ (i - 1 \in 1..Len(q) /\ l[i] = q[i - 1])
  BY <1>1
<1>3. ASSUME NEW i \in 1..Len(l)
      PROVE  WasSent(s, l[i]) /\ ToOf[l[i]] = t
  BY <1>1, <1>2 DEF ListOfToken
<1>4. ASSUME NEW i \in 1..Len(l), NEW j \in 1..Len(l), i < j
      PROVE  Before(s, l[j], l[i])
  <2>1. j - 1 \in 1..Len(q) /\ l[j] = q[j - 1]
    BY <1>1, <1>2, <1>4
  <2>2. CASE i = 1
    BY <1>1, <2>1, <2>2
  <2>3. CASE i # 1
    <3>1. i - 1 \in 1..Len(q) /\ l[i] = q[i - 1] /\ i - 1 < j - 1
      BY <1>1, <1>2, <1>4, <2>3
    <3>2. QED
      BY <2>1, <3>1 DEF ListOfToken
  <2>4. QED
    BY <2>2, <2>3
<1>5. ListOfToken(s, l, t)
  BY <1>3, <1>4 DEF ListOfToken
<1>6. QED
  BY <1>1, <1>2, <1>5 DEF l

LEMMA OrderExecute ==
  ASSUME MailboxTypeOK, OrderInv, Execute
  PROVE  OrderInv'
<1> PICK r \in Requests :
      /\ r = pipe[1]
      /\ IsPush(r) => \E m \in Messages : r.msgs = <<m>>
      /\ r.token \in Tokens
      /\ Len(pipe) \in Nat /\ Len(pipe) > 0 /\ Len(pipe') = Len(pipe) - 1
      /\ \A i \in 1..Len(pipe') : pipe'[i] = pipe[i + 1]
      /\ list' \in [Tokens -> Seq(Messages)]
      /\ \A t \in Tokens : list'[t] =
           IF t = r.token /\ t \notin WrongType THEN Applied(r, list[t]) ELSE list[t]
  BY Executed
<1>1. UNCHANGED <<worker, sent, got>>
  BY DEF Execute
<1>2. SentOnce' /\ WorkerInOrder' /\ ResponsesInOrder'
  BY <1>1 DEF OrderInv, SentOnce, WorkerInOrder, ResponsesInOrder
<1>3. \A i \in 1..Len(pipe') : i + 1 \in 1..Len(pipe) /\ 1 < i + 1 /\ pipe'[i] = pipe[i + 1]
  OBVIOUS
<1>4. PipeInOrder'
  <2>1. ASSUME NEW i \in 1..Len(pipe'), IsPush(pipe'[i])
        PROVE  WasSent(sent, pipe'[i].msgs[1]) /\ pipe'[i].token = ToOf[pipe'[i].msgs[1]]
    BY <1>3, <2>1 DEF OrderInv, PipeInOrder
  <2>2. ASSUME NEW i \in 1..Len(pipe'), NEW j \in 1..Len(pipe'), i < j,
               IsPush(pipe'[i]), IsPush(pipe'[j])
        PROVE  Before(sent, pipe'[i].msgs[1], pipe'[j].msgs[1])
    <3>1. i + 1 < j + 1
      BY <2>2
    <3>2. QED
      BY <1>3, <2>2, <3>1 DEF OrderInv, PipeInOrder
  <2>3. QED
    BY <1>1, <2>1, <2>2 DEF PipeInOrder
<1>5. ASSUME NEW t \in Tokens
      PROVE  /\ ListOfToken(sent, list'[t], t)
             /\ \A k \in 1..Len(list'[t]) : \A i \in 1..Len(pipe') :
                  IsPush(pipe'[i]) => Before(sent, list'[t][k], pipe'[i].msgs[1])
  <2>1. /\ list[t] \in Seq(Messages)
        /\ ListOfToken(sent, list[t], t)
        /\ \A k \in 1..Len(list[t]) : \A i \in 1..Len(pipe) :
             IsPush(pipe[i]) => Before(sent, list[t][k], pipe[i].msgs[1])
    BY DEF MailboxTypeOK, OrderInv, ListsInOrder, ListsBeforePipe
  <2>2. CASE ~(t = r.token /\ t \notin WrongType)
    <3>1. list'[t] = list[t]
      BY <2>2
    <3>2. QED
      BY <2>1, <3>1, <1>3
  <2>3. CASE t = r.token /\ t \notin WrongType /\ ~IsPush(r)
    <3>1. list'[t] = Applied(r, list[t])
      BY <2>3
    <3>2. /\ ListOfToken(sent, list'[t], t)
          /\ \A k \in 1..Len(list'[t]) : \E j \in 1..Len(list[t]) : list'[t][k] = list[t][j]
      BY <2>1, <2>3, <3>1, TrimKeepsOrder
    <3>3. QED
      BY <2>1, <3>2, <1>3
  <2>4. CASE t = r.token /\ t \notin WrongType /\ IsPush(r)
    <3>1. list'[t] = Applied(r, list[t])
      BY <2>4
    <3>2. PICK m \in Messages : r.msgs = <<m>>
      BY <2>4
    <3>3. 1 \in 1..Len(pipe) /\ IsPush(pipe[1]) /\ pipe[1].msgs[1] = m /\ pipe[1].token = t
      BY <2>4, <3>2
    <3>4. WasSent(sent, m) /\ ToOf[m] = t
      BY <3>3 DEF OrderInv, PipeInOrder
    <3>5. \A k \in 1..Len(list[t]) : Before(sent, list[t][k], m)
      BY <2>1, <3>3
    <3>6. /\ ListOfToken(sent, list'[t], t)
          /\ \A k \in 1..Len(list'[t]) :
               list'[t][k] = m \/ \E j \in 1..Len(list[t]) : list'[t][k] = list[t][j]
      <4>1. IsPush(r) /\ list[t] \in Seq(Messages) /\ ListOfToken(sent, list[t], t)
        BY <2>1, <2>4
      <4> DEFINE q == list[t]
      <4> HIDE DEF q
      <4>2. /\ ListOfToken(sent, Applied(r, q), t)
            /\ \A k \in 1..Len(Applied(r, q)) :
                 Applied(r, q)[k] = m \/ \E j \in 1..Len(q) : Applied(r, q)[k] = q[j]
        <5>1. q \in Seq(Messages) /\ ListOfToken(sent, q, t)
          BY <4>1 DEF q
        <5>2. \A k \in 1..Len(q) : Before(sent, q[k], m)
          BY <3>5 DEF q
        <5>3. QED
          BY <4>1, <3>2, <3>4, <5>1, <5>2, PushKeepsOrder
      <4>3. QED
        BY <3>1, <4>2 DEF q
    <3>7. ASSUME NEW i \in 1..Len(pipe'), IsPush(pipe'[i])
          PROVE  Before(sent, m, pipe'[i].msgs[1])
      BY <1>3, <3>3, <3>7 DEF OrderInv, PipeInOrder
    <3>8. QED
      BY <2>1, <3>6, <3>7, <1>3
  <2>5. QED
    BY <2>2, <2>3, <2>4
<1>6. ListsInOrder' /\ ListsBeforePipe'
  BY <1>1, <1>5 DEF ListsInOrder, ListsBeforePipe
<1>7. QED
  BY <1>2, <1>4, <1>6 DEF OrderInv

LEMMA OrderStep ==
  ASSUME MailboxTypeOK, OrderInv, [MailboxNext]_mailboxVars
  PROVE  OrderInv'
<1>1. CASE UNCHANGED mailboxVars
  BY <1>1 DEF mailboxVars, OrderInv, SentOnce, ListsInOrder, PipeInOrder, ListsBeforePipe,
              WorkerInOrder, ResponsesInOrder
<1>2. CASE MailboxNext
  BY <1>2, OrderAddMsg, OrderGetMsg, OrderRespond, OrderExecute, OrderOnReply DEF MailboxNext
<1>3. QED
  BY <1>1, <1>2

\* As no message is sent twice, what was sent before has the lower position.
LEMMA OrderIsEnough ==
  ASSUME MailboxTypeOK, OrderInv
  PROVE  ResponseInOrder
<1>1. ASSUME NEW i \in 1..Len(sent)
      PROVE  SentPosition(sent[i]) = i
  BY DEF SentPosition, OrderInv, SentOnce
<1>2. ASSUME NEW m, NEW n, Before(sent, m, n)
      PROVE  SentPosition(m) < SentPosition(n)
  BY <1>1, <1>2 DEF Before
<1>3. QED
  BY <1>2 DEF OrderInv, ResponsesInOrder, ResponseTo, ResponseInOrder

\* However sends, receives, trims and the two connections interleave, a
\* response of /gcm/recv lists messages of its own token, each once and in the
\* order in which /gcm/send answered them.
THEOREM ResponsesOrdered == MailboxSpec => []ResponseInOrder
<1>1. MailboxInit => MailboxTypeOK /\ OrderInv
  BY TypeInit, OrderInit
<1>2. MailboxTypeOK /\ OrderInv /\ [MailboxNext]_mailboxVars => (MailboxTypeOK /\ OrderInv)'
  BY TypeStep, OrderStep
<1>3. MailboxTypeOK /\ OrderInv => ResponseInOrder
  BY OrderIsEnough
<1>4. QED
  BY <1>1, <1>2, <1>3, PTL DEF MailboxSpec

-----------------------------------------------------------------------------
(* No message is lost but in the window between an LRANGE and its LTRIM.   *)
(*                                                                         *)
(* An LTRIM 100 -1 drops the newest hundred of a list: they were in the    *)
(* reply to the LRANGE before it or came after that reply.  An LTRIM 0 99  *)
(* drops what has a hundred newer messages in front of it.                 *)

PipeTrims ==
  \A i \in 1..Len(pipe) : ~IsPush(pipe[i]) =>
    pipe[i] = KEEP(pipe[i].token) \/ pipe[i] = DROP(pipe[i].token)

Listed(t, m) == \E k \in 1..Len(list[t]) : list[t][k] = m
DroppedIsKnown ==
  \A t \in Tokens : DropPending(t) =>
    \A m \in Messages : Listed(t, m) => m \in exposed \/ Seen(m)

Accounted(m) ==
  OnItsWay(m) \/ Kept(m) \/ Seen(m) \/ PushedOut(m) \/ m \in exposed \/ ToOf[m] \in WrongType

LossInv ==
  /\ PipeTrims /\ DroppedIsKnown
  /\ \A m \in Messages : WasSent(sent, m) => Accounted(m)

LEMMA PositionOf ==
  ASSUME MailboxTypeOK, OrderInv
  PROVE  /\ \A i \in 1..Len(sent) : SentPosition(sent[i]) = i
         /\ \A x, y : Before(sent, x, y) =>
              /\ SentPosition(x) \in 1..Len(sent) /\ sent[SentPosition(x)] = x
              /\ SentPosition(y) \in 1..Len(sent) /\ sent[SentPosition(y)] = y
              /\ SentPosition(x) < SentPosition(y)
<1>1. ASSUME NEW i \in 1..Len(sent)
      PROVE  SentPosition(sent[i]) = i
  BY DEF SentPosition, OrderInv, SentOnce
<1> QED
  BY <1>1 DEF Before

LEMMA UpTo ==
  ASSUME NEW n \in Nat
  PROVE  IsFiniteSet(1..n) /\ Cardinality(1..n) = n
<1>1. 1 \in Int /\ n \in Int
  OBVIOUS
<1>2. IsFiniteSet(1..n) /\ Cardinality(1..n) = IF 1 > n THEN 0 ELSE n - 1 + 1
  BY <1>1, FS_Interval
<1>3. (IF 1 > n THEN 0 ELSE n - 1 + 1) = n
  OBVIOUS
<1> QED
  BY <1>2, <1>3

\* What lies below the cap of a list has that many newer messages above it.
LEMMA BelowTheCap ==
  ASSUME MailboxTypeOK, OrderInv, NEW t \in Tokens, NEW k \in 1..Len(list[t]), k > Cap
  PROVE  PushedOut(list[t][k])
<1> DEFINE l == list[t]
           m == l[k]
           S == {i \in SentPosition(m) + 1 .. Len(sent) : ToOf[sent[i]] = ToOf[m]}
           f == [j \in 1..Cap |-> SentPosition(l[j])]
<1>1. /\ Cap \in Nat /\ Len(sent) \in Nat /\ Len(l) \in Nat
      /\ \A i \in 1..Len(l) : ToOf[l[i]] = t
      /\ \A i, j \in 1..Len(l) : i < j => Before(sent, l[j], l[i])
  BY MailboxAssumption, LenProperties
     DEF MailboxTypeOK, OrderInv, ListsInOrder, ListOfToken
<1>2. \A j \in 1..Cap : j \in 1..Len(l) /\ j < k
  BY <1>1
<1>3. ASSUME NEW j \in 1..Cap
      PROVE  f[j] \in S
  <2>1. Before(sent, m, l[j]) /\ ToOf[l[j]] = t /\ ToOf[m] = t
    BY <1>1, <1>2
  <2>2. /\ SentPosition(l[j]) \in 1..Len(sent) /\ sent[SentPosition(l[j])] = l[j]
        /\ SentPosition(m) \in 1..Len(sent) /\ SentPosition(m) < SentPosition(l[j])
    <3> HIDE DEF l, m
    <3> QED
      BY <2>1, PositionOf
  <2>3. SentPosition(l[j]) \in SentPosition(m) + 1 .. Len(sent)
    BY <1>1, <2>2
  <2> QED
    BY <2>1, <2>2, <2>3
<1>4. ASSUME NEW i \in 1..Cap, NEW j \in 1..Cap, i < j
      PROVE  f[i] # f[j]
  <2>1. Before(sent, l[j], l[i])
    BY <1>1, <1>2, <1>4
  <2>2. SentPosition(l[j]) < SentPosition(l[i]) /\ SentPosition(l[j]) \in 1..Len(sent)
        /\ SentPosition(l[i]) \in 1..Len(sent)
    <3> HIDE DEF l
    <3> QED
      BY <2>1, PositionOf
  <2> QED
    BY <1>1, <2>2
<1>5. IsFiniteSet(S) /\ Cardinality(S) \in Nat
  <2>1. SentPosition(m) \in Int
    <3>1. Before(sent, m, l[1])
      BY <1>1, <1>2, MailboxAssumption
    <3> HIDE DEF l, m
    <3> QED
      BY <3>1, <1>1, PositionOf
  <2>2. IsFiniteSet(SentPosition(m) + 1 .. Len(sent))
    <3> DEFINE first == SentPosition(m) + 1
    <3>1. first \in Int /\ Len(sent) \in Int
      BY <1>1, <2>1
    <3> HIDE DEF first
    <3>2. IsFiniteSet(first .. Len(sent))
      BY <3>1, FS_Interval
    <3> QED
      BY <3>2 DEF first
  <2>3. S \in SUBSET (SentPosition(m) + 1 .. Len(sent))
    OBVIOUS
  <2> HIDE DEF S
  <2> QED
    BY <2>2, <2>3, FS_Subset, FS_CardinalityType
<1>6. IsFiniteSet(1..Cap) /\ Cardinality(1..Cap) = Cap
  BY MailboxAssumption, UpTo
<1>7. Cardinality(S) >= Cap
  <2> SUFFICES ASSUME Cardinality(S) < Cap
               PROVE  FALSE
    BY <1>1, <1>5
  <2>1. f \in [1..Cap -> S]
    BY <1>3
  <2>2. \E i, j \in 1..Cap : i # j /\ f[i] = f[j]
    <3> HIDE DEF S, f
    <3> QED
      BY <1>5, <1>6, <2>1, FS_PigeonHole
  <2>3. PICK i \in 1..Cap, j \in 1..Cap : i # j /\ f[i] = f[j]
    BY <2>2
  <2> HIDE DEF f
  <2>4. i < j \/ j < i
    BY <1>1, <2>3
  <2> QED
    BY <1>4, <2>3, <2>4
<1>8. PushedOut(m) <=> Cardinality(S) >= Cap
  BY DEF PushedOut
<1> HIDE DEF S
<1> QED
  BY <1>7, <1>8

LEMMA LossInit == MailboxInit => LossInv
<1> SUFFICES ASSUME MailboxInit
             PROVE  LossInv
  OBVIOUS
<1>1. /\ pipe = <<>> /\ sent = <<>> /\ worker = <<>>
      /\ Len(pipe) = 0 /\ Len(sent) = 0
  BY EmptySeq DEF MailboxInit
<1> QED
  BY <1>1 DEF LossInv, PipeTrims, DroppedIsKnown, DropPending, WasSent

\* What is pushed out stays so: positions are never taken back.
LEMMA PushedOutStays ==
  ASSUME MailboxTypeOK, MailboxTypeOK', OrderInv, OrderInv',
         Len(sent) <= Len(sent'), \A i \in 1..Len(sent) : sent'[i] = sent[i],
         NEW m, WasSent(sent, m), PushedOut(m)
  PROVE  PushedOut(m)'
<1> PICK k \in 1..Len(sent) : sent[k] = m
  BY DEF WasSent
<1> DEFINE S == {i \in k + 1 .. Len(sent) : ToOf[sent[i]] = ToOf[m]}
           T == {i \in k + 1 .. Len(sent') : ToOf[sent'[i]] = ToOf[m]}
<1>1. /\ Len(sent) \in Nat /\ Len(sent') \in Nat /\ k \in Int /\ k >= 1 /\ k + 1 \in Int
  BY LenProperties DEF MailboxTypeOK
<1>2. SentPosition(m) = k
  BY PositionOf
<1>3. SentPosition(m)' = k
  <2>1. k \in 1..Len(sent') /\ sent'[k] = m
    BY <1>1
  <2>2. (\A i \in 1..Len(sent) : SentPosition(sent[i]) = i)'
    BY PositionOf, PTL
  <2> QED
    BY <2>1, <2>2
<1>4. Cardinality(S) >= Cap
  BY <1>2 DEF PushedOut
<1>5. S \in SUBSET T /\ T \in SUBSET (k + 1 .. Len(sent'))
  BY <1>1
<1>6. IsFiniteSet(T) /\ Cardinality(T) \in Nat
  <2> HIDE DEF T
  <2>1. PICK a \in Int, b \in Int : a = k + 1 /\ b = Len(sent')
    BY <1>1
  <2>2. IsFiniteSet(a .. b)
    BY FS_Interval
  <2> QED
    BY <1>5, <2>1, <2>2, FS_Subset, FS_CardinalityType
<1>7. Cardinality(S) <= Cardinality(T) /\ Cardinality(S) \in Nat
  <2> HIDE DEF S, T
  <2> QED
    BY <1>5, <1>6, FS_Subset, FS_CardinalityType
<1>8. Cardinality(T) >= Cap
  BY <1>4, <1>6, <1>7, MailboxAssumption
<1>9. PushedOut(m)' <=> Cardinality(T) >= Cap
  BY <1>3 DEF PushedOut
<1> QED
  BY <1>8, <1>9

\* A request posted behind the others.
LEMMA PostedBehind ==
  ASSUME MailboxTypeOK, PipeTrims, NEW r \in Requests, pipe' = Append(pipe, r),
         IsPush(r) \/ r = KEEP(r.token) \/ r = DROP(r.token)
  PROVE  /\ PipeTrims'
         /\ \A m : OnItsWay(m) => OnItsWay(m)'
         /\ \E i \in 1..Len(pipe') : pipe'[i] = r
         /\ \A x : (\E i \in 1..Len(pipe') : pipe'[i] = x) =>
              x = r \/ \E i \in 1..Len(pipe) : pipe[i] = x
<1>1. /\ Len(pipe) \in Nat /\ Len(pipe') = Len(pipe) + 1
      /\ \A i \in 1..Len(pipe) : pipe'[i] = pipe[i]
      /\ pipe'[Len(pipe) + 1] = r
  BY AppendElements DEF MailboxTypeOK
<1>2. \A i \in 1..Len(pipe) : i \in 1..Len(pipe')
  BY <1>1
<1>3. \A i \in 1..Len(pipe') : i \in 1..Len(pipe) \/ i = Len(pipe) + 1
  BY <1>1
<1>4. Len(pipe) + 1 \in 1..Len(pipe')
  BY <1>1
<1>5. PipeTrims'
  BY <1>1, <1>3 DEF PipeTrims
<1>6. \A m : OnItsWay(m) => OnItsWay(m)'
  BY <1>1, <1>2 DEF OnItsWay
<1> QED
  BY <1>1, <1>3, <1>4, <1>5, <1>6

LEMMA LossAddMsg ==
  ASSUME MailboxTypeOK, MailboxTypeOK', OrderInv, OrderInv', LossInv,
         NEW m \in Messages, AddMsg(m)
  PROVE  LossInv'
<1> DEFINE r == LPUSH(m)
<1>1. r \in Requests /\ IsPush(r) /\ \A t \in Tokens : ~IsPush(DROP(t))
  BY RequestTypes
<1>2. /\ pipe' = Append(pipe, r)
      /\ UNCHANGED <<list, replies, worker, got, exposed>>
  BY DEF AddMsg
<1>3. /\ PipeTrims' /\ \A x : OnItsWay(x) => OnItsWay(x)'
      /\ \E i \in 1..Len(pipe') : pipe'[i] = r
      /\ \A x : (\E i \in 1..Len(pipe') : pipe'[i] = x) =>
           x = r \/ \E i \in 1..Len(pipe) : pipe[i] = x
  <2> HIDE DEF r
  <2> QED
    BY <1>1, <1>2, PostedBehind DEF LossInv
<1>4. DroppedIsKnown'
  <2>1. ASSUME NEW t \in Tokens, DropPending(t)'
        PROVE  DropPending(t)
    BY <1>1, <1>2, <1>3, <2>1 DEF DropPending
  <2> QED
    BY <1>2, <2>1 DEF LossInv, DroppedIsKnown, Listed, Seen
<1>5. ASSUME NEW x \in Messages, WasSent(sent', x)
      PROVE  Accounted(x)'
  <2>1. /\ Len(sent) \in Nat /\ Len(sent') = Len(sent) + 1
        /\ \A j \in 1..Len(sent) : sent'[j] = sent[j]
        /\ sent'[Len(sent) + 1] = m
    BY AppendElements DEF AddMsg, MailboxTypeOK
  <2>2. x = m \/ WasSent(sent, x)
    BY <1>5, <2>1 DEF WasSent
  <2>3. CASE x = m
    BY <1>3, <2>3 DEF Accounted, OnItsWay
  <2>4. CASE WasSent(sent, x)
    <3>1. Accounted(x)
      BY <2>4 DEF LossInv
    <3>2. PushedOut(x) => PushedOut(x)'
      BY <2>1, <2>4, PushedOutStays
    <3> QED
      BY <1>2, <1>3, <3>1, <3>2 DEF Accounted, Kept, Seen
  <2> QED
    BY <2>2, <2>3, <2>4
<1> QED
  BY <1>3, <1>4, <1>5 DEF LossInv

LEMMA LossGetMsg ==
  ASSUME MailboxTypeOK, OrderInv, LossInv, NEW t \in Tokens, GetMsg(t)
  PROVE  LossInv'
<1>1. UNCHANGED <<list, pipe, sent, exposed>> /\ worker = <<>>
  BY DEF GetMsg
<1>2. \A m : Seen(m) => Seen(m)'
  <2> SUFFICES ASSUME NEW m, Seen(m)
               PROVE  Seen(m)'
    OBVIOUS
  <2>1. PICK k \in 1..Len(got) : \E i \in 1..Len(got[k].msgs) : got[k].msgs[i] = m
    BY <1>1 DEF Seen
  <2>2. k \in 1..Len(got') /\ got'[k] = got[k]
    <3>1. CASE t \notin WrongType
      BY <3>1 DEF GetMsg
    <3>2. CASE t \in WrongType
      <4> DEFINE x == [token |-> t, status |-> 408, msgs |-> <<>>]
      <4>1. x \in Responses
        BY DEF Responses
      <4>2. got' = Append(got, x) /\ got \in Seq(Responses)
        BY <3>2 DEF GetMsg, MailboxTypeOK
      <4> HIDE DEF x
      <4>3. /\ Len(got') = Len(got) + 1 /\ Len(got) \in Nat
            /\ \A i \in 1..Len(got) : got'[i] = got[i]
        BY <4>1, <4>2, AppendElements
      <4> QED
        BY <4>3
    <3> QED
      BY <3>1, <3>2
  <2> QED
    BY <2>1, <2>2 DEF Seen
<1>3. \A u \in Tokens : DropPending(u)' =>
        DropPending(u) \/ (u = t /\ worker' = <<[token |-> t, arr |-> list[t]]>>)
  <2> DEFINE w == <<[token |-> t, arr |-> list[t]]>>
  <2>1. worker' = <<>> \/ worker' = w
    BY <1>1 DEF GetMsg
  <2>2. w[1].token = t
    OBVIOUS
  <2> HIDE DEF w
  <2>3. ASSUME NEW u \in Tokens, DropPending(u)'
        PROVE  DropPending(u) \/ (u = t /\ worker' = w)
    BY <1>1, <2>1, <2>2, <2>3 DEF DropPending
  <2> QED
    BY <2>3 DEF w
<1>4. ASSUME NEW u \in Tokens, DropPending(u)', NEW m \in Messages, Listed(u, m)'
      PROVE  m \in exposed' \/ Seen(m)'
  <2>1. Listed(u, m)
    BY <1>1, <1>4 DEF Listed
  <2>2. CASE DropPending(u)
    BY <1>1, <1>2, <2>1, <2>2 DEF LossInv, DroppedIsKnown
  <2>3. CASE u = t /\ worker' = <<[token |-> t, arr |-> list[t]]>>
    <3>1. worker' # <<>> /\ worker'[1].arr = list[u]
      BY <2>3
    <3> QED
      BY <2>1, <3>1 DEF Seen, Listed
  <2> QED
    BY <1>3, <1>4, <2>2, <2>3
<1>5. ASSUME NEW m \in Messages, WasSent(sent', m)
      PROVE  Accounted(m)'
  <2>1. Accounted(m)
    BY <1>1, <1>5 DEF LossInv
  <2> QED
    BY <1>1, <1>2, <2>1 DEF Accounted, OnItsWay, Kept, PushedOut, SentPosition
<1>6. PipeTrims'
  BY <1>1 DEF LossInv, PipeTrims
<1> QED
  BY <1>4, <1>5, <1>6 DEF LossInv, DroppedIsKnown

LEMMA LossRespond ==
  ASSUME MailboxTypeOK, OrderInv, LossInv, Respond
  PROVE  LossInv'
<1> DEFINE t == worker[1].token
           l == worker[1].arr
           x == [token |-> t, status |-> 200, msgs |-> OldestFirst(l)]
<1>1. /\ t \in Tokens /\ l \in Seq(Messages) /\ worker # <<>>
      /\ UNCHANGED <<list, sent, exposed>> /\ worker' = <<>>
  BY DEF Respond, MailboxTypeOK, Readings
<1>2. /\ OldestFirst(l) \in Seq(Messages)
      /\ Len(OldestFirst(l)) = Len(l) /\ Len(l) \in Nat
      /\ \A i \in 1..Len(l) : Len(l) - i + 1 \in 1..Len(l)
                              /\ OldestFirst(l)[i] = l[Len(l) - i + 1]
  BY <1>1, OldestFirstElements
<1>3. /\ DROP(t) \in Requests /\ DROP(t).token = t /\ pipe' = Append(pipe, DROP(t))
      /\ \A u \in Tokens : DROP(u).token = u
  BY <1>1, RequestTypes DEF Respond
<1>4. /\ PipeTrims' /\ \A m : OnItsWay(m) => OnItsWay(m)'
      /\ \A y : (\E i \in 1..Len(pipe') : pipe'[i] = y) =>
           y = DROP(t) \/ \E i \in 1..Len(pipe) : pipe[i] = y
  <2>1. PICK d \in Requests : d = DROP(t)
    BY <1>3
  <2> QED
    BY <1>3, <2>1, PostedBehind DEF LossInv
<1>5. x \in Responses /\ x.msgs = OldestFirst(l)
  BY <1>1, <1>2 DEF Responses
<1>6. got' = Append(got, x) /\ got \in Seq(Responses)
  BY DEF Respond, MailboxTypeOK
<1>7. /\ Len(got) \in Nat /\ Len(got') = Len(got) + 1
      /\ \A k \in 1..Len(got) : k \in 1..Len(got') /\ got'[k] = got[k]
      /\ Len(got) + 1 \in 1..Len(got') /\ got'[Len(got) + 1] = x
  <2> HIDE DEF x
  <2> QED
    BY <1>5, <1>6, AppendElements
<1>8. ASSUME NEW m, Seen(m)
      PROVE  Seen(m)'
  <2>1. CASE \E k \in 1..Len(got) : \E i \in 1..Len(got[k].msgs) : got[k].msgs[i] = m
    BY <1>7, <2>1 DEF Seen
  <2>2. CASE \E i \in 1..Len(l) : l[i] = m
    <3> HIDE DEF l, x
    <3>1. PICK i \in 1..Len(l) : l[i] = m
      BY <2>2
    <3>2. PICK j \in 1..Len(l) : j = Len(l) - i + 1 /\ Len(l) - j + 1 = i
      BY <1>2
    <3>3. j \in 1..Len(x.msgs) /\ x.msgs[j] = m
      BY <1>2, <1>5, <3>1, <3>2
    <3> QED
      BY <1>7, <3>3 DEF Seen
  <2> QED
    BY <1>8, <2>1, <2>2 DEF Seen
<1>9. \A u \in Tokens : DropPending(u)' => DropPending(u)
  BY <1>1, <1>3, <1>4 DEF DropPending
<1>10. DroppedIsKnown'
  <2> SUFFICES ASSUME NEW u \in Tokens, DropPending(u)', NEW m \in Messages, Listed(u, m)'
               PROVE  m \in exposed' \/ Seen(m)'
    BY DEF DroppedIsKnown
  <2>1. Listed(u, m)
    BY <1>1 DEF Listed
  <2> QED
    BY <1>1, <1>8, <1>9, <2>1 DEF LossInv, DroppedIsKnown
<1>11. ASSUME NEW m \in Messages, WasSent(sent', m)
       PROVE  Accounted(m)'
  <2>1. Accounted(m)
    BY <1>1, <1>11 DEF LossInv
  <2> QED
    BY <1>1, <1>4, <1>8, <2>1 DEF Accounted, Kept, PushedOut, SentPosition
<1> QED
  BY <1>4, <1>10, <1>11 DEF LossInv

LEMMA LossOnReply ==
  ASSUME MailboxTypeOK, OrderInv, LossInv, onReply
  PROVE  LossInv'
<1>1. UNCHANGED <<list, worker, sent, got, exposed>>
  BY DEF onReply
<1>2. /\ PipeTrims' /\ \A m : OnItsWay(m) => OnItsWay(m)'
      /\ \A u \in Tokens : DropPending(u)' => DropPending(u)
  <2>1. CASE ~NeedsTrim(Head(replies))
    <3>1. pipe' = pipe
      BY <2>1 DEF onReply
    <3> QED
      BY <1>1, <3>1 DEF LossInv, PipeTrims, OnItsWay, DropPending
  <2>2. CASE NeedsTrim(Head(replies))
    <3>1. Head(replies) \in Answers
      BY TailElements DEF onReply, MailboxTypeOK
    <3>2. PICK t \in Tokens : t = Head(replies).token
      BY <3>1 DEF Answers
    <3>3. KEEP(t) \in Requests /\ KEEP(t).token = t /\ pipe' = Append(pipe, KEEP(t))
      BY <2>2, <3>2, RequestTypes DEF onReply
    <3>4. \A u \in Tokens : KEEP(t) # DROP(u)
      <4>1. \A u \in Tokens : KEEP(t).first = 0 /\ DROP(u).first = Cap
        BY DEF KEEP, DROP, LTRIM
      <4> QED
        BY <4>1, MailboxAssumption
    <3>5. PICK d \in Requests : d = KEEP(t)
      BY <3>3
    <3>6. /\ PipeTrims' /\ \A m : OnItsWay(m) => OnItsWay(m)'
          /\ \A y : (\E i \in 1..Len(pipe') : pipe'[i] = y) =>
               y = d \/ \E i \in 1..Len(pipe) : pipe[i] = y
      BY <3>3, <3>5, PostedBehind DEF LossInv
    <3> QED
      BY <1>1, <3>4, <3>5, <3>6 DEF DropPending
  <2> QED
    BY <2>1, <2>2
<1>3. DroppedIsKnown'
  BY <1>1, <1>2 DEF LossInv, DroppedIsKnown, Listed, Seen
<1>4. ASSUME NEW m \in Messages, WasSent(sent', m)
      PROVE  Accounted(m)'
  <2>1. Accounted(m)
    BY <1>1, <1>4 DEF LossInv
  <2> QED
    BY <1>1, <1>2, <2>1 DEF Accounted, Kept, Seen, PushedOut, SentPosition
<1> QED
  BY <1>2, <1>3, <1>4 DEF LossInv

\* An LTRIM 0 99 leaves the newest hundred where they were.
LEMMA KeepLeavesNewest ==
  ASSUME NEW l \in Seq(Messages), NEW t \in Tokens, NEW k \in 1..Len(l), k <= Cap
  PROVE  k \in 1..Len(Applied(KEEP(t), l)) /\ Applied(KEEP(t), l)[k] = l[k]
<1> DEFINE n == IF Cap - 1 \in 0..Len(l) - 1 THEN Cap ELSE Len(l)
<1>1. /\ Cap \in Nat \ {0} /\ Len(l) \in Nat /\ k \in Nat
      /\ n \in Nat /\ n <= Len(l) /\ k \in 1..n
  BY MailboxAssumption, LenProperties
<1>2. Applied(KEEP(t), l) = SubSeq(l, 1, n)
  <2>1. /\ KEEP(t).op # "LPUSH" /\ KEEP(t).first = 0 /\ KEEP(t).last = Cap - 1
        /\ Cap - 1 + 1 = Cap /\ 0 + 1 = 1
    BY <1>1 DEF KEEP, LTRIM
  <2> QED
    BY <2>1 DEF Applied
<1> HIDE DEF n
<1>3. \A i \in 1..n : l[i] \in Messages
  BY <1>1, ElementOfSeq
<1>4. Len(SubSeq(l, 1, n)) = n /\ \A i \in 1..n : SubSeq(l, 1, n)[i] = l[i]
  <2>1. 1 \in Int /\ n \in Int /\ 1 <= n
    BY <1>1
  <2>2. Len(SubSeq(l, 1, n)) = n - 1 + 1 /\ \A i \in 1..n - 1 + 1 : SubSeq(l, 1, n)[i] = l[1 + i - 1]
    BY <1>3, <2>1, SubSeqProperties
  <2> QED
    BY <1>1, <2>2
<1> QED
  BY <1>1, <1>2, <1>4

LEMMA LossExecute ==
  ASSUME MailboxTypeOK, OrderInv, LossInv, Execute
  PROVE  LossInv'
<1> PICK r \in Requests :
      /\ r = pipe[1] /\ r = Head(pipe)
      /\ IsPush(r) => \E m \in Messages : r.msgs = <<m>>
      /\ r.token \in Tokens
      /\ Len(pipe) \in Nat /\ Len(pipe) > 0 /\ Len(pipe') = Len(pipe) - 1
      /\ \A i \in 1..Len(pipe') : pipe'[i] = pipe[i + 1]
      /\ \A t \in Tokens : list'[t] =
           IF t = r.token /\ t \notin WrongType THEN Applied(r, list[t]) ELSE list[t]
  BY Executed
<1> DEFINE t == r.token
<1>1. UNCHANGED <<worker, sent, got>>
  BY DEF Execute
<1>2. exposed \subseteq exposed' /\ (IsPush(r) /\ DropPending(t) => r.msgs[1] \in exposed')
  BY DEF Execute, IsPush
<1>3. /\ list[t] \in Seq(Messages) /\ t \in Tokens
      /\ \A i \in 1..Len(pipe') : i + 1 \in 1..Len(pipe)
      /\ 1 \in 1..Len(pipe)
      /\ \A i \in 1..Len(pipe) : i = 1 \/ (i - 1 \in 1..Len(pipe') /\ pipe'[i - 1] = pipe[i])
  BY DEF MailboxTypeOK
<1>4. PipeTrims' /\ \A u \in Tokens : DropPending(u)' => DropPending(u)
  BY <1>1, <1>3 DEF LossInv, PipeTrims, DropPending
<1>5. \A m : OnItsWay(m) => r = LPUSH(m) \/ OnItsWay(m)'
  BY <1>3 DEF OnItsWay
<1>6. \A m : (Seen(m) <=> Seen(m)') /\ (PushedOut(m) <=> PushedOut(m)')
  BY <1>1 DEF Seen, PushedOut, SentPosition
<1>7. ~IsPush(r) => r = KEEP(t) \/ r = DROP(t)
  BY <1>3 DEF LossInv, PipeTrims
<1>8. r = DROP(t) => DropPending(t)
  BY <1>3 DEF DropPending
<1> PICK q \in Seq(Messages) : q = list[t]
  BY <1>3
<1>8a. /\ Len(q) \in Nat /\ t \in Tokens /\ t = r.token
       /\ t \notin WrongType => list'[t] = Applied(r, q)
       /\ \A u \in Tokens : u # t \/ t \in WrongType => list'[u] = list[u]
  BY <1>3, LenProperties
<1>8b. IsPush(r) =>
         /\ Len(Applied(r, q)) = Len(q) + 1
         /\ Applied(r, q)[1] = r.msgs[1]
         /\ \A i \in 2..Len(q) + 1 : Applied(r, q)[i] = q[i - 1]
  <2> HAVE IsPush(r)
  <2>1. PICK m \in Messages : r.msgs = <<m>>
    OBVIOUS
  <2> HIDE DEF t
  <2>2. /\ Len(Applied(r, q)) = Len(q) + 1 /\ Applied(r, q)[1] = m
        /\ \A i \in 2..Len(q) + 1 : Applied(r, q)[i] = q[i - 1]
    BY <2>1, PushLeaves
  <2> QED
    BY <2>1, <2>2
<1>8c. ~IsPush(r) => \E d \in 0..Cap : \A i \in 1..Len(Applied(r, q)) :
                      i + d \in 1..Len(q) /\ Applied(r, q)[i] = q[i + d]
  <2> HIDE DEF t
  <2> QED
    BY TrimLeaves
<1> HIDE DEF t
\* What the list of the token gains and loses.
<1>9. ASSUME NEW u \in Tokens, NEW m \in Messages, Listed(u, m)'
      PROVE  Listed(u, m) \/ (u = t /\ IsPush(r) /\ m = r.msgs[1])
  <2>1. CASE u # t \/ t \in WrongType
    BY <1>8a, <2>1, <1>9 DEF Listed
  <2>2. CASE u = t /\ t \notin WrongType /\ IsPush(r)
    <3>1. PICK k \in 1..Len(Applied(r, q)) : Applied(r, q)[k] = m
      BY <1>9, <1>8a, <2>2 DEF Listed
    <3>2. CASE k = 1
      BY <1>8b, <2>2, <3>1, <3>2
    <3>3. CASE k # 1
      <4>1. k - 1 \in 1..Len(q) /\ q[k - 1] = m
        BY <1>8a, <1>8b, <2>2, <3>1, <3>3
      <4> QED
        BY <2>2, <4>1 DEF Listed
    <3> QED
      BY <3>2, <3>3
  <2>3. CASE u = t /\ t \notin WrongType /\ ~IsPush(r)
    <3>1. PICK k \in 1..Len(Applied(r, q)) : Applied(r, q)[k] = m
      BY <1>9, <1>8a, <2>3 DEF Listed
    <3>2. \E j \in 1..Len(q) : q[j] = m
      BY <1>8c, <2>3, <3>1
    <3> QED
      BY <2>3, <3>2 DEF Listed
  <2> QED
    BY <2>1, <2>2, <2>3
<1>10. ASSUME NEW u \in Tokens, NEW m \in Messages, Listed(u, m)
       PROVE  Listed(u, m)' \/ PushedOut(m) \/ (u = t /\ r = DROP(t))
  <2>1. PICK k \in 1..Len(list[u]) : list[u][k] = m
    BY <1>10 DEF Listed
  <2>2. CASE u # t \/ t \in WrongType
    BY <1>8a, <2>1, <2>2 DEF Listed
  <2>3. CASE u = t /\ t \notin WrongType /\ IsPush(r)
    <3>1. k + 1 \in 1..Len(Applied(r, q)) /\ Applied(r, q)[k + 1] = m
      BY <1>8a, <1>8b, <2>1, <2>3
    <3> QED
      BY <1>8a, <2>3, <3>1 DEF Listed
  <2>4. CASE u = t /\ t \notin WrongType /\ r = KEEP(t)
    <3>1. list'[u] = Applied(KEEP(t), q)
      BY <1>8a, <2>4
    <3>2. CASE k <= Cap
      <4>1. k \in 1..Len(Applied(KEEP(t), q)) /\ Applied(KEEP(t), q)[k] = m
        BY <1>8a, <2>1, <2>4, <3>2, KeepLeavesNewest
      <4> QED
        BY <3>1, <4>1 DEF Listed
    <3>3. CASE k > Cap
      BY <2>1, <3>3, BelowTheCap
    <3> QED
      BY <3>2, <3>3, <2>1, MailboxAssumption, LenProperties DEF MailboxTypeOK
  <2> QED
    BY <1>7, <2>2, <2>3, <2>4
<1>11. DroppedIsKnown'
  <2> SUFFICES ASSUME NEW u \in Tokens, DropPending(u)', NEW m \in Messages, Listed(u, m)'
               PROVE  m \in exposed' \/ Seen(m)'
    BY DEF DroppedIsKnown
  <2> QED
    BY <1>2, <1>4, <1>6, <1>9 DEF LossInv, DroppedIsKnown
<1>12. ASSUME NEW m \in Messages, WasSent(sent', m)
       PROVE  Accounted(m)'
  <2>1. Accounted(m) /\ ToOf[m] \in Tokens
    BY <1>1, <1>12, MailboxAssumption DEF LossInv
  <2>2. Kept(m) <=> Listed(ToOf[m], m)
    BY DEF Kept, Listed
  <2>3. Kept(m)' <=> Listed(ToOf[m], m)'
    BY DEF Kept, Listed
  <2>4. CASE OnItsWay(m)
    <3>1. CASE r = LPUSH(m)
      <4>1. IsPush(r) /\ r.msgs = <<m>> /\ t = ToOf[m]
        BY <1>8a, <3>1, RequestTypes
      <4>2. CASE t \in WrongType
        BY <4>1, <4>2 DEF Accounted
      <4>3. CASE t \notin WrongType
        <5>1. 1 \in 1..Len(Applied(r, q)) /\ Applied(r, q)[1] = m
          BY <1>8a, <1>8b, <4>1
        <5> QED
          BY <1>8a, <2>3, <4>1, <4>3, <5>1 DEF Listed, Accounted
      <4> QED
        BY <4>2, <4>3
    <3> QED
      BY <1>5, <2>4, <3>1 DEF Accounted
  <2>5. CASE Kept(m)
    <3>1. DropPending(t) /\ t = ToOf[m] => m \in exposed \/ Seen(m)
      BY <1>3, <2>2, <2>5 DEF LossInv, DroppedIsKnown
    <3> QED
      BY <1>2, <1>6, <1>8, <1>10, <2>1, <2>2, <2>3, <2>5, <3>1 DEF Accounted
  <2> QED
    BY <1>2, <1>6, <2>1, <2>4, <2>5 DEF Accounted
<1> QED
  BY <1>4, <1>11, <1>12 DEF LossInv

LEMMA LossStep ==
  ASSUME MailboxTypeOK, OrderInv, LossInv, [MailboxNext]_mailboxVars
  PROVE  LossInv'
<1>1. MailboxTypeOK' /\ OrderInv'
  BY TypeStep, OrderStep
<1>2. CASE UNCHANGED mailboxVars
  <2>1. \A m : Accounted(m) <=> Accounted(m)'
    BY <1>2 DEF mailboxVars, Accounted, OnItsWay, Kept, Seen, PushedOut, SentPosition
  <2>2. \A m : Seen(m) <=> Seen(m)'
    BY <1>2 DEF mailboxVars, Seen
  <2> QED
    BY <1>2, <2>1, <2>2
       DEF mailboxVars, LossInv, PipeTrims, DroppedIsKnown, DropPending, Listed
<1>3. CASE MailboxNext
  BY <1>1, <1>3, LossAddMsg, LossGetMsg, LossRespond, LossExecute, LossOnReply DEF MailboxNext
<1> QED
  BY <1>2, <1>3

LEMMA LossIsEnough ==
  ASSUME MailboxTypeOK, LossInv
  PROVE  LostOnlyInWindow
<1>1. \A i \in 1..Len(sent) : sent[i] \in Messages /\ WasSent(sent, sent[i])
  BY ElementOfSeq DEF MailboxTypeOK, WasSent
<1> QED
  BY <1>1 DEF LossInv, Accounted, LostOnlyInWindow

\* A message that /gcm/send answered with 200 disappears before a /gcm/recv has
\* returned it only if Redis pushed it between the LRANGE of a GetMsg and the
\* LTRIM the same GetMsg posted, if as many newer ones as the cap have been
\* sent to its token, or if its key is not a list: neither the LTRIM of
\* AddMsg's handler nor two /gcm/recv one behind the other lose another one.
THEOREM LossOnlyInWindow == MailboxSpec => []LostOnlyInWindow
<1>1. MailboxInit => MailboxTypeOK /\ OrderInv /\ LossInv
  BY TypeInit, OrderInit, LossInit
<1>2. MailboxTypeOK /\ OrderInv /\ LossInv /\ [MailboxNext]_mailboxVars
        => (MailboxTypeOK /\ OrderInv /\ LossInv)'
  BY TypeStep, OrderStep, LossStep
<1>3. MailboxTypeOK /\ LossInv => LostOnlyInWindow
  BY LossIsEnough
<1>4. QED
  BY <1>1, <1>2, <1>3, PTL DEF MailboxSpec
=============================================================================
