------------------------------ MODULE Mailbox ------------------------------
(***************************************************************************)
(* The mailboxes of the push server: what /gcm/send and /gcm/recv do with  *)
(* the Redis list of a user token, through TDatabaseManager.               *)
(*                                                                         *)
(* LPUSH and LTRIM go through the asynchronous client, LRANGE through the  *)
(* synchronous one: two connections, between which Redis promises no       *)
(* order.  The asynchronous connection is the ordered pipe of CommandPipe: *)
(* `pipe' is what was accepted and not executed, `replies' what was        *)
(* executed and not answered.  There is one HTTP thread, as in the default *)
(* configuration (IS_MULTI_THREADED = 0); handlers of replies run on the   *)
(* io thread.                                                              *)
(***************************************************************************)
EXTENDS Integers, Sequences, SequencesExt

CONSTANTS
  Tokens,     \* user tokens
  Messages,   \* messages, each sent once
  ToOf,       \* the token each message is sent to
  WrongType,  \* tokens that name a key which is not a list, as "userToken" does
  Cap,        \* the 100 of AddMsg and GetMsg
  MaxRecv     \* bound on the number of /gcm/recv requests

ASSUME MailboxAssumption ==
  /\ ToOf \in [Messages -> Tokens]
  /\ WrongType \subseteq Tokens
  /\ Cap \in Nat \ {0}
  /\ MaxRecv \in Nat

VARIABLES
  list,     \* external: the list of each token in Redis, newest first
  pipe,     \* asynchronous commands Redis has not executed
  replies,  \* replies whose handler has not run
  worker,   \* the HTTP thread: <<>>, or <<the LRANGE result it holds>>
  sent,     \* messages answered with 200, oldest first
  got,      \* responses of /gcm/recv
  exposed   \* messages pushed between an LRANGE and its LTRIM

mailboxVars == <<list, pipe, replies, worker, sent, got, exposed>>

LPUSH(m) == [op |-> "LPUSH", token |-> ToOf[m], msgs |-> <<m>>]

\* LTRIM leaves the elements first..last of a list, counted from 0; -1 is the end.
LTRIM(t, first, last) == [op |-> "LTRIM", token |-> t, first |-> first, last |-> last]
KEEPOneShort(t) == LTRIM(t, 0, Cap - 2)  \* mutant
KEEP(t) == LTRIM(t, 0, Cap - 1)
DROP(t) == LTRIM(t, Cap, -1)

Requests == [op : {"LPUSH"}, token : Tokens, msgs : Seq(Messages)]
              \cup [op : {"LTRIM"}, token : Tokens, first : {0, Cap}, last : {Cap - 1, -1}]
Answers  == [op : {"LPUSH", "LTRIM"}, token : Tokens, ok : BOOLEAN, n : Nat]
Readings  == [token : Tokens, arr : Seq(Messages)]
Responses == [token : Tokens, status : {200, 408}, msgs : Seq(Messages)]

MailboxInit ==
  /\ list = [t \in Tokens |-> <<>>]
  /\ pipe = <<>> /\ replies = <<>> /\ worker = <<>>
  /\ sent = <<>> /\ got = <<>> /\ exposed = {}

-----------------------------------------------------------------------------
(* The HTTP thread.                                                        *)

\* /gcm/send: AddMsg returns true whatever becomes of the LPUSH.
AddMsg(m) ==
  /\ worker = <<>>
  /\ \A i \in 1..Len(sent) : sent[i] # m
  /\ pipe' = Append(pipe, LPUSH(m))
  /\ sent' = Append(sent, m)
  /\ UNCHANGED <<list, replies, worker, got, exposed>>

\* /gcm/recv up to the reply to LRANGE t 0 -1.
GetMsg(t) ==
  /\ worker = <<>>
  /\ Len(got) < MaxRecv
  /\ IF t \in WrongType
     THEN /\ got' = Append(got, [token |-> t, status |-> 408, msgs |-> <<>>])
          /\ UNCHANGED worker
     ELSE /\ worker' = <<[token |-> t, arr |-> list[t]]>>
          /\ UNCHANGED got
  /\ UNCHANGED <<list, pipe, replies, sent, exposed>>

NewestFirst(arr) == arr  \* mutant
OldestFirst(arr) == Reverse(arr)

\* The rest of GetMsg and of the route: the LTRIM is posted, the response
\* lists the array backwards.
Respond ==
  /\ worker # <<>>
  /\ pipe' = Append(pipe, DROP(worker[1].token))
  /\ got' = Append(got, [token |-> worker[1].token, status |-> 200,
                         msgs |-> OldestFirst(worker[1].arr)])
  /\ worker' = <<>>
  /\ UNCHANGED <<list, replies, sent, exposed>>

-----------------------------------------------------------------------------
(* The io thread and Redis.                                                *)

\* External: what LPUSH makes of a list, and LTRIM leaves of it.
Applied(r, l) ==
  IF r.op = "LPUSH" THEN r.msgs \o l
  ELSE SubSeq(l, r.first + 1, IF r.last \in 0..Len(l) - 1 THEN r.last + 1 ELSE Len(l))

DropPending(t) ==
  \/ \E i \in 1..Len(pipe) : pipe[i] = DROP(t)
  \/ worker # <<>> /\ worker[1].token = t

\* External: Redis executes the next command of the asynchronous connection.
Execute ==
  /\ pipe # <<>>
  /\ LET r == Head(pipe)
         ok == r.token \notin WrongType
         l == IF ok THEN Applied(r, list[r.token]) ELSE list[r.token]
     IN  /\ list' = [list EXCEPT ![r.token] = l]
         /\ replies' = Append(replies, [op |-> r.op, token |-> r.token, ok |-> ok,
                                        n |-> IF ok /\ r.op = "LPUSH" THEN Len(l) ELSE 0])
         /\ exposed' = IF r.op = "LPUSH" /\ DropPending(r.token)
                       THEN exposed \cup {r.msgs[1]} ELSE exposed
  /\ pipe' = Tail(pipe)
  /\ UNCHANGED <<worker, sent, got>>

NeedsTrimLate(v) == v.op = "LPUSH" /\ v.ok /\ v.n > Cap + 1  \* mutant
NeedsTrimOnce(v) == v.op = "LPUSH" /\ v.ok /\ v.n = Cap  \* mutant
NeedsTrim(v) == v.op = "LPUSH" /\ v.ok /\ v.n > Cap - 1

\* The handler of a reply: that of an LPUSH trims a list that has filled up.
onReply ==
  /\ replies # <<>>
  /\ replies' = Tail(replies)
  /\ pipe' = IF NeedsTrim(Head(replies))
             THEN Append(pipe, KEEP(Head(replies).token)) ELSE pipe
  /\ UNCHANGED <<list, worker, sent, got, exposed>>

MailboxNext ==
  \/ \E m \in Messages : AddMsg(m)
  \/ \E t \in Tokens : GetMsg(t)
  \/ Respond
  \/ Execute
  \/ onReply

MailboxSpec == MailboxInit /\ [][MailboxNext]_mailboxVars

(* Redis and the io thread keep running, and a request begun is finished.  *)
MailboxFairSpec ==
  /\ MailboxSpec
  /\ WF_mailboxVars(Respond) /\ WF_mailboxVars(Execute) /\ WF_mailboxVars(onReply)

-----------------------------------------------------------------------------
MailboxTypeOK ==
  /\ list \in [Tokens -> Seq(Messages)]
  /\ pipe \in Seq(Requests)
  /\ \A i \in 1..Len(pipe) :
       pipe[i].op = "LPUSH" => \E m \in Messages : pipe[i].msgs = <<m>>
  /\ replies \in Seq(Answers)
  /\ worker = <<>> \/ worker \in [{1} -> Readings]
  /\ sent \in Seq(Messages)
  /\ got \in Seq(Responses)
  /\ exposed \subseteq Messages

\* A list longer than the cap is about to be trimmed: an LTRIM 0 99 is on its
\* way, or the reply that will make AddMsg's handler send one.
OverflowIsTrimmed ==
  \A t \in Tokens : Len(list[t]) > Cap =>
    \/ \E i \in 1..Len(pipe) : pipe[i] = KEEP(t)
    \/ \E i \in 1..Len(replies) : NeedsTrim(replies[i]) /\ replies[i].token = t

\* A list over the cap does not stay so.
OverflowEnds ==
  \A t \in Tokens : Len(list[t]) > Cap ~> Len(list[t]) <= Cap

SentPosition(m) == CHOOSE i \in 1..Len(sent) : sent[i] = m

\* A response of /gcm/recv lists messages of its own token, in the order in
\* which they were sent, none of them twice.
ResponseInOrder ==
  \A k \in 1..Len(got) :
    /\ \A i \in 1..Len(got[k].msgs) : ToOf[got[k].msgs[i]] = got[k].token
    /\ \A i, j \in 1..Len(got[k].msgs) :
         i < j => SentPosition(got[k].msgs[i]) < SentPosition(got[k].msgs[j])

OnItsWay(m) == \E i \in 1..Len(pipe) : pipe[i] = LPUSH(m)
Kept(m) == \E i \in 1..Len(list[ToOf[m]]) : list[ToOf[m]][i] = m
Seen(m) ==
  \/ \E k \in 1..Len(got) : \E i \in 1..Len(got[k].msgs) : got[k].msgs[i] = m
  \/ worker # <<>> /\ \E i \in 1..Len(worker[1].arr) : worker[1].arr[i] = m
\* Cap newer messages to the same token have been sent.
PushedOut(m) ==
  Cardinality({i \in SentPosition(m) + 1 .. Len(sent) : ToOf[sent[i]] = ToOf[m]}) >= Cap

\* A message answered with 200 disappears unseen only if Redis pushed it
\* between the LRANGE of some /gcm/recv and the LTRIM of the same request,
\* if enough newer ones pushed it out, or if its key is not a list.
LostOnlyInWindow ==
  \A i \in 1..Len(sent) : LET m == sent[i] IN
    OnItsWay(m) \/ Kept(m) \/ Seen(m) \/ PushedOut(m)
      \/ m \in exposed \/ ToOf[m] \in WrongType

\* What the API promises: a message answered with 200 is in the user's
\* mailbox, or on its way there, until a /gcm/recv has returned it or newer
\* ones have pushed it out.
AckedMessageKept ==
  \A i \in 1..Len(sent) : LET m == sent[i] IN
    OnItsWay(m) \/ Kept(m) \/ Seen(m) \/ PushedOut(m)
=============================================================================
