---------------------------- MODULE CommandPipe ----------------------------
(***************************************************************************)
(* What RedisAsyncClient promises to the code that calls command(): an     *)
(* ordered pipe.  Calls are accepted in some order, Redis executes them in *)
(* that order, and the handler of each call is invoked at most once, in    *)
(* that order, with the reply to that very call.                           *)
(*                                                                         *)
(* Nothing here says that an accepted call is ever executed or answered:   *)
(* a lost connection or the end of the process is a behaviour that takes   *)
(* no further step.                                                        *)
(***************************************************************************)
EXTENDS Naturals, Sequences

CONSTANT Calls       \* the calls that may be made, one name per call

VARIABLES accepted,  \* calls handed to the client, oldest first
          executed,  \* calls Redis has executed, oldest first
          answered   \* invocations of handlers: whose handler, with whose reply

pipeVars == <<accepted, executed, answered>>

Init ==
  /\ accepted = <<>>
  /\ executed = <<>>
  /\ answered = <<>>

Accept(c) ==
  /\ \A i \in 1..Len(accepted) : accepted[i] # c
  /\ accepted' = Append(accepted, c)
  /\ UNCHANGED <<executed, answered>>

Execute ==
  /\ Len(executed) < Len(accepted)
  /\ executed' = Append(executed, accepted[Len(executed) + 1])
  /\ UNCHANGED <<accepted, answered>>

Answer ==
  /\ Len(answered) < Len(executed)
  /\ LET c == executed[Len(answered) + 1]
     IN  answered' = Append(answered, [call |-> c, reply |-> c])
  /\ UNCHANGED <<accepted, executed>>

Next == (\E c \in Calls : Accept(c)) \/ Execute \/ Answer

Spec == Init /\ [][Next]_pipeVars
=============================================================================
