------------------------------- MODULE MCPipe -------------------------------
(***************************************************************************)
(* The asynchronous client and the parser of what it reads, for TLC.       *)
(* RedisClient takes a reply as one unit; RedisParser shows that this is   *)
(* right however the bytes are cut.  A behaviour is one of one of them,    *)
(* the part; the other keeps its first state.                              *)
(***************************************************************************)
EXTENDS MCRedisClient, MCRedisParser

VARIABLE part

pipeVars == <<part, vars, respVars>>

ClientPart(A) == part = "client" /\ A /\ UNCHANGED <<part, respVars>>
ParserPart(A) == part = "parser" /\ A /\ UNCHANGED <<part, vars>>

PipeInit ==
  /\ Init
  /\ \/ part = "client" /\ stream = Sent(<<<<"nil">>>>) /\ parser = NewRespParser
        /\ offset = 0 /\ out = <<>> /\ status = "reading" /\ dropped = 0
     \/ part = "parser" /\ RespInit

PipeNext == ClientPart(Next) \/ ParserPart(RespNext)

\* The fairness of RedisClient, for its own part.
PipeSpec ==
  /\ PipeInit /\ [][PipeNext]_pipeVars
  /\ WF_pipeVars(ClientPart(alive /\ IoThread))
  /\ WF_pipeVars(ClientPart(alive /\ Transmit))
  /\ WF_pipeVars(ClientPart(alive /\ Serve))
=============================================================================
