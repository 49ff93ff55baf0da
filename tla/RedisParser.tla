---------------------------- MODULE RedisParser ----------------------------
(***************************************************************************)
(* RedisParser, fed by the read loop of RedisClientImpl::asyncRead.        *)
(*                                                                         *)
(* A stream of replies arrives in reads of any size.  The parser keeps its *)
(* place between two calls of parse(): the state of the reply it is in,    *)
(* the bytes collected, the bytes of a bulk string still missing, and two  *)
(* stacks for the arrays that are not complete.  The innermost array is at *)
(* the BOTTOM of the stacks: parseArray pops its own array, calls itself   *)
(* for what is below, and pushes its array back if that is not finished.   *)
(*                                                                         *)
(* A byte is a string of length one, or "CR" or "LF".  A parser is a       *)
(* record, and a call of parse() a function from a parser and the bytes at *)
(* hand to what it leaves: the parser, the number of bytes taken, and its  *)
(* verdict.                                                                *)
(***************************************************************************)
EXTENDS Integers, Sequences, SequencesExt

CONSTANTS
  Incoming,  \* what may be received: Sent(replies), or CorruptReply(bytes)
  MaxRead,  \* the size of asyncRead's buffer, 4096 in the code
  IntMod    \* 2^32: integers are kept in an int

VARIABLES
  parser,   \* the RedisParser
  stream,   \* the stream being received
  offset,      \* how much of it has been read
  out,      \* the values handed to doProcessMessage
  status,   \* "reading", or "error" once the parser has rejected a byte
  dropped   \* bytes of a read that nobody looked at

respVars == <<parser, stream, offset, out, status, dropped>>

NewRespParser == [state |-> "Start", bulkSize |-> 0, buf |-> <<>>,
              arrayStack |-> <<>>, valueStack |-> <<>>]

-----------------------------------------------------------------------------
(* Bytes and numbers.                                                      *)

ValueOfDigit == [d \in {"0", "1", "2", "3", "4", "5", "6", "7", "8", "9"} |->
            CHOOSE n \in 0..9 : ToString(n) = d]
SizeByte(c) == c \in DOMAIN ValueOfDigit \cup {"-"}
\* isChar and not isControl
TextByte(c) == c \notin {"CR", "LF", "control", "non-ascii"}

\* strtol(s, 0, 10) of digits and minus signs: a sign, then digits, then rest.
strtol(s) ==
  LET neg    == s # <<>> /\ Head(s) = "-"
      from   == IF neg THEN 2 ELSE 1
      prefix == {n \in from..Len(s) : \A k \in from..n : s[k] # "-"}
      digits == SelectSeq([k \in 1..Len(s) |-> <<k, s[k]>>], LAMBDA d : d[1] \in prefix)
      value  == FoldLeft(LAMBDA acc, d : acc * 10 + ValueOfDigit[d[2]], 0, digits)
  IN  IF neg THEN -value ELSE value

\* A long stored in an int.
Narrow(n) == ((n + IntMod \div 2) % IntMod) - IntMod \div 2

-----------------------------------------------------------------------------
(* The parser.                                                             *)

Result(p, n, verdict) == [p |-> p, n |-> n, verdict |-> verdict]
PushValue(p, v) == [p EXCEPT !.valueStack = <<v>> \o @]
PopValue(p) == [p EXCEPT !.valueStack = Tail(@)]
PushArray(p, left, array) ==
  [PushValue(p, <<"array", array>>) EXCEPT !.arrayStack = <<left>> \o @]
PopArray(p) == [PopValue(p) EXCEPT !.arrayStack = Tail(@)]
To(p, state) == [p EXCEPT !.state = state]
Rest(s, n) == SubSeq(s, n + 1, Len(s))

FirstByte == [c \in {"+", "-", ":", "$", "*"} |->
                CASE c = "+" -> "String"   [] c = "-" -> "ErrorString"
                  [] c = ":" -> "Integer"  [] c = "$" -> "BulkSize"
                  [] c = "*" -> "ArraySize"]
AfterCR == [String |-> "StringLF", ErrorString |-> "ErrorLF", Integer |-> "IntegerLF",
            BulkSize |-> "BulkSizeLF", ArraySize |-> "ArraySizeLF", BulkCR |-> "BulkLF"]

RECURSIVE parse_reply(_, _), parseArray(_, _), parseElements(_, _, _, _, _), parseChunk(_, _, _)

\* The reply whose last byte is byte i + 1 is complete.
Complete(p, v, i) == Result(PushValue(To(p, "Start"), v), i + 1, "Completed")
FailAt(p, i) == Result(To(p, "Start"), i + 1, "Error")

BulkUncounted(p, s, i) ==  \* mutant: bulkSize keeps its value
  LET available == Len(s) - i - 1
      canRead == IF p.bulkSize < available THEN p.bulkSize ELSE available
      q == [p EXCEPT !.buf = SubSeq(s, i + 2, i + canRead + 1)]
  IN  IF p.bulkSize > available
      THEN Result([To(q, "Bulk") EXCEPT !.bulkSize = @], i + canRead + 1, "Incompleted")
      ELSE parseChunk(To(q, "BulkCR"), s, i + canRead + 1)

\* The size of a bulk string has been read: take what is here of the string.
BulkBegin(p, s, i) ==
  LET available == Len(s) - i - 1
      canRead == IF p.bulkSize < available THEN p.bulkSize ELSE available
      q == [p EXCEPT !.buf = SubSeq(s, i + 2, i + canRead + 1)]
  IN  IF p.bulkSize > available
      THEN Result([To(q, "Bulk") EXCEPT !.bulkSize = @ - canRead], i + canRead + 1, "Incompleted")
      ELSE parseChunk(To(q, "BulkCR"), s, i + canRead + 1)

\* Take more of the string.  The bytes inserted end at canRead, not at
\* i + canRead: right only if the call began in this state.
BulkMore(p, s, i) ==
  LET available == Len(s) - i
      canRead == IF p.bulkSize < available THEN p.bulkSize ELSE available
      q == [p EXCEPT !.buf = @ \o SubSeq(s, i + 1, canRead), !.bulkSize = @ - canRead]
  IN  IF q.bulkSize > 0
      THEN Result(q, i + canRead, "Incompleted")
      ELSE parseChunk(To(q, "BulkCR"), s, i + canRead)

\* The LF of a line is byte i + 1.
LineRead(p, s, i) ==
  LET n == strtol(p.buf)
      q == [p EXCEPT !.buf = <<>>]
  IN  CASE p.state = "StringLF"  -> Complete(p, <<"string", p.buf>>, i)
        [] p.state = "ErrorLF"   -> Complete(p, <<"error", p.buf>>, i)
        [] p.state = "BulkLF"    -> Complete(p, <<"string", p.buf>>, i)
        [] p.state = "IntegerLF" -> Complete(q, <<"int", Narrow(n)>>, i)
        [] p.state = "BulkSizeLF" ->
             IF n = -1 THEN Complete([q EXCEPT !.bulkSize = n], <<"nil">>, i)
             ELSE IF n = 0 THEN parseChunk(To([q EXCEPT !.bulkSize = n], "BulkCR"), s, i + 1)
             ELSE IF n < 0 THEN FailAt([q EXCEPT !.bulkSize = n], i)
             ELSE BulkBegin([q EXCEPT !.bulkSize = n], s, i)
        [] p.state = "ArraySizeLF" ->
             IF n \in {-1, 0} THEN Complete(q, <<"array", <<>>>>, i)
             ELSE IF n < 0 THEN FailAt(q, i)
             ELSE LET a == PushArray(To(q, "Start"), n, <<>>)
                      r == parseArray(a, Rest(s, i + 1))
                  IN  IF i + 1 = Len(s) THEN Result(a, i + 1, "Incompleted")
                      ELSE [r EXCEPT !.n = @ + i + 1]

\* The loop of parseChunk, with i bytes of s behind it.
parseChunk(p, s, i) ==
  IF i = Len(s) THEN Result(p, i, "Incompleted")
  ELSE LET c == s[i + 1] IN
    CASE p.state = "Start" ->
           IF c \in DOMAIN FirstByte
           THEN parseChunk([p EXCEPT !.state = FirstByte[c], !.buf = <<>>,
                                     !.bulkSize = IF c = "$" THEN 0 ELSE @], s, i + 1)
           ELSE FailAt([p EXCEPT !.buf = <<>>], i)
      [] p.state = "Bulk" -> BulkMore(p, s, i)
      [] p.state = "BulkCR" ->
           IF c = "CR" THEN parseChunk(To(p, AfterCR[p.state]), s, i + 1) ELSE FailAt(p, i)
      [] p.state \in {"String", "ErrorString", "Integer", "BulkSize", "ArraySize"} ->
           LET text == p.state \in {"String", "ErrorString"} IN
           IF c = "CR"
           THEN IF text \/ p.buf # <<>> THEN parseChunk(To(p, AfterCR[p.state]), s, i + 1)
                ELSE FailAt(p, i)
           ELSE IF (text /\ TextByte(c)) \/ (~text /\ SizeByte(c))
           THEN parseChunk([p EXCEPT !.buf = Append(@, c)], s, i + 1)
           ELSE FailAt(p, i)
      [] OTHER -> IF c = "LF" THEN LineRead(p, s, i) ELSE FailAt(p, i)

\* The loop of parseArray: `left' elements are still to come, i bytes of s
\* have been taken.  With none left in s, parse() says Incompleted.
parseElements(p, s, i, left, array) ==
  IF left = 0 THEN Result(PushValue(p, <<"array", array>>), i, "Completed")
  ELSE LET r == parse_reply(p, Rest(s, i)) IN
    CASE r.verdict = "Error" -> Result(r.p, i + r.n, "Error")
      [] r.verdict = "Incompleted" ->
           Result(PushArray(r.p, left, array), i + r.n, "Incompleted")
      [] r.verdict = "Completed" ->
           parseElements(PopValue(r.p), s, i + r.n, left - 1,
                         Append(array, Head(r.p.valueStack)))

ResumeUncounted(r, s, left, array) ==  \* mutant: the element is not counted
  parseElements(PopValue(r.p), s, r.n, left, Append(array, Head(r.p.valueStack)))

\* The array below is complete: it is the next element of this one.
Resume(r, s, left, array) ==
  parseElements(PopValue(r.p), s, r.n, left - 1, Append(array, Head(r.p.valueStack)))

parseArray(p, s) ==
  LET left == Head(p.arrayStack)
      array == Head(p.valueStack)[2]
      below == PopArray(p)
      r == parseArray(below, s)
  IN  IF below.arrayStack = <<>> THEN parseElements(below, s, 0, left, array)
      ELSE IF r.verdict = "Completed" THEN Resume(r, s, left, array)
      ELSE [r EXCEPT !.p = PushArray(@, left, array)]

parse_reply(p, s) ==
  IF p.arrayStack # <<>> THEN parseArray(p, s) ELSE parseChunk(p, s, 0)

-----------------------------------------------------------------------------
(* The read loop.  It ends at the first reply that is not complete and     *)
(* never looks at how many bytes that call of parse() took.                *)

RECURSIVE readLoop(_, _, _)
readLoop(p, s, values) ==
  LET After(r) ==
        IF r.verdict = "Completed"
        THEN readLoop(PopValue(r.p), Rest(s, r.n), Append(values, Head(r.p.valueStack)))
        ELSE [p |-> r.p, values |-> values,
              status |-> IF r.verdict = "Error" THEN "error" ELSE "reading",
              dropped |-> IF r.verdict = "Error" THEN 0 ELSE Len(s) - r.n]
  IN  IF s = <<>> THEN [p |-> p, values |-> values, status |-> "reading", dropped |-> 0]
      ELSE After(parse_reply(p, s))

RespInit ==
  /\ parser = NewRespParser
  /\ stream \in Incoming
  /\ offset = 0 /\ out = <<>> /\ status = "reading" /\ dropped = 0

ReadCompletes ==
  /\ status = "reading"
  /\ \E k \in 1..MaxRead :
       /\ offset + k <= Len(stream.bytes)
       /\ LET r == readLoop(parser, SubSeq(stream.bytes, offset + 1, offset + k), <<>>)
          IN  /\ parser' = r.p
              /\ out' = out \o r.values
              /\ status' = r.status
              /\ dropped' = dropped + r.dropped
       /\ offset' = offset + k
  /\ UNCHANGED stream

RespNext == ReadCompletes
RespSpec == RespInit /\ [][RespNext]_respVars

-----------------------------------------------------------------------------
(* External: what Redis sends.  A reply is <<"simple", bytes>>,            *)
(* <<"bulk", bytes>>, <<"error", bytes>>, <<"int", n>>, <<"nil">> or       *)
(* <<"array", replies>>.                                                   *)

RECURSIVE DigitBytes(_), EncodeReply(_), Decoded(_)
DigitBytes(n) ==
  IF n < 0 THEN <<"-">> \o DigitBytes(-n)
  ELSE IF n < 10 THEN <<ToString(n)>>
  ELSE Append(DigitBytes(n \div 10), ToString(n % 10))

ReplyLine(s) == s \o <<"CR", "LF">>
EncodeReply(v) ==
  CASE v[1] = "simple" -> ReplyLine(<<"+">> \o v[2])
    [] v[1] = "error"  -> ReplyLine(<<"-">> \o v[2])
    [] v[1] = "int"    -> ReplyLine(<<":">> \o DigitBytes(v[2]))
    [] v[1] = "nil"    -> ReplyLine(<<"$", "-", "1">>)
    [] v[1] = "bulk"   -> ReplyLine(<<"$">> \o DigitBytes(Len(v[2]))) \o ReplyLine(v[2])
    [] v[1] = "array"  -> ReplyLine(<<"*">> \o DigitBytes(Len(v[2])))
                            \o FlattenSeq([i \in 1..Len(v[2]) |-> EncodeReply(v[2][i])])

\* The RedisValue a reply stands for.  An integer that an int cannot hold
\* keeps its low bits.
Decoded(v) ==
  CASE v[1] \in {"simple", "bulk"} -> <<"string", v[2]>>
    [] v[1] = "int"   -> <<"int", CHOOSE n \in -(IntMod \div 2)..(IntMod \div 2) - 1 :
                                    (v[2] - n) % IntMod = 0>>
    [] v[1] = "array" -> <<"array", [i \in 1..Len(v[2]) |-> Decoded(v[2][i])]>>
    [] OTHER -> v

Sent(replies) ==
  LET codes == [i \in 1..Len(replies) |-> EncodeReply(replies[i])]
  IN  [bytes |-> FlattenSeq(codes),
       values |-> [i \in 1..Len(replies) |-> Decoded(replies[i])],
       ends |-> [i \in 1..Len(replies) |-> Len(FlattenSeq(SubSeq(codes, 1, i)))]]
CorruptReply(bytes) == [bytes |-> bytes, values |-> <<>>, ends |-> <<>>]

-----------------------------------------------------------------------------
(* Properties.                                                             *)

\* Between two reads the parser is in a state its next call can go on from:
\* the stacks have the same height and hold arrays that miss an element
\* (parseArray's assertions), a bulk string misses a byte (parseChunk's), and
\* between two replies nothing is left over from the last.
CanGoOn ==
  /\ Len(parser.arrayStack) = Len(parser.valueStack)
  /\ \A i \in 1..Len(parser.arrayStack) :
       parser.arrayStack[i] > 0 /\ parser.valueStack[i][1] = "array"
  /\ parser.state = "Bulk" => parser.bulkSize > 0
  /\ (\E i \in 1..Len(stream.ends) : stream.ends[i] = offset) =>
       parser.state = "Start" /\ parser.arrayStack = <<>>

\* However the bytes are cut into reads, every reply is handed on as soon as
\* its last byte has been read, with its value, and no other is; the parser can
\* go on from there.  asyncRead ends its loop at an incomplete reply and forgets
\* the rest of the read, so that parse() must have taken all of it.
RepliesParsed ==
  /\ dropped = 0 /\ CanGoOn
  /\ stream.values # <<>> =>
       /\ status = "reading"
       /\ out = SubSeq(stream.values, 1,
                       Cardinality({i \in 1..Len(stream.ends) : stream.ends[i] <= offset}))

OneMore(b, byte) == IF b.status = "error" THEN b ELSE readLoop(b.p, <<byte>>, b.values)
ByteByByte(n) ==
  FoldLeft(OneMore, [p |-> NewRespParser, values |-> <<>>, status |-> "reading"],
           SubSeq(stream.bytes, 1, n))

\* Whether bytes are accepted, and what they mean, does not depend on how
\* they are cut into reads: the outcome is that of one byte at a time.  This
\* is about every sequence of bytes, those Redis would never send included.
OutcomeIndependentOfReads ==
  LET b == ByteByByte(offset) IN out = b.values /\ status = b.status
=============================================================================
