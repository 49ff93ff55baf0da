--------------------------- MODULE MCRedisParser ---------------------------
(***************************************************************************)
(* Instances of RedisParser for TLC.                                       *)
(***************************************************************************)
EXTENDS RedisParser

UpToLength(n, S) == UNION {[1..k -> S] : k \in 0..n}
Array(s) == <<"array", s>>

\* A bulk string that looks like the end of a reply and the start of another.
Nasty == <<"CR", "LF", "$", "1">>

Atoms == {<<"simple", <<"a", "-">>>>, <<"error", <<"a">>>>, <<"int", 3>>, <<"int", -12>>,
          <<"nil">>, <<"bulk", <<>>>>, <<"bulk", <<"b">>>>, <<"bulk", Nasty>>,
          <<"bulk", [i \in 1..11 |-> "c"]>>}
Few   == {<<"int", 3>>, <<"bulk", <<"b">>>>, Array(<<>>)}
Flat  == {Array(s) : s \in UpToLength(2, Atoms)}
InnerArrays == {Array(s) : s \in UpToLength(2, {<<"int", 3>>, Array(<<>>)})}
Deep  == {Array(s) : s \in UpToLength(2, InnerArrays \cup {<<"nil">>})}
Deeper == {Array(<<a, Array(<<Array(<<b, c>>), d>>), e>>) :
             a, b, c, d, e \in {<<"nil">>, <<"bulk", <<"b">>>>}}

\* One reply of any of these shapes, followed by another.
ReplyStreams ==
  {Sent(<<v, <<"int", 3>>>>) : v \in Flat \cup Deep \cup Deeper}
    \cup {Sent(<<v, w>>) : v, w \in Atoms}

Bytes == {"+", "-", ":", "$", "*", "1", "CR", "LF", "a", "control", "non-ascii"}
\* Not the long string, which adds nothing but cuts, and no array of the same reply twice.
Spoilt == {Sent(<<v, <<"int", 3>>>>).bytes : v \in {a \in Atoms : a[1] # "bulk" \/ Len(a[2]) < 5}}
            \cup {EncodeReply(Array(<<p[1], p[2]>>)) : p \in {q \in Few \X Few : q[1] # q[2]}}
            \cup {EncodeReply(Array(<<Array(<<v>>), <<"int", 3>>>>)) : v \in Few}

\* Sequences of bytes with one of them replaced, and short ones of any bytes.
CorruptStreams ==
  {CorruptReply([s EXCEPT ![i] = b]) : <<s, i, b>> \in
     UNION {{s} \X (1..Len(s)) \X Bytes : s \in Spoilt}}
    \cup {CorruptReply(s) : s \in UpToLength(4, {"*", "$", ":", "1", "-", "CR", "LF"})}

AllReplies == ReplyStreams \cup CorruptStreams
=============================================================================
