---------------------------- MODULE MCHttpParser ----------------------------
(***************************************************************************)
(* Streams of requests for TLC, and streams with one byte wrong.           *)
(***************************************************************************)
EXTENDS HttpParser

Line(text) == text \o <<"CR", "LF">>
Fields(headers) == FlattenSeq([i \in DOMAIN headers |-> Line(headers[i][1] \o <<":", "SP">> \o headers[i][2])])

Plain(method, url, minor, headers, body) ==
  [method |-> method, url |-> url, minor |-> minor, headers |-> headers, chunks |-> <<>>, body |-> body]
Chunked(method, url, chunks) ==
  [method |-> method, url |-> url, minor |-> "1", body |-> FlattenSeq(chunks), chunks |-> chunks,
   headers |-> <<<<<<"transfer", "-encoding">>, <<"chun", "ked">>>>>>]

Chunk(c) == Line(<<Digits[Len(c) + 1]>>) \o Line(c)
Encode(r) ==
  Line(MethodText[r.method] \o <<"SP">> \o r.url \o <<"SP", "H", "T", "T", "P", "/", "1", ".", r.minor>>)
  \o Line(Fields(r.headers))
  \o IF r.chunks = <<>> THEN r.body
     ELSE FlattenSeq([i \in DOMAIN r.chunks |-> Chunk(r.chunks[i])]) \o Line(<<"0">>) \o Line(<<>>)

Received(r) ==
  LET q == SelectInSeq(r.url, LAMBDA ch : ch = "?")
  IN  [method |-> r.method, raw_url |-> r.url,
       url |-> IF q = 0 THEN r.url ELSE SubSeq(r.url, 1, q - 1),
       headers |-> r.headers, body |-> r.body]

Stream(rs) ==
  [bytes |-> FlattenSeq([i \in DOMAIN rs |-> Encode(rs[i])]),
   requests |-> [i \in DOMAIN rs |-> Received(rs[i])], wellFormed |-> TRUE]

Root == <<"/">>
Length(ds) == <<ContentLength, ds>>
Connection(words) == <<<<"con", "nection">>, words>>
Get == Plain("GET", <<"/", "name", "?", "value">>, "1", <<<<<<"name">>, <<"value">>>>>>, <<>>)
Post == Plain("POST", Root, "1", <<Length(<<"3">>)>>, <<"CR", "LF", "A">>)
Twelve == Plain("PUT", Root, "1", <<<<<<"con", "tent">>, <<"se">>>>, Length(<<"1", "2">>)>>,
                [i \in 1..12 |-> "A"])
Send == Chunked("POST", Root, <<<<"A", "B">>, <<"0">>>>)
ClosingGet == Plain("GET", Root, "1", <<Connection(<<"clo", "se">>)>>, <<>>)
Kept == Plain("GET", <<"*">>, "0", <<Connection(<<"keep", "-alive">>)>>, <<>>)
Proxied == Plain("GET", <<"name", ":", "/", "/", "A", ":", "B", "@", "[", "A", "]", ":", "8", "/", "C", "?", "D", "#", "E">>, "0",
                 <<<<<<"proxy-con", "nection">>, <<"keep", "-alive">>>>>>, <<>>)
Tunnel == Plain("CONNECT", <<"name", ":", "8">>, "1", <<>>, <<>>)
Upgrade == Plain("GET", Root, "1", <<<<<<"upgrade">>, <<"value">>>>>>, <<>>)

WellFormed ==
  {Stream(<<Plain(m, Root, "1", <<>>, <<>>)>>) : m \in DOMAIN MethodText \ {"CONNECT"}}
  \cup {Stream(rs) : rs \in
     {<<Get>>, <<Post, Get>>, <<Send, Get>>, <<Get, ClosingGet>>, <<Kept, Proxied, Get>>, <<Twelve, Post>>,
      <<Get, Tunnel>>, <<Post, Upgrade>>}}

Replace(s, i, t) == SubSeq(s, 1, i - 1) \o t \o SubSeq(s, i + 1, Len(s))
\* Nothing, or another byte, in the place of one.
Noise == {<<>>} \cup {<<ch>> : ch \in {"CR", "LF", "SP", ":", "9", "con", "?", "CR"}}
           \cup {<<"CR", "LF", "SP">>}
Corrupt(rs) ==
  LET bytes == Stream(rs).bytes
  IN  {[bytes |-> Replace(bytes, i, t), requests |-> <<>>, wellFormed |-> FALSE] :
         i \in DOMAIN bytes, t \in Noise}
Corrupted ==
  UNION {Corrupt(rs) : rs \in {<<Post, Get>>, <<Send, Get>>, <<ClosingGet, Get>>, <<Upgrade, Get>>,
                               <<Kept, Twelve>>, <<Proxied>>}}

\* Headers after the last chunk.
Trailing ==
  {[bytes |-> SubSeq(Encode(Send), 1, Len(Encode(Send)) - 2) \o Fields(hs) \o Line(<<>>) \o Encode(Get),
    requests |-> <<Received(Send), Received(Get)>>, wellFormed |-> TRUE] :
     hs \in {<<<<<<"name">>, <<"value">>>>>>}}

Digits2 == {<<a, b>> : a, b \in {"0", "1", "2", "6", "9"}}
\* Numbers up to and beyond ULLONG_MAX, and a header that is too long.
Extreme ==
  {[bytes |-> Encode(Plain("PUT", Root, "1", <<Length(ds)>>, <<"A", "A", "A">>)),
    requests |-> <<>>, wellFormed |-> FALSE] : ds \in Digits2 \cup {<<"6">> \o d : d \in Digits2}}
  \cup {[bytes |-> Encode(Plain("GET", [i \in 1..n |-> "/"], "1", <<>>, <<>>)),
         requests |-> <<>>, wellFormed |-> FALSE] : n \in {30, 31, 32, 33, 60}}

AllStreams == WellFormed \cup Corrupted \cup Trailing \cup Extreme
=============================================================================
