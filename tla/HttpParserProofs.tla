-------------------------- MODULE HttpParserProofs --------------------------
(***************************************************************************)
(* For any streams and any limits: however a stream is cut into reads, the *)
(* parser that gets it in pieces and the one that gets it at once build    *)
(* the same requests and reject the same byte with the same error.         *)
(*                                                                         *)
(* The two differ between two bytes.  A text that was begun in an earlier  *)
(* read is partly delivered in one and only marked in the other, which     *)
(* holds more of it back.  What they share is what they would be if the    *)
(* read ended here (Alike), and one byte keeps that: outside the texts no  *)
(* mark is set and the two are the same parser (PlainStep); inside a text  *)
(* the byte has the same effect on what decides the next step (Control)    *)
(* and makes what is not delivered yet longer (Grown), or both deliver the *)
(* text and are the same again (PairStep).  It needs to be known that the  *)
(* mark of a text is set in the states that read it and no other mark is   *)
(* (MarksFit): a mark forgotten, or kept too long, would deliver the wrong *)
(* bytes at the end of a read.  A new read in the middle of a text marks   *)
(* its first byte, before which nothing is left to deliver (NextRead).     *)
(***************************************************************************)
EXTENDS HttpParser, SequenceTheorems, TLAPS

-----------------------------------------------------------------------------
\* Parsers.

\* The fields of a parser.
ParserFields ==
  {"state", "header_state", "mark", "nread", "flags", "content_length", "method", "index",
   "major", "minor", "upgrade", "errno", "raw_url", "header_field", "header_value", "building",
   "headers", "body", "early", "requests"}

\* The states that read HTTP/ and the version.
Constants == {"s_req_http_H", "s_req_http_HT", "s_req_http_HTT", "s_req_http_HTTP"}
VersionStates == {"s_req_first_http_major", "s_req_http_major", "s_req_first_http_minor",
                  "s_req_http_minor"}
\* The states in which no text is open.
PlainStates ==
  {"s_dead", "s_start_req", "s_req_method", "s_req_spaces_before_url", "s_req_http_start",
   "s_req_line_almost_done", "s_header_field_start", "s_header_value_discard_ws",
   "s_header_value_discard_ws_almost_done", "s_header_value_discard_lws",
   "s_header_almost_done", "s_header_value_lws", "s_headers_almost_done", "s_chunk_size_start",
   "s_chunk_size", "s_chunk_parameters", "s_chunk_size_almost_done", "s_chunk_data_done"}
  \cup Constants \cup VersionStates
\* The states of a body, whose mark may be lost between two reads.
BodyOpen == {"s_body_identity", "s_chunk_data", "s_chunk_data_almost_done"}
States == PlainStates \cup UrlStates \cup BodyOpen \cup {"s_header_field", "s_header_value"}

\* Types.
IsParser(p) ==
  /\ p = [f \in ParserFields |-> p[f]]
  /\ p.mark \in [Marks -> Nat]
  /\ p.raw_url \in Seq(STRING)
  /\ p.header_field \in Seq(STRING)
  /\ p.header_value \in Seq(STRING)
  /\ p.body \in Seq(STRING)
  /\ p.building \in {0, 1}
  /\ p.content_length \in Nat
  /\ p.early \in BOOLEAN
  /\ p.upgrade \in BOOLEAN

\* No mark, and that of one text alone.
Unmarked == [k \in Marks |-> 0]
Only(k, i) == [j \in Marks |-> IF j = k THEN i ELSE 0]

\* The marks lie within the read, and a parser that has left it has seen an upgrade.
Bounded(p, n) ==
  /\ IsParser(p)
  /\ \A k \in Marks : p.mark[k] <= n + 1
  /\ p.early => p.upgrade

\* A text is open exactly in the states that read it.
MarksFit(p) ==
  /\ p.state \in States
  /\ p.state \in PlainStates => p.mark = Unmarked
  /\ p.state \in UrlStates => p.mark["url"] # 0 /\ p.mark = Only("url", p.mark["url"])
  /\ p.state = "s_header_field" =>
       p.mark["header_field"] # 0 /\ p.mark = Only("header_field", p.mark["header_field"])
  /\ p.state = "s_header_value" =>
       p.mark["header_value"] # 0 /\ p.mark = Only("header_value", p.mark["header_value"])
  /\ p.state \in BodyOpen => p.mark = Only("body", p.mark["body"])
  /\ p.state \in {"s_body_identity", "s_chunk_data"} => p.content_length > 0
  /\ p.early => p.state \in PlainStates

Good(p, n) == Bounded(p, n) /\ (p.errno = "OK" => MarksFit(p))

\* Between two texts.
Plain(p, n) == Bounded(p, n) /\ p.mark = Unmarked /\ p.errno = "OK" /\ p.early = FALSE

-----------------------------------------------------------------------------

\* A sequence of one.
LEMMA Single ==
  ASSUME NEW S, NEW x \in S
  PROVE  <<x>> \in Seq(S)
OBVIOUS

\* The byte at a position, and the text of that byte alone.
LEMMA ElementOf ==
  ASSUME NEW S, NEW b \in Seq(S), NEW m \in Nat, m # 0, m <= Len(b)
  PROVE  b[m] \in S /\ SubSeq(b, m, m) = <<b[m]>>
<1>1. b[m] \in S
  OBVIOUS
<1>2. PICK x, s : x = b[m] /\ s = SubSeq(b, m, m)
  OBVIOUS
<1>3. Len(s) = 1 /\ s[1] = x /\ s \in Seq(S)
  BY <1>2, SubSeqProperties
<1>4. s = <<x>>
  BY <1>3
<1> QED
  BY <1>1, <1>2, <1>4

\* What lies between a mark and a position of the stream is a text.
LEMMA TextOf ==
  ASSUME NEW b \in Seq(STRING), NEW m \in Nat, NEW n \in Nat, m # 0, m <= n + 1, n <= Len(b)
  PROVE  SubSeq(b, m, n) \in Seq(STRING)
<1>1. m = n + 1 \/ m <= n
  OBVIOUS
<1>2. CASE m <= n
  BY <1>2, SubSeqProperties
<1>3. CASE m = n + 1
  BY <1>3, SubSeqProperties
<1> QED
  BY <1>1, <1>2, <1>3

\* One position on, that text is longer by the byte there.
LEMMA TextGrows ==
  ASSUME NEW b \in Seq(STRING), NEW m \in Nat, NEW n \in Nat, m # 0, m <= n + 1,
         n + 1 <= Len(b)
  PROVE  SubSeq(b, m, n + 1) = SubSeq(b, m, n) \o <<b[n + 1]>>
<1>1. /\ Len(SubSeq(b, m, n)) = n + 1 - m
      /\ Len(SubSeq(b, m, n + 1)) = n + 2 - m
      /\ \A i \in 1 .. (n + 1 - m) : SubSeq(b, m, n)[i] = b[m + i - 1]
      /\ \A i \in 1 .. (n + 2 - m) : SubSeq(b, m, n + 1)[i] = b[m + i - 1]
  OBVIOUS
<1>2. SubSeq(b, m, n) \in Seq(STRING) /\ SubSeq(b, m, n + 1) \in Seq(STRING)
  BY TextOf, n + 1 \in Nat
<1>3. b[n + 1] \in STRING
  OBVIOUS
<1> QED
  BY <1>1, <1>2, <1>3

\* What the callback for k makes of the texts of p when it gets t.
UrlAfter(p, k, t) == IF k = "url" THEN p.raw_url \o t ELSE p.raw_url
BodyAfter(p, k, t) == IF k = "body" THEN p.body \o t ELSE p.body
Flushes(p, k) == k = "header_field" /\ p.building = 0 /\ p.header_value # <<>>
FieldAfter(p, k, t) ==
  IF k # "header_field" THEN p.header_field
  ELSE IF p.building = 0 THEN t ELSE p.header_field \o t
ValueAfter(p, k, t) ==
  IF k = "header_value" THEN (IF p.building = 0 THEN p.header_value \o t ELSE t)
  ELSE IF Flushes(p, k) THEN <<>> ELSE p.header_value
HeadersAfter(p, k) ==
  IF Flushes(p, k) THEN Append(p.headers, <<p.header_field, p.header_value>>) ELSE p.headers
BuildingAfter(p, k) ==
  IF k = "header_field" THEN 1 ELSE IF k = "header_value" THEN 0 ELSE p.building

\* p with other texts and marks, and p once t is delivered for k.
Put(p, url, field, value, building, headers, body, mark) ==
  [p EXCEPT !.raw_url = url, !.header_field = field, !.header_value = value,
            !.building = building, !.headers = headers, !.body = body, !.mark = mark]

Delivered(p, k, t, mark) ==
  Put(p, UrlAfter(p, k, t), FieldAfter(p, k, t), ValueAfter(p, k, t), BuildingAfter(p, k),
      HeadersAfter(p, k), BodyAfter(p, k, t), mark)

\* The text that is open, up to byte n.
Pending(p, k, n) == IF p.mark[k] = 0 THEN <<>> ELSE SubSeq(source.bytes, p.mark[k], n)

\* With other texts and marks a parser is a parser in the same state.
LEMMA PutParser ==
  ASSUME NEW p, IsParser(p), NEW url \in Seq(STRING), NEW field \in Seq(STRING),
         NEW value \in Seq(STRING), NEW building \in {0, 1}, NEW headers, NEW body \in Seq(STRING),
         NEW mark \in [Marks -> Nat], NEW q,
         q = Put(p, url, field, value, building, headers, body, mark)
  PROVE  /\ IsParser(q) /\ q.mark = mark /\ q.errno = p.errno /\ q.early = p.early
         /\ q.state = p.state /\ q.upgrade = p.upgrade /\ q.content_length = p.content_length
         /\ q.requests = p.requests
BY DEF IsParser, ParserFields, Put

\* A callback makes texts of texts.
LEMMA AfterTyped ==
  ASSUME NEW p, IsParser(p), NEW k, NEW t \in Seq(STRING)
  PROVE  /\ UrlAfter(p, k, t) \in Seq(STRING)
         /\ FieldAfter(p, k, t) \in Seq(STRING)
         /\ ValueAfter(p, k, t) \in Seq(STRING)
         /\ BodyAfter(p, k, t) \in Seq(STRING)
         /\ BuildingAfter(p, k) \in {0, 1}
<1>1. /\ p.raw_url \o t \in Seq(STRING) /\ p.body \o t \in Seq(STRING)
      /\ p.header_field \o t \in Seq(STRING) /\ p.header_value \o t \in Seq(STRING)
      /\ <<>> \in Seq(STRING)
  BY DEF IsParser
<1> QED
  BY <1>1 DEF IsParser, UrlAfter, FieldAfter, ValueAfter, BodyAfter, BuildingAfter,
                   Flushes

\* on_url(), on_header_field(), on_header_value() and on_body() as one operation on the
\* texts.
LEMMA DeliverIs ==
  ASSUME NEW p, IsParser(p), NEW k \in Marks, NEW t \in Seq(STRING)
  PROVE  Deliver(p, k, t) = Delivered(p, k, t, p.mark)
<1>1. PICK url, field, value : url = p.raw_url \o t /\ field = p.header_field \o t
                               /\ value = p.header_value \o t
  OBVIOUS
<1>b. PICK body, headers : body = p.body \o t
                         /\ headers = Append(p.headers, <<p.header_field, p.header_value>>)
  OBVIOUS
<1>2. CASE k = "url"
  <2>1. Deliver(p, k, t) = [p EXCEPT !.raw_url = url]
    BY <1>1, <1>2 DEF Deliver
  <2>2. Delivered(p, k, t, p.mark) =
          Put(p, url, p.header_field, p.header_value, p.building, p.headers, p.body, p.mark)
    BY <1>1, <1>2 DEF Delivered, UrlAfter, FieldAfter, ValueAfter, BuildingAfter, HeadersAfter,
                      BodyAfter, Flushes
  <2> QED
    BY ZenonT(60), <2>1, <2>2 DEF Put, IsParser, ParserFields
<1>3. CASE k = "body"
  <2>1. Deliver(p, k, t) = [p EXCEPT !.body = body]
    BY <1>b, <1>3 DEF Deliver
  <2>2. Delivered(p, k, t, p.mark) =
          Put(p, p.raw_url, p.header_field, p.header_value, p.building, p.headers, body, p.mark)
    BY <1>b, <1>3 DEF Delivered, UrlAfter, FieldAfter, ValueAfter, BuildingAfter, HeadersAfter,
                      BodyAfter, Flushes
  <2> QED
    BY ZenonT(60), <2>1, <2>2 DEF Put, IsParser, ParserFields
<1>4. CASE k = "header_value"
  <2>1. Deliver(p, k, t) =
          IF p.building = 0 THEN [p EXCEPT !.header_value = value]
          ELSE [p EXCEPT !.header_value = t, !.building = 0]
    BY <1>1, <1>4 DEF Deliver, on_header_value
  <2>2. Delivered(p, k, t, p.mark) =
          Put(p, p.raw_url, p.header_field, IF p.building = 0 THEN value ELSE t, 0, p.headers,
              p.body, p.mark)
    BY <1>1, <1>4 DEF Delivered, UrlAfter, FieldAfter, ValueAfter, BuildingAfter, HeadersAfter,
                      BodyAfter, Flushes
  <2>3. CASE p.building = 0
    <3>1. Put(p, p.raw_url, p.header_field, value, 0, p.headers, p.body, p.mark) =
            [p EXCEPT !.header_value = value]
      BY <2>3 DEF Put, IsParser, ParserFields
    <3> QED
      BY <2>1, <2>2, <2>3, <3>1
  <2>4. CASE p.building # 0
    <3>1. Put(p, p.raw_url, p.header_field, t, 0, p.headers, p.body, p.mark) =
            [p EXCEPT !.header_value = t, !.building = 0]
      BY <2>4 DEF Put, IsParser, ParserFields
    <3> QED
      BY <2>1, <2>2, <2>4, <3>1
  <2> QED
    BY <2>3, <2>4
<1>5. CASE k = "header_field"
  <2>1. CASE p.building = 0 /\ p.header_value # <<>>
    <3>1. Deliver(p, k, t) = [[p EXCEPT !.headers = headers, !.header_field = <<>>,
                                        !.header_value = <<>>]
                               EXCEPT !.header_field = t, !.building = 1]
      BY <1>b, <1>5, <2>1 DEF Deliver, on_header_field, Emplace
    <3>2. Delivered(p, k, t, p.mark) =
            Put(p, p.raw_url, t, <<>>, 1, headers, p.body, p.mark)
      BY <1>b, <1>5, <2>1 DEF Delivered, UrlAfter, FieldAfter, ValueAfter, BuildingAfter,
                              HeadersAfter, BodyAfter, Flushes
    <3>3. Put(p, p.raw_url, t, <<>>, 1, headers, p.body, p.mark) =
            [[p EXCEPT !.headers = headers, !.header_field = <<>>, !.header_value = <<>>]
              EXCEPT !.header_field = t, !.building = 1]
      BY DEF Put, IsParser, ParserFields
    <3> QED
      BY <3>1, <3>2, <3>3
  <2>2. CASE p.building = 0 /\ p.header_value = <<>>
    <3>1. Deliver(p, k, t) = [p EXCEPT !.header_field = t, !.building = 1]
      BY <1>5, <2>2 DEF Deliver, on_header_field
    <3>2. Delivered(p, k, t, p.mark) =
            Put(p, p.raw_url, t, p.header_value, 1, p.headers, p.body, p.mark)
      BY <1>5, <2>2 DEF Delivered, UrlAfter, FieldAfter, ValueAfter, BuildingAfter,
                              HeadersAfter, BodyAfter, Flushes
    <3> QED
      BY ZenonT(60), <3>1, <3>2 DEF Put, IsParser, ParserFields
  <2>3. CASE p.building # 0
    <3>1. Deliver(p, k, t) = [p EXCEPT !.header_field = field]
      BY <1>1, <1>5, <2>3 DEF Deliver, on_header_field
    <3>2. Delivered(p, k, t, p.mark) =
            Put(p, p.raw_url, field, p.header_value, 1, p.headers, p.body, p.mark)
      BY <1>1, <1>5, <2>3 DEF Delivered, UrlAfter, FieldAfter, ValueAfter, BuildingAfter,
                              HeadersAfter, BodyAfter, Flushes
    <3>3. p.building = 1
      BY <2>3 DEF IsParser
    <3>4. Put(p, p.raw_url, field, p.header_value, 1, p.headers, p.body, p.mark) =
            [p EXCEPT !.header_field = field]
      BY <3>3 DEF Put, IsParser, ParserFields
    <3> QED
      BY <3>1, <3>2, <3>4
  <2> QED
    BY <2>1, <2>2, <2>3
<1> QED
  BY <1>2, <1>3, <1>4, <1>5 DEF Marks

-----------------------------------------------------------------------------

\* parser->state = s changes the state alone.
LEMMA GoParser ==
  ASSUME NEW p, NEW s, IsParser(p)
  PROVE  /\ IsParser(Go(p, s)) /\ Go(p, s).state = s /\ Go(p, s).mark = p.mark
         /\ Go(p, s).errno = p.errno
BY DEF IsParser, Go, ParserFields

\* SET_ERRNO() keeps the requests that are complete and the flag of an upgrade.
LEMMA FailKeeps ==
  ASSUME NEW p, NEW e, IsParser(p)
  PROVE  /\ Fail(p, e).errno = e
         /\ Fail(p, e).requests = p.requests
         /\ Fail(p, e).upgrade = p.upgrade
BY DEF Fail, IsParser, ParserFields

\* SET_ERRNO(): after an error nothing is asked of the marks.
LEMMA FailGood ==
  ASSUME NEW p, NEW n, NEW e, Bounded(p, n), e # "OK"
  PROVE  Good(Fail(p, e), n)
BY DEF Bounded, Good, Fail, IsParser, ParserFields

\* A parser with nothing open goes to a state that reads no text.
LEMMA GoGood ==
  ASSUME NEW p, NEW n, NEW s \in PlainStates, Plain(p, n)
  PROVE  Good(Go(p, s), n) /\ Plain(Go(p, s), n)
<1>1. PICK q : q = Go(p, s)
  OBVIOUS
<1>2. /\ IsParser(q) /\ q.state = s /\ q.mark = Unmarked /\ q.errno = "OK" /\ q.early = FALSE
      /\ q.mark = p.mark
  BY <1>1 DEF Plain, Bounded, Go, IsParser, ParserFields
<1>3. Bounded(q, n)
  BY <1>2 DEF Plain, Bounded
<1>4. s \notin UrlStates /\ s \notin BodyOpen /\ s # "s_header_field" /\ s # "s_header_value"
  BY DEF PlainStates, Constants, VersionStates, UrlStates, BodyOpen, Server, Query
<1>5. MarksFit(q)
  BY <1>2, <1>4 DEF MarksFit, BodyOpen, States
<1> QED
  BY <1>1, <1>2, <1>3, <1>5 DEF Plain, Good

\* A parser with nothing open may stay in such a state.
LEMMA StayGood ==
  ASSUME NEW p, NEW n, Plain(p, n), p.state \in PlainStates
  PROVE  Good(p, n)
<1>1. p.state \notin UrlStates /\ p.state \notin BodyOpen
      /\ p.state # "s_header_field" /\ p.state # "s_header_value"
  BY DEF PlainStates, Constants, VersionStates, UrlStates, BodyOpen, Server, Query
<1>2. MarksFit(p)
  BY <1>1 DEF MarksFit, BodyOpen, States, Plain
<1> QED
  BY <1>2 DEF Plain, Good

\* What is not open is not open one byte later.
LEMMA PlainLater ==
  ASSUME NEW p, NEW n \in Nat, Plain(p, n)
  PROVE  Plain(p, n + 1)
BY DEF Plain, Bounded, Unmarked, Marks

\* What an operation changes besides the texts and the marks does not open one.
LEMMA PlainAlike ==
  ASSUME NEW p, NEW n, Plain(p, n), NEW q, IsParser(q), q.mark = p.mark,
         q.errno = p.errno, q.early = p.early
  PROVE  Plain(q, n)
BY DEF Plain, Bounded

\* An error while nothing is open.
LEMMA PlainFail ==
  ASSUME NEW p, NEW n, NEW e, Plain(p, n), e # "OK"
  PROVE  Good(Fail(p, e), n)
BY FailGood DEF Plain

\* HTTPParser::clear() opens no text.
LEMMA ClearPlain ==
  ASSUME NEW p, NEW n, Plain(p, n)
  PROVE  Plain(Clear(p), n)
<1>1. PICK q : q = Clear(p)
  OBVIOUS
<1>2. IsParser(q) /\ q.mark = p.mark /\ q.errno = p.errno /\ q.early = p.early
  BY <1>1, <<>> \in Seq(STRING) DEF Clear, Plain, Bounded, IsParser, ParserFields
<1> QED
  BY <1>1, <1>2, PlainAlike

\* The header that is complete goes into the headers; the marks stay.
LEMMA EmplaceParser ==
  ASSUME NEW p, IsParser(p)
  PROVE  /\ IsParser(Emplace(p)) /\ Emplace(p).mark = p.mark /\ Emplace(p).errno = p.errno
         /\ Emplace(p).early = p.early /\ Emplace(p).upgrade = p.upgrade
         /\ Emplace(p).state = p.state /\ Emplace(p).content_length = p.content_length
<1>1. PICK hs : hs = Append(p.headers, <<p.header_field, p.header_value>>)
  OBVIOUS
<1>2. Emplace(p) = [p EXCEPT !.headers = hs, !.header_field = <<>>, !.header_value = <<>>]
  BY <1>1 DEF Emplace
<1>3. <<>> \in Seq(STRING)
  OBVIOUS
<1> QED
  BY <1>2, <1>3 DEF IsParser, ParserFields

\* on_headers_complete() opens no text.
LEMMA HeadersCompletePlain ==
  ASSUME NEW p, NEW n, Plain(p, n)
  PROVE  Plain(on_headers_complete(p), n)
BY EmplaceParser, PlainAlike DEF on_headers_complete, Plain, Bounded

\* on_message_complete() leaves a parser with nothing open, which may leave the read for an
\* upgrade.
LEMMA MessageCompleteGood ==
  ASSUME NEW p, NEW n, Plain(p, n)
  PROVE  /\ Good(MessageComplete(p), n)
         /\ Plain(MessageComplete(p), n)
         /\ MessageComplete(p).upgrade = p.upgrade
         /\ p.upgrade => Good([MessageComplete(p) EXCEPT !.early = TRUE], n)
<1>1. PICK s, rs : s = NEW_MESSAGE(p) /\ rs = Append(p.requests, Request(p))
  OBVIOUS
<1>2. s \in PlainStates
  BY <1>1 DEF NEW_MESSAGE, PlainStates
<1>3. PICK q : q = [p EXCEPT !.state = s, !.requests = rs]
  OBVIOUS
<1>4. MessageComplete(p) = q
  BY <1>1, <1>3 DEF MessageComplete
<1>5. /\ IsParser(q) /\ q.mark = p.mark /\ q.errno = p.errno /\ q.early = p.early
      /\ q.state = s /\ q.upgrade = p.upgrade
  BY <1>3 DEF Plain, Bounded, IsParser, ParserFields
<1>6. Plain(q, n) /\ Good(q, n)
  BY <1>5, <1>2, PlainAlike, StayGood
<1>7. PICK r : r = [q EXCEPT !.early = TRUE]
  OBVIOUS
<1>8. /\ IsParser(r) /\ r.mark = q.mark /\ r.errno = q.errno /\ r.early = TRUE
      /\ r.state = s /\ r.upgrade = q.upgrade /\ r.content_length = q.content_length
  BY <1>5, <1>7 DEF IsParser, ParserFields
<1>9. ASSUME p.upgrade PROVE Good(r, n)
  <2>1. Bounded(r, n)
    BY <1>9, <1>8, <1>6, <1>5 DEF Plain, Bounded
  <2>2. MarksFit(r)
    BY <1>2, <1>8, <1>6, <1>5 DEF Good, MarksFit, Plain
  <2> QED
    BY <2>1, <2>2 DEF Good
<1> QED
  BY <1>4, <1>5, <1>6, <1>7, <1>9

-----------------------------------------------------------------------------
\* The request line.

\* s_start_req: the first letter of a method, or an error.
LEMMA StartReqGood ==
  ASSUME NEW p, NEW n, NEW ch, Plain(p, n), p.state = "s_start_req"
  PROVE  Good(s_start_req(p, ch), n)
<1>1. CASE ch \in {"CR", "LF"}
  BY <1>1, StayGood DEF s_start_req, PlainStates
<1>2. CASE ch \notin {"CR", "LF"}
  <2> DEFINE first == {m \in {"CONNECT", "DELETE", "GET", "HEAD", "LOCK", "MKCOL", "NOTIFY",
                            "OPTIONS", "POST", "REPORT", "SUBSCRIBE", "TRACE", "UNLOCK"} :
                       MethodText[m][1] = ch}
  <2>1. PICK q : q = [p EXCEPT !.flags = {}, !.content_length = ULLONG_MAX]
    OBVIOUS
  <2>2. IsParser(q) /\ q.mark = p.mark /\ q.errno = p.errno /\ q.early = p.early
    BY <2>1, LimitAssumption DEF Plain, Bounded, IsParser, ParserFields
  <2>3. Plain(q, n) /\ Plain(Clear(q), n)
    BY <2>2, PlainAlike, ClearPlain
  <2>4. PICK r : r = Clear(q)
    OBVIOUS
  <2>p. Plain(r, n)
    BY <2>3, <2>4
  <2>a. PICK name : name = CHOOSE m \in first : TRUE
    OBVIOUS
  <2>5. PICK t : t = [r EXCEPT !.method = name, !.index = 1, !.state = "s_req_method"]
    OBVIOUS
  <2> HIDE DEF first
  <2>6. /\ IsParser(t) /\ t.mark = r.mark /\ t.errno = r.errno /\ t.early = r.early
        /\ t.state = "s_req_method"
    BY <2>p, <2>5 DEF Plain, Bounded, IsParser, ParserFields
  <2>7. Good(t, n)
    BY <2>p, <2>6, PlainAlike, StayGood DEF PlainStates
  <2>8. s_start_req(p, ch) = IF first = {} THEN Fail(q, "INVALID_METHOD") ELSE t
    BY <1>2, <2>1, <2>4, <2>a, <2>5 DEF s_start_req, first
  <2> QED
    BY <2>3, <2>7, <2>8, PlainFail
<1> QED
  BY <1>1, <1>2

\* s_req_method: the letters of a method.
LEMMA MethodGood ==
  ASSUME NEW p, NEW n, NEW ch, Plain(p, n), p.state = "s_req_method"
  PROVE  Good(s_req_method(p, ch), n)
<1> DEFINE text == MethodText[p.method]
           others == {t \in Turns : t[1] = p.method /\ t[2] = p.index /\ t[3] = ch}
<1>1. PICK q : q = [p EXCEPT !.index = @ + 1]
  OBVIOUS
<1>2. PICK i : i = p.index + 1
  OBVIOUS
<1>3. /\ IsParser(q) /\ q.mark = p.mark /\ q.errno = p.errno /\ q.early = p.early
      /\ q.state = p.state
  BY <1>1, <1>2 DEF Plain, Bounded, IsParser, ParserFields
<1>4. Plain(q, n)
  BY <1>3, PlainAlike
<1>m. PICK m : m = (CHOOSE t \in others : TRUE)[4]
  OBVIOUS
<1>5. PICK r : r = [q EXCEPT !.method = m]
  OBVIOUS
<1> HIDE DEF text, others
<1>6. /\ IsParser(r) /\ r.mark = p.mark /\ r.errno = p.errno /\ r.early = p.early
      /\ r.state = p.state
  BY <1>5, <1>3 DEF IsParser, ParserFields
<1>7. Good(r, n) /\ Good(q, n)
  BY <1>3, <1>4, <1>6, PlainAlike, StayGood DEF PlainStates
<1>8. \/ s_req_method(p, ch) = Go(q, "s_req_spaces_before_url")
      \/ s_req_method(p, ch) = q
      \/ s_req_method(p, ch) = r
      \/ s_req_method(p, ch) = Fail(p, "INVALID_METHOD")
  BY <1>1, <1>m, <1>5 DEF s_req_method, text, others
<1> QED
  BY <1>4, <1>7, <1>8, PlainFail, GoGood DEF PlainStates

-----------------------------------------------------------------------------
\* Texts that are open.

\* A parser that may be reading a text for the callback k.
Open(p, k, n) ==
  /\ Bounded(p, n)
  /\ p.errno = "OK"
  /\ p.early = FALSE
  /\ p.mark = Only(k, p.mark[k])
  /\ p.mark[k] # 0 \/ k = "body"

\* What is open is a text.
LEMMA PendingTyped ==
  ASSUME NEW p, NEW k \in Marks, NEW n \in Nat, Bounded(p, n), source.bytes \in Seq(STRING),
         n <= Len(source.bytes)
  PROVE  Pending(p, k, n) \in Seq(STRING)
<1>1. p.mark[k] \in Nat /\ p.mark[k] <= n + 1
  BY DEF Bounded, IsParser
<1>2. <<>> \in Seq(STRING)
  OBVIOUS
<1> QED
  BY <1>1, <1>2, TextOf DEF Pending

\* While a mark is set, what is open grows by every byte.
LEMMA PendingGrows ==
  ASSUME NEW p, NEW k \in Marks, NEW n \in Nat, Bounded(p, n), source.bytes \in Seq(STRING),
         n + 1 <= Len(source.bytes), p.mark[k] # 0
  PROVE  Pending(p, k, n + 1) = Pending(p, k, n) \o <<source.bytes[n + 1]>>
<1>1. p.mark[k] \in Nat /\ p.mark[k] <= n + 1
  BY DEF Bounded, IsParser
<1> QED
  BY <1>1, TextGrows DEF Pending

\* After a callback the parser is in the state it was in.
LEMMA DeliveredParser ==
  ASSUME NEW p, IsParser(p), NEW k, NEW t \in Seq(STRING), NEW mark \in [Marks -> Nat],
         NEW q, q = Delivered(p, k, t, mark)
  PROVE  /\ IsParser(q) /\ q.mark = mark /\ q.errno = p.errno /\ q.early = p.early
         /\ q.state = p.state /\ q.upgrade = p.upgrade /\ q.content_length = p.content_length
         /\ q.requests = p.requests
<1>1. PICK url, field, value, building, headers, body :
        /\ url = UrlAfter(p, k, t) /\ field = FieldAfter(p, k, t)
        /\ value = ValueAfter(p, k, t) /\ building = BuildingAfter(p, k)
        /\ headers = HeadersAfter(p, k) /\ body = BodyAfter(p, k, t)
  OBVIOUS
<1>2. /\ url \in Seq(STRING) /\ field \in Seq(STRING) /\ value \in Seq(STRING)
      /\ body \in Seq(STRING) /\ building \in {0, 1}
  BY <1>1, AfterTyped
<1>3. q = Put(p, url, field, value, building, headers, body, mark)
  BY <1>1 DEF Delivered
<1> QED
  BY <1>2, <1>3, PutParser

\* A callback for no bytes of the body changes nothing.
LEMMA NothingDelivered ==
  ASSUME NEW p, IsParser(p), p.mark = Unmarked
  PROVE  Delivered(p, "body", <<>>, Unmarked) = p
<1>1. p.body \o <<>> = p.body
  BY DEF IsParser
<1>2. Delivered(p, "body", <<>>, Unmarked) =
        Put(p, p.raw_url, p.header_field, p.header_value, p.building, p.headers, p.body, p.mark)
  BY <1>1 DEF Delivered, UrlAfter, FieldAfter, ValueAfter, BuildingAfter, HeadersAfter,
              BodyAfter, Flushes
<1> QED
  BY <1>2 DEF Put, IsParser, ParserFields

\* CALLBACK_DATA(FOR): the text that is open is delivered and its mark cleared; without a
\* mark nothing happens.
LEMMA OpenCallback ==
  ASSUME NEW p, NEW k \in Marks, NEW n \in Nat, Open(p, k, n), source.bytes \in Seq(STRING),
         n <= Len(source.bytes)
  PROVE  Callback(p, k, n) = Delivered(p, k, Pending(p, k, n), Unmarked)
<1>1. IsParser(p) /\ p.mark \in [Marks -> Nat]
  BY DEF Open, Bounded, IsParser
<1>2. CASE p.mark[k] = 0
  <2>1. k = "body" /\ p.mark = Unmarked
    BY <1>2, Zenon DEF Open, Only, Unmarked
  <2>2. Callback(p, k, n) = p /\ Pending(p, k, n) = <<>>
    BY <1>2 DEF Callback, Pending
  <2> QED
    BY <2>1, <2>2, <1>1, NothingDelivered
<1>3. CASE p.mark[k] # 0
  <2>1. PICK t : t = Pending(p, k, n)
    OBVIOUS
  <2>t. t \in Seq(STRING)
    BY <2>1, PendingTyped DEF Open
  <2>2. t = SubSeq(source.bytes, p.mark[k], n)
    BY <2>1, <1>3 DEF Pending
  <2>m. PICK marks \in [Marks -> Nat] : marks = p.mark
    BY <1>1
  <2>3. PICK d : d = Delivered(p, k, t, marks)
    OBVIOUS
  <2>4. IsParser(d) /\ d.mark = p.mark
    BY <2>m, <2>3, <2>t, <1>1, DeliveredParser
  <2>5. Callback(p, k, n) = [d EXCEPT !.mark[k] = 0]
    BY <1>3, <1>1, <2>m, <2>t, <2>2, <2>3, DeliverIs DEF Callback
  <2>6. [p.mark EXCEPT ![k] = 0] = Unmarked
    BY DEF Open, Only, Unmarked
  <2>7. Callback(p, k, n) = [d EXCEPT !.mark = Unmarked]
    BY <2>5, <2>6, <2>4
  <2>8. [d EXCEPT !.mark = Unmarked] = Delivered(p, k, t, Unmarked)
    <3>1. PICK url, field, value, building, headers, body :
            /\ url = UrlAfter(p, k, t) /\ field = FieldAfter(p, k, t)
            /\ value = ValueAfter(p, k, t) /\ building = BuildingAfter(p, k)
            /\ headers = HeadersAfter(p, k) /\ body = BodyAfter(p, k, t)
      OBVIOUS
    <3>2. /\ d = Put(p, url, field, value, building, headers, body, p.mark)
          /\ Delivered(p, k, t, Unmarked) =
               Put(p, url, field, value, building, headers, body, Unmarked)
      BY <3>1, <2>m, <2>3 DEF Delivered
    <3> QED
      BY <3>2, <1>1 DEF Put, IsParser, ParserFields
  <2> QED
    BY <2>1, <2>7, <2>8
<1> QED
  BY <1>2, <1>3

\* No mark.
LEMMA UnmarkedTyped == Unmarked \in [Marks -> Nat]
BY DEF Unmarked

\* CALLBACK_DATA(FOR) does nothing without a mark.
LEMMA NoCallback ==
  ASSUME NEW p, NEW k, NEW n, p.mark[k] = 0
  PROVE  Callback(p, k, n) = p
BY DEF Callback

\* The end of a read does nothing to a parser with nothing open.
LEMMA EndReadPlain ==
  ASSUME NEW p, NEW n, Plain(p, n)
  PROVE  EndRead(p, n) = p
<1>1. \A k \in Marks : p.mark[k] = 0
  BY DEF Plain, Unmarked
<1>2. \A k \in Marks : Callback(p, k, n) = p
  BY <1>1, NoCallback
<1>3. EndRead(p, n) = [p EXCEPT !.early = FALSE]
  BY <1>2 DEF EndRead, Marks, Plain
<1> QED
  BY <1>3 DEF Plain, Bounded, IsParser, ParserFields

\* The end of a read delivers the one text that is open.
LEMMA EndReadOpen ==
  ASSUME NEW p, NEW k \in Marks, NEW n \in Nat, Open(p, k, n), source.bytes \in Seq(STRING),
         n <= Len(source.bytes)
  PROVE  /\ EndRead(p, n) = Delivered(p, k, Pending(p, k, n), Unmarked)
         /\ EndRead(p, n) = Callback(p, k, n)
         /\ Plain(EndRead(p, n), n)
<1>1. PICK q : q = Callback(p, k, n)
  OBVIOUS
<1>2. q = Delivered(p, k, Pending(p, k, n), Unmarked)
  BY <1>1, OpenCallback
<1>t. PICK t \in Seq(STRING) : t = Pending(p, k, n)
  BY PendingTyped DEF Open
<1>3. /\ IsParser(q) /\ q.mark = Unmarked /\ q.errno = "OK" /\ q.early = FALSE
      /\ q.upgrade = p.upgrade
  BY <1>2, <1>t, UnmarkedTyped, DeliveredParser DEF Open, Bounded
<1>4. Plain(q, n)
  BY <1>3 DEF Plain, Bounded, Unmarked
<1>5. \A j \in Marks : Callback(q, j, n) = q
  BY <1>3, NoCallback DEF Unmarked
<1>6. \A j \in Marks \ {k} : Callback(p, j, n) = p
  BY NoCallback DEF Open, Only
<1>7. EndRead(p, n) = [q EXCEPT !.early = FALSE]
  <2>1. CASE k = "url"
    BY ZenonT(60), <2>1, <1>1, <1>5, <1>6 DEF EndRead, Marks, Open
  <2>2. CASE k = "body"
    BY ZenonT(60), <2>2, <1>1, <1>5, <1>6 DEF EndRead, Marks, Open
  <2>3. CASE k = "header_field"
    BY <2>3, <1>1, <1>5, <1>6 DEF EndRead, Marks, Open
  <2>4. CASE k = "header_value"
    BY <2>4, <1>1, <1>5, <1>6 DEF EndRead, Marks, Open
  <2> QED
    BY <2>1, <2>2, <2>3, <2>4 DEF Marks
<1>8. [q EXCEPT !.early = FALSE] = q
  BY <1>3 DEF IsParser, ParserFields
<1> QED
  BY <1>1, <1>2, <1>4, <1>7, <1>8

\* What a byte inside a text changes besides the text.
Control(p, state, name, flags, length, nread, major, minor) ==
  [p EXCEPT !.state = state, !.header_state = name, !.flags = flags, !.content_length = length,
            !.nread = nread, !.major = major, !.minor = minor]

\* A byte inside a text does not touch the marks.
LEMMA ControlParser ==
  ASSUME NEW p, IsParser(p), NEW s, NEW name, NEW flags, NEW length \in Nat, NEW nread,
         NEW major, NEW minor, NEW q, q = Control(p, s, name, flags, length, nread, major, minor)
  PROVE  /\ IsParser(q) /\ q.mark = p.mark /\ q.errno = p.errno /\ q.early = p.early
         /\ q.state = s /\ q.upgrade = p.upgrade /\ q.content_length = length
         /\ q.requests = p.requests
BY DEF IsParser, ParserFields, Control

\* The byte x is one more of the text for k.
Grown(p, k, x) ==
  Put(p, IF k = "url" THEN p.raw_url \o <<x>> ELSE p.raw_url,
      IF k = "header_field" THEN p.header_field \o <<x>> ELSE p.header_field,
      IF k = "header_value" THEN p.header_value \o <<x>> ELSE p.header_value,
      p.building, p.headers, IF k = "body" THEN p.body \o <<x>> ELSE p.body, p.mark)

\* The texts after a callback.
LEMMA DeliveredFields ==
  ASSUME NEW p, IsParser(p), NEW k, NEW t, NEW mark, NEW q, q = Delivered(p, k, t, mark)
  PROVE  /\ q.raw_url = UrlAfter(p, k, t) /\ q.header_field = FieldAfter(p, k, t)
         /\ q.header_value = ValueAfter(p, k, t) /\ q.building = BuildingAfter(p, k)
         /\ q.headers = HeadersAfter(p, k) /\ q.body = BodyAfter(p, k, t) /\ q.mark = mark
<1>1. PICK url, field, value, building, headers, body :
        /\ url = UrlAfter(p, k, t) /\ field = FieldAfter(p, k, t)
        /\ value = ValueAfter(p, k, t) /\ building = BuildingAfter(p, k)
        /\ headers = HeadersAfter(p, k) /\ body = BodyAfter(p, k, t)
  OBVIOUS
<1>2. q = Put(p, url, field, value, building, headers, body, mark)
  BY <1>1 DEF Delivered
<1>3. /\ q.raw_url = url /\ q.header_field = field /\ q.header_value = value
      /\ q.building = building /\ q.headers = headers /\ q.body = body /\ q.mark = mark
  BY <1>2 DEF Put, IsParser, ParserFields
<1> QED
  BY <1>1, <1>3

\* A text delivered with one byte more is that text delivered, and the byte.
LEMMA DeliveredGrows ==
  ASSUME NEW p, IsParser(p), NEW k \in Marks, NEW t \in Seq(STRING), NEW x \in STRING
  PROVE  Delivered(p, k, t \o <<x>>, Unmarked) = Grown(Delivered(p, k, t, Unmarked), k, x)
<1>1. PICK d, u : d = Delivered(p, k, t, Unmarked) /\ u = t \o <<x>>
  OBVIOUS
<1>2. /\ d.raw_url = UrlAfter(p, k, t) /\ d.header_field = FieldAfter(p, k, t)
      /\ d.header_value = ValueAfter(p, k, t) /\ d.building = BuildingAfter(p, k)
      /\ d.headers = HeadersAfter(p, k) /\ d.body = BodyAfter(p, k, t) /\ d.mark = Unmarked
  BY <1>1, DeliveredFields
<1>3. /\ p.raw_url \o u = (p.raw_url \o t) \o <<x>>
      /\ p.header_field \o u = (p.header_field \o t) \o <<x>>
      /\ p.header_value \o u = (p.header_value \o t) \o <<x>>
      /\ p.body \o u = (p.body \o t) \o <<x>>
  <2>1. \A a \in Seq(STRING) : a \o (t \o <<x>>) = (a \o t) \o <<x>>
    BY ConcatAssociative, Single
  <2> QED
    BY <1>1, <2>1 DEF IsParser
<1>4. PICK url, field, value, building, headers, body :
        /\ url = UrlAfter(p, k, u) /\ field = FieldAfter(p, k, u)
        /\ value = ValueAfter(p, k, u) /\ building = BuildingAfter(p, k)
        /\ headers = HeadersAfter(p, k) /\ body = BodyAfter(p, k, u)
  OBVIOUS
<1>5. /\ url = IF k = "url" THEN d.raw_url \o <<x>> ELSE d.raw_url
      /\ field = IF k = "header_field" THEN d.header_field \o <<x>> ELSE d.header_field
      /\ value = IF k = "header_value" THEN d.header_value \o <<x>> ELSE d.header_value
      /\ body = IF k = "body" THEN d.body \o <<x>> ELSE d.body
      /\ building = d.building /\ headers = d.headers
  BY <1>1, <1>2, <1>3, <1>4 DEF UrlAfter, FieldAfter, ValueAfter, BodyAfter, Flushes
<1>6. Grown(d, k, x) = Put(d, url, field, value, building, headers, body, Unmarked)
  BY <1>2, <1>5 DEF Grown
<1>7. Delivered(p, k, u, Unmarked) = Put(p, url, field, value, building, headers, body, Unmarked)
  BY <1>4 DEF Delivered
<1>8. PICK a, b, c, e, f, g :
        /\ a = UrlAfter(p, k, t) /\ b = FieldAfter(p, k, t) /\ c = ValueAfter(p, k, t)
        /\ e = BuildingAfter(p, k) /\ f = HeadersAfter(p, k) /\ g = BodyAfter(p, k, t)
  OBVIOUS
<1>9. d = Put(p, a, b, c, e, f, g, Unmarked)
  BY <1>1, <1>8 DEF Delivered
<1>10. Put(Put(p, a, b, c, e, f, g, Unmarked), url, field, value, building, headers, body, Unmarked)
         = Put(p, url, field, value, building, headers, body, Unmarked)
  BY DEF Put, IsParser, ParserFields
<1> QED
  BY <1>1, <1>6, <1>7, <1>9, <1>10

\* It is the same whether the byte's effects come before a text is delivered or after.
LEMMA DeliveredControl ==
  ASSUME NEW p, IsParser(p), NEW k \in Marks, NEW t, NEW s, NEW name, NEW flags, NEW length,
         NEW nread, NEW major, NEW minor
  PROVE  Delivered(Control(p, s, name, flags, length, nread, major, minor), k, t, Unmarked) =
           Control(Delivered(p, k, t, Unmarked), s, name, flags, length, nread, major, minor)
<1>1. PICK q : q = Control(p, s, name, flags, length, nread, major, minor)
  OBVIOUS
<1>2. /\ q.raw_url = p.raw_url /\ q.header_field = p.header_field
      /\ q.header_value = p.header_value /\ q.building = p.building
      /\ q.headers = p.headers /\ q.body = p.body
  BY <1>1 DEF Control, IsParser, ParserFields
<1>3. PICK url, field, value, building, headers, body :
        /\ url = UrlAfter(p, k, t) /\ field = FieldAfter(p, k, t)
        /\ value = ValueAfter(p, k, t) /\ building = BuildingAfter(p, k)
        /\ headers = HeadersAfter(p, k) /\ body = BodyAfter(p, k, t)
  OBVIOUS
<1>4. /\ url = UrlAfter(q, k, t) /\ field = FieldAfter(q, k, t)
      /\ value = ValueAfter(q, k, t) /\ building = BuildingAfter(q, k)
      /\ headers = HeadersAfter(q, k) /\ body = BodyAfter(q, k, t)
  BY <1>2, <1>3 DEF UrlAfter, FieldAfter, ValueAfter, BuildingAfter, HeadersAfter, BodyAfter,
                    Flushes
<1>5. /\ Delivered(q, k, t, Unmarked) = Put(q, url, field, value, building, headers, body, Unmarked)
      /\ Delivered(p, k, t, Unmarked) = Put(p, url, field, value, building, headers, body, Unmarked)
  BY <1>3, <1>4 DEF Delivered
<1>6. Put(Control(p, s, name, flags, length, nread, major, minor),
          url, field, value, building, headers, body, Unmarked)
        = Control(Put(p, url, field, value, building, headers, body, Unmarked),
                  s, name, flags, length, nread, major, minor)
  BY ZenonT(60) DEF Put, Control, IsParser, ParserFields
<1> QED
  BY <1>1, <1>5, <1>6

\* A callback changes texts and nothing that decides what the next byte does.
LEMMA DeliveredKeeps ==
  ASSUME NEW p, IsParser(p), NEW k, NEW t, NEW mark, NEW q, q = Delivered(p, k, t, mark)
  PROVE  /\ q.state = p.state /\ q.header_state = p.header_state /\ q.flags = p.flags
         /\ q.content_length = p.content_length /\ q.nread = p.nread /\ q.major = p.major
         /\ q.minor = p.minor /\ q.method = p.method /\ q.upgrade = p.upgrade
         /\ q.requests = p.requests /\ q.errno = p.errno
<1>1. PICK url, field, value, building, headers, body :
        /\ url = UrlAfter(p, k, t) /\ field = FieldAfter(p, k, t)
        /\ value = ValueAfter(p, k, t) /\ building = BuildingAfter(p, k)
        /\ headers = HeadersAfter(p, k) /\ body = BodyAfter(p, k, t)
  OBVIOUS
<1>2. q = Put(p, url, field, value, building, headers, body, mark)
  BY <1>1 DEF Delivered
<1>3. /\ q.state = p.state /\ q.header_state = p.header_state /\ q.flags = p.flags
      /\ q.content_length = p.content_length /\ q.nread = p.nread
  BY ZenonT(60), <1>2 DEF Put, IsParser, ParserFields
<1>4. /\ q.major = p.major /\ q.minor = p.minor /\ q.method = p.method
      /\ q.upgrade = p.upgrade
  BY ZenonT(60), <1>2 DEF Put, IsParser, ParserFields
<1>5. q.requests = p.requests /\ q.errno = p.errno
  BY <1>2 DEF Put, IsParser, ParserFields
<1> QED
  BY <1>3, <1>4, <1>5

\* Two parsers that would be the same if the read ended here.
Alike(c, w, n) ==
  /\ c.errno = w.errno
  /\ c.requests = w.requests
  /\ c.errno = "OK" => EndRead(c, n) = EndRead(w, n)

\* Two parsers that take the same way on the next byte.
SameControl(c, w) ==
  /\ c.state = w.state /\ c.header_state = w.header_state /\ c.flags = w.flags
  /\ c.content_length = w.content_length /\ c.nread = w.nread /\ c.major = w.major
  /\ c.minor = w.minor /\ c.method = w.method /\ c.upgrade = w.upgrade
  /\ c.requests = w.requests

\* Two parsers that agree at the end of the read take the same way on the next byte.
LEMMA OpenSameControl ==
  ASSUME NEW c, NEW w, NEW k \in Marks, NEW n \in Nat, Open(c, k, n), Open(w, k, n),
         EndRead(c, n) = EndRead(w, n), source.bytes \in Seq(STRING), n <= Len(source.bytes)
  PROVE  SameControl(c, w)
<1>1. PICK tc, tw : tc = Pending(c, k, n) /\ tw = Pending(w, k, n)
  OBVIOUS
<1>3. PICK dc, dw : /\ dc = Delivered(c, k, tc, Unmarked)
                    /\ dw = Delivered(w, k, tw, Unmarked)
  OBVIOUS
<1>4. IsParser(c) /\ IsParser(w)
  BY DEF Open, Bounded
<1>5. /\ dc.state = c.state /\ dc.header_state = c.header_state /\ dc.flags = c.flags
      /\ dc.content_length = c.content_length /\ dc.nread = c.nread /\ dc.major = c.major
      /\ dc.minor = c.minor /\ dc.method = c.method /\ dc.upgrade = c.upgrade
      /\ dc.requests = c.requests
  BY <1>3, <1>4, DeliveredKeeps
<1>6. /\ dw.state = w.state /\ dw.header_state = w.header_state /\ dw.flags = w.flags
      /\ dw.content_length = w.content_length /\ dw.nread = w.nread /\ dw.major = w.major
      /\ dw.minor = w.minor /\ dw.method = w.method /\ dw.upgrade = w.upgrade
      /\ dw.requests = w.requests
  BY <1>3, <1>4, DeliveredKeeps
<1>7. dc = dw
  BY <1>1, <1>3, EndReadOpen
<1> QED
  BY <1>5, <1>6, <1>7 DEF SameControl

\* The effects of a byte inside a text, and what the parser would be if the read ended here.
LEMMA OpenControl ==
  ASSUME NEW p, NEW k \in Marks, NEW n \in Nat, Open(p, k, n), source.bytes \in Seq(STRING),
         n <= Len(source.bytes),
         NEW s, NEW name, NEW flags, NEW length \in Nat, NEW nread, NEW major, NEW minor
  PROVE  /\ Open(Control(p, s, name, flags, length, nread, major, minor), k, n)
         /\ Control(p, s, name, flags, length, nread, major, minor).state = s
         /\ Control(p, s, name, flags, length, nread, major, minor).content_length = length
         /\ EndRead(Control(p, s, name, flags, length, nread, major, minor), n)
              = Control(EndRead(p, n), s, name, flags, length, nread, major, minor)
<1> DEFINE q == Control(p, s, name, flags, length, nread, major, minor)
<1>1. IsParser(p)
  BY DEF Open, Bounded
<1>2. /\ IsParser(q) /\ q.mark = p.mark /\ q.errno = p.errno /\ q.early = p.early
      /\ q.upgrade = p.upgrade /\ q.state = s /\ q.content_length = length
  BY <1>1, ControlParser
<1>3. Open(q, k, n)
  BY <1>2 DEF Open, Bounded
<1>4. PICK t : t = Pending(p, k, n)
  OBVIOUS
<1>5. t = Pending(q, k, n)
  BY <1>2, <1>4 DEF Pending
<1>6. EndRead(q, n) = Delivered(q, k, t, Unmarked) /\ EndRead(p, n) = Delivered(p, k, t, Unmarked)
  BY <1>3, <1>4, <1>5, EndReadOpen
<1> QED
  BY <1>1, <1>2, <1>3, <1>6, DeliveredControl

\* The text goes on.
LEMMA OpenGrows ==
  ASSUME NEW p, NEW k \in Marks, NEW n \in Nat, Open(p, k, n), source.bytes \in Seq(STRING),
         n + 1 <= Len(source.bytes), p.mark[k] # 0
  PROVE  /\ Open(p, k, n + 1)
         /\ EndRead(p, n + 1) = Grown(EndRead(p, n), k, source.bytes[n + 1])
<1>1. IsParser(p) /\ n + 1 \in Nat /\ n <= Len(source.bytes)
  BY DEF Open, Bounded
<1>a. \A j \in Marks : p.mark[j] \in Nat /\ p.mark[j] <= n + 1
  BY DEF Open, Bounded, IsParser
<1>b. \A j \in Marks : p.mark[j] <= (n + 1) + 1
  BY <1>a
<1>2. Open(p, k, n + 1)
  BY <1>b DEF Open, Bounded
<1>3. PICK x : x = source.bytes[n + 1]
  OBVIOUS
<1>x. x \in STRING
  BY <1>1, <1>3, ElementOf
<1>4. PICK t : t = Pending(p, k, n)
  OBVIOUS
<1>5. t \in Seq(STRING)
  BY <1>1, <1>4, PendingTyped DEF Open
<1>6. Pending(p, k, n + 1) = t \o <<x>>
  BY <1>3, <1>4, PendingGrows DEF Open
<1>7. PICK m \in Nat : m = n + 1
  BY <1>1
<1>8. EndRead(p, m) = Delivered(p, k, t \o <<x>>, Unmarked)
  BY <1>1, <1>2, <1>6, <1>7, EndReadOpen
<1>9. EndRead(p, n) = Delivered(p, k, t, Unmarked)
  BY <1>1, <1>4, EndReadOpen
<1>10. Delivered(p, k, t \o <<x>>, Unmarked) = Grown(Delivered(p, k, t, Unmarked), k, x)
  BY <1>1, <1>x, <1>5, DeliveredGrows
<1>11. EndRead(p, m) = Grown(EndRead(p, n), k, x)
  BY <1>8, <1>9, <1>10, Zenon
<1>12. EndRead(p, n + 1) = Grown(EndRead(p, n), k, source.bytes[n + 1])
  BY <1>3, <1>7, <1>11, Zenon
<1> QED
  BY <1>2, <1>12

\* The body: its mark may have been lost at the end of a read.
LEMMA BodyGrows ==
  ASSUME NEW p, NEW n \in Nat, Open(p, "body", n), source.bytes \in Seq(STRING),
         n + 1 <= Len(source.bytes), NEW q, q = Mark(p, "body", n + 1)
  PROVE  /\ Open(q, "body", n + 1) /\ q.mark["body"] # 0
         /\ EndRead(q, n + 1) = Grown(EndRead(p, n), "body", source.bytes[n + 1])
         /\ q.state = p.state /\ q.header_state = p.header_state /\ q.flags = p.flags
         /\ q.content_length = p.content_length /\ q.nread = p.nread /\ q.major = p.major
         /\ q.minor = p.minor
<1>1. IsParser(p) /\ n + 1 \in Nat /\ n <= Len(source.bytes) /\ "body" \in Marks
  BY DEF Open, Bounded, Marks
<1>2. CASE p.mark["body"] # 0
  <2>1. q = p
    BY <1>2 DEF Mark
  <2> QED
    BY <2>1, <1>1, <1>2, OpenGrows
<1>3. CASE p.mark["body"] = 0
  <2>1. p.mark = Unmarked
    BY <1>3, Zenon DEF Open, Only, Unmarked
  <2>2. PICK m \in Nat : m = n + 1
    BY <1>1
  <2>3. PICK marks \in [Marks -> Nat] : marks = Only("body", m)
    BY <2>2 DEF Only
  <2>4. q = [p EXCEPT !.mark["body"] = m]
    BY <1>3, <2>2 DEF Mark
  <2>5. [p.mark EXCEPT !["body"] = m] = marks
    BY <2>1, <2>3 DEF Only, Unmarked, Marks
  <2>6. q = [p EXCEPT !.mark = marks]
    BY <2>4, <2>5
  <2>7. /\ IsParser(q) /\ q.mark = marks /\ q.errno = p.errno /\ q.early = p.early
        /\ q.upgrade = p.upgrade
        /\ q.state = p.state /\ q.header_state = p.header_state /\ q.flags = p.flags
        /\ q.content_length = p.content_length /\ q.nread = p.nread /\ q.major = p.major
        /\ q.minor = p.minor
    BY <2>6, <1>1 DEF IsParser, ParserFields
  <2>8. \A k \in Marks : marks[k] <= m /\ marks["body"] = m
    BY <2>2, <2>3, <1>1 DEF Only
  <2>9. Open(q, "body", m) /\ q.mark["body"] = m
    BY <2>2, <2>3, <2>7, <2>8, <1>1 DEF Open, Bounded
  <2>x. PICK x \in STRING : x = source.bytes[m]
    <3>1. source.bytes[m] \in STRING
      BY <2>2, ElementOf
    <3> QED
      BY <3>1
  <2>10. Pending(q, "body", m) = <<x>> /\ Pending(p, "body", n) = <<>>
    BY <2>2, <2>9, <2>x, <1>3, ElementOf DEF Pending
  <2>11. <<>> \in Seq(STRING) /\ <<>> \o <<x>> = <<x>> /\ <<x>> \in Seq(STRING)
    BY Single
  <2>12. EndRead(q, m) = Delivered(q, "body", <<x>>, Unmarked)
    BY <2>9, <2>10, <2>2, <1>1, EndReadOpen
  <2>13. EndRead(p, n) = Delivered(p, "body", <<>>, Unmarked)
    BY <2>10, <1>1, EndReadOpen
  <2>14. Delivered(q, "body", <<x>>, Unmarked) = Delivered(p, "body", <<x>>, Unmarked)
    <3>1. PICK b : b = p.body \o <<x>>
      OBVIOUS
    <3>2. q.body = p.body
      BY <2>6, <1>1 DEF IsParser, ParserFields
    <3>3. /\ Delivered(q, "body", <<x>>, Unmarked) =
               Put(q, q.raw_url, q.header_field, q.header_value, q.building, q.headers, b, Unmarked)
          /\ Delivered(p, "body", <<x>>, Unmarked) =
               Put(p, p.raw_url, p.header_field, p.header_value, p.building, p.headers, b, Unmarked)
      BY <3>1, <3>2 DEF Delivered, UrlAfter, FieldAfter, ValueAfter, BuildingAfter, HeadersAfter,
                        BodyAfter, Flushes
    <3>4. /\ q.raw_url = p.raw_url /\ q.header_field = p.header_field
          /\ q.header_value = p.header_value /\ q.building = p.building
          /\ q.headers = p.headers
      BY <2>6, <1>1 DEF IsParser, ParserFields
    <3>5. PICK url, field, value, building, headers :
            /\ url = p.raw_url /\ field = p.header_field /\ value = p.header_value
            /\ building = p.building /\ headers = p.headers
      OBVIOUS
    <3>6. Put([p EXCEPT !.mark = marks], url, field, value, building, headers, b, Unmarked)
            = Put(p, url, field, value, building, headers, b, Unmarked)
      BY <1>1 DEF Put, IsParser, ParserFields
    <3> QED
      BY <3>3, <3>4, <3>5, <3>6, <2>6
  <2>15. Delivered(p, "body", <<x>>, Unmarked)
           = Grown(Delivered(p, "body", <<>>, Unmarked), "body", x)
    BY <2>11, <1>1, DeliveredGrows
  <2> QED
    BY <2>2, <2>x, <2>7, <2>9, <2>12, <2>13, <2>14, <2>15
<1> QED
  BY <1>2, <1>3

-----------------------------------------------------------------------------
\* The states in which a text is open, and the steps from there.

\* The states that read a text for k.
StatesOf(k) ==
  IF k = "url" THEN UrlStates ELSE IF k = "header_field" THEN {"s_header_field"}
  ELSE IF k = "header_value" THEN {"s_header_value"} ELSE BodyOpen

\* The states of the texts are apart from each other and from the others.
LEMMA StatesApart ==
  ASSUME NEW s
  PROVE  /\ s \in PlainStates =>
              s \notin UrlStates /\ s \notin BodyOpen /\ s # "s_header_field" /\ s # "s_header_value"
         /\ s \in UrlStates => s \notin BodyOpen /\ s # "s_header_field" /\ s # "s_header_value"
         /\ s \in BodyOpen => s # "s_header_field" /\ s # "s_header_value"
<1>1. s \in PlainStates => s \notin UrlStates
  BY DEF PlainStates, Constants, VersionStates, UrlStates, Server, Query
<1>2. s \in PlainStates => s \notin BodyOpen /\ s # "s_header_field" /\ s # "s_header_value"
  BY DEF PlainStates, Constants, VersionStates, BodyOpen
<1>3. s \in UrlStates => s \notin BodyOpen /\ s # "s_header_field" /\ s # "s_header_value"
  BY DEF UrlStates, Server, Query, BodyOpen
<1>4. s \in BodyOpen => s # "s_header_field" /\ s # "s_header_value"
  BY DEF BodyOpen
<1> QED
  BY <1>1, <1>2, <1>3, <1>4

\* A parser reading a text, in a state that reads it.
LEMMA OpenGood ==
  ASSUME NEW p, NEW k \in Marks, NEW n, Open(p, k, n), p.state \in StatesOf(k),
         p.state \in {"s_body_identity", "s_chunk_data"} => p.content_length > 0
  PROVE  Good(p, n)
<1>1. Bounded(p, n) /\ p.mark = Only(k, p.mark[k]) /\ (p.mark[k] # 0 \/ k = "body")
      /\ p.early = FALSE
  BY DEF Open
<1>2. MarksFit(p)
  <2>1. CASE k = "url"
    BY <2>1, <1>1, StatesApart DEF MarksFit, StatesOf, States
  <2>2. CASE k = "header_field"
    BY <2>2, <1>1, StatesApart DEF MarksFit, StatesOf, States
  <2>3. CASE k = "header_value"
    BY <2>3, <1>1, StatesApart DEF MarksFit, StatesOf, States
  <2>4. CASE k = "body"
    BY <2>4, <1>1, StatesApart DEF MarksFit, StatesOf, States
  <2> QED
    BY <2>1, <2>2, <2>3, <2>4 DEF Marks
<1> QED
  BY <1>1, <1>2 DEF Good

\* In the states of a text it is that text that may be open.
LEMMA GoodOpen ==
  ASSUME NEW p, NEW k \in Marks, NEW n, Good(p, n), p.errno = "OK", p.early = FALSE,
         p.state \in StatesOf(k)
  PROVE  Open(p, k, n)
BY DEF Good, MarksFit, StatesOf, Open, Marks

\* In the other states nothing is open.
LEMMA GoodPlain ==
  ASSUME NEW p, NEW n, Good(p, n), p.errno = "OK", p.early = FALSE, p.state \in PlainStates
  PROVE  Plain(p, n)
BY DEF Good, MarksFit, Plain

\* MARK(FOR) opens a text that begins with the byte.
LEMMA MarkPlain ==
  ASSUME NEW p, NEW k \in Marks, NEW n \in Nat, Plain(p, n), NEW q, q = Mark(p, k, n + 1)
  PROVE  /\ Open(q, k, n) /\ Open(q, k, n + 1) /\ q.mark[k] = n + 1
         /\ q.state = p.state /\ q.header_state = p.header_state /\ q.flags = p.flags
         /\ q.content_length = p.content_length /\ q.upgrade = p.upgrade
<1>1. PICK m \in Nat : m = n + 1
  OBVIOUS
<1>2. PICK marks \in [Marks -> Nat] : marks = Only(k, m)
  BY <1>1 DEF Only
<1>3. IsParser(p) /\ p.mark = Unmarked
  BY DEF Plain, Bounded
<1>4. q = [p EXCEPT !.mark[k] = m]
  BY <1>1, <1>3 DEF Mark, Unmarked
<1>5. [p.mark EXCEPT ![k] = m] = marks
  BY <1>2, <1>3 DEF Only, Unmarked
<1>6. q = [p EXCEPT !.mark = marks]
  BY <1>4, <1>5
<1>7. /\ IsParser(q) /\ q.mark = marks /\ q.errno = p.errno /\ q.early = p.early
      /\ q.upgrade = p.upgrade /\ q.state = p.state /\ q.header_state = p.header_state
      /\ q.flags = p.flags /\ q.content_length = p.content_length
  BY <1>6, <1>3 DEF IsParser, ParserFields
<1>8. (\A j \in Marks : marks[j] <= m) /\ marks[k] = m
  BY <1>1, <1>2 DEF Only
<1>9. \A j \in Marks : marks[j] <= m + 1
  BY <1>1, <1>2 DEF Only
<1>10. p.early => p.upgrade
  BY DEF Plain, Bounded
<1>11. Bounded(q, n) /\ Bounded(q, m)
  BY <1>1, <1>7, <1>8, <1>9, <1>10 DEF Bounded
<1> QED
  BY <1>1, <1>2, <1>7, <1>8, <1>11 DEF Open, Plain

\* Two parsers in the same text.
Pair(c, w, k, n) == Open(c, k, n) /\ Open(w, k, n) /\ EndRead(c, n) = EndRead(w, n)

\* What a byte should make of two parsers.
Result(c, w, n) == Good(c, n) /\ Good(w, n) /\ Alike(c, w, n)

\* A parser agrees with itself.
LEMMA ResultOfOne ==
  ASSUME NEW c, NEW n, Good(c, n)
  PROVE  Result(c, c, n)
BY DEF Result, Alike

\* Two parsers in the same text that reject the byte with the same error.
LEMMA PairFails ==
  ASSUME NEW c, NEW w, NEW k \in Marks, NEW n \in Nat, Pair(c, w, k, n),
         source.bytes \in Seq(STRING), n + 1 <= Len(source.bytes), NEW e, e # "OK"
  PROVE  Result(Fail(c, e), Fail(w, e), n + 1)
<1>1. Bounded(c, n + 1) /\ Bounded(w, n + 1)
  <2>1. (\A j \in Marks : c.mark[j] \in Nat) /\ (\A j \in Marks : w.mark[j] \in Nat)
    BY DEF Pair, Open, Bounded, IsParser
  <2>2. (\A j \in Marks : c.mark[j] <= n + 1) /\ (\A j \in Marks : w.mark[j] <= n + 1)
    BY DEF Pair, Open, Bounded
  <2>3. (\A j \in Marks : c.mark[j] <= n + 1 + 1) /\ (\A j \in Marks : w.mark[j] <= n + 1 + 1)
    BY <2>1, <2>2
  <2> QED
    BY <2>3 DEF Pair, Open, Bounded
<1>2. c.requests = w.requests
  BY OpenSameControl DEF Pair, SameControl
<1>3. PICK m : m = n + 1
  OBVIOUS
<1>4. /\ Good(Fail(c, e), m) /\ Fail(c, e).errno = e /\ Fail(c, e).requests = c.requests
      /\ Good(Fail(w, e), m) /\ Fail(w, e).errno = e /\ Fail(w, e).requests = w.requests
  <2>1. Bounded(c, m) /\ Bounded(w, m)
    BY <1>1, <1>3
  <2>2. Good(Fail(c, e), m) /\ Good(Fail(w, e), m)
    BY <2>1, FailGood
  <2>3. IsParser(c) /\ IsParser(w)
    BY <2>1 DEF Bounded
  <2> QED
    BY <2>2, <2>3, FailKeeps
<1> QED
  BY <1>2, <1>3, <1>4 DEF Result, Alike

\* The text goes on for both.
LEMMA PairLater ==
  ASSUME NEW c, NEW w, NEW k \in Marks, NEW n \in Nat, Pair(c, w, k, n),
         source.bytes \in Seq(STRING), n + 1 <= Len(source.bytes),
         c.mark[k] # 0, w.mark[k] # 0
  PROVE  Pair(c, w, k, n + 1)
<1>1. /\ Open(c, k, n + 1) /\ Open(w, k, n + 1)
      /\ EndRead(c, n + 1) = Grown(EndRead(c, n), k, source.bytes[n + 1])
      /\ EndRead(w, n + 1) = Grown(EndRead(w, n), k, source.bytes[n + 1])
  BY OpenGrows DEF Pair
<1> QED
  BY <1>1 DEF Pair

\* The byte has the same effects on both.
LEMMA PairControl ==
  ASSUME NEW c, NEW w, NEW k \in Marks, NEW n \in Nat, Pair(c, w, k, n),
         source.bytes \in Seq(STRING), n <= Len(source.bytes),
         NEW s, NEW name, NEW flags, NEW length \in Nat, NEW nread, NEW major, NEW minor,
         NEW a, a = Control(c, s, name, flags, length, nread, major, minor),
         NEW b, b = Control(w, s, name, flags, length, nread, major, minor)
  PROVE  /\ Pair(a, b, k, n)
         /\ a.state = s /\ a.content_length = length
         /\ b.state = s /\ b.content_length = length
<1>1. ASSUME NEW p, Open(p, k, n)
      PROVE  LET q == Control(p, s, name, flags, length, nread, major, minor)
             IN  /\ Open(q, k, n) /\ q.state = s /\ q.content_length = length
                 /\ EndRead(q, n) = Control(EndRead(p, n), s, name, flags, length, nread, major, minor)
  BY SMTT(60), <1>1, OpenControl
<1> DEFINE Effect(p) == LET q == Control(p, s, name, flags, length, nread, major, minor)
             IN  /\ Open(q, k, n) /\ q.state = s /\ q.content_length = length
                 /\ EndRead(q, n) = Control(EndRead(p, n), s, name, flags, length, nread, major, minor)
<1>2. \A p : Open(p, k, n) => Effect(p)
  BY <1>1
<1>3. Effect(c) /\ Effect(w)
  <2> HIDE DEF Effect
  <2> QED
    BY <1>2 DEF Pair
<1>5. /\ Open(a, k, n) /\ a.state = s /\ a.content_length = length
      /\ EndRead(a, n) = Control(EndRead(c, n), s, name, flags, length, nread, major, minor)
  BY <1>3
<1>6. /\ Open(b, k, n) /\ b.state = s /\ b.content_length = length
      /\ EndRead(b, n) = Control(EndRead(w, n), s, name, flags, length, nread, major, minor)
  BY <1>3
<1> QED
  BY <1>5, <1>6 DEF Pair

\* Both stay in a text after the same effects.
LEMMA PairStays ==
  ASSUME NEW c, NEW w, NEW k \in Marks, NEW m \in Nat, Pair(c, w, k, m),
         source.bytes \in Seq(STRING), m <= Len(source.bytes),
         NEW s, NEW name, NEW flags, NEW length \in Nat, NEW nread, NEW major,
         NEW minor,
         s \in StatesOf(k), s \in {"s_body_identity", "s_chunk_data"} => length > 0,
         NEW a, a = Control(c, s, name, flags, length, nread, major, minor),
         NEW b, b = Control(w, s, name, flags, length, nread, major, minor)
  PROVE  Result(a, b, m)
<1>1. /\ Pair(a, b, k, m)
      /\ a.state = s /\ a.content_length = length
      /\ b.state = s /\ b.content_length = length
  BY PairControl
<1>2. Good(a, m) /\ Good(b, m)
  BY <1>1, OpenGood DEF Pair
<1>3. a.errno = b.errno
  BY <1>1 DEF Open, Pair
<1>4. SameControl(a, b)
  BY <1>1, OpenSameControl DEF Pair
<1>5. a.requests = b.requests
  BY <1>4 DEF SameControl
<1> QED
  BY <1>1, <1>2, <1>3, <1>5 DEF Result, Alike, Pair

\* CALLBACK_DATA: both deliver the text and are then the same parser.
LEMMA PairCloses ==
  ASSUME NEW c, NEW w, NEW k \in Marks, NEW n \in Nat, Pair(c, w, k, n),
         source.bytes \in Seq(STRING), n <= Len(source.bytes),
         NEW s, NEW name, NEW flags, NEW length \in Nat, NEW nread, NEW major, NEW minor,
         NEW a, a = Control(c, s, name, flags, length, nread, major, minor),
         NEW b, b = Control(w, s, name, flags, length, nread, major, minor)
  PROVE  /\ Callback(a, k, n) = Callback(b, k, n)
         /\ Plain(Callback(a, k, n), n)
         /\ Callback(a, k, n).state = s
         /\ Callback(a, k, n).content_length = length
<1>5. /\ Pair(a, b, k, n) /\ a.state = s /\ a.content_length = length
  BY PairControl
<1>7. Callback(a, k, n) = Callback(b, k, n) /\ Plain(Callback(a, k, n), n)
  BY <1>5, EndReadOpen DEF Pair
<1>8. PICK t, d : t = Pending(a, k, n) /\ d = Delivered(a, k, t, Unmarked)
  OBVIOUS
<1>9. d = Callback(a, k, n)
  BY <1>5, <1>8, EndReadOpen DEF Pair
<1>10. d.state = a.state /\ d.content_length = a.content_length
  BY <1>5, <1>8, DeliveredKeeps DEF Pair, Open, Bounded
<1> QED
  BY <1>5, <1>7, <1>9, <1>10

-----------------------------------------------------------------------------
\* One byte in a text.

\* p with its own values, in the state s.
Own(p, s) ==
  Control(p, s, p.header_state, p.flags, p.content_length, p.nread, p.major, p.minor)

\* A new state alone is an effect of a byte.
LEMMA GoIsOwn ==
  ASSUME NEW p, IsParser(p), NEW s
  PROVE  Go(p, s) = Own(p, s)
BY DEF Go, Own, Control, IsParser, ParserFields

\* So is none at all.
LEMMA OwnState ==
  ASSUME NEW p, IsParser(p)
  PROVE  p = Own(p, p.state)
BY DEF Own, Control, IsParser, ParserFields

\* What is known of two parsers in the same text.
LEMMA PairParsers ==
  ASSUME NEW c, NEW w, NEW k, NEW n, Pair(c, w, k, n)
  PROVE  /\ IsParser(c) /\ IsParser(w) /\ c.content_length \in Nat
         /\ c.errno = "OK" /\ w.errno = "OK"
BY DEF Pair, Open, Bounded, IsParser

\* When both are the same parser nothing is open.
LEMMA ClosedResult ==
  ASSUME NEW a, NEW n \in Nat, Plain(a, n), a.state \in PlainStates
  PROVE  Result(a, a, n + 1)
<1>1. PICK m \in Nat : m = n + 1
  OBVIOUS
<1>2. Plain(a, m)
  BY <1>1, PlainLater
<1> QED
  BY <1>1, <1>2, StayGood, ResultOfOne

\* A new state in the same text.
LEMMA OwnStays ==
  ASSUME NEW c, NEW w, NEW k \in Marks, NEW n \in Nat, Pair(c, w, k, n),
         source.bytes \in Seq(STRING), n <= Len(source.bytes),
         NEW s \in StatesOf(k), s \in {"s_body_identity", "s_chunk_data"} => c.content_length > 0
  PROVE  Result(Own(c, s), Own(w, s), n)
<1>1. SameControl(c, w)
  BY OpenSameControl DEF Pair
<1>2. PICK name, flags, length, nread, major, minor :
        /\ name = c.header_state /\ flags = c.flags /\ length = c.content_length
        /\ nread = c.nread /\ major = c.major /\ minor = c.minor
  OBVIOUS
<1>3. length \in Nat
  BY <1>2, PairParsers
<1>4. PICK a, b : /\ a = Control(c, s, name, flags, length, nread, major, minor)
                  /\ b = Control(w, s, name, flags, length, nread, major, minor)
  OBVIOUS
<1>5. a = Own(c, s) /\ b = Own(w, s)
  BY <1>1, <1>2, <1>4 DEF Own, SameControl
<1>6. Result(a, b, n)
  BY <1>2, <1>3, <1>4, PairStays
<1> QED
  BY <1>5, <1>6

\* A new state once the text is delivered.
LEMMA OwnCloses ==
  ASSUME NEW c, NEW w, NEW k \in Marks, NEW n \in Nat, Pair(c, w, k, n),
         source.bytes \in Seq(STRING), n <= Len(source.bytes), NEW s
  PROVE  /\ Callback(Own(c, s), k, n) = Callback(Own(w, s), k, n)
         /\ Plain(Callback(Own(c, s), k, n), n)
         /\ Callback(Own(c, s), k, n).state = s
<1>1. SameControl(c, w)
  BY OpenSameControl DEF Pair
<1>2. PICK name, flags, length, nread, major, minor :
        /\ name = c.header_state /\ flags = c.flags /\ length = c.content_length
        /\ nread = c.nread /\ major = c.major /\ minor = c.minor
  OBVIOUS
<1>3. length \in Nat
  BY <1>2, PairParsers
<1>4. PICK a, b : /\ a = Control(c, s, name, flags, length, nread, major, minor)
                  /\ b = Control(w, s, name, flags, length, nread, major, minor)
  OBVIOUS
<1>5. a = Own(c, s) /\ b = Own(w, s)
  BY <1>1, <1>2, <1>4 DEF Own, SameControl
<1>6. /\ Callback(a, k, n) = Callback(b, k, n)
      /\ Plain(Callback(a, k, n), n)
      /\ Callback(a, k, n).state = s
  BY <1>3, <1>4, PairCloses
<1> QED
  BY <1>5, <1>6

\* parse_url_char() stays in the url or is an error.
LEMMA UrlStatesLead ==
  ASSUME NEW from \in UrlStates \cup {"s_req_spaces_before_url"}, NEW ch
  PROVE  parse_url_char(from, ch) \in UrlStates \cup {"s_dead"}
BY DEF UrlStates, Server, Query, parse_url_char

\* A byte that belongs to the url.
LEMMA UrlBytePair ==
  ASSUME NEW c, NEW w, NEW n \in Nat, Pair(c, w, "url", n), source.bytes \in Seq(STRING),
         n + 1 <= Len(source.bytes), NEW from \in UrlStates \cup {"s_req_spaces_before_url"}, NEW ch
  PROVE  Result(UrlByte(c, ch, from), UrlByte(w, ch, from), n + 1)
<1>1. PICK s : s = parse_url_char(from, ch)
  OBVIOUS
<1>2. "url" \in Marks /\ StatesOf("url") = UrlStates
  BY DEF Marks, StatesOf
<1>3. CASE s = "s_dead"
  BY <1>1, <1>2, <1>3, PairFails DEF UrlByte
<1>4. CASE s # "s_dead"
  <2>1. s \in UrlStates
    BY <1>1, <1>4, UrlStatesLead
  <2>2. PICK m \in Nat : m = n + 1
    OBVIOUS
  <2>p. c.mark["url"] # 0 /\ w.mark["url"] # 0
    BY DEF Pair, Open
  <2>3. Pair(c, w, "url", m) /\ m <= Len(source.bytes)
    BY <1>2, <2>2, <2>p, PairLater
  <2>4. s \notin {"s_body_identity", "s_chunk_data"}
    BY <2>1 DEF UrlStates, Server, Query
  <2>5. Result(Own(c, s), Own(w, s), m)
    BY <1>2, <2>1, <2>3, <2>4, OwnStays
  <2>6. UrlByte(c, ch, from) = Own(c, s) /\ UrlByte(w, ch, from) = Own(w, s)
    BY <1>1, <1>4, GoIsOwn, PairParsers DEF UrlByte
  <2> QED
    BY <2>2, <2>5, <2>6
<1> QED
  BY <1>3, <1>4

\* A byte of the url, or one that ends it: CALLBACK_DATA(url).
LEMMA UrlOrEndPair ==
  ASSUME NEW c, NEW w, NEW n \in Nat, Pair(c, w, "url", n), source.bytes \in Seq(STRING),
         n + 1 <= Len(source.bytes), c.state \in UrlStates, NEW ch
  PROVE  Result(UrlOrEnd(c, ch, n + 1), UrlOrEnd(w, ch, n + 1), n + 1)
<1>1. "url" \in Marks /\ n <= Len(source.bytes) /\ (n + 1) - 1 = n /\ 0 \in Nat
  BY DEF Marks
<1>2. SameControl(c, w) /\ IsParser(c) /\ IsParser(w)
  BY <1>1, OpenSameControl, PairParsers DEF Pair
<1>3. CASE ch = "SP"
  <2>1. PICK s : s = "s_req_http_start"
    OBVIOUS
  <2>2. /\ UrlOrEnd(c, ch, n + 1) = Callback(Own(c, s), "url", n)
        /\ UrlOrEnd(w, ch, n + 1) = Callback(Own(w, s), "url", n)
    BY <1>1, <1>2, <1>3, <2>1, GoIsOwn DEF UrlOrEnd
  <2>3. PICK a : a = Callback(Own(c, s), "url", n)
    OBVIOUS
  <2>4. a = Callback(Own(w, s), "url", n) /\ Plain(a, n) /\ a.state = s
    BY <1>1, <2>3, OwnCloses
  <2>5. s \in PlainStates
    BY <2>1 DEF PlainStates
  <2> QED
    BY <2>2, <2>3, <2>4, <2>5, ClosedResult
<1>4. ASSUME NEW s \in PlainStates, ch # "SP",
             \A p : UrlOrEnd(p, ch, n + 1) =
                      Callback(Go([p EXCEPT !.major = 0, !.minor = 9], s), "url", (n + 1) - 1)
      PROVE  Result(UrlOrEnd(c, ch, n + 1), UrlOrEnd(w, ch, n + 1), n + 1)
  <2>1. PICK name, flags, length, nread :
          /\ name = c.header_state /\ flags = c.flags /\ length = c.content_length
          /\ nread = c.nread
    OBVIOUS
  <2>2. length \in Nat
    BY <2>1, PairParsers
  <2>3. PICK a, b : /\ a = Control(c, s, name, flags, length, nread, 0, 9)
                    /\ b = Control(w, s, name, flags, length, nread, 0, 9)
    OBVIOUS
  <2>4. a = Go([c EXCEPT !.major = 0, !.minor = 9], s)
    BY <1>2, <2>1, <2>3 DEF Control, Go, IsParser, ParserFields
  <2>5. b = Go([w EXCEPT !.major = 0, !.minor = 9], s)
    BY ZenonT(60), <1>2, <2>1, <2>3 DEF Control, Go, IsParser, ParserFields, SameControl
  <2>6. /\ Callback(a, "url", n) = Callback(b, "url", n)
        /\ Plain(Callback(a, "url", n), n)
        /\ Callback(a, "url", n).state = s
    BY <1>1, <2>2, <2>3, PairCloses
  <2>7. PICK d : d = Callback(a, "url", n)
    OBVIOUS
  <2>8. UrlOrEnd(c, ch, n + 1) = d /\ UrlOrEnd(w, ch, n + 1) = d
    BY <1>1, <1>4, <2>4, <2>5, <2>6, <2>7
  <2> QED
    BY <1>4, <2>6, <2>7, <2>8, ClosedResult
<1>5. CASE ch = "CR"
  <2>1. "s_req_line_almost_done" \in PlainStates
    BY DEF PlainStates
  <2>2. \A p : UrlOrEnd(p, ch, n + 1) =
                 Callback(Go([p EXCEPT !.major = 0, !.minor = 9], "s_req_line_almost_done"),
                          "url", (n + 1) - 1)
    BY <1>5 DEF UrlOrEnd
  <2> QED
    BY <1>4, <1>5, <2>1, <2>2
<1>6. CASE ch = "LF"
  <2>1. "s_header_field_start" \in PlainStates
    BY DEF PlainStates
  <2>2. \A p : UrlOrEnd(p, ch, n + 1) =
                 Callback(Go([p EXCEPT !.major = 0, !.minor = 9], "s_header_field_start"),
                          "url", (n + 1) - 1)
    BY <1>6 DEF UrlOrEnd
  <2> QED
    BY <1>4, <1>6, <2>1, <2>2
<1>7. CASE ch \notin {"SP", "CR", "LF"}
  <2>1. PICK from : from = c.state
    OBVIOUS
  <2>2. /\ UrlOrEnd(c, ch, n + 1) = UrlByte(c, ch, from)
        /\ UrlOrEnd(w, ch, n + 1) = UrlByte(w, ch, from)
    BY <1>2, <1>7, <2>1 DEF UrlOrEnd, SameControl
  <2> QED
    BY <2>1, <2>2, UrlBytePair
<1> QED
  BY <1>3, <1>5, <1>6, <1>7

\* No token ends a name.
LEMMA SeparatorsNoTokens ==
  ASSUME NEW ch, Token(ch)
  PROVE  ch \notin {":", "CR", "LF", "SP", "TAB"}
<1>1. \A i \in DOMAIN Digits : Digits[i] \notin {":", "CR", "LF", "SP", "TAB"}
  BY DEF Digits
<1>2. IsNum(ch) => ch \notin {":", "CR", "LF", "SP", "TAB"}
  BY <1>1 DEF IsNum
<1> QED
  BY <1>2 DEF Token, Capitals, UrlPieces, AlphaPieces

\* s_header_field: a letter of the name, or what ends it.
LEMMA HeaderFieldPair ==
  ASSUME NEW c, NEW w, NEW n \in Nat, Pair(c, w, "header_field", n),
         source.bytes \in Seq(STRING), n + 1 <= Len(source.bytes), NEW ch,
         c.state = "s_header_field"
  PROVE  Result(s_header_field(c, ch, n + 1), s_header_field(w, ch, n + 1), n + 1)
<1>1. /\ "header_field" \in Marks /\ n <= Len(source.bytes) /\ (n + 1) - 1 = n
      /\ StatesOf("header_field") = {"s_header_field"}
  BY DEF Marks, StatesOf
<1>2. SameControl(c, w) /\ IsParser(c) /\ IsParser(w)
  BY <1>1, OpenSameControl, PairParsers DEF Pair
<1>3. ASSUME NEW s \in PlainStates,
             \A p : s_header_field(p, ch, n + 1) = Callback(Go(p, s), "header_field", (n + 1) - 1)
      PROVE  Result(s_header_field(c, ch, n + 1), s_header_field(w, ch, n + 1), n + 1)
  <2>1. PICK a : a = Callback(Own(c, s), "header_field", n)
    OBVIOUS
  <2>2. a = Callback(Own(w, s), "header_field", n) /\ Plain(a, n) /\ a.state = s
    BY <1>1, <2>1, OwnCloses
  <2>3. Go(c, s) = Own(c, s) /\ Go(w, s) = Own(w, s)
    BY <1>2, GoIsOwn
  <2>4. s_header_field(c, ch, n + 1) = a /\ s_header_field(w, ch, n + 1) = a
    BY <1>1, <1>3, <2>1, <2>2, <2>3
  <2> QED
    BY <1>3, <2>2, <2>4, ClosedResult
<1>4. CASE Token(ch)
  <2>1. PICK m \in Nat : m = n + 1
    OBVIOUS
  <2>2. c.mark["header_field"] # 0 /\ w.mark["header_field"] # 0
    BY DEF Pair, Open
  <2>3. Pair(c, w, "header_field", m) /\ m <= Len(source.bytes)
    BY <1>1, <2>1, <2>2, PairLater
  <2>4. PICK s, name, flags, length, nread, major, minor :
          /\ s = "s_header_field" /\ name = Match(c.header_state, ch)
          /\ flags = c.flags /\ length = c.content_length
          /\ nread = c.nread /\ major = c.major /\ minor = c.minor
    OBVIOUS
  <2>5. length \in Nat
    BY <2>4, PairParsers
  <2>6. PICK a, b : /\ a = Control(c, s, name, flags, length, nread, major, minor)
                    /\ b = Control(w, s, name, flags, length, nread, major, minor)
    OBVIOUS
  <2>7. s \in StatesOf("header_field") /\ s \notin {"s_body_identity", "s_chunk_data"}
    BY <1>1, <2>4
  <2>8. Result(a, b, m)
    BY <1>1, <2>1, <2>3, <2>5, <2>6, <2>7, PairStays
  <2>9. a = [c EXCEPT !.header_state = name]
    BY <1>2, <2>4, <2>6 DEF Control, IsParser, ParserFields
  <2>10. b = [w EXCEPT !.header_state = name]
    <3>1. /\ s = w.state /\ flags = w.flags /\ length = w.content_length /\ nread = w.nread
          /\ major = w.major /\ minor = w.minor
      BY <1>2, <2>4 DEF SameControl
    <3> QED
      BY <1>2, <3>1, <2>6 DEF Control, IsParser, ParserFields
  <2>n. ch \notin {":", "CR", "LF"}
    BY <1>4, SeparatorsNoTokens
  <2>11. s_header_field(c, ch, n + 1) = a
    BY <1>4, <2>n, <2>4, <2>9 DEF s_header_field
  <2>12. s_header_field(w, ch, n + 1) = b
    <3>1. name = Match(w.header_state, ch)
      BY <1>2, <2>4 DEF SameControl
    <3> QED
      BY <1>4, <2>n, <3>1, <2>10 DEF s_header_field
  <2> QED
    BY <2>1, <2>8, <2>11, <2>12
<1>5. CASE ~Token(ch) /\ ch = ":"
  <2>1. "s_header_value_discard_ws" \in PlainStates
    BY DEF PlainStates
  <2>2. \A p : s_header_field(p, ch, n + 1)
                 = Callback(Go(p, "s_header_value_discard_ws"), "header_field", (n + 1) - 1)
    BY <1>5 DEF s_header_field
  <2> QED
    BY <1>3, <2>1, <2>2
<1>6. CASE ~Token(ch) /\ ch = "CR"
  <2>1. "s_header_almost_done" \in PlainStates
    BY DEF PlainStates
  <2>2. \A p : s_header_field(p, ch, n + 1)
                 = Callback(Go(p, "s_header_almost_done"), "header_field", (n + 1) - 1)
    BY <1>6 DEF s_header_field
  <2> QED
    BY <1>3, <2>1, <2>2
<1>7. CASE ~Token(ch) /\ ch = "LF"
  <2>1. "s_header_field_start" \in PlainStates
    BY DEF PlainStates
  <2>2. \A p : s_header_field(p, ch, n + 1)
                 = Callback(Go(p, "s_header_field_start"), "header_field", (n + 1) - 1)
    BY <1>7 DEF s_header_field
  <2> QED
    BY <1>3, <2>1, <2>2
<1>8. CASE ~Token(ch) /\ ch \notin {":", "CR", "LF"}
  <2>1. /\ s_header_field(c, ch, n + 1) = Fail(c, "INVALID_HEADER_TOKEN")
        /\ s_header_field(w, ch, n + 1) = Fail(w, "INVALID_HEADER_TOKEN")
    BY <1>8 DEF s_header_field
  <2> QED
    BY <1>1, <2>1, PairFails
<1> QED
  BY <1>4, <1>5, <1>6, <1>7, <1>8

\* The value of a digit.
LEMMA DigitValueTyped ==
  ASSUME NEW ch, IsNum(ch)
  PROVE  DigitValue(ch) \in 0 .. 9
<1>1. DOMAIN Digits = 1 .. 10
  BY DEF Digits
<1>2. PICK i \in DOMAIN Digits : Digits[i] = ch
  BY DEF IsNum
<1>3. (CHOOSE j \in DOMAIN Digits : Digits[j] = ch) \in DOMAIN Digits
  BY <1>2
<1> HIDE DEF Digits
<1> QED
  BY <1>1, <1>3 DEF DigitValue

\* unhex[].
LEMMA UnhexTyped ==
  ASSUME NEW ch, IsHex(ch)
  PROVE  Unhex(ch) \in 0 .. 15
<1>1. DOMAIN Hex = 1 .. 16
  BY DEF Hex, Digits
<1>2. PICK i \in DOMAIN Hex : Hex[i] = ch
  BY DEF IsHex
<1>3. (CHOOSE j \in DOMAIN Hex : Hex[j] = ch) \in DOMAIN Hex
  BY <1>2
<1> QED
  BY <1>1, <1>3 DEF Unhex

\* A length is a number after every digit, wrapped or not.
LEMMA WrappedTyped ==
  ASSUME NEW length \in Nat, NEW base \in {10, 16}, NEW digit \in 0 .. 15
  PROVE  (length * base + digit) % (ULLONG_MAX + 1) \in Nat
<1>1. PICK v \in Nat : v = length * base + digit
  <2>1. CASE base = 10
    BY <2>1
  <2>2. CASE base = 16
    BY <2>2
  <2> QED
    BY <2>1, <2>2
<1>2. \A m \in Nat : v % (m + 1) \in Nat
  OBVIOUS
<1> QED
  BY <1>1, <1>2, LimitAssumption

\* A digit of Content-Length.
LEMMA MoreDigitsPair ==
  ASSUME NEW c, NEW w, NEW n \in Nat, Pair(c, w, "header_value", n),
         source.bytes \in Seq(STRING), n + 1 <= Len(source.bytes),
         c.state = "s_header_value", NEW digit \in 0 .. 9
  PROVE  Result(MoreDigits(c, 10, digit), MoreDigits(w, 10, digit), n + 1)
<1>1. /\ "header_value" \in Marks
      /\ StatesOf("header_value") = {"s_header_value"}
  BY DEF Marks, StatesOf
<1>2. SameControl(c, w) /\ IsParser(c) /\ IsParser(w) /\ c.content_length \in Nat
  BY <1>1, OpenSameControl, PairParsers DEF Pair
<1>3. CASE (ULLONG_MAX - 10) \div 10 < c.content_length
  <2>1. /\ MoreDigits(c, 10, digit) = Fail(c, "INVALID_CONTENT_LENGTH")
        /\ MoreDigits(w, 10, digit) = Fail(w, "INVALID_CONTENT_LENGTH")
    BY <1>2, <1>3 DEF MoreDigits, SameControl
  <2> QED
    BY <1>1, <2>1, PairFails
<1>4. CASE ~((ULLONG_MAX - 10) \div 10 < c.content_length)
  <2>1. PICK m \in Nat : m = n + 1
    OBVIOUS
  <2>2. c.mark["header_value"] # 0 /\ w.mark["header_value"] # 0
    BY DEF Pair, Open
  <2>3. Pair(c, w, "header_value", m) /\ m <= Len(source.bytes)
    BY <1>1, <2>1, <2>2, PairLater
  <2>4. PICK s, name, flags, length, nread, major, minor :
          /\ s = "s_header_value" /\ name = c.header_state /\ flags = c.flags
          /\ length = (c.content_length * 10 + digit) % (ULLONG_MAX + 1)
          /\ nread = c.nread /\ major = c.major /\ minor = c.minor
    OBVIOUS
  <2>5. length \in Nat
    <3>1. PICK base, d : base = 10 /\ d = digit
      OBVIOUS
    <3>2. base \in {10, 16} /\ d \in 0 .. 15
      BY <3>1
    <3>3. PICK l \in Nat : l = c.content_length
      BY <1>2
    <3>4. (l * base + d) % (ULLONG_MAX + 1) \in Nat
      BY <3>2, <3>3, WrappedTyped
    <3> QED
      BY <2>4, <3>1, <3>3, <3>4
  <2>6. PICK a, b : /\ a = Control(c, s, name, flags, length, nread, major, minor)
                    /\ b = Control(w, s, name, flags, length, nread, major, minor)
    OBVIOUS
  <2>7. s \in StatesOf("header_value") /\ s \notin {"s_body_identity", "s_chunk_data"}
    BY <1>1, <2>4
  <2>8. Result(a, b, m)
    BY <1>1, <2>1, <2>3, <2>5, <2>6, <2>7, PairStays
  <2>9. a = [c EXCEPT !.content_length = length]
    <3>1. s = c.state
      BY <2>4
    <3> QED
      BY <1>2, <2>4, <2>6, <3>1 DEF Control, IsParser, ParserFields
  <2>10. b = [w EXCEPT !.content_length = length]
    <3>1. /\ s = w.state /\ name = w.header_state /\ flags = w.flags /\ nread = w.nread
          /\ major = w.major /\ minor = w.minor
      BY <1>2, <2>4 DEF SameControl
    <3> QED
      BY <1>2, <3>1, <2>6 DEF Control, IsParser, ParserFields
  <2>11. MoreDigits(c, 10, digit) = a
    BY <1>4, <2>4, <2>9 DEF MoreDigits
  <2>12. MoreDigits(w, 10, digit) = b
    BY <1>2, <1>4, <2>4, <2>10 DEF MoreDigits, SameControl
  <2> QED
    BY <2>1, <2>8, <2>11, <2>12
<1> QED
  BY <1>3, <1>4

\* s_header_value: a byte of the value, or what ends it.
LEMMA HeaderValuePair ==
  ASSUME NEW c, NEW w, NEW n \in Nat, Pair(c, w, "header_value", n),
         source.bytes \in Seq(STRING), n + 1 <= Len(source.bytes), NEW ch,
         c.state = "s_header_value"
  PROVE  Result(s_header_value(c, ch, n + 1), s_header_value(w, ch, n + 1), n + 1)
<1>1. /\ "header_value" \in Marks /\ n <= Len(source.bytes) /\ (n + 1) - 1 = n
      /\ StatesOf("header_value") = {"s_header_value"}
  BY DEF Marks, StatesOf
<1>2. SameControl(c, w) /\ IsParser(c) /\ IsParser(w)
  BY <1>1, OpenSameControl, PairParsers DEF Pair
<1>3. PICK s : s = "s_header_almost_done"
  OBVIOUS
<1>4. PICK a : a = Callback(Own(c, s), "header_value", n)
  OBVIOUS
<1>5. a = Callback(Own(w, s), "header_value", n) /\ Plain(a, n) /\ a.state = s
  BY <1>1, <1>4, OwnCloses
<1>6. Go(c, s) = Own(c, s) /\ Go(w, s) = Own(w, s)
  BY <1>2, GoIsOwn
<1>7. /\ Callback(Go(c, "s_header_almost_done"), "header_value", (n + 1) - 1) = a
      /\ Callback(Go(w, "s_header_almost_done"), "header_value", (n + 1) - 1) = a
  BY <1>1, <1>3, <1>4, <1>5, <1>6
<1>8. CASE ch = "CR"
  <2>1. s_header_value(c, ch, n + 1) = a /\ s_header_value(w, ch, n + 1) = a
    BY <1>7, <1>8 DEF s_header_value
  <2>2. s \in PlainStates
    BY <1>3 DEF PlainStates
  <2> QED
    BY <1>5, <2>1, <2>2, ClosedResult
<1>9. CASE ch = "LF"
  <2>1. PICK d : d = Go(a, "s_header_value_lws")
    OBVIOUS
  <2>2. s_header_value(c, ch, n + 1) = d /\ s_header_value(w, ch, n + 1) = d
    BY <1>7, <1>9, <2>1 DEF s_header_value, s_header_almost_done
  <2>3. Plain(d, n) /\ d.state \in PlainStates
    <3>1. "s_header_value_lws" \in PlainStates
      BY DEF PlainStates
    <3>2. Plain(d, n)
      BY <3>1, <2>1, <1>5, GoGood
    <3>3. d.state = "s_header_value_lws"
      BY <2>1, <1>5, GoParser DEF Plain, Bounded
    <3> QED
      BY <3>1, <3>2, <3>3
  <2> QED
    BY <2>2, <2>3, ClosedResult
<1>10. ASSUME ch \notin {"CR", "LF"}, s_header_value(c, ch, n + 1) = c, s_header_value(w, ch, n + 1) = w
       PROVE  Result(s_header_value(c, ch, n + 1), s_header_value(w, ch, n + 1), n + 1)
  <2>1. PICK m \in Nat : m = n + 1
    OBVIOUS
  <2>2. c.mark["header_value"] # 0 /\ w.mark["header_value"] # 0
    BY DEF Pair, Open
  <2>3. Pair(c, w, "header_value", m) /\ m <= Len(source.bytes)
    BY <1>1, <2>1, <2>2, PairLater
  <2>4. PICK t : t = c.state
    OBVIOUS
  <2>5. t \in StatesOf("header_value") /\ t \notin {"s_body_identity", "s_chunk_data"}
    BY <1>1, <2>4
  <2>6. Result(Own(c, t), Own(w, t), m)
    BY <1>1, <2>1, <2>3, <2>5, OwnStays
  <2>7. Own(c, t) = c /\ Own(w, t) = w
    BY <1>2, <2>4, OwnState DEF SameControl
  <2> QED
    BY <1>10, <2>1, <2>6, <2>7
<1>11. CASE ch \notin {"CR", "LF"} /\ c.header_state = ContentLength
  <2>1. w.header_state = ContentLength
    BY <1>2, <1>11 DEF SameControl
  <2>2. CASE ch = "SP"
    <3>1. s_header_value(c, ch, n + 1) = c /\ s_header_value(w, ch, n + 1) = w
      BY <1>11, <2>1, <2>2 DEF s_header_value
    <3> QED
      BY <1>10, <1>11, <3>1
  <2>3. CASE ch # "SP" /\ IsNum(ch)
    <3>1. /\ s_header_value(c, ch, n + 1) = MoreDigits(c, 10, DigitValue(ch))
          /\ s_header_value(w, ch, n + 1) = MoreDigits(w, 10, DigitValue(ch))
      BY <1>11, <2>1, <2>3 DEF s_header_value
    <3> QED
      BY <3>1, <2>3, DigitValueTyped, MoreDigitsPair
  <2>4. CASE ch # "SP" /\ ~IsNum(ch)
    <3>1. /\ s_header_value(c, ch, n + 1) = Fail(c, "INVALID_CONTENT_LENGTH")
          /\ s_header_value(w, ch, n + 1) = Fail(w, "INVALID_CONTENT_LENGTH")
      BY <1>11, <2>1, <2>4 DEF s_header_value
    <3> QED
      BY <1>1, <3>1, PairFails
  <2> QED
    BY <2>2, <2>3, <2>4
<1>12. CASE ch \notin {"CR", "LF"} /\ c.header_state # ContentLength
  <2>0. w.header_state = c.header_state
    BY <1>2 DEF SameControl
  <2>1. CASE c.header_state \in KnownValues /\ ch = "SP"
    <3>1. s_header_value(c, ch, n + 1) = c /\ s_header_value(w, ch, n + 1) = w
      BY <1>12, <2>0, <2>1 DEF s_header_value
    <3> QED
      BY <1>10, <1>12, <3>1
  <2>2. CASE ~(c.header_state \in KnownValues /\ ch = "SP")
    <3>1. PICK m \in Nat : m = n + 1
      OBVIOUS
    <3>2. c.mark["header_value"] # 0 /\ w.mark["header_value"] # 0
      BY DEF Pair, Open
    <3>3. Pair(c, w, "header_value", m) /\ m <= Len(source.bytes)
      BY <1>1, <3>1, <3>2, PairLater
    <3>4. PICK t, name, flags, length, nread, major, minor :
            /\ t = "s_header_value" /\ name = Match(c.header_state, ch)
            /\ flags = c.flags /\ length = c.content_length
            /\ nread = c.nread /\ major = c.major /\ minor = c.minor
      OBVIOUS
    <3>5. length \in Nat
      BY <3>4, PairParsers
    <3>6. PICK x, y : /\ x = Control(c, t, name, flags, length, nread, major, minor)
                      /\ y = Control(w, t, name, flags, length, nread, major, minor)
      OBVIOUS
    <3>7. t \in StatesOf("header_value") /\ t \notin {"s_body_identity", "s_chunk_data"}
      BY <1>1, <3>4
    <3>8. Result(x, y, m)
      BY <1>1, <3>1, <3>3, <3>5, <3>6, <3>7, PairStays
    <3>9. x = [c EXCEPT !.header_state = name]
      <4>1. t = c.state
        BY <3>4
      <4> QED
        BY <1>2, <3>4, <3>6, <4>1 DEF Control, IsParser, ParserFields
    <3>10. y = [w EXCEPT !.header_state = name]
      <4>1. /\ t = w.state /\ flags = w.flags /\ length = w.content_length /\ nread = w.nread
            /\ major = w.major /\ minor = w.minor
        BY <1>2, <3>4 DEF SameControl
      <4> QED
        BY <1>2, <4>1, <3>6 DEF Control, IsParser, ParserFields
    <3>11. s_header_value(c, ch, n + 1) = x
      BY <1>12, <2>2, <3>4, <3>9 DEF s_header_value
    <3>12. s_header_value(w, ch, n + 1) = y
      BY <1>12, <2>0, <2>2, <3>4, <3>10 DEF s_header_value
    <3> QED
      BY <3>1, <3>8, <3>11, <3>12
  <2> QED
    BY <2>1, <2>2
<1> QED
  BY <1>8, <1>9, <1>11, <1>12

\* MARK(body), which only the parser whose read began here needs.
LEMMA BodyMarkPair ==
  ASSUME NEW c, NEW w, NEW n \in Nat, Pair(c, w, "body", n), source.bytes \in Seq(STRING),
         n + 1 <= Len(source.bytes),
         NEW a, a = Mark(c, "body", n + 1), NEW b, b = Mark(w, "body", n + 1)
  PROVE  /\ Pair(a, b, "body", n + 1)
         /\ a.state = c.state /\ a.content_length = c.content_length
<1>1. /\ Open(a, "body", n + 1) /\ Open(b, "body", n + 1)
      /\ EndRead(a, n + 1) = Grown(EndRead(c, n), "body", source.bytes[n + 1])
      /\ EndRead(b, n + 1) = Grown(EndRead(w, n), "body", source.bytes[n + 1])
      /\ a.state = c.state /\ a.content_length = c.content_length
  BY BodyGrows DEF Pair
<1> QED
  BY <1>1 DEF Pair

\* One byte less to come.
Shorter(p) == [p EXCEPT !.content_length = @ - 1]

\* content_length is the same for both and is not delivered.
LEMMA LengthPair ==
  ASSUME NEW c, NEW w, NEW m \in Nat, Pair(c, w, "body", m), source.bytes \in Seq(STRING),
         m <= Len(source.bytes), NEW length \in Nat,
         NEW a, a = [c EXCEPT !.content_length = length],
         NEW b, b = [w EXCEPT !.content_length = length]
  PROVE  /\ Pair(a, b, "body", m)
         /\ a.state = c.state /\ b.state = c.state
         /\ a.content_length = length /\ b.content_length = length
<1>1. "body" \in Marks
  BY DEF Marks
<1>2. SameControl(c, w) /\ IsParser(c) /\ IsParser(w)
  BY <1>1, OpenSameControl, PairParsers DEF Pair
<1>3. PICK s, name, flags, nread, major, minor :
        /\ s = c.state /\ name = c.header_state /\ flags = c.flags
        /\ nread = c.nread /\ major = c.major /\ minor = c.minor
  OBVIOUS
<1>4. a = Control(c, s, name, flags, length, nread, major, minor)
  BY <1>2, <1>3 DEF Control, IsParser, ParserFields
<1>5. b = Control(w, s, name, flags, length, nread, major, minor)
  <2>1. /\ s = w.state /\ name = w.header_state /\ flags = w.flags /\ nread = w.nread
        /\ major = w.major /\ minor = w.minor
    BY <1>2, <1>3 DEF SameControl
  <2> QED
    BY <1>2, <2>1 DEF Control, IsParser, ParserFields
<1>6. Pair(a, b, "body", m)
  BY <1>1, <1>4, <1>5, PairControl
<1>7. a.state = c.state /\ a.content_length = length
  BY <1>2 DEF IsParser, ParserFields
<1>8. b.state = w.state /\ b.content_length = length
  BY <1>2 DEF IsParser, ParserFields
<1> QED
  BY <1>2, <1>6, <1>7, <1>8 DEF SameControl

\* --parser->content_length, for both.
LEMMA ShorterPair ==
  ASSUME NEW c, NEW w, NEW m \in Nat, Pair(c, w, "body", m), source.bytes \in Seq(STRING),
         m <= Len(source.bytes), c.content_length > 0
  PROVE  /\ Pair(Shorter(c), Shorter(w), "body", m)
         /\ Shorter(c).state = c.state /\ Shorter(w).state = c.state
         /\ Shorter(c).content_length = c.content_length - 1
         /\ Shorter(w).content_length = c.content_length - 1
         /\ c.content_length - 1 \in Nat
<1>1. "body" \in Marks
  BY DEF Marks
<1>2. SameControl(c, w) /\ c.content_length \in Nat
  BY <1>1, OpenSameControl, PairParsers DEF Pair
<1>3. PICK length \in Nat : length = c.content_length - 1
  BY <1>2
<1>4. PICK a, b : /\ a = [c EXCEPT !.content_length = length]
                  /\ b = [w EXCEPT !.content_length = length]
  OBVIOUS
<1>5. Pair(a, b, "body", m)
  BY <1>3, <1>4, LengthPair
<1>7. a.state = c.state /\ a.content_length = length
  BY <1>4, PairParsers DEF IsParser, ParserFields
<1>8. b.state = w.state /\ b.content_length = length
  BY <1>4, PairParsers DEF IsParser, ParserFields
<1>6. a = Shorter(c) /\ b = Shorter(w)
  BY <1>2, <1>3, <1>4 DEF Shorter, SameControl
<1>9. b.state = c.state
  BY <1>2, <1>8 DEF SameControl
<1> QED
  BY <1>3, <1>5, <1>6, <1>7, <1>8, <1>9

\* s_body_identity: one byte of the body, and the request when it is the last.
LEMMA BodyIdentityPair ==
  ASSUME NEW c, NEW w, NEW n \in Nat, Pair(c, w, "body", n), source.bytes \in Seq(STRING),
         n + 1 <= Len(source.bytes), c.state = "s_body_identity", c.content_length > 0
  PROVE  Result(s_body_identity(c, n + 1), s_body_identity(w, n + 1), n + 1)
<1>1. PICK m \in Nat : m = n + 1
  OBVIOUS
<1>2. PICK x, y : x = Mark(c, "body", m) /\ y = Mark(w, "body", m)
  OBVIOUS
<1>3. Pair(x, y, "body", m) /\ x.state = c.state /\ x.content_length = c.content_length
  BY <1>1, <1>2, BodyMarkPair
<1>4. m <= Len(source.bytes) /\ "body" \in Marks
  BY <1>1 DEF Marks
<1>5. PICK a, b : a = Shorter(x) /\ b = Shorter(y)
  OBVIOUS
<1>6. /\ Pair(a, b, "body", m) /\ a.state = c.state /\ b.state = c.state
      /\ a.content_length = b.content_length /\ a.content_length \in Nat
  BY <1>3, <1>4, <1>5, ShorterPair
<1>7. CASE a.content_length = 0
  <2>1. PICK d : d = Callback(a, "body", m)
    OBVIOUS
  <2>2. d = Callback(b, "body", m) /\ Plain(d, m)
    BY <2>1, <1>4, <1>6, EndReadOpen DEF Pair
  <2>3. PICK r : r = MessageComplete(d)
    OBVIOUS
  <2>4. s_body_identity(c, m) = r /\ s_body_identity(w, m) = r
    BY <1>2, <1>5, <1>6, <1>7, <2>1, <2>2, <2>3 DEF s_body_identity, Shorter
  <2>5. Good(r, m)
    BY <2>2, <2>3, MessageCompleteGood
  <2> QED
    BY <1>1, <2>4, <2>5, ResultOfOne
<1>8. CASE a.content_length # 0
  <2>1. s_body_identity(c, m) = a /\ s_body_identity(w, m) = b
    BY <1>2, <1>5, <1>6, <1>8 DEF s_body_identity, Shorter
  <2>2. a.state \in StatesOf("body") /\ b.state \in StatesOf("body")
    BY <1>6 DEF StatesOf, BodyOpen
  <2>3. Good(a, m) /\ Good(b, m)
    BY <1>4, <1>6, <1>8, <2>2, OpenGood DEF Pair
  <2>4. SameControl(a, b)
    BY <1>4, <1>6, OpenSameControl DEF Pair
  <2>5. Alike(a, b, m)
    BY <1>6, <2>4 DEF Pair, Alike, SameControl, Open
  <2> QED
    BY <1>1, <2>1, <2>3, <2>5 DEF Result
<1> QED
  BY <1>7, <1>8

\* s_chunk_data: one byte of a chunk.
LEMMA ChunkDataPair ==
  ASSUME NEW c, NEW w, NEW n \in Nat, Pair(c, w, "body", n), source.bytes \in Seq(STRING),
         n + 1 <= Len(source.bytes), c.state = "s_chunk_data", c.content_length > 0
  PROVE  Result(s_chunk_data(c, n + 1), s_chunk_data(w, n + 1), n + 1)
<1>1. PICK m \in Nat : m = n + 1
  OBVIOUS
<1>2. PICK x, y : x = Mark(c, "body", m) /\ y = Mark(w, "body", m)
  OBVIOUS
<1>3. Pair(x, y, "body", m) /\ x.state = c.state /\ x.content_length = c.content_length
  BY <1>1, <1>2, BodyMarkPair
<1>4. m <= Len(source.bytes) /\ "body" \in Marks
  BY <1>1 DEF Marks
<1>5. PICK a, b : a = Shorter(x) /\ b = Shorter(y)
  OBVIOUS
<1>6. /\ Pair(a, b, "body", m) /\ a.state = c.state /\ b.state = c.state
      /\ a.content_length = b.content_length /\ a.content_length \in Nat
  BY <1>3, <1>4, <1>5, ShorterPair
<1>7. CASE a.content_length = 0
  <2>1. PICK s : s = "s_chunk_data_almost_done"
    OBVIOUS
  <2>2. s \in StatesOf("body") /\ s \notin {"s_body_identity", "s_chunk_data"}
    BY <2>1 DEF StatesOf, BodyOpen
  <2>3. Result(Own(a, s), Own(b, s), m)
    BY <1>4, <1>6, <2>2, OwnStays
  <2>4. Go(a, s) = Own(a, s) /\ Go(b, s) = Own(b, s)
    BY <1>6, GoIsOwn, PairParsers
  <2>5. s_chunk_data(c, m) = Go(a, s) /\ s_chunk_data(w, m) = Go(b, s)
    BY <1>2, <1>5, <1>6, <1>7, <2>1 DEF s_chunk_data, Shorter
  <2> QED
    BY <1>1, <2>3, <2>4, <2>5
<1>8. CASE a.content_length # 0
  <2>1. s_chunk_data(c, m) = a /\ s_chunk_data(w, m) = b
    BY <1>2, <1>5, <1>6, <1>8 DEF s_chunk_data, Shorter
  <2>2. a.state \in StatesOf("body") /\ b.state \in StatesOf("body")
    BY <1>6 DEF StatesOf, BodyOpen
  <2>3. Good(a, m) /\ Good(b, m)
    BY <1>4, <1>6, <1>8, <2>2, OpenGood DEF Pair
  <2>4. SameControl(a, b)
    BY <1>4, <1>6, OpenSameControl DEF Pair
  <2>5. Alike(a, b, m)
    BY <1>6, <2>4 DEF Pair, Alike, SameControl, Open
  <2> QED
    BY <1>1, <2>1, <2>3, <2>5 DEF Result
<1> QED
  BY <1>7, <1>8

\* s_chunk_data_almost_done: the CR after a chunk delivers it.
LEMMA ChunkEndPair ==
  ASSUME NEW c, NEW w, NEW n \in Nat, Pair(c, w, "body", n), source.bytes \in Seq(STRING),
         n + 1 <= Len(source.bytes), NEW ch
  PROVE  Result(s_chunk_data_almost_done(c, ch, n + 1), s_chunk_data_almost_done(w, ch, n + 1), n + 1)
<1>1. "body" \in Marks /\ n <= Len(source.bytes) /\ (n + 1) - 1 = n
  BY DEF Marks
<1>2. CASE ch = "CR"
  <2>1. PICK s : s = "s_chunk_data_done"
    OBVIOUS
  <2>2. PICK a : a = Callback(Own(c, s), "body", n)
    OBVIOUS
  <2>3. a = Callback(Own(w, s), "body", n) /\ Plain(a, n) /\ a.state = s
    BY <1>1, <2>2, OwnCloses
  <2>4. Go(c, s) = Own(c, s) /\ Go(w, s) = Own(w, s)
    BY GoIsOwn, PairParsers
  <2>5. s_chunk_data_almost_done(c, ch, n + 1) = a /\ s_chunk_data_almost_done(w, ch, n + 1) = a
    BY <1>1, <1>2, <2>1, <2>2, <2>3, <2>4 DEF s_chunk_data_almost_done
  <2>6. s \in PlainStates
    BY <2>1 DEF PlainStates
  <2> QED
    BY <2>3, <2>5, <2>6, ClosedResult
<1>3. CASE ch # "CR"
  <2>1. /\ s_chunk_data_almost_done(c, ch, n + 1) = Fail(c, "STRICT")
        /\ s_chunk_data_almost_done(w, ch, n + 1) = Fail(w, "STRICT")
    BY <1>3 DEF s_chunk_data_almost_done
  <2> QED
    BY <1>1, <2>1, PairFails
<1> QED
  BY <1>2, <1>3

-----------------------------------------------------------------------------
\* One byte between two texts: what comes of it is a parser again.

\* s_dead: nothing but line ends may follow a last request.
LEMMA DeadGood ==
  ASSUME NEW p, NEW n, NEW ch, Plain(p, n), p.state = "s_dead"
  PROVE  Good(s_dead(p, ch), n)
BY StayGood, PlainFail DEF s_dead, PlainStates

\* s_req_http_start.
LEMMA HttpStartGood ==
  ASSUME NEW p, NEW n, NEW ch, Plain(p, n), p.state = "s_req_http_start"
  PROVE  Good(s_req_http_start(p, ch), n)
<1>1. "s_req_http_H" \in PlainStates /\ p.state \in PlainStates
  BY DEF PlainStates, Constants
<1>2. \/ s_req_http_start(p, ch) = p
      \/ s_req_http_start(p, ch) = Go(p, "s_req_http_H")
      \/ s_req_http_start(p, ch) = Fail(p, "INVALID_CONSTANT")
  BY DEF s_req_http_start
<1> QED
  BY <1>1, <1>2, StayGood, GoGood, PlainFail

\* s_req_http_H to s_req_http_HTTP: the letters of HTTP/.
LEMMA ConstantGood ==
  ASSUME NEW p, NEW n, NEW ch, Plain(p, n), p.state \in Constants
  PROVE  Good(Constant(p, ch), n)
<1>1. PICK next : next = CHOOSE x \in HttpSlash : x[1] = p.state
  OBVIOUS
<1>2. \E x \in HttpSlash : x[1] = p.state
  BY DEF HttpSlash, Constants
<1>3. next \in HttpSlash
  BY <1>1, <1>2
<1>4. next[3] \in PlainStates
  BY <1>3 DEF HttpSlash, PlainStates, Constants, VersionStates
<1>5. PICK s \in PlainStates : s = next[3]
  BY <1>4
<1>6. Constant(p, ch) = Go(p, s) \/ Constant(p, ch) = Fail(p, "STRICT")
  BY <1>1, <1>5 DEF Constant
<1> QED
  BY <1>5, <1>6, GoGood, PlainFail

\* A number of the version is complete.
LEMMA NumberGood ==
  ASSUME NEW p, NEW n, Plain(p, n), NEW s \in PlainStates, NEW v
  PROVE  /\ Good([p EXCEPT !.major = v, !.state = s], n)
         /\ Good([p EXCEPT !.minor = v, !.state = s], n)
<1>1. PICK a, b : a = [p EXCEPT !.major = v, !.state = s] /\ b = [p EXCEPT !.minor = v, !.state = s]
  OBVIOUS
<1>2. IsParser(a) /\ a.mark = p.mark /\ a.errno = p.errno /\ a.early = p.early /\ a.state = s
  BY <1>1 DEF Plain, Bounded, IsParser, ParserFields
<1>3. IsParser(b) /\ b.mark = p.mark /\ b.errno = p.errno /\ b.early = p.early /\ b.state = s
  BY <1>1 DEF Plain, Bounded, IsParser, ParserFields
<1> QED
  BY <1>1, <1>2, <1>3, PlainAlike, StayGood

\* A number of the version goes on.
LEMMA NumberStays ==
  ASSUME NEW p, NEW n, Plain(p, n), p.state \in PlainStates, NEW v
  PROVE  Good([p EXCEPT !.major = v], n) /\ Good([p EXCEPT !.minor = v], n)
<1>1. PICK a, b : a = [p EXCEPT !.major = v] /\ b = [p EXCEPT !.minor = v]
  OBVIOUS
<1>2. IsParser(a) /\ a.mark = p.mark /\ a.errno = p.errno /\ a.early = p.early
      /\ a.state = p.state
  BY <1>1 DEF Plain, Bounded, IsParser, ParserFields
<1>3. IsParser(b) /\ b.mark = p.mark /\ b.errno = p.errno /\ b.early = p.early
      /\ b.state = p.state
  BY <1>1 DEF Plain, Bounded, IsParser, ParserFields
<1>4. Plain(a, n) /\ Plain(b, n)
  BY <1>2, <1>3, PlainAlike
<1>5. Good(a, n)
  BY <1>2, <1>4, StayGood
<1>6. Good(b, n)
  BY <1>3, <1>4, StayGood
<1> QED
  BY <1>1, <1>5, <1>6

\* s_req_first_http_major to s_req_http_minor.
LEMMA VersionGood ==
  ASSUME NEW p, NEW n, NEW ch, Plain(p, n), p.state \in VersionStates
  PROVE  Good(Version(p, ch), n)
<1>1. /\ "s_req_http_major" \in PlainStates /\ "s_req_first_http_minor" \in PlainStates
      /\ "s_req_http_minor" \in PlainStates /\ "s_req_line_almost_done" \in PlainStates
      /\ "s_header_field_start" \in PlainStates /\ p.state \in PlainStates
  BY DEF PlainStates, VersionStates
<1>2. PICK d, major, minor :
        /\ d = DigitValue(ch)
        /\ major = IF IsNum(ch) THEN p.major * 10 + DigitValue(ch) ELSE 1000
        /\ minor = IF IsNum(ch) THEN p.minor * 10 + DigitValue(ch) ELSE 1000
  OBVIOUS
<1>3. Good(Fail(p, "INVALID_VERSION"), n)
  BY PlainFail
<1>4. Good([p EXCEPT !.major = major], n) /\ Good([p EXCEPT !.minor = minor], n)
  BY <1>1, NumberStays
<1>5. CASE p.state = "s_req_first_http_major"
  <2>1. Version(p, ch) =
          IF IsNum(ch) /\ ch # "0"
          THEN [p EXCEPT !.major = d, !.state = "s_req_http_major"] ELSE Fail(p, "INVALID_VERSION")
    BY <1>2, <1>5 DEF Version
  <2>2. PICK s \in PlainStates : s = "s_req_http_major"
    BY <1>1
  <2>3. Good([p EXCEPT !.major = d, !.state = s], n)
    BY NumberGood
  <2> QED
    BY <1>3, <2>1, <2>2, <2>3
<1>6. CASE p.state = "s_req_http_major"
  <2>1. CASE ch = "."
    <3>1. Version(p, ch) = Go(p, "s_req_first_http_minor")
      BY <1>6, <2>1 DEF Version
    <3> QED
      BY <1>1, <3>1, GoGood
  <2>2. CASE ch # "."
    <3>1. Version(p, ch) =
            IF major <= 999 THEN [p EXCEPT !.major = major] ELSE Fail(p, "INVALID_VERSION")
      BY <1>2, <1>6, <2>2 DEF Version
    <3> QED
      BY <1>3, <1>4, <3>1
  <2> QED
    BY <2>1, <2>2
<1>7. CASE p.state = "s_req_first_http_minor"
  <2>1. Version(p, ch) =
          IF IsNum(ch)
          THEN [p EXCEPT !.minor = d, !.state = "s_req_http_minor"] ELSE Fail(p, "INVALID_VERSION")
    BY <1>2, <1>7 DEF Version
  <2>2. PICK s \in PlainStates : s = "s_req_http_minor"
    BY <1>1
  <2>3. Good([p EXCEPT !.minor = d, !.state = s], n)
    BY NumberGood
  <2> QED
    BY <1>3, <2>1, <2>2, <2>3
<1>8. CASE p.state = "s_req_http_minor"
  <2>1. CASE ch = "CR"
    <3>1. Version(p, ch) = Go(p, "s_req_line_almost_done")
      BY <1>8, <2>1 DEF Version
    <3> QED
      BY <1>1, <3>1, GoGood
  <2>2. CASE ch = "LF"
    <3>1. Version(p, ch) = Go(p, "s_header_field_start")
      BY <1>8, <2>2 DEF Version
    <3> QED
      BY <1>1, <3>1, GoGood
  <2>3. CASE ch # "CR" /\ ch # "LF"
    <3>1. Version(p, ch) =
            IF minor <= 999 THEN [p EXCEPT !.minor = minor] ELSE Fail(p, "INVALID_VERSION")
      BY <1>2, <1>8, <2>3 DEF Version
    <3> QED
      BY <1>3, <1>4, <3>1
  <2> QED
    BY <2>1, <2>2, <2>3
<1> QED
  BY <1>5, <1>6, <1>7, <1>8 DEF VersionStates

\* s_req_line_almost_done.
LEMMA LineDoneGood ==
  ASSUME NEW p, NEW n, NEW ch, Plain(p, n)
  PROVE  Good(s_req_line_almost_done(p, ch), n)
BY GoGood, PlainFail DEF s_req_line_almost_done, PlainStates

\* What an operation changes besides the texts and the marks does not close one.
LEMMA OpenAlike ==
  ASSUME NEW p, NEW k, NEW n, Open(p, k, n), NEW q, IsParser(q), q.mark = p.mark,
         q.errno = p.errno, q.early = p.early
  PROVE  Open(q, k, n)
BY DEF Open, Bounded

\* Nor do flags, the count of bytes and the flag of an upgrade open one.
LEMMA PlainFlags ==
  ASSUME NEW p, NEW n, Plain(p, n), NEW flags, NEW nread, NEW upgrade \in BOOLEAN
  PROVE  /\ Plain([p EXCEPT !.nread = nread], n)
         /\ Plain([p EXCEPT !.upgrade = upgrade], n)
         /\ Plain([p EXCEPT !.flags = flags], n)
<1>1. PICK a : a = [p EXCEPT !.nread = nread]
  OBVIOUS
<1>2. IsParser(a) /\ a.mark = p.mark /\ a.errno = p.errno /\ a.early = p.early
  BY <1>1 DEF Plain, Bounded, IsParser, ParserFields
<1>3. PICK b : b = [p EXCEPT !.upgrade = upgrade]
  OBVIOUS
<1>4. IsParser(b) /\ b.mark = p.mark /\ b.errno = p.errno /\ b.early = p.early
  BY <1>3 DEF Plain, Bounded, IsParser, ParserFields
<1>5. PICK c : c = [p EXCEPT !.flags = flags]
  OBVIOUS
<1>6. IsParser(c) /\ c.mark = p.mark /\ c.errno = p.errno /\ c.early = p.early
  BY <1>5 DEF Plain, Bounded, IsParser, ParserFields
<1> QED
  BY <1>1, <1>2, <1>3, <1>4, <1>5, <1>6, PlainAlike

\* A parser with nothing open may begin a body.
LEMMA BodyBegins ==
  ASSUME NEW p, NEW n, Plain(p, n), NEW s \in {"s_body_identity", "s_chunk_data"},
         p.content_length > 0
  PROVE  Good(Go(p, s), n)
<1>1. PICK q : q = Go(p, s)
  OBVIOUS
<1>2. /\ IsParser(q) /\ q.state = s /\ q.mark = p.mark /\ q.errno = p.errno /\ q.early = p.early
      /\ q.content_length = p.content_length
  BY <1>1 DEF Plain, Bounded, IsParser, ParserFields, Go
<1>3. p.mark = Only("body", p.mark["body"])
  BY DEF Plain, Unmarked, Only, Marks
<1>4. Open(q, "body", n)
  BY <1>2, <1>3 DEF Plain, Open, Bounded
<1>5. q.state \in StatesOf("body") /\ "body" \in Marks
  BY <1>2 DEF StatesOf, BodyOpen, Marks
<1> QED
  BY <1>1, <1>2, <1>4, <1>5, OpenGood

\* s_headers_done: a body of a length or in chunks, the end of the request, or an upgrade
\* that leaves the read.
LEMMA HeadersDoneGood ==
  ASSUME NEW p, NEW n, Plain(p, n)
  PROVE  Good(s_headers_done(p), n)
<1>1. PICK q : q = [p EXCEPT !.nread = 0]
  OBVIOUS
<1>2. Plain(q, n)
  BY <1>1, PlainFlags
<1>3. q.upgrade \in BOOLEAN /\ q.content_length \in Nat
  BY <1>2 DEF Plain, Bounded, IsParser
<1>4. CASE q.upgrade
  <2>1. s_headers_done(p) = [MessageComplete(q) EXCEPT !.early = TRUE]
    BY <1>1, <1>4 DEF s_headers_done
  <2> QED
    BY <1>2, <1>4, <2>1, MessageCompleteGood
<1>5. CASE ~q.upgrade /\ "CHUNKED" \in q.flags
  <2>1. s_headers_done(p) = Go(q, "s_chunk_size_start")
    BY <1>1, <1>5 DEF s_headers_done
  <2>2. "s_chunk_size_start" \in PlainStates
    BY DEF PlainStates
  <2> QED
    BY <1>2, <2>1, <2>2, GoGood
<1>6. CASE ~q.upgrade /\ "CHUNKED" \notin q.flags
  <2>1. s_headers_done(p) = IF q.content_length \in {0, ULLONG_MAX} THEN MessageComplete(q)
                            ELSE Go(q, "s_body_identity")
    BY <1>1, <1>6 DEF s_headers_done
  <2>2. CASE q.content_length \in {0, ULLONG_MAX}
    BY <1>2, <2>1, <2>2, MessageCompleteGood
  <2>3. CASE q.content_length \notin {0, ULLONG_MAX}
    <3>1. q.content_length > 0
      BY <1>3, <2>3
    <3> QED
      BY <1>2, <2>1, <2>3, <3>1, BodyBegins
  <2> QED
    BY <2>2, <2>3
<1> QED
  BY <1>3, <1>4, <1>5, <1>6

\* s_headers_almost_done: also the end of the trailers.
LEMMA HeadersAlmostDoneGood ==
  ASSUME NEW p, NEW n, NEW ch, Plain(p, n)
  PROVE  Good(s_headers_almost_done(p, ch), n)
<1>1. CASE ch # "LF"
  BY <1>1, PlainFail DEF s_headers_almost_done
<1>2. CASE ch = "LF" /\ "TRAILING" \in p.flags
  <2>1. s_headers_almost_done(p, ch) = MessageComplete(p)
    BY <1>2 DEF s_headers_almost_done
  <2> QED
    BY <2>1, MessageCompleteGood
<1>3. CASE ch = "LF" /\ "TRAILING" \notin p.flags
  <2>1. PICK u \in BOOLEAN : u = ("UPGRADE" \in p.flags \/ p.method = "CONNECT")
    OBVIOUS
  <2>2. PICK q : q = [p EXCEPT !.upgrade = u]
    OBVIOUS
  <2>3. s_headers_almost_done(p, ch) = s_headers_done(on_headers_complete(q))
    BY <1>3, <2>1, <2>2 DEF s_headers_almost_done
  <2>4. Plain(q, n)
    BY <2>2, PlainFlags
  <2>5. Plain(on_headers_complete(q), n)
    BY <2>4, HeadersCompletePlain
  <2> QED
    BY <2>3, <2>5, HeadersDoneGood
<1> QED
  BY <1>1, <1>2, <1>3

\* A byte between two texts that opens one.
LEMMA HeaderFieldStartGood ==
  ASSUME NEW p, NEW n \in Nat, NEW ch, Plain(p, n)
  PROVE  Good(s_header_field_start(p, ch, n + 1), n + 1)
<1>1. PICK m \in Nat : m = n + 1
  OBVIOUS
<1>2. Plain(p, m)
  BY <1>1, PlainLater
<1>3. CASE ch = "CR"
  <2>0. ~Token(ch)
    BY <1>3, SeparatorsNoTokens
  <2>1. s_header_field_start(p, ch, m) = Go(p, "s_headers_almost_done")
    BY <1>3, <2>0 DEF s_header_field_start
  <2>2. "s_headers_almost_done" \in PlainStates
    BY DEF PlainStates
  <2> QED
    BY <1>1, <1>2, <2>1, <2>2, GoGood
<1>4. CASE ch = "LF"
  <2>0. ~Token(ch)
    BY <1>4, SeparatorsNoTokens
  <2>1. s_header_field_start(p, ch, m) = s_headers_almost_done(p, ch)
    BY <1>4, <2>0 DEF s_header_field_start
  <2> QED
    BY <1>1, <1>2, <2>1, HeadersAlmostDoneGood
<1>5. CASE ch # "CR" /\ ch # "LF" /\ Token(ch)
  <2>1. PICK q, name, s : /\ q = Mark(p, "header_field", m) /\ name = MatchedUpTo(<<>>, ch)
                          /\ s = "s_header_field"
    OBVIOUS
  <2>2. "header_field" \in Marks /\ s \in StatesOf("header_field")
        /\ s \notin {"s_body_identity", "s_chunk_data"}
    BY <2>1 DEF Marks, StatesOf
  <2>3. Open(q, "header_field", m)
    BY <1>1, <2>1, <2>2, MarkPlain
  <2>4. PICK r : r = [q EXCEPT !.state = s, !.header_state = name]
    OBVIOUS
  <2>5. /\ IsParser(r) /\ r.mark = q.mark /\ r.errno = q.errno /\ r.early = q.early
        /\ r.state = s
    BY <2>3, <2>4 DEF Open, Bounded, IsParser, ParserFields
  <2>6. Good(r, m)
    BY <2>2, <2>3, <2>5, OpenAlike, OpenGood
  <2>7. s_header_field_start(p, ch, m) = r
    BY <1>5, <2>1, <2>4 DEF s_header_field_start
  <2> QED
    BY <1>1, <2>6, <2>7
<1>6. CASE ch # "CR" /\ ch # "LF" /\ ~Token(ch)
  <2>1. s_header_field_start(p, ch, m) = Fail(p, "INVALID_HEADER_TOKEN")
    BY <1>6 DEF s_header_field_start
  <2> QED
    BY <1>1, <1>2, <2>1, PlainFail
<1> QED
  BY <1>3, <1>4, <1>5, <1>6

\* s_header_value_start marks a value.
LEMMA HeaderValueStartGood ==
  ASSUME NEW p, NEW n \in Nat, NEW ch, Plain(p, n)
  PROVE  Good(s_header_value_start(p, ch, n + 1), n + 1)
<1>1. PICK m \in Nat : m = n + 1
  OBVIOUS
<1>2. PICK x, s : x = Mark(p, "header_value", m) /\ s = "s_header_value"
  OBVIOUS
<1>3. "header_value" \in Marks /\ s \in StatesOf("header_value")
      /\ s \notin {"s_body_identity", "s_chunk_data"}
  BY <1>2 DEF Marks, StatesOf
<1>4. Open(x, "header_value", m)
  BY <1>1, <1>2, <1>3, MarkPlain
<1>5. PICK q : q = Go(x, s)
  OBVIOUS
<1>6. /\ IsParser(q) /\ q.mark = x.mark /\ q.errno = x.errno /\ q.early = x.early
      /\ q.state = s
  BY <1>4, <1>5 DEF Open, Bounded, IsParser, ParserFields, Go
<1>7. Open(q, "header_value", m)
  BY <1>4, <1>6, OpenAlike
<1>8. CASE p.header_state = <<"upgrade">>
  <2>1. PICK flags : flags = q.flags \cup {"UPGRADE"}
    OBVIOUS
  <2>2. PICK r : r = [q EXCEPT !.flags = flags, !.header_state = <<>>]
    OBVIOUS
  <2>3. /\ IsParser(r) /\ r.mark = q.mark /\ r.errno = q.errno /\ r.early = q.early
        /\ r.state = s
    BY <1>6, <2>2 DEF IsParser, ParserFields
  <2>4. Good(r, m)
    BY <1>3, <1>7, <2>3, OpenAlike, OpenGood
  <2>0. p.header_state # ContentLength
    BY <1>8 DEF ContentLength
  <2>5. s_header_value_start(p, ch, m) = r
    BY <1>2, <1>5, <1>8, <2>0, <2>1, <2>2 DEF s_header_value_start
  <2> QED
    BY <1>1, <2>4, <2>5
<1>9. CASE p.header_state # <<"upgrade">> /\ p.header_state = ContentLength /\ IsNum(ch)
  <2>1. PICK length \in Nat : length = DigitValue(ch)
    BY <1>9, DigitValueTyped
  <2>2. PICK r : r = [q EXCEPT !.content_length = length]
    OBVIOUS
  <2>3. /\ IsParser(r) /\ r.mark = q.mark /\ r.errno = q.errno /\ r.early = q.early
        /\ r.state = s
    BY <1>6, <2>2 DEF IsParser, ParserFields
  <2>4. Good(r, m)
    BY <1>3, <1>7, <2>3, OpenAlike, OpenGood
  <2>5. s_header_value_start(p, ch, m) = r
    BY <1>2, <1>5, <1>9, <2>1, <2>2 DEF s_header_value_start
  <2> QED
    BY <1>1, <2>4, <2>5
<1>10. CASE p.header_state # <<"upgrade">> /\ p.header_state = ContentLength /\ ~IsNum(ch)
  <2>1. s_header_value_start(p, ch, m) = Fail(q, "INVALID_CONTENT_LENGTH")
    BY <1>2, <1>5, <1>10 DEF s_header_value_start
  <2> QED
    BY <1>1, <1>7, <2>1, FailGood DEF Open
<1>11. CASE p.header_state # <<"upgrade">> /\ p.header_state # ContentLength
  <2>1. PICK name : name = Begin(p.header_state, ch)
    OBVIOUS
  <2>2. PICK r : r = [q EXCEPT !.header_state = name]
    OBVIOUS
  <2>3. /\ IsParser(r) /\ r.mark = q.mark /\ r.errno = q.errno /\ r.early = q.early
        /\ r.state = s
    BY <1>6, <2>2 DEF IsParser, ParserFields
  <2>4. Good(r, m)
    BY <1>3, <1>7, <2>3, OpenAlike, OpenGood
  <2>5. s_header_value_start(p, ch, m) = r
    BY <1>2, <1>5, <1>11, <2>1, <2>2 DEF s_header_value_start
  <2> QED
    BY <1>1, <2>4, <2>5
<1> QED
  BY <1>8, <1>9, <1>10, <1>11

\* s_header_almost_done.
LEMMA HeaderAlmostDoneGood ==
  ASSUME NEW p, NEW n, NEW ch, Plain(p, n)
  PROVE  Good(s_header_almost_done(p, ch), n)
<1>1. "s_header_value_lws" \in PlainStates
  BY DEF PlainStates
<1> QED
  BY <1>1, GoGood, PlainFail DEF s_header_almost_done

\* s_header_value_discard_ws.
LEMMA DiscardWsGood ==
  ASSUME NEW p, NEW n \in Nat, NEW ch, Plain(p, n), p.state = "s_header_value_discard_ws"
  PROVE  Good(s_header_value_discard_ws(p, ch, n + 1), n + 1)
<1>1. PICK m \in Nat : m = n + 1
  OBVIOUS
<1>2. Plain(p, m)
  BY <1>1, PlainLater
<1>3. /\ "s_header_value_discard_ws_almost_done" \in PlainStates
      /\ "s_header_value_discard_lws" \in PlainStates /\ p.state \in PlainStates
  BY DEF PlainStates
<1>4. Good(s_header_value_start(p, ch, m), m)
  BY <1>1, HeaderValueStartGood
<1>5. \/ s_header_value_discard_ws(p, ch, m) = p
      \/ s_header_value_discard_ws(p, ch, m) = Go(p, "s_header_value_discard_ws_almost_done")
      \/ s_header_value_discard_ws(p, ch, m) = Go(p, "s_header_value_discard_lws")
      \/ s_header_value_discard_ws(p, ch, m) = s_header_value_start(p, ch, m)
  BY DEF s_header_value_discard_ws
<1> QED
  BY <1>1, <1>2, <1>3, <1>4, <1>5, GoGood, StayGood

\* s_header_value_discard_ws_almost_done.
LEMMA DiscardWsAlmostDoneGood ==
  ASSUME NEW p, NEW n, NEW ch, Plain(p, n)
  PROVE  Good(s_header_value_discard_ws_almost_done(p, ch), n)
<1>1. "s_header_value_discard_lws" \in PlainStates
  BY DEF PlainStates
<1> QED
  BY <1>1, GoGood, PlainFail DEF s_header_value_discard_ws_almost_done

\* s_header_value_discard_lws: an empty value is delivered at once, or the value begins on
\* the next line.
LEMMA DiscardLwsGood ==
  ASSUME NEW p, NEW n \in Nat, NEW ch, Plain(p, n), source.bytes \in Seq(STRING),
         n + 1 <= Len(source.bytes)
  PROVE  Good(s_header_value_discard_lws(p, ch, n + 1), n + 1)
<1>1. PICK m \in Nat : m = n + 1
  OBVIOUS
<1>2. Plain(p, m) /\ m - 1 = n /\ n <= Len(source.bytes)
  BY <1>1, PlainLater
<1>3. CASE ch \in {"SP", "TAB"}
  <2>1. s_header_value_discard_lws(p, ch, m) = Go(p, "s_header_value_discard_ws")
    BY <1>3 DEF s_header_value_discard_lws
  <2>2. "s_header_value_discard_ws" \in PlainStates
    BY DEF PlainStates
  <2> QED
    BY <1>1, <1>2, <2>1, <2>2, GoGood
<1>4. CASE ch \notin {"SP", "TAB"}
  <2>1. PICK q, s : q = Mark(p, "header_value", m) /\ s = "s_header_field_start"
    OBVIOUS
  <2>2. "header_value" \in Marks
    BY DEF Marks
  <2>3. Open(q, "header_value", n)
    BY <1>1, <2>1, <2>2, MarkPlain
  <2>4. Pair(q, q, "header_value", n) /\ IsParser(q)
    BY <2>3 DEF Pair, Open, Bounded
  <2>5. PICK r : r = Callback(Own(q, s), "header_value", n)
    OBVIOUS
  <2>6. Plain(r, n)
    BY <1>2, <2>2, <2>4, <2>5, OwnCloses
  <2>7. Go(q, s) = Own(q, s)
    BY <2>4, GoIsOwn
  <2>8. s_header_value_discard_lws(p, ch, m) = s_header_field_start(r, ch, m)
    BY <1>2, <1>4, <2>1, <2>5, <2>7 DEF s_header_value_discard_lws
  <2> QED
    BY <1>1, <2>6, <2>8, HeaderFieldStartGood
<1> QED
  BY <1>3, <1>4

\* s_header_value_lws: the value goes on, or the next header begins.
LEMMA ValueLwsGood ==
  ASSUME NEW p, NEW n \in Nat, NEW ch, Plain(p, n)
  PROVE  Good(s_header_value_lws(p, ch, n + 1), n + 1)
<1>1. CASE ch \in {"SP", "TAB"}
  BY <1>1, HeaderValueStartGood DEF s_header_value_lws
<1>2. CASE ch \notin {"SP", "TAB"}
  <2>1. PICK flags :
          flags = p.flags \cup
                    (CASE p.header_state = <<":", "keep", "-alive">> -> {"CONNECTION_KEEP_ALIVE"}
                       [] p.header_state = <<":", "clo", "se">>      -> {"CONNECTION_CLOSE"}
                       [] p.header_state = <<":", "chun", "ked">>    -> {"CHUNKED"}
                       [] OTHER                                      -> {})
    OBVIOUS
  <2>2. PICK q : q = [p EXCEPT !.flags = flags, !.state = "s_header_field_start"]
    OBVIOUS
  <2>3. IsParser(q) /\ q.mark = p.mark /\ q.errno = p.errno /\ q.early = p.early
    BY <2>2 DEF Plain, Bounded, IsParser, ParserFields
  <2>4. Plain(q, n)
    BY <2>3, PlainAlike
  <2>5. s_header_value_lws(p, ch, n + 1) = s_header_field_start(q, ch, n + 1)
    BY <1>2, <2>1, <2>2 DEF s_header_value_lws
  <2> QED
    BY <2>4, <2>5, HeaderFieldStartGood
<1> QED
  BY <1>1, <1>2

\* The chunks of a body.
LEMMA LengthGood ==
  ASSUME NEW p, NEW n, Plain(p, n), NEW length \in Nat, NEW s \in PlainStates
  PROVE  Good([p EXCEPT !.content_length = length, !.state = s], n)
<1>1. PICK a : a = [p EXCEPT !.content_length = length, !.state = s]
  OBVIOUS
<1>2. IsParser(a) /\ a.mark = p.mark /\ a.errno = p.errno /\ a.early = p.early /\ a.state = s
  BY <1>1 DEF Plain, Bounded, IsParser, ParserFields
<1> QED
  BY <1>1, <1>2, PlainAlike, StayGood

\* s_chunk_size_start.
LEMMA ChunkSizeStartGood ==
  ASSUME NEW p, NEW n, NEW ch, Plain(p, n)
  PROVE  Good(s_chunk_size_start(p, ch), n)
<1>1. CASE IsHex(ch)
  <2>1. PICK length \in Nat : length = Unhex(ch)
    BY <1>1, UnhexTyped
  <2>2. PICK s \in PlainStates : s = "s_chunk_size"
    BY DEF PlainStates
  <2>3. s_chunk_size_start(p, ch) = [p EXCEPT !.content_length = length, !.state = s]
    BY <1>1, <2>1, <2>2 DEF s_chunk_size_start
  <2>4. Good([p EXCEPT !.content_length = length, !.state = s], n)
    BY LengthGood
  <2> QED
    BY <2>3, <2>4
<1>2. CASE ~IsHex(ch)
  BY <1>2, PlainFail DEF s_chunk_size_start
<1> QED
  BY <1>1, <1>2

\* A digit of the length of a chunk.
LEMMA ChunkDigitGood ==
  ASSUME NEW p, NEW n, NEW digit \in 0 .. 15, Plain(p, n), p.state \in PlainStates
  PROVE  Good(MoreDigits(p, 16, digit), n)
<1>1. CASE (ULLONG_MAX - 16) \div 16 < p.content_length
  BY <1>1, PlainFail DEF MoreDigits
<1>2. CASE ~((ULLONG_MAX - 16) \div 16 < p.content_length)
  <2>1. PICK base : base = 16
    OBVIOUS
  <2>2. PICK l \in Nat : l = p.content_length
    BY DEF Plain, Bounded, IsParser
  <2>3. (l * base + digit) % (ULLONG_MAX + 1) \in Nat
    BY <2>1, WrappedTyped
  <2>4. PICK length \in Nat : length = (p.content_length * 16 + digit) % (ULLONG_MAX + 1)
    BY <2>1, <2>2, <2>3
  <2>5. PICK s \in PlainStates : s = p.state
    OBVIOUS
  <2>6. MoreDigits(p, 16, digit) = [p EXCEPT !.content_length = length]
    BY <1>2, <2>4 DEF MoreDigits
  <2>7. [p EXCEPT !.content_length = length] = [p EXCEPT !.content_length = length, !.state = s]
    BY <2>5 DEF Plain, Bounded, IsParser, ParserFields
  <2>8. Good([p EXCEPT !.content_length = length, !.state = s], n)
    BY LengthGood
  <2> QED
    BY <2>6, <2>7, <2>8
<1> QED
  BY <1>1, <1>2

\* s_chunk_size.
LEMMA ChunkSizeGood ==
  ASSUME NEW p, NEW n, NEW ch, Plain(p, n), p.state = "s_chunk_size"
  PROVE  Good(s_chunk_size(p, ch), n)
<1>1. /\ "s_chunk_size_almost_done" \in PlainStates /\ "s_chunk_parameters" \in PlainStates
      /\ p.state \in PlainStates
  BY DEF PlainStates
<1>2. CASE IsHex(ch)
  <2>1. Good(MoreDigits(p, 16, Unhex(ch)), n)
    BY <1>1, <1>2, UnhexTyped, ChunkDigitGood
  <2>2. \/ s_chunk_size(p, ch) = Go(p, "s_chunk_size_almost_done")
        \/ s_chunk_size(p, ch) = Go(p, "s_chunk_parameters")
        \/ s_chunk_size(p, ch) = MoreDigits(p, 16, Unhex(ch))
        \/ s_chunk_size(p, ch) = Fail(p, "INVALID_CHUNK_SIZE")
    BY DEF s_chunk_size
  <2> QED
    BY <1>1, <2>1, <2>2, GoGood, PlainFail
<1>3. CASE ~IsHex(ch)
  <2>1. \/ s_chunk_size(p, ch) = Go(p, "s_chunk_size_almost_done")
        \/ s_chunk_size(p, ch) = Go(p, "s_chunk_parameters")
        \/ s_chunk_size(p, ch) = Fail(p, "INVALID_CHUNK_SIZE")
    BY <1>3 DEF s_chunk_size
  <2> QED
    BY <1>1, <2>1, GoGood, PlainFail
<1> QED
  BY <1>2, <1>3

\* s_chunk_parameters.
LEMMA ChunkParametersGood ==
  ASSUME NEW p, NEW n, NEW ch, Plain(p, n), p.state = "s_chunk_parameters"
  PROVE  Good(s_chunk_parameters(p, ch), n)
<1>1. "s_chunk_size_almost_done" \in PlainStates /\ p.state \in PlainStates
  BY DEF PlainStates
<1> QED
  BY <1>1, GoGood, StayGood DEF s_chunk_parameters

\* s_chunk_size_almost_done: a chunk has bytes, or it is the last.
LEMMA ChunkSizeDoneGood ==
  ASSUME NEW p, NEW n, NEW ch, Plain(p, n)
  PROVE  Good(s_chunk_size_almost_done(p, ch), n)
<1>1. PICK q : q = [p EXCEPT !.nread = 0]
  OBVIOUS
<1>2. Plain(q, n)
  BY <1>1, PlainFlags
<1>3. q.content_length = p.content_length /\ q.content_length \in Nat
  BY <1>1 DEF Plain, Bounded, IsParser, ParserFields
<1>4. CASE ch # "LF"
  <2>1. s_chunk_size_almost_done(p, ch) = Fail(p, "STRICT")
    BY <1>4 DEF s_chunk_size_almost_done
  <2> QED
    BY <2>1, PlainFail
<1>5. CASE ch = "LF" /\ p.content_length = 0
  <2>1. PICK flags, s : flags = q.flags \cup {"TRAILING"} /\ s = "s_header_field_start"
    OBVIOUS
  <2>2. PICK a : a = [q EXCEPT !.flags = flags, !.state = s]
    OBVIOUS
  <2>3. IsParser(a) /\ a.mark = q.mark /\ a.errno = q.errno /\ a.early = q.early /\ a.state = s
    BY <1>2, <2>2 DEF Plain, Bounded, IsParser, ParserFields
  <2>4. s_chunk_size_almost_done(p, ch) = a
    BY <1>1, <1>5, <2>1, <2>2 DEF s_chunk_size_almost_done
  <2>5. s \in PlainStates
    BY <2>1 DEF PlainStates
  <2> QED
    BY <1>2, <2>3, <2>4, <2>5, PlainAlike, StayGood
<1>6. CASE ch = "LF" /\ p.content_length > 0
  <2>1. s_chunk_size_almost_done(p, ch) = Go(q, "s_chunk_data")
    BY <1>1, <1>6, <1>3 DEF s_chunk_size_almost_done
  <2> QED
    BY <1>2, <1>3, <1>6, <2>1, BodyBegins
<1> QED
  BY <1>3, <1>4, <1>5, <1>6

\* s_chunk_data_done.
LEMMA ChunkDataDoneGood ==
  ASSUME NEW p, NEW n, NEW ch, Plain(p, n)
  PROVE  Good(s_chunk_data_done(p, ch), n)
<1>1. CASE ch # "LF"
  BY <1>1, PlainFail DEF s_chunk_data_done
<1>2. CASE ch = "LF"
  <2>1. PICK a, s : a = [p EXCEPT !.nread = 0, !.state = s] /\ s = "s_chunk_size_start"
    OBVIOUS
  <2>2. IsParser(a) /\ a.mark = p.mark /\ a.errno = p.errno /\ a.early = p.early /\ a.state = s
    BY <2>1 DEF Plain, Bounded, IsParser, ParserFields
  <2>3. s_chunk_data_done(p, ch) = a
    BY <1>2, <2>1 DEF s_chunk_data_done
  <2>4. s \in PlainStates
    BY <2>1 DEF PlainStates
  <2> QED
    BY <2>2, <2>3, <2>4, PlainAlike, StayGood
<1> QED
  BY <1>1, <1>2

\* s_req_spaces_before_url marks the url.
LEMMA SpacesGood ==
  ASSUME NEW p, NEW n \in Nat, NEW ch, Plain(p, n), source.bytes \in Seq(STRING),
         n + 1 <= Len(source.bytes), p.state = "s_req_spaces_before_url"
  PROVE  Good(s_req_spaces_before_url(p, ch, n + 1), n + 1)
<1>1. CASE ch = "SP"
  <2>1. PICK m \in Nat : m = n + 1
    OBVIOUS
  <2>2. Plain(p, m)
    BY <2>1, PlainLater
  <2>3. p.state \in PlainStates
    BY DEF PlainStates
  <2>4. s_req_spaces_before_url(p, ch, m) = p
    BY <1>1 DEF s_req_spaces_before_url
  <2> QED
    BY <2>1, <2>2, <2>3, <2>4, StayGood
<1>2. CASE ch # "SP"
  <2>1. PICK q, from : /\ q = Mark(p, "url", n + 1)
                       /\ from = IF p.method = "CONNECT" THEN "s_req_server_start" ELSE p.state
    OBVIOUS
  <2>2. from \in UrlStates \cup {"s_req_spaces_before_url"} /\ "url" \in Marks
    BY <2>1 DEF UrlStates, Server, Marks
  <2>3. Open(q, "url", n)
    BY <2>1, <2>2, MarkPlain
  <2>4. Pair(q, q, "url", n)
    BY <2>3 DEF Pair
  <2>5. s_req_spaces_before_url(p, ch, n + 1) = UrlByte(q, ch, from)
    BY <1>2, <2>1 DEF s_req_spaces_before_url
  <2>6. Result(UrlByte(q, ch, from), UrlByte(q, ch, from), n + 1)
    BY <2>2, <2>4, UrlBytePair
  <2> QED
    BY <2>5, <2>6 DEF Result
<1> QED
  BY <1>1, <1>2

-----------------------------------------------------------------------------
\* A request for another protocol.

Flagged(p) == "upgrade" \in DOMAIN p /\ "early" \in DOMAIN p
Keeps(p, q) == Flagged(q) /\ q.upgrade = p.upgrade
\* The upgrade is seen where http_parser_execute() returns.
Led(q) == q.upgrade = FALSE \/ q.early = TRUE

\* No helper of the parser touches the flag of an upgrade.
LEMMA StepKeeps ==
  ASSUME NEW p, Flagged(p)
  PROVE  /\ Keeps(p, p)
         /\ \A s : Keeps(p, Go(p, s))
         /\ \A e : Keeps(p, Fail(p, e))
         /\ Keeps(p, Clear(p))
         /\ Keeps(p, Emplace(p))
         /\ \A k, i : Keeps(p, Mark(p, k, i))
BY DEF Flagged, Keeps, Go, Fail, Clear, Emplace, Mark

\* Nor do the callbacks.
LEMMA DeliverKeeps ==
  ASSUME NEW p, Flagged(p), NEW k \in Marks, NEW t
  PROVE  Keeps(p, Deliver(p, k, t))
<1>1. CASE k = "url"
  BY <1>1 DEF Flagged, Keeps, Deliver
<1>2. CASE k = "body"
  BY <1>2 DEF Flagged, Keeps, Deliver
<1>3. CASE k = "header_value"
  BY <1>3 DEF Flagged, Keeps, Deliver, on_header_value
<1>4. CASE k = "header_field"
  BY <1>4 DEF Flagged, Keeps, Deliver, on_header_field, Emplace
<1> QED
  BY <1>1, <1>2, <1>3, <1>4 DEF Marks

\* Nor does CALLBACK_DATA.
LEMMA CallbackKeeps ==
  ASSUME NEW p, Flagged(p), NEW k \in Marks, NEW i
  PROVE  Keeps(p, Callback(p, k, i))
<1>1. PICK t : t = SubSeq(source.bytes, p.mark[k], i)
  OBVIOUS
<1>2. PICK d : d = Deliver(p, k, t)
  OBVIOUS
<1>3. Keeps(p, d)
  BY <1>2, DeliverKeeps
<1>4. Callback(p, k, i) = p \/ Callback(p, k, i) = [d EXCEPT !.mark[k] = 0]
  BY <1>1, <1>2 DEF Callback
<1> QED
  BY <1>3, <1>4 DEF Keeps, Flagged

\* Two such operations.
LEMMA KeepsTwice ==
  ASSUME NEW p, NEW q, NEW r, Keeps(p, q), Keeps(q, r)
  PROVE  Keeps(p, r)
BY DEF Keeps

\* Without an upgrade there is none to leave for.
LEMMA KeepsLeads ==
  ASSUME NEW p, NEW q, Keeps(p, q), p.upgrade = FALSE
  PROVE  Led(q)
BY DEF Keeps, Led

\* Bytes of the url,
LEMMA UrlByteKeeps ==
  ASSUME NEW p, Flagged(p), NEW ch, NEW from
  PROVE  Keeps(p, UrlByte(p, ch, from))
BY StepKeeps DEF UrlByte

\* its end,
LEMMA UrlOrEndKeeps ==
  ASSUME NEW p, Flagged(p), NEW ch, NEW i
  PROVE  Keeps(p, UrlOrEnd(p, ch, i))
<1>1. PICK a, b : a = Go(p, "s_req_http_start") /\ b = [p EXCEPT !.major = 0, !.minor = 9]
  OBVIOUS
<1>2. PICK c, d : c = Go(b, "s_req_line_almost_done") /\ d = Go(b, "s_header_field_start")
  OBVIOUS
<1>3. Keeps(p, a) /\ Keeps(p, c) /\ Keeps(p, d)
  BY <1>1, <1>2 DEF Keeps, Flagged, Go
<1>4. "url" \in Marks
  BY DEF Marks
<1>5. \A k : /\ Keeps(p, Callback(a, "url", k)) /\ Keeps(p, Callback(c, "url", k))
             /\ Keeps(p, Callback(d, "url", k))
  BY <1>3, <1>4, CallbackKeeps DEF Keeps
<1>6. \/ UrlOrEnd(p, ch, i) = Callback(a, "url", i - 1)
      \/ UrlOrEnd(p, ch, i) = Callback(c, "url", i - 1)
      \/ UrlOrEnd(p, ch, i) = Callback(d, "url", i - 1)
      \/ UrlOrEnd(p, ch, i) = UrlByte(p, ch, p.state)
  BY <1>1, <1>2 DEF UrlOrEnd
<1> QED
  BY <1>5, <1>6, UrlByteKeeps

\* the states of the request line,
LEMMA RequestLineKeeps ==
  ASSUME NEW p, Flagged(p), NEW ch
  PROVE  /\ Keeps(p, s_dead(p, ch))
         /\ Keeps(p, s_start_req(p, ch))
         /\ Keeps(p, s_req_http_start(p, ch))
         /\ Keeps(p, Constant(p, ch))
         /\ Keeps(p, s_req_line_almost_done(p, ch))
<1>1. Keeps(p, s_dead(p, ch)) /\ Keeps(p, s_req_http_start(p, ch))
      /\ Keeps(p, s_req_line_almost_done(p, ch))
  BY StepKeeps DEF s_dead, s_req_http_start, s_req_line_almost_done
<1>2. Keeps(p, Constant(p, ch))
  BY StepKeeps DEF Constant
<1>3. Keeps(p, s_start_req(p, ch))
  <2> DEFINE first == {m \in {"CONNECT", "DELETE", "GET", "HEAD", "LOCK", "MKCOL", "NOTIFY",
                            "OPTIONS", "POST", "REPORT", "SUBSCRIBE", "TRACE", "UNLOCK"} :
                       MethodText[m][1] = ch}
  <2>1. PICK q, name : /\ q = [p EXCEPT !.flags = {}, !.content_length = ULLONG_MAX]
                       /\ name = CHOOSE m \in first : TRUE
    OBVIOUS
  <2>2. PICK r : r = Clear(q)
    OBVIOUS
  <2>3. PICK t : t = [r EXCEPT !.method = name, !.index = 1, !.state = "s_req_method"]
    OBVIOUS
  <2> HIDE DEF first
  <2>4. Keeps(p, q)
    BY <2>1 DEF Keeps, Flagged
  <2>5. Keeps(p, r) /\ Keeps(p, Fail(q, "INVALID_METHOD"))
    BY <2>2, <2>4, StepKeeps DEF Keeps
  <2>6. Keeps(p, t)
    BY <2>3, <2>5 DEF Keeps, Flagged
  <2>7. s_start_req(p, ch) \in {p, Fail(q, "INVALID_METHOD"), t}
    BY <2>1, <2>2, <2>3 DEF s_start_req, first
  <2> QED
    BY <2>5, <2>6, <2>7, StepKeeps
<1> QED
  BY <1>1, <1>2, <1>3

\* the method,
LEMMA MethodKeeps ==
  ASSUME NEW p, Flagged(p), NEW ch
  PROVE  Keeps(p, s_req_method(p, ch))
<1> DEFINE text == MethodText[p.method]
           others == {t \in Turns : t[1] = p.method /\ t[2] = p.index /\ t[3] = ch}
<1>1. PICK i, m : i = p.index + 1 /\ m = (CHOOSE t \in others : TRUE)[4]
  OBVIOUS
<1>2. PICK q : q = [p EXCEPT !.index = i]
  OBVIOUS
<1>3. PICK r : r = [q EXCEPT !.method = m]
  OBVIOUS
<1> HIDE DEF text, others
<1>4. Keeps(p, q) /\ Keeps(p, r)
  BY <1>2, <1>3 DEF Keeps, Flagged
<1>5. \/ s_req_method(p, ch) = Go(q, "s_req_spaces_before_url")
      \/ s_req_method(p, ch) = q
      \/ s_req_method(p, ch) = r
      \/ s_req_method(p, ch) = Fail(p, "INVALID_METHOD")
  BY <1>1, <1>2, <1>3 DEF s_req_method, text, others
<1>6. Keeps(p, Go(q, "s_req_spaces_before_url"))
  BY <1>4 DEF Keeps, Flagged, Go
<1> QED
  BY <1>4, <1>5, <1>6, StepKeeps

\* the version,
LEMMA VersionKeeps ==
  ASSUME NEW p, Flagged(p), NEW ch, p.state \in VersionStates
  PROVE  Keeps(p, Version(p, ch))
<1>1. PICK d, j, k :
        /\ d = DigitValue(ch)
        /\ j = IF IsNum(ch) THEN p.major * 10 + DigitValue(ch) ELSE 1000
        /\ k = IF IsNum(ch) THEN p.minor * 10 + DigitValue(ch) ELSE 1000
  OBVIOUS
<1>2. PICK a, b : /\ a = [p EXCEPT !.major = d, !.state = "s_req_http_major"]
                  /\ b = [p EXCEPT !.major = j]
  OBVIOUS
<1>3. PICK c, e : /\ c = [p EXCEPT !.minor = d, !.state = "s_req_http_minor"]
                  /\ e = [p EXCEPT !.minor = k]
  OBVIOUS
<1>4. Keeps(p, a) /\ Keeps(p, b) /\ Keeps(p, c) /\ Keeps(p, e)
  BY <1>2, <1>3 DEF Keeps, Flagged
<1>5. CASE p.state = "s_req_first_http_major"
  <2>1. Version(p, ch) = a \/ Version(p, ch) = Fail(p, "INVALID_VERSION")
    BY <1>1, <1>2, <1>5 DEF Version
  <2> QED
    BY <1>4, <2>1, StepKeeps
<1>6. CASE p.state = "s_req_http_major"
  <2>1. CASE ch = "."
    <3>1. Version(p, ch) = Go(p, "s_req_first_http_minor")
      BY <1>6, <2>1 DEF Version
    <3> QED
      BY <3>1, StepKeeps
  <2>2. CASE ch # "."
    <3>1. Version(p, ch) = IF j <= 999 THEN b ELSE Fail(p, "INVALID_VERSION")
      BY <1>1, <1>2, <1>6, <2>2 DEF Version
    <3> QED
      BY <1>4, <3>1, StepKeeps
  <2> QED
    BY <2>1, <2>2
<1>7. CASE p.state = "s_req_first_http_minor"
  <2>1. Version(p, ch) = c \/ Version(p, ch) = Fail(p, "INVALID_VERSION")
    BY <1>1, <1>3, <1>7 DEF Version
  <2> QED
    BY <1>4, <2>1, StepKeeps
<1>8. CASE p.state = "s_req_http_minor"
  <2>1. CASE ch = "CR"
    <3>1. Version(p, ch) = Go(p, "s_req_line_almost_done")
      BY <1>8, <2>1 DEF Version
    <3> QED
      BY <3>1, StepKeeps
  <2>2. CASE ch = "LF"
    <3>1. Version(p, ch) = Go(p, "s_header_field_start")
      BY <1>8, <2>2 DEF Version
    <3> QED
      BY <3>1, StepKeeps
  <2>3. CASE ch # "CR" /\ ch # "LF"
    <3>1. Version(p, ch) = IF k <= 999 THEN e ELSE Fail(p, "INVALID_VERSION")
      BY <1>1, <1>3, <1>8, <2>3 DEF Version
    <3> QED
      BY <1>4, <3>1, StepKeeps
  <2> QED
    BY <2>1, <2>2, <2>3
<1> QED
  BY <1>5, <1>6, <1>7, <1>8 DEF VersionStates

\* the spaces before the url,
LEMMA SpacesKeeps ==
  ASSUME NEW p, Flagged(p), NEW ch, NEW i
  PROVE  Keeps(p, s_req_spaces_before_url(p, ch, i))
BY StepKeeps, UrlByteKeeps DEF s_req_spaces_before_url, Keeps

\* and the callbacks for the headers and the request keep it too.
LEMMA MessageKeeps ==
  ASSUME NEW p, Flagged(p)
  PROVE  Keeps(p, MessageComplete(p)) /\ Keeps(p, on_headers_complete(p))
<1>1. PICK s, rs : s = NEW_MESSAGE(p) /\ rs = Append(p.requests, Request(p))
  OBVIOUS
<1>2. PICK q : q = [p EXCEPT !.state = s, !.requests = rs]
  OBVIOUS
<1>3. Keeps(p, q)
  BY <1>2 DEF Keeps, Flagged
<1>4. MessageComplete(p) = q
  BY <1>1, <1>2 DEF MessageComplete
<1> QED
  BY <1>3, <1>4, StepKeeps DEF on_headers_complete

\* s_headers_done: an upgrade leaves http_parser_execute().
LEMMA HeadersDoneLeads ==
  ASSUME NEW p, Flagged(p), p.upgrade \in BOOLEAN
  PROVE  Led(s_headers_done(p))
<1>1. PICK q : q = [p EXCEPT !.nread = 0]
  OBVIOUS
<1>2. Keeps(p, q) /\ Flagged(q)
  BY <1>1 DEF Keeps, Flagged
<1>3. PICK r : r = MessageComplete(q)
  OBVIOUS
<1>4. Keeps(q, r) /\ Flagged(r)
  BY <1>2, <1>3, MessageKeeps DEF Keeps
<1>5. CASE p.upgrade = TRUE
  <2>1. q.upgrade
    BY <1>2, <1>5 DEF Keeps
  <2>2. s_headers_done(p) = [r EXCEPT !.early = TRUE]
    BY <1>1, <1>3, <2>1 DEF s_headers_done
  <2>3. [r EXCEPT !.early = TRUE].early = TRUE
    BY <1>4 DEF Flagged
  <2> QED
    BY <2>2, <2>3 DEF Led
<1>6. CASE p.upgrade = FALSE
  <2>1. q.upgrade = FALSE /\ r.upgrade = FALSE
    BY <1>2, <1>4, <1>6 DEF Keeps
  <2>2. \/ s_headers_done(p) = Go(q, "s_chunk_size_start")
        \/ s_headers_done(p) = r
        \/ s_headers_done(p) = Go(q, "s_body_identity")
    BY <1>1, <1>3, <2>1 DEF s_headers_done
  <2>3. Keeps(q, Go(q, "s_chunk_size_start")) /\ Keeps(q, Go(q, "s_body_identity"))
    BY <1>2, StepKeeps
  <2> QED
    BY <2>1, <2>2, <2>3 DEF Keeps, Led
<1> QED
  BY <1>5, <1>6

\* s_headers_almost_done is where an upgrade is seen.
LEMMA HeadersAlmostDoneLeads ==
  ASSUME NEW p, Flagged(p), p.upgrade = FALSE, NEW ch
  PROVE  Led(s_headers_almost_done(p, ch))
<1>1. CASE ch # "LF"
  <2>1. s_headers_almost_done(p, ch) = Fail(p, "STRICT")
    BY <1>1 DEF s_headers_almost_done
  <2> QED
    BY <2>1, StepKeeps DEF Keeps, Led
<1>2. CASE ch = "LF" /\ "TRAILING" \in p.flags
  <2>1. s_headers_almost_done(p, ch) = MessageComplete(p)
    BY <1>2 DEF s_headers_almost_done
  <2> QED
    BY <2>1, MessageKeeps DEF Keeps, Led
<1>3. CASE ch = "LF" /\ "TRAILING" \notin p.flags
  <2>1. PICK u \in BOOLEAN : u = ("UPGRADE" \in p.flags \/ p.method = "CONNECT")
    OBVIOUS
  <2>2. PICK q : q = [p EXCEPT !.upgrade = u]
    OBVIOUS
  <2>3. s_headers_almost_done(p, ch) = s_headers_done(on_headers_complete(q))
    BY <1>3, <2>1, <2>2 DEF s_headers_almost_done
  <2>4. Flagged(q) /\ q.upgrade = u
    BY <2>2 DEF Flagged
  <2>5. PICK r : r = on_headers_complete(q)
    OBVIOUS
  <2>6. Flagged(r) /\ r.upgrade = u
    BY <2>4, <2>5, MessageKeeps DEF Keeps
  <2>7. Led(s_headers_done(r))
    BY <2>1, <2>6, HeadersDoneLeads
  <2> QED
    BY <2>3, <2>5, <2>7
<1> QED
  BY <1>1, <1>2, <1>3

\* An LF in its place falls through to it.
LEMMA HeaderFieldStartLeads ==
  ASSUME NEW p, Flagged(p), p.upgrade = FALSE, NEW ch, NEW i
  PROVE  Led(s_header_field_start(p, ch, i))
<1>1. PICK q, name : q = Mark(p, "header_field", i) /\ name = MatchedUpTo(<<>>, ch)
  OBVIOUS
<1>2. PICK r : r = [q EXCEPT !.state = "s_header_field", !.header_state = name]
  OBVIOUS
<1>3. Keeps(p, q)
  BY <1>1, StepKeeps
<1>4. Keeps(p, r)
  BY <1>2, <1>3 DEF Keeps, Flagged
<1>5. \/ s_header_field_start(p, ch, i) = Go(p, "s_headers_almost_done")
      \/ s_header_field_start(p, ch, i) = s_headers_almost_done(p, ch)
      \/ s_header_field_start(p, ch, i) = r
      \/ s_header_field_start(p, ch, i) = Fail(p, "INVALID_HEADER_TOKEN")
  BY <1>1, <1>2 DEF s_header_field_start
<1>6. Led(r) /\ Led(Go(p, "s_headers_almost_done")) /\ Led(Fail(p, "INVALID_HEADER_TOKEN"))
  BY <1>4, StepKeeps, KeepsLeads
<1> QED
  BY <1>5, <1>6, HeadersAlmostDoneLeads

\* The name of a header,
LEMMA HeaderFieldKeeps ==
  ASSUME NEW p, Flagged(p), NEW ch, NEW i
  PROVE  Keeps(p, s_header_field(p, ch, i))
<1>1. PICK name, j : name = Match(p.header_state, ch) /\ j = i - 1
  OBVIOUS
<1>2. PICK r : r = [p EXCEPT !.header_state = name]
  OBVIOUS
<1>3. Keeps(p, r)
  BY <1>2 DEF Keeps, Flagged
<1>4. "header_field" \in Marks
  BY DEF Marks
<1>5. \A s : Keeps(p, Callback(Go(p, s), "header_field", j))
  <2>1. TAKE s
  <2>2. PICK g : g = Go(p, s)
    OBVIOUS
  <2>3. Keeps(p, g) /\ Flagged(g)
    BY <2>2, StepKeeps DEF Keeps
  <2>4. Keeps(g, Callback(g, "header_field", j))
    BY <1>4, <2>3, CallbackKeeps
  <2> QED
    BY <2>2, <2>3, <2>4, KeepsTwice
<1>6. \/ s_header_field(p, ch, i) = r
      \/ s_header_field(p, ch, i) = Callback(Go(p, "s_header_value_discard_ws"), "header_field", j)
      \/ s_header_field(p, ch, i) = Callback(Go(p, "s_header_almost_done"), "header_field", j)
      \/ s_header_field(p, ch, i) = Callback(Go(p, "s_header_field_start"), "header_field", j)
      \/ s_header_field(p, ch, i) = Fail(p, "INVALID_HEADER_TOKEN")
  BY <1>1, <1>2 DEF s_header_field
<1> QED
  BY <1>3, <1>5, <1>6, StepKeeps

\* its value from the start,
LEMMA HeaderValueStartKeeps ==
  ASSUME NEW p, Flagged(p), NEW ch, NEW i
  PROVE  Keeps(p, s_header_value_start(p, ch, i))
<1>1. PICK x : x = Mark(p, "header_value", i)
  OBVIOUS
<1>2. PICK q, flags, length, name :
        /\ q = Go(x, "s_header_value") /\ flags = q.flags \cup {"UPGRADE"}
        /\ length = DigitValue(ch) /\ name = Begin(p.header_state, ch)
  OBVIOUS
<1>3. PICK a, b, c : /\ a = [q EXCEPT !.flags = flags, !.header_state = <<>>]
                     /\ b = [q EXCEPT !.content_length = length]
                     /\ c = [q EXCEPT !.header_state = name]
  OBVIOUS
<1>4. Keeps(p, x)
  BY <1>1, StepKeeps
<1>5. Keeps(p, q)
  BY <1>2, <1>4 DEF Keeps, Flagged, Go
<1>6. Keeps(p, a) /\ Keeps(p, b) /\ Keeps(p, c)
  BY <1>3, <1>5 DEF Keeps, Flagged
<1>7. Keeps(p, Fail(q, "INVALID_CONTENT_LENGTH"))
  BY <1>5 DEF Keeps, Flagged, Fail
<1>8. \/ s_header_value_start(p, ch, i) = a
      \/ s_header_value_start(p, ch, i) = b
      \/ s_header_value_start(p, ch, i) = c
      \/ s_header_value_start(p, ch, i) = Fail(q, "INVALID_CONTENT_LENGTH")
  BY <1>1, <1>2, <1>3 DEF s_header_value_start
<1> QED
  BY <1>6, <1>7, <1>8

\* the digits of a length,
LEMMA MoreDigitsKeeps ==
  ASSUME NEW p, Flagged(p), NEW base, NEW digit
  PROVE  Keeps(p, MoreDigits(p, base, digit))
<1>1. PICK length : length = (p.content_length * base + digit) % (ULLONG_MAX + 1)
  OBVIOUS
<1>2. PICK a : a = [p EXCEPT !.content_length = length]
  OBVIOUS
<1>3. Keeps(p, a)
  BY <1>2 DEF Keeps, Flagged
<1>4. MoreDigits(p, base, digit) = a \/ MoreDigits(p, base, digit) = Fail(p, "INVALID_CONTENT_LENGTH")
  BY <1>1, <1>2 DEF MoreDigits
<1> QED
  BY <1>3, <1>4, StepKeeps

\* the bytes of a value
LEMMA HeaderValueKeeps ==
  ASSUME NEW p, Flagged(p), NEW ch, NEW i
  PROVE  Keeps(p, s_header_value(p, ch, i))
<1>1. PICK name, j, g : /\ name = Match(p.header_state, ch) /\ j = i - 1
                        /\ g = Go(p, "s_header_almost_done")
  OBVIOUS
<1>2. PICK r : r = [p EXCEPT !.header_state = name]
  OBVIOUS
<1>3. Keeps(p, r)
  BY <1>2 DEF Keeps, Flagged
<1>4. "header_value" \in Marks /\ Keeps(p, g) /\ Flagged(g)
  BY <1>1, StepKeeps DEF Marks, Keeps
<1>5. PICK d : d = Callback(g, "header_value", j)
  OBVIOUS
<1>6. Keeps(p, d)
  BY <1>4, <1>5, CallbackKeeps, KeepsTwice
<1>7. Keeps(p, s_header_almost_done(d, ch))
  BY <1>6 DEF s_header_almost_done, Go, Fail, Keeps, Flagged
<1>8. \/ s_header_value(p, ch, i) = d
      \/ s_header_value(p, ch, i) = s_header_almost_done(d, ch)
      \/ s_header_value(p, ch, i) = p
      \/ s_header_value(p, ch, i) = MoreDigits(p, 10, DigitValue(ch))
      \/ s_header_value(p, ch, i) = Fail(p, "INVALID_CONTENT_LENGTH")
      \/ s_header_value(p, ch, i) = r
  BY <1>1, <1>2, <1>5 DEF s_header_value
<1> QED
  BY <1>3, <1>6, <1>7, <1>8, StepKeeps, MoreDigitsKeeps

\* and the spaces before it see no upgrade.
LEMMA ValueSpacesKeep ==
  ASSUME NEW p, Flagged(p), NEW ch, NEW i
  PROVE  /\ Keeps(p, s_header_almost_done(p, ch))
         /\ Keeps(p, s_header_value_discard_ws(p, ch, i))
         /\ Keeps(p, s_header_value_discard_ws_almost_done(p, ch))
BY StepKeeps, HeaderValueStartKeeps
DEF s_header_almost_done, s_header_value_discard_ws, s_header_value_discard_ws_almost_done

\* An empty value may be followed by the end of the headers.
LEMMA DiscardLwsLeads ==
  ASSUME NEW p, Flagged(p), p.upgrade = FALSE, NEW ch, NEW i
  PROVE  Led(s_header_value_discard_lws(p, ch, i))
<1>1. PICK x, j : x = Mark(p, "header_value", i) /\ j = i - 1
  OBVIOUS
<1>2. PICK g : g = Go(x, "s_header_field_start")
  OBVIOUS
<1>3. PICK d : d = Callback(g, "header_value", j)
  OBVIOUS
<1>4. Keeps(p, x)
  BY <1>1, StepKeeps
<1>5. Keeps(p, g)
  BY <1>2, <1>4 DEF Keeps, Flagged, Go
<1>6. Keeps(g, d)
  BY <1>3, <1>5, CallbackKeeps DEF Keeps, Marks
<1>7. Flagged(d) /\ d.upgrade = FALSE
  BY <1>5, <1>6 DEF Keeps
<1>8. \/ s_header_value_discard_lws(p, ch, i) = Go(p, "s_header_value_discard_ws")
      \/ s_header_value_discard_lws(p, ch, i) = s_header_field_start(d, ch, i)
  BY <1>1, <1>2, <1>3 DEF s_header_value_discard_lws
<1>9. Led(Go(p, "s_header_value_discard_ws"))
  BY StepKeeps, KeepsLeads
<1> QED
  BY <1>7, <1>8, <1>9, HeaderFieldStartLeads

\* So may the end of a value.
LEMMA ValueLwsLeads ==
  ASSUME NEW p, Flagged(p), p.upgrade = FALSE, NEW ch, NEW i
  PROVE  Led(s_header_value_lws(p, ch, i))
<1>1. CASE ch \in {"SP", "TAB"}
  BY <1>1, HeaderValueStartKeeps DEF s_header_value_lws, Keeps, Led
<1>2. CASE ch \notin {"SP", "TAB"}
  <2>1. PICK flags :
          flags = p.flags \cup
                    (CASE p.header_state = <<":", "keep", "-alive">> -> {"CONNECTION_KEEP_ALIVE"}
                       [] p.header_state = <<":", "clo", "se">>      -> {"CONNECTION_CLOSE"}
                       [] p.header_state = <<":", "chun", "ked">>    -> {"CHUNKED"}
                       [] OTHER                                      -> {})
    OBVIOUS
  <2>2. PICK q : q = [p EXCEPT !.flags = flags, !.state = "s_header_field_start"]
    OBVIOUS
  <2>3. Flagged(q) /\ q.upgrade = FALSE
    BY <2>2 DEF Flagged
  <2>4. s_header_value_lws(p, ch, i) = s_header_field_start(q, ch, i)
    BY <1>2, <2>1, <2>2 DEF s_header_value_lws
  <2> QED
    BY <2>3, <2>4, HeaderFieldStartLeads
<1> QED
  BY <1>1, <1>2

\* Chunks see no upgrade,
LEMMA ChunksKeep ==
  ASSUME NEW p, Flagged(p), p.content_length \in Nat, NEW ch, NEW i
  PROVE  /\ Keeps(p, s_chunk_size_start(p, ch))
         /\ Keeps(p, s_chunk_size(p, ch))
         /\ Keeps(p, s_chunk_parameters(p, ch))
         /\ Keeps(p, s_chunk_size_almost_done(p, ch))
         /\ Keeps(p, s_chunk_data_almost_done(p, ch, i))
         /\ Keeps(p, s_chunk_data_done(p, ch))
<1>1. Keeps(p, s_chunk_size_start(p, ch))
  <2>1. PICK length : length = Unhex(ch)
    OBVIOUS
  <2>2. PICK a : a = [p EXCEPT !.content_length = length, !.state = "s_chunk_size"]
    OBVIOUS
  <2>3. Keeps(p, a)
    BY <2>2 DEF Keeps, Flagged
  <2> QED
    BY <2>1, <2>2, <2>3, StepKeeps DEF s_chunk_size_start
<1>2. Keeps(p, s_chunk_size(p, ch)) /\ Keeps(p, s_chunk_parameters(p, ch))
  <2>1. \/ s_chunk_size(p, ch) = Go(p, "s_chunk_size_almost_done")
        \/ s_chunk_size(p, ch) = Go(p, "s_chunk_parameters")
        \/ s_chunk_size(p, ch) = MoreDigits(p, 16, Unhex(ch))
        \/ s_chunk_size(p, ch) = Fail(p, "INVALID_CHUNK_SIZE")
    BY DEF s_chunk_size
  <2> QED
    BY <2>1, StepKeeps, MoreDigitsKeeps DEF s_chunk_parameters
<1>3. Keeps(p, s_chunk_size_almost_done(p, ch))
  <2>1. PICK q, flags : q = [p EXCEPT !.nread = 0] /\ flags = q.flags \cup {"TRAILING"}
    OBVIOUS
  <2>2. PICK a : a = [q EXCEPT !.flags = flags, !.state = "s_header_field_start"]
    OBVIOUS
  <2>3. Keeps(p, q)
    BY <2>1 DEF Keeps, Flagged
  <2>4. Keeps(p, a) /\ Keeps(p, Go(q, "s_chunk_data"))
    BY <2>2, <2>3 DEF Keeps, Flagged, Go
  <2>5. CASE ch # "LF"
    BY <2>5, StepKeeps DEF s_chunk_size_almost_done
  <2>6. CASE ch = "LF" /\ p.content_length = 0
    BY <2>1, <2>2, <2>4, <2>6 DEF s_chunk_size_almost_done
  <2>7. CASE ch = "LF" /\ p.content_length > 0
    BY <2>1, <2>4, <2>7 DEF s_chunk_size_almost_done
  <2> QED
    BY <2>5, <2>6, <2>7
<1>4. Keeps(p, s_chunk_data_almost_done(p, ch, i))
  <2>1. PICK g, j : g = Go(p, "s_chunk_data_done") /\ j = i - 1
    OBVIOUS
  <2>2. Keeps(p, g) /\ Flagged(g)
    BY <2>1, StepKeeps DEF Keeps
  <2>3. Keeps(p, Callback(g, "body", j))
    BY <2>2, CallbackKeeps, KeepsTwice DEF Marks
  <2> QED
    BY <2>1, <2>3, StepKeeps DEF s_chunk_data_almost_done
<1>5. Keeps(p, s_chunk_data_done(p, ch))
  BY DEF s_chunk_data_done, Keeps, Flagged, Fail
<1> QED
  BY <1>1, <1>2, <1>3, <1>4, <1>5

\* nor do the bytes of a body.
LEMMA BodyKeeps ==
  ASSUME NEW p, Flagged(p), NEW i
  PROVE  Keeps(p, s_body_identity(p, i)) /\ Keeps(p, s_chunk_data(p, i))
<1>1. PICK x : x = Mark(p, "body", i)
  OBVIOUS
<1>2. PICK length : length = x.content_length - 1
  OBVIOUS
<1>3. PICK q : q = [x EXCEPT !.content_length = length]
  OBVIOUS
<1>4. Keeps(p, x)
  BY <1>1, StepKeeps
<1>5. Keeps(p, q) /\ Flagged(q)
  BY <1>3, <1>4 DEF Keeps, Flagged
<1>6. PICK d : d = Callback(q, "body", i)
  OBVIOUS
<1>7. Keeps(p, d)
  BY <1>5, <1>6, CallbackKeeps, KeepsTwice DEF Marks
<1>8. Keeps(p, MessageComplete(d))
  BY <1>7, MessageKeeps DEF Keeps
<1>9. Keeps(p, Go(q, "s_chunk_data_almost_done"))
  BY <1>5 DEF Keeps, Flagged, Go
<1>10. s_body_identity(p, i) = MessageComplete(d) \/ s_body_identity(p, i) = q
  BY <1>1, <1>2, <1>3, <1>6 DEF s_body_identity
<1>11. s_chunk_data(p, i) = Go(q, "s_chunk_data_almost_done") \/ s_chunk_data(p, i) = q
  BY <1>1, <1>2, <1>3 DEF s_chunk_data
<1> QED
  BY <1>5, <1>8, <1>9, <1>10, <1>11

-----------------------------------------------------------------------------
\* One pass of the loop.

\* switch (parser->state): the request line,
LEMMA SwitchRequestLine ==
  ASSUME NEW p, NEW ch, NEW i
  PROVE  /\ p.state = "s_dead" => Switch(p, ch, i) = s_dead(p, ch)
         /\ p.state = "s_start_req" => Switch(p, ch, i) = s_start_req(p, ch)
         /\ p.state = "s_req_method" => Switch(p, ch, i) = s_req_method(p, ch)
         /\ p.state = "s_req_spaces_before_url" =>
              Switch(p, ch, i) = s_req_spaces_before_url(p, ch, i)
         /\ p.state = "s_req_http_start" => Switch(p, ch, i) = s_req_http_start(p, ch)
         /\ p.state \in Constants => Switch(p, ch, i) = Constant(p, ch)
         /\ p.state \in VersionStates => Switch(p, ch, i) = Version(p, ch)
         /\ p.state = "s_req_line_almost_done" => Switch(p, ch, i) = s_req_line_almost_done(p, ch)
BY DEF Switch, Query, Constants, VersionStates

\* the url,
LEMMA SwitchUrl ==
  ASSUME NEW p, NEW ch, NEW i, p.state \in UrlStates
  PROVE  Switch(p, ch, i) =
           IF p.state \in {"s_req_schema", "s_req_schema_slash", "s_req_schema_slash_slash",
                           "s_req_server_start"}
           THEN UrlByte(p, ch, p.state) ELSE UrlOrEnd(p, ch, i)
BY DEF Switch, Query, UrlStates, Server

\* the headers,
LEMMA SwitchHeaders ==
  ASSUME NEW p, NEW ch, NEW i
  PROVE  /\ p.state = "s_header_field_start" => Switch(p, ch, i) = s_header_field_start(p, ch, i)
         /\ p.state = "s_header_field" => Switch(p, ch, i) = s_header_field(p, ch, i)
         /\ p.state = "s_header_value_discard_ws" =>
              Switch(p, ch, i) = s_header_value_discard_ws(p, ch, i)
         /\ p.state = "s_header_value_discard_ws_almost_done" =>
              Switch(p, ch, i) = s_header_value_discard_ws_almost_done(p, ch)
         /\ p.state = "s_header_value_discard_lws" =>
              Switch(p, ch, i) = s_header_value_discard_lws(p, ch, i)
         /\ p.state = "s_header_value" => Switch(p, ch, i) = s_header_value(p, ch, i)
         /\ p.state = "s_header_almost_done" => Switch(p, ch, i) = s_header_almost_done(p, ch)
         /\ p.state = "s_header_value_lws" => Switch(p, ch, i) = s_header_value_lws(p, ch, i)
         /\ p.state = "s_headers_almost_done" => Switch(p, ch, i) = s_headers_almost_done(p, ch)
BY DEF Switch, Query

\* the body.
LEMMA SwitchBody ==
  ASSUME NEW p, NEW ch, NEW i
  PROVE  /\ p.state = "s_body_identity" => Switch(p, ch, i) = s_body_identity(p, i)
         /\ p.state = "s_chunk_size_start" => Switch(p, ch, i) = s_chunk_size_start(p, ch)
         /\ p.state = "s_chunk_size" => Switch(p, ch, i) = s_chunk_size(p, ch)
         /\ p.state = "s_chunk_parameters" => Switch(p, ch, i) = s_chunk_parameters(p, ch)
         /\ p.state = "s_chunk_size_almost_done" =>
              Switch(p, ch, i) = s_chunk_size_almost_done(p, ch)
         /\ p.state = "s_chunk_data" => Switch(p, ch, i) = s_chunk_data(p, i)
         /\ p.state = "s_chunk_data_almost_done" =>
              Switch(p, ch, i) = s_chunk_data_almost_done(p, ch, i)
         /\ p.state = "s_chunk_data_done" => Switch(p, ch, i) = s_chunk_data_done(p, ch)
BY DEF Switch, Query

\* One byte when nothing is open: the parser is good again.
LEMMA PlainStep ==
  ASSUME NEW p, NEW n \in Nat, NEW ch, Plain(p, n), p.state \in PlainStates,
         source.bytes \in Seq(STRING), n + 1 <= Len(source.bytes)
  PROVE  Good(Switch(p, ch, n + 1), n + 1)
<1>1. PICK m \in Nat : m = n + 1
  OBVIOUS
<1>2. Plain(p, m)
  BY <1>1, PlainLater
<1>3. CASE p.state \in {"s_dead", "s_start_req", "s_req_method", "s_req_http_start",
                        "s_req_line_almost_done"}
  <2>1. p.state = "s_dead" => Good(Switch(p, ch, m), m)
    BY <1>2, SwitchRequestLine, DeadGood
  <2>2. p.state = "s_start_req" => Good(Switch(p, ch, m), m)
    BY <1>2, SwitchRequestLine, StartReqGood
  <2>3. p.state = "s_req_method" => Good(Switch(p, ch, m), m)
    BY <1>2, SwitchRequestLine, MethodGood
  <2>4. p.state = "s_req_http_start" => Good(Switch(p, ch, m), m)
    BY <1>2, SwitchRequestLine, HttpStartGood
  <2>5. p.state = "s_req_line_almost_done" => Good(Switch(p, ch, m), m)
    BY <1>2, SwitchRequestLine, LineDoneGood
  <2> QED
    BY <1>1, <1>3, <2>1, <2>2, <2>3, <2>4, <2>5
<1>4. CASE p.state \in Constants
  BY <1>1, <1>2, <1>4, SwitchRequestLine, ConstantGood
<1>5. CASE p.state \in VersionStates
  BY <1>1, <1>2, <1>5, SwitchRequestLine, VersionGood
<1>6. CASE p.state = "s_req_spaces_before_url"
  BY <1>6, SwitchRequestLine, SpacesGood
<1>7. CASE p.state \in {"s_header_field_start", "s_header_value_discard_ws",
                        "s_header_value_discard_lws", "s_header_value_lws"}
  <2>1. p.state = "s_header_field_start" => Good(Switch(p, ch, n + 1), n + 1)
    BY SwitchHeaders, HeaderFieldStartGood
  <2>2. p.state = "s_header_value_discard_ws" => Good(Switch(p, ch, n + 1), n + 1)
    BY SwitchHeaders, DiscardWsGood
  <2>3. p.state = "s_header_value_discard_lws" => Good(Switch(p, ch, n + 1), n + 1)
    BY SwitchHeaders, DiscardLwsGood
  <2>4. p.state = "s_header_value_lws" => Good(Switch(p, ch, n + 1), n + 1)
    BY SwitchHeaders, ValueLwsGood
  <2> QED
    BY <1>7, <2>1, <2>2, <2>3, <2>4
<1>8. CASE p.state \in {"s_header_value_discard_ws_almost_done", "s_header_almost_done",
                        "s_headers_almost_done"}
  <2>1. p.state = "s_header_value_discard_ws_almost_done" => Good(Switch(p, ch, m), m)
    BY <1>2, SwitchHeaders, DiscardWsAlmostDoneGood
  <2>2. p.state = "s_header_almost_done" => Good(Switch(p, ch, m), m)
    BY <1>2, SwitchHeaders, HeaderAlmostDoneGood
  <2>3. p.state = "s_headers_almost_done" => Good(Switch(p, ch, m), m)
    BY <1>2, SwitchHeaders, HeadersAlmostDoneGood
  <2> QED
    BY <1>1, <1>8, <2>1, <2>2, <2>3
<1>9. CASE p.state \in {"s_chunk_size_start", "s_chunk_size", "s_chunk_parameters",
                        "s_chunk_size_almost_done", "s_chunk_data_done"}
  <2>1. p.state = "s_chunk_size_start" => Good(Switch(p, ch, m), m)
    BY <1>2, SwitchBody, ChunkSizeStartGood
  <2>2. p.state = "s_chunk_size" => Good(Switch(p, ch, m), m)
    BY <1>2, SwitchBody, ChunkSizeGood
  <2>3. p.state = "s_chunk_parameters" => Good(Switch(p, ch, m), m)
    BY <1>2, SwitchBody, ChunkParametersGood
  <2>4. p.state = "s_chunk_size_almost_done" => Good(Switch(p, ch, m), m)
    BY <1>2, SwitchBody, ChunkSizeDoneGood
  <2>5. p.state = "s_chunk_data_done" => Good(Switch(p, ch, m), m)
    BY <1>2, SwitchBody, ChunkDataDoneGood
  <2> QED
    BY <1>1, <1>9, <2>1, <2>2, <2>3, <2>4, <2>5
<1> QED
  BY <1>3, <1>4, <1>5, <1>6, <1>7, <1>8, <1>9 DEF PlainStates

\* One byte in a text: two parsers that would be the same if the read ended before it
\* would be the same if it ended after it, and both are good again.
LEMMA PairStep ==
  ASSUME NEW c, NEW w, NEW k \in Marks, NEW n \in Nat, NEW ch, Pair(c, w, k, n),
         source.bytes \in Seq(STRING), n + 1 <= Len(source.bytes), c.state \in StatesOf(k),
         c.state \in {"s_body_identity", "s_chunk_data"} => c.content_length > 0
  PROVE  Result(Switch(c, ch, n + 1), Switch(w, ch, n + 1), n + 1)
<1>1. w.state = c.state
  BY OpenSameControl DEF Pair, SameControl
<1>2. CASE k = "url"
  <2>1. PICK from \in UrlStates : from = c.state
    BY <1>2 DEF StatesOf
  <2>2. CASE from \in {"s_req_schema", "s_req_schema_slash", "s_req_schema_slash_slash",
                       "s_req_server_start"}
    <3>1. /\ Switch(c, ch, n + 1) = UrlByte(c, ch, from)
          /\ Switch(w, ch, n + 1) = UrlByte(w, ch, from)
      BY <1>1, <2>1, <2>2, SwitchUrl
    <3> QED
      BY <1>2, <3>1, UrlBytePair
  <2>3. CASE from \notin {"s_req_schema", "s_req_schema_slash", "s_req_schema_slash_slash",
                          "s_req_server_start"}
    <3>1. /\ Switch(c, ch, n + 1) = UrlOrEnd(c, ch, n + 1)
          /\ Switch(w, ch, n + 1) = UrlOrEnd(w, ch, n + 1)
      BY <1>1, <2>1, <2>3, SwitchUrl
    <3> QED
      BY <1>2, <2>1, <3>1, UrlOrEndPair
  <2> QED
    BY <2>2, <2>3
<1>3. CASE k = "header_field"
  <2>1. c.state = "s_header_field"
    BY <1>3 DEF StatesOf
  <2>2. /\ Switch(c, ch, n + 1) = s_header_field(c, ch, n + 1)
        /\ Switch(w, ch, n + 1) = s_header_field(w, ch, n + 1)
    BY <1>1, <2>1, SwitchHeaders
  <2> QED
    BY <1>3, <2>1, <2>2, HeaderFieldPair
<1>4. CASE k = "header_value"
  <2>1. c.state = "s_header_value"
    BY <1>4 DEF StatesOf
  <2>2. /\ Switch(c, ch, n + 1) = s_header_value(c, ch, n + 1)
        /\ Switch(w, ch, n + 1) = s_header_value(w, ch, n + 1)
    BY <1>1, <2>1, SwitchHeaders
  <2> QED
    BY <1>4, <2>1, <2>2, HeaderValuePair
<1>5. CASE k = "body"
  <2>1. c.state \in {"s_body_identity", "s_chunk_data", "s_chunk_data_almost_done"}
    BY <1>5 DEF StatesOf, BodyOpen
  <2>2. CASE c.state = "s_body_identity"
    <3>1. /\ Switch(c, ch, n + 1) = s_body_identity(c, n + 1)
          /\ Switch(w, ch, n + 1) = s_body_identity(w, n + 1)
      BY <1>1, <2>2, SwitchBody
    <3> QED
      BY <1>5, <2>2, <3>1, BodyIdentityPair
  <2>3. CASE c.state = "s_chunk_data"
    <3>1. /\ Switch(c, ch, n + 1) = s_chunk_data(c, n + 1)
          /\ Switch(w, ch, n + 1) = s_chunk_data(w, n + 1)
      BY <1>1, <2>3, SwitchBody
    <3> QED
      BY <1>5, <2>3, <3>1, ChunkDataPair
  <2>4. CASE c.state = "s_chunk_data_almost_done"
    <3>1. /\ Switch(c, ch, n + 1) = s_chunk_data_almost_done(c, ch, n + 1)
          /\ Switch(w, ch, n + 1) = s_chunk_data_almost_done(w, ch, n + 1)
      BY <1>1, <2>4, SwitchBody
    <3> QED
      BY <1>5, <2>4, <3>1, ChunkEndPair
  <2> QED
    BY <2>1, <2>2, <2>3, <2>4
<1> QED
  BY <1>2, <1>3, <1>4, <1>5 DEF Marks

\* One byte: an upgrade is seen where http_parser_execute() returns.
LEMMA SwitchLeads ==
  ASSUME NEW p, NEW ch, NEW i, IsParser(p), p.upgrade = FALSE, p.state \in States
  PROVE  Led(Switch(p, ch, i))
<1>1. Flagged(p) /\ p.content_length \in Nat
  BY DEF IsParser, ParserFields, Flagged
<1>2. CASE p.state \in {"s_dead", "s_start_req", "s_req_http_start", "s_req_line_almost_done"}
                        \cup Constants
  <2>1. Keeps(p, Switch(p, ch, i))
    BY <1>1, <1>2, SwitchRequestLine, RequestLineKeeps
  <2> QED
    BY <2>1, KeepsLeads
<1>3. CASE p.state \in {"s_req_method", "s_req_spaces_before_url"} \cup VersionStates
  <2>1. Keeps(p, Switch(p, ch, i))
    BY <1>1, <1>3, SwitchRequestLine, MethodKeeps, SpacesKeeps, VersionKeeps
  <2> QED
    BY <2>1, KeepsLeads
<1>4. CASE p.state \in UrlStates
  <2>1. Keeps(p, Switch(p, ch, i))
    BY <1>1, <1>4, SwitchUrl, UrlByteKeeps, UrlOrEndKeeps
  <2> QED
    BY <2>1, KeepsLeads
<1>5. CASE p.state \in {"s_header_field", "s_header_value", "s_header_almost_done",
                        "s_header_value_discard_ws", "s_header_value_discard_ws_almost_done"}
  <2>1. Keeps(p, Switch(p, ch, i))
    BY <1>1, <1>5, SwitchHeaders, HeaderFieldKeeps, HeaderValueKeeps, ValueSpacesKeep
  <2> QED
    BY <2>1, KeepsLeads
<1>6. CASE p.state \in {"s_header_field_start", "s_header_value_discard_lws",
                        "s_header_value_lws", "s_headers_almost_done"}
  <2>1. CASE p.state = "s_header_field_start"
    <3>1. Led(s_header_field_start(p, ch, i))
      BY <1>1, HeaderFieldStartLeads
    <3> QED
      BY <2>1, <3>1, SwitchHeaders
  <2>2. CASE p.state = "s_header_value_discard_lws"
    <3>1. Led(s_header_value_discard_lws(p, ch, i))
      BY <1>1, DiscardLwsLeads
    <3> QED
      BY <2>2, <3>1, SwitchHeaders
  <2>3. CASE p.state = "s_header_value_lws"
    <3>1. Led(s_header_value_lws(p, ch, i))
      BY <1>1, ValueLwsLeads
    <3> QED
      BY <2>3, <3>1, SwitchHeaders
  <2>4. CASE p.state = "s_headers_almost_done"
    <3>1. Led(s_headers_almost_done(p, ch))
      BY <1>1, HeadersAlmostDoneLeads
    <3> QED
      BY <2>4, <3>1, SwitchHeaders
  <2> QED
    BY <1>6, <2>1, <2>2, <2>3, <2>4
<1>7. CASE p.state \in {"s_chunk_size_start", "s_chunk_size", "s_chunk_parameters",
                        "s_chunk_size_almost_done", "s_chunk_data_almost_done",
                        "s_chunk_data_done"}
  <2>1. Keeps(p, Switch(p, ch, i))
    BY <1>1, <1>7, SwitchBody, ChunksKeep
  <2> QED
    BY <2>1, KeepsLeads
<1>8. CASE p.state \in {"s_body_identity", "s_chunk_data"}
  <2>1. Keeps(p, Switch(p, ch, i))
    BY <1>1, <1>8, SwitchBody, BodyKeeps
  <2> QED
    BY <2>1, KeepsLeads
<1> QED
  BY <1>2, <1>3, <1>4, <1>5, <1>6, <1>7, <1>8 DEF States, PlainStates, BodyOpen

-----------------------------------------------------------------------------
\* http_parser_execute(), one byte.

\* A parser that goes on either has nothing open or is in one of the texts.
LEMMA GoodIs ==
  ASSUME NEW p, NEW n, Good(p, n), p.errno = "OK", p.early = FALSE
  PROVE  \/ Plain(p, n) /\ p.state \in PlainStates
         \/ \E k \in Marks : /\ Open(p, k, n) /\ p.state \in StatesOf(k)
                             /\ p.state \in {"s_body_identity", "s_chunk_data"} =>
                                  p.content_length > 0
<1>1. MarksFit(p)
  BY DEF Good
<1>2. CASE p.state \in PlainStates
  BY <1>2, GoodPlain
<1>3. CASE p.state \in UrlStates
  <2>1. "url" \in Marks /\ p.state \in StatesOf("url")
    BY <1>3 DEF Marks, StatesOf
  <2> QED
    BY <1>1, <2>1, GoodOpen DEF MarksFit
<1>4. CASE p.state \in BodyOpen
  <2>1. "body" \in Marks /\ p.state \in StatesOf("body")
    BY <1>4 DEF Marks, StatesOf
  <2> QED
    BY <1>1, <2>1, GoodOpen DEF MarksFit
<1>5. CASE p.state = "s_header_field"
  <2>1. "header_field" \in Marks /\ p.state \in StatesOf("header_field")
    BY <1>5 DEF Marks, StatesOf
  <2> QED
    BY <1>1, <2>1, GoodOpen DEF MarksFit
<1>6. CASE p.state = "s_header_value"
  <2>1. "header_value" \in Marks /\ p.state \in StatesOf("header_value")
    BY <1>6 DEF Marks, StatesOf
  <2> QED
    BY <1>1, <2>1, GoodOpen DEF MarksFit
<1> QED
  BY <1>1, <1>2, <1>3, <1>4, <1>5, <1>6 DEF MarksFit, States

\* The end of a read delivers a text and leaves everything else.
LEMMA EndReadKeeps ==
  ASSUME NEW p, NEW n \in Nat, Good(p, n), p.errno = "OK", p.early = FALSE,
         source.bytes \in Seq(STRING), n <= Len(source.bytes)
  PROVE  /\ Plain(EndRead(p, n), n)
         /\ EndRead(p, n).state = p.state
         /\ EndRead(p, n).content_length = p.content_length
         /\ EndRead(p, n).upgrade = p.upgrade
         /\ EndRead(p, n).requests = p.requests
<1>1. CASE Plain(p, n)
  BY <1>1, EndReadPlain
<1>2. ASSUME NEW k \in Marks, Open(p, k, n)
      PROVE  /\ Plain(EndRead(p, n), n)
             /\ EndRead(p, n).state = p.state
             /\ EndRead(p, n).content_length = p.content_length
             /\ EndRead(p, n).upgrade = p.upgrade
             /\ EndRead(p, n).requests = p.requests
  <2>1. PICK t, d : t = Pending(p, k, n) /\ d = Delivered(p, k, t, Unmarked)
    OBVIOUS
  <2>2. EndRead(p, n) = d /\ Plain(EndRead(p, n), n)
    BY <1>2, <2>1, EndReadOpen
  <2>3. IsParser(p)
    BY <1>2 DEF Open, Bounded
  <2>4. /\ d.state = p.state /\ d.content_length = p.content_length
        /\ d.upgrade = p.upgrade /\ d.requests = p.requests
    BY <2>1, <2>3, DeliveredKeeps
  <2> QED
    BY <2>2, <2>4
<1> QED
  BY <1>1, <1>2, GoodIs

\* The parser after the byte is counted.
Counted(p) == IF p.state \in BodyStates THEN p ELSE [p EXCEPT !.nread = @ + 1]

\* Counting a byte of the header opens nothing.
LEMMA CountedPlain ==
  ASSUME NEW p, NEW n, Plain(p, n)
  PROVE  Plain(Counted(p), n) /\ Counted(p).state = p.state
<1>1. PICK r : r = p.nread + 1
  OBVIOUS
<1>2. PICK q : q = [p EXCEPT !.nread = r]
  OBVIOUS
<1>3. IsParser(q) /\ q.mark = p.mark /\ q.errno = p.errno /\ q.early = p.early
      /\ q.state = p.state
  BY <1>2 DEF Plain, Bounded, IsParser, ParserFields
<1>4. Plain(q, n)
  BY <1>3, PlainAlike
<1>5. Counted(p) = p \/ Counted(p) = q
  BY <1>1, <1>2 DEF Counted
<1> QED
  BY <1>3, <1>4, <1>5

\* It is counted by both.
LEMMA CountedPair ==
  ASSUME NEW c, NEW w, NEW k \in Marks, NEW n \in Nat, Pair(c, w, k, n),
         source.bytes \in Seq(STRING), n <= Len(source.bytes)
  PROVE  /\ Pair(Counted(c), Counted(w), k, n)
         /\ Counted(c).state = c.state /\ Counted(w).state = c.state
         /\ Counted(c).content_length = c.content_length
         /\ Counted(c).nread = Counted(w).nread
<1>1. SameControl(c, w) /\ IsParser(c) /\ IsParser(w) /\ c.content_length \in Nat
  BY OpenSameControl, PairParsers DEF Pair
<1>2. CASE c.state \in BodyStates
  BY <1>1, <1>2 DEF SameControl, Counted
<1>3. CASE c.state \notin BodyStates
  <2>1. PICK s, name, flags, length, nread, major, minor :
          /\ s = c.state /\ name = c.header_state /\ flags = c.flags
          /\ length = c.content_length /\ nread = c.nread + 1
          /\ major = c.major /\ minor = c.minor
    OBVIOUS
  <2>2. PICK a, b : /\ a = Control(c, s, name, flags, length, nread, major, minor)
                    /\ b = Control(w, s, name, flags, length, nread, major, minor)
    OBVIOUS
  <2>3. a = [c EXCEPT !.nread = nread]
    BY <1>1, <2>1, <2>2 DEF Control, IsParser, ParserFields
  <2>4. b = [w EXCEPT !.nread = nread]
    <3>1. /\ s = w.state /\ name = w.header_state /\ flags = w.flags
          /\ length = w.content_length /\ major = w.major /\ minor = w.minor
      BY <1>1, <2>1 DEF SameControl
    <3> QED
      BY <1>1, <3>1, <2>2 DEF Control, IsParser, ParserFields
  <2>5. nread = w.nread + 1 /\ w.state \notin BodyStates
    BY <1>1, <1>3, <2>1 DEF SameControl
  <2>6. Counted(c) = a
    BY <1>3, <2>1, <2>3 DEF Counted
  <2>7. Counted(w) = b
    BY <2>4, <2>5 DEF Counted
  <2>8. length \in Nat
    BY <1>1, <2>1
  <2>9. /\ Pair(a, b, k, n) /\ a.state = s /\ a.content_length = length /\ b.state = s
    BY <2>2, <2>8, PairControl
  <2>10. a.nread = nread /\ b.nread = nread
    BY <1>1, <2>3, <2>4 DEF IsParser, ParserFields
  <2> QED
    BY <2>1, <2>6, <2>7, <2>9, <2>10
<1> QED
  BY <1>2, <1>3

\* http_parser_execute(): the byte is counted, is one too many for a header, or goes to the
\* switch.
LEMMA ExecuteIs ==
  ASSUME NEW p, NEW ch, NEW i, p.errno = "OK", p.early = FALSE
  PROVE  Execute(p, ch, i) =
           IF Counted(p).state \notin BodyStates /\ Counted(p).nread > MaxHeader
           THEN Fail(Counted(p), "HEADER_OVERFLOW") ELSE Switch(Counted(p), ch, i)
<1>1. PICK q : q = Counted(p)
  OBVIOUS
<1>2. Execute(p, ch, i) =
        IF q.state \notin BodyStates /\ q.nread > MaxHeader
        THEN Fail(q, "HEADER_OVERFLOW") ELSE Switch(q, ch, i)
  BY <1>1 DEF Execute, Counted
<1> QED
  BY <1>1, <1>2

\* One byte of http_parser_execute() for two parsers that would be the same if the read
\* ended before it.
LEMMA ExecuteResult ==
  ASSUME NEW c, NEW w, NEW n \in Nat, NEW ch, Good(c, n), Good(w, n),
         c.errno = "OK", w.errno = "OK", c.early = FALSE, w.early = FALSE,
         EndRead(c, n) = EndRead(w, n),
         source.bytes \in Seq(STRING), n + 1 <= Len(source.bytes)
  PROVE  Result(Execute(c, ch, n + 1), Execute(w, ch, n + 1), n + 1)
<1>1. PICK m \in Nat : m = n + 1
  OBVIOUS
<1>2. n <= Len(source.bytes)
  OBVIOUS
<1>3. w.state = c.state
  <2>1. EndRead(c, n).state = c.state
    BY <1>2, EndReadKeeps
  <2>2. EndRead(w, n).state = w.state
    BY <1>2, EndReadKeeps
  <2> QED
    BY <2>1, <2>2
<1>4. CASE Plain(c, n) /\ c.state \in PlainStates
  <2>1. Plain(w, n)
    BY <1>3, <1>4, GoodPlain
  <2>2. w = c
    BY <1>4, <2>1, EndReadPlain
  <2>3. PICK q : q = Counted(c)
    OBVIOUS
  <2>4. Plain(q, n) /\ q.state \in PlainStates
    BY <1>4, <2>3, CountedPlain
  <2>5. Good(Switch(q, ch, n + 1), n + 1)
    BY <2>4, PlainStep
  <2>6. Good(Fail(q, "HEADER_OVERFLOW"), m)
    BY <1>1, <2>4, PlainLater, PlainFail
  <2>7. \/ Execute(c, ch, n + 1) = Switch(q, ch, n + 1)
        \/ Execute(c, ch, n + 1) = Fail(q, "HEADER_OVERFLOW")
    BY <2>3, ExecuteIs
  <2>8. Good(Execute(c, ch, n + 1), n + 1)
    BY <1>1, <2>5, <2>6, <2>7
  <2> QED
    BY <2>2, <2>8, ResultOfOne
<1>5. ASSUME NEW k \in Marks, Open(c, k, n), c.state \in StatesOf(k),
             c.state \in {"s_body_identity", "s_chunk_data"} => c.content_length > 0
      PROVE  Result(Execute(c, ch, n + 1), Execute(w, ch, n + 1), n + 1)
  <2>1. Open(w, k, n)
    BY <1>3, <1>5, GoodOpen
  <2>2. Pair(c, w, k, n)
    BY <1>5, <2>1 DEF Pair
  <2>3. PICK a, b : a = Counted(c) /\ b = Counted(w)
    OBVIOUS
  <2>4. /\ Pair(a, b, k, n) /\ a.state = c.state /\ b.state = c.state
        /\ a.content_length = c.content_length /\ a.nread = b.nread
    BY <1>2, <2>2, <2>3, CountedPair
  <2>5. Result(Switch(a, ch, n + 1), Switch(b, ch, n + 1), n + 1)
    BY <1>5, <2>4, PairStep
  <2>6. Result(Fail(a, "HEADER_OVERFLOW"), Fail(b, "HEADER_OVERFLOW"), n + 1)
    BY <2>4, PairFails
  <2>7. Execute(c, ch, n + 1) = IF a.state \notin BodyStates /\ a.nread > MaxHeader
                                THEN Fail(a, "HEADER_OVERFLOW") ELSE Switch(a, ch, n + 1)
    BY <2>3, ExecuteIs
  <2>8. Execute(w, ch, n + 1) = IF b.state \notin BodyStates /\ b.nread > MaxHeader
                                THEN Fail(b, "HEADER_OVERFLOW") ELSE Switch(b, ch, n + 1)
    BY <2>3, ExecuteIs
  <2> QED
    BY <2>4, <2>5, <2>6, <2>7, <2>8
<1>6. \/ Plain(c, n) /\ c.state \in PlainStates
      \/ \E k \in Marks : /\ Open(c, k, n) /\ c.state \in StatesOf(k)
                          /\ c.state \in {"s_body_identity", "s_chunk_data"} =>
                               c.content_length > 0
  BY GoodIs
<1> QED
  BY <1>4, <1>5, <1>6

\* Marks that lie within a read lie within a longer one.
LEMMA BoundedLater ==
  ASSUME NEW p, NEW n \in Nat, Bounded(p, n)
  PROVE  Bounded(p, n + 1)
<1>1. \A k \in Marks : p.mark[k] \in Nat /\ p.mark[k] <= n + 1
  BY DEF Bounded, IsParser
<1>2. \A k \in Marks : p.mark[k] <= (n + 1) + 1
  BY <1>1
<1> QED
  BY <1>2 DEF Bounded

\* Every byte leaves a good parser good.
LEMMA ExecuteGood ==
  ASSUME NEW p, NEW n \in Nat, NEW ch, Good(p, n),
         source.bytes \in Seq(STRING), n + 1 <= Len(source.bytes)
  PROVE  Good(Execute(p, ch, n + 1), n + 1)
<1>1. PICK m \in Nat : m = n + 1
  OBVIOUS
<1>2. Bounded(p, m)
  BY <1>1, BoundedLater DEF Good
<1>3. CASE p.errno # "OK"
  <2>1. Execute(p, ch, m) = p
    BY <1>3 DEF Execute
  <2> QED
    BY <1>1, <1>2, <1>3, <2>1 DEF Good
<1>4. CASE p.errno = "OK" /\ p.early = TRUE
  <2>1. Execute(p, ch, m) = Fail(p, "UNREAD")
    BY <1>4 DEF Execute
  <2> QED
    BY <1>1, <1>2, <2>1, FailGood
<1>5. CASE p.errno = "OK" /\ p.early = FALSE
  BY <1>5, ExecuteResult DEF Result
<1>6. p.early \in BOOLEAN
  BY <1>2 DEF Bounded, IsParser
<1> QED
  BY <1>3, <1>4, <1>5, <1>6

\* A parser that has left the read has nothing open.
LEMMA EndReadEarly ==
  ASSUME NEW p, NEW n, Good(p, n), p.errno = "OK", p.early = TRUE
  PROVE  /\ EndRead(p, n) = [p EXCEPT !.early = FALSE]
         /\ Plain(EndRead(p, n), n)
         /\ EndRead(p, n).state = p.state /\ p.state \in PlainStates
         /\ EndRead(p, n).upgrade = TRUE
         /\ EndRead(p, n).requests = p.requests
<1>1. p.state \in PlainStates /\ p.mark = Unmarked
  BY DEF Good, MarksFit
<1>2. \A k \in Marks : Callback(p, k, n) = p
  BY <1>1, NoCallback DEF Unmarked
<1>3. PICK q : q = [p EXCEPT !.early = FALSE]
  OBVIOUS
<1>4. EndRead(p, n) = q
  BY <1>2, <1>3 DEF EndRead, Marks
<1>5. IsParser(p) /\ p.upgrade = TRUE
  BY DEF Good, Bounded, IsParser
<1>6. /\ IsParser(q) /\ q.mark = p.mark /\ q.errno = p.errno /\ q.early = FALSE
      /\ q.state = p.state /\ q.upgrade = p.upgrade /\ q.requests = p.requests
  BY <1>3, <1>5 DEF IsParser, ParserFields
<1>7. Plain(q, n)
  BY <1>1, <1>6 DEF Good, Bounded, Plain
<1> QED
  BY <1>1, <1>3, <1>4, <1>5, <1>6, <1>7

\* After an error nothing is parsed.
LEMMA FailedStays ==
  ASSUME NEW p, NEW ch, NEW i, p.errno # "OK"
  PROVE  Execute(p, ch, i) = p /\ EndRead(p, i) = p /\ BeginRead(p, i) = p /\ Done(p) = p
BY DEF Execute, EndRead, BeginRead, Done

\* Unless an upgrade has ended the read, the two parsers would be the same at its end.
Agree(c, w, n) == w.upgrade = TRUE \/ Alike(c, w, n)
\* After an upgrade the rest of the read is not parsed.
Leaves(w) == w.upgrade = TRUE /\ w.errno = "OK" => w.early = TRUE

\* The parser that reads all at once parses nothing after an upgrade.
LEMMA ExecuteLeaves ==
  ASSUME NEW w, NEW n \in Nat, NEW ch, NEW i, Good(w, n), Leaves(w)
  PROVE  /\ Leaves(Execute(w, ch, i))
         /\ w.upgrade = TRUE => Execute(w, ch, i).upgrade = TRUE
<1>1. IsParser(w) /\ w.upgrade \in BOOLEAN /\ w.early \in BOOLEAN
  BY DEF Good, Bounded, IsParser
<1>2. CASE w.errno # "OK"
  BY <1>2, FailedStays
<1>3. CASE w.errno = "OK" /\ w.early = TRUE
  <2>1. Execute(w, ch, i) = Fail(w, "UNREAD")
    BY <1>3 DEF Execute
  <2> QED
    BY <1>1, <2>1, FailKeeps DEF Leaves
<1>4. CASE w.errno = "OK" /\ w.early = FALSE
  <2>1. w.upgrade = FALSE
    BY <1>1, <1>4 DEF Leaves
  <2>2. PICK r : r = w.nread + 1
    OBVIOUS
  <2>3. PICK a : a = [w EXCEPT !.nread = r]
    OBVIOUS
  <2>4. IsParser(a) /\ a.upgrade = FALSE /\ a.state = w.state
    BY <1>1, <2>1, <2>3 DEF IsParser, ParserFields
  <2>5. PICK q : q = Counted(w)
    OBVIOUS
  <2>6. q = w \/ q = a
    BY <2>2, <2>3, <2>5 DEF Counted
  <2>7. IsParser(q) /\ q.upgrade = FALSE /\ q.state \in States
    BY <1>1, <1>4, <2>1, <2>4, <2>6 DEF Good, MarksFit
  <2>8. Led(Switch(q, ch, i))
    BY <2>7, SwitchLeads
  <2>9. \/ Execute(w, ch, i) = Switch(q, ch, i)
        \/ Execute(w, ch, i) = Fail(q, "HEADER_OVERFLOW")
    BY <1>4, <2>5, ExecuteIs
  <2>10. Leaves(Switch(q, ch, i))
    BY <2>8 DEF Led, Leaves
  <2>11. Leaves(Fail(q, "HEADER_OVERFLOW"))
    BY <2>7, FailKeeps DEF Leaves
  <2> QED
    BY <2>1, <2>9, <2>10, <2>11
<1> QED
  BY <1>1, <1>2, <1>3, <1>4

\* One byte, whatever errors or upgrades came before it.
LEMMA ExecuteAgree ==
  ASSUME NEW c, NEW w, NEW n \in Nat, NEW ch, Good(c, n), Good(w, n), Leaves(w),
         Agree(c, w, n), source.bytes \in Seq(STRING), n + 1 <= Len(source.bytes)
  PROVE  Agree(Execute(c, ch, n + 1), Execute(w, ch, n + 1), n + 1)
<1>1. /\ w.upgrade \in BOOLEAN /\ w.early \in BOOLEAN /\ c.early \in BOOLEAN
      /\ w.early => w.upgrade
  BY DEF Good, Bounded, IsParser
<1>2. n <= Len(source.bytes)
  OBVIOUS
<1>3. CASE w.upgrade = TRUE
  BY <1>3, ExecuteLeaves DEF Agree
<1>4. CASE w.upgrade = FALSE /\ c.errno # "OK"
  <2>1. Alike(c, w, n) /\ w.errno # "OK"
    BY <1>4 DEF Agree, Alike
  <2>2. Alike(c, w, n + 1)
    BY <1>4, <2>1 DEF Alike
  <2>3. Execute(c, ch, n + 1) = c /\ Execute(w, ch, n + 1) = w
    BY <1>4, <2>1, FailedStays
  <2> QED
    BY <2>2, <2>3 DEF Agree
<1>5. CASE w.upgrade = FALSE /\ c.errno = "OK"
  <2>1. Alike(c, w, n) /\ w.errno = "OK" /\ EndRead(c, n) = EndRead(w, n)
    BY <1>5 DEF Agree, Alike
  <2>2. w.early = FALSE
    BY <1>1, <1>5
  <2>3. EndRead(w, n).upgrade = FALSE
    BY <1>2, <1>5, <2>1, <2>2, EndReadKeeps
  <2>4. c.early = FALSE
    BY <1>1, <1>5, <2>1, <2>3, EndReadEarly
  <2>5. Result(Execute(c, ch, n + 1), Execute(w, ch, n + 1), n + 1)
    BY <1>5, <2>1, <2>2, <2>4, ExecuteResult
  <2> QED
    BY <2>5 DEF Result, Agree
<1> QED
  BY <1>1, <1>3, <1>4, <1>5

-----------------------------------------------------------------------------
\* Where a read ends and the next one begins.

\* The mark a new read sets in the middle of a text is before its first byte: to deliver it
\* at once would deliver nothing.
LEMMA NothingMore ==
  ASSUME NEW e, NEW k \in {"url", "header_field", "header_value"}, NEW n \in Nat, Plain(e, n),
         source.bytes \in Seq(STRING), n + 1 <= Len(source.bytes),
         k = "header_field" => e.building = 1, k = "header_value" => e.building = 0,
         NEW q, q = Mark(e, k, n + 1)
  PROVE  EndRead(q, n) = e
<1>1. PICK m \in Nat : m = n + 1
  OBVIOUS
<1>2. k \in Marks /\ n <= Len(source.bytes) /\ IsParser(e) /\ e.mark = Unmarked
  BY DEF Marks, Plain, Bounded
<1>3. Open(q, k, n) /\ q.mark[k] = m
  BY <1>1, <1>2, MarkPlain
<1>4. Pending(q, k, n) = <<>>
  BY <1>1, <1>2, <1>3, SubSeqProperties DEF Pending
<1>5. EndRead(q, n) = Delivered(q, k, <<>>, Unmarked)
  BY <1>2, <1>3, <1>4, EndReadOpen
<1>6. PICK marks \in [Marks -> Nat] : marks = q.mark
  BY <1>3 DEF Open, Bounded, IsParser
<1>7. q = [e EXCEPT !.mark = marks]
  <2>1. q = [e EXCEPT !.mark[k] = m]
    BY <1>1, <1>2 DEF Mark, Unmarked
  <2>2. [e.mark EXCEPT ![k] = m] = marks
    BY <1>2, <1>6, <2>1 DEF IsParser, ParserFields
  <2> QED
    BY <2>1, <2>2
<1>8. /\ q.raw_url = e.raw_url /\ q.header_field = e.header_field
      /\ q.header_value = e.header_value /\ q.building = e.building
      /\ q.headers = e.headers /\ q.body = e.body
  BY <1>2, <1>7 DEF IsParser, ParserFields
<1>9. /\ e.raw_url \o <<>> = e.raw_url /\ e.header_field \o <<>> = e.header_field
      /\ e.header_value \o <<>> = e.header_value
  BY <1>2 DEF IsParser
<1>10. PICK url, field, value, building, headers, body :
         /\ url = e.raw_url /\ field = e.header_field /\ value = e.header_value
         /\ building = e.building /\ headers = e.headers /\ body = e.body
  OBVIOUS
<1>11. /\ UrlAfter(q, k, <<>>) = url /\ FieldAfter(q, k, <<>>) = field
       /\ ValueAfter(q, k, <<>>) = value /\ BuildingAfter(q, k) = building
       /\ HeadersAfter(q, k) = headers /\ BodyAfter(q, k, <<>>) = body
  BY <1>8, <1>9, <1>10 DEF UrlAfter, FieldAfter, ValueAfter, BuildingAfter, HeadersAfter,
                           BodyAfter, Flushes
<1>12. EndRead(q, n) = Put(q, url, field, value, building, headers, body, Unmarked)
  BY <1>5, <1>11 DEF Delivered
<1>13. Put([e EXCEPT !.mark = marks], url, field, value, building, headers, body, Unmarked) = e
  BY <1>2, <1>10 DEF Put, IsParser, ParserFields
<1> QED
  BY <1>7, <1>12, <1>13

\* A read that ends and one that begins leave the parser what it was at the end of the first.
LEMMA NextRead ==
  ASSUME NEW c, NEW n \in Nat, Good(c, n), source.bytes \in Seq(STRING),
         n + 1 <= Len(source.bytes), NEW q, q = BeginRead(EndRead(c, n), n + 1)
  PROVE  /\ Good(q, n) /\ q.errno = c.errno /\ q.requests = c.requests
         /\ c.errno = "OK" => EndRead(q, n) = EndRead(c, n)
<1>1. n <= Len(source.bytes) /\ c.early \in BOOLEAN
  BY DEF Good, Bounded, IsParser
<1>2. CASE c.errno # "OK"
  <2>1. EndRead(c, n) = c /\ BeginRead(c, n + 1) = c
    BY <1>2, FailedStays
  <2> QED
    BY <1>2, <2>1
<1>3. ASSUME NEW e, e = EndRead(c, n), Plain(e, n), e.state \in PlainStates,
             e.requests = c.requests, c.errno = "OK"
      PROVE  /\ Good(q, n) /\ q.errno = c.errno /\ q.requests = c.requests
             /\ c.errno = "OK" => EndRead(q, n) = EndRead(c, n)
  <2>1. q = e
    BY <1>3, StatesApart DEF BeginRead
  <2>2. Good(e, n) /\ EndRead(e, n) = e
    BY <1>3, StayGood, EndReadPlain
  <2> QED
    BY <1>3, <2>1, <2>2 DEF Plain
<1>4. CASE c.errno = "OK" /\ c.early = TRUE
  BY <1>3, <1>4, EndReadEarly
<1>5. CASE c.errno = "OK" /\ c.early = FALSE
  <2>1. PICK e : e = EndRead(c, n)
    OBVIOUS
  <2>2. /\ Plain(e, n) /\ e.state = c.state /\ e.content_length = c.content_length
        /\ e.requests = c.requests
    BY <1>1, <1>5, <2>1, EndReadKeeps
  <2>3. CASE c.state \in PlainStates
    BY <1>3, <1>5, <2>1, <2>2, <2>3
  <2>4. ASSUME NEW k \in {"url", "header_field", "header_value"}, Open(c, k, n),
               c.state \in StatesOf(k)
        PROVE  /\ Good(q, n) /\ q.errno = c.errno /\ q.requests = c.requests
               /\ c.errno = "OK" => EndRead(q, n) = EndRead(c, n)
    <3>1. k \in Marks
      BY DEF Marks
    <3>0. "s_header_field" \notin UrlStates /\ "s_header_value" \notin UrlStates
      BY DEF UrlStates, Server, Query
    <3>2. q = Mark(e, k, n + 1)
      <4>1. CASE k = "url"
        BY <2>1, <2>2, <2>4, <4>1, StatesApart DEF StatesOf, BeginRead, Plain
      <4>2. CASE k = "header_field"
        BY <2>1, <2>2, <2>4, <3>0, <4>2 DEF StatesOf, BeginRead, Plain
      <4>3. CASE k = "header_value"
        BY <2>1, <2>2, <2>4, <3>0, <4>3 DEF StatesOf, BeginRead, Plain
      <4> QED
        BY <4>1, <4>2, <4>3
    <3>3. Open(q, k, n) /\ q.state = e.state
      BY <2>2, <3>1, <3>2, MarkPlain
    <3>4. c.state \notin {"s_body_identity", "s_chunk_data"}
      BY <2>4, StatesApart DEF StatesOf, BodyOpen
    <3>5. Good(q, n)
      BY <2>2, <2>4, <3>1, <3>3, <3>4, OpenGood
    <3>6. PICK t, d : t = Pending(c, k, n) /\ d = Delivered(c, k, t, Unmarked)
      OBVIOUS
    <3>7. e = d
      BY <1>1, <2>1, <2>4, <3>1, <3>6, EndReadOpen
    <3>8. d.building = BuildingAfter(c, k)
      BY <2>4, <3>6, DeliveredFields DEF Open, Bounded
    <3>9. (k = "header_field" => e.building = 1) /\ (k = "header_value" => e.building = 0)
      BY <3>7, <3>8 DEF BuildingAfter
    <3>10. EndRead(q, n) = e
      BY <2>2, <3>2, <3>9, NothingMore
    <3>11. PICK u, f : u = Pending(q, k, n) /\ f = Delivered(q, k, u, Unmarked)
      OBVIOUS
    <3>i. IsParser(q)
      BY <3>3 DEF Open, Bounded
    <3>r. f.requests = q.requests
      BY <3>i, <3>11, DeliveredKeeps
    <3>12. EndRead(q, n) = f /\ f.requests = q.requests
      BY <1>1, <3>1, <3>3, <3>11, <3>r, EndReadOpen
    <3> QED
      BY <1>5, <2>1, <2>2, <3>3, <3>5, <3>10, <3>12 DEF Open
  <2>5. ASSUME Open(c, "body", n), c.state \in StatesOf("body"),
               c.state \in {"s_body_identity", "s_chunk_data"} => c.content_length > 0
        PROVE  /\ Good(q, n) /\ q.errno = c.errno /\ q.requests = c.requests
               /\ c.errno = "OK" => EndRead(q, n) = EndRead(c, n)
    <3>1. c.state \in BodyOpen
      BY <2>5 DEF StatesOf
    <3>2. q = e
      BY <2>1, <2>2, <3>1, StatesApart DEF BeginRead
    <3>3. e.mark = Only("body", e.mark["body"])
      BY <2>2 DEF Plain, Unmarked, Only, Marks
    <3>4. Open(e, "body", n) /\ "body" \in Marks
      BY <2>2, <3>3 DEF Open, Plain, Marks
    <3>5. Good(e, n)
      BY <2>2, <2>5, <3>4, OpenGood
    <3>6. EndRead(e, n) = e
      BY <2>2, EndReadPlain
    <3> QED
      BY <1>5, <2>1, <2>2, <3>2, <3>5, <3>6 DEF Plain
  <2>6. \/ Plain(c, n) /\ c.state \in PlainStates
        \/ \E k \in Marks : /\ Open(c, k, n) /\ c.state \in StatesOf(k)
                            /\ c.state \in {"s_body_identity", "s_chunk_data"} =>
                                 c.content_length > 0
    BY <1>5, GoodIs
  <2> QED
    BY <2>3, <2>4, <2>5, <2>6 DEF Marks
<1> QED
  BY <1>1, <1>2, <1>4, <1>5

\* So it still agrees with the parser that goes on.
LEMMA NextReadAgree ==
  ASSUME NEW c, NEW w, NEW n \in Nat, Good(c, n), Agree(c, w, n),
         source.bytes \in Seq(STRING), n + 1 <= Len(source.bytes)
  PROVE  /\ Good(BeginRead(EndRead(c, n), n + 1), n)
         /\ Agree(BeginRead(EndRead(c, n), n + 1), w, n)
<1>1. PICK q : q = BeginRead(EndRead(c, n), n + 1)
  OBVIOUS
<1>2. /\ Good(q, n) /\ q.errno = c.errno /\ q.requests = c.requests
      /\ c.errno = "OK" => EndRead(q, n) = EndRead(c, n)
  BY <1>1, NextRead
<1>3. Agree(q, w, n)
  BY <1>2 DEF Agree, Alike
<1> QED
  BY <1>1, <1>2, <1>3

\* The last call of http_parser_execute(), with no bytes, sees no upgrade.
LEMMA DoneKeeps ==
  ASSUME NEW p, IsParser(p)
  PROVE  Done(p).upgrade = p.upgrade
BY FailKeeps DEF Done

\* At the end of the stream both parsers end alike.
LEMMA CloseAgree ==
  ASSUME NEW c, NEW w, NEW n \in Nat, Good(c, n), Good(w, n), Agree(c, w, n), c.errno = "OK",
         source.bytes \in Seq(STRING), n = Len(source.bytes)
  PROVE  \/ Done(EndRead(w, n)).upgrade = TRUE
         \/ Done(EndRead(c, n)) = Done(EndRead(w, n))
<1>1. IsParser(w) /\ w.early \in BOOLEAN
  BY DEF Good, Bounded, IsParser
<1>2. CASE w.upgrade = TRUE
  <2>1. EndRead(w, n).upgrade = TRUE /\ IsParser(EndRead(w, n))
    <3>1. CASE w.errno # "OK"
      BY <1>1, <1>2, <3>1, FailedStays
    <3>2. CASE w.errno = "OK" /\ w.early = TRUE
      BY <3>2, EndReadEarly DEF Plain, Bounded
    <3>3. CASE w.errno = "OK" /\ w.early = FALSE
      <4>1. n <= Len(source.bytes)
        OBVIOUS
      <4> QED
        BY <1>2, <3>3, <4>1, EndReadKeeps DEF Plain, Bounded
    <3> QED
      BY <1>1, <3>1, <3>2, <3>3
  <2> QED
    BY <2>1, DoneKeeps
<1>3. CASE w.upgrade # TRUE
  BY <1>3 DEF Agree, Alike
<1> QED
  BY <1>2, <1>3

-----------------------------------------------------------------------------
\* The specification.

\* The inductive invariant.  SameAsOneRead alone does not say which text is open, and so not
\* what the next byte or the end of the read delivers.
ParsersInv ==
  /\ source \in Streams
  /\ pos \in Nat
  /\ SameAsOneRead
  /\ pos <= Len(source.bytes) =>
       Good(cut, pos) /\ Good(whole, pos) /\ Leaves(whole)

\* The end of a read of the stream b: EndRead for a stream that is a parameter.
CallbackIn(b, p, k, last) ==
  IF p.mark[k] = 0 THEN p
  ELSE [Deliver(p, k, SubSeq(b, p.mark[k], last)) EXCEPT !.mark[k] = 0]
EndReadIn(b, p, last) ==
  IF p.errno # "OK" THEN p
  ELSE [CallbackIn(b, CallbackIn(b, CallbackIn(b, CallbackIn(b, p, "header_field", last),
                                               "header_value", last), "url", last), "body", last)
          EXCEPT !.early = FALSE]

\* It is that operation.
LEMMA EndReadIs ==
  ASSUME NEW p, NEW last
  PROVE  EndRead(p, last) = EndReadIn(source.bytes, p, last)
BY DEF EndRead, EndReadIn, Callback, CallbackIn

\* In the next state, too.
LEMMA EndReadNext ==
  /\ EndRead(cut, pos)' = EndReadIn(source.bytes', cut', pos')
  /\ EndRead(whole, pos)' = EndReadIn(source.bytes', whole', pos')
BY DEF EndRead, EndReadIn, Callback, CallbackIn

\* While bytes are left SameAsOneRead says that the parsers agree.
LEMMA SameIsAgree ==
  ASSUME whole.upgrade \in BOOLEAN, pos <= Len(source.bytes), SameAsOneRead
  PROVE  Agree(cut, whole, pos)
BY DEF SameAsOneRead, Agree, Alike

\* In the next state, if the stream stays.
LEMMA SameNext ==
  ASSUME source' = source, NEW n, pos' = n, Agree(cut', whole', n)
  PROVE  SameAsOneRead'
<1>1. CASE whole'.upgrade = TRUE
  BY <1>1 DEF SameAsOneRead
<1>2. CASE Alike(cut', whole', n)
  <2>1. /\ EndRead(cut', n) = EndReadIn(source.bytes', cut', pos')
        /\ EndRead(whole', n) = EndReadIn(source.bytes', whole', pos')
    BY EndReadIs
  <2>2. cut'.errno = "OK" => EndRead(cut, pos)' = EndRead(whole, pos)'
    BY <1>2, <2>1, EndReadNext DEF Alike
  <2> QED
    BY <1>2, <2>2 DEF Alike, SameAsOneRead
<1> QED
  BY <1>1, <1>2 DEF Agree

\* http_parser_init(): a parser that has read nothing.
LEMMA NewParserGood == Good(NewParser, 0) /\ NewParser.upgrade = FALSE
<1>1. PICK p : p = NewParser
  OBVIOUS
<1>2. <<>> \in Seq(STRING) /\ "s_start_req" \in PlainStates /\ Unmarked \in [Marks -> Nat]
  BY UnmarkedTyped DEF PlainStates
<1>3. /\ p.mark = Unmarked /\ p.raw_url = <<>> /\ p.header_field = <<>>
      /\ p.header_value = <<>> /\ p.body = <<>> /\ p.building = 0 /\ p.content_length = 0
      /\ p.early = FALSE /\ p.upgrade = FALSE /\ p.errno = "OK" /\ p.state = "s_start_req"
  BY <1>1 DEF NewParser, Unmarked
<1>4. p = [f \in ParserFields |-> p[f]]
  BY <1>1 DEF NewParser, ParserFields
<1>5. IsParser(p)
  <2>1. p.mark \in [Marks -> Nat]
    BY <1>2, <1>3
  <2>2. /\ p.raw_url \in Seq(STRING) /\ p.header_field \in Seq(STRING)
        /\ p.header_value \in Seq(STRING) /\ p.body \in Seq(STRING)
    BY <1>2, <1>3
  <2>3. p.building \in {0, 1} /\ p.content_length \in Nat
    BY <1>3
  <2>4. p.early \in BOOLEAN /\ p.upgrade \in BOOLEAN
    BY <1>3, Zenon
  <2> QED
    BY <1>4, <2>1, <2>2, <2>3, <2>4 DEF IsParser
<1>6. Plain(p, 0)
  BY <1>3, <1>5 DEF Plain, Bounded, Unmarked
<1> QED
  BY <1>1, <1>2, <1>3, <1>6, StayGood

\* The first state.
LEMMA InvInit == ParserInit => ParsersInv
<1> SUFFICES ASSUME ParserInit PROVE ParsersInv
  OBVIOUS
<1>1. source \in Streams /\ pos = 0 /\ cut = NewParser /\ whole = NewParser
  BY DEF ParserInit
<1>2. Good(cut, pos) /\ Good(whole, pos) /\ whole.upgrade = FALSE
  BY <1>1, NewParserGood
<1>3. cut = whole
  BY <1>1
<1>4. SameAsOneRead
  BY <1>3 DEF SameAsOneRead
<1>5. Leaves(whole)
  BY <1>2 DEF Leaves
<1> QED
  BY <1>1, <1>2, <1>4, <1>5 DEF ParsersInv

\* A byte in the same read.
LEMMA InvFeed == ParsersInv /\ Feed => ParsersInv'
<1> SUFFICES ASSUME ParsersInv, Feed PROVE ParsersInv'
  OBVIOUS
<1>1. source.bytes \in Seq(STRING) /\ pos \in Nat /\ source' = source
  BY StreamsAssumption DEF ParsersInv, Feed
<1>2. PICK n \in Nat : n = pos
  BY <1>1
<1>3. n + 1 <= Len(source.bytes) /\ n <= Len(source.bytes) /\ pos' = n + 1
  BY <1>1, <1>2 DEF Feed
<1>g. Good(cut, n) /\ Good(whole, n) /\ Leaves(whole)
  BY <1>2, <1>3 DEF ParsersInv
<1>4. Good(cut, n) /\ Good(whole, n) /\ Leaves(whole) /\ Agree(cut, whole, n)
  BY <1>2, <1>3, <1>g, SameIsAgree DEF ParsersInv, Good, Bounded, IsParser
<1>5. PICK ch : ch = source.bytes[n + 1]
  OBVIOUS
<1>6. cut' = Execute(cut, ch, n + 1) /\ whole' = Execute(whole, ch, n + 1)
  BY <1>3, <1>5 DEF Feed
<1>7. Good(cut', n + 1) /\ Good(whole', n + 1)
  BY <1>1, <1>3, <1>4, <1>6, ExecuteGood
<1>8. Leaves(whole')
  BY <1>4, <1>6, ExecuteLeaves
<1>9. Agree(cut', whole', n + 1)
  BY <1>1, <1>3, <1>4, <1>6, ExecuteAgree
<1>11. SameAsOneRead'
  BY <1>1, <1>3, <1>9, SameNext
<1>12. Good(cut, pos)' /\ Good(whole, pos)' /\ Leaves(whole)'
  BY <1>3, <1>7, <1>8
<1>13. source' \in Streams /\ pos' \in Nat
  BY <1>1, <1>3 DEF ParsersInv
<1> QED
  BY <1>11, <1>12, <1>13 DEF ParsersInv

\* A byte in a new read: the bytes since the last cut were delivered.
LEMMA InvDeliver == ParsersInv /\ DeliverPiece => ParsersInv'
<1> SUFFICES ASSUME ParsersInv, DeliverPiece PROVE ParsersInv'
  OBVIOUS
<1>1. /\ source.bytes \in Seq(STRING) /\ pos \in Nat
      /\ source' = source /\ pos' = pos /\ whole' = whole
  BY StreamsAssumption DEF ParsersInv, DeliverPiece
<1>2. PICK n \in Nat : n = pos
  BY <1>1
<1>3. n + 1 <= Len(source.bytes) /\ n <= Len(source.bytes)
  BY <1>1, <1>2 DEF DeliverPiece
<1>g. Good(cut, n) /\ Good(whole, n) /\ Leaves(whole)
  BY <1>2, <1>3 DEF ParsersInv
<1>4. Good(cut, n) /\ Good(whole, n) /\ Leaves(whole) /\ Agree(cut, whole, n)
  BY <1>2, <1>3, <1>g, SameIsAgree DEF ParsersInv, Good, Bounded, IsParser
<1>5. cut' = BeginRead(EndRead(cut, n), n + 1)
  BY <1>2 DEF DeliverPiece
<1>6. Good(cut', n) /\ Agree(cut', whole, n)
  BY <1>1, <1>3, <1>4, <1>5, NextReadAgree
<1>8. SameAsOneRead'
  BY <1>1, <1>2, <1>6, SameNext
<1>9. Good(cut, pos)' /\ Good(whole, pos)' /\ Leaves(whole)'
  BY <1>1, <1>2, <1>4, <1>6
<1>10. source' \in Streams /\ pos' \in Nat
  BY <1>1 DEF ParsersInv
<1> QED
  BY <1>8, <1>9, <1>10 DEF ParsersInv

\* The end of the stream.
LEMMA InvClose == ParsersInv /\ Close => ParsersInv'
<1> SUFFICES ASSUME ParsersInv, Close PROVE ParsersInv'
  OBVIOUS
<1>1. /\ source.bytes \in Seq(STRING) /\ pos \in Nat /\ source' = source
      /\ cut.errno = "OK"
  BY StreamsAssumption DEF ParsersInv, Close
<1>2. PICK n \in Nat : n = pos
  BY <1>1
<1>3. n = Len(source.bytes) /\ pos' = n + 1 /\ ~(pos' <= Len(source'.bytes))
  BY <1>1, <1>2 DEF Close
<1>g. Good(cut, n) /\ Good(whole, n) /\ n <= Len(source.bytes)
  BY <1>2, <1>3 DEF ParsersInv
<1>4. Good(cut, n) /\ Good(whole, n) /\ Agree(cut, whole, n)
  BY <1>2, <1>3, <1>g, SameIsAgree DEF ParsersInv, Good, Bounded, IsParser
<1>5. cut' = Done(EndRead(cut, n)) /\ whole' = Done(EndRead(whole, n))
  BY <1>2 DEF Close
<1>6. whole'.upgrade = TRUE \/ cut' = whole'
  BY <1>1, <1>3, <1>4, <1>5, CloseAgree
<1>7. SameAsOneRead'
  BY <1>3, <1>6 DEF SameAsOneRead
<1>8. source' \in Streams /\ pos' \in Nat
  BY <1>1, <1>3 DEF ParsersInv
<1> QED
  BY <1>3, <1>7, <1>8 DEF ParsersInv

\* Nothing changes.
LEMMA InvStutter == ParsersInv /\ UNCHANGED parserVars => ParsersInv'
<1> SUFFICES ASSUME ParsersInv, UNCHANGED parserVars PROVE ParsersInv'
  OBVIOUS
<1>1. source' = source /\ pos' = pos /\ cut' = cut /\ whole' = whole
  BY DEF parserVars
<1>2. /\ EndRead(cut, pos)' = EndRead(cut, pos)
      /\ EndRead(whole, pos)' = EndRead(whole, pos)
  BY <1>1, EndReadIs, EndReadNext
<1>3. SameAsOneRead'
  BY <1>1, <1>2 DEF ParsersInv, SameAsOneRead
<1>4. pos' <= Len(source'.bytes) =>
        Good(cut, pos)' /\ Good(whole, pos)' /\ Leaves(whole)'
  BY <1>1 DEF ParsersInv
<1> QED
  BY <1>1, <1>3, <1>4 DEF ParsersInv

\* http_parser_execute(): between any two bytes the marks of both parsers fit their states, and
\* if the read ended here both would have built the same, unless an upgrade ended the read.
THEOREM ParsersAgree == ParserSpec => []ParsersInv
<1>1. ParsersInv /\ [ParserNext]_parserVars => ParsersInv'
  BY InvFeed, InvDeliver, InvClose, InvStutter DEF ParserNext
<1> QED
  BY InvInit, <1>1, PTL DEF ParserSpec

\* http_parser_execute(): however a stream is cut into reads, the same requests come out of it,
\* and the same byte is rejected with the same error.
THEOREM CutAsOneRead == ParserSpec => []SameAsOneRead
<1>1. ParsersInv => SameAsOneRead
  BY DEF ParsersInv
<1> QED
  BY <1>1, ParsersAgree, PTL

\* MoreDigits, s_header_value and s_chunk_size: whatever the limit is, a digit is rejected or the
\* length is the number read so far.  It never wraps, and never becomes ULLONG_MAX, which would
\* stand for no length.
THEOREM LengthsDoNotWrap ==
  ASSUME NEW p, IsParser(p), NEW base \in {10, 16}, NEW digit \in 0 .. base - 1
  PROVE  LET q == MoreDigits(p, base, digit)
         IN  \/ q = Fail(p, "INVALID_CONTENT_LENGTH")
             \/ /\ q.content_length = p.content_length * base + digit
                /\ q.content_length < ULLONG_MAX
<1>1. PICK n \in Nat : n = p.content_length
  BY DEF IsParser
<1>2. PICK m \in Nat : m = n * base + digit
  OBVIOUS
<1>3. CASE (ULLONG_MAX - base) \div base < n
  BY <1>1, <1>3 DEF MoreDigits
<1>4. CASE ~((ULLONG_MAX - base) \div base < n)
  <2>1. n * base <= ULLONG_MAX - base
    BY <1>4, LimitAssumption
  <2>2. m < ULLONG_MAX
    BY <1>2, <2>1, LimitAssumption
  <2>3. m % (ULLONG_MAX + 1) = m
    BY <2>2, LimitAssumption
  <2>4. (p.content_length * base + digit) % (ULLONG_MAX + 1) = m
    BY <1>1, <1>2, <2>3
  <2>5. MoreDigits(p, base, digit) = [p EXCEPT !.content_length = m]
    BY <1>1, <1>4, <2>4 DEF MoreDigits
  <2>6. [p EXCEPT !.content_length = m].content_length = m
    BY DEF IsParser, ParserFields
  <2> QED
    BY <1>1, <1>2, <2>2, <2>5, <2>6
<1> QED
  BY <1>3, <1>4
=============================================================================
