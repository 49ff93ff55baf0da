----------------------------- MODULE HttpParser -----------------------------
(***************************************************************************)
(* The parser of HTTP requests: http_parser_execute() with the callbacks   *)
(* of HTTPParser, which build the request a Connection handles.            *)
(*                                                                         *)
(* A stream of bytes reaches the parser cut into reads.  Text is not       *)
(* copied byte by byte: a mark remembers where it began, and a callback    *)
(* delivers what lies between the mark and the current byte, at the latest *)
(* at the end of the read, for the marks do not survive it.                *)
(*                                                                         *)
(* The module runs two parsers over one stream: "cut" gets it in reads     *)
(* that end anywhere, "whole" in a single one.                             *)
(*                                                                         *)
(* A byte is a symbol.  The words the parser knows are of two symbols, so  *)
(* that a read may end inside them.  Only requests are modelled; nothing   *)
(* in the server parses responses.                                         *)
(***************************************************************************)
EXTENDS Integers, Sequences, FiniteSets, SequencesExt

CONSTANTS
  Streams,     \* the streams, each with what it encodes: [bytes, requests, wellFormed]
  ULLONG_MAX,  \* the largest content_length, which stands for none
  MaxHeader    \* HTTP_MAX_HEADER_SIZE

\* A stream is a sequence of bytes, and a content_length is an unsigned number.
ASSUME StreamsAssumption == \A s \in Streams : s.bytes \in Seq(STRING)
ASSUME LimitAssumption == ULLONG_MAX \in Nat

VARIABLES
  source,  \* external: the stream
  pos,     \* bytes of it parsed
  cut,     \* the parser that gets the stream in pieces
  whole    \* history: a parser that gets it at once

parserVars == <<source, pos, cut, whole>>

-----------------------------------------------------------------------------
\* Symbols.

Digits == <<"0", "1", "2", "3", "4", "5", "6", "7", "8", "9">>
IsNum(ch) == \E i \in DOMAIN Digits : Digits[i] = ch
DigitValue(ch) == (CHOOSE i \in DOMAIN Digits : Digits[i] = ch) - 1

Hex == Digits \o <<"A", "B", "C", "D", "E", "F">>
IsHex(ch) == \E i \in DOMAIN Hex : Hex[i] = ch
Unhex(ch) == (CHOOSE i \in DOMAIN Hex : Hex[i] = ch) - 1

Capitals == {"A", "B", "C", "D", "E", "F", "G", "H", "I", "K", "L", "M", "N", "O",
             "P", "Q", "R", "S", "T", "U", "V", "W", "X", "Y"}
\* Pieces of words; LOWER() makes their case irrelevant.
AlphaPieces == {"con", "nection", "tent", "transfer", "upgrade", "clo", "se", "chun",
                "ked", "keep", "name", "value"}
UrlPieces == AlphaPieces \cup {"proxy-con", "-length", "-encoding", "-alive"}

IsAlpha(ch) == ch \in Capitals \cup AlphaPieces
\* tokens[]
Token(ch) == ch \in Capitals \cup UrlPieces \cup {"*", "#", "%", "-", "."} \/ IsNum(ch)
\* normal_url_char[]
UrlChar(ch) == ch \notin {"SP", "TAB", "CR", "LF", "?", "#", "NUL"}
UserInfoChar(ch) == ch \in Capitals \cup UrlPieces \cup {"-", ".", "*", "%", ":", ";"} \/ IsNum(ch)

\* The header names and, after ":", the values the parser looks for.
Names == {<<"con", "nection">>, <<"proxy-con", "nection">>, <<"con", "tent", "-length">>,
          <<"transfer", "-encoding">>, <<"upgrade">>}
KnownValues == {<<":", "chun", "ked">>, <<":", "keep", "-alive">>, <<":", "clo", "se">>}

\* header_state is what has been matched so far; <<>> is h_general.
MatchedUpTo(m, ch) ==
  IF \E w \in Names \cup KnownValues : IsPrefix(Append(m, ch), w) THEN Append(m, ch) ELSE <<>>
Match(m, ch) == IF m = <<>> THEN <<>> ELSE MatchedUpTo(m, ch)

-----------------------------------------------------------------------------
\* The parser and the callbacks of HTTPParser.

Marks == {"url", "header_field", "header_value", "body"}

NewParser ==
  [state |-> "s_start_req", header_state |-> <<>>, mark |-> [k \in Marks |-> 0],
   nread |-> 0, flags |-> {}, content_length |-> 0, method |-> "DELETE", index |-> 0,
   major |-> 0, minor |-> 0, upgrade |-> FALSE, errno |-> "OK",
   raw_url |-> <<>>, header_field |-> <<>>, header_value |-> <<>>, building |-> 0,
   headers |-> <<>>, body |-> <<>>,
   early |-> FALSE,     \* http_parser_execute() has returned before the end of the read
   requests |-> <<>>]   \* what process_message() got

Fail(p, errno) == [p EXCEPT !.errno = errno]
Go(p, state) == [p EXCEPT !.state = state]

\* on_message_begin
Clear(p) ==
  [p EXCEPT !.raw_url = <<>>, !.header_field = <<>>, !.header_value = <<>>,
            !.building = 0, !.headers = <<>>, !.body = <<>>]

\* headers.emplace() moves the two strings out.
Emplace(p) ==
  [p EXCEPT !.headers = Append(@, <<p.header_field, p.header_value>>),
            !.header_field = <<>>, !.header_value = <<>>]

\* A header is complete when the next one begins, if it has a value.
on_header_field(p, text) ==
  IF p.building = 0
  THEN [(IF p.header_value # <<>> THEN Emplace(p) ELSE p)
          EXCEPT !.header_field = text, !.building = 1]
  ELSE [p EXCEPT !.header_field = @ \o text]

on_header_valueAssign(p, text) ==  \* mutant
  [p EXCEPT !.header_value = text, !.building = 0]

on_header_value(p, text) ==
  IF p.building = 0
  THEN [p EXCEPT !.header_value = @ \o text]
  ELSE [p EXCEPT !.header_value = text, !.building = 0]

on_headers_complete(p) == IF p.header_field # <<>> THEN Emplace(p) ELSE p

Deliver(p, k, text) ==
  CASE k = "url"          -> [p EXCEPT !.raw_url = @ \o text]
    [] k = "header_field" -> on_header_field(p, text)
    [] k = "header_value" -> on_header_value(p, text)
    [] k = "body"         -> [p EXCEPT !.body = @ \o text]

\* MARK, and CALLBACK_DATA for the text that ends at byte last.
Mark(p, k, i) == IF p.mark[k] = 0 THEN [p EXCEPT !.mark[k] = i] ELSE p
Callback(p, k, last) ==
  IF p.mark[k] = 0 THEN p
  ELSE [Deliver(p, k, SubSeq(source.bytes, p.mark[k], last)) EXCEPT !.mark[k] = 0]

\* http_should_keep_alive()
KeepAlive(p) ==
  IF p.major > 0 /\ p.minor > 0
  THEN "CONNECTION_CLOSE" \notin p.flags
  ELSE "CONNECTION_KEEP_ALIVE" \in p.flags

NEW_MESSAGE(p) == IF KeepAlive(p) THEN "s_start_req" ELSE "s_dead"

\* on_message_complete() and to_request(): the path ends at the first "?".
Request(p) ==
  LET q == SelectInSeq(p.raw_url, LAMBDA ch : ch = "?")
  IN  [method |-> p.method, raw_url |-> p.raw_url,
       url |-> IF q = 0 THEN p.raw_url ELSE SubSeq(p.raw_url, 1, q - 1),
       headers |-> p.headers, body |-> p.body]

MessageComplete(p) ==
  [p EXCEPT !.state = NEW_MESSAGE(p), !.requests = Append(@, Request(p))]

-----------------------------------------------------------------------------
\* The request line.

\* method_strings[]
MethodText ==
  [CONNECT |-> <<"C", "O", "N", "N", "E", "C", "T">>, DELETE |-> <<"D", "E", "L", "E", "T", "E">>,
   GET |-> <<"G", "E", "T">>, HEAD |-> <<"H", "E", "A", "D">>, POST |-> <<"P", "O", "S", "T">>,
   PUT |-> <<"P", "U", "T">>, OPTIONS |-> <<"O", "P", "T", "I", "O", "N", "S">>,
   TRACE |-> <<"T", "R", "A", "C", "E">>, COPY |-> <<"C", "O", "P", "Y">>,
   LOCK |-> <<"L", "O", "C", "K">>, MKCOL |-> <<"M", "K", "C", "O", "L">>,
   MOVE |-> <<"M", "O", "V", "E">>, PROPFIND |-> <<"P", "R", "O", "P", "F", "I", "N", "D">>,
   PROPPATCH |-> <<"P", "R", "O", "P", "P", "A", "T", "C", "H">>,
   SEARCH |-> <<"S", "E", "A", "R", "C", "H">>, UNLOCK |-> <<"U", "N", "L", "O", "C", "K">>,
   REPORT |-> <<"R", "E", "P", "O", "R", "T">>,
   MKACTIVITY |-> <<"M", "K", "A", "C", "T", "I", "V", "I", "T", "Y">>,
   CHECKOUT |-> <<"C", "H", "E", "C", "K", "O", "U", "T">>, MERGE |-> <<"M", "E", "R", "G", "E">>,
   MSEARCH |-> <<"M", "-", "S", "E", "A", "R", "C", "H">>, NOTIFY |-> <<"N", "O", "T", "I", "F", "Y">>,
   SUBSCRIBE |-> <<"S", "U", "B", "S", "C", "R", "I", "B", "E">>,
   UNSUBSCRIBE |-> <<"U", "N", "S", "U", "B", "S", "C", "R", "I", "B", "E">>,
   PATCH |-> <<"P", "A", "T", "C", "H">>, PURGE |-> <<"P", "U", "R", "G", "E">>,
   MKCALENDAR |-> <<"M", "K", "C", "A", "L", "E", "N", "D", "A", "R">>]

\* Where another method is taken instead: the method so far, index, the byte, the method.
Turns ==
  {<<"CONNECT", 1, "H", "CHECKOUT">>, <<"CONNECT", 2, "P", "COPY">>,
   <<"MKCOL", 1, "O", "MOVE">>, <<"MKCOL", 1, "E", "MERGE">>, <<"MKCOL", 1, "-", "MSEARCH">>,
   <<"MKCOL", 2, "A", "MKACTIVITY">>, <<"MKCOL", 3, "A", "MKCALENDAR">>,
   <<"SUBSCRIBE", 1, "E", "SEARCH">>, <<"POST", 1, "R", "PROPFIND">>, <<"POST", 1, "U", "PUT">>,
   <<"POST", 1, "A", "PATCH">>, <<"PUT", 2, "R", "PURGE">>,
   <<"UNLOCK", 2, "S", "UNSUBSCRIBE">>, <<"PROPFIND", 4, "P", "PROPPATCH">>}

Server == {"s_req_server_start", "s_req_server", "s_req_server_with_at"}
Query == {"s_req_query_string_start", "s_req_query_string"}
HttpSlash ==
  {<<"s_req_http_H", "T", "s_req_http_HT">>, <<"s_req_http_HT", "T", "s_req_http_HTT">>,
   <<"s_req_http_HTT", "P", "s_req_http_HTTP">>, <<"s_req_http_HTTP", "/", "s_req_first_http_major">>}

s_start_req(p, ch) ==
  IF ch \in {"CR", "LF"} THEN p
  ELSE LET q == [p EXCEPT !.flags = {}, !.content_length = ULLONG_MAX]
           first == {m \in {"CONNECT", "DELETE", "GET", "HEAD", "LOCK", "MKCOL", "NOTIFY",
                            "OPTIONS", "POST", "REPORT", "SUBSCRIBE", "TRACE", "UNLOCK"} :
                       MethodText[m][1] = ch}
       IN  IF first = {}
           THEN Fail(q, "INVALID_METHOD")
           ELSE [Clear(q) EXCEPT !.method = CHOOSE m \in first : TRUE, !.index = 1,
                                 !.state = "s_req_method"]

s_req_method(p, ch) ==
  LET text == MethodText[p.method]
      others == {t \in Turns : t[1] = p.method /\ t[2] = p.index /\ t[3] = ch}
      q == [p EXCEPT !.index = @ + 1]
  IN  CASE ch = "SP" /\ p.index = Len(text)             -> Go(q, "s_req_spaces_before_url")
        [] p.index < Len(text) /\ text[p.index + 1] = ch -> q
        [] others # {}                                   ->
             [q EXCEPT !.method = (CHOOSE t \in others : TRUE)[4]]
        [] OTHER                                         -> Fail(p, "INVALID_METHOD")

parse_url_char(s, ch) ==
  CASE ch \in {"SP", "CR", "LF", "TAB"}                              -> "s_dead"
    [] s = "s_req_spaces_before_url" /\ ch \in {"/", "*"}            -> "s_req_path"
    [] s = "s_req_spaces_before_url" /\ IsAlpha(ch)                  -> "s_req_schema"
    [] s = "s_req_schema" /\ IsAlpha(ch)                             -> s
    [] s = "s_req_schema" /\ ch = ":"                                -> "s_req_schema_slash"
    [] s = "s_req_schema_slash" /\ ch = "/"                          -> "s_req_schema_slash_slash"
    [] s = "s_req_schema_slash_slash" /\ ch = "/"                    -> "s_req_server_start"
    [] s \in Server /\ ch = "/"                                      -> "s_req_path"
    [] s \in Server /\ ch = "?"                                      -> "s_req_query_string_start"
    [] s \in Server \ {"s_req_server_with_at"} /\ ch = "@"           -> "s_req_server_with_at"
    [] s \in Server /\ (UserInfoChar(ch) \/ ch \in {"[", "]"})       -> "s_req_server"
    [] s = "s_req_path" /\ UrlChar(ch)                               -> s
    [] s = "s_req_path" /\ ch = "?"                                  -> "s_req_query_string_start"
    [] s \in Query /\ (UrlChar(ch) \/ ch = "?")                      -> "s_req_query_string"
    [] s \in Query \cup {"s_req_path"} /\ ch = "#"                   -> "s_req_fragment_start"
    [] s = "s_req_fragment_start" /\ (UrlChar(ch) \/ ch = "?")       -> "s_req_fragment"
    [] s = "s_req_fragment_start" /\ ch = "#"                        -> s
    [] s = "s_req_fragment" /\ (UrlChar(ch) \/ ch \in {"?", "#"})    -> s
    [] OTHER                                                         -> "s_dead"

UrlByte(p, ch, from) ==
  LET s == parse_url_char(from, ch)
  IN  IF s = "s_dead" THEN Fail(p, "INVALID_URL") ELSE Go(p, s)

s_req_spaces_before_url(p, ch, i) ==
  IF ch = "SP" THEN p
  ELSE UrlByte(Mark(p, "url", i), ch,
               IF p.method = "CONNECT" THEN "s_req_server_start" ELSE p.state)

\* In the states where a URL may end.
UrlOrEnd(p, ch, i) ==
  LET http09 == [p EXCEPT !.major = 0, !.minor = 9]
  IN  CASE ch = "SP" -> Callback(Go(p, "s_req_http_start"), "url", i - 1)
        [] ch = "CR" -> Callback(Go(http09, "s_req_line_almost_done"), "url", i - 1)
        [] ch = "LF" -> Callback(Go(http09, "s_header_field_start"), "url", i - 1)
        [] OTHER     -> UrlByte(p, ch, p.state)

s_req_http_start(p, ch) ==
  CASE ch = "H"  -> Go(p, "s_req_http_H")
    [] ch = "SP" -> p
    [] OTHER     -> Fail(p, "INVALID_CONSTANT")

\* s_req_http_H to s_req_http_HTTP
Constant(p, ch) ==
  LET next == CHOOSE n \in HttpSlash : n[1] = p.state
  IN  IF ch = next[2] THEN Go(p, next[3]) ELSE Fail(p, "STRICT")

Version(p, ch) ==
  LET number(n) == IF IsNum(ch) THEN n * 10 + DigitValue(ch) ELSE 1000
      invalid == Fail(p, "INVALID_VERSION")
  IN  CASE p.state = "s_req_first_http_major" ->
             IF IsNum(ch) /\ ch # "0"
             THEN [p EXCEPT !.major = DigitValue(ch), !.state = "s_req_http_major"] ELSE invalid
        [] p.state = "s_req_http_major" /\ ch = "." -> Go(p, "s_req_first_http_minor")
        [] p.state = "s_req_http_major" /\ ch # "." ->
             IF number(p.major) <= 999 THEN [p EXCEPT !.major = number(@)] ELSE invalid
        [] p.state = "s_req_first_http_minor" ->
             IF IsNum(ch)
             THEN [p EXCEPT !.minor = DigitValue(ch), !.state = "s_req_http_minor"] ELSE invalid
        [] p.state = "s_req_http_minor" /\ ch = "CR" -> Go(p, "s_req_line_almost_done")
        [] p.state = "s_req_http_minor" /\ ch = "LF" -> Go(p, "s_header_field_start")
        [] OTHER ->
             IF number(p.minor) <= 999 THEN [p EXCEPT !.minor = number(@)] ELSE invalid

s_req_line_almost_done(p, ch) ==
  IF ch = "LF" THEN Go(p, "s_header_field_start") ELSE Fail(p, "LF_EXPECTED")

-----------------------------------------------------------------------------
\* The end of the headers.

s_headers_done(p) ==
  LET q == [p EXCEPT !.nread = 0]
  IN  CASE q.upgrade               -> [MessageComplete(q) EXCEPT !.early = TRUE]
        [] ~q.upgrade /\ "CHUNKED" \in q.flags -> Go(q, "s_chunk_size_start")
        [] ~q.upgrade /\ "CHUNKED" \notin q.flags ->
             IF q.content_length \in {0, ULLONG_MAX}
             THEN MessageComplete(q) ELSE Go(q, "s_body_identity")

s_headers_almost_done(p, ch) ==
  CASE ch # "LF" -> Fail(p, "STRICT")
    [] ch = "LF" /\ "TRAILING" \in p.flags -> MessageComplete(p)
    [] ch = "LF" /\ "TRAILING" \notin p.flags ->
         s_headers_done(on_headers_complete(
           [p EXCEPT !.upgrade = "UPGRADE" \in p.flags \/ p.method = "CONNECT"]))

-----------------------------------------------------------------------------
\* Headers.  Where the code goes back to reexecute_byte, the next state's
\* operator gets the same byte.

s_header_field_start(p, ch, i) ==
  CASE ch = "CR" -> Go(p, "s_headers_almost_done")
    [] ch = "LF" -> s_headers_almost_done(p, ch)
    [] Token(ch) -> [Mark(p, "header_field", i) EXCEPT !.state = "s_header_field",
                                                     !.header_state = MatchedUpTo(<<>>, ch)]
    [] OTHER     -> Fail(p, "INVALID_HEADER_TOKEN")

s_header_field(p, ch, i) ==
  LET done(state) == Callback(Go(p, state), "header_field", i - 1)
  IN  CASE Token(ch) -> [p EXCEPT !.header_state = Match(@, ch)]
        [] ch = ":"  -> done("s_header_value_discard_ws")
        [] ch = "CR" -> done("s_header_almost_done")
        [] ch = "LF" -> done("s_header_field_start")
        [] OTHER     -> Fail(p, "INVALID_HEADER_TOKEN")

\* What is looked for in the value of a header with this name.
ContentLength == <<"con", "tent", "-length">>
Begin(name, ch) ==
  CASE name = <<"transfer", "-encoding">> /\ ch = "chun" -> <<":", "chun">>
    [] name \in {<<"con", "nection">>, <<"proxy-con", "nection">>} /\ ch \in {"keep", "clo"} ->
         <<":", ch>>
    [] OTHER -> <<>>

s_header_value_start(p, ch, i) ==
  LET q == Go(Mark(p, "header_value", i), "s_header_value")
  IN  CASE p.header_state = <<"upgrade">> ->
             [q EXCEPT !.flags = @ \cup {"UPGRADE"}, !.header_state = <<>>]
        [] p.header_state = ContentLength ->
             IF IsNum(ch) THEN [q EXCEPT !.content_length = DigitValue(ch)]
             ELSE Fail(q, "INVALID_CONTENT_LENGTH")
        [] OTHER -> [q EXCEPT !.header_state = Begin(p.header_state, ch)]

MoreDigitsWrap(p, base, digit) ==  \* mutant
  [p EXCEPT !.content_length = (@ * base + digit) % (ULLONG_MAX + 1)]

\* One more digit, unless the number might become as large as ULLONG_MAX.
MoreDigits(p, base, digit) ==
  IF (ULLONG_MAX - base) \div base < p.content_length
  THEN Fail(p, "INVALID_CONTENT_LENGTH")
  ELSE [p EXCEPT !.content_length = (@ * base + digit) % (ULLONG_MAX + 1)]

s_header_almost_done(p, ch) ==
  IF ch = "LF" THEN Go(p, "s_header_value_lws") ELSE Fail(p, "STRICT")

s_header_value(p, ch, i) ==
  LET done == Callback(Go(p, "s_header_almost_done"), "header_value", i - 1)
  IN  CASE ch = "CR" -> done
        [] ch = "LF" -> s_header_almost_done(done, ch)
        [] ch \notin {"CR", "LF"} /\ p.header_state = ContentLength ->
             IF ch = "SP" THEN p
             ELSE IF IsNum(ch) THEN MoreDigits(p, 10, DigitValue(ch))
             ELSE Fail(p, "INVALID_CONTENT_LENGTH")
        [] ch \notin {"CR", "LF"} /\ p.header_state # ContentLength ->
             IF p.header_state \in KnownValues /\ ch = "SP" THEN p
             ELSE [p EXCEPT !.header_state = Match(@, ch)]

s_header_value_discard_ws(p, ch, i) ==
  CASE ch \in {"SP", "TAB"} -> p
    [] ch = "CR" -> Go(p, "s_header_value_discard_ws_almost_done")
    [] ch = "LF" -> Go(p, "s_header_value_discard_lws")
    [] OTHER     -> s_header_value_start(p, ch, i)

s_header_value_discard_ws_almost_done(p, ch) ==
  IF ch = "LF" THEN Go(p, "s_header_value_discard_lws") ELSE Fail(p, "STRICT")

\* The line after an empty value.
s_header_value_discard_lws(p, ch, i) ==
  IF ch \in {"SP", "TAB"}
  THEN Go(p, "s_header_value_discard_ws")
  ELSE s_header_field_start(
         Callback(Go(Mark(p, "header_value", i), "s_header_field_start"), "header_value", i - 1),
         ch, i)

\* The line after a value: a space continues it.
s_header_value_lws(p, ch, i) ==
  LET flag == CASE p.header_state = <<":", "keep", "-alive">> -> {"CONNECTION_KEEP_ALIVE"}
                [] p.header_state = <<":", "clo", "se">>      -> {"CONNECTION_CLOSE"}
                [] p.header_state = <<":", "chun", "ked">>    -> {"CHUNKED"}
                [] OTHER                                      -> {}
  IN  IF ch \in {"SP", "TAB"}
      THEN s_header_value_start(p, ch, i)
      ELSE s_header_field_start([p EXCEPT !.flags = @ \cup flag,
                                          !.state = "s_header_field_start"], ch, i)

-----------------------------------------------------------------------------
\* The body.  The code takes the bytes of a read together, here they come one by one.

s_body_identity(p, i) ==
  LET q == [Mark(p, "body", i) EXCEPT !.content_length = @ - 1]
  IN  IF q.content_length = 0 THEN MessageComplete(Callback(q, "body", i)) ELSE q

s_chunk_size_start(p, ch) ==
  IF IsHex(ch) THEN [p EXCEPT !.content_length = Unhex(ch), !.state = "s_chunk_size"]
  ELSE Fail(p, "INVALID_CHUNK_SIZE")

s_chunk_size(p, ch) ==
  CASE ch = "CR" -> Go(p, "s_chunk_size_almost_done")
    [] ch \in {";", "SP"} -> Go(p, "s_chunk_parameters")
    [] IsHex(ch) -> MoreDigits(p, 16, Unhex(ch))
    [] OTHER -> Fail(p, "INVALID_CHUNK_SIZE")

s_chunk_parameters(p, ch) == IF ch = "CR" THEN Go(p, "s_chunk_size_almost_done") ELSE p

s_chunk_size_almost_done(p, ch) ==
  LET q == [p EXCEPT !.nread = 0]
  IN  CASE ch # "LF" -> Fail(p, "STRICT")
        [] ch = "LF" /\ p.content_length = 0 ->
             [q EXCEPT !.flags = @ \cup {"TRAILING"}, !.state = "s_header_field_start"]
        [] ch = "LF" /\ p.content_length > 0 -> Go(q, "s_chunk_data")

s_chunk_data(p, i) ==
  LET q == [Mark(p, "body", i) EXCEPT !.content_length = @ - 1]
  IN  IF q.content_length = 0 THEN Go(q, "s_chunk_data_almost_done") ELSE q

s_chunk_data_almost_done(p, ch, i) ==
  IF ch = "CR" THEN Callback(Go(p, "s_chunk_data_done"), "body", i - 1) ELSE Fail(p, "STRICT")

s_chunk_data_done(p, ch) ==
  IF ch = "LF" THEN [p EXCEPT !.nread = 0, !.state = "s_chunk_size_start"] ELSE Fail(p, "STRICT")

\* After a message that closed the connection.
s_dead(p, ch) == IF ch \in {"CR", "LF"} THEN p ELSE Fail(p, "CLOSED_CONNECTION")

-----------------------------------------------------------------------------
\* http_parser_execute()

UrlStates == Server \cup Query \cup
  {"s_req_path", "s_req_schema", "s_req_schema_slash", "s_req_schema_slash_slash",
   "s_req_fragment_start", "s_req_fragment"}
BodyStates == {"s_chunk_data", "s_chunk_data_almost_done", "s_chunk_data_done", "s_body_identity"}

\* One pass of the loop, byte i.
Switch(p, ch, i) ==
  LET s == p.state
  IN  CASE s = "s_dead"                    -> s_dead(p, ch)
        [] s = "s_start_req"               -> s_start_req(p, ch)
        [] s = "s_req_method"              -> s_req_method(p, ch)
        [] s = "s_req_spaces_before_url"   -> s_req_spaces_before_url(p, ch, i)
        [] s \in {"s_req_schema", "s_req_schema_slash", "s_req_schema_slash_slash",
                  "s_req_server_start"}    -> UrlByte(p, ch, s)
        [] s \in {"s_req_server", "s_req_server_with_at", "s_req_path", "s_req_fragment_start",
                  "s_req_fragment"} \cup Query -> UrlOrEnd(p, ch, i)
        [] s = "s_req_http_start"          -> s_req_http_start(p, ch)
        [] s \in {"s_req_http_H", "s_req_http_HT", "s_req_http_HTT", "s_req_http_HTTP"} ->
             Constant(p, ch)
        [] s \in {"s_req_first_http_major", "s_req_http_major", "s_req_first_http_minor",
                  "s_req_http_minor"}      -> Version(p, ch)
        [] s = "s_req_line_almost_done"    -> s_req_line_almost_done(p, ch)
        [] s = "s_header_field_start"      -> s_header_field_start(p, ch, i)
        [] s = "s_header_field"            -> s_header_field(p, ch, i)
        [] s = "s_header_value_discard_ws" -> s_header_value_discard_ws(p, ch, i)
        [] s = "s_header_value_discard_ws_almost_done" ->
             s_header_value_discard_ws_almost_done(p, ch)
        [] s = "s_header_value_discard_lws" -> s_header_value_discard_lws(p, ch, i)
        [] s = "s_header_value"            -> s_header_value(p, ch, i)
        [] s = "s_header_almost_done"      -> s_header_almost_done(p, ch)
        [] s = "s_header_value_lws"        -> s_header_value_lws(p, ch, i)
        [] s = "s_headers_almost_done"     -> s_headers_almost_done(p, ch)
        [] s = "s_body_identity"           -> s_body_identity(p, i)
        [] s = "s_chunk_size_start"        -> s_chunk_size_start(p, ch)
        [] s = "s_chunk_size"              -> s_chunk_size(p, ch)
        [] s = "s_chunk_parameters"        -> s_chunk_parameters(p, ch)
        [] s = "s_chunk_size_almost_done"  -> s_chunk_size_almost_done(p, ch)
        [] s = "s_chunk_data"              -> s_chunk_data(p, i)
        [] s = "s_chunk_data_almost_done"  -> s_chunk_data_almost_done(p, ch, i)
        [] s = "s_chunk_data_done"         -> s_chunk_data_done(p, ch)

\* The size of the headers is counted before the byte is looked at.
Execute(p, ch, i) ==
  LET q == IF p.state \in BodyStates THEN p ELSE [p EXCEPT !.nread = @ + 1]
  IN  CASE p.errno # "OK"                     -> p
        [] p.errno = "OK" /\ p.early          -> Fail(p, "UNREAD")
        [] p.errno = "OK" /\ ~p.early /\ q.state \notin BodyStates /\ q.nread > MaxHeader ->
             Fail(q, "HEADER_OVERFLOW")
        [] OTHER                              -> Switch(q, ch, i)

\* The end of a read: the text so far is delivered ...
EndRead(p, last) ==
  IF p.errno # "OK" THEN p
  ELSE [Callback(Callback(Callback(Callback(p, "header_field", last), "header_value", last),
                          "url", last), "body", last)
          EXCEPT !.early = FALSE]

BeginReadNoUrl(p, first) ==  \* mutant
  CASE p.errno = "OK" /\ p.state = "s_header_field" -> Mark(p, "header_field", first)
    [] p.errno = "OK" /\ p.state = "s_header_value" -> Mark(p, "header_value", first)
    [] OTHER                                        -> p

\* ... and where the next one begins, the text goes on.
BeginRead(p, first) ==
  CASE p.errno = "OK" /\ p.state = "s_header_field" -> Mark(p, "header_field", first)
    [] p.errno = "OK" /\ p.state = "s_header_value" -> Mark(p, "header_value", first)
    [] p.errno = "OK" /\ p.state \in UrlStates      -> Mark(p, "url", first)
    [] OTHER                                        -> p

\* done(): no bytes, at the end of the connection.
Done(p) ==
  IF p.errno = "OK" /\ p.state \notin {"s_dead", "s_start_req"}
  THEN Fail(p, "INVALID_EOF_STATE") ELSE p

-----------------------------------------------------------------------------
ParserInit ==
  /\ source \in Streams
  /\ pos = 0
  /\ cut = NewParser
  /\ whole = NewParser

\* feed() goes on with the next byte.
Feed ==
  /\ pos < Len(source.bytes)
  /\ cut.errno = "OK"
  /\ pos' = pos + 1
  /\ cut' = Execute(cut, source.bytes[pos'], pos')
  /\ whole' = Execute(whole, source.bytes[pos'], pos')
  /\ UNCHANGED source

\* Here a read ends.
DeliverPiece ==
  /\ pos \in 1 .. Len(source.bytes) - 1
  /\ cut' = BeginRead(EndRead(cut, pos), pos + 1)
  /\ UNCHANGED <<source, pos, whole>>

\* The connection ends.
Close ==
  /\ pos = Len(source.bytes)
  /\ cut.errno = "OK"
  /\ pos' = pos + 1
  /\ cut' = Done(EndRead(cut, pos))
  /\ whole' = Done(EndRead(whole, pos))
  /\ UNCHANGED source

ParserNext == Feed \/ DeliverPiece \/ Close

ParserSpec == ParserInit /\ [][ParserNext]_parserVars

-----------------------------------------------------------------------------
\* http_parser_execute(): however a stream is cut into reads, the same requests
\* come out, and it is rejected at the same byte with the same error.  Only what
\* follows a request for another protocol is rejected in the same read and
\* parsed as HTTP in the next.
SameAsOneRead ==
  \/ whole.upgrade
  \/ /\ cut.errno = whole.errno
     /\ cut.requests = whole.requests
     /\ cut.errno = "OK" /\ pos <= Len(source.bytes)
          => EndRead(cut, pos) = EndRead(whole, pos)

\* The callbacks of HTTPParser: the requests of a well-formed stream reach the
\* handler complete, in order and nothing else does; none is rejected.
RequestsAsSent ==
  source.wellFormed =>
    /\ cut.errno = "OK"
    /\ IsPrefix(cut.requests, source.requests)
    /\ pos = Len(source.bytes) => cut.requests = source.requests

Digit(n, ch) == IF IsNum(ch) THEN n * 10 + DigitValue(ch) ELSE n
Number(text) == FoldLeft(Digit, 0, text)
\* A line without a colon has become part of the name that follows, which may so end in
\* Content-Length.  Streams has no other such name, which would not count.
Lengths(r) == SelectSeq(r.headers, LAMBDA h : IsSuffix(ContentLength, h[1]) /\ h[2] # <<>>)

\* s_req_method, s_header_value: whatever byte is missing or replaced, a request that is
\* handed on begins with the name of its method, and its body is as long as its last
\* Content-Length says, however large the number is.
RequestsTrue ==
  \A n \in DOMAIN cut.requests :
    LET r == cut.requests[n]
        framed == \A i \in DOMAIN r.headers :
                    r.headers[i][1] \notin {<<"transfer", "-encoding">>, <<"upgrade">>}
    IN  /\ n = 1 => IsPrefix(MethodText[r.method] \o <<"SP">>,
                             SelectSeq(source.bytes, LAMBDA ch : ch \notin {"CR", "LF"}))
        /\ framed /\ r.method # "CONNECT" =>
             Len(r.body) = IF Lengths(r) = <<>> THEN 0 ELSE Number(Last(Lengths(r))[2])
=============================================================================
