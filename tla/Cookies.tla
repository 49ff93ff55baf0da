------------------------------ MODULE Cookies ------------------------------
(***************************************************************************)
(* The CookieParser middleware: before_handle() fills the jar of a request *)
(* from its Cookie header.                                                 *)
(***************************************************************************)
EXTENDS Integers, Sequences, FiniteSets, SequencesExt

CONSTANTS
  CookieLists,  \* what a client sends: sequences of [name, value, quoted]
  NoRequest

VARIABLES
  sent,        \* history: the cookies of each Cookie header of the request
  jar,         \* a sequence of [name, value], no name twice
  refused      \* 0, or the code of a response before the handler ran

cookieVars == <<sent, jar, refused>>

-----------------------------------------------------------------------------
\* External: a client writes its cookies.  In quotes, a quote is written with a backslash.
Spelling(cookie) ==
  IF ~cookie.quoted THEN cookie.value
  ELSE <<"\"">> \o FlattenSeq([i \in DOMAIN cookie.value |->
                       IF cookie.value[i] = "\"" THEN <<"\\", "\"">> ELSE <<cookie.value[i]>>]) \o <<"\"">>
Header(cookies) ==
  FlattenSeq([i \in DOMAIN cookies |-> (IF i = 1 THEN <<>> ELSE <<";", " ">>)
                                         \o cookies[i].name \o <<"=">> \o Spelling(cookies[i])])

-----------------------------------------------------------------------------
\* find(), which is Len + 1 where the code has npos.
Find(s, c, p) == LET q == SelectInSubSeq(s, p, Len(s), LAMBDA x : x = c)
                 IN  IF q = 0 THEN Len(s) + 1 ELSE q
SkipSpaces(s, p) == LET q == SelectInSubSeq(s, p, Len(s), LAMBDA x : x # " ")
                    IN  IF q = 0 THEN Len(s) + 1 ELSE q
TrimSpaces(s) == LET last == SelectLastInSeq(s, LAMBDA x : x # " ")
                 IN  SubSeq(s, SkipSpaces(s, 1), last)

emplace(j, name, value) ==
  IF \E i \in DOMAIN j : j[i].name = name THEN j ELSE Append(j, [name |-> name, value |-> value])

\* The closing quote: the first one from p on that has no backslash before it.
ClosingQuoteFirst(s, p) == Find(s, "\"", p)  \* mutant

ClosingQuote(s, p) ==
  LET q == SelectInSubSeq(s, p, Len(s), LAMBDA x : x = "\"")
      all == {i \in p .. Len(s) : s[i] = "\"" /\ s[i - 1] # "\\"}
  IN  IF q = 0 \/ all = {} THEN Len(s) + 1 ELSE CHOOSE i \in all : \A k \in all : i <= k

\* Only when there was a quote to skip are backslashes taken away.
RECURSIVE Unescaped(_)
Unescaped(s) ==
  IF s = <<>> THEN <<>>
  ELSE IF s[1] # "\\" \/ Len(s) = 1 THEN <<s[1]>> \o Unescaped(Tail(s))
  ELSE (IF s[2] \in {"\\", "\""} THEN <<s[2]>> ELSE <<"\\", s[2]>>) \o Unescaped(SubSeq(s, 3, Len(s)))
QuotedValue(s) == IF "\"" \in ToSet(s) THEN Unescaped(s) ELSE s

\* The loop of before_handle(), from pos on.
RECURSIVE Parsed(_, _, _)
Parsed(s, pos, j) ==
  LET equal == Find(s, "=", pos)
      name == TrimSpaces(SubSeq(s, pos, equal - 1))
      p == SkipSpaces(s, equal + 1)
      quoted == s[p] = "\""
      close == ClosingQuote(s, p + 1)
      semicolon == Find(s, ";", IF quoted THEN close + 1 ELSE p)
      value == IF quoted THEN QuotedValue(SubSeq(s, p + 1, close - 1))
               ELSE TrimSpaces(SubSeq(s, p, semicolon - 1))
      next == SkipSpaces(s, semicolon + 1)
      more == emplace(j, name, value)
  IN  IF pos > Len(s) \/ equal > Len(s) \/ p > Len(s) THEN j
      ELSE IF quoted /\ close > Len(s) THEN j
      ELSE IF semicolon > Len(s) \/ next > Len(s) THEN more
      ELSE Parsed(s, next, more)

-----------------------------------------------------------------------------
CookieInit == sent = NoRequest /\ jar = <<>> /\ refused = 0

\* before_handle() on the Cookie headers of a request.
before_handle(headers) ==
  /\ sent' = headers
  /\ refused' = IF Len(headers) > 1 THEN 400 ELSE 0
  /\ jar' = IF Len(headers) = 1 THEN Parsed(Header(headers[1]), 1, <<>>) ELSE <<>>

CookieNext ==
  /\ sent = NoRequest
  /\ \/ \E cookies \in CookieLists : before_handle(<<cookies>>) \/ before_handle(<<cookies, cookies>>)
     \/ before_handle(<<>>)

-----------------------------------------------------------------------------
\* The cookies a client may send for which before_handle() does what the client means: a value in
\* quotes has no backslash, and one without is not empty at the end, has no quote in front, no
\* semicolon and no spaces around it.
ReadAsMeant(cookie) ==
  IF cookie.quoted THEN "\\" \notin ToSet(cookie.value)
  ELSE cookie.value # <<>> /\ cookie.value = TrimSpaces(cookie.value)
         /\ cookie.value[1] # "\"" /\ ";" \notin ToSet(cookie.value)

\* The jar holds every cookie of the request under its name, the first of a name, whatever the
\* quotes, separators and escapes in the values.
JarHasWhatWasSent ==
  sent # NoRequest /\ Len(sent) = 1 /\ (\A i \in DOMAIN sent[1] : ReadAsMeant(sent[1][i])) =>
    jar = FoldLeft(LAMBDA j, cookie : emplace(j, cookie.name, cookie.value), <<>>, sent[1])
=============================================================================
