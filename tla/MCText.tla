------------------------------- MODULE MCText -------------------------------
(***************************************************************************)
(* What the server reads and writes, for TLC: requests (HttpParser),       *)
(* routes, JSON, templates, query strings and cookies.  The modules share  *)
(* no state, so that a behaviour is one of one module, the part; the       *)
(* others keep their first state.                                          *)
(***************************************************************************)
EXTENDS MCRouter, Mustache, QueryString, Cookies, MCHttpParser

VARIABLE part   \* which of the modules runs

Quoted(s) == <<"\"">> \o s \o <<"\"">>
\* Exponents of one digit, for the integers of the model are small.
Numbers == {s \in BoundedSeq({"-", "0", "1", ".", "e", "+"}, 5) :
              \A i \in DOMAIN s : s[i] = "e" => Cardinality({j \in i + 1 .. Len(s) : s[j] \in {"0", "1"}}) < 2}
Strings == {Quoted(s) : s \in BoundedSeq({"\\", "u", "n", "\"", "A", "LF", "NUL"}, 4)}
           \cup {Quoted(<<"\\", "u">> \o s) : s \in {<<"0", "0", "0", "1">>, <<"0", "0", "4", "1">>,
                   <<"0", "0", "e", "9">>, <<"2", "0", "A", "C">>, <<"0", "0", "g", "0">>, <<"0", "0", "1">>}}
Lists == BoundedSeq({"[", "]", ",", "1", "SP"}, 5)
MoreObjects ==
  {<<"{", "SP", "key", "SP", ":", "SP", "[", "1", "]", ",", "key", ":", "null", "SP", "}", "SP">>,
   <<"{", "key", ":", "{", "}", "}">>, <<"{", "key", ":", "[", "}", "]">>,
   <<"{", "key", ":", "1", ",", "key", ":", "0", "}">>, <<"{", "}", "NUL", "1">>}
Objects == {<<"{">> \o s : s \in BoundedSeq({"}", ",", ":", "key", "1"}, 5)} \cup MoreObjects
ObjectTexts == {FlattenSeq([i \in DOMAIN o |-> IF o[i] = "key" THEN Quoted(<<"k">>) ELSE <<o[i]>>]) : o \in Objects}
Literals == {<<w>> : w \in {"true", "false", "null", "A", "NUL", "\\"}} \cup {<<>>}
            \cup {<<"[">> \o Quoted(s) \o <<",", "1", "0", "5", ".", "0", "e", "1", "]">> :
                    s \in {<<"\\", "\"">>, <<"\\", "\\">>, <<"\\", "/">>, <<"TAB">>}}
AllTexts == Numbers \cup Strings \cup Lists \cup ObjectTexts \cup Literals

Index(i) == [by |-> "index", index |-> i, key |-> <<>>]
Key(k) == [by |-> "key", index |-> 0, key |-> k]
Steps == {Index(0), Index(1), Key(<<"a">>), Key(<<"a", "\"">>)}
ShortPaths == {<<p>> : p \in Steps} \cup {<<p, q>> : p, q \in Steps}
SomeScalars == {Scalar("True"), Num(0), Num(-7), Num(115), Num(995), Num(12500),
                Text(<<"\"", "SOH", "\\">>), Text(<<"US", "LF">>)}

-----------------------------------------------------------------------------
Pieces == {<<"?">>, <<"&">>, <<"=">>, <<"#">>, <<"a">>, <<"+">>, <<"%", "6", "1">>, <<"%", "2", "6">>, <<"%", "g">>}
AfterMark(s) == <<<<"/">>, <<"?">>>> \o s
Pair == {<<<<"a">>, <<"=">>, v>> : v \in {<<"a">>, <<"+">>, <<"%", "6", "1">>, <<"%", "2", "6">>}}
ListPair == <<<<"a">>, <<"[">>, <<"]">>, <<"=">>, <<"a">>>>
SomeQueryUrls ==
  BoundedSeq(Pieces, 3) \cup {AfterMark(s) : s \in BoundedSeq(Pieces \ {<<"?">>, <<"%", "2", "6">>}, 3)}
    \cup {AfterMark(p \o <<<<"&">>>> \o q) : p \in Pair \cup {ListPair}, q \in Pair \cup {ListPair}}
SomeParameters == {<<"a">>, <<"SP">>, <<"a", "a">>}

CookieNames == {<<"a">>, <<"b">>}
CookieValues(n) == BoundedSeq({"x", " ", ";", "=", "\"", "\\"}, n)
CookiesOf(n) == {[name |-> m, value |-> v, quoted |-> q] : m \in CookieNames, v \in CookieValues(n), q \in BOOLEAN}
SomeCookieLists == {<<c>> : c \in CookiesOf(4)} \cup {<<c, d>> : c \in CookiesOf(1), d \in CookiesOf(2)}
                   \cup {<<c, d, e>> : c, d, e \in {x \in CookiesOf(1) : x.value \in {<<"x">>, <<"\"">>}}}

-----------------------------------------------------------------------------
Tok(k, s) == [k |-> k, s |-> s]
Chars(s) == [i \in DOMAIN s |-> Tok("Text", <<s[i]>>)]
Letter(k, c) == Tok(k, <<c>>)
Blanks == {Tok("Text", <<c>>) : c \in {"SP", "LF"}}
Blocks == {Letter(k, "a") : k \in {"OpenBlock", "ElseBlock", "CloseBlock"}}
AllTokens == Blanks \cup Blocks \cup {Letter("Tag", "a"), Letter("Comment", "a"), Letter("Partial", "p"),
                                      Letter("Text", "x"), Letter("Tag", ".")}
Nested(inner) == <<Letter("OpenBlock", "b")>> \o inner \o <<Letter("CloseBlock", "b")>>
Inner == BoundedSeq({Letter("Tag", "a"), Letter("Tag", "b"), Letter("OpenBlock", "a"), Letter("ElseBlock", "a"),
                     Letter("CloseBlock", "a"), Letter("CloseBlock", "b")}, 3)
MoreTemplates ==
  {<<Letter("OpenBlock", "a"), Letter("OpenBlock", "b"), Letter("CloseBlock", "a"), Letter("CloseBlock", "b")>>,
   <<Letter("Comment", "a"), Letter("Text", "CR"), Letter("Text", "LF"), Letter("Tag", "a")>>,
   <<Letter("Text", "LF"), Letter("Text", "SP"), Letter("Partial", "q"), Letter("Text", "LF"), Letter("Text", "x")>>,
   <<Letter("Text", "SP"), Letter("Partial", "q"), Letter("Text", "x")>>,
   Nested(<<Letter("Text", "SP"), Letter("Partial", "q"), Letter("Text", "LF")>>),
   <<Tok("Delimiters", <<"<", "SP", ">">>), Letter("Text", "LF"), Letter("UnescapeTag", "a"), Letter("Comment", "a")>>,
   Nested(<<Tok("Tag", <<"c", ".", "a">>), Tok("UnescapeTag", <<"c", ".", "a">>)>>),
   Nested(Nested(<<Tok("Tag", <<"b", ".", "a">>), Letter("Tag", "a")>>))}
\* Each partial indented, and not.
PartialTemplates ==
  {indent \o <<Letter("Partial", p), Letter("Text", "LF"), Letter("Text", "x")>> :
     indent \in {<<>>, <<Letter("Text", "SP")>>}, p \in {"r", "s", "t", "u", "v"}}
SomeTemplates ==
  BoundedSeq(AllTokens, 3) \cup BoundedSeq(Blanks \cup Blocks, 5) \cup {Nested(inner) : inner \in Inner}
  \cup MoreTemplates \cup PartialTemplates
\* The last four are the ones that cannot be indented well.
ThePartials ==
  (<<"p">> :> <<Letter("Comment", "a"), Letter("Text", "LF"), Letter("Tag", "a")>>)
  @@ (<<"q">> :> <<Letter("Tag", "a"), Letter("Text", "LF"), Letter("Text", "x"), Letter("Text", "LF")>>)
  @@ (<<"r">> :> <<Letter("Text", "x"), Letter("Text", "LF"), Letter("Comment", "a"), Letter("Text", "LF"),
                   Letter("Text", "x"), Letter("Text", "LF")>>)
  @@ (<<"s">> :> <<Letter("Text", "x"), Letter("Text", "LF"), Letter("Comment", "a"), Letter("Text", "LF")>>)
  @@ (<<"t">> :> Nested(<<Letter("Text", "LF"), Letter("Text", "x"), Letter("Text", "LF")>>))
  @@ (<<"u">> :> Nested(<<Letter("Text", "x")>>))
  @@ (<<"v">> :> <<Letter("Text", "x"), Letter("Text", "LF"), Letter("Text", "SP"), Letter("Partial", "q"),
                   Letter("Text", "LF"), Letter("Partial", "q"), Letter("Text", "LF")>>)

Obj(keys, values) == [Scalar("Object") EXCEPT !.keys = keys, !.l = values]
ListOfValues(values) == [Scalar("List") EXCEPT !.keys = [i \in DOMAIN values |-> <<>>], !.l = values]
Name(c) == <<c>>
SomeContexts ==
  {Obj(<<Name("a")>>, <<Text(<<"<">>)>>),
   Obj(<<Name("a"), Name("b")>>, <<Scalar("False"), Obj(<<Name("a")>>, <<Num(7)>>)>>),
   Obj(<<Name("b"), Name("a")>>, <<ListOfValues(<<Obj(<<Name("a")>>, <<Text(<<"x">>)>>), Num(1)>>), ListOfValues(<<>>)>>),
   Obj(<<Name("b"), Name("c"), Name("a")>>,
       <<Obj(<<Name("c"), Name("b")>>, <<Obj(<<>>, <<>>), Obj(<<Name("a")>>, <<Num(0)>>)>>),
         Obj(<<Name("a")>>, <<Text(<<"&">>)>>), ListOfValues(<<Num(1), Text(<<"x">>)>>)>>)}

-----------------------------------------------------------------------------
OneStream == Stream(<<Get>>)

Init ==
  /\ part \in {"requests", "router", "json", "templates", "query", "cookies"}
  /\ \/ part = "requests" /\ ParserInit
     \/ part # "requests" /\ source = OneStream /\ pos = 0 /\ cut = NewParser /\ whole = NewParser
  /\ RouterInit /\ JsonInit /\ TemplateInit /\ QueryInit /\ CookieInit

otherVars == <<routerVars, jsonVars, templateVars, queryVars, cookieVars>>
vars == <<part, parserVars, otherVars>>

Next ==
  /\ UNCHANGED part
  /\ \/ part = "requests" /\ ParserNext /\ UNCHANGED otherVars
     \/ /\ UNCHANGED parserVars
        /\ \/ part = "router" /\ RouterNext /\ UNCHANGED <<jsonVars, templateVars, queryVars, cookieVars>>
           \/ part = "json" /\ JsonNext /\ UNCHANGED <<routerVars, templateVars, queryVars, cookieVars>>
           \/ part = "templates" /\ TemplateNext /\ UNCHANGED <<routerVars, jsonVars, queryVars, cookieVars>>
           \/ part = "query" /\ QueryNext /\ UNCHANGED <<routerVars, jsonVars, templateVars, cookieVars>>
           \/ part = "cookies" /\ CookieNext /\ UNCHANGED <<routerVars, jsonVars, templateVars, queryVars>>

Spec == Init /\ [][Next]_vars
=============================================================================
