------------------------------ MODULE MCRouter ------------------------------
(***************************************************************************)
(* Rules and urls of Router for TLC.                                       *)
(***************************************************************************)
EXTENDS Router

G == {"GET"}
R(url, methods, handler) ==
  [url |-> url, methods |-> methods, handler |-> handler, dynamic |-> FALSE, throws |-> FALSE]
T(url) == R(url, G, ArgumentTypes(url))
D(url, handler) == [R(url, G, handler) EXCEPT !.dynamic = TRUE]

\* The handlers of dynamic routes: one that fits its url, two that do not.
Dynamics ==
  {D(<<"/", "<int>", "<str>">>, <<"INT", "STRING">>), D(<<"/", "<int>">>, <<>>),
   D(<<"/", "b", "<str>">>, <<"INT">>)}

Rules ==
  {T(u) : u \in {<<"/">>, <<"/", "a">>, <<"/", "a", "/">>, <<"/", "a", "b">>, <<"/", "<str>">>,
                 <<"/", "<int>">>, <<"/", "<double>", "/">>, <<"/", "a", "<uint>">>,
                 <<"/", "<string>", "/", "<str>">>, <<"/", "<path>", "/">>, <<"<path>">>}}
  \cup Dynamics
  \cup {R(<<"/", "<path>">>, {"POST"}, <<"STRING">>), R(<<"/", "a", "/", "b">>, G, NoHandler),
        [R(<<"/", "b">>, {"GET", "POST"}, <<>>) EXCEPT !.throws = TRUE]}

MoreUrls == {<<"*">>, <<"/", "1", "/", "a">>, <<"/", "1", ".", "1", "/">>, <<"/", "a", "/", "1", "/">>,
             <<"/", ".", "1", "/">>, <<"/", "-", "1", "1">>, <<"/", "+", "1", "1", "1">>}
UrlsOfThree == {<<"/">> \o u : u \in BoundedSeq({"/", "a", "b", "1"}, 2)} \cup MoreUrls

=============================================================================
