------------------------------- MODULE Router -------------------------------
(***************************************************************************)
(* Crow's Router: an application registers its rules, validate() checks    *)
(* them and compresses the trie, and handle() answers requests.            *)
(*                                                                         *)
(* A url is a sequence of characters; in the url of a rule a parameter is  *)
(* one symbol, as "<int>".  A number is the characters it was read from.   *)
(* After validate() nothing changes, so one request is enough.             *)
(***************************************************************************)
EXTENDS Integers, Sequences, FiniteSets, FiniteSetsExt, SequencesExt

CONSTANTS
  RuleChoices,  \* what may be registered: [url, methods, handler, dynamic, throws]
  MaxRules,
  Urls,
  Methods,
  MaxDigits,    \* digits that fit an integer
  NoHandler

VARIABLES
  rules_,   \* the rules; 1 is the redirect, those of the application come after it
  nodes_,   \* the nodes of the trie; the head is the first
  phase,    \* "adding", "serving" or "failed": an exception has left main()
  answer    \* what handle() did with the request

routerVars == <<rules_, nodes_, phase, answer>>

-----------------------------------------------------------------------------
\* Parameters in a url.

ParamType == <<"INT", "UINT", "DOUBLE", "STRING", "PATH">>
ParamTraits ==
  [t \in {"<int>", "<uint>", "<float>", "<double>", "<str>", "<string>", "<path>"} |->
     CASE t = "<int>"                  -> "INT"
       [] t = "<uint>"                 -> "UINT"
       [] t \in {"<float>", "<double>"} -> "DOUBLE"
       [] t \in {"<str>", "<string>"}  -> "STRING"
       [] t = "<path>"                 -> "PATH"]

DigitChars == {"0", "1", "2", "3", "4", "5", "6", "7", "8", "9"}

\* The position of the first character from p on that is not in S.
Past(url, p, S) ==
  LET q == SelectInSubSeq(url, p, Len(url), LAMBDA ch : ch \notin S)
  IN  IF q = 0 THEN Len(url) + 1 ELSE q

\* strtoll() and strtoull(), ERANGE included: where the number at p ends, p if there is none.
Integral(url, p, signs) ==
  LET d == IF url[p] \in signs THEN p + 1 ELSE p
      q == Past(url, d, DigitChars)
  IN  IF q - d \in 1 .. MaxDigits THEN q ELSE p

\* strtod() of decimal digits.
Floating(url, p) ==
  LET d == IF url[p] \in {"+", "-"} THEN p + 1 ELSE p
      q == Past(url, d, DigitChars)
      r == IF q <= Len(url) /\ url[q] = "." THEN Past(url, q + 1, DigitChars) ELSE q
  IN  IF r - d > (IF q < r THEN 1 ELSE 0) THEN r ELSE p

\* Where a parameter that begins at p ends; p if it does not match.
ParamEnd(type, url, p) ==
  CASE type = "INT"    -> Integral(url, p, {"+", "-"})
    [] type = "UINT"   -> Integral(url, p, {"+"})
    [] type = "DOUBLE" -> Floating(url, p)
    [] type = "STRING" -> Past(url, p, ToSet(url) \ {"/"})
    [] type = "PATH"   -> Len(url) + 1

\* routing_params: a list for each C++ type; strings and paths share one.
ListOf(type) == IF type = "PATH" THEN "STRING" ELSE type
NoParams == [l \in {"INT", "UINT", "DOUBLE", "STRING"} |-> <<>>]
Pushed(params, type, text) == [params EXCEPT ![ListOf(type)] = Append(@, text)]

-----------------------------------------------------------------------------
\* The trie.

Node == [rule_index |-> 0, param_childrens |-> [t \in ToSet(ParamType) |-> 0], children |-> <<>>]

IsSimpleNodeWithoutRule(node) ==  \* mutant
  \A t \in ToSet(ParamType) : node.param_childrens[t] = 0

IsSimpleNode(node) ==
  node.rule_index = 0 /\ \A t \in ToSet(ParamType) : node.param_childrens[t] = 0

\* children is a function from fragments to nodes.
Child(nodes, n, fragment) ==
  IF fragment \in DOMAIN nodes[n].children THEN nodes[n].children[fragment] ELSE 0

\* One turn of the loop of add(): to the child for a symbol, made if there is none.
Descend(at, symbol) ==
  LET n == at.node
      fresh == Len(at.nodes) + 1
      param == symbol \in DOMAIN ParamTraits
      have == IF param THEN at.nodes[n].param_childrens[ParamTraits[symbol]]
                       ELSE Child(at.nodes, n, <<symbol>>)
      linked == IF param
                THEN [at.nodes EXCEPT ![n].param_childrens[ParamTraits[symbol]] = fresh]
                ELSE [at.nodes EXCEPT ![n].children =
                        [f \in DOMAIN @ \cup {<<symbol>>} |-> IF f = <<symbol>> THEN fresh ELSE @[f]]]
  IN  IF have # 0 THEN [at EXCEPT !.node = have]
      ELSE [nodes |-> Append(linked, Node), node |-> fresh]

\* The end of add(): the rule is put at the node reached, unless one is there.
Placed(end, rule_index) ==
  LET taken == end.nodes[end.node].rule_index # 0
  IN  [ok |-> ~taken,
       nodes |-> IF taken THEN end.nodes
                 ELSE [end.nodes EXCEPT ![end.node].rule_index = rule_index]]

\* add(): ok is FALSE when it throws; the nodes made on the way stay.
add(nodes, url, rule_index) ==
  Placed(FoldLeft(Descend, [nodes |-> nodes, node |-> 1], url), rule_index)

\* The children of the children of a node, under the joined fragments.
Merged(nodes, n) ==
  LET over == nodes[n].children
      joined == UNION {{<<f, g>> : g \in DOMAIN nodes[over[f]].children} : f \in DOMAIN over}
  IN  [fg \in {p[1] \o p[2] : p \in joined} |->
         LET p == CHOOSE q \in joined : q[1] \o q[2] = fg IN nodes[over[p[1]]].children[p[2]]]

ParamKids(n, nodes) == {nodes[n].param_childrens[t] : t \in ToSet(ParamType)} \ {0}
Kids(n, nodes) == {nodes[n].children[f] : f \in DOMAIN nodes[n].children}

RECURSIVE optimizeNode(_, _), optimizeChildren(_, _)
optimizeNode(n, nodes) ==
  optimizeChildren(n, FoldSet(optimizeNode, nodes, ParamKids(n, nodes)))
optimizeChildren(n, nodes) ==
  IF Kids(n, nodes) = {} THEN nodes
  ELSE IF \A k \in Kids(n, nodes) : IsSimpleNode(nodes[k])
  THEN optimizeNode(n, [nodes EXCEPT ![n].children = Merged(nodes, n)])
  ELSE FoldSet(optimizeNode, nodes, Kids(n, nodes))

\* update_found: the lowest rule index wins.
Lower(found, ret) ==
  IF ret.rule # 0 /\ (found.rule = 0 \/ found.rule > ret.rule) THEN ret ELSE found

NotFound == [rule |-> 0, params |-> NoParams]

RECURSIVE find(_, _, _, _, _)
find(nodes, url, n, p, params) ==
  LET node == nodes[n]
      UpTo(q, found, type) ==
        IF q = p THEN found
        ELSE Lower(found, find(nodes, url, node.param_childrens[type], q,
                               Pushed(params, type, SubSeq(url, p, q - 1))))
      Through(found, type) ==
        IF node.param_childrens[type] = 0 THEN found
        ELSE UpTo(ParamEnd(type, url, p), found, type)
      Along(fragment, found) ==
        Lower(found, find(nodes, url, node.children[fragment], p + Len(fragment), params))
      fitting == {f \in DOMAIN node.children : IsPrefix(f, SubSeq(url, p, Len(url)))}
  IN  IF p > Len(url) THEN [rule |-> node.rule_index, params |-> params]
      ELSE FoldSet(Along, FoldLeft(Through, NotFound, ParamType), fitting)

-----------------------------------------------------------------------------
\* Rules and their handlers.

NullRule == [url |-> <<>>, methods |-> {}, handler |-> NoHandler, dynamic |-> FALSE, throws |-> FALSE]

\* The types of the parameters of a rule, for which the compiler checks the handler of a
\* TaggedRule: get_parameter_tag().
ParamsOf(url) == [i \in 1 .. Len(SelectSeq(url, LAMBDA s : s \in DOMAIN ParamTraits)) |->
                    ParamTraits[SelectSeq(url, LAMBDA s : s \in DOMAIN ParamTraits)[i]]]
ArgumentTypes(url) == [i \in DOMAIN ParamsOf(url) |-> ListOf(ParamsOf(url)[i])]

\* is_parameter_tag_compatible(): the tag of the handler is never looked at, only its length.
is_parameter_tag_compatible(a, b) == Len(a) = Len(b)

\* get<T>(i) of the i-th parameter of type T; past the end of the list it is undefined.
Undefined == <<"undefined">>
call(handler, params) ==
  [i \in DOMAIN handler |->
     LET k == Cardinality({j \in 1 .. i : handler[j] = handler[i]})
     IN  IF k <= Len(params[handler[i]]) THEN params[handler[i]][k] ELSE Undefined]

-----------------------------------------------------------------------------
RouterInit ==
  /\ rules_ = <<NullRule>>
  /\ nodes_ = <<Node>>
  /\ phase = "adding"
  /\ answer = <<>>

RULE_SPECIAL_REDIRECT_SLASH == 1

redirectAlways(url) == Len(url) > 1  \* mutant

redirect(url) == Len(url) > 1 /\ Last(url) = "/"

\* internal_add_rule_object(), then operator(), which may refuse the handler of a DynamicRule.
Refuses(rule) ==
  rule.dynamic /\ rule.handler # NoHandler
    /\ ~is_parameter_tag_compatible(ArgumentTypes(rule.url), rule.handler)

WithRedirect(rule, added) ==
  IF added.ok /\ redirect(rule.url)
  THEN add(added.nodes, Front(rule.url), RULE_SPECIAL_REDIRECT_SLASH) ELSE added

Register(rule) ==
  /\ phase = "adding" /\ Len(rules_) <= MaxRules
  /\ rules_' = Append(rules_, rule)
  /\ LET added == WithRedirect(rule, add(nodes_, rule.url, Len(rules_) + 1))
     IN  /\ nodes_' = added.nodes
         /\ phase' = IF added.ok /\ ~Refuses(rule) THEN "adding" ELSE "failed"
  /\ UNCHANGED answer

\* validate(): the trie first, then the rules.
validate ==
  LET simple == IsSimpleNode(nodes_[1])
      handled == \A i \in 2 .. Len(rules_) : rules_[i].handler # NoHandler
  IN  /\ phase = "adding"
      /\ nodes_' = IF simple THEN optimizeNode(1, nodes_) ELSE nodes_
      /\ phase' = IF simple /\ handled THEN "serving" ELSE "failed"
      /\ UNCHANGED <<rules_, answer>>

Status(code, found) == [code |-> code, rule |-> found.rule, args |-> <<>>]

\* What handle() answers with what it has found.
Answer(found, method) ==
  LET rule == rules_[found.rule]
  IN  IF found.rule = 0 THEN Status(404, found)
      ELSE IF found.rule = RULE_SPECIAL_REDIRECT_SLASH THEN Status(301, found)
      ELSE IF method \notin rule.methods THEN Status(404, found)
      ELSE [code |-> IF rule.throws THEN 500 ELSE 200, rule |-> found.rule,
            args |-> call(rule.handler, found.params)]

handle(url, method) ==
  /\ phase = "serving"
  /\ answer = <<>>
  /\ answer' = <<[url |-> url, method |-> method,
                  is |-> Answer(find(nodes_, url, 1, 1, NoParams), method)]>>
  /\ UNCHANGED <<rules_, nodes_, phase>>

RouterNext ==
  \/ \E rule \in RuleChoices : Register(rule)
  \/ validate
  \/ \E url \in Urls, method \in Methods : handle(url, method)

RouterSpec == RouterInit /\ [][RouterNext]_routerVars

-----------------------------------------------------------------------------
\* The reference: rules are tried one by one, without a trie.

\* Where a url that a rule matches so far goes on after one more symbol; 0 if it does not.
Consume(m, symbol, url) ==
  LET p == m.pos
      Argument(q) == [pos |-> IF q = p THEN 0 ELSE q, args |-> Append(m.args, SubSeq(url, p, q - 1))]
  IN  IF p = 0 \/ p > Len(url) THEN [m EXCEPT !.pos = 0]
      ELSE IF symbol \in DOMAIN ParamTraits THEN Argument(ParamEnd(ParamTraits[symbol], url, p))
      ELSE [m EXCEPT !.pos = IF url[p] = symbol THEN p + 1 ELSE 0]

MatchRule(pattern, url) ==
  FoldLeft(LAMBDA m, symbol : Consume(m, symbol, url), [pos |-> 1, args |-> <<>>], pattern)
Fits(pattern, url) == MatchRule(pattern, url).pos = Len(url) + 1

FittingRules(url) == {i \in 2 .. Len(rules_) : Fits(rules_[i].url, url)}
Redirected(url) ==
  \E i \in 2 .. Len(rules_) :
     Len(rules_[i].url) > 1 /\ Last(rules_[i].url) = "/" /\ Fits(Front(rules_[i].url), url)

AnswerOf(first, url, method) ==
  LET rule == rules_[first]
  IN  IF method \notin rule.methods THEN [code |-> 404, rule |-> first, args |-> <<>>]
      ELSE [code |-> IF rule.throws THEN 500 ELSE 200, rule |-> first,
            args |-> MatchRule(rule.url, url).args]

Reference(url, method) ==
  LET First(fitting) == IF fitting = {} THEN [code |-> 404, rule |-> 0, args |-> <<>>]
                        ELSE AnswerOf(Min(fitting), url, method)
  IN  IF Redirected(url) THEN [code |-> 301, rule |-> 1, args |-> <<>>] ELSE First(FittingRules(url))

-----------------------------------------------------------------------------
\* The rule that was registered first among those that match a request answers it, with the
\* pieces of the url as its arguments in their order, however the trie shares and merges
\* fragments; a redirect comes before every rule.  Excepted is a DynamicRule whose handler
\* takes as many parameters as its url has, but others: route_dynamic() lets it through.
FirstRuleAnswers ==
  \A a \in ToSet(answer) :
     (a.is.rule > 1 => rules_[a.is.rule].handler = ArgumentTypes(rules_[a.is.rule].url))
       => a.is = Reference(a.url, a.method)

RECURSIVE Followed(_, _)
Followed(url, n) ==
  LET found == find(nodes_, url, 1, 1, NoParams)
  IN  IF found.rule # RULE_SPECIAL_REDIRECT_SLASH \/ n = 0 THEN found.rule
      ELSE Followed(Append(url, "/"), n - 1)

\* A client that follows its redirects comes to a rule.  A rule that ends in <path>/ can match
\* nothing, for the path takes the slash: requests for it are redirected for ever, and it is
\* excepted here.
NoPathThenSlash ==
  \A i \in 2 .. Len(rules_) :
     Len(rules_[i].url) > 1 => SubSeq(rules_[i].url, Len(rules_[i].url) - 1, Len(rules_[i].url)) # <<"<path>", "/">>
RedirectLeadsToRule ==
  NoPathThenSlash =>
    \A a \in ToSet(answer) : a.is.code = 301 => Followed(a.url, MaxRules) > 1
=============================================================================
