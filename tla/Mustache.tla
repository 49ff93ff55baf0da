------------------------------ MODULE Mustache ------------------------------
(***************************************************************************)
(* crow::mustache: compile() cuts the text of a template into fragments    *)
(* with an action after each, and render() runs the actions on a stack of  *)
(* contexts, which are wvalues.                                            *)
(*                                                                         *)
(* A template is written as tokens: a character of text, or a tag.  Its    *)
(* text is a sequence of characters.  Names in tags are not blank.         *)
(***************************************************************************)
EXTENDS Json

CONSTANTS
  Templates,  \* sequences of tokens, [k, s]
  Partials,   \* the loader: from names to sequences of tokens
  Contexts,
  MaxSteps    \* actions after which a rendering is taken to go on for ever

VARIABLES
  compiled,   \* what compile() made: [is, body, fragments, actions]; and its tokens
  rendered    \* what render() made of it: [is, out, stack], and the context

templateVars == <<compiled, rendered>>

-----------------------------------------------------------------------------
\* External: how a template is written.

Sigil == [Tag |-> <<>>, UnescapeTag |-> <<"&">>, OpenBlock |-> <<"#">>, ElseBlock |-> <<"^">>,
          CloseBlock |-> <<"/">>, Partial |-> <<">">>, Comment |-> <<"!">>]

\* Delimiters has the new ones, as in <<"<", "SP", ">">>; until then a tag that is not escaped
\* has three braces.
Written(w, token) ==
  LET default == w.open = <<"{", "{">>
      brace == default /\ token.k = "UnescapeTag"
      space == SelectInSeq(token.s, LAMBDA c : c = "SP")
      inside == CASE token.k = "Delimiters" -> <<"=">> \o token.s \o <<"=">>
                  [] brace -> <<"{">> \o token.s \o <<"}">>
                  [] OTHER -> Sigil[token.k] \o token.s
      add == IF token.k = "Text" THEN token.s ELSE w.open \o inside \o w.close
  IN  IF token.k # "Delimiters" THEN [w EXCEPT !.text = @ \o add]
      ELSE [open |-> SubSeq(token.s, 1, space - 1), close |-> SubSeq(token.s, space + 1, Len(token.s)),
            text |-> w.text \o add]
Body(tokens) ==
  FoldLeft(Written, [open |-> <<"{", "{">>, close |-> <<"}", "}">>, text |-> <<>>], tokens).text

-----------------------------------------------------------------------------
\* parse().  A fragment is [first, last] with last past its end.  pos of a block is the action
\* that closes it, and while there is none the first one; that of a partial is its indent.

\* A string ends with a NUL.
At(b, i) == IF i \in DOMAIN b THEN b[i] ELSE "NUL"

FindIn(b, s, p) ==
  LET hits == {i \in p .. Len(b) - Len(s) + 1 : SubSeq(b, i, i + Len(s) - 1) = s}
  IN  IF hits = {} THEN Len(b) + 1 ELSE Min(hits)

Named(b, idx, end) == LET s == SubSeq(b, idx, end - 1)
                      IN  SubSeq(s, SelectInSeq(s, LAMBDA c : c # "SP"), SelectLastInSeq(s, LAMBDA c : c # "SP"))
Action(t, name) == [t |-> t, name |-> name, pos |-> IF t = "Partial" THEN 0 ELSE 1]

ActionTypeOf(ch) ==
  CASE ch = "#" -> "OpenBlock" [] ch = "/" -> "CloseBlock" [] ch = "^" -> "ElseBlock"
    [] ch \in {"!", "="} -> "Ignore" [] ch = ">" -> "Partial" [] ch \in {"{", "&"} -> "UnescapeTag"
    [] OTHER -> "Tag"

Began == [is |-> "parsing", fragments |-> <<>>, actions |-> <<>>, blocks |-> <<>>, current |-> 1,
          tag_open |-> <<"{", "{">>, tag_close |-> <<"}", "}">>]

Push(m, action) == [m EXCEPT !.actions = Append(@, action)]

Opened(m, action) == [Push(m, action) EXCEPT !.blocks = Append(@, Len(m.actions) + 1)]

\* With no block open the code reads the last element of an empty vector.
Closed(m, action) ==
  IF m.blocks = <<>> THEN [m EXCEPT !.is = "undefined"]
  ELSE IF m.actions[Last(m.blocks)].name # action.name THEN [m EXCEPT !.is = "throws"]
  ELSE [Push(m, action) EXCEPT !.actions[Last(m.blocks)].pos = Len(m.actions) + 1,
                               !.blocks = Front(@)]

\* {{= =}}: content is what is between the two signs.
Delimiters(m, content) ==
  LET space == FindIn(content, <<"SP">>, 1)
      close == SelectInSubSeq(content, space, Len(content), LAMBDA c : c # "SP")
      tag_close == SubSeq(content, close, Len(content))
  IN  IF space > Len(content) \/ "SP" \in ToSet(tag_close) THEN [m EXCEPT !.is = "throws"]
      ELSE [Push(m, Action("Ignore", <<>>)) EXCEPT !.tag_open = SubSeq(content, 1, space - 1),
                                                        !.tag_close = tag_close]

\* One turn of the loop.
Cut(b, m) ==
  LET open == FindIn(b, m.tag_open, m.current)
      idx == open + Len(m.tag_open)
      end == FindIn(b, m.tag_close, idx)
      t == ActionTypeOf(At(b, idx))
      triple == At(b, idx) = "{"
      changed == m.tag_open # Began.tag_open \/ m.tag_close # Began.tag_close
      next == [m EXCEPT !.fragments = Append(@, [first |-> m.current, last |-> open]),
                        !.current = end + Len(m.tag_close) + (IF triple THEN 1 ELSE 0)]
      action == Action(t, Named(b, IF t = "Tag" THEN idx ELSE idx + 1, end))
      Throw == [m EXCEPT !.is = "throws"]
  IN  IF open > Len(b)
      THEN [next EXCEPT !.actions = Append(@, Action("Ignore", <<>>)), !.is = "ok"]
      ELSE IF end = idx \/ end > Len(b) THEN Throw
      ELSE IF triple /\ (changed \/ At(b, end + 2) # "}") THEN Throw
      ELSE IF b[idx] = "=" THEN IF b[end - 1] # "=" THEN Throw
                                ELSE Delimiters(next, Named(b, idx + 1, end - 1))
      ELSE CASE t \in {"OpenBlock", "ElseBlock"} -> Opened(next, action)
             [] t = "CloseBlock"                 -> Closed(next, action)
             [] OTHER                            -> Push(next, action)

RECURSIVE CutAll(_, _)
CutAll(b, m) == IF m.is = "parsing" THEN CutAll(b, Cut(b, m)) ELSE m

\* Removing standalones: action i, with what fragments are by now.
OnAnyLine(i, n) == TRUE  \* mutant

OnItsLine(i, n) == i = n

Standalone(b, m, i) ==
  LET before == m.fragments[i]
      after == m.fragments[i + 1]
      js == {x \in before.first .. before.last - 1 : b[x] # "SP"}
      ks == {x \in after.first .. after.last - 1 : b[x] # "SP"}
      j == IF js = {} THEN before.first - 1 ELSE Max(js)
      k == IF ks = {} THEN after.first ELSE Min(ks)
      crlf == ks # {} /\ b[k] = "CR" /\ At(b, k + 1) = "LF"
      left == IF js = {} THEN OnItsLine(i, 1) ELSE b[j] = "LF"
      right == IF ks = {} THEN OnItsLine(i, Len(m.actions) - 1) ELSE b[k] = "LF" \/ crlf
      from == CASE ks = {} -> after.first [] crlf -> k + 2 [] OTHER -> k + 1
  IN  IF m.actions[i].t \in {"Tag", "UnescapeTag"} \/ ~left \/ ~right THEN m
      ELSE [m EXCEPT !.fragments[i].last = j + 1,
                     !.fragments[i + 1].first = from,
                     !.actions[i].pos = IF m.actions[i].t = "Partial" THEN before.last - j - 1 ELSE @]

template_parse(b) ==
  LET m == CutAll(b, Began)
      n == Len(m.actions) - 1
      stripped == FoldLeft(LAMBDA x, i : Standalone(b, x, n + 1 - i), m, [i \in 1 .. n |-> i])
      done == IF m.is = "ok" THEN stripped ELSE m
  IN  [is |-> done.is, body |-> b, fragments |-> done.fragments, actions |-> done.actions]

-----------------------------------------------------------------------------
\* render().

Split(name) ==
  FoldLeft(LAMBDA parts, c : IF c = "." THEN Append(parts, <<>>) ELSE [parts EXCEPT ![Len(parts)] = Append(@, c)],
           << <<>> >>, name)
\* Where names lead from v: the set is empty when one is missing.
Follow(v, names) ==
  FoldLeft(LAMBDA at, key : UNION {{x.l[i] : i \in {n \in DOMAIN x.keys : x.t = "Object" /\ x.keys[n] = key}} : x \in at},
           {v}, names)

\* The innermost context in which the whole name is found; an empty string if there is none.
find_context(name, stack) ==
  LET levels == {i \in DOMAIN stack : Follow(stack[i], Split(name)) # {}}
  IN  IF name = <<".">> THEN [found |-> TRUE, v |-> Last(stack)]
      ELSE IF levels = {} THEN [found |-> FALSE, v |-> Text(<<>>)]
      ELSE [found |-> TRUE, v |-> CHOOSE x \in Follow(stack[Max(levels)], Split(name)) : TRUE]

escape_html(s) ==
  [i \in DOMAIN s |-> CASE s[i] = "&" -> "&amp;" [] s[i] = "<" -> "&lt;" [] s[i] = ">" -> "&gt;"
                        [] s[i] = "\"" -> "&quot;" [] s[i] = "'" -> "&#39;" [] s[i] = "/" -> "&#x2F;"
                        [] OTHER -> s[i]]

Spaces(n) == [i \in 1 .. n |-> "SP"]

\* With an indent every line of the fragment but the last of the body is followed by it.
render_fragment(t, n, indent) ==
  FlattenSeq([k \in 1 .. t.fragments[n].last - t.fragments[n].first |->
    LET i == t.fragments[n].first + k - 1
    IN  <<t.body[i]>> \o (IF indent > 0 /\ t.body[i] = "LF" /\ i # Len(t.body) THEN Spaces(indent) ELSE <<>>)])

Outcome(is, out, stack) == [is |-> is, out |-> out, stack |-> stack]
After(out, r) == [r EXCEPT !.out = out \o @]

TagText(action, v) ==
  IF v.t = "Number" THEN dump(v) ELSE IF action.t = "Tag" THEN escape_html(v.s) ELSE v.s

\* Whether a block is rendered once for the value, for each of its elements, or skipped.
BlockTakes(found, v) ==
  CASE ~found \/ v.t \in {"False", "Null"} -> "nothing" [] v.t = "List" -> "each" [] OTHER -> "once"
ElseTakes(found, v) == ~found \/ v.t \in {"False", "Null"} \/ (v.t = "List" /\ v.l = <<>>)

\* Where an action leaves the loop: with this outcome, at the action next.
Turn(r, next) == [next |-> next] @@ r
Onward(stack, out, next) == Turn(Outcome("ok", out, stack), next)

\* The element of a list has been rendered; its context is taken off the stack.
Collected(r, q) == IF q.is = "ok" THEN Outcome("ok", r.out \o q.out, Front(q.stack)) ELSE q

RECURSIVE Loop(_, _, _, _, _, _), render_internal(_, _, _, _, _, _)

RenderAll(t, stack, indent, steps) ==
  render_internal(t, 1, Len(t.fragments), stack, indent, steps)

RenderEach(t, current, elements, stack, indent, steps) ==
  LET each(r, x) ==
        IF r.is # "ok" THEN r
        ELSE Collected(r, render_internal(t, current + 1, t.actions[current].pos,
                                          Append(r.stack, x), indent, steps))
  IN  FoldLeft(each, Outcome("ok", <<>>, stack), elements)

\* What the action current does; at is what its name stands for.
Perform(t, current, at, stack, indent, steps) ==
  LET action == t.actions[current]
      takes == BlockTakes(at.found, at.v)
  IN  CASE action.t = "Ignore" -> Onward(stack, <<>>, current + 1)
        [] action.t = "Partial" ->
             Turn(RenderAll(template_parse(Body(Partials[action.name])), stack,
                            IF action.pos > 0 THEN indent + action.pos ELSE 0, steps), current + 1)
        [] action.t \in {"Tag", "UnescapeTag"} ->
             IF at.v.t \in {"Number", "String"} THEN Onward(stack, TagText(action, at.v), current + 1)
             ELSE Turn(Outcome("throws", <<>>, stack), current)
        [] action.t = "ElseBlock" ->
             IF ElseTakes(at.found, at.v) THEN Onward(Append(stack, Value), <<>>, current + 1)
             ELSE Onward(stack, <<>>, action.pos + 1)
        [] action.t = "CloseBlock" -> Onward(Front(stack), <<>>, current + 1)
        [] action.t = "OpenBlock" /\ takes = "nothing" -> Onward(stack, <<>>, action.pos + 1)
        [] action.t = "OpenBlock" /\ takes = "once" -> Onward(Append(stack, at.v), <<>>, current + 1)
        [] action.t = "OpenBlock" /\ takes = "each" ->
             Turn(RenderEach(t, current, at.v.l, stack, indent, steps), action.pos + 1)

\* The loop from the action current on, each with the fragment before it.
Performed(t, actionEnd, indent, steps, here, turn) ==
  IF turn.is # "ok" THEN Outcome(turn.is, <<>>, turn.stack)
  ELSE After(here \o turn.out, Loop(t, turn.next, actionEnd, turn.stack, indent, steps))

Loop(t, current, actionEnd, stack, indent, steps) ==
  IF steps = 0 THEN Outcome("for ever", <<>>, stack)
  ELSE IF current >= actionEnd
  THEN Outcome("ok", render_fragment(t, actionEnd, indent), stack)
  ELSE Performed(t, actionEnd, indent, steps - 1, render_fragment(t, current, indent),
                 Perform(t, current, find_context(t.actions[current].name, stack),
                         stack, indent, steps - 1))

render_internal(t, actionBegin, actionEnd, stack, indent, steps) ==
  After(Spaces(indent), Loop(t, actionBegin, actionEnd, stack, indent, steps))

-----------------------------------------------------------------------------
Rendering(r, ctx) == [is |-> r.is, out |-> r.out, context |-> ctx]
NoRendering == [is |-> "none", out |-> <<>>, context |-> Value]

TemplateInit ==
  /\ compiled = [is |-> "none"]
  /\ rendered = NoRendering

compile(tokens) ==
  /\ compiled' = [tokens |-> tokens] @@ template_parse(Body(tokens))
  /\ UNCHANGED rendered

render(ctx) ==
  /\ compiled.is = "ok"
  /\ rendered.is = "none"
  /\ rendered' = Rendering(RenderAll(compiled, <<ctx>>, 0, MaxSteps), ctx)
  /\ UNCHANGED compiled

TemplateNext ==
  \/ compiled.is = "none" /\ \E tokens \in Templates : compile(tokens)
  \/ \E ctx \in Contexts : render(ctx)

-----------------------------------------------------------------------------
\* The reference works on the tokens, line by line.

IsText(token, c) == token.k = "Text" /\ token.s = <<c>>
IsOpening(token) == token.k \in {"OpenBlock", "ElseBlock"}

LineStart(tokens, i) == Max({0} \cup {j \in 1 .. i - 1 : IsText(tokens[j], "LF")}) + 1
LineEnd(tokens, i) == Min({Len(tokens) + 1} \cup {j \in i .. Len(tokens) : IsText(tokens[j], "LF")})

\* A tag that stands alone on its line takes the line with it.
IsAlone(tokens, i) ==
  /\ tokens[i].k \notin {"Text", "Tag", "UnescapeTag"}
  /\ \A j \in LineStart(tokens, i) .. LineEnd(tokens, i) - 1 :
       j = i \/ IsText(tokens[j], "SP")
         \/ (IsText(tokens[j], "CR") /\ j > i /\ j = LineEnd(tokens, i) - 1 /\ j < Len(tokens))
\* Spaces after such a tag stay where the text ends without a new line.
Gone(tokens, i) ==
  \E t \in DOMAIN tokens :
     /\ t # i /\ IsAlone(tokens, t)
     /\ i \in LineStart(tokens, t) .. (IF LineEnd(tokens, t) > Len(tokens) THEN t ELSE LineEnd(tokens, t))
IndentOf(tokens, i) == IF IsAlone(tokens, i) THEN i - LineStart(tokens, i) ELSE 0

\* The lines that are left; a partial knows its indent.
LinesOf(tokens) ==
  LET kept == SelectSeq([i \in DOMAIN tokens |-> i], LAMBDA i : ~Gone(tokens, i))
  IN  [n \in DOMAIN kept |-> [indent |-> IndentOf(tokens, kept[n])] @@ tokens[kept[n]]]
Indented(tokens, n) ==
  FlattenSeq([i \in DOMAIN tokens |->
     IF n > 0 /\ LineStart(tokens, i) = i THEN [k \in 1 .. n |-> [k |-> "Text", s |-> <<"SP">>]] \o <<tokens[i]>>
     ELSE <<tokens[i]>>])

\* The tag that closes the block that opens at i.
Depth(tokens, i, j) == Cardinality({x \in i .. j : IsOpening(tokens[x])})
                         - Cardinality({x \in i .. j : tokens[x].k = "CloseBlock"})
Closing(tokens, i) == Min({Len(tokens) + 1} \cup {j \in i + 1 .. Len(tokens) : Depth(tokens, i, j) = 0})
Balanced(tokens) ==
  /\ \A i \in DOMAIN tokens : Depth(tokens, 1, i) >= 0
  /\ Depth(tokens, 1, Len(tokens)) = 0
Matched(tokens) ==
  \A i \in DOMAIN tokens : IsOpening(tokens[i]) => tokens[Closing(tokens, i)].s = tokens[i].s

TagMeans(token, v) ==
  IF v.t \notin {"Number", "String"} THEN <<"throws">>
  ELSE IF v.t = "Number" THEN dump(v)
  ELSE IF token.k = "Tag" THEN escape_html(v.s) ELSE v.s

\* What a block is rendered with, once for each.
ValuesFor(token, at) ==
  LET absent == ~at.found \/ at.v.t \in {"False", "Null"}
  IN  IF token.k = "ElseBlock"
      THEN IF absent \/ (at.v.t = "List" /\ at.v.l = <<>>) THEN <<Value>> ELSE <<>>
      ELSE IF absent THEN <<>> ELSE IF at.v.t = "List" THEN at.v.l ELSE <<at.v>>

RECURSIVE Meaning(_, _)
Meaning(tokens, stack) ==
  LET token == tokens[1]
      Each(block, values) ==
        FlattenSeq([i \in DOMAIN values |-> Meaning(block, Append(stack, values[i]))])
      This(close, at) ==
        CASE token.k = "Text" -> token.s
          [] token.k \in {"Comment", "Delimiters"} -> <<>>
          [] token.k = "Partial" ->
               Meaning(LinesOf(Indented(Partials[token.s], token.indent)), stack)
          [] token.k \in {"Tag", "UnescapeTag"} -> TagMeans(token, at.v)
          [] IsOpening(token) -> Each(SubSeq(tokens, 2, close - 1), ValuesFor(token, at))
      Along(close) ==
        This(close, find_context(token.s, stack))
        \o Meaning(SubSeq(tokens, IF IsOpening(token) THEN close + 1 ELSE 2, Len(tokens)), stack)
  IN  IF tokens = <<>> THEN <<>> ELSE Along(Closing(tokens, 1))

\* The rendering is this text, or fails with it; exact tells whether spaces count.
NoSpaces(chars) == SelectSeq(chars, LAMBDA c : c # "SP")
Says(result, exact) ==
  IF "throws" \in ToSet(result) THEN rendered.is = "throws"
  ELSE /\ rendered.is = "ok"
       /\ NoSpaces(rendered.out) = NoSpaces(result)
       /\ exact => rendered.out = result

\* Whether a partial can be indented.  render_internal() puts the indent before it begins, again
\* before each element of a list, and behind every new line that is not the last of the text: so
\* it leaves one where a tag takes the last line, and it has a nested partial begin twice as far
\* in, or its lines not at all.
CanBeIndented(tokens) ==
  /\ tokens # <<>>
  /\ \A i \in DOMAIN tokens : ~IsOpening(tokens[i]) /\ tokens[i].k # "Partial"
  /\ \A i \in LineStart(tokens, Len(tokens)) .. Len(tokens) : ~IsAlone(tokens, i)
RECURSIVE IndentsWell(_)
IndentsWell(tokens) ==
  \A i \in DOMAIN tokens : tokens[i].k = "Partial" =>
    IF IndentOf(tokens, i) > 0 THEN CanBeIndented(Partials[tokens[i].s])
    ELSE IndentsWell(Partials[tokens[i].s])

\* A template whose blocks are closed is rendered as its tags say: blocks as often as their
\* values ask for and each in its own context, names found in the innermost context that has
\* them, tags that stand alone without a trace of their lines; and crossed blocks are refused.
\* Where a partial is indented that has a block, a partial or such a tag on its last line the
\* code has other spaces than it should, and only the rest of the text is as written.
RendersAsWritten ==
  compiled.is # "none" /\ Balanced(compiled.tokens) =>
    IF ~Matched(compiled.tokens) THEN compiled.is = "throws"
    ELSE /\ compiled.is = "ok"
         /\ rendered.is # "none" =>
              Says(Meaning(LinesOf(compiled.tokens), <<rendered.context>>),
                   IndentsWell(compiled.tokens))
=============================================================================
