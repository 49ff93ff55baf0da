-------------------------------- MODULE Json --------------------------------
(***************************************************************************)
(* crow::json: load() makes an rvalue of a text, a wvalue is built by      *)
(* assignments or from an rvalue, and dump() writes it out.                *)
(*                                                                         *)
(* A text is a sequence of characters; "true", "false" and "null" are one  *)
(* symbol.  An rvalue keeps strings and numbers as they are spelled; a     *)
(* wvalue has the string itself and the number.  Numbers are integers, and *)
(* Precision stands for the six digits of %g.                              *)
(***************************************************************************)
EXTENDS Integers, Sequences, FiniteSets, FiniteSetsExt, SequencesExt, TLC

CONSTANTS
  Precision,
  Texts,      \* the texts that may arrive
  Paths,      \* where values are assigned: sequences of [by, index, key]
  Scalars,    \* what is assigned
  MaxAssigned,
  NoText

VARIABLES
  built,      \* the wvalue a handler builds
  assigned,   \* history: the assignments, [path, x]
  text,       \* what dump() has written, or what has arrived
  loaded      \* what load() has made of it

jsonVars == <<built, assigned, text, loaded>>

-----------------------------------------------------------------------------
\* Characters.

DigitSeq == <<"0", "1", "2", "3", "4", "5", "6", "7", "8", "9">>
HexSeq == DigitSeq \o <<"a", "b", "c", "d", "e", "f">>
DigitSet == ToSet(DigitSeq)
IsDigit(c) == c \in DigitSet
HexOf == [c \in ToSet(HexSeq) \cup {"A", "B", "C", "D", "E", "F"} |->
            CASE c = "A" -> 10 [] c = "B" -> 11 [] c = "C" -> 12 [] c = "D" -> 13
              [] c = "E" -> 14 [] c = "F" -> 15 [] OTHER -> SelectInSeq(HexSeq, LAMBDA h : h = c) - 1]
from_hex(c) == HexOf[c]
IsHexDigit(c) == c \in DOMAIN HexOf

Whitespace == {"SP", "TAB", "CR", "LF"}
\* What follows the backslash, and the character it stands for.
Escapes == [c \in {"\"", "\\", "/", "b", "f", "n", "r", "t"} |->
              CASE c = "b" -> "BS" [] c = "f" -> "FF" [] c = "n" -> "LF"
                [] c = "r" -> "CR" [] c = "t" -> "TAB" [] OTHER -> c]
\* The characters below 0x20 that have no such spelling, and some that need none.
CodeOf == [SOH |-> 1, US |-> 31, SP |-> 32, A |-> 65, a |-> 97]
CharOf(code) ==
  IF \E c \in DOMAIN CodeOf : CodeOf[c] = code
  THEN CHOOSE c \in DOMAIN CodeOf : CodeOf[c] = code
  ELSE ToString(code)   \* a byte with no name here

-----------------------------------------------------------------------------
\* Values.

Value == [t |-> "Null", s |-> <<>>, d |-> 0, keys |-> <<>>, l |-> <<>>]
Scalar(t) == [Value EXCEPT !.t = t]
Text(s) == [Value EXCEPT !.t = "String", !.s = s]
Num(n) == [Value EXCEPT !.t = "Number", !.d = n]

-----------------------------------------------------------------------------
\* load(): where the parser is, and what it has.  d is the text with its NUL.

Failed == [ok |-> FALSE, p |-> 0, v |-> Value]
Got(p, v) == [ok |-> TRUE, p |-> p, v |-> v]

RECURSIVE ws_skip(_, _)
ws_skip(d, p) == IF d[p] \in Whitespace THEN ws_skip(d, p + 1) ELSE p

\* The closing quote of the string that goes on at p; 0 if there is none.
RECURSIVE StringEnd(_, _)
StringEnd(d, p) ==
  CASE d[p] = "\"" -> p
    [] d[p] = "NUL" -> 0
    [] d[p] = "\\" /\ d[p + 1] \in DOMAIN Escapes -> StringEnd(d, p + 2)
    [] d[p] = "\\" /\ d[p + 1] = "u" ->
         IF p + 5 < Len(d) /\ \A i \in p + 2 .. p + 5 : IsHexDigit(d[i])
         THEN StringEnd(d, p + 6) ELSE 0
    [] d[p] = "\\" /\ d[p + 1] \notin DOMAIN Escapes \cup {"u"} -> 0
    [] OTHER -> StringEnd(d, p + 1)

decode_string(d, p) ==
  LET e == IF d[p] = "\"" THEN StringEnd(d, p + 1) ELSE 0
  IN  IF e = 0 THEN Failed ELSE Got(e + 1, Text(SubSeq(d, p + 1, e - 1)))

\* The tables of decode_number(); Invalid is the state that ends it.
NumberParsingState ==
  [Minus             |-> [zero |-> "ZeroFirst", digit |-> "Digits", minus |-> "AfterMinus"],
   AfterMinus        |-> [zero |-> "ZeroFirst", digit |-> "Digits"],
   ZeroFirst         |-> [point |-> "DigitsAfterPoints"],
   Digits            |-> [zero |-> "Digits", digit |-> "Digits", point |-> "DigitsAfterPoints",
                          e |-> "E"],
   DigitsAfterPoints |-> [zero |-> "DigitsAfterPoints", digit |-> "DigitsAfterPoints", e |-> "E"],
   E                 |-> [zero |-> "DigitsAfterE", digit |-> "DigitsAfterE",
                          minus |-> "DigitsAfterE", plus |-> "DigitsAfterE"],
   DigitsAfterE      |-> [zero |-> "DigitsAfterE", digit |-> "DigitsAfterE"]]
MayEnd == {"ZeroFirst", "Digits", "DigitsAfterPoints", "DigitsAfterE"}

NumberChar(c) ==
  CASE c = "0" -> "zero" [] c = "." -> "point" [] c = "-" -> "minus" [] c = "+" -> "plus"
    [] c \in {"e", "E"} -> "e" [] IsDigit(c) /\ c # "0" -> "digit" [] OTHER -> "other"

RECURSIVE NumberFrom(_, _, _, _)
NumberFrom(d, start, p, state) ==
  LET class == NumberChar(d[p])
  IN  IF class = "other"
      THEN IF state \in MayEnd
           THEN Got(p, [Value EXCEPT !.t = "Number", !.s = SubSeq(d, start, p - 1)])
           ELSE Failed
      ELSE IF class \in DOMAIN NumberParsingState[state]
      THEN NumberFrom(d, start, p + 1, NumberParsingState[state][class])
      ELSE Failed
decode_number(d, p) == NumberFrom(d, p, p, "Minus")

\* unescape()
RECURSIVE unescape(_)
unescape(s) ==
  IF s = <<>> THEN <<>>
  ELSE IF s[1] # "\\" THEN <<s[1]>> \o unescape(Tail(s))
  ELSE IF s[2] # "u" THEN <<Escapes[s[2]]>> \o unescape(SubSeq(s, 3, Len(s)))
  ELSE LET code == FoldLeft(LAMBDA n, c : n * 16 + from_hex(c), 0, SubSeq(s, 3, 6))
           bytes == CASE code >= 2048 -> <<224 + (code \div 4096), 128 + ((code \div 64) % 64), 128 + (code % 64)>>
                      [] code >= 128 /\ code < 2048 -> <<192 + (code \div 64), 128 + (code % 64)>>
                      [] code < 128 -> <<code>>
       IN  [i \in DOMAIN bytes |-> CharOf(bytes[i])] \o unescape(SubSeq(s, 7, Len(s)))

\* An element is appended to a list or an object only when it has parsed.
emplace_back(v, key, x) == [v EXCEPT !.keys = Append(@, key), !.l = Append(@, x)]

RECURSIVE decode_value(_, _), ListFrom(_, _, _), ObjectFrom(_, _, _)

ListFrom(d, p, ret) ==
  LET v == decode_value(d, p)
      q == ws_skip(d, v.p)
      more == emplace_back(ret, <<>>, v.v)
  IN  IF ~v.ok THEN Failed
      ELSE CASE d[q] = "]" -> Got(q + 1, more)
             [] d[q] = "," -> ListFrom(d, ws_skip(d, q + 1), more)
             [] OTHER      -> Failed

decode_list(d, p) ==
  LET q == ws_skip(d, p + 1)
  IN  IF d[q] = "]" THEN Got(q + 1, Scalar("List")) ELSE ListFrom(d, q, Scalar("List"))

ObjectFrom(d, p, ret) ==
  LET t == decode_string(d, p)
      colon == ws_skip(d, t.p)
      v == decode_value(d, ws_skip(d, colon + 1))
      q == ws_skip(d, v.p)
      more == emplace_back(ret, unescape(t.v.s), v.v)
  IN  IF ~t.ok THEN Failed
      ELSE IF d[colon] # ":" THEN Failed
      ELSE IF ~v.ok THEN Failed
      ELSE CASE d[q] = "}" -> Got(q + 1, more)
             [] d[q] = "," -> ObjectFrom(d, ws_skip(d, q + 1), more)
             [] OTHER      -> Failed

decode_object(d, p) ==
  LET q == ws_skip(d, p + 1)
  IN  IF d[q] = "}" THEN Got(q + 1, Scalar("Object")) ELSE ObjectFrom(d, q, Scalar("Object"))

decode_value(d, p) ==
  CASE d[p] = "["     -> decode_list(d, p)
    [] d[p] = "{"     -> decode_object(d, p)
    [] d[p] = "\""    -> decode_string(d, p)
    [] d[p] = "true"  -> Got(p + 1, Scalar("True"))
    [] d[p] = "false" -> Got(p + 1, Scalar("False"))
    [] d[p] = "null"  -> Got(p + 1, Scalar("Null"))
    [] OTHER          -> decode_number(d, p)

\* parse(): what comes after the value must be the end, which a NUL in the text is as well.
parseAnyEnd(d) ==  \* mutant
  decode_value(d, ws_skip(d, 1))

parse(d) ==
  LET AtEnd(ret) == IF ret.ok /\ d[ws_skip(d, ret.p)] # "NUL" THEN Failed ELSE ret
  IN  AtEnd(decode_value(d, ws_skip(d, 1)))

load(t) == parse(Append(t, "NUL"))

-----------------------------------------------------------------------------
\* Reading an rvalue.  A function that throws gives the empty set.

Powers == <<1, 10, 100, 1000, 10000, 100000, 1000000, 10000000, 100000000>>
Power(n) == Powers[n + 1]
Natural(digits) == FoldLeft(LAMBDA n, c : n * 10 + from_hex(c), 0, digits)

\* d(): lexical_cast reads the sign, the digits with their point, and the exponent, which it
\* refuses without digits.
Signed(s, n) == IF "-" \in ToSet(s) THEN 0 - n ELSE n
Shifted(n, shift) == IF shift >= 0 THEN n * Power(shift) ELSE n \div Power(0 - shift)
Places(mantissa, point) == IF point = 0 THEN 0 ELSE Len(mantissa) - point

Numeral(mantissa, exponent) ==
  LET point == SelectInSeq(mantissa, LAMBDA c : c = ".")
      shift == Signed(exponent, Natural(SelectSeq(exponent, IsDigit))) - Places(mantissa, point)
  IN  Signed(mantissa, Shifted(Natural(SelectSeq(mantissa, IsDigit)), shift))

rvalue_d(r) ==
  LET Cut(e) == IF e = 0 THEN {Numeral(r.s, <<>>)}
                ELSE IF \A i \in e .. Len(r.s) : ~IsDigit(r.s[i]) THEN {}
                ELSE {Numeral(SubSeq(r.s, 1, e - 1), SubSeq(r.s, e + 1, Len(r.s)))}
  IN  IF r.t # "Number" THEN {} ELSE Cut(SelectInSeq(r.s, LAMBDA c : c \in {"e", "E"}))

rvalue_s(r) == IF r.t = "String" THEN {unescape(r.s)} ELSE {}

\* operator[]: among equal keys the one std::sort leaves first.
Element(r, index) == IF r.t = "List" /\ index \in 0 .. Len(r.l) - 1 THEN {r.l[index + 1]} ELSE {}
Member(r, key) ==
  IF r.t = "Object" THEN {r.l[i] : i \in {j \in DOMAIN r.l : r.keys[j] = key}} ELSE {}

-----------------------------------------------------------------------------
\* wvalue.

\* The constructor from an rvalue: the first of equal keys stays.  The set is empty when a
\* number in it cannot be read.
RECURSIVE wvalue(_)
wvalue(r) ==
  LET kept == SelectSeq([i \in DOMAIN r.l |-> i],
                LAMBDA i : r.t = "List" \/ \A j \in 1 .. i - 1 : r.keys[j] # r.keys[i])
      parts == [i \in DOMAIN kept |-> wvalue(r.l[kept[i]])]
  IN  CASE r.t \in {"Null", "False", "True"} -> {Scalar(r.t)}
        [] r.t = "Number" -> {Num(n) : n \in rvalue_d(r)}
        [] r.t = "String" -> {Text(x) : x \in rvalue_s(r)}
        [] r.t \in {"List", "Object"} ->
             IF \E i \in DOMAIN r.l : wvalue(r.l[i]) = {} THEN {}
             ELSE {[Scalar(r.t) EXCEPT !.keys = [i \in DOMAIN kept |-> r.keys[kept[i]]],
                                       !.l = [i \in DOMAIN kept |-> CHOOSE x \in parts[i] : TRUE]]}

\* operator[] of a wvalue makes it a list or an object, and what it was is lost.
As(v, t) == IF v.t = t THEN v ELSE Scalar(t)

Padded(v, index) ==
  [v EXCEPT !.keys = @ \o [i \in 1 .. Max({0, index + 1 - Len(@)}) |-> <<>>],
            !.l = @ \o [i \in 1 .. Max({0, index + 1 - Len(@)}) |-> Value]]
KeyIn(v, key) == IF \E i \in DOMAIN v.keys : v.keys[i] = key THEN v
                 ELSE emplace_back(v, key, Value)

\* v[path[1]][path[2]]... = x; a step of the path is an index or a key.
RECURSIVE Assign(_, _, _)
Assign(v, path, x) ==
  LET list == Padded(As(v, "List"), path[1].index)
      object == KeyIn(As(v, "Object"), path[1].key)
      at == CHOOSE i \in DOMAIN object.keys : object.keys[i] = path[1].key
  IN  IF path = <<>> THEN x
      ELSE IF path[1].by = "index"
      THEN [list EXCEPT !.l[path[1].index + 1] = Assign(@, Tail(path), x)]
      ELSE [object EXCEPT !.l[at] = Assign(@, Tail(path), x)]

-----------------------------------------------------------------------------
\* dump().

EscapedNoQuote(c) ==  \* mutant
  IF c \in {"LF", "BS", "FF", "CR", "TAB"}
  THEN <<"\\", CHOOSE e \in DOMAIN Escapes : Escapes[e] = c>>
  ELSE <<c>>

Escaped(c) ==
  IF c \in {"\"", "\\", "LF", "BS", "FF", "CR", "TAB"}
  THEN <<"\\", CHOOSE e \in DOMAIN Escapes : Escapes[e] = c>>
  ELSE IF c \in DOMAIN CodeOf /\ CodeOf[c] < 32
  THEN <<"\\", "u", "0", "0", HexSeq[(CodeOf[c] \div 16) + 1], HexSeq[(CodeOf[c] % 16) + 1]>>
  ELSE <<c>>

escape(str) == FlattenSeq([i \in DOMAIN str |-> Escaped(str[i])])
dump_string(str) == <<"\"">> \o escape(str) \o <<"\"">>

Decimal(n) == LET digits == CHOOSE k \in 1 .. 8 : n < Power(k) /\ (k = 1 \/ n >= Power(k - 1))
              IN  [i \in 1 .. digits |-> DigitSeq[((n \div Power(digits - i)) % 10) + 1]]

\* %g of an integer: past Precision digits it is rounded, half to even.
RoundedTo(n, unit) ==
  LET rest == 2 * (n % unit)
  IN  IF rest > unit \/ (rest = unit /\ (n \div unit) % 2 = 1) THEN n \div unit + 1 ELSE n \div unit

Scientific(kept, last, x) ==
  <<kept[1]>> \o (IF last > 1 THEN <<".">> \o SubSeq(kept, 2, last) ELSE <<>>)
    \o <<"e", "+">> \o (IF x < 10 THEN <<"0">> ELSE <<>>) \o Decimal(x)

General(n) ==
  LET Short(whole, kept) ==
        Scientific(kept, SelectLastInSeq(kept, LAMBDA c : c # "0"),
                   Len(whole) - 1 + (Len(kept) - Precision))
      Shown(whole) ==
        IF Len(whole) <= Precision THEN whole
        ELSE Short(whole, Decimal(RoundedTo(n, Power(Len(whole) - Precision))))
  IN  Shown(Decimal(n))

RECURSIVE dump(_)
dump(v) ==
  LET comma(i) == IF i = 1 THEN <<>> ELSE <<",">>
  IN  CASE v.t = "Null"   -> <<"null">>
        [] v.t = "False"  -> <<"false">>
        [] v.t = "True"   -> <<"true">>
        [] v.t = "Number" -> IF v.d < 0 THEN <<"-">> \o General(0 - v.d) ELSE General(v.d)
        [] v.t = "String" -> dump_string(v.s)
        [] v.t = "List"   ->
             <<"[">> \o FlattenSeq([i \in DOMAIN v.l |-> comma(i) \o dump(v.l[i])]) \o <<"]">>
        [] v.t = "Object" ->
             <<"{">> \o FlattenSeq([i \in DOMAIN v.l |->
                          comma(i) \o dump_string(v.keys[i]) \o <<":">> \o dump(v.l[i])]) \o <<"}">>

-----------------------------------------------------------------------------
JsonInit ==
  /\ built = Value
  /\ assigned = <<>>
  /\ text = NoText
  /\ loaded = Failed

Set(path, x) ==
  /\ text = NoText
  /\ Len(assigned) < MaxAssigned
  /\ built' = Assign(built, path, x)
  /\ assigned' = Append(assigned, [path |-> path, x |-> x])
  /\ UNCHANGED <<text, loaded>>

Dump ==
  /\ text = NoText
  /\ text' = dump(built)
  /\ UNCHANGED <<built, assigned, loaded>>

\* External: a request brings a body.
Arrive ==
  /\ text = NoText /\ assigned = <<>>
  /\ text' \in Texts
  /\ UNCHANGED <<built, assigned, loaded>>

Load ==
  /\ text # NoText
  /\ ~loaded.ok
  /\ loaded' = load(text)
  /\ UNCHANGED <<built, assigned, text>>

JsonNext ==
  \/ \E path \in Paths, x \in Scalars : Set(path, x)
  \/ Dump
  \/ Arrive
  \/ Load

-----------------------------------------------------------------------------
\* The reference: the grammar of JSON.  lenient adds what load() takes beyond it: digits may be
\* missing after a point or the sign of an exponent, and a string may contain control characters.

Part(t, i, j) == SubSeq(t, i, j)
Visible(c) == c \notin Whitespace
Blank(t) == SelectInSeq(t, Visible) = 0
Trim(t) == IF Blank(t) THEN <<>> ELSE Part(t, SelectInSeq(t, Visible), SelectLastInSeq(t, Visible))
Controls == {"SOH", "US", "BS", "FF", "LF", "CR", "TAB"}

RECURSIVE IsChars(_, _)
IsChars(t, lenient) ==
  \/ t = <<>>
  \/ t[1] \notin {"\"", "\\", "NUL"} /\ (lenient \/ t[1] \notin Controls) /\ IsChars(Tail(t), lenient)
  \/ Len(t) > 1 /\ t[1] = "\\" /\ t[2] \in DOMAIN Escapes /\ IsChars(Part(t, 3, Len(t)), lenient)
  \/ Len(t) > 5 /\ t[1] = "\\" /\ t[2] = "u" /\ (\A i \in 3 .. 6 : IsHexDigit(t[i]))
       /\ IsChars(Part(t, 7, Len(t)), lenient)
IsString(t, lenient) ==
  Len(t) > 1 /\ t[1] = "\"" /\ Last(t) = "\"" /\ IsChars(Part(t, 2, Len(t) - 1), lenient)

AllDigits(t) == \A i \in DOMAIN t : IsDigit(t[i])
IsInteger(t) == LET u == IF t # <<>> /\ t[1] = "-" THEN Tail(t) ELSE t
                IN  u # <<>> /\ AllDigits(u) /\ (u[1] = "0" => Len(u) = 1)
IsFraction(t, lenient) ==
  t = <<>> \/ (t[1] = "." /\ AllDigits(Tail(t)) /\ (lenient \/ Len(t) > 1))
IsExponent(t, lenient) ==
  LET signed == Len(t) > 1 /\ t[2] \in {"+", "-"}
      u == Part(t, IF signed THEN 3 ELSE 2, Len(t))
  IN  t = <<>> \/ (t[1] \in {"e", "E"} /\ AllDigits(u) /\ (u # <<>> \/ (lenient /\ signed)))
IsNumber(t, lenient) ==
  \E i \in 0 .. Len(t) : \E j \in i .. Len(t) :
     IsInteger(Part(t, 1, i)) /\ IsFraction(Part(t, i + 1, j), lenient)
       /\ IsExponent(Part(t, j + 1, Len(t)), lenient)

RECURSIVE IsValue(_, _), IsElements(_, _), IsMembers(_, _)
IsElement(t, lenient) == IsValue(Trim(t), lenient)
IsElements(t, lenient) ==
  \/ IsElement(t, lenient)
  \/ \E i \in DOMAIN t : t[i] = "," /\ IsElement(Part(t, 1, i - 1), lenient)
                           /\ IsElements(Part(t, i + 1, Len(t)), lenient)
IsMember(t, lenient) ==
  \E i \in DOMAIN t : t[i] = ":" /\ IsString(Trim(Part(t, 1, i - 1)), lenient)
                         /\ IsElement(Part(t, i + 1, Len(t)), lenient)
IsMembers(t, lenient) ==
  \/ IsMember(t, lenient)
  \/ \E i \in DOMAIN t : t[i] = "," /\ IsMember(Part(t, 1, i - 1), lenient)
                           /\ IsMembers(Part(t, i + 1, Len(t)), lenient)
Within(t, open, close) == Len(t) > 1 /\ t[1] = open /\ Last(t) = close
Inside(t) == Part(t, 2, Len(t) - 1)
IsValue(t, lenient) ==
  \/ t \in {<<"true">>, <<"false">>, <<"null">>}
  \/ IsString(t, lenient)
  \/ IsNumber(t, lenient)
  \/ Within(t, "[", "]") /\ (Blank(Inside(t)) \/ IsElements(Inside(t), lenient))
  \/ Within(t, "{", "}") /\ (Blank(Inside(t)) \/ IsMembers(Inside(t), lenient))

IsJson(t, lenient) == IsElement(t, lenient)

\* What a C string holds of a text.
UpToNul(t) ==
  LET q == SelectInSeq(t, LAMBDA c : c = "NUL") IN IF q = 0 THEN t ELSE Part(t, 1, q - 1)
\* A zero right before an exponent, which load() refuses.
ZeroExponent(t) ==
  \E i \in 1 .. Len(t) - 1 :
     t[i] = "0" /\ t[i + 1] \in {"e", "E"} /\ (i = 1 \/ (~IsDigit(t[i - 1]) /\ t[i - 1] # "."))

-----------------------------------------------------------------------------
\* load() accepts every JSON text that arrives, but for a zero with an exponent, and nothing else than JSON
\* as read leniently, up to a NUL.
AcceptsJson ==
  LET Fits(ok) == /\ IsJson(text, FALSE) /\ ~ZeroExponent(text) => ok
                  /\ ok => IsJson(UpToNul(text), TRUE)
  IN  text # NoText /\ assigned = <<>> => Fits(load(text).ok)

\* %g leaves a number of more than Precision digits within half a unit of its last digit.
Near(n, m) ==
  LET unit == Power(Max({Len(Decimal(IF n < 0 THEN 0 - n ELSE n)), Precision}) - Precision)
  IN  2 * (n - m) \in 0 - unit .. unit

RECURSIVE Alike(_, _)
Alike(v, w) ==
  /\ v.t = w.t /\ v.s = w.s /\ v.keys = w.keys /\ Len(v.l) = Len(w.l)
  /\ Near(v.d, w.d) \/ (v.t # "Number" /\ v.d = w.d)
  /\ \A i \in DOMAIN v.l : Alike(v.l[i], w.l[i])

\* What dump() writes of a value that was loaded is loaded as the same value again: nothing in
\* a string or a key can break out of it, and numbers lose only what %g cuts off.
DumpLoadsBack ==
  LET Same(v, again) == again.ok /\ \E w \in wvalue(again.v) : Alike(v, w)
  IN  loaded.ok => \A v \in wvalue(loaded.v) : Same(v, load(dump(v)))

RECURSIVE Read(_, _)
Read(r, path) ==
  IF path = <<>> THEN wvalue(r)
  ELSE UNION {Read(x, Tail(path)) : x \in IF path[1].by = "index" THEN Element(r, path[1].index)
                                                                   ELSE Member(r, path[1].key)}

\* A later assignment replaces an earlier one on its way, or below it, or where the two take the
\* same value for a list and for an object.
Replaces(later, earlier) ==
  LET n == Min({Len(later), Len(earlier)})
      fork == {i \in 1 .. n : later[i] # earlier[i]}
  IN  fork = {} \/ later[Min(fork)].by # earlier[Min(fork)].by

\* Every assignment that no later one has replaced is found again, under its keys and indices,
\* by whoever loads the text.
WhatWasSetIsRead ==
  loaded.ok =>
    \A i \in DOMAIN assigned :
       (\A j \in i + 1 .. Len(assigned) : ~Replaces(assigned[j].path, assigned[i].path))
         => \E w \in Read(loaded.v, assigned[i].path) : Alike(assigned[i].x, w)

\* dump() and load(): what one writes of a value, loaded or built by assignments, the other reads.
DumpedIsRead == DumpLoadsBack /\ WhatWasSetIsRead
=============================================================================
