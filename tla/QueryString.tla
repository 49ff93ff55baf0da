---------------------------- MODULE QueryString ----------------------------
(***************************************************************************)
(* crow::query_string: the parameters of a url.  The object keeps a copy   *)
(* of the url, decodes the values in place and points into it, so a copy   *)
(* or a move of the object must make its pointers point into its own text. *)
(*                                                                         *)
(* A pointer is [block, off].  A short text lies in the object itself, so  *)
(* its block is the holder; a long one has a block of its own.             *)
(***************************************************************************)
EXTENDS Integers, Sequences, FiniteSets, SequencesExt

CONSTANTS
  Holders,    \* the variables of type query_string
  QueryUrls,  \* urls as sequences of pieces, a piece being characters that stand for one
  Parameters, \* the names that are looked up
  MAX_KEY_VALUE_PAIRS_COUNT,
  MaxOps,
  ShortUrl    \* texts of at most this length lie in the object

VARIABLES
  object,     \* of each holder: [url, block, key_value_pairs]
  made,       \* history: the pieces of the url it was made from
  ops         \* history: operations so far, at most MaxOps

queryVars == <<object, made, ops>>

-----------------------------------------------------------------------------
\* qs_parse() and qs_decode() on the characters qs, NUL at the end.

HexValue == [c \in {"0", "1", "2", "3", "4", "5", "6", "7", "8", "9"} |->
               SelectInSeq(<<"0", "1", "2", "3", "4", "5", "6", "7", "8", "9">>, LAMBDA x : x = c) - 1]
\* The characters of the model that a "%" and two digits may spell.
Character(h, l) ==
  LET code == HexValue[h] * 16 + HexValue[l]
  IN  CASE code = 97 -> "a" [] code = 38 -> "&" [] OTHER -> "?"

EndOfPart == {"=", "#", "&", "NUL"}
CROW_QS_ISQSCHR(c) == c \notin EndOfPart

\* strcspn(): the first position from p on that holds one of S; there is always a NUL.
Until(qs, p, S) == CHOOSE q \in p .. Len(qs) : qs[q] \in S \cup {"NUL"} /\ \A i \in p .. q - 1 : qs[i] \notin S \cup {"NUL"}

\* What a value spells, up to its end; cut short by a "%" without two digits.
RECURSIVE Spelled(_, _)
Spelled(qs, p) ==
  IF ~CROW_QS_ISQSCHR(qs[p]) THEN <<>>
  ELSE IF qs[p] = "+" THEN <<"SP">> \o Spelled(qs, p + 1)
  ELSE IF qs[p] # "%" THEN <<qs[p]>> \o Spelled(qs, p + 1)
  ELSE IF qs[p + 1] \in DOMAIN HexValue /\ qs[p + 2] \in DOMAIN HexValue
  THEN <<Character(qs[p + 1], qs[p + 2])>> \o Spelled(qs, p + 3)
  ELSE <<>>

\* The text from p on is overwritten by s and a NUL.
Overwritten(qs, p, s) == [i \in DOMAIN qs |-> IF i < p \/ i > p + Len(s) THEN qs[i]
                                          ELSE IF i = p + Len(s) THEN "NUL" ELSE s[i - p + 1]]
qs_decode(qs, p) == Overwritten(qs, p, Spelled(qs, p))

\* Where the pairs begin; the loop gives up after qs_kv_size of them.
PairStarts(qs, p) ==
  SelectSeq([i \in 1 .. Len(qs) |-> i], LAMBDA i : i = p \/ (i > p /\ qs[i - 1] = "&"))

DecodePair(qs, p) ==
  LET q == Until(qs, p, {"=", "&", "#"})
  IN  IF qs[q] \in {"&", "NUL"} THEN [qs EXCEPT ![q] = "NUL"] ELSE qs_decode(qs, q + 1)

\* With more than MAX_KEY_VALUE_PAIRS_COUNT pairs i ends one too high, and the loop that decodes
\* reads past the array: undefined.
qs_parse(qs) ==
  LET q == Until(qs, 1, {"?", "#"})
      starts == PairStarts(qs, q + 1)
  IN  IF qs[q] = "NUL" THEN [url |-> qs, kv |-> <<>>, defined |-> TRUE]
      ELSE [url |-> FoldLeft(DecodePair, qs, starts), kv |-> starts,
            defined |-> Len(starts) <= MAX_KEY_VALUE_PAIRS_COUNT]

\* qs_strncmp() = 0 of a name of ordinary characters: they are those of the key, and it ends.
RECURSIVE qs_strncmp(_, _, _)
qs_strncmp(name, qs, p) ==
  LET percent == qs[p] = "%"
      known == p + 2 <= Len(qs) /\ qs[p + 1] \in DOMAIN HexValue /\ qs[p + 2] \in DOMAIN HexValue
      u2 == IF ~percent THEN (IF qs[p] = "+" THEN "SP" ELSE qs[p])
            ELSE IF known THEN Character(qs[p + 1], qs[p + 2]) ELSE "NUL"
  IN  IF name = <<>> THEN ~CROW_QS_ISQSCHR(qs[p])
      ELSE CROW_QS_ISQSCHR(qs[p]) /\ u2 = name[1]
             /\ qs_strncmp(Tail(name), qs, IF percent THEN p + 3 ELSE p + 1)

\* The C string at p.
CString(qs, p) == SubSeq(qs, p, Until(qs, p, {}) - 1)

-----------------------------------------------------------------------------
\* The object.

Empty(h) == [url |-> <<"NUL">>, block |-> <<h, 0>>, key_value_pairs |-> <<>>, defined |-> TRUE]

RebasedNot(p, old, new) == p  \* mutant

\* p - old.c_str() + url_.c_str()
Rebased(p, old, new) == IF p.block = old THEN [p EXCEPT !.block = new] ELSE p

\* A short text is in block <<h, 0>>, a long one in a block of its own.
NewBlock(h, url) == <<h, IF Len(url) <= ShortUrl + 1 THEN 0 ELSE ops + 1>>

Rebasing(o, block) ==
  [o EXCEPT !.block = block,
            !.key_value_pairs = [i \in DOMAIN @ |-> Rebased(@[i], o.block, block)]]

QueryInit ==
  /\ object = [h \in Holders |-> Empty(h)]
  /\ made = [h \in Holders |-> <<>>]
  /\ ops = 0

Construct(h, pieces) ==
  LET parsed == qs_parse(Append(FlattenSeq(pieces), "NUL"))
      block == NewBlock(h, parsed.url)
  IN  /\ object' = [object EXCEPT ![h] =
           [url |-> parsed.url, block |-> block, defined |-> parsed.defined,
            key_value_pairs |-> [i \in DOMAIN parsed.kv |-> [block |-> block, off |-> parsed.kv[i]]]]]
      /\ made' = [made EXCEPT ![h] = pieces]
      /\ ops' = ops + 1

Copy(from, to) ==
  /\ from # to
  /\ object' = [object EXCEPT ![to] = Rebasing(object[from], NewBlock(to, object[from].url))]
  /\ made' = [made EXCEPT ![to] = made[from]]

\* A long text moves with its block.
Move(from, to) ==
  LET block == IF object[from].block = <<from, 0>> THEN <<to, 0>> ELSE object[from].block
  IN  /\ from # to
      /\ object' = [object EXCEPT ![to] = Rebasing(object[from], block), ![from] = Empty(from)]
      /\ made' = [made EXCEPT ![to] = made[from], ![from] = <<>>]

clear(h) ==
  /\ object' = [object EXCEPT ![h] = Empty(h)]
  /\ made' = [made EXCEPT ![h] = <<>>]

QueryNext ==
  \/ ops = 0 /\ \E h \in Holders, pieces \in QueryUrls : Construct(h, pieces)
  \/ /\ ops \in 1 .. MaxOps - 1
     /\ ops' = ops + 1
     /\ \/ \E from, to \in Holders : Copy(from, to) \/ Move(from, to)
        \/ \E h \in Holders : clear(h)

\* qs_k2v() for nth = 0, 1, ...: the values of name.  A pointer into another block is undefined.
Dangling == <<"undefined">>
qs_k2v(o, name) ==
  LET hits == SelectSeq(o.key_value_pairs, LAMBDA p : p.block # o.block \/ qs_strncmp(name, o.url, p.off))
      value(p) == LET skip == Until(o.url, p.off, {"="})
                  IN  CString(o.url, IF o.url[skip] = "=" THEN skip + 1 ELSE skip)
  IN  [i \in DOMAIN hits |-> IF hits[i].block # o.block THEN Dangling ELSE value(hits[i])]

get_list(o, name) == qs_k2v(o, name \o <<"[", "]">>)

-----------------------------------------------------------------------------
\* The reference works on the pieces.

MeaningOf(piece) ==
  CASE piece = <<"+">> -> <<"SP">>
    [] piece[1] = "%"  -> IF Len(piece) = 3 THEN <<Character(piece[2], piece[3])>> ELSE <<"bad">>
    [] OTHER           -> piece

FirstOf(pieces, S) ==
  LET q == SelectInSeq(pieces, LAMBDA piece : piece \in S) IN IF q = 0 THEN Len(pieces) + 1 ELSE q
Behind(pieces, S) == SubSeq(pieces, FirstOf(pieces, S) + 1, Len(pieces))
UpTo(pieces, S) == SubSeq(pieces, 1, FirstOf(pieces, S) - 1)
Meant(pieces) == FlattenSeq([i \in DOMAIN pieces |-> MeaningOf(pieces[i])])

RECURSIVE Pairs(_)
Pairs(pieces) ==
  <<UpTo(pieces, {<<"&">>})>> \o
    (IF FirstOf(pieces, {<<"&">>}) > Len(pieces) THEN <<>> ELSE Pairs(Behind(pieces, {<<"&">>})))

\* A key ends at "=" or "#"; a value also at a second "=", and at a "%" that spells nothing.
KeyOf(pair) == Meant(UpTo(pair, {<<"=">>, <<"#">>}))
ValueOf(pair) ==
  IF FirstOf(pair, {<<"=">>}) > FirstOf(pair, {<<"#">>}) THEN <<>>
  ELSE LET v == Meant(UpTo(Behind(pair, {<<"=">>}), {<<"=">>, <<"#">>}))
           q == SelectInSeq(v, LAMBDA c : c = "bad")
       IN  IF q = 0 THEN v ELSE SubSeq(v, 1, q - 1)

Values(pieces, name) ==
  LET start == {<<"?">>, <<"#">>}
      all == IF FirstOf(pieces, start) > Len(pieces) THEN <<>> ELSE Pairs(Behind(pieces, start))
      hits == SelectSeq(all, LAMBDA pair : KeyOf(pair) = name)
  IN  [i \in DOMAIN hits |-> ValueOf(hits[i])]

\* Whatever has been copied, moved and cleared, a query string has the parameters of the url it
\* was made from, decoded, in their order, as long as they fit its array.
ParametersOfItsUrl ==
  \A h \in Holders : object[h].defined =>
    \A name \in Parameters :
      /\ qs_k2v(object[h], name) = Values(made[h], name)
      /\ get_list(object[h], name) = Values(made[h], name \o <<"[", "]">>)
=============================================================================
