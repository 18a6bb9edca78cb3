------------------------------ MODULE Documents ------------------------------
(***************************************************************************)
(* The content of a tool result as the compression crate sees it: a JSON    *)
(* document or lines of text.  Bytes are counted, not spelled: a line, a    *)
(* token or a gap is one item with a size.                                  *)
(*                                                                          *)
(*   [form |-> "json", value |-> v, gaps |-> g]  the tokens of v, with g[i] *)
(*                              bytes of whitespace before the i-th token   *)
(*   [form |-> "text", lines |-> <<l, ...>>]     terminated lines           *)
(***************************************************************************)
EXTENDS Integers, Sequences, FiniteSets, TLC, FiniteSetsExt, SequencesExt

CONSTANT Spaced     \* the file names and texts that contain a space

(* JSON values.  The fields of an object keep the order, and the duplicates, *)
(* they were written with.  A string is short text or lines.                  *)
Null == [k |-> "null"]
Atom(s) == [k |-> "atom", s |-> s]
Str(s) == [k |-> "str", s |-> s]
Text(lines) == [k |-> "text", lines |-> lines]
Arr(items) == [k |-> "arr", items |-> items]
Obj(fields) == [k |-> "obj", fields |-> fields]

IsScalar(v) == v.k \notin {"arr", "obj"}
Keys(v) == {v.fields[i][1] : i \in DOMAIN v.fields}
Field(v, key) == v.fields[CHOOSE i \in DOMAIN v.fields : v.fields[i][1] = key][2]

(* Lines of text.  A match is `file:number:text`, an event a line of          *)
(* `rg --json`, a row `number TAB text`, a log has a second word that may     *)
(* repeat; a text "else:" ends with a colon.                                  *)
Match(f, n, t) == [form |-> "match", file |-> f, number |-> n, text |-> t]
Row(n, t) == [form |-> "row", number |-> n, text |-> t]
Event(type, f, n, t) ==
    [form |-> "event", type |-> type, file |-> f, number |-> n, text |-> t]
Header(f) == [form |-> "header", file |-> f]
Log(stamp, word, rest) == [form |-> "log", stamp |-> stamp, word |-> word, rest |-> rest]
Prose(t) == [form |-> "prose", text |-> t]
Title == Prose("[search results]")

Colon(t) == t \in {"", "else:", "Results:"}

Digits(n) == Len(ToString(n))

(* The bytes of a line, its newline included.                                 *)
LineSize(l) ==
    CASE l.form = "match" -> Len(l.file) + Digits(l.number) + Len(l.text) + 3
      [] l.form = "row" -> Digits(l.number) + Len(l.text) + 2
      [] l.form = "event" -> Len(l.file) + Digits(l.number) + Len(l.text) + 60
      [] l.form = "header" -> Len(l.file) + 2
      [] l.form = "log" -> Len(l.stamp) + Len(l.word) + Len(l.rest) + 3
      [] l.form = "prose" -> Len(l.text) + 1

Total(S(_), seq) == FoldLeft(LAMBDA sum, x : sum + S(x), 0, seq)
LinesSize(lines) == Total(LineSize, lines)

(* As a JSON string: quotes, and an escape for every newline, tab and quote.  *)
Escapes(l) == IF l.form = "row" THEN 2 ELSE IF l.form = "event" THEN 25 ELSE 1
EncodedSize(lines) == LinesSize(lines) + Total(Escapes, lines) + 2

(* The tokens of a value, each with its size.                                 *)
Token(t, n) == [token |-> t, size |-> n]
Mark(s) == Token([k |-> "mark", s |-> s], 1)
Gap(n) == Token([k |-> "gap"], n)
Joined(parts) ==
    FoldLeft(LAMBDA t, p : IF t = << >> THEN p ELSE t \o <<Mark(",")>> \o p, << >>, parts)

ScalarSize(v) ==
    CASE v.k = "null" -> 4
      [] v.k = "atom" -> Len(v.s)
      [] v.k = "str" -> Len(v.s) + 2
      [] v.k = "text" -> EncodedSize(v.lines)

RECURSIVE Tokens(_)
Tokens(v) ==
    CASE v.k = "arr" ->
           <<Mark("[")>> \o Joined([i \in DOMAIN v.items |-> Tokens(v.items[i])])
             \o <<Mark("]")>>
      [] v.k = "obj" ->
           <<Mark("{")>>
             \o Joined([i \in DOMAIN v.fields |->
                   <<Token(Str(v.fields[i][1]), Len(v.fields[i][1]) + 2), Mark(":")>>
                     \o Tokens(v.fields[i][2])])
             \o <<Mark("}")>>
      [] OTHER -> <<Token(v, ScalarSize(v))>>

TokenSize(t) == t.size
TokensSize(tokens) == Total(TokenSize, tokens)

(* The size of all of them, without writing them down.                        *)
Commas(seq) == IF seq = << >> THEN 0 ELSE Len(seq) - 1
RECURSIVE ValueSize(_)
ValueSize(v) ==
    CASE v.k = "arr" -> 2 + Commas(v.items) + Total(ValueSize, v.items)
      [] v.k = "obj" -> 2 + Commas(v.fields)
                          + Total(LAMBDA f : Len(f[1]) + 3 + ValueSize(f[2]), v.fields)
      [] OTHER -> ScalarSize(v)

(* The bytes of a document: its gaps are tokens of whitespace among the rest. *)
Bytes(doc) ==
    LET tokens == Tokens(doc.value)
    IN  FoldLeft(LAMBDA out, i : IF doc.gaps[i] = 0 THEN Append(out, tokens[i])
                                 ELSE out \o <<Gap(doc.gaps[i]), tokens[i]>>,
                 << >>, [i \in DOMAIN tokens |-> i])

Json(v, gap) == [form |-> "json", value |-> v, gaps |-> [i \in DOMAIN Tokens(v) |-> gap]]
Plain(lines) == [form |-> "text", lines |-> lines]

Size(doc) ==
    IF doc.form = "json" THEN ValueSize(doc.value) + Total(LAMBDA g : g, doc.gaps)
    ELSE LinesSize(doc.lines)

(* The size of the JSON string that holds a content inside the request: its   *)
(* quotes are escaped, and its escapes once more.                             *)
HeldEscapes(t) ==
    CASE t.token.k = "str" -> 2
      [] t.token.k = "text" -> 2 + Total(Escapes, t.token.lines)
      [] OTHER -> 0
HeldSize(doc) ==
    IF doc.form = "json" THEN Size(doc) + Total(HeldEscapes, Bytes(doc)) + 2
    ELSE EncodedSize(doc.lines)

(* The values inside v, itself included.                                      *)
RECURSIVE Subvalues(_)
Subvalues(v) ==
    {v} \cup (CASE v.k = "arr" -> UNION {Subvalues(v.items[i]) : i \in DOMAIN v.items}
                [] v.k = "obj" -> UNION {Subvalues(v.fields[i][2]) : i \in DOMAIN v.fields}
                [] OTHER -> {})

(* DuplicateParser: a key written twice in one object.                        *)
HasDuplicateKeys(v) ==
    \E o \in Subvalues(v) : o.k = "obj" /\ Cardinality(Keys(o)) < Len(o.fields)
=============================================================================
