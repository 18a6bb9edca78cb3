------------------------------ MODULE SpanIndex ------------------------------
(***************************************************************************)
(* The raw-span indexer of tracepress-context: a bounded scan of one       *)
(* request's bytes, with an explicit stack, that records where every JSON  *)
(* value it visits begins and ends.                                        *)
(*                                                                         *)
(* A request is a sequence of letters, each standing for one byte.  The    *)
(* grammar's own bytes are letters of their own; a whole word ("input",    *)
(* "message") is one letter; "1" is any digit; a literal takes two         *)
(* letters; "half" is an escaped lone surrogate and "nul" an escaped NUL.  *)
(* A sign, an exponent and a leading zero are left out of numbers.  One    *)
(* action is one look at the next letter.                                  *)
(***************************************************************************)
EXTENDS Naturals, Sequences, SequencesExt, FiniteSets

CONSTANTS
    Requests,  \* records [letters, values, damaged]: what is sent, and what its
               \* sender wrote (never read by the code)
    Limits     \* records [bytes, depth, blocks, text]

ASSUME LimitsAssumption ==
    \A l \in Limits : /\ l.bytes \in Nat \ {0} /\ l.depth \in Nat \ {0}
                      /\ l.blocks \in Nat \ {0} /\ l.text \in Nat \ {0}

Quote == "quote"
Escape == "esc"
Spaces == {"space"}
Unescapable == {"lbrace", "rbrace", "lbracket", "rbracket", ":", "comma", "space",
                "1", ".", "tr", "ue", "ctl", "bad", "end"}

Containers == {"object", "array"}
Opens == [object |-> "lbrace", array |-> "lbracket"]
Closes == [object |-> "rbrace", array |-> "rbracket"]

NoName == <<"unnamed">>

(* JsonStringUnits: the characters between the quotes, escapes resolved. *)
Decode(body) ==
    LET Marker[i \in 1..Len(body)] == body[i] = Escape /\ (i = 1 \/ ~Marker[i - 1])
        units[i \in 0..Len(body)] ==
            IF i = 0 THEN <<>>
            ELSE IF Marker[i] THEN units[i - 1] ELSE Append(units[i - 1], body[i])
    IN  units[Len(body)]

------------------------------------------------------------------------------
(***************************************************************************)
(* What a sender writes: letters, and values, what it means by them.       *)
(* A value knows its span, kind, depth, path, parent, rank among its       *)
(* siblings, the last value inside it, and, if it is a member, the span of *)
(* its label.                                                              *)
(***************************************************************************)
Blank(letters, from, to) == from <= to /\ \A p \in (from + 1)..to : letters[p] \in Spaces
Mark(letters, from, to, letter) ==
    \E p \in (from + 1)..to : letters[p] = letter /\ Blank(letters, from, p - 1) /\ Blank(letters, p, to)

(* Which letters of a string make an escape of the letter behind them. *)
Escapes(letters, start, end, markers) ==
    \A p \in (start + 2)..(end - 1) :
        IF p - 1 \in markers THEN p \notin markers /\ letters[p] \notin Unescapable
        ELSE IF p \in markers THEN letters[p] = Escape
        ELSE letters[p] \notin {Quote, Escape, "ctl", "bad", "end"}

StringAt(letters, start, end) ==
    /\ start + 2 <= end /\ end <= Len(letters)
    /\ letters[start + 1] = Quote /\ letters[end] = Quote
    /\ \E markers \in SUBSET ((start + 2)..(end - 2)) : Escapes(letters, start, end, markers)

(* Digits, with at most one point between them. *)
NumberAt(letters, start, end) ==
    \E points \in SUBSET ((start + 2)..(end - 1)) :
        /\ \A p, q \in points : p = q
        /\ \A p \in (start + 1)..end : letters[p] = IF p \in points THEN "." ELSE "1"

ValueType(w, count) ==
    /\ w.start \in Nat /\ w.end \in Nat /\ w.start < w.end
    /\ w.kind \in {"string", "number", "literal"} \cup Containers
    /\ w.depth \in Nat /\ w.parent \in Nat /\ w.rank \in Nat /\ w.occurrence \in Nat
    /\ w.last \in 1..count
    /\ w.label.start \in Nat /\ w.label.end \in Nat

(* The letters of a value by itself. *)
Shape(letters, values, i) ==
    LET w == values[i]
    IN  /\ w.kind = "string" =>
              /\ StringAt(letters, w.start, w.end)
              /\ w.units = Decode(SubSeq(letters, w.start + 2, w.end - 1))
        /\ w.kind = "number" =>
              NumberAt(letters, w.start, w.end) /\ w.units = SubSeq(letters, w.start + 1, w.end)
        /\ w.kind = "literal" =>
              /\ w.end = w.start + 2 /\ letters[w.start + 1] = "tr" /\ letters[w.end] = "ue"
              /\ w.units = SubSeq(letters, w.start + 1, w.end)
        /\ w.kind \in Containers =>
              /\ letters[w.start + 1] = Opens[w.kind] /\ letters[w.end] = Closes[w.kind]
              /\ w.units = <<>>
              /\ \/ w.last = i /\ Blank(letters, w.start + 1, w.end - 1)
                 \/ /\ i < w.last /\ values[i + 1].parent = i /\ values[i + 1].rank = 0
                    /\ Blank(letters, w.start + 1, values[i + 1].label.start)

(* What a value is to its parent. *)
Belongs(letters, values, i) ==
    LET w == values[i]
        parent == values[w.parent]
    IN  /\ w.parent \in 1..(i - 1) /\ parent.kind \in Containers
        /\ w.end < parent.end
        /\ w.depth = parent.depth + 1
        /\ w.path = Append(parent.path,
                           [index |-> IF parent.kind = "array" THEN w.rank ELSE 0, name |-> w.name])
        /\ parent.kind = "array" =>
              /\ w.label = [start |-> w.start, end |-> w.start]
              /\ w.name = NoName /\ w.occurrence = 0
        /\ parent.kind = "object" =>
              /\ StringAt(letters, w.label.start, w.label.end)
              /\ Mark(letters, w.label.end, w.start, ":")
              /\ w.name = Decode(SubSeq(letters, w.label.start + 2, w.label.end - 1))
              /\ w.occurrence = Cardinality({k \in 1..(i - 1) : values[k].parent = w.parent
                                                                /\ values[k].name = w.name})

(* What stands behind a value: its next sibling, or the end of its parent. *)
Follows(letters, values, i) ==
    LET w == values[i]
        parent == values[w.parent]
        next == values[w.last + 1]
    IN  \/ w.last = parent.last /\ Blank(letters, w.end, parent.end - 1)
        \/ /\ w.last < parent.last
           /\ next.parent = w.parent /\ next.rank = w.rank + 1
           /\ Mark(letters, w.end, next.label.start, "comma")

SentAs(letters, values) ==
    LET count == Len(values)
        root == values[1]
    IN  /\ count > 0
        /\ \A i \in 1..count : /\ ValueType(values[i], count) /\ values[i].end <= Len(letters)
                               /\ values[i].last >= i
                               /\ values[i].kind \notin Containers => values[i].last = i
                               /\ Shape(letters, values, i)
        /\ root.parent = 0 /\ root.depth = 1 /\ root.name = NoName /\ root.occurrence = 0
        /\ root.path = <<>> /\ root.last = count
        /\ Blank(letters, 0, root.start) /\ Blank(letters, root.end, Len(letters))
        /\ \A i \in 2..count : Belongs(letters, values, i) /\ Follows(letters, values, i)

(* A damaged request has one letter more, which no JSON text has; a number it  *)
(* fell into would read as a shorter one.                                      *)
Without(letters, at) == SubSeq(letters, 1, at) \o SubSeq(letters, at + 2, Len(letters))
DamagedAt(r, at) ==
    /\ r.letters[at + 1] \in {"ctl", "bad"}
    /\ SentAs(Without(r.letters, at), r.values)
    /\ \A i \in 1..Len(r.values) :
          r.values[i].kind = "number" => at <= r.values[i].start \/ r.values[i].end <= at

WellWritten(r) ==
    /\ r.letters \in Seq(ToSet(r.letters)) /\ r.values \in Seq(ToSet(r.values))
    /\ \A i \in 1..Len(r.values) : r.values[i].units \in Seq(ToSet(r.values[i].units))
    /\ \/ r.damaged = FALSE /\ SentAs(r.letters, r.values)
       \/ r.damaged = TRUE /\ \E at \in 0..(Len(r.letters) - 1) : DamagedAt(r, at)

ASSUME RequestsAssumption == \A r \in Requests : WellWritten(r)

------------------------------------------------------------------------------
VARIABLES
    request,      \* the request under analysis
    limits,       \* the bounds of this analysis
    cursor,       \* letters consumed
    mode,         \* what the scan expects next
    value,        \* ValueContext: position of the value about to be read
    name,         \* span of the member name read last
    text,         \* the node whose string is being scanned, 0 for a name
    nodes,        \* the index
    frames,       \* open containers, innermost last
    path,         \* PathState
    checkpoints,  \* paths to rewind to
    stop          \* why the scan ended

scanVars == <<request, limits, cursor, mode, value, name, text, nodes, frames,
              path, checkpoints, stop>>

Unread == "unread"
SpaceModes == {"root", "frame", "next", "colon", "member", "trailing"}

WindowEnd == IF Len(request.letters) > limits.bytes THEN limits.bytes
             ELSE Len(request.letters)
Truncated == Len(request.letters) > limits.bytes
Peek == IF cursor < WindowEnd THEN request.letters[cursor + 1] ELSE "end"
Top == frames[Len(frames)]

Letters(start, end) == SubSeq(request.letters, start + 1, end)
Units(start, end) == Decode(Letters(start + 1, end - 1))

Root == [parent |-> 0, name |-> NoName, occurrence |-> 0, depth |-> 1,
         base |-> 0, start |-> 0, kind |-> Unread]

Init ==
    /\ request \in Requests
    /\ limits \in Limits
    /\ cursor = 0
    /\ mode = "root"
    /\ value = Root
    /\ name = [start |-> 0, end |-> 0]
    /\ text = 0
    /\ nodes = <<>>
    /\ frames = <<>>
    /\ path = <<>>
    /\ checkpoints = <<>>
    /\ stop = Unread

------------------------------------------------------------------------------
(* Building the index. *)

(* Seeded fault: a number cut by the window is trusted. *)
FinishTrusting(ns, at) ==
    LET Open(i) == \E f \in 1..Len(frames) : frames[f].node = i
    IN  [i \in 1..Len(ns) |-> [ns[i] EXCEPT !.end = IF Open(i) THEN at ELSE @]]

(* finish: open containers end where the scan stopped, and a number that    *)
(* touches the end of a truncated window may have been longer.              *)
Finish(ns, at) ==
    LET Open(i) == \E f \in 1..Len(frames) : frames[f].node = i
        Cut(i) == Truncated /\ ns[i].kind = "number" /\ ns[i].end >= WindowEnd
    IN  [i \in 1..Len(ns) |->
            [ns[i] EXCEPT !.end = IF Open(i) THEN at ELSE @,
                          !.complete = @ /\ ~Cut(i)]]

End(reason, at, ns) ==
    /\ mode' = "done"
    /\ stop' = reason
    /\ cursor' = at
    /\ nodes' = Finish(ns, at)
    /\ UNCHANGED <<request, limits, value, name, text, frames, path, checkpoints>>

(* push_node links the node to its parent, whose child it is from then on. *)
Node(v, kind, end, complete) ==
    [start |-> v.start, end |-> end, kind |-> kind, depth |-> v.depth,
     parent |-> v.parent, occurrence |-> v.occurrence, name |-> v.name,
     path |-> path, complete |-> complete, duplicate |-> FALSE]

(* build_for_context_analysis: two slots for the root and the model. *)
RoomForNode == Len(nodes) < limits.blocks + 2

CountChild(fs) == IF fs = <<>> THEN fs
                  ELSE [fs EXCEPT ![Len(fs)].children = @ + 1]

Rewind(base) ==
    IF base < Len(checkpoints)
    THEN /\ path' = checkpoints[base + 1]
         /\ checkpoints' = SubSeq(checkpoints, 1, base)
    ELSE UNCHANGED <<path, checkpoints>>

AfterValue(fs) == IF fs = <<>> THEN "trailing" ELSE "frame"

(* A finished value: its path goes back, its parent has one child more. *)
Completed(ns) ==
    /\ nodes' = ns
    /\ Rewind(value.base)
    /\ frames' = CountChild(frames)
    /\ mode' = AfterValue(frames)

(* The same name earlier in the same object, however it was spelled. *)
Namesakes(object, units) ==
    {i \in 1..Len(nodes) : nodes[i].parent = object /\ nodes[i].name = units}

------------------------------------------------------------------------------
(* Outside values. *)

SkipSpace ==
    /\ mode \in SpaceModes
    /\ Peek \in Spaces
    /\ cursor' = cursor + 1
    /\ UNCHANGED <<request, limits, mode, value, name, text, nodes, frames, path,
                   checkpoints, stop>>

BeginRoot ==
    /\ mode = "root"
    /\ Peek \notin Spaces
    /\ value' = [Root EXCEPT !.start = cursor]
    /\ mode' = "value"
    /\ UNCHANGED <<request, limits, cursor, name, text, nodes, frames, path,
                   checkpoints, stop>>

CloseContainer ==
    /\ mode = "frame"
    /\ Peek = Closes[Top.kind]
    /\ cursor' = cursor + 1
    /\ nodes' = [nodes EXCEPT ![Top.node].end = cursor + 1, ![Top.node].complete = TRUE]
    /\ frames' = SubSeq(frames, 1, Len(frames) - 1)
    /\ Rewind(Top.base)
    /\ mode' = AfterValue(frames')
    /\ UNCHANGED <<request, limits, value, name, text, stop>>

(* A comma after a child, or the first child with no comma before it. *)
NextChild ==
    /\ mode = "frame"
    /\ \/ Peek = "comma" /\ Top.children > 0 /\ cursor' = cursor + 1
       \/ /\ Top.children = 0 /\ Peek \notin {Closes[Top.kind], "end"} \cup Spaces
          /\ cursor' = cursor
    /\ mode' = "next"
    /\ UNCHANGED <<request, limits, value, name, text, nodes, frames, path,
                   checkpoints, stop>>

BeginElement ==
    /\ mode = "next" /\ Top.kind = "array"
    /\ Peek \notin Spaces
    /\ checkpoints' = Append(checkpoints, path)
    /\ path' = Append(path, [index |-> Top.children, name |-> NoName])
    /\ value' = [parent |-> Top.node, name |-> NoName, occurrence |-> 0,
                 depth |-> Top.depth + 1, base |-> Len(checkpoints),
                 start |-> cursor, kind |-> Unread]
    /\ mode' = "value"
    /\ UNCHANGED <<request, limits, cursor, name, text, nodes, frames, stop>>

BeginName ==
    /\ mode = "next" /\ Top.kind = "object"
    /\ Peek = Quote
    /\ name' = [start |-> cursor, end |-> cursor]
    /\ text' = 0
    /\ cursor' = cursor + 1
    /\ mode' = "text"
    /\ UNCHANGED <<request, limits, value, nodes, frames, path, checkpoints, stop>>

Colon ==
    /\ mode = "colon"
    /\ Peek = ":"
    /\ cursor' = cursor + 1
    /\ mode' = "member"
    /\ UNCHANGED <<request, limits, value, name, text, nodes, frames, path,
                   checkpoints, stop>>

(* record_name, then the name's own path token. *)
BeginMember ==
    LET units == Units(name.start, name.end)
        earlier == Namesakes(Top.node, units)
    IN  /\ mode = "member"
        /\ Peek \notin Spaces
        /\ nodes' = [nodes EXCEPT ![Top.node].duplicate = @ \/ earlier # {}]
        /\ checkpoints' = Append(checkpoints, path)
        /\ path' = Append(path, [index |-> 0, name |-> units])
        /\ value' = [parent |-> Top.node, name |-> units,
                     occurrence |-> Cardinality(earlier), depth |-> Top.depth + 1,
                     base |-> Len(checkpoints), start |-> cursor, kind |-> Unread]
        /\ mode' = "value"
        /\ UNCHANGED <<request, limits, cursor, name, text, frames, stop>>

------------------------------------------------------------------------------
(* read_value. *)

InDepth == value.depth <= limits.depth

OpenContainer ==
    /\ mode = "value" /\ InDepth
    /\ \E kind \in Containers :
          /\ Peek = Opens[kind]
          /\ value' = [value EXCEPT !.kind = kind]
    /\ cursor' = cursor + 1
    /\ mode' = "open"
    /\ UNCHANGED <<request, limits, name, text, nodes, frames, path, checkpoints, stop>>

(* The container's own frame keeps the path base: it rewinds when it closes. *)
PushContainer ==
    /\ mode = "open"
    /\ RoomForNode
    /\ nodes' = Append(nodes, Node(value, value.kind, value.start, FALSE))
    /\ frames' = Append(CountChild(frames),
                        [node |-> Len(nodes) + 1, kind |-> value.kind, children |-> 0,
                         depth |-> value.depth, base |-> value.base])
    /\ mode' = "frame"
    /\ UNCHANGED <<request, limits, cursor, value, name, text, path, checkpoints, stop>>

PushString ==
    /\ mode = "value" /\ InDepth
    /\ Peek = Quote
    /\ RoomForNode
    /\ nodes' = Append(nodes, Node(value, "string", value.start, FALSE))
    /\ text' = Len(nodes) + 1
    /\ mode' = "quote"
    /\ UNCHANGED <<request, limits, cursor, value, name, frames, path, checkpoints, stop>>

(* advance_string: the node's end follows the cursor. *)
Grown == IF text = 0 THEN nodes ELSE [nodes EXCEPT ![text].end = cursor + 1]

StringByte(next) ==
    /\ cursor' = cursor + 1
    /\ nodes' = Grown
    /\ mode' = next
    /\ UNCHANGED <<request, limits, value, name, text, frames, path, checkpoints, stop>>

OpenQuote == mode = "quote" /\ StringByte("text")
TextByte == mode = "text" /\ Peek \notin {Quote, Escape, "ctl", "bad", "end"}
            /\ StringByte("text")
EscapeByte == mode = "text" /\ Peek = Escape /\ StringByte("escape")
EscapedByte == mode = "escape" /\ Peek \notin Unescapable /\ StringByte("text")

CloseName ==
    /\ mode = "text" /\ text = 0
    /\ Peek = Quote
    /\ cursor' = cursor + 1
    /\ name' = [name EXCEPT !.end = cursor + 1]
    /\ mode' = "colon"
    /\ UNCHANGED <<request, limits, value, text, nodes, frames, path, checkpoints, stop>>

CloseString ==
    /\ mode = "text" /\ text # 0
    /\ Peek = Quote
    /\ cursor' = cursor + 1
    /\ Completed([nodes EXCEPT ![text].end = cursor + 1, ![text].complete = TRUE])
    /\ UNCHANGED <<request, limits, value, name, text, stop>>

(* A number or a literal is consumed first and indexed whole. *)
Consume(count, next) ==
    /\ cursor' = cursor + count
    /\ mode' = next
    /\ UNCHANGED <<request, limits, name, text, nodes, frames, path, checkpoints, stop>>

Literal ==
    /\ mode = "value" /\ InDepth
    /\ Peek = "tr"
    /\ cursor + 2 <= WindowEnd
    /\ request.letters[cursor + 2] = "ue"
    /\ value' = [value EXCEPT !.kind = "literal"]
    /\ Consume(2, "literal")

Number ==
    /\ \/ mode = "value" /\ InDepth /\ Peek = "1" /\ Consume(1, "integer")
       \/ mode = "integer" /\ Peek = "1" /\ Consume(1, "integer")
       \/ mode = "integer" /\ Peek = "." /\ Consume(1, "point")
       \/ mode \in {"point", "digits"} /\ Peek = "1" /\ Consume(1, "digits")
    /\ value' = [value EXCEPT !.kind = "number"]

ScalarEnds == \/ mode = "literal"
              \/ mode = "integer" /\ Peek \notin {"1", "."}
              \/ mode = "digits" /\ Peek # "1"

PushScalar ==
    /\ ScalarEnds
    /\ RoomForNode
    /\ Completed(Append(nodes, Node(value, value.kind, cursor, TRUE)))
    /\ UNCHANGED <<request, limits, cursor, value, name, text, stop>>

------------------------------------------------------------------------------
(* Why the scan stops. *)

(* The document is whole and nothing but spaces follows it. *)
Whole == mode = "trailing" /\ Peek = "end" /\ End("none", cursor, nodes)

(* What the grammar admits at the places that look before they advance. *)
Admitted ==
    CASE mode = "value" -> {"lbrace", "lbracket", Quote, "1", "tr"}
      [] mode = "frame" -> {Closes[Top.kind]} \cup IF Top.children > 0 THEN {"comma"} ELSE {Peek}
      [] mode = "next" -> IF Top.kind = "object" THEN {Quote} ELSE {Peek, "end"}
      [] mode = "colon" -> {":"}
      [] mode = "point" -> {"1"}
      [] mode = "trailing" -> {"end"}
      [] OTHER -> {Peek}

Refuse ==
    /\ mode = "value" => InDepth
    /\ mode \notin SpaceModes \/ Peek \notin Spaces
    /\ \/ Peek \notin Admitted
       \/ Peek = "end" /\ mode \in {"frame", "text", "escape"}
    /\ End(IF Peek = "end" THEN "unexpected_end" ELSE "syntax", cursor, nodes)

RefuseLiteral ==
    /\ mode = "value" /\ InDepth
    /\ Peek = "tr"
    /\ \/ cursor + 2 > WindowEnd /\ End("unexpected_end", cursor, nodes)
       \/ /\ cursor + 2 <= WindowEnd
          /\ request.letters[cursor + 2] # "ue"
          /\ End("syntax", cursor, nodes)

(* A control character or an unknown escape is charged to the string before *)
(* it is refused; a byte that is not UTF-8 moves the cursor alone.           *)
RefuseByte ==
    \/ mode = "text" /\ Peek = "ctl" /\ End("syntax", cursor + 1, Grown)
    \/ /\ mode = "escape" /\ Peek \in Unescapable \ {"bad", "end"}
       /\ End("syntax", cursor + 1, Grown)
    \/ mode \in {"text", "escape"} /\ Peek = "bad" /\ End("syntax", cursor + 1, nodes)

TooDeep == mode = "value" /\ ~InDepth /\ End("JsonDepth", cursor, nodes)

TooMany ==
    /\ mode = "open" \/ (mode = "value" /\ InDepth /\ Peek = Quote) \/ ScalarEnds
    /\ ~RoomForNode
    /\ End("Blocks", cursor, nodes)

(* charge: time or work may run out at any letter and any value.  Nothing   *)
(* is charged after a root that is not a container.                          *)
Exhaust ==
    /\ mode # "done"
    /\ mode = "trailing" => Peek \in Spaces \/ nodes[1].kind \in Containers
    /\ End("Budget", cursor, nodes)

Scan ==
    \/ SkipSpace \/ BeginRoot \/ CloseContainer \/ NextChild \/ BeginElement
    \/ BeginName \/ Colon \/ BeginMember
    \/ OpenContainer \/ PushContainer
    \/ PushString \/ OpenQuote \/ TextByte \/ EscapeByte \/ EscapedByte
    \/ CloseName \/ CloseString
    \/ Literal \/ Number \/ PushScalar
    \/ Whole \/ Refuse \/ RefuseLiteral \/ RefuseByte
    \/ TooDeep \/ TooMany \/ Exhaust

------------------------------------------------------------------------------
(* The finished index. *)

DuplicateKey == \E i \in 1..Len(nodes) : nodes[i].duplicate
Skipped == Len(request.letters) - cursor
LimitStops == {"JsonDepth", "Blocks", "Budget"}

LimitReached ==
    CASE stop \in LimitStops -> stop
      [] stop \in {"unexpected_end", "none"} /\ Truncated -> "AnalyzedBytes"
      [] OTHER -> "none"

(* Seeded fault: the window's cut is taken for the sender's. *)
IndexStatusUncut ==
    CASE stop \in {"syntax", "unexpected_end"} -> "Malformed"
      [] stop \notin {"syntax", "unexpected_end"} /\ LimitReached # "none" -> "ResourceLimit"
      [] OTHER -> IF DuplicateKey THEN "Partial" ELSE "Complete"

IndexStatus ==
    CASE stop = "unexpected_end" /\ Truncated -> "ResourceLimit"
      [] stop = "syntax" \/ (stop = "unexpected_end" /\ ~Truncated) -> "Malformed"
      [] stop \notin {"syntax", "unexpected_end"} /\ LimitReached # "none" -> "ResourceLimit"
      [] stop = "none" /\ ~Truncated /\ DuplicateKey -> "Partial"
      [] OTHER -> "Complete"

ChildrenOf(i) == {c \in 1..Len(nodes) : nodes[c].parent = i}

==============================================================================
