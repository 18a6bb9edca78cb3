------------------------------- MODULE MCTap -------------------------------
(* Small instances of ResponseTap for TLC.                                    *)
EXTENDS TapProperties, TLC

Text(t) == [type |-> "string", text |-> t, fits |-> TRUE]
Number(n) == [type |-> "number", number |-> n, fraction |-> FALSE]
Member(k, v) == [key |-> k, value |-> v, exact |-> TRUE, size |-> 1]
Object(members) == [type |-> "object", members |-> members]
Array(items) == [type |-> "array", items |-> items]

Usage(input, cached, output, total) ==
    Object(<<Member("input_tokens", Number(input)),
             Member("input_tokens_details", Object(<<Member("cached_tokens", Number(cached))>>)),
             Member("output_tokens", Number(output)), Member("total_tokens", Number(total))>>)
Response1 == <<Member("id", Text("r1")), Member("usage", Usage(3, 1, 2, 5))>>
Compacted == Array(<<Object(<<Member("type", Text("compaction"))>>)>>)

(* A whole response, one nested with an inconsistent usage, one written over   *)
(* two data lines, one whose usage key is escaped, one without usage, one with *)
(* too large a usage, one too deep and one with a duplicate key.               *)
Payloads ==
    (<<"full">> :> Object(Append(Response1, Member("status", Text("completed")))))
    @@ (<<"odd">> :> Object(<<Member("response",
            Object(<<Member("id", Text("r2")), Member("output", Compacted),
                     Member("usage", Usage(3, 4, 2, 9))>>))>>))
    @@ (<<"two", "NL", "half">> :> Object(Response1))
    @@ (<<"two", "half">> :> Object(<<Member("status", Text("queued")),
                                      Member("usage", Usage(1, 0, 9, 10))>>))
    @@ (<<"esc">> :> Object(<<[Member("usage", Usage(3, 1, 2, 5)) EXCEPT !.exact = FALSE]>>))
    @@ (<<"bare">> :> Object(<<Member("id", Text("r3"))>>))
    @@ (<<"big">> :> Object(<<[Member("usage", Usage(3, 1, 2, 5)) EXCEPT !.size = 9]>>))
    @@ (<<"deep">> :> Array(<<Array(<<Array(<<Array(<<Array(<<>>)>>)>>)>>)>>))
    @@ (<<"dup">> :> Object(<<Member("id", Text("a")), Member("id", Text("b"))>>))

Event(name, payload) == <<"event:", name, "LF", "data:", payload, "LF", "LF">>
Ended == Event("completed", "full")
Begun == <<"event:", " ", "in_progress", "CR", "LF", "data:", "odd", "CR", "LF", "CR", "LF">>
Joined == <<"data:", "two", "LF", "data:", "half", "LF", "LF">>
Alive == <<":", "ping", "LF", "LF">>
Vast == <<"data:", "x", "x", "x", "x", "x", "x", "x">>
Streams ==
    {Begun \o Ended, Joined \o Ended, Alive \o Vast, Event("failed", "deep") \o Ended,
     Event("created", "big") \o Vast, Ended \o Vast,
     Begun \o Event("completed", "esc"), Joined \o Event("completed", "bare"),
     Alive \o Event("in_progress", "dup") \o Ended, Event("failed", "bare") \o Ended,
     <<"event:", "completed", "CR", "data:", "full">>, <<>>}

Flagged(value) == [size |-> 1, text |-> TRUE,
                   json |-> Object(<<Member("stream", [type |-> "bool", value |-> value])>>)]
Exchange(mode, sent, asked, length, at) ==
    [mode |-> mode, decoded |-> TRUE, request |-> asked, ok |-> TRUE, length |-> length,
     body |-> sent, cuts |-> at]
(* Every way to cut a stream into at most three chunks.                        *)
Cuts(sent) ==
    {{a, b} : a \in 1..Len(sent), b \in 1..Len(sent)} \cup {{}}
SmallExchanges ==
    UNION {{Exchange("sse", sent, Flagged(TRUE), Absent, at) : at \in Cuts(sent)} :
             sent \in Streams}
    \cup {[Exchange("hint", sent, Flagged(flag), Len(sent), {1, 3, 4} \cap (1..Len(sent))) EXCEPT !.decoded = decoded] :
            sent \in {<<"full">>, Ended}, flag \in BOOLEAN, decoded \in BOOLEAN}
    \cup {Exchange("json", sent, Flagged(FALSE), Len(sent), {1} \cap (1..Len(sent))) :
            sent \in {<<"two", "half">>, <<"full">>, <<"dup">>, <<"esc">>, <<"deep">>}}
    \cup {[Exchange(mode, [i \in 1..size |-> "x"], Flagged(FALSE), length, {1, 3} \cap (1..size)) EXCEPT !.ok = ok] :
            mode \in {"opaque", "compaction"}, size \in {0, 3, 30}, length \in {Absent, 0, 3},
            ok \in BOOLEAN}
=============================================================================
