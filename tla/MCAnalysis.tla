----------------------------- MODULE MCAnalysis -----------------------------
(* Small requests, written from trees so that every value's span is known   *)
(* before the scan.                                                         *)
EXTENDS AnalysisProperties

Str(units) == [kind |-> "string", units |-> units, members |-> <<>>]
Num(digits) == [kind |-> "number", units |-> digits, members |-> <<>>]
Lit == [kind |-> "literal", units |-> <<"tr", "ue">>, members |-> <<>>]
Obj(members) == [kind |-> "object", units |-> <<>>, members |-> members]
Arr(elements) == [kind |-> "array", units |-> <<>>,
                  members |-> [i \in 1..Len(elements) |-> [name |-> NoName, value |-> elements[i]]]]
M(n, v) == [name |-> <<n>>, value |-> v]
Escaped(n, v) == [name |-> <<"esc", n>>, value |-> v]
Text(w) == Str(<<w>>)

Plain(units) == SelectSeq(units, LAMBDA l : l # "esc")

(* The letters of a tree that starts at "at", and the values in it. *)
RECURSIVE Lay(_, _)
Lay(tree, at) ==
    IF tree.kind = "string"
    THEN [letters |-> <<"quote">> \o tree.units \o <<"quote">>,
          values |-> <<[at EXCEPT !.kind = "string", !.end = at.start + Len(tree.units) + 2,
                                  !.last = at.id, !.units = Plain(tree.units)]>>]
    ELSE IF tree.kind \notin Containers
    THEN [letters |-> tree.units,
          values |-> <<[at EXCEPT !.kind = tree.kind, !.end = at.start + Len(tree.units),
                                  !.last = at.id, !.units = tree.units]>>]
    ELSE LET Head1(i) == IF i = 1 THEN <<>> ELSE <<"comma", "space">>
             Name1(m) == IF m.name = NoName THEN <<>>
                         ELSE <<"quote">> \o m.name \o <<"quote", ":">>
             Before1(i) == Cardinality({k \in 1..(i - 1) :
                               tree.members[k].name # NoName
                               /\ Plain(tree.members[k].name) = Plain(tree.members[i].name)})
             Step(acc, i) ==
                LET m == tree.members[i]
                    lead == Head1(i) \o Name1(m)
                    name1 == IF m.name = NoName THEN NoName ELSE Plain(m.name)
                    from == at.start + Len(acc.letters) + Len(Head1(i))
                    start == at.start + Len(acc.letters) + Len(lead)
                    label == [start |-> from,
                              end |-> IF m.name = NoName THEN start ELSE start - 1]
                    below == Lay(m.value,
                                 [at EXCEPT !.start = start, !.label = label, !.rank = i - 1,
                                            !.id = at.id + Len(acc.values),
                                            !.parent = at.id, !.depth = at.depth + 1,
                                            !.name = name1, !.occurrence = Before1(i),
                                            !.path = Append(at.path,
                                               [index |-> IF m.name = NoName THEN i - 1 ELSE 0,
                                                name |-> name1])])
                IN  [letters |-> acc.letters \o lead \o below.letters,
                     values |-> acc.values \o below.values]
             own == [at EXCEPT !.kind = tree.kind]
             body == FoldLeft(Step, [letters |-> <<Opens[tree.kind]>>, values |-> <<own>>],
                              [i \in 1..Len(tree.members) |-> i])
             letters == Append(body.letters, Closes[tree.kind])
         IN  [letters |-> letters,
              values |-> [body.values EXCEPT ![1].end = at.start + Len(letters),
                                             ![1].last = at.id + Len(body.values) - 1]]

Origin1 == [start |-> 0, end |-> 0, kind |-> "", depth |-> 1, parent |-> 0, occurrence |-> 0,
            name |-> NoName, path |-> <<>>, units |-> <<>>, id |-> 1, last |-> 1, rank |-> 0,
            label |-> [start |-> 0, end |-> 0]]

Sent(tree) == Lay(tree, Origin1) @@ [damaged |-> FALSE]

(* A sender that wrote the letter where nothing allows it. *)
Damaged(tree, at, letter) ==
    LET sent == Sent(tree)
    IN  [sent EXCEPT !.damaged = TRUE, !.letters = SubSeq(@, 1, at) \o <<letter>>
                                                   \o SubSeq(@, at + 1, Len(@))]

Part(type, member) == Obj(<<M("type", Text(type)), member>>)
TextPart1(w) == Part("text", M("text", Text(w)))
Message1(content) == Obj(<<M("type", Text("message")), M("role", Text("user")),
                           M("content", content)>>)

ShortDoc == Obj(<<M("instructions", Text("a")), M("input", Text("b"))>>)
Numbers == Arr(<<Num(<<"1", "1">>), Num(<<"1", ".", "1">>)>>)

MCRequests ==
    {Sent(ShortDoc), Sent(Numbers), Sent(Obj(<<M("item_reference", Arr(<<>>))>>)),
     Sent(Obj(<<M("input", Text("half"))>>)),
     Damaged(ShortDoc, 7, "ctl"), Damaged(ShortDoc, 3, "bad"), Damaged(ShortDoc, 8, "ctl"),
     Sent(Obj(<<M("input", Text("a")), Escaped("input", Str(<<"a", "esc", "b">>))>>)),
     Sent(Obj(<<M("input", Arr(<<Message1(Arr(<<TextPart1("a"), Part("image", M("a", Lit))>>))>>))>>)),
     Sent(Obj(<<M("input", Arr(<<Message1(Arr(<<TextPart1("a"), Part("text", M("text", Num(<<"1">>))),
                                                     Num(<<"1">>)>>)),
                                 Message1(Text("a"))>>))>>)),
     Sent(Obj(<<M("input", Arr(<<
            Obj(<<M("type", Text("call")), M("call_id", Text("c")), M("name", Text("t")),
                  M("input", Str(<<"a", "b">>))>>),
            Obj(<<M("type", Text("output")), M("call_id", Text("c")),
                  M("output", Text("nul"))>>)>>)),
            M("tools", Arr(<<Obj(<<M("name", Text("t"))>>), Obj(<<M("name", Text("t"))>>)>>))>>)),
     Sent(Obj(<<M("input", Arr(<<Part("text", M("text", Text("a"))), Part("reasoning", M("a", Lit)),
                                 Num(<<"1">>), Part("trigger", M("a", Lit)),
                                 Part("history", M("content", Text("half")))>>)),
            M("conversation", Lit), M("file_id", Text("a"))>>))}

MCLimits ==
    {[bytes |-> b, depth |-> 9, blocks |-> 60, text |-> 9] : b \in {6, 14, 199}}
    \cup {[bytes |-> 199, depth |-> 3, blocks |-> 2, text |-> 9],
          [bytes |-> 199, depth |-> 9, blocks |-> 4, text |-> 1]}

Summary(exact, semantic, tokens) == [exact |-> exact, semantic |-> semantic, tokens |-> tokens]
InstructionsA == Summary(<<"quote", "a", "quote">>, {}, {1})
TextB == Summary(<<"quote", "b", "quote">>,
                 {[kind |-> "Text", role |-> "User", content |-> <<"b">>]}, {1})
TextA == Summary(<<"quote", "esc", "a", "quote">>,
                 {[kind |-> "Text", role |-> "User", content |-> <<"a">>]}, {})

MCSnapshots ==
    {[blocks |-> <<InstructionsA, TextB>>, status |-> "Complete"],
     [blocks |-> <<InstructionsA>>, status |-> "ResourceLimit"],
     [blocks |-> <<TextA, TextB, TextB>>, status |-> "Complete"]}

MCUsages ==
    {[tokens |-> {9}, comparable |-> TRUE, correlated |-> TRUE],
     [tokens |-> {9}, comparable |-> FALSE, correlated |-> FALSE]}

==============================================================================
