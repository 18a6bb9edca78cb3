------------------------------ MODULE MCActive ------------------------------
(* A small instance of the active rewrite: tool results that are search        *)
(* output, plain text, spaced JSON, an envelope of search output, JSON with a   *)
(* key twice, and one result over the input bound.                             *)
EXTENDS RewriteProperties

F == "src/a/b.rs"
G == "src/a b.rs"
Search == Plain(<<Match(F, 10, "fn"), Match(F, 12, "fn"), Match(F, 14, "x"), Match(F, 14, "y"),
                  Match(F, 20, "fn")>>)
SpacedSearch == Plain(<<Match(G, 10, "fn"), Match(G, 12, "fn"), Match(G, 14, "fn"),
                        Match(G, 20, "fn"), Match(G, 24, "fn")>>)
Words == Plain(<<Prose("one two"), Prose("one two")>>)
Huge == Plain([i \in 1 .. 12 |-> Match(F, i, "let a")])
Value == Obj(<< <<"a", Arr(<<Str("x"), Null>>)>>, <<"b", Str("y")>> >>)
Doubled == Obj(<< <<"a", Str("x")>>, <<"a", Str("y")>> >>)
Envelope == Json(Obj(<< <<"out", Text(Search.lines)>>, <<"b", Str("y")>> >>), 0)
Twofold == Json(Obj(<< <<"out", Text(Search.lines)>>, <<"err", Text(Search.lines)>> >>), 0)

Result(content, detected, encoded) ==
    [content |-> content, detected |-> detected, encoded |-> encoded]

MCToolResults ==
    {Result(Search, "PlainText", TRUE), Result(Words, "PlainText", TRUE),
     Result(Huge, "SearchResults", TRUE), Result(Json(Value, 1), "Json", TRUE),
     Result(Json(Value, 0), "Json", FALSE), Result(Json(Doubled, 1), "Json", TRUE),
     Result(Envelope, "Json", TRUE)}
MCSpacedResults == {Result(Search, "PlainText", TRUE), Result(SpacedSearch, "PlainText", TRUE)}
MCSpaced == {G, "one two", "let a"}
MCModes == {"Off", "JsonMinify", "SearchProjection"}
=============================================================================
