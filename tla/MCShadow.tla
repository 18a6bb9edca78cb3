------------------------------ MODULE MCShadow ------------------------------
(* A small instance of the shadow worker.  Jobs of one text that may fold in    *)
(* several ways, and jobs of one or two tool results: rows of one shape and of  *)
(* several, repeated subtrees, empty fields, keys written twice, a shell        *)
(* result, log lines, search output and blocks that are no target.              *)
EXTENDS ShadowProperties

Block1(content, detected, shell, search, tokens) ==
    [origin |-> "ToolGenerated", kind |-> "ToolResult", detected |-> detected,
     content |-> content, decodes |-> TRUE, shell |-> shell, search |-> search,
     tokens |-> tokens]
JsonBlock(v, gap) == Block1(Json(v, gap), "Json", FALSE, FALSE, 0)
TextBlock(lines) == Block1(Plain(lines), "PlainText", FALSE, FALSE, 0)

Pair(a, b) == Obj(<< <<"kind", Str("file")>>, <<a, Str(b)>> >>)
Rows == Arr(<<Pair("name", "a"), Pair("name", "b"), Pair("name", "a")>>)
Ragged == Arr(<<Pair("name", "a"), Pair("path", "b"), Obj(<< <<"name", Str("c")>> >>)>>)
Repeated == Obj(<< <<"x", Pair("name", "a")>>, <<"y", Pair("name", "a")>>,
                   <<"z", Arr(<<Pair("name", "a")>>)>> >>)
Noisy == Obj(<< <<"a", Obj(<< <<"b", Null>>, <<"c", Str("x")>> >>)>>, <<"d", Arr(<< >>)>>,
                <<"e", Str("")>> >>)
Doubled == Obj(<< <<"a", Str("x")>>, <<"a", Str("y")>> >>)
Folded == <<1, 2, 2, 1, 2, 2, 2>>
Output == [i \in 1 .. 6 |-> Prose("line " \o ToString(i))]
Shell == Obj(<< <<"exit_code", Atom("1")>>, <<"stdout", Text(Output)>> >>)
Logs == <<Log("10:00", "INFO", "up"), Log("10:01", "INFO", "ok"), Log("10:02", "WARN", "no"),
          Log("10:03", "INFO", "ok")>>
Found5 == [i \in 1 .. 5 |-> Match("src/a/b.rs", 10 + i, "fn")]

MCJobs ==
    {<<TextBlock([i \in DOMAIN Folded |->
                    IF Folded[i] = 1 THEN Prose("alpha beta") ELSE Prose("gamma")])>>,
     <<JsonBlock(Rows, 1)>>,
     <<JsonBlock(Repeated, 2)>>, <<JsonBlock(Ragged, 1)>>,
     <<JsonBlock(Noisy, 1), [JsonBlock(Rows, 0) EXCEPT !.origin = "HumanAuthored"]>>,
     <<JsonBlock(Doubled, 1)>>,
     <<Block1(Json(Shell, 0), "Json", TRUE, FALSE, 20)>>,
     <<Block1(Plain(Logs), "PlainText", FALSE, FALSE, 12)>>,
     <<[JsonBlock(Rows, 0) EXCEPT !.decodes = FALSE],
       Block1(Plain(Found5), "PlainText", FALSE, TRUE, 0)>>}
MCSpaced == {"alpha beta", "[search results]"} \cup {"line " \o ToString(i) : i \in 1 .. 6}
=============================================================================
