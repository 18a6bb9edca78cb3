---------------------------- MODULE ActiveRewrite ----------------------------
(***************************************************************************)
(* The active rewrite of a provider request: active_forward_body of the     *)
(* proxy, the two rewriters of tracepress-compression/src/active.rs, and    *)
(* the counters the CLI keeps of their outcomes.                            *)
(*                                                                          *)
(* A request carries tool results, one span of its body each, in order and  *)
(* disjoint as the context analysis yields them.  Whatever goes wrong, the  *)
(* original bytes must be forwarded.                                        *)
(***************************************************************************)
EXTENDS Compressors

CONSTANTS
    Modes,          \* the active_compression_mode values to run with
    ToolResults,    \* tool results: [content, detected, encoded]
    MaxSpans,       \* bound: tool results of a request
    MaxRequests,    \* bound: requests
    FrameBytes      \* the bytes of a request around its tool results

ASSUME ActiveAssumption ==
    /\ Modes \subseteq {"Off", "JsonMinify", "SearchProjection"}
    /\ {MaxSpans, MaxRequests, FrameBytes} \subseteq Nat

VARIABLES
    mode,           \* the configured arm
    phase,          \* "idle", "received", "rewriting" or "sent"
    request,        \* the route, the encoding and the spans of the request
    rewrite,        \* the locals of the rewriter
    forwarded,      \* what each span of the last request was sent as
    tally           \* ActiveCompressionCounters

vars == <<mode, phase, request, rewrite, forwarded, tally>>

Outcomes == {"Rewritten", "NoImprovement", "NotApplicable", "ResourceLimit", "InvalidInput",
             "RecoveryFailed", "InternalError"}
Refusals == {"ResourceLimit", "InvalidInput", "RecoveryFailed", "InternalError"}
TallyFields == Outcomes \cup {"attempts", "spans", "inputs", "outputs", "determinism"}

Requests == [route : {"Responses", "other"}, encoding : {"Identity", "Zstd", "Unsupported"},
             spans : UNION {[1 .. n -> ToolResults] : n \in 0 .. MaxSpans}]

Unset == [at |-> 1, work |-> 0, terminal |-> "none", replaced |-> << >>, evaluated |-> 0,
          steady |-> TRUE]

Init ==
    /\ mode \in Modes
    /\ phase = "idle"
    /\ request = [route |-> "other", encoding |-> "Identity", spans |-> << >>]
    /\ rewrite = Unset
    /\ forwarded = << >>
    /\ tally = [f \in TallyFields |-> 0]
-----------------------------------------------------------------------------
(* The bytes of a span, its quotes and escapes included.                      *)
Raw(content, encoded) == IF encoded THEN HeldSize(content) ELSE Size(content)
SpanSize(s) == Raw(s.content, s.encoded)
BodySize(spans) == FrameBytes + Total(SpanSize, spans)

(* json_spans and text_spans: what the mode may rewrite.                      *)
Selected(s) ==
    s.detected \in IF mode = "JsonMinify" THEN {"Json"} ELSE {"Json", "PlainText", "SearchResults"}

Places == SelectSeq([i \in DOMAIN request.spans |-> i], LAMBDA i : Selected(request.spans[i]))

Forward(bodies) ==
    /\ forwarded' = bodies
    /\ phase' = "sent"
ForwardOriginal == Forward([i \in DOMAIN request.spans |-> request.spans[i].content])

(* ActiveCompressionCounters::record                                          *)
Record(status, steady, spans, in, out) ==
    tally' = [tally EXCEPT !["attempts"] = @ + 1, ![status] = @ + 1, !["spans"] = @ + spans,
                           !["inputs"] = @ + in, !["outputs"] = @ + out,
                           !["determinism"] = @ + (IF status \in {"InternalError", "RecoveryFailed"}
                                                      /\ ~steady THEN 1 ELSE 0)]
-----------------------------------------------------------------------------
Receive(r) ==
    /\ phase \in {"idle", "sent"}
    /\ tally["attempts"] < MaxRequests
    /\ phase' = "received"
    /\ request' = r
    /\ rewrite' = Unset
    /\ forwarded' = << >>
    /\ UNCHANGED <<mode, tally>>

(* The arm is off, or the request is not one it may touch, or it does not     *)
(* decode, or its analysis is not complete: nothing is recorded.              *)
PassThrough ==
    /\ phase = "received"
    /\ ForwardOriginal
    /\ UNCHANGED <<mode, request, rewrite, tally>>

Eligible == mode # "Off" /\ request.route = "Responses" /\ request.encoding # "Unsupported"

(* The early returns of the rewriters, before any span.                       *)
Refused ==
    IF Places = << >> THEN "NotApplicable"
    ELSE IF BodySize(request.spans) > MemoryBound THEN "ResourceLimit" ELSE "ok"

Refuse ==
    /\ phase = "received" /\ Eligible
    /\ Refused # "ok"
    /\ Record(Refused, FALSE, 0, 0, 0)
    /\ ForwardOriginal
    /\ UNCHANGED <<mode, request, rewrite>>

Begin ==
    /\ phase = "received" /\ Eligible
    /\ Refused = "ok"
    /\ phase' = "rewriting"
    /\ UNCHANGED <<mode, request, rewrite, forwarded, tally>>
-----------------------------------------------------------------------------
(* reduce_search_json_envelope: the one search result among the strings.      *)
Bounding(doc, view) ==
    IF Oversized(doc, view) THEN Refusal("ResourceLimit") ELSE Reduction("Applicable", view, 0)

Replaced(doc, text, lines) ==
    IF EncodedSize(lines) >= text.size THEN Refusal("NoImprovement")
    ELSE Bounding(doc, WithText(doc, text.token.lines, lines))

Enveloped(doc, texts, reduced) ==
    LET fit == {i \in DOMAIN texts : reduced[i].status = "Applicable"}
    IN  IF Cardinality(fit) # 1 THEN Refusal("NotApplicable")
        ELSE LET i == CHOOSE x \in fit : TRUE
             IN  Replaced(doc, texts[i], reduced[i].view.lines)

ReduceEnvelope(doc, slow) ==
    IF TooLarge(doc) THEN Refusal("ResourceLimit")
    ELSE IF doc.form = "text" THEN Refusal("InvalidInput")
    ELSE IF TooManyStrings(doc) THEN Refusal("ResourceLimit")
    ELSE LET texts == Texts(doc)
         IN  Enveloped(doc, texts, [i \in DOMAIN texts |->
                 SearchResultReducer(Plain(texts[i].token.lines), i \in slow)])

OrEnvelope(direct, doc, slow) ==
    IF direct.status # "NotApplicable" THEN direct ELSE ReduceEnvelope(doc, slow)

(* reduce_search_content; 0 \in slow says the first attempt was too slow.     *)
ReduceContent(doc, slow) == OrEnvelope(SearchResultReducer(doc, 0 \in slow), doc, slow)

Slowness(s) ==
    IF mode = "JsonMinify" THEN {{}}
    ELSE SUBSET (0 .. IF s.content.form = "json" THEN Len(Texts(s.content)) ELSE 0)

(* What an evaluated span adds to the rewriter's locals.                      *)
Refusing(r, status) == [r EXCEPT !.terminal = status]

Replacing(r, s, view) ==
    IF Raw(view, s.encoded) > OutputBound THEN Refusing(r, "ResourceLimit")
    ELSE IF Raw(view, s.encoded) < SpanSize(s)
    THEN [r EXCEPT !.replaced = Append(@, <<Places[r.at], view>>)]
    ELSE IF mode = "JsonMinify" /\ r.terminal # "none" THEN r
    ELSE Refusing(r, "NoImprovement")

Minified(doc) == [doc EXCEPT !.gaps = [i \in DOMAIN @ |-> 0]]

JsonSpan(r, s, t) ==
    LET done == [r EXCEPT !.evaluated = @ + 1]
    IN  IF t.status # "ok" THEN Refusing(r, t.status)
        ELSE IF Recovered("json.minify", t, s.content) # Bytes(s.content)
        THEN Refusing(done, "RecoveryFailed")
        ELSE Replacing(done, s, Minified(s.content))

SearchSpan(r, s, first, second) ==
    IF first.view # second.view THEN [Refusing(r, "InternalError") EXCEPT !.steady = FALSE]
    ELSE IF first.status # "Applicable"
    THEN [Refusing(r, first.status) EXCEPT !.evaluated = @ + 1]
    ELSE Replacing([r EXCEPT !.evaluated = @ + 1], s, first.view)

Span == request.spans[Places[rewrite.at]]

Charged(s) ==
    [rewrite EXCEPT !.work = @ + (IF mode = "JsonMinify" THEN 1 ELSE 2) * Size(s.content)]

Evaluating(r, s, slow, again) ==
    IF r.work > WorkBound \/ Size(s.content) > InputBound THEN Refusing(r, "ResourceLimit")
    ELSE IF mode = "JsonMinify" THEN JsonSpan(r, s, Transform("json.minify", s.content))
    ELSE SearchSpan(r, s, ReduceContent(s.content, slow), ReduceContent(s.content, again))

Advanced(r) == [r EXCEPT !.at = @ + 1]

EvaluateSpan(slow, again) ==
    /\ phase = "rewriting"
    /\ rewrite.at <= Len(Places)
    /\ slow \in Slowness(Span) /\ again \in Slowness(Span)
    /\ rewrite' = Advanced(Evaluating(Charged(Span), Span, slow, again))
    /\ UNCHANGED <<mode, phase, request, forwarded, tally>>
-----------------------------------------------------------------------------
(* The body with its replacements spliced in.                                 *)
Body ==
    [i \in DOMAIN request.spans |->
        LET of == SelectSeq(rewrite.replaced, LAMBDA p : p[1] = i)
        IN  IF of = << >> THEN request.spans[i].content ELSE of[1][2]]

Spliced == [i \in DOMAIN request.spans |-> [request.spans[i] EXCEPT !.content = Body[i]]]

SettledAs ==
    IF rewrite.replaced = << >>
    THEN IF rewrite.terminal = "none" THEN "NoImprovement" ELSE rewrite.terminal
    ELSE IF rewrite.terminal \in Refusals THEN rewrite.terminal
    ELSE IF BodySize(Spliced) > MemoryBound THEN "ResourceLimit" ELSE "Rewritten"

Rewriting == phase = "rewriting" /\ rewrite.at > Len(Places)

(* No rewrite: what was evaluated is reported only when nothing was replaced. *)
Settle ==
    /\ Rewriting
    /\ SettledAs # "Rewritten"
    /\ LET none == rewrite.replaced = << >>
       IN  Record(SettledAs, none /\ rewrite.evaluated > 0 /\ rewrite.steady,
                  IF none THEN rewrite.evaluated ELSE 0, 0, 0)
    /\ ForwardOriginal
    /\ UNCHANGED <<mode, request, rewrite>>

SendRewritten ==
    /\ Record("Rewritten", TRUE, rewrite.evaluated, BodySize(request.spans), BodySize(Spliced))
    /\ Forward(Body)
    /\ UNCHANGED <<mode, request, rewrite>>

Rewrite ==
    /\ Rewriting
    /\ SettledAs = "Rewritten"
    /\ request.encoding = "Identity"
    /\ SendRewritten

(* encode_zstd_bounded: the size of what it writes, and its time, are open.   *)
Reencode ==
    /\ Rewriting
    /\ SettledAs = "Rewritten"
    /\ request.encoding = "Zstd"
    /\ BodySize(Spliced) <= Min({MemoryBound, WorkBound})
    /\ SendRewritten

(* Seeded fault: a rewrite that did not re-encode counts as one.              *)
ReencodeFailsCounted ==
    /\ Rewriting
    /\ SettledAs = "Rewritten"
    /\ request.encoding = "Zstd"
    /\ ForwardOriginal
    /\ Record("Rewritten", TRUE, rewrite.evaluated, BodySize(request.spans), BodySize(Spliced))
    /\ UNCHANGED <<mode, request, rewrite>>

ReencodeFails ==
    /\ Rewriting
    /\ SettledAs = "Rewritten"
    /\ request.encoding = "Zstd"
    /\ ForwardOriginal
    /\ UNCHANGED <<mode, request, rewrite, tally>>

Next ==
    \/ \E r \in Requests : Receive(r)
    \/ PassThrough \/ Refuse \/ Begin
    \/ phase = "rewriting" /\ rewrite.at <= Len(Places)
         /\ \E slow, again \in Slowness(Span) : EvaluateSpan(slow, again)
    \/ Settle \/ Rewrite \/ Reencode \/ ReencodeFails

Spec == Init /\ [][Next]_vars
=============================================================================
