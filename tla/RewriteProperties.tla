-------------------------- MODULE RewriteProperties --------------------------
(***************************************************************************)
(* What the active rewrite must keep of a request.                          *)
(***************************************************************************)
EXTENDS ActiveRewrite

(* The rewriter's locals are about the request in hand: its replacements are *)
(* of its own spans, in their order, and no more spans are evaluated than     *)
(* were visited (rewrite_json_minify, rewrite_search_projection).             *)
ActiveTypeOK ==
    /\ phase \in {"idle", "received", "rewriting", "sent"}
    /\ rewrite.at \in 1 .. Len(Places) + 1
    /\ rewrite.evaluated < rewrite.at \/ rewrite.evaluated = 0
    /\ rewrite.terminal \in Outcomes \cup {"none"}
    /\ \A i \in DOMAIN rewrite.replaced : rewrite.replaced[i][1] \in ToSet(Places)
    /\ \A i, j \in DOMAIN rewrite.replaced :
         i < j => rewrite.replaced[i][1] < rewrite.replaced[j][1]
    /\ \A f \in TallyFields : tally[f] \in Nat
-----------------------------------------------------------------------------
(* How often the rows under a header of f show a number and a text, read from *)
(* the lines alone: the group of a row is the last header before it.          *)
Times(lines, m) ==
    Cardinality({i \in DOMAIN lines :
        /\ lines[i] = Row(m.number, m.text)
        /\ \E h \in 1 .. i - 1 :
             /\ lines[h] = Header(m.file)
             /\ \A j \in h + 1 .. i - 1 : lines[j].form # "header"})

ShowsMatches(view, lines) ==
    LET found == Matches(lines)
    IN  \A m \in ToSet(found) :
            Times(view, m) = Cardinality({i \in DOMAIN found : found[i] = m})

(* A view of a content: its JSON value, or all the matches that were found;   *)
(* an envelope keeps everything but the one string that held them.            *)
Tells(view, content) ==
    \/ view = content
    \/ mode = "JsonMinify" /\ content.form = "json" /\ view.value = content.value
    \/ /\ mode = "SearchProjection" /\ content.form = "text"
       /\ ShowsMatches(view.lines, content.lines)
    \/ /\ mode = "SearchProjection" /\ content.form = "json"
       /\ \E t \in ToSet(Texts(content)), u \in ToSet(Texts(view)) :
            /\ ShowsMatches(u.token.lines, t.token.lines)
            /\ view = WithText(content, t.token.lines, u.token.lines)

Sent == [i \in DOMAIN request.spans |-> [request.spans[i] EXCEPT !.content = forwarded[i]]]
Changed == forwarded # [i \in DOMAIN request.spans |-> request.spans[i].content]

(* What goes upstream says what the agent sent: only tool results of the      *)
(* arm's kind differ, each is smaller and tells all that its rewriter read in  *)
(* it, and a body that is not smaller is never sent (active_forward_body).    *)
RewriteIsFaithful ==
    phase = "sent" =>
        \A i \in DOMAIN request.spans :
            \/ forwarded[i] = request.spans[i].content
            \/ /\ request.route = "Responses" /\ Selected(request.spans[i])
               /\ SpanSize(Sent[i]) < SpanSize(request.spans[i])
               /\ Tells(forwarded[i], request.spans[i].content)

(* The counters of the run tell the requests apart as they were forwarded: a  *)
(* request counts as rewritten exactly when other bytes than its own were      *)
(* sent, and an attempt has one outcome (ActiveCompressionCounters::record).   *)
CountersTellForwards ==
    [][phase # "sent" /\ phase' = "sent" =>
        /\ (tally'["Rewritten"] = tally["Rewritten"] + 1) <=> Changed'
        /\ tally'["Rewritten"] = tally["Rewritten"] => tally'["outputs"] = tally["outputs"]
        /\ tally'["attempts"] = MapThenSumSet(LAMBDA o : tally'[o], Outcomes)]_vars
-----------------------------------------------------------------------------
(* docs/design/phase-4-2-active-compression.md:31: "Any malformed, ... or      *)
(* resource-limited attempt forwards the original bytes."  A span over the     *)
(* input bound, or plain text that holds no matches, is refused on its own;    *)
(* the refusal of one span is forgotten when a later one merely does not       *)
(* apply (terminal in rewrite_search_projection).                             *)
Unfit(s) ==
    Selected(s) /\
        (\/ Size(s.content) > InputBound
         \/ mode = "SearchProjection" /\ s.content.form = "text" /\ Matches(s.content.lines) = << >>)

AnyRefusalFailsOpen ==
    phase = "sent" /\ (\E i \in DOMAIN request.spans : Unfit(request.spans[i])) => ~Changed

(* docs/design/phase-4-5-controlled-public-tool-workloads.md:22: the search     *)
(* projection "is semantically lossless for its canonical model": the model    *)
(* read from the view is the model read from the tool result                   *)
(* (SearchResultModel::parse).                                                *)
SameMatches(a, b) ==
    \A m \in ToSet(a) \cup ToSet(b) :
        Cardinality({i \in DOMAIN a : a[i] = m}) = Cardinality({i \in DOMAIN b : b[i] = m})

ViewHasTheSameModel ==
    phase = "sent" /\ mode = "SearchProjection" =>
        \A i \in DOMAIN request.spans :
            request.spans[i].content.form = "text" =>
                SameMatches(Matches(forwarded[i].lines), Matches(request.spans[i].content.lines))
=============================================================================
