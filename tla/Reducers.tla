------------------------------ MODULE Reducers ------------------------------
(***************************************************************************)
(* The reducers of tool results (tracepress-compression/src/reduction.rs):  *)
(* the search projection, which groups matches by file, and three           *)
(* reducers of JSON documents.  Each yields a smaller view the model may    *)
(* read, and keeps the original for a local recovery.  Fingerprints and     *)
(* timings are left out; `slow` says that a call exceeded its wall time.    *)
(***************************************************************************)
EXTENDS Documents

CONSTANTS
    InputBound,     \* max_candidate_input_bytes
    OutputBound,    \* max_candidate_output_bytes
    MemoryBound,    \* max_shadow_memory_bytes
    WorkBound,      \* max_shadow_work_units
    MaxCandidates,  \* max_candidates_per_block
    HeadLines,      \* SHELL_HEAD_LINES
    TailLines       \* SHELL_TAIL_LINES

None == [k |-> "none"]
Reduction(status, view, omitted) == [status |-> status, view |-> view, omitted |-> omitted]
Refusal(status) == Reduction(status, None, 0)
-----------------------------------------------------------------------------
(* SearchResultModel::parse.  A line that ends with a colon and has no space  *)
(* opens a group of rows, whatever else it may be.                            *)
IsHeader(l) ==
    CASE l.form = "header" -> l.file \notin Spaced
      [] l.form = "match" -> Colon(l.text) /\ {l.file, l.text} \cap Spaced = {}
      [] l.form \in {"row", "prose"} -> Colon(l.text) /\ l.text # "" /\ l.text \notin Spaced
      [] OTHER -> FALSE

Found(f, n, t) == [file |-> f, number |-> n, text |-> t]

ReadLine(s, l) ==
    LET Add(f) == [s EXCEPT !.matches = Append(@, Found(f, l.number, l.text))]
        Summary == [s EXCEPT !.summary = @ + 1]
    IN  IF ~s.ok \/ l \in {Prose(""), Title} THEN s
        ELSE IF IsHeader(l)
        THEN [s EXCEPT !.group = IF l.form = "header" THEN l.file ELSE "?"]
        ELSE CASE l.form = "row" -> IF s.group = "" THEN Summary ELSE Add(s.group)
               [] l.form = "event" ->
                    IF l.type = "match"
                    THEN IF l.file = "" THEN [s EXCEPT !.ok = FALSE] ELSE Add(l.file)
                    ELSE IF l.type \in {"begin", "end", "summary"} THEN s ELSE Summary
               [] l.form = "match" -> Add(l.file)
               [] OTHER -> Summary

(* Its matches; none when the lines are no search result.                     *)
Matches(lines) ==
    LET s == FoldLeft(ReadLine, [ok |-> TRUE, group |-> "", matches |-> << >>, summary |-> 0],
                      lines)
    IN  IF s.ok THEN s.matches ELSE << >>

(* Seeded fault: one row per line number.                                     *)
RenderOnce(matches) ==
    LET Group(f) ==
            LET of == {matches[i] : i \in {j \in DOMAIN matches : matches[j].file = f}}
                first == {m \in of : m = CHOOSE x \in of : x.number = m.number}
            IN  [i \in 1 .. Cardinality(first) |->
                   LET m == SetToSortSeq(first, LAMBDA x, y : x.number < y.number)[i]
                   IN  Row(m.number, m.text)]
    IN  FoldLeft(LAMBDA out, f : out \o <<Header(f)>> \o Group(f), <<Title>>,
                 SetToSeq({matches[i].file : i \in DOMAIN matches}))

(* render_grouped: a header for each file, its matches by line number.  The   *)
(* order of files, and of texts of one line, is some fixed order.             *)
Render(matches) ==
    LET Group(f) ==
            LET of == SortSeq(SelectSeq(matches, LAMBDA m : m.file = f),
                              LAMBDA x, y : x.number < y.number)
            IN  [i \in DOMAIN of |-> Row(of[i].number, of[i].text)]
    IN  FoldLeft(LAMBDA out, f : out \o <<Header(f)>> \o Group(f), <<Title>>,
                 SetToSeq({matches[i].file : i \in DOMAIN matches}))
-----------------------------------------------------------------------------
(* json_string_token_ranges: every string token, keys included.               *)
Strings(doc) == SelectSeq(Tokens(doc.value), LAMBDA t : t.token.k \in {"str", "text"})
TooManyStrings(doc) == Len(Strings(doc)) > MaxCandidates
Texts(doc) == SelectSeq(Strings(doc), LAMBDA t : t.token.k = "text")

RECURSIVE Substitute(_, _, _)
Substitute(v, old, new) ==
    IF v = old THEN new
    ELSE CASE v.k = "arr" -> Arr([i \in DOMAIN v.items |-> Substitute(v.items[i], old, new)])
           [] v.k = "obj" -> Obj([i \in DOMAIN v.fields |->
                                    <<v.fields[i][1], Substitute(v.fields[i][2], old, new)>>])
           [] OTHER -> v

WithText(doc, old, lines) == [doc EXCEPT !.value = Substitute(@, Text(old), Text(lines))]

(* search_json_envelope_view: the one string of a document that holds         *)
(* matches, replaced when that is shorter.                                    *)
View(found, doc) == [k |-> "view", found |-> found, doc |-> doc]

Regrouped(doc, lines, found, shown) ==
    IF EncodedSize(shown) >= EncodedSize(lines) THEN None
    ELSE View(found, WithText(doc, lines, shown))

StringView(doc, searches) ==
    IF TooManyStrings(doc) \/ Len(searches) # 1 THEN None
    ELSE LET lines == searches[1].token.lines
         IN  Regrouped(doc, lines, Matches(lines), Render(Matches(lines)))

EnvelopeView(doc) ==
    StringView(doc, SelectSeq(Texts(doc), LAMBDA t : Matches(t.token.lines) # << >>))

TextView(found) == IF found = << >> THEN None ELSE View(found, Plain(Render(found)))

SearchView(doc) == IF doc.form = "json" THEN EnvelopeView(doc) ELSE TextView(Matches(doc.lines))

TooLarge(doc) == Size(doc) > Min({InputBound, MemoryBound})
Oversized(doc, view) == Size(view) > OutputBound \/ Size(view) + Size(doc) > MemoryBound

(* SearchResultReducer::reduce                                                *)
JudgedView(doc, view, slow) ==
    IF view = None THEN Refusal("NotApplicable")
    ELSE IF \/ Len(view.found) < 2 \/ Size(view.doc) >= Size(doc)
            \/ Oversized(doc, view.doc) \/ slow
    THEN Refusal("NoImprovement")
    ELSE Reduction("Applicable", view.doc, 0)

SearchResultReducer(doc, slow) ==
    IF TooLarge(doc) THEN Refusal("ResourceLimit") ELSE JudgedView(doc, SearchView(doc), slow)
-----------------------------------------------------------------------------
(* A document read as a serde_json value and written again: the last of a     *)
(* key's values stays, keys come in one fixed order, gaps go.                 *)
RECURSIVE Parsed(_)
Parsed(v) ==
    CASE v.k = "arr" -> Arr([i \in DOMAIN v.items |-> Parsed(v.items[i])])
      [] v.k = "obj" ->
           LET Latest(key) == Max({i \in DOMAIN v.fields : v.fields[i][1] = key})
               keys == SetToSeq(Keys(v))
           IN  Obj([i \in DOMAIN keys |-> <<keys[i], Parsed(v.fields[Latest(keys[i])][2])>>])
      [] OTHER -> v

Written(v) == Json(v, 0)

JudgedWritten(doc, written, omitted, slow) ==
    IF Oversized(doc, written) \/ slow THEN Refusal("ResourceLimit")
    ELSE IF Size(written) >= Size(doc) THEN Refusal("NoImprovement")
    ELSE Reduction("Applicable", written, omitted)

Judged(doc, v, omitted, slow) == JudgedWritten(doc, Written(v), omitted, slow)

(* validate_json, the strict reading: none of its errors is "ok".             *)
Validity(doc) ==
    CASE Size(doc) > WorkBound -> "ResourceLimit"
      [] Size(doc) <= WorkBound /\ doc.form = "text" -> "InvalidInput"
      [] OTHER -> IF HasDuplicateKeys(doc.value) THEN "NotApplicable" ELSE "ok"

IsEmpty(v) ==
    \/ v = Null \/ v = Str("") \/ v = Arr(<< >>) \/ v = Obj(<< >>)

(* strip_empty_fields: the fields kept, and what was left out of them.        *)
RECURSIVE StripEmptyFields(_)
StripEmptyFields(v) ==
    CASE v.k = "arr" -> Arr([i \in DOMAIN v.items |-> StripEmptyFields(v.items[i])])
      [] v.k = "obj" ->
           LET kept == SelectSeq(v.fields, LAMBDA f : ~IsEmpty(f[2]))
           IN  Obj([i \in DOMAIN kept |-> <<kept[i][1], StripEmptyFields(kept[i][2])>>])
      [] OTHER -> v

RECURSIVE FieldsIn(_)
FieldsIn(v) ==
    CASE v.k = "arr" -> Total(FieldsIn, v.items)
      [] v.k = "obj" -> Len(v.fields) + Total(LAMBDA f : FieldsIn(f[2]), v.fields)
      [] OTHER -> 0

RECURSIVE Visits(_)
Visits(v) ==
    1 + (CASE v.k = "arr" -> Total(Visits, v.items)
           [] v.k = "obj" -> Total(LAMBDA f : IF IsEmpty(f[2]) THEN 0 ELSE Visits(f[2]), v.fields)
           [] OTHER -> 0)

(* JsonEmptyNoiseFieldReducer::reduce                                         *)
WithoutEmpty(doc, v, kept, slow) ==
    IF Visits(v) > WorkBound THEN Refusal("ResourceLimit")
    ELSE Judged(doc, kept, FieldsIn(v) - FieldsIn(kept), slow)

JsonEmptyNoiseFieldReducer(doc, slow) ==
    IF TooLarge(doc) THEN Refusal("ResourceLimit")
    ELSE IF doc.form = "text" THEN Refusal("InvalidInput")
    ELSE WithoutEmpty(doc, Parsed(doc.value), StripEmptyFields(Parsed(doc.value)), slow)
-----------------------------------------------------------------------------
IsRows(v) == v.k = "arr" /\ Len(v.items) >= 2 /\ v.items[1].k = "obj" /\ v.items[1].fields # << >>

Homogeneous(rows) ==
    \A i \in DOMAIN rows : rows[i].k = "obj" /\ Keys(rows[i]) = Keys(rows[1])

(* Seeded fault: the rows need not have the same keys.                        *)
CommonWhereKnown(rows) ==
    {key \in Keys(rows[1]) :
        /\ IsScalar(Field(rows[1], key))
        /\ \A i \in DOMAIN rows : rows[i].k = "obj" /\
             (key \in Keys(rows[i]) => Field(rows[i], key) = Field(rows[1], key))}

(* The scalar fields with one value in all rows of one shape.                 *)
Common(rows) ==
    {key \in Keys(rows[1]) :
        /\ IsScalar(Field(rows[1], key))
        /\ Homogeneous(rows)
        /\ \A i \in DOMAIN rows : Field(rows[i], key) = Field(rows[1], key)}

(* JsonRepeatedValueReducer::reduce                                           *)
Elision(rows, common) ==
    LET Without(row) == Obj(SelectSeq(row.fields, LAMBDA f : f[1] \notin common))
    IN  Obj(<< <<"common", Obj(SelectSeq(rows[1].fields, LAMBDA f : f[1] \in common))>>,
               <<"rows", Arr([i \in DOMAIN rows |-> Without(rows[i])])>> >>)

Elided(doc, rows, width, common, slow) ==
    IF Len(rows) * width > WorkBound THEN Refusal("ResourceLimit")
    ELSE IF common = {} THEN Refusal("NotApplicable")
    ELSE IF Len(rows) * (width + 1) > WorkBound THEN Refusal("ResourceLimit")
    ELSE Judged(doc, Elision(rows, common), Len(rows) * Cardinality(common), slow)

ElidedRows(doc, rows, slow) == Elided(doc, rows, Cardinality(Keys(rows[1])), Common(rows), slow)

JsonRepeatedValueReducer(doc, slow) ==
    IF TooLarge(doc) THEN Refusal("ResourceLimit")
    ELSE IF Validity(doc) # "ok" THEN Refusal(Validity(doc))
    ELSE IF ~IsRows(doc.value) THEN Refusal("NotApplicable")
    ELSE ElidedRows(doc, Parsed(doc.value).items, slow)
-----------------------------------------------------------------------------
Omission(n) == [form |-> "prose", text |-> "[omitted " \o ToString(n) \o " lines]"]

(* Seeded fault: the tail starts one line late.                               *)
ProjectedShort(lines, omitted) ==
    SubSeq(lines, 1, HeadLines) \o <<Omission(omitted)>>
      \o SubSeq(lines, Len(lines) + 3 - TailLines, Len(lines))

(* The head, how much is left out, and the tail.  Split at newlines, a        *)
(* terminated text has one more, empty, line.                                 *)
Projected(lines, omitted) ==
    SubSeq(lines, 1, HeadLines) \o <<Omission(omitted)>>
      \o SubSeq(lines, Len(lines) + 2 - TailLines, Len(lines))

(* ShellDiagnosticProjectionReducer::reduce                                   *)
Projection(doc, object, output, lines, omitted, slow) ==
    IF omitted <= 1 THEN Refusal("NoImprovement")
    ELSE IF Len(lines) + 1 + Size(doc) > WorkBound THEN Refusal("ResourceLimit")
    ELSE Judged(doc, Obj([i \in DOMAIN object.fields |->
             IF object.fields[i][1] = output
             THEN <<output, Text(Projected(lines, omitted))>> ELSE object.fields[i]]),
           omitted, slow)

ProjectedOutput(doc, object, output, slow) ==
    LET lines == Field(object, output).lines
    IN  Projection(doc, object, output, lines, Len(lines) + 1 - HeadLines - TailLines, slow)

Outputs(object) ==
    SelectSeq(<<"stdout", "output">>,
              LAMBDA key : key \in Keys(object) /\ Field(object, key).k = "text")

Diagnostic(doc, object, slow) ==
    IF Keys(object) \cap {"exit_code", "status"} = {} \/ Outputs(object) = << >>
    THEN Refusal("NotApplicable")
    ELSE ProjectedOutput(doc, object, Outputs(object)[1], slow)

ShellDiagnosticProjectionReducer(doc, slow) ==
    IF TooLarge(doc) THEN Refusal("ResourceLimit")
    ELSE IF Validity(doc) # "ok" THEN Refusal(Validity(doc))
    ELSE IF doc.value.k # "obj" THEN Refusal("NotApplicable")
    ELSE Diagnostic(doc, Parsed(doc.value), slow)
-----------------------------------------------------------------------------
(* ToolResultReducer::supports and ::policy: which kinds of block, and the    *)
(* size below which a block is kept full.                                     *)
Reducers == <<"json.empty_noise_fields", "json.repeated_value_elision",
              "shell.diagnostic_projection", "search.result_projection">>

Policy(reducer, block, keepFull) ==
    IF \/ block.origin # "ToolGenerated" \/ block.kind # "ToolResult"
       \/ block.detected \notin
            (IF reducer = "search.result_projection" THEN {"Json", "PlainText"} ELSE {"Json"})
    THEN "Unsupported"
    ELSE IF Size(block.content) < keepFull THEN "KeepFull" ELSE "KeepFullWithCandidate"

Reduce(reducer, doc, slow) ==
    CASE reducer = "json.empty_noise_fields" -> JsonEmptyNoiseFieldReducer(doc, slow)
      [] reducer = "json.repeated_value_elision" -> JsonRepeatedValueReducer(doc, slow)
      [] reducer = "shell.diagnostic_projection" -> ShellDiagnosticProjectionReducer(doc, slow)
      [] reducer = "search.result_projection" -> SearchResultReducer(doc, slow)
=============================================================================
