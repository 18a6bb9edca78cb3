----------------------------- MODULE Compressors -----------------------------
(***************************************************************************)
(* The reversible candidates of the compression crate: seven for JSON       *)
(* documents (src/json.rs), six for plain text (src/text.rs), and the gates *)
(* every one passes (evaluate_with_estimator of src/lib.rs).  A candidate   *)
(* is kept as the structure it encodes, with its size in bytes; integers    *)
(* are assumed to take one byte as varints.  Left out are caps no document  *)
(* of a run comes near: rows, columns and depth of a readable table, depth  *)
(* of a document, and the work of the search for blocks of lines.           *)
(***************************************************************************)
EXTENDS Reducers

JsonCompressors == <<"json.noop", "json.minify", "json.tabular", "json.repeated_subtree",
                     "json.readable_table", "json.compact_records", "json.key_elision">>
TextCompressors == <<"text.noop", "text.repeated_line", "text.repeated_run",
                     "text.readable_line_fold", "text.readable_block_fold",
                     "text.log_prefix_fold">>

(* A transform fails with a status or yields a candidate and what it takes to *)
(* recover the input: nothing, a list of gaps, or a copy of the input.        *)
Failed(status) == [status |-> status]
Copy(doc) == [k |-> "copy", doc |-> doc, size |-> Size(doc)]
Nothing == [k |-> "nothing", size |-> 0]
Yield(body, size, recovery) ==
    [status |-> "ok", body |-> body, size |-> size, recovery |-> recovery]

(* bounds, readable_text_bounds, bounded_vec                                  *)
Bounded(t) ==
    IF t.size > OutputBound \/ t.size + t.recovery.size > MemoryBound
    THEN Failed("ResourceLimit") ELSE t
-----------------------------------------------------------------------------
(* JsonMinify: the tokens without the gaps, which are noted at the offset in  *)
(* the candidate they were taken from.                                        *)
Minify(doc) ==
    FoldLeft(LAMBDA m, t :
        IF t.token.k = "gap"
        THEN [m EXCEPT !.gaps = Append(@, <<m.read, t.size>>)]
        ELSE [m EXCEPT !.kept = Append(@, t), !.read = @ + t.size],
      [kept |-> << >>, gaps |-> << >>, read |-> 0], Bytes(doc))

(* Its recovery: tokens are copied up to the next noted offset, then the gap. *)
RECURSIVE UnminifiedFrom(_, _, _)
UnminifiedFrom(source, tokens, gaps) ==
    CASE gaps # << >> /\ gaps[1][1] = source ->
           <<Gap(gaps[1][2])>> \o UnminifiedFrom(source, tokens, Tail(gaps))
      [] tokens # << >> /\ (gaps = << >> \/ gaps[1][1] > source) ->
           <<tokens[1]>> \o UnminifiedFrom(source + tokens[1].size, Tail(tokens), gaps)
      [] OTHER -> << >>
Unminified(tokens, gaps) == UnminifiedFrom(0, tokens, gaps)
-----------------------------------------------------------------------------
(* The columns of homogeneous rows, in the order of the first row's keys.     *)
IsTable(v) == IsRows(v) /\ Homogeneous(v.items)
Columns(rows) == SetToSeq(Keys(rows[1]))
Cells(row, columns) == [i \in DOMAIN columns |-> Parsed(Field(row, columns[i]))]

Table(v) ==
    LET columns == Columns(v.items)
    IN  [columns |-> columns, rows |-> [i \in DOMAIN v.items |-> Cells(v.items[i], columns)]]

StrArr(names) == Arr([i \in DOMAIN names |-> Str(names[i])])
RowSizes(rows, extra) == Total(LAMBDA row : ValueSize(Arr(row)) + extra, rows)

JsonTabular(doc, table) ==
    LET body == Arr(<<Str("TPJ2"), StrArr(table.columns),
                      Arr([i \in DOMAIN table.rows |-> Arr(table.rows[i])])>>)
    IN  Bounded(Yield(table, ValueSize(body), Copy(doc)))

(* render_readable_table: its three styles hold the same table.               *)
ReadableSize(style, table) ==
    LET names == ValueSize(StrArr(table.columns))
    IN  CASE style = "json.readable_table" -> 28 + names + RowSizes(table.rows, 5)
          [] style = "json.compact_records" -> 31 + names + RowSizes(table.rows, 1)
          [] style = "json.key_elision" -> 35 + names + RowSizes(table.rows, 1)

ReadableTable(doc, style, table) ==
    Bounded(Yield(table, ReadableSize(style, table), Copy(doc)))
-----------------------------------------------------------------------------
(* The places of arrays and objects in v, by what they hold.                  *)
RECURSIVE Subtrees(_)
Subtrees(v) ==
    CASE v.k = "arr" -> FlattenSeq([i \in DOMAIN v.items |-> Subtrees(v.items[i])]) \o <<v>>
      [] v.k = "obj" -> FlattenSeq([i \in DOMAIN v.fields |-> Subtrees(v.fields[i][2])]) \o <<v>>
      [] OTHER -> << >>

(* collect_subtrees: every value is a unit of work, and so is every byte of a *)
(* subtree; each subtree is kept once.                                        *)
Parts(s) == IF s.k = "arr" THEN s.items ELSE s.fields
TooManySubtrees(v) ==
    LET all == Subtrees(v)
    IN  \/ 1 + Total(LAMBDA s : ValueSize(s) + Len(Parts(s)), all) > WorkBound
        \/ Total(ValueSize, SetToSeq(ToSet(all))) > MemoryBound

Definitions(v) ==
    LET all == Subtrees(v)
    IN  SetToSeq({s \in Subvalues(v) :
            Cardinality({i \in DOMAIN all : all[i] = s}) > 1 /\ ValueSize(s) >= 8})

Reference(i) == Arr(<<Str("$tp_ref"), Atom(ToString(i - 1))>>)

(* factor_value: every repeated subtree below the root becomes a reference.   *)
RECURSIVE Factored(_, _)
Factored(v, defs) ==
    LET Child(c) == IF \E i \in DOMAIN defs : defs[i] = c
                    THEN Reference(CHOOSE i \in DOMAIN defs : defs[i] = c)
                    ELSE Factored(c, defs)
    IN  CASE v.k = "arr" -> Arr([i \in DOMAIN v.items |-> Child(v.items[i])])
          [] v.k = "obj" -> Obj([i \in DOMAIN v.fields |->
                                   <<v.fields[i][1], Child(v.fields[i][2])>>])
          [] OTHER -> v

JsonRepeatedSubtree(doc, v, defs) ==
    LET factored == Factored(v, defs)
    IN  IF TooManySubtrees(v) THEN Failed("ResourceLimit")
        ELSE IF defs = << >> THEN Failed("NotApplicable")
        ELSE Bounded(Yield([definitions |-> defs, value |-> factored],
                 ValueSize(Arr(<<Str("TPJ3"), Arr(defs), factored>>)), Copy(doc)))

JsonMinify(m) ==
    Bounded(Yield(m.kept, TokensSize(m.kept),
        [k |-> "gaps", gaps |-> m.gaps, size |-> Total(LAMBDA g : 2 + g[2], m.gaps)]))

JsonTransform(compressor, doc) ==
    IF compressor = "json.noop" THEN Bounded(Yield(Bytes(doc), Size(doc), Nothing))
    ELSE IF Validity(doc) # "ok" THEN Failed(Validity(doc))
    ELSE CASE compressor = "json.minify" -> JsonMinify(Minify(doc))
           [] compressor = "json.repeated_subtree" ->
                LET v == Parsed(doc.value) IN JsonRepeatedSubtree(doc, v, Definitions(v))
           [] OTHER ->
                IF ~IsTable(doc.value) THEN Failed("NotApplicable")
                ELSE IF compressor = "json.tabular" THEN JsonTabular(doc, Table(doc.value))
                ELSE ReadableTable(doc, compressor, Table(doc.value))
-----------------------------------------------------------------------------
(* Runs of text: how often a block of lines repeats, and the block.           *)
Run(count, lines) == [count |-> count, lines |-> lines]

Repeats(lines, i, n) ==
    LET Same(k) == /\ i + (k + 1) * n - 1 <= Len(lines)
                   /\ SubSeq(lines, i + k * n, i + (k + 1) * n - 1) = SubSeq(lines, i, i + n - 1)
    IN  Max({k \in 1 .. Len(lines) : \A j \in 1 .. k - 1 : Same(j)})

(* TextRepeatedLine: equal lines in a row.                                    *)
RECURSIVE LineRuns(_, _)
LineRuns(lines, i) ==
    IF i > Len(lines) THEN << >>
    ELSE <<Run(Repeats(lines, i, 1), <<lines[i]>>)>> \o LineRuns(lines, i + Repeats(lines, i, 1))

(* Seeded fault: a block that almost repeats once more is taken to.           *)
BlockAtOver(lines, i) ==
    LET Fits(n) == Repeats(lines, i, n) >= 2
        Covered(n) == n * (Repeats(lines, i, n) + 1)
        sizes == {n \in 2 .. Min({8, (Len(lines) - i + 1) \div 2}) : Fits(n)}
        best == CHOOSE n \in sizes : \A m \in sizes :
                   Covered(n) > Covered(m) \/ (Covered(n) = Covered(m) /\ n <= m)
    IN  IF sizes = {} THEN Run(1, <<lines[i]>>)
        ELSE Run(Repeats(lines, i, best) + 1, SubSeq(lines, i, i + best - 1))

(* TextRepeatedRun and repeated_block_records: at each line the block of two  *)
(* to eight lines whose repetitions cover most, the shortest of equals.       *)
BlockAt(lines, i) ==
    LET Fits(n) == Repeats(lines, i, n) >= 2
        Covered(n) == n * Repeats(lines, i, n)
        sizes == {n \in 2 .. Min({8, (Len(lines) - i + 1) \div 2}) : Fits(n)}
        best == CHOOSE n \in sizes : \A m \in sizes :
                   Covered(n) > Covered(m) \/ (Covered(n) = Covered(m) /\ n <= m)
    IN  IF sizes = {} THEN Run(1, <<lines[i]>>)
        ELSE Run(Repeats(lines, i, best), SubSeq(lines, i, i + best - 1))

RECURSIVE BlockRuns(_, _)
BlockRuns(lines, i) ==
    IF i > Len(lines) THEN << >>
    ELSE LET run == BlockAt(lines, i)
         IN  <<run>> \o BlockRuns(lines, i + run.count * Len(run.lines))

(* decode_records: every block as often as it repeats.                        *)
Unrolled(runs) ==
    FoldLeft(LAMBDA out, r : out \o FlattenSeq([i \in 1 .. r.count |-> r.lines]), << >>, runs)

(* encode_records: a magic, the number of runs, and per run two counts and    *)
(* the lines with their lengths.                                              *)
RecordsSize(runs) == 5 + Total(LAMBDA r : 2 + LinesSize(r.lines) + Len(r.lines), runs)

Quoted(l) == LineSize(l) + Escapes(l) + 2
RepeatSize(r) == IF r.count >= 2 THEN 8 + Digits(r.count) ELSE 0
FoldSize(title, runs, label) ==
    title + Total(LAMBDA r : RepeatSize(r) + label + Total(Quoted, r.lines) + Len(r.lines), runs)

(* log_prefix: the second word of a line and the space after it, when that    *)
(* makes three bytes; lines in a row with one prefix share it.                *)
Prefix(l) == IF l.form = "log" /\ Len(l.word) >= 2 THEN l.word ELSE ""

RECURSIVE PrefixRuns(_, _)
PrefixRuns(lines, i) ==
    IF i > Len(lines) THEN << >>
    ELSE LET word == Prefix(lines[i])
             ends == {j \in i .. Len(lines) :
                        \A m \in i .. j : m = i \/ (word # "" /\ Prefix(lines[m]) = word)}
             group == SubSeq(lines, i, Max(ends))
         IN  <<[prefix |-> IF Len(group) >= 2 THEN word ELSE "", lines |-> group]>>
               \o PrefixRuns(lines, Max(ends) + 1)

PrefixSize(g) ==
    IF g.prefix = "" THEN Total(LAMBDA l : 6 + Quoted(l), g.lines)
    ELSE 19 + Len(g.prefix) + Total(LAMBDA l : Quoted(l) - Len(g.prefix) + 1, g.lines)

Records(runs) == Bounded(Yield(runs, RecordsSize(runs), Nothing))

(* readable_line_fold and readable_block_fold, by their title and label.      *)
ReadableFold(doc, runs, title, label) ==
    IF \A i \in DOMAIN runs : runs[i].count < 2 THEN Failed("NotApplicable")
    ELSE Bounded(Yield(runs, FoldSize(title, runs, label), Copy(doc)))

PrefixFold(doc, groups) ==
    IF \A i \in DOMAIN groups : groups[i].prefix = "" THEN Failed("NotApplicable")
    ELSE Bounded(Yield(groups, 30 + Total(PrefixSize, groups), Copy(doc)))

TextTransform(compressor, doc) ==
    IF compressor = "text.noop" THEN Bounded(Yield(doc.lines, Size(doc), Nothing))
    ELSE IF Size(doc) > WorkBound THEN Failed("ResourceLimit")
    ELSE CASE compressor = "text.repeated_line" -> Records(LineRuns(doc.lines, 1))
           [] compressor = "text.repeated_run" -> Records(BlockRuns(doc.lines, 1))
           [] compressor = "text.readable_line_fold" ->
                ReadableFold(doc, LineRuns(doc.lines, 1), 24, 5)
           [] compressor = "text.readable_block_fold" ->
                ReadableFold(doc, BlockRuns(doc.lines, 1), 25, 8)
           [] compressor = "text.log_prefix_fold" -> PrefixFold(doc, PrefixRuns(doc.lines, 1))
-----------------------------------------------------------------------------
Transform(compressor, doc) ==
    IF compressor \in ToSet(JsonCompressors) THEN JsonTransform(compressor, doc)
    ELSE TextTransform(compressor, doc)

(* ShadowCompressor::recover                                                  *)
Recovered(compressor, t, doc) ==
    CASE compressor \in {"json.noop", "text.noop"} -> t.body
      [] compressor = "json.minify" -> Unminified(t.body, t.recovery.gaps)
      [] compressor \in {"text.repeated_line", "text.repeated_run"} -> Unrolled(t.body)
      [] OTHER -> IF doc.form = "json" THEN Bytes(t.recovery.doc) ELSE t.recovery.doc.lines

Original(doc) == IF doc.form = "json" THEN Bytes(doc) ELSE doc.lines

Target(block) == block.origin = "ToolGenerated" /\ block.kind = "ToolResult"
Supports(compressor, block) ==
    /\ Target(block)
    /\ block.detected = IF compressor \in ToSet(JsonCompressors) THEN "Json" ELSE "PlainText"

(* StructuralHeuristicEstimator, as far as it matters here: more bytes are    *)
(* never fewer tokens.                                                        *)
Estimate(size) == (size + 3) \div 4

(* evaluate_with_estimator: target, bounds, recovery, and never worse in      *)
(* bytes nor, where the block has an estimate, in estimated tokens.           *)
Verdict(compressor, block, t, slow) ==
    LET doc == block.content
        estimated == block.tokens # 0 /\ Estimate(t.size) >= block.tokens
    IN  IF t.status # "ok" THEN t.status
        ELSE IF t.size > OutputBound \/ t.size + t.recovery.size > MemoryBound \/ slow
        THEN "ResourceLimit"
        ELSE IF Recovered(compressor, t, doc) # Original(doc) THEN "RecoveryFailed"
        ELSE IF t.size >= Size(doc) \/ estimated THEN "NoImprovement"
        ELSE "Applicable"

Evaluate(compressor, block, slow) ==
    IF ~Supports(compressor, block) THEN "NotApplicable"
    ELSE IF TooLarge(block.content) THEN "ResourceLimit"
    ELSE Verdict(compressor, block, Transform(compressor, block.content), slow)
=============================================================================
