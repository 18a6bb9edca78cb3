--------------------------- MODULE ShadowProperties ---------------------------
(***************************************************************************)
(* What the shadow worker's measurements must be.                           *)
(***************************************************************************)
EXTENDS ShadowEvaluation

Statuses == {"Applicable", "NotApplicable", "NoImprovement", "ResourceLimit", "InvalidInput",
             "RecoveryFailed"}
Live == worker \in {"starting", "idle", "evaluating", "persisting"}

(* The worker's place is in its job, its budget is never overdrawn, and every  *)
(* record names a candidate of the job and block it is of                      *)
(* (evaluate_shadow_job).                                                     *)
ShadowTypeOK ==
    /\ worker \in {"starting", "idle", "evaluating", "persisting", "ended", "failed", "aborted"}
    /\ manifest \in {"none", "running", "completed"}
    /\ remaining \in 0 .. WorkBound
    /\ slows \in 0 .. MaxSlow
    /\ worker = "evaluating" => at[1] \in 1 .. Len(job) + 1
    /\ \A m \in stored \cup ToSet(records) \cup ToSet(batch) :
         /\ m.status \in Statuses
         /\ m.candidate \in ToSet(JsonCompressors) \cup ToSet(TextCompressors) \cup ToSet(Reducers)
    /\ \A f \in CounterFields : counters[f] \in Nat /\ reported[f] \in Nat
-----------------------------------------------------------------------------
(* The candidates a block has, whatever becomes of them.                      *)
CandidatesOf(block) ==
    IF ~Evaluated(block) THEN {}
    ELSE {n \in 1 .. LastOf(block) :
            /\ Reducing(block, n) => Enabled(block, ReducerAt(block, n))
            /\ \/ Place(block, n) > MaxCandidates
               \/ ~Reducing(block, n)
               \/ Decision(block, n) = "KeepFullWithCandidate"}

OfJob == SelectSeq(records, LAMBDA m : m.job = counters["jobs"])
Wants(i, n) == i < at[1] \/ n < at[2]

(* While a job is evaluated, and when it is done, each of its candidates has    *)
(* been measured once or dropped once, and what was measured cost no more than *)
(* the one budget of the job: a reducer is charged for both its passes         *)
(* (remaining_work in evaluate_shadow_job).                                   *)
EveryCandidateIsAccounted ==
    worker = "evaluating" =>
        LET due == {p \in UNION {{<<i, n>> : n \in CandidatesOf(job[i])} : i \in 1 .. Min({at[1], Len(job)})} :
                        Wants(p[1], p[2])}
            Cost(m) == (IF m.candidate \in ToSet(Reducers) THEN 2 ELSE 1)
                          * Max({Size(job[m.block].content), 1})
        IN  /\ Len(OfJob) + counters["skipped"] >= Cardinality(due)
            /\ counters["jobs"] = 1 => Len(OfJob) + counters["skipped"] = Cardinality(due)
            /\ counters["attempted"] = counters["completed"]
            /\ counters["drops"] = counters["workBudget"] + counters["persistence"]
            /\ Total(Cost, OfJob) + remaining = WorkBound

(* Every transform is undone exactly: no candidate's recovery ever fails        *)
(* (ShadowCompressor::recover, checked by evaluate_with_estimator).            *)
RecoveryIsExact ==
    /\ counters["recovery"] = 0
    /\ \A m \in ToSet(records) : m.status # "RecoveryFailed"
-----------------------------------------------------------------------------
(* The values of rows read back from a table of cells.                        *)
FromTable(table) ==
    [i \in DOMAIN table.rows |->
        [c \in ToSet(table.columns) |->
            table.rows[i][CHOOSE k \in DOMAIN table.columns : table.columns[k] = c]]]
RowValues(v) == [i \in DOMAIN v.items |-> [c \in Keys(v.items[i]) |-> Parsed(Field(v.items[i], c))]]

RECURSIVE Resolved(_, _)
Resolved(v, defs) ==
    IF \E i \in DOMAIN defs : v = Reference(i)
    THEN defs[CHOOSE i \in DOMAIN defs : v = Reference(i)]
    ELSE CASE v.k = "arr" -> Arr([i \in DOMAIN v.items |-> Resolved(v.items[i], defs)])
           [] v.k = "obj" -> Obj([i \in DOMAIN v.fields |->
                                    <<v.fields[i][1], Resolved(v.fields[i][2], defs)>>])
           [] OTHER -> v

(* What a reader of the candidate alone can tell of the document.             *)
TellsDocument(compressor, t, doc) ==
    CASE compressor \in {"json.tabular", "json.readable_table", "json.compact_records",
                         "json.key_elision"} -> FromTable(t.body) = RowValues(doc.value)
      [] compressor = "json.repeated_subtree" ->
           Resolved(t.body.value, t.body.definitions) = Parsed(doc.value)
      [] compressor \in {"text.repeated_line", "text.repeated_run", "text.readable_line_fold",
                         "text.readable_block_fold"} -> Unrolled(t.body) = doc.lines
      [] compressor = "text.log_prefix_fold" ->
           /\ FlattenSeq([i \in DOMAIN t.body |-> t.body[i].lines]) = doc.lines
           /\ \A i \in DOMAIN t.body : t.body[i].prefix # "" =>
                \A l \in ToSet(t.body[i].lines) : l.word = t.body[i].prefix
      [] OTHER -> TRUE

(* A row of the elided view with the common fields put back.                  *)
WithCommon(view, i) ==
    LET common == Field(view.value, "common")
        row == Field(view.value, "rows").items[i]
    IN  [c \in Keys(common) \cup Keys(row) |->
            IF c \in Keys(row) THEN Field(row, c) ELSE Field(common, c)]

(* A projected output: its head and its tail stand where they stood, and the   *)
(* lines between are as many as the view says it left out.                    *)
TellsOmission(shown, lines, omitted) ==
    LET all == Append(lines, Prose(""))
        mark == CHOOSE i \in DOMAIN shown : shown[i] = Omission(omitted)
    IN  Head(shown) = Head(all) /\ mark - 1 + omitted + (Len(shown) - mark) + 1 = Len(all)
          /\ SubSeq(shown, 1, mark - 1) = SubSeq(all, 1, mark - 1)
          /\ \A k \in 1 .. Len(shown) - mark :
               shown[mark + k] = lines[Len(lines) - (Len(shown) - mark) + k]

TellsReduced(reducer, r, doc) ==
    CASE reducer = "json.repeated_value_elision" ->
           \A i \in DOMAIN doc.value.items :
               WithCommon(r.view, i) = RowValues(doc.value)[i]
      [] reducer = "json.empty_noise_fields" ->
           /\ FieldsIn(r.view.value) + r.omitted = FieldsIn(Parsed(doc.value))
           /\ StripEmptyFields(Parsed(doc.value)) = r.view.value
      [] reducer = "shell.diagnostic_projection" ->
           \E key \in {"stdout", "output"} \cap Keys(doc.value) :
               TellsOmission(Field(r.view.value, key).lines, Field(doc.value, key).lines, r.omitted)
      [] OTHER -> TRUE

(* What a candidate shows, it shows of its input: a table gives back every      *)
(* row, references the subtrees they stand for, a fold every line as often as  *)
(* it was there, an elided row its common fields, and a projection says how     *)
(* many lines it leaves out.  The recovery copy the crate keeps of the input    *)
(* would hide a candidate that does not.                                      *)
CandidatesTellTheirInput ==
    worker = "evaluating" /\ records # << >> =>
        LET m == Last(records)
            block == job[m.block]
        IN  m.status \in {"Applicable", "NoImprovement"} =>
              IF m.candidate \in ToSet(Reducers)
              THEN \A slow \in BOOLEAN :
                     LET r == Reduce(m.candidate, block.content, slow)
                     IN  r.status = "Applicable" => TellsReduced(m.candidate, r, block.content)
              ELSE LET t == Transform(m.candidate, block.content)
                   IN  t.status = "ok" => TellsDocument(m.candidate, t, block.content)
-----------------------------------------------------------------------------
(* The daemon holds a job's measurements in whole batches, each at most once:    *)
(* what it does not hold was lost with a batch that was counted, and a          *)
(* completed evaluation is stored, still to be sent, or in such a batch         *)
(* (persist_shadow_candidates, record_shadow_candidates).                     *)
LostBatchesAreCounted ==
    Live =>
        LET held == Cardinality(stored) + Len(records) + Len(batch)
        IN  /\ held <= counters["completed"]
            /\ counters["completed"] <= held + BatchRecords * counters["persistence"]

(* The worker comes to an end, unless its drain was cut short: every job is     *)
(* evaluated, its records are sent, and the experiment is closed              *)
(* (ShadowCompressionWorker::run).                                            *)
WorkerEnds == <>(worker \in {"ended", "failed", "aborted"})
=============================================================================
