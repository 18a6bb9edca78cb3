--------------------------- MODULE ShadowEvaluation ---------------------------
(***************************************************************************)
(* The shadow compression worker of the CLI (ShadowCompressionWorker,       *)
(* evaluate_shadow_job in tracepress-cli/src/main.rs): it takes the         *)
(* analyzed requests one by one, tries every candidate on every accepted    *)
(* tool result inside one budget of work per request, and has the daemon    *)
(* store what it measured.  Admission to its queue is ContextIngestion's.   *)
(***************************************************************************)
EXTENDS Compressors

CONSTANTS
    Jobs,           \* the accepted blocks a job may carry
    MaxJobs,        \* bound: jobs
    MaxSlow,        \* bound: passes that exceed their wall time
    JsonKeepFull,   \* size below which a JSON reducer keeps a block full
    TextKeepFull,   \* the same for the shell and the search projection
    BatchRecords    \* records whose request stays below the IPC body budget

ASSUME ShadowAssumption == {MaxJobs, MaxSlow} \subseteq Nat /\ BatchRecords \in Nat \ {0}

VARIABLES
    manifest,       \* what the daemon holds of the experiment
    worker,         \* "starting", "idle", "evaluating", "persisting", and then
                    \* "ended", "failed" or "aborted"
    job,            \* the blocks of the job in hand
    at,             \* the block and the candidate it is at
    remaining,      \* remaining_work
    slows,          \* how many passes were slow
    records,        \* measured and not yet sent
    batch,          \* the records that are in the request being put together
    stored,         \* what the daemon has stored
    counters,       \* ShadowCounters
    reported        \* the counters the daemon was told

vars == <<manifest, worker, job, at, remaining, slows, records, batch, stored, counters,
          reported>>

CounterFields == {"drops", "jobs", "attempted", "completed", "skipped", "workBudget",
                  "persistence", "recovery"}
Zeros == [f \in CounterFields |-> 0]

Init ==
    /\ manifest = "none" /\ worker = "starting"
    /\ job = << >> /\ at = <<1, 1>> /\ remaining = 0 /\ slows = 0
    /\ records = << >> /\ batch = << >> /\ stored = {}
    /\ counters = Zeros /\ reported = Zeros

Count(c, fields) == [f \in CounterFields |-> IF f \in fields THEN c[f] + 1 ELSE c[f]]
-----------------------------------------------------------------------------
(* record_manifest("running"): when the daemon refuses it, run returns.       *)
Start(accepted) ==
    /\ worker = "starting"
    /\ worker' = IF accepted THEN "idle" ELSE "failed"
    /\ manifest' = IF accepted THEN "running" ELSE manifest
    /\ UNCHANGED <<job, at, remaining, slows, records, batch, stored, counters, reported>>

(* record_job: a job has its own budget of work.                              *)
TakeJob(blocks) ==
    /\ worker = "idle"
    /\ counters["jobs"] < MaxJobs
    /\ worker' = "evaluating"
    /\ job' = blocks /\ at' = <<1, 1>> /\ remaining' = WorkBound
    /\ counters' = Count(counters, {"jobs"})
    /\ UNCHANGED <<manifest, slows, records, batch, stored, reported>>
-----------------------------------------------------------------------------
Block == job[at[1]]

CompressorsOf(block) ==
    CASE Target(block) /\ block.detected = "Json" -> JsonCompressors
      [] Target(block) /\ block.detected = "PlainText" -> TextCompressors
      [] OTHER -> << >>

(* Every block whose kind has candidates and whose content decodes is         *)
(* evaluated: first its compressors, then the four reducers.                  *)
Evaluated(block) == CompressorsOf(block) # << >> /\ block.decodes
Reducing(block, n) == n > Len(CompressorsOf(block))
ReducerAt(block, n) == Reducers[n - Len(CompressorsOf(block))]
LastOf(block) == IF Evaluated(block) THEN Len(CompressorsOf(block)) + Len(Reducers) ELSE 0

(* The place of a candidate among max_candidates_per_block: a reducer's is    *)
(* counted after the JSON compressors, for text too.                          *)
Place(block, n) ==
    IF Reducing(block, n) THEN Len(JsonCompressors) + n - Len(CompressorsOf(block)) ELSE n

Enabled(block, reducer) ==
    CASE reducer = "shell.diagnostic_projection" -> block.shell
      [] reducer = "search.result_projection" -> block.search \/ block.detected = "Json"
      [] OTHER -> TRUE

KeepFull(reducer) ==
    IF reducer \in {"json.empty_noise_fields", "json.repeated_value_elision"} THEN JsonKeepFull ELSE TextKeepFull

(* Seeded fault: a reducer's second pass is free.                             *)
PassesOnce(block, n) == 1
Passes(block, n) == IF Reducing(block, n) THEN 2 ELSE 1
Work(block, n) == Passes(block, n) * Max({Size(block.content), 1})

(* What the policy of the n-th candidate, a reducer, makes of a block.        *)
Decision(block, n) ==
    LET r == ReducerAt(block, n) IN Policy(r, block, KeepFull(r))

(* One evaluation: a candidate's status and whether it came out the same      *)
(* when it was made again.                                                    *)
Measure(candidate, status, steady) ==
    [block |-> at[1], job |-> counters["jobs"], candidate |-> candidate, status |-> status,
     steady |-> steady]

ReducedTwice(reducer, first, second) ==
    Measure(reducer, first.status, first.status = second.status /\ first.view = second.view)

Measured(block, n, slow, again) ==
    IF Reducing(block, n)
    THEN LET r == ReducerAt(block, n)
         IN  ReducedTwice(r, Reduce(r, block.content, slow), Reduce(r, block.content, again))
    ELSE LET c == CompressorsOf(block)[n] IN Measure(c, Evaluate(c, block, slow), TRUE)

Advance == at' = <<at[1], at[2] + 1>>
KeepJob == UNCHANGED <<manifest, worker, job, batch, stored, reported>>

AtCandidate == worker = "evaluating" /\ at[1] <= Len(job) /\ at[2] <= LastOf(Block)

Over == Place(Block, at[2]) > MaxCandidates
Wanted ==
    Reducing(Block, at[2]) => Decision(Block, at[2]) \in {"Reduce", "KeepFullWithCandidate"}

(* A reducer that is not enabled for the block, or whose policy keeps the     *)
(* block full, is no candidate.                                               *)
Pass ==
    /\ AtCandidate
    /\ Reducing(Block, at[2])
    /\ ~Enabled(Block, ReducerAt(Block, at[2])) \/ (~Over /\ ~Wanted)
    /\ Advance
    /\ KeepJob /\ UNCHANGED <<remaining, slows, records, counters>>

Candidate ==
    /\ AtCandidate
    /\ Reducing(Block, at[2]) => Enabled(Block, ReducerAt(Block, at[2]))

(* Past max_candidates_per_block.                                             *)
Skip ==
    /\ Candidate
    /\ Over
    /\ counters' = Count(counters, {"skipped"})
    /\ Advance
    /\ KeepJob /\ UNCHANGED <<remaining, slows, records>>

Affordable == Work(Block, at[2]) <= remaining

Exhausted ==
    /\ Candidate
    /\ ~Over /\ Wanted
    /\ ~Affordable
    /\ counters' = Count(counters, {"skipped", "drops", "workBudget"})
    /\ Advance
    /\ KeepJob /\ UNCHANGED <<remaining, slows, records>>

RecordMeasured(m) ==
    /\ counters' = Count(counters, {"attempted", "completed"}
                      \cup IF m.status = "RecoveryFailed" THEN {"recovery"} ELSE {})
    /\ records' = Append(records, m)

EvaluateCandidate(slow, again) ==
    /\ Candidate
    /\ ~Over /\ Wanted
    /\ Affordable
    /\ slows' = slows + (IF slow THEN 1 ELSE 0) + (IF again THEN 1 ELSE 0)
    /\ slows' <= MaxSlow
    /\ again => Reducing(Block, at[2])
    /\ remaining' = remaining - Work(Block, at[2])
    /\ RecordMeasured(Measured(Block, at[2], slow, again))
    /\ Advance
    /\ KeepJob

NextBlock ==
    /\ worker = "evaluating"
    /\ at[1] <= Len(job) /\ at[2] > LastOf(Block)
    /\ at' = <<at[1] + 1, 1>>
    /\ KeepJob /\ UNCHANGED <<remaining, slows, records, counters>>
-----------------------------------------------------------------------------
(* persist_shadow_candidates: the records go in requests that fit.            *)
Following ==
    /\ worker' = IF records = << >> THEN "idle" ELSE "persisting"
    /\ batch' = SubSeq(records, 1, Min({BatchRecords, Len(records)}))
    /\ records' = SubSeq(records, BatchRecords + 1, Len(records))
    /\ UNCHANGED <<manifest, job, at, remaining, slows, reported>>

Persist ==
    /\ worker = "evaluating"
    /\ at[1] > Len(job)
    /\ Following
    /\ UNCHANGED <<stored, counters>>

(* The daemon stores a batch in one transaction.                              *)
BatchStored ==
    /\ worker = "persisting"
    /\ stored' = stored \cup ToSet(batch)
    /\ Following
    /\ UNCHANGED counters

(* One drop for the whole batch.                                              *)
BatchLost ==
    /\ worker = "persisting"
    /\ counters' = Count(counters, {"drops", "persistence"})
    /\ Following
    /\ UNCHANGED stored

(* The daemon stored it and its answer was lost.                              *)
BatchUnanswered ==
    /\ worker = "persisting"
    /\ stored' = stored \cup ToSet(batch)
    /\ counters' = Count(counters, {"drops", "persistence"})
    /\ Following
-----------------------------------------------------------------------------
(* The queue is closed: the counters are flushed, whatever comes of it, and   *)
(* the manifest is completed or the worker ends with an error.                *)
Finish(told, accepted) ==
    /\ worker = "idle"
    /\ reported' = IF told THEN counters ELSE reported
    /\ counters' = Zeros
    /\ worker' = IF accepted THEN "ended" ELSE "failed"
    /\ manifest' = IF accepted THEN "completed" ELSE manifest
    /\ UNCHANGED <<job, at, remaining, slows, records, batch, stored>>

(* The run's drain limit expires while the worker waits for the daemon; what  *)
(* it has asked for may still be done.                                        *)
Abort ==
    /\ worker \in {"starting", "idle", "persisting"}
    /\ worker' = "aborted"
    /\ stored' \in {stored, stored \cup ToSet(batch)}
    /\ UNCHANGED <<manifest, job, at, remaining, slows, records, batch, counters, reported>>

Next ==
    \/ Abort
    \/ \E accepted \in BOOLEAN : Start(accepted)
    \/ \E blocks \in Jobs : TakeJob(blocks)
    \/ Pass \/ Skip \/ Exhausted \/ NextBlock \/ Persist
    \/ \E slow, again \in BOOLEAN : EvaluateCandidate(slow, again)
    \/ BatchStored \/ BatchLost \/ BatchUnanswered
    \/ \E told, accepted \in BOOLEAN : Finish(told, accepted)

(* The worker goes on from every state it does not end in: its own steps are   *)
(* synchronous, a request to the daemon ends in an answer or an error, and the *)
(* run closes the queue at last.                                              *)
GoesOn(state) == []<>(worker # state) \/ []<><<worker = state>>_vars

Spec ==
    /\ Init /\ [][Next]_vars
    /\ GoesOn("starting") /\ GoesOn("idle") /\ GoesOn("evaluating") /\ GoesOn("persisting")
=============================================================================
