-------------------------- MODULE ContextIngestion --------------------------
(***************************************************************************)
(* Context analyses on their way from the recorder of `tracepress run` into *)
(* the daemon (tracepress-cli/src/main.rs): the shared ContextCounters, the *)
(* ingestion worker, the shadow compression worker it feeds, and the end of *)
(* a run with its drain, its 30 s limit and the reconciliation after it.    *)
(*                                                                          *)
(*   recorder --try_send--> jobs --> worker --try_send--> shadow worker     *)
(*                                     | begin, append, finalize, abort     *)
(*   run_agent -- ContextStatus, -->  daemon                                *)
(*               FinishSession                                              *)
(*                                                                          *)
(* A request to the daemon is sent, then performed, then its answer is      *)
(* read; a client aborted in between leaves its request behind, and the     *)
(* daemon may still perform it.  An analysis is the ordinal of its forward  *)
(* (AnalysisSequence).  The daemon is here what DaemonService shows to one  *)
(* session.  Block contents and metrics are left out.                       *)
(***************************************************************************)
EXTENDS Integers, Sequences, FiniteSets, FiniteSetsExt, SequencesExt

CONSTANTS
    Analysis,           \* ordinals of the forwards that have an analysis
    Blocks,             \* blocks of each analysis, and which one is oversized,
    Oversized,          \*   0 when none is
    QueueItems,         \* context_ingestion_queue_capacity
    EvidenceItems,      \* IN_FLIGHT_FORWARDS
    TerminalIdentities, \* TERMINAL_ANALYSIS_IDENTITIES
    BatchBlocks,        \* blocks that fit a control request
    MaxBatches,         \* max_batches of the analysis limits
    ShadowItems,        \* SHADOW_QUEUE_ITEMS
    ShadowBytes,        \* SHADOW_QUEUE_BYTES
    BodyBytes,          \* the size of each analysis body
    Faults              \* what may happen to a request: "refused", "lost"

Reason == {"ObserverBackpressure", "CorrelationDegraded", "Malformed", "Cancelled"}
Client == {"worker", "main"}

ASSUME IngestionAssumption ==
    /\ Analysis \subseteq Nat /\ IsFiniteSet(Analysis)
    /\ Blocks \in [Analysis -> Nat] /\ Oversized \in [Analysis -> Nat]
    /\ BodyBytes \in [Analysis -> Nat]
    /\ {QueueItems, EvidenceItems, TerminalIdentities, BatchBlocks, MaxBatches,
        ShadowItems, ShadowBytes} \subseteq Nat \ {0}
    /\ Faults \subseteq {"refused", "lost"}

VARIABLES
    account,    \* ContextCounters
    recording,  \* analyses the recorder has seen and not handed over yet
    jobs,       \* the bounded queue of ContextIngestionJobs
    worker,     \* ContextIngestionWorker
    shadow,     \* ShadowCompressionWorker, its queue, budget and counters
    main,       \* run_agent
    calls,      \* the request each client has at the daemon
    strays,     \* requests of aborted clients the daemon may still perform
    rows,       \* the daemon: one snapshot per analysis,
    session,    \*   the session,
    events      \*   and the drops it has recorded, per reason

vars == <<account, recording, jobs, worker, shadow, main, calls, strays,
          rows, session, events>>
daemonVars == <<rows, session, events>>
-----------------------------------------------------------------------------
(* ContextCounters: lifecycle.pending, .evidence, .terminal_holes and         *)
(* .terminal_through; the four totals; per reason the drops that no event has *)
(* reported yet; and, as history, the fate of each analysis.                  *)
InitialAccount ==
    [pending |-> {}, evidence |-> {}, holes |-> {}, through |-> -1,
     seen |-> 0, complete |-> 0, partial |-> 0, dropped |-> 0,
     unreported |-> [r \in Reason |-> 0],
     fate |-> [a \in Analysis |-> "unseen"]]

IsTerminal(c, a) == a <= c.through \/ a \in c.holes

EnsureSeen(c, a) ==
    IF a \in c.pending \/ IsTerminal(c, a) THEN c
    ELSE [c EXCEPT !.pending = @ \cup {a}, !.seen = @ + 1, !.fate[a] = "pending"]

(* Evidence to reconcile a lost answer with, bounded and only while pending.  *)
RememberRequest(c, a) ==
    IF a \in c.pending /\ (a \in c.evidence \/ Cardinality(c.evidence) < EvidenceItems)
    THEN [c EXCEPT !.evidence = @ \cup {a}] ELSE c

(* The contiguous prefix of terminal identities folds into the watermark; of  *)
(* those stranded above it, the smallest are forgotten past the bound.  The   *)
(* code records several in ascending order, which leaves what it leaves here. *)
RecordTerminal(c, S) ==
    LET known == c.holes \cup {a \in S : a > c.through}
        folded == {h \in known : c.through + 1 .. h \subseteq known}
        above == known \ folded
        Newer(h) == Cardinality({g \in above : g > h})
    IN  [c EXCEPT !.evidence = @ \ S,
                  !.through = Max({@} \cup folded),
                  !.holes = {h \in above : Newer(h) < TerminalIdentities}]

Ended(c, S, kind) ==
    [RecordTerminal(c, S)
        EXCEPT !.pending = @ \ S, ![kind] = @ + Cardinality(S),
               !.fate = [a \in Analysis |-> IF a \in S THEN kind ELSE @[a]]]

(* Seeded fault: an identity is ended whether or not it is still pending.     *)
EndAgain(c, a, kind) == Ended(c, {a}, kind)

(* mark_terminal and the counter of its outcome: only what is pending ends.   *)
End(c, a, kind) == Ended(c, {a} \cap c.pending, kind)

Dropped(c, a, reason) ==
    [End(c, a, "dropped") EXCEPT !.unreported[reason] = @ + Cardinality({a} \cap c.pending)]

(* Seeded fault: only what the daemon knows of is dropped.                    *)
DropEvidence(c, reason) ==
    [Ended(c, c.evidence, "dropped") EXCEPT
        !.unreported[reason] = @ + Cardinality(c.evidence)]

DropPending(c, reason) ==
    [Ended(c, c.pending, "dropped") EXCEPT
        !.unreported[reason] = @ + Cardinality(c.pending)]
-----------------------------------------------------------------------------
(* The daemon.  A request names its operation, its analysis, and an argument: *)
(* the blocks of a batch and their sequence, the status of a finalize, the    *)
(* reason and the number of the drops; and what the daemon answered.          *)
NoRow == [state |-> "none", blocks |-> 0, batches |-> 0, previous |-> {}]
Closed == {"complete", "partial", "aborted"}

Admits(q) ==
    CASE q.op = "begin" -> session = "active" /\ rows[q.analysis].state = "none"
      [] q.op = "append" -> /\ rows[q.analysis].state = "open"
                            /\ q.sequence = rows[q.analysis].batches
      [] q.op = "finalize" -> /\ rows[q.analysis].state = "open"
                              /\ q.blocks = rows[q.analysis].blocks
      [] q.op = "abort" -> rows[q.analysis].state = "open"
      [] q.op = "status" -> rows[q.analysis].state # "none"
      [] q.op \in {"finish", "drops"} -> session = "active"

Commit(q) ==
    CASE q.op = "begin" ->
           /\ rows' = [rows EXCEPT ![q.analysis].state = "open"]
           /\ UNCHANGED <<session, events>>
      [] q.op = "append" ->
           /\ rows' = [rows EXCEPT ![q.analysis].blocks = @ + q.blocks,
                                   ![q.analysis].batches = @ + 1]
           /\ UNCHANGED <<session, events>>
      [] q.op = "finalize" ->
           /\ rows' = [rows EXCEPT ![q.analysis].state = q.status,
                                   ![q.analysis].previous = q.previous]
           /\ UNCHANGED <<session, events>>
      [] q.op = "abort" ->
           /\ rows' = [rows EXCEPT ![q.analysis].state = "aborted"]
           /\ UNCHANGED <<session, events>>
      [] q.op = "status" -> UNCHANGED daemonVars
      [] q.op = "finish" ->
           /\ session' = "closed"
           /\ rows' = [a \in Analysis |->
                 IF rows[a].state = "open" THEN [rows[a] EXCEPT !.state = "partial"]
                 ELSE rows[a]]
           /\ UNCHANGED events
      [] q.op = "drops" ->
           /\ events' = [events EXCEPT ![q.reason] = @ + q.number]
           /\ UNCHANGED <<rows, session>>

(* What the client reads: the answer of the daemon, or an error.              *)
Answer(q) == IF q.op = "status" THEN rows[q.analysis].state ELSE "ok"

Idle == [op |-> "none"]
Waits(client) == calls[client] # Idle /\ calls[client].answer = "none"
Answered(client, op) == calls[client].op = op /\ calls[client].answer # "none"

(* control(): the request is on its way.                                      *)
Ask(client, q) == calls' = [calls EXCEPT ![client] = q]
Read(client) == calls' = [calls EXCEPT ![client] = Idle]

DaemonAnswers(client) ==
    /\ Waits(client)
    /\ LET q == calls[client] IN
       \/ /\ Admits(q)
          /\ Commit(q)
          /\ \E answer \in {Answer(q)} \cup ({"lost"} \cap Faults) :
                calls' = [calls EXCEPT ![client].answer = answer]
       \/ /\ ~Admits(q) \/ "refused" \in Faults
          /\ calls' = [calls EXCEPT ![client].answer = "error"]
          /\ UNCHANGED daemonVars
    /\ UNCHANGED <<account, recording, jobs, worker, shadow, main, strays>>

DaemonPerformsStray(q) ==
    /\ strays' = strays \ {q}
    /\ IF Admits(q) THEN Commit(q) ELSE UNCHANGED daemonVars
    /\ UNCHANGED <<account, recording, jobs, worker, shadow, main, calls>>
-----------------------------------------------------------------------------
(* RunRecorder, as far as it feeds the worker; ForwardRecorder has the rest.  *)
(* It runs until run_agent aborts it.                                         *)
RecorderRuns == main.phase \in {"serving", "draining", "reconcile"}

RecorderSees(a) ==
    /\ RecorderRuns
    /\ recording[a] = "coming"
    /\ recording' = [recording EXCEPT ![a] = "seen"]
    /\ account' = EnsureSeen(account, a)
    /\ UNCHANGED <<jobs, worker, shadow, main, calls, strays, daemonVars>>

(* record_observation got no provider row, or the outcome is a drop already.  *)
RecorderDrops(a) ==
    /\ RecorderRuns
    /\ recording[a] = "seen"
    /\ recording' = [recording EXCEPT ![a] = "gone"]
    /\ \E acknowledged \in BOOLEAN, reason \in {"CorrelationDegraded", "Malformed"} :
          account' = Dropped(IF acknowledged THEN RememberRequest(account, a)
                             ELSE account, a, reason)
    /\ UNCHANGED <<jobs, worker, shadow, main, calls, strays, daemonVars>>

(* enqueue_context: the queue never makes the recorder wait.                  *)
RecorderHands(a) ==
    /\ RecorderRuns
    /\ recording[a] = "seen"
    /\ recording' = [recording EXCEPT ![a] = "gone"]
    /\ \E status \in {"complete", "partial"} :
          LET known == RememberRequest(account, a) IN
          IF Len(jobs) < QueueItems
          THEN /\ jobs' = Append(jobs, [analysis |-> a, status |-> status])
               /\ account' = known
          ELSE /\ account' = Dropped(known, a, "ObserverBackpressure")
               /\ UNCHANGED jobs
    /\ UNCHANGED <<worker, shadow, main, calls, strays, daemonVars>>

(* account_durable_event_drop: an event the recorder's full or closed ingress *)
(* refused, or a late half of a forward whose analysis has ended.             *)
IngressDrops(a) ==
    /\ main.phase \notin {"done", "left"}
    /\ \/ recording[a] = "coming"
       \/ recording[a] = "gone" /\ a \notin account.pending
    /\ recording' = [recording EXCEPT ![a] = "gone"]
    /\ account' = Dropped(EnsureSeen(account, a), a, "CorrelationDegraded")
    /\ UNCHANGED <<jobs, worker, shadow, main, calls, strays, daemonVars>>

RecorderEnded ==
    main.phase \in {"draining", "reconcile"} /\ \A a \in Analysis : recording[a] = "gone"
-----------------------------------------------------------------------------
(* ContextIngestionWorker.                                                    *)
IdleWorker ==
    [pc |-> "idle", job |-> [analysis |-> 0, status |-> "complete"],
     accepted |-> 0, sequence |-> 0, previous |-> {}, left |-> << >>,
     undelivered |-> 0]                        \* history: drops whose report was refused

Current == worker.job.analysis
Reasons == <<"ObserverBackpressure", "Malformed", "CorrelationDegraded", "Cancelled">>

(* The blocks of the next batch: as many as fit, up to one that never fits.   *)
NextBatch ==
    LET total == Blocks[Current]
        last == CHOOSE n \in worker.accepted .. total :
                   /\ n - worker.accepted <= BatchBlocks
                   /\ Oversized[Current] \notin worker.accepted + 1 .. n
                   /\ \/ n = total \/ n - worker.accepted = BatchBlocks
                      \/ Oversized[Current] = n + 1
    IN  last - worker.accepted

Appends == NextBatch > 0 /\ worker.sequence < MaxBatches

FinalStatus == IF worker.accepted < Blocks[Current] THEN "partial" ELSE worker.job.status

WorkerBegins ==
    /\ worker.pc = "idle" /\ jobs # << >>
    /\ jobs' = Tail(jobs)
    /\ worker' = [worker EXCEPT !.pc = "begin", !.job = Head(jobs),
                                !.accepted = 0, !.sequence = 0]
    /\ Ask("worker", [op |-> "begin", analysis |-> Head(jobs).analysis, answer |-> "none"])
    /\ UNCHANGED <<account, recording, shadow, main, strays, daemonVars>>

WorkerBegun ==
    /\ worker.pc = "begin" /\ Answered("worker", "begin")
    /\ IF calls["worker"].answer = "ok"
       THEN worker' = [worker EXCEPT !.pc = "blocks"] /\ UNCHANGED account
       ELSE /\ worker' = [worker EXCEPT !.pc = "idle"]
            /\ account' = Dropped(account, Current, "CorrelationDegraded")
    /\ Read("worker")
    /\ UNCHANGED <<recording, jobs, shadow, main, strays, daemonVars>>

(* append_context_blocks sends the next batch; after the last, the summary.   *)
WorkerSends ==
    /\ worker.pc = "blocks" /\ calls["worker"] = Idle
    /\ IF Appends
       THEN Ask("worker", [op |-> "append", analysis |-> Current,
                           blocks |-> NextBatch, sequence |-> worker.sequence, answer |-> "none"])
       ELSE Ask("worker", [op |-> "finalize", analysis |-> Current,
                           status |-> FinalStatus, blocks |-> worker.accepted,
                           previous |-> worker.previous, answer |-> "none"])
    /\ UNCHANGED <<account, recording, jobs, worker, shadow, main, strays, daemonVars>>

WorkerAppended ==
    /\ Answered("worker", "append")
    /\ IF calls["worker"].answer = "ok"
       THEN /\ worker' = [worker EXCEPT !.accepted = @ + calls["worker"].blocks,
                                        !.sequence = @ + 1]
            /\ Read("worker")
       ELSE /\ worker' = [worker EXCEPT !.pc = "abort"]
            /\ Ask("worker", [op |-> "abort", analysis |-> Current, answer |-> "none"])
    /\ UNCHANGED <<account, recording, jobs, shadow, main, strays, daemonVars>>

(* An analysis is given up whatever the daemon answers to its abort.          *)
WorkerAborted ==
    /\ Answered("worker", "abort")
    /\ account' = Dropped(account, Current, "CorrelationDegraded")
    /\ worker' = [worker EXCEPT !.pc = "idle"]
    /\ Read("worker")
    /\ UNCHANGED <<recording, jobs, shadow, main, strays, daemonVars>>
-----------------------------------------------------------------------------
(* ShadowCompressionWorker: its queue, ShadowByteBudget and ShadowCounters.    *)
(* Once its manifest is recorded it takes job after job; a job holds its bytes *)
(* until it was evaluated.                                                     *)
InitialShadow ==
    [pc |-> "starting", queue |-> << >>, running |-> {}, used |-> 0,
     admitted |-> 0, processed |-> 0, refused |-> 0, recorded |-> {}]

ShadowOpen(s) == s.pc \in {"starting", "running"}

(* enqueue_shadow: the byte budget, then the queue, and never a wait.         *)
Offered(s, a) ==
    IF \/ s.used + BodyBytes[a] > ShadowBytes
       \/ ~ShadowOpen(s)
       \/ Len(s.queue) >= ShadowItems
    THEN [s EXCEPT !.refused = @ + 1]
    ELSE [s EXCEPT !.queue = Append(@, a), !.used = @ + BodyBytes[a], !.admitted = @ + 1]

WorkerFinalized ==
    /\ Answered("worker", "finalize")
    /\ IF calls["worker"].answer = "ok"
       THEN /\ account' = End(account, Current, calls["worker"].status)
            /\ worker' = [worker EXCEPT !.pc = "idle", !.previous = {Current}]
            /\ shadow' = Offered(shadow, Current)
            /\ Read("worker")
       ELSE /\ worker' = [worker EXCEPT !.pc = "abort"]
            /\ Ask("worker", [op |-> "abort", analysis |-> Current, answer |-> "none"])
            /\ UNCHANGED <<account, shadow>>
    /\ UNCHANGED <<recording, jobs, main, strays, daemonVars>>

(* record_manifest("running"): a failure ends the worker and closes its queue. *)
ShadowStarts ==
    /\ shadow.pc = "starting"
    /\ \/ shadow' = [shadow EXCEPT !.pc = "running"]
       \/ /\ Faults # {}
          /\ shadow' = [shadow EXCEPT !.pc = "failed", !.queue = << >>, !.used = 0]
    /\ UNCHANGED <<account, recording, jobs, worker, main, calls, strays, daemonVars>>

ShadowTakes ==
    /\ shadow.pc = "running" /\ shadow.running = {} /\ shadow.queue # << >>
    /\ shadow' = [shadow EXCEPT !.queue = Tail(@), !.running = {Head(shadow.queue)},
                                !.processed = @ + 1]
    /\ UNCHANGED <<account, recording, jobs, worker, main, calls, strays, daemonVars>>

(* The candidates of the job are evaluated and persisted, and it is dropped.  *)
ShadowEvaluates ==
    /\ shadow.pc = "running"
    /\ \E a \in shadow.running :
          shadow' = [shadow EXCEPT !.running = {}, !.used = @ - BodyBytes[a]]
    /\ UNCHANGED <<account, recording, jobs, worker, main, calls, strays, daemonVars>>

(* The queue closes with its sender, the ingestion worker; flush_counters     *)
(* moves the counters to the daemon, or loses them.                           *)
ShadowEnds ==
    /\ shadow.pc = "running" /\ shadow.running = {} /\ shadow.queue = << >>
    /\ worker.pc = "done"
    /\ \E lost \in {FALSE, Faults # {}} :
          shadow' = [shadow EXCEPT !.pc = "done", !.refused = 0,
                        !.recorded = IF lost THEN {} ELSE {<<shadow.admitted, shadow.processed>>},
                        !.admitted = 0, !.processed = 0]
    /\ UNCHANGED <<account, recording, jobs, worker, main, calls, strays, daemonVars>>

ShadowWorker == ShadowStarts \/ ShadowTakes \/ ShadowEvaluates \/ ShadowEnds
-----------------------------------------------------------------------------
(* flush_context_drops: reason after reason, the drops not reported yet are   *)
(* taken and sent; an answer that does not come loses them.                   *)
Unreported(left) == {i \in DOMAIN left : account.unreported[left[i]] > 0}

(* Seeded fault: the drops are sent and not taken.                            *)
TakeNothing(i, left) == UNCHANGED account

Take(i, left) == account' = [account EXCEPT !.unreported[left[i]] = 0]

Flush(client, i, left) ==
    /\ Take(i, left)
    /\ Ask(client, [op |-> "drops", reason |-> left[i],
                    number |-> account.unreported[left[i]], answer |-> "none"])

WorkerDrained ==
    /\ worker.pc = "idle" /\ jobs = << >> /\ RecorderEnded
    /\ worker' = [worker EXCEPT !.pc = "flush", !.left = Reasons]
    /\ UNCHANGED <<account, recording, jobs, shadow, main, calls, strays, daemonVars>>

WorkerFlushes ==
    /\ worker.pc = "flush" /\ calls["worker"] = Idle
    /\ LET left == worker.left IN
       IF Unreported(left) = {}
       THEN worker' = [worker EXCEPT !.pc = "done"] /\ UNCHANGED <<account, calls>>
       ELSE LET i == Min(Unreported(left)) IN
            /\ Flush("worker", i, left)
            /\ worker' = [worker EXCEPT !.left = SubSeq(left, i + 1, Len(left))]
    /\ UNCHANGED <<recording, jobs, shadow, main, strays, daemonVars>>

WorkerFlushed ==
    /\ worker.pc = "flush" /\ Answered("worker", "drops")
    /\ Read("worker")
    /\ worker' = IF calls["worker"].answer = "error"
                 THEN [worker EXCEPT !.undelivered = @ + calls["worker"].number]
                 ELSE worker
    /\ UNCHANGED <<account, recording, jobs, shadow, main, strays, daemonVars>>

IngestionWorker ==
    \/ WorkerBegins \/ WorkerBegun \/ WorkerSends \/ WorkerAppended
    \/ WorkerFinalized \/ WorkerAborted
    \/ WorkerDrained \/ WorkerFlushes \/ WorkerFlushed
-----------------------------------------------------------------------------
(* run_agent, from the moment its session is open.                            *)
InitialMain == [phase |-> "serving", timedOut |-> FALSE, todo |-> {}, left |-> << >>]

(* The hook home, the PATH or Cargo cannot be set up: `?` leaves run_agent     *)
(* with the session active and the workers unawaited.                         *)
AgentIsNotStarted ==
    /\ main.phase = "serving" /\ \A a \in Analysis : recording[a] = "coming"
    /\ main' = [main EXCEPT !.phase = "left"]
    /\ UNCHANGED <<account, recording, jobs, worker, shadow, calls, strays, daemonVars>>

AgentExits ==
    /\ main.phase = "serving"
    /\ main' = [main EXCEPT !.phase = "draining"]
    /\ UNCHANGED <<account, recording, jobs, worker, shadow, calls, strays, daemonVars>>

(* drain_recorders: the recorder, the ingestion worker, the shadow worker.    *)
DrainEnds ==
    /\ main.phase = "draining" /\ RecorderEnded
    /\ worker.pc = "done" /\ shadow.pc \in {"done", "failed"}
    /\ main' = [main EXCEPT !.phase = "finish"]
    /\ UNCHANGED <<account, recording, jobs, worker, shadow, calls, strays, daemonVars>>

(* RECORDER_DRAIN_TIMEOUT: what is pending is looked up at the daemon.         *)
DrainTimesOut ==
    /\ main.phase = "draining"
    /\ main' = [main EXCEPT !.phase = "reconcile", !.timedOut = TRUE,
                            !.todo = account.evidence]
    /\ UNCHANGED <<account, recording, jobs, worker, shadow, calls, strays, daemonVars>>

Reconciling == main.phase \in {"reconcile", "again"}

Lookup ==
    /\ Reconciling /\ main.todo # {} /\ calls["main"] = Idle
    /\ Ask("main", [op |-> "status", analysis |-> Min(main.todo), answer |-> "none"])
    /\ UNCHANGED <<account, recording, jobs, worker, shadow, main, strays, daemonVars>>

(* Seeded fault: an analysis whose snapshot is still open is taken as partial. *)
LookedUpAnyState(a, answer) ==
    account' = IF answer \in Closed \cup {"open"}
               THEN End(account, a, IF answer = "complete" THEN "complete" ELSE "partial")
               ELSE account

(* Only a snapshot with a completion timestamp ends its analysis.             *)
LookedUp(a, answer) ==
    account' = IF answer \in Closed
               THEN End(account, a, IF answer = "complete" THEN "complete" ELSE "partial")
               ELSE account

(* Seeded fault: a lookup without a terminal answer is made again.            *)
ReconciledUntilEnded ==
    /\ Reconciling /\ Answered("main", "status")
    /\ LookedUp(calls["main"].analysis, calls["main"].answer)
    /\ main' = IF calls["main"].answer \in Closed
               THEN [main EXCEPT !.todo = @ \ {calls["main"].analysis}] ELSE main
    /\ Read("main")
    /\ UNCHANGED <<recording, jobs, worker, shadow, strays, daemonVars>>

Reconciled ==
    /\ Reconciling /\ Answered("main", "status")
    /\ LookedUp(calls["main"].analysis, calls["main"].answer)
    /\ main' = [main EXCEPT !.todo = @ \ {calls["main"].analysis}]
    /\ Read("main")
    /\ UNCHANGED <<recording, jobs, worker, shadow, strays, daemonVars>>

(* The 250 ms of one lookup are over; the analysis stays pending.             *)
LookupTimesOut ==
    /\ Reconciling /\ Waits("main")
    /\ main' = [main EXCEPT !.todo = @ \ {calls["main"].analysis}]
    /\ Read("main")
    /\ UNCHANGED <<account, recording, jobs, worker, shadow, strays, daemonVars>>

(* The workers are aborted where they wait; a request already sent stays.     *)
Abort ==
    /\ main.phase = "reconcile" /\ main.todo = {}
    /\ main' = [main EXCEPT !.phase = "finish"]
    /\ jobs' = << >>
    /\ worker' = [worker EXCEPT !.pc = "cut"]
    /\ strays' = strays \cup (IF Waits("worker") THEN {calls["worker"]} ELSE {})
    /\ Read("worker")
    /\ shadow' = [shadow EXCEPT !.pc = "cut", !.queue = << >>, !.running = {}, !.used = 0]
    /\ UNCHANGED <<account, recording, daemonVars>>

Finish ==
    /\ main.phase = "finish"
    /\ Ask("main", [op |-> "finish", answer |-> "none"])
    /\ main' = [main EXCEPT !.phase = "finishing"]
    /\ UNCHANGED <<account, recording, jobs, worker, shadow, strays, daemonVars>>

Finished ==
    /\ main.phase = "finishing" /\ Answered("main", "finish")
    /\ main' = IF main.timedOut
               THEN [main EXCEPT !.phase = "again", !.todo = account.evidence]
               ELSE [main EXCEPT !.phase = "done"]
    /\ Read("main")
    /\ UNCHANGED <<account, recording, jobs, worker, shadow, strays, daemonVars>>

(* After the second reconciliation the unresolved rest is dropped.             *)
DropRest ==
    /\ main.phase = "again" /\ main.todo = {}
    /\ account' = DropPending(account, "Cancelled")
    /\ main' = [main EXCEPT !.phase = "flush", !.left = Reasons]
    /\ UNCHANGED <<recording, jobs, worker, shadow, calls, strays, daemonVars>>

RestFlushes ==
    /\ main.phase = "flush" /\ calls["main"] = Idle
    /\ LET left == main.left IN
       IF Unreported(left) = {}
       THEN main' = [main EXCEPT !.phase = "done"] /\ UNCHANGED <<account, calls>>
       ELSE LET i == Min(Unreported(left)) IN
            /\ Flush("main", i, left)
            /\ main' = [main EXCEPT !.left = SubSeq(left, i + 1, Len(left))]
    /\ UNCHANGED <<recording, jobs, worker, shadow, strays, daemonVars>>

RestFlushed ==
    /\ main.phase = "flush" /\ Answered("main", "drops")
    /\ Read("main")
    /\ UNCHANGED <<account, recording, jobs, worker, shadow, main, strays, daemonVars>>

(* The last flush has one second.                                             *)
FlushTimesOut ==
    /\ main.phase = "flush" /\ Waits("main")
    /\ strays' = strays \cup {calls["main"]}
    /\ Read("main")
    /\ main' = [main EXCEPT !.phase = "done"]
    /\ UNCHANGED <<account, recording, jobs, worker, shadow, daemonVars>>

RunAgent ==
    \/ AgentExits \/ DrainEnds \/ Lookup \/ Reconciled \/ Abort
    \/ Finish \/ Finished \/ DropRest \/ RestFlushes \/ RestFlushed
-----------------------------------------------------------------------------
Init ==
    /\ account = InitialAccount
    /\ recording = [a \in Analysis |-> "coming"]
    /\ jobs = << >> /\ worker = IdleWorker /\ shadow = InitialShadow
    /\ main = InitialMain
    /\ calls = [c \in Client |-> Idle] /\ strays = {}
    /\ rows = [a \in Analysis |-> NoRow] /\ session = "active"
    /\ events = [r \in Reason |-> 0]

RunIsOver == main.phase \in {"done", "left"}

Recorder == \E a \in Analysis : RecorderSees(a) \/ RecorderDrops(a) \/ RecorderHands(a)

Timeout == DrainTimesOut \/ LookupTimesOut \/ FlushTimesOut

(* The process ends and takes its tasks along.                                *)
Exited == RunIsOver /\ UNCHANGED vars

Next ==
    \/ Recorder \/ \E a \in Analysis : IngressDrops(a)
    \/ main.phase # "left" /\ (IngestionWorker \/ ShadowWorker)
    \/ RunAgent \/ AgentIsNotStarted \/ Timeout
    \/ \E c \in Client : DaemonAnswers(c)
    \/ \E q \in strays : DaemonPerformsStray(q)
    \/ Exited

(* Every task is polled again while it can move, and the daemon answers.      *)
Fairness ==
    /\ WF_vars(Recorder) /\ WF_vars(IngestionWorker) /\ WF_vars(ShadowWorker)
    /\ WF_vars(RunAgent)
    /\ \A c \in Client : WF_vars(DaemonAnswers(c))

Spec == Init /\ [][Next]_vars /\ Fairness
=============================================================================
