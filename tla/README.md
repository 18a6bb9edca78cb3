# tracepress in TLA+

A verification development of tracepress: TLA+ modules translated from its Rust source, TLC
configurations that check them on small instances, and TLAPS proofs of what holds for every size.
Paths are relative to the repository; line numbers are those of the commit the modules were read
from. `PROJECT.json` gives, for each definition, the lines it stands for.

## 1. The system

`tracepress run <agent>` starts a loopback HTTP proxy, points a coding agent at it, and forwards
every provider request untouched. Detached tasks observe what passes; a recorder joins their
observations and sends them over a local socket to a daemon, the only process that writes the
SQLite ledger.

    agent --HTTP--> proxy --HTTP--> provider
                      |  observation tasks (request, transport, response, failure, analysis)
                      v
            RecorderSink: two bounded queues, tickets, analysis slots
                      v
                 RunRecorder ---jobs---> ContextIngestionWorker ---> shadow worker
                      |                          |
                      +----- control socket -----+      (one request, one response)
                                  v
              tracepressd: connection tasks, session and analysis maps, 3 mutexes
                                  v
              StorageWriter: bounded channel, one thread, one transaction per envelope
                                  v
                    SQLite file  <---- dashboard (read only)

### Inventory

| component | state | operations | hard behaviour | what makes it correct |
|---|---|---|---|---|
| daemon service (`tracepress-daemon/src/lib.rs`, `main.rs`) | session map, next ordinals, three tokio mutexes, connection tasks | start, forward, observe, persist, event, finish; startup recovery; crash; stop | decisions taken in memory around an awaited commit, nested locks, tasks aborted at an await, a process that dies between any two steps | memory agrees with the rows wherever it can be read; every commit is one the rows allow; a closed session stays closed; a stop ends |
| context intake (`tracepress-daemon/src/context.rs`) | active analyses with batch and block ordinals | begin, append, abort, finalize | races with `finish_session`, a capacity limit, a batch rolled back after its guards passed | an analysis ends once, with the count of its blocks; none stays open in an ended session |
| SQLite writer (`tracepress-storage/src/writer.rs`, `records.rs`, migrations) | channel, rows, keys | submit, one transaction per envelope, recovery, shutdown | senders blocked on a full channel under locks, rollback, drain at shutdown | all or nothing, in the order accepted |
| recorder (`tracepress-cli/src/main.rs`, to line 2310) | correlation map, tombstones, receipts, retirement memory, tickets, two queues, slots | eight event handlers, eviction, final drain | halves of one forward from four tasks in any order, full queues, eviction, late and lost halves, unacknowledged records | one operation per forward, nothing lost silently, nothing partial presented as whole, one outcome per analysis |
| context ingestion worker and counters (same file, 557-880 and 3290-3830; end of `run_agent`) | pending and terminal analyses, unreported drops, the snapshot in work | begin/append/finalize/abort client, reconcile, drop, flush | lost replies, the 30 s drain limit, requests an aborted client left behind, two reconciliations | each analysis gets one outcome, the one the daemon stored; a drop is reported at most once; the run ends |
| proxy (`tracepress-proxy/src/lib.rs`) | forward counter, active forwards, background guards, deferred queue and its budget | forward, tap, observe, analyse later | client cancellation at any await, wake-ups, end-of-run barrier | forwarding never waits for observation; every admitted analysis is reported or released; the barrier is passed and covers what detached |
| response taps and provider observer (same file; `tracepress-provider`) | one stream's framer and observation, a bounded queue | push, finish, disconnect, parse a document | fragments, bounds crossed in the middle of one, an overflowing queue, a body dropped early | an observation depends on the bytes only; nothing is called complete or final that is not |
| active rewrite and shadow worker (`tracepress-compression`, CLI 2310-3260) | one request's spans; a job, its work budget, batches | rewrite, re-encode, evaluate, persist | one span of several refused, one budget for all candidates, lost batches | what is forwarded says what was sent; every candidate is accounted, and shows of its input what it claims |
| context analyzer (`tracepress-context`) | a scan's stack and nodes, a budget | index, extract, compare, reconcile | a scan that ends at any byte, unknown shapes, duplicate blocks | exact spans, a status no better than the work, nothing hidden, a delta that adds up |
| startup and shutdown (`tracepress-ipc/src/unix*`, `schema.rs`, `main`, CLI 4633-4714) | socket, owner marker, credential, readiness file, schema version | init, start, stop, bind, recover a stale socket, migrate, clean up | several starts and a stop interleaved in system calls, kills in between | one daemon serves; a daemon that left has left no file |
| blob store (`tracepress-storage/src/blob_store*`) | content-addressed files, rows, pins | put, get, pin, collect | file and row change in separate steps; a cancelled future leaves its thread running | a row's file exists; a pinned blob survives |
| core lifecycle (`tracepress-core`) | phase of a request, stream budgets, limits | transitions, charge | terminal states, overflow at a bound | one terminal state; a budget is never exceeded |
| IPC framing, tool proxy, dashboard (`tracepress-ipc/src/frame.rs`, `tracepress-tool-proxy`, `-dashboard*`) | frames; process handles; none | read, write; admit, execute; query | partial frames, process I/O | policy tables |

Left aside: `reports/`, `scripts/`, `docs/research`, generated data and assets.

## 2. Modules

| module | stands for | notes |
|---|---|---|
| `Ledger` | the SQLite file and the transactions that may change it | abstract specification; its guards read only rows |
| `Ledger_proofs` | | TLAPS proofs about `LedgerSpec` |
| `DaemonService` | connection tasks, locks, maps, writer thread, recovery, crash, stop | detailed specification; `INSTANCE Ledger` |
| `DaemonProperties` | | what is checked of `DaemonService` |
| `DaemonService_proofs` | | TLAPS proofs: part one about `Spec`, stops included; part two about `ServingSpec`, the mirror and the refinement |
| `ForwardRecorder` | sinks, queues, `RunRecorder`, final drain; the proxy as environment | |
| `RecorderProperties` | | what is checked of `ForwardRecorder` |
| `ForwardRecorder_proofs` | | TLAPS proofs about `ForwardRecorder` |
| `ContextIngestion` | `ContextCounters`, the ingestion worker, its shadow queue, the end of `run_agent`; the daemon as environment | |
| `AnalysisOutcomes` | the documented promise about analyses: seen once, one outcome, once | abstract specification |
| `IngestionProperties` | | `Outcomes == INSTANCE AnalysisOutcomes WITH outcome <- account.fate` |
| `ContextIngestion_proofs` | | TLAPS proofs about `ContextIngestion` |
| `ForwardProxy`, `ProxyProperties` | `forward_inner`, its detached tasks, the deferred queue and worker, the shutdown barrier | |
| `ForwardProxy_proofs` | | TLAPS proofs about `ForwardProxy` |
| `ProviderJson` | bounded JSON interpretation, response and request parsers, usage | operators |
| `SseObserver` | `SseFramer`, `StreamingObserver` | operators over one observer record |
| `ResponseTap`, `TapProperties` | the tapped response stream, its queue, the observer task, the compaction tap | extends `SseObserver` |
| `ResponseTap_proofs` | | TLAPS proofs about `ResponseTap` and the observer it runs |
| `Documents` | contents of tool results, with the sizes of tokens, lines and gaps | operators |
| `Reducers` | `reduction.rs` | operators |
| `Compressors` | `json.rs`, `text.rs` and the gates of the crate | operators |
| `ActiveRewrite`, `RewriteProperties` | `active_forward_body`, `active.rs`, the run's counters | extends `Compressors` |
| `ShadowEvaluation`, `ShadowProperties` | `ShadowCompressionWorker`, `evaluate_shadow_job` | extends `Compressors` |
| `SpanIndex` | `span.rs`: one action per look at the next byte | |
| `ContextExtractor` | `extractor.rs` and visibility: one action per round of the loop | extends `SpanIndex` |
| `ContextDelta` | `delta.rs` | operators |
| `ContextEvidence`, `AnalysisProperties` | a request from its bytes to the finalize of its snapshot | composes the two |
| `ContextEvidence_proofs` | | TLAPS proofs about the scan, the status and the decomposition of an analysis |
| `DaemonStartup`, `StartupProperties` | start and stop commands, `tracepressd` up to serving and from its last request, the control socket's files, migrations | |
| `BlobStore` | `HybridBlobStore`, its file system, its rows, its collector | stands alone: the daemon does not use it yet |
| `BlobStore_proofs` | | TLAPS proofs about `BlobStore` |
| `MC*` | | values for TLC |

How they compose. `DaemonService` implements `Ledger`; `ContextIngestion` talks to the part of
`DaemonService` that one session sees, and implements `AnalysisOutcomes`; `ForwardRecorder` hands
jobs to `ContextIngestion` and takes its events from `ForwardProxy` (each has the other as an
environment that may do at least as much); `ResponseTap` is what `ForwardProxy` calls an observer;
`ContextEvidence` is the data that `ContextIngestion`'s begin, append and finalize carry.

Definitions introduced by the comment *Seeded fault* are wrong on purpose: each replaces one
definition in a mutant (`PROJECT.json`, "mutants") to show that a property notices the bug. No
specification uses them.

### Ledger

Variables are tables: `sessionRow`, `operationRow` (with the causal edge), `requestRow`,
`attempts`, `snapshotRow` (blocks, recorded count, number of terminal events), `eventRows`. There
is one action per transaction the daemon commits. Identifiers are UUIDs, so a fresh one is a member
of a set that has no row yet. Block contents, timings, metrics, deltas and token data are left out:
no guard of the daemon reads them.

### DaemonService

A request is a task with a program counter: lock `sessions`, lock `analyses`, lock `ids`, send a
batch, wait for the reply, update memory and return. Which of these a request has, in which order,
and which guards it evaluates at which lock is the handler's code; a refusal is the early return.
`observe` is two handlers one after the other, with the session guard released in between, as in
`record_provider_observation`. The writer commits the head of its channel or rolls it back: a key
or a foreign key that fails makes a batch fail, and the disk may fail any batch.
`Crash` forgets memory and the channel; `Start` recovers the file before anything is served.
`Stop`, `AbortTask` (one task at a time: `JoinSet::abort_all` on a multi-threaded runtime) and
`Exit` are the orderly stop. Guards of an aborted task are released and its batch stays in the
channel. Requests with wrong ordinals or an invalid finalize payload meet the same refusal as the
ones modelled.

### ForwardRecorder

A forward is its ordinal. `stage` and `owed` say how far the proxy is with it and which events its
detached tasks still have to deliver; the sink operations put events on `dispatch` (the transport
dispatcher's FIFO) or `durable` (the durable ingress), where `try_send` refuses when full and
`send_request` waits. `recorder` is `RunRecorder` with the counters it shares with the sinks. One
event is one step, because the recorder handles events one at a time and nobody else reads its
maps; `Handle` has one disjunct per branch of the handlers. An event carries a set of evidence, so
that all handlers join in the same way, and `Ready` is `is_ready_to_settle`: the conditions written
out in `transport`, `response` and `transport_failure` are equal to it in every reachable state.
The watermark of retired identities is the set of identities up to it.
The recorder's own channel is merged into the two FIFOs that feed it: every order in which it can
deliver is an order in which the recorder may take the two heads. The two offers of a degraded
response are one step. The deferred analyses are delivered in any order, a superset of what the
single worker does. An analysis whose body the backlog refused comes with the request half ("shed").

### ContextIngestion

`account` is `ContextCounters`: the fate of each analysis, pending ones, retained evidence, the
terminal identities (a watermark and holes), totals and unreported drops. `worker`, `shadow` and
`main` (`run_agent` after the agent) have program counters; each request is three steps, sent,
performed and read (`calls`), because a client may be aborted or time out in between: a stray
request is performed later or never. `Faults` says whether answers may be lost and requests refused.
The bytes of a finalize, with its metrics and delta, are `ContextEvidence`'s. `reconcile_context` drops
what is pending one analysis at a time; `RecordTerminal` does so for the whole set at once, and `MCIngestion` has TLC
evaluate that both give the same account (`RecordedAtOnce`).

### ForwardProxy and ResponseTap

In `ForwardProxy` every atomic operation, critical section and notification of the code that another
thread can come between is a step: permits move from the forward to its trigger, the queue and the
worker (`permit`), guards are counted and the last one notifies, `Notify` keeps no permit for waiters
that come later. A client may leave at any await of its forward. `late` are the forwards accepted
after the barrier was passed: nothing in the code keeps them away, and the run's agent
has exited by then.
In `ResponseTap`, a body is a sequence of cells; a chunk is any prefix of what is left; `queue` has
the tap's capacity of two (32 in the code); the observer task runs the operators of `SseObserver`,
which are the code's functions with the state they change as one record.

### Compression

Contents are documents whose tokens, lines and gaps have sizes, so that every comparison the code
makes between an input and a candidate can come out either way. A candidate is the structure it
encodes and a size. `ActiveRewrite` visits the spans of a request in order, one step each, as both
rewriters do. `ShadowEvaluation` evaluates one candidate a step, because its budget and counters are
shared by all of them, and persists batches that the daemon may refuse.

### The analyzer

`SpanIndex` reads a request letter by letter: a letter is a byte, or a whole word where the code
treats words alike. `frames`, `nodes` and `path` are the scanner's. `ContextExtractor` collects the
candidates of a finished index in document order (operators) and measures one per step, under the
one budget that scan and extraction share. `ContextEvidence` goes on to accepted blocks, metrics,
delta and reconciliation. A request carries the values its sender wrote (`values`), read by the properties
only: they are the reference the index is compared with. What a sender can write is a declarative grammar in
`SpanIndex` (`SentAs`), which says value by value what its letters, its children and what follows it are, with no
scan in it; `RequestsAssumption` asks it of the requests, and TLC evaluates it for those of `MCAnalysis`. A damaged
request (`DamagedAt`) has one letter more, one that no JSON text has: a raw control or an invalid byte.
Running out of time and of work are one outcome, "Budget", which may happen at any step.

### DaemonStartup

A file is named by the daemon that made it, which is the code's (device, inode) identity as long as
no freed inode number is handed out again. Each system call another process can come between is a
step: probe, read socket, read marker, connect, rename away, look, unlink or link back, create, write,
publish. `kill` may end a daemon anywhere.

### BlobStore

A path of the object directory is a content and an encoding; `files` says what it holds and
`synced` whether its name survives a power loss. A put above the threshold is four parties' work:
the client, a blocking thread (`jobs`: rename, then directory sync or validation), the writer
(`posted`), and the client again. `Cancel` drops the client's future at any await: its guard falls,
and its job and its registration go on for nobody. Everything may fail (`PublishFails`,
`RegistrationFails`). Registrations wait in `posted` in no order, because two of one process for one
content are equal; the collector's question waits for all of them, as the writer's channel is first
in, first out. What a cutoff calls old is any choice. `Restart` is the end of a process and the start of
the next one, with its own threshold and encoding; it keeps any of the names that were not synced,
so it stands for crashes and for power losses. A put inline, a pin and an unpin are one message each.
File systems that make a rename durable with the next sync of any file are stronger than this model;
the code relies on directory syncs, and so does the model.

## 3. Runs

TLC reports each action and each disjunct of the next-state relations as taken by a passing run;
`DaemonStartup` is the exception, since its one run ends at a counterexample (see 5).

| run | instance | states | shows |
|---|---|---|---|
| `daemon_serve` | 2 connections, 2 sessions, 3 operations, 2 requests, 2 analyses with capacity for 1, channel of 1, 6 requests, 1 crash | 1,003,605 | memory mirrors the file under its mutex; recovery; the daemon implements the ledger |
| `daemon_stop` | 2 connections, channel of 1, stop and aborts, fairness | 14,505 | memory never ahead of the file; requests end; the stop ends |
| `ledger` | 2 of each identifier, 2 attempts, 1 event, 2 blocks | 121,516 | the ledger's invariants, also proved |
| `recorder` | 3 forwards (one chat), correlation state for 1, queue of 2, retirement memory of 1, 2 slots, refusing daemon | 2,248,679 | one operation per forward, losses counted, one outcome per analysis, no deadlock |
| `blobs` | 2 callers, 1 content, 2 encodings, 2 pins, 2 restarts | 615,468 | references are durable, immutable and found again |
| `ingestion` | 2 analyses of 3 blocks, queues of 1, lost and refused answers, drain limit | 598,316 | one outcome each, the one the daemon stored; drops reported once; the run ends |
| `proxy` | 2 forwards of 7 kinds, backlog of 2 items and 5 bytes, 1 decoder, a panic | 1,515,927 | one report per admission; a barrier that covers what detached and is passed |
| `tap` | 12 event streams in up to 3 chunks, documents, queue of 2 | 457,272 | the observation depends on the bytes only; complete and final mean it |
| `active` | 2 requests of up to 2 tool results, both rewriters | 55,469 | what is forwarded says what was sent; counters tell what was forwarded |
| `shadow` | 2 jobs of 9, budget of 1300, 10 candidates, batches of 8 | 129,212 | every candidate accounted; each shows of its input what it claims |
| `analysis` | well-formed, damaged and truncated requests, tight limits | 82,933 | exact spans, honest statuses, nothing hidden, a delta that adds up |
| `startup_artifacts` | 2 overlapping starts | about 8,400 to the violation | a documented statement the code violates, see 5 |

The properties listed for a run are those that a mutant shows to depend on the code. The following
hold under the same configurations and can be added to them (`INVARIANT` or, for those in italics,
`PROPERTY`): each module's type invariant (`TypeOK` of `DaemonService`, `LedgerTypeOK`,
`RecorderTypeOK`, `BlobTypeOK`, `IngestionTypeOK` (proved), `ProxyTypeOK`, `TapTypeOK` (proved), `ActiveTypeOK`,
`ShadowTypeOK`, `AnalysisTypeOK`, `StartupTypeOK`); *AssociationsStayInSession* (`ledger`, proved);
*ClosedSessionsStayClosed* (`daemon_serve`); `OnlyLeaversAreRefused` (proved) and
`DroppedAnalysisIsNotIngested` (`recorder`); `ShadowHoldsItsBytes` (`ingestion`);
*EarlierAdmissionsGoFirst* (`proxy`, proved); `CompactionIsMeasuredOnce` (`tap`, proved); `RecoveryIsExact`,
`LostBatchesAreCounted` and *WorkerEnds* (`shadow`); `ParentsComeFirst` and `MetricsAddUp`
(`analysis`); `OneDaemonServes` and `ServingIsReachable` (`startup_artifacts`: 2,295,778 states).

Refinements. `ImplementsLedger` (`daemon_serve`) is `Ledger!LedgerSpec` with the rows of the daemon's
file for the ledger's tables: every commit is a ledger transaction and everything else a stutter.
`EveryAnalysisEndsOnce` (`ingestion`) is `AnalysisOutcomes!Spec` with the fates of `ContextCounters`
for its outcomes, through lost answers, aborts and both reconciliations.

Bounds.

- Daemon. `MaxCalls` and `MaxCrashes` bound requests and crashes; identifiers bound what can be
  created. Two connections are enough for every pairwise race. A channel of one makes senders wait
  under locks, capacity for one analysis makes the second one be refused.
- `ledger`. `MaxAttempts` and `MaxEvents` bound rows; the proofs have no such bounds.
- `recorder`. One place in every map makes each admission an eviction, a retirement memory of one
  makes it forget, a durable queue of two is full during a degraded response.
- `blobs`. One content with two names covers every race, as operations on two contents meet only at
  the guard; two callers and what they abandoned are up to four actors. `CancelCollect` is FALSE:
  nobody cancels a collection, and a cancelled one would remove a file after its guard has fallen.
- `ingestion`. Forward 1 is not analysed, so the watermark of terminal identities cannot pass it and
  holes have to be kept; the last analysis has a block that fits no request, and both have
  a batch more than one append takes. Queues of one overflow.
- `proxy`. The seven kinds are the routes and body kinds that take different branches; a budget of
  two items and five bytes is full by item and by byte; one decoder makes decoding wait.
- `tap`. A bound that the code crosses in the middle of a fragment (event size, event count, JSON depth,
  items, semantic and usage bytes, durable size) is crossed by some stream. `QueueCapacity` is 2
  where the code has 32, so that it overflows with three chunks.
- `active`, `shadow`. The documents are chosen so that each candidate and each refusal occurs. `MaxSlow`
  lets one candidate exceed its time, which is any candidate. Two jobs share one daemon and one set of
  counters. `WorkBound` runs out in the middle of the largest document and not in the others: the rows of
  one shape reach their last reducer, so that every JSON candidate but the search projection, which has a
  text of its own, is Applicable to some document; the readable folds of text end as NoImprovement, which
  the properties look at as well.
- `analysis`. Every letter where a document may be cut is cut; limits are one below and at what a
  request needs.
- `startup_artifacts`. Two overlapping starts and a stop; no daemon is killed.

Symmetry is over identifiers, connections or callers and only in runs without liveness;
ordinals of forwards and analyses are ordered, so those runs have none.

Deadlock. In the long-lived parts, what the system does when it has nothing to do is a stuttering
`Rest` action (`accept` waits, or the run has ended), so that a state without a step is a real
deadlock. `tap`, `active`, `shadow`, `analysis` and `startup_artifacts` follow something that ends,
and their cfg says `CHECK_DEADLOCK FALSE`.

Fairness. Nothing is assumed of clients of the daemon, of crashes or of the disk.

- `daemon_stop` (`FairSpec`): weak fairness of each task's next step: tokio polls a woken task, and its
  mutex and its channel serve waiters in the order they came. Of the writer: it is an operating-system
  thread in a loop over `recv`. Of the stop's steps: `main` awaits the join set and then the writer.
- `ingestion`: weak fairness of the tasks and of `run_agent`, for the same reason, and of the answer to
  a control request: the daemon answers or the client's time limit does, which is an answer here.
- `proxy`: weak fairness of each forward, its detached tasks, the worker and the barrier. An upstream
  exchange and an analysis end: the HTTP client has time limits and an analysis has bounds.
- `tap`: weak fairness of the request task, of the observer task (written as `[]<>~enabled \/
  []<><<step>>` because `ENABLED` of that action is costly) and of the drop of the body: hyper drops a
  body at its end or when its client has gone.
- `shadow` (`GoesOn`): the worker leaves each state it does not end in. Only *WorkerEnds* needs it.

## 4. Proofs

`Ledger_proofs` proves, for any sets of identifiers and any `MaxBlocks`:

- `LedgerTypeCorrect`: the rows are well typed.
- `OpenAnalysesAreActiveAlways`, `AnalysesEndOnceAlways`, `AttemptsAreConsecutiveAlways`,
  `AssociationsStayInSessionAlways`, `ClosedSessionsStayClosedAlways`.

Assumptions: `MaxBlocksAssumption` (a natural number) and `NoneAssumption` (`None` is no
identifier, number or row).

Argument. `LedgerTypeStep` is the type induction, one step per transaction. `AnalysisStep` says
the only four ways a transaction changes one analysis (left alone, begun, extended, ended), so the
analysis invariants need no case per transaction: an open analysis is in an active session because
the transaction that ends a session ends its analyses; it ends once because an ended row is only
left alone. `AssociationsStay` says that an operation keeps its session and parent and a request
its operation; `AssociationsStayInSession` follows by induction, because what a new row refers to
was checked and cannot change. `AttemptsAreConsecutive` is inductive with the types.
`OpenAnalysesAreActive` is not about closed sessions only but serves there as the strengthening:
`ClosedSessionsStayClosed` needs it to know that appending to or ending an open analysis cannot be
about a closed session; it also needs `AssociationsStay`, since the rows of a session are found
through those associations.

`DaemonService_proofs` proves, for any number of connections and any sets of identifiers, of every
behaviour of the daemon, failed batches, crashes, recoveries and stops included (`Spec`):

- `TypesHold`: `TypeOK`;
- `IInvHolds`: the inductive invariant below;
- `MemoryIsDurableHolds`: the maps hold nothing that is not committed.

Part two of `DaemonService_proofs` proves of the daemon that nobody stops (`ServingSpec`: failed batches,
crashes and recoveries, but no `Stop`):

- `DaemonImplementsLedger`: every step is a transaction of `Ledger` or leaves its tables alone;
- `MemoryMirrorsStoreHolds`: each map says what the rows say whenever it can be read;
- `ActiveSessionsAreServedHolds`: an active session is in the map or about to be put there;
- `ServingInvHolds`: the inductive invariant they follow from.

Assumptions: `ConstantsAssumption` (the bounds are natural numbers, the channel's positive; `None` is no
identifier, number or row) and `NoneIsNoEntry` (`None` is neither a
kind of operation nor an entry of the map of analyses: it stands for the absence of either).

Argument. `ControlInv` is what a task may rely on between its locks, which the code leaves implicit:
past the lock of a map it holds the mutex and what it checked under it still holds
(`GuardsHold`), the batch it sends is the one that this memory calls for (`BatchFits`), and an
envelope in the channel is of a task that waits for its reply or of one that a stop has aborted, one
envelope per task (`QueueFits`). The last clause is why an answer can be matched with its request, and why
an aborted `finish_session` does not disturb what others rely on: its guard has fallen, but
memory changes only in the task that is still there. `DurableInv` says that a batch that was
committed has landed until its task has published it (`CommittedLanded`); rows only grow, so what
has landed stays. `MemoryIsDurable` alone is not inductive: when the task updates memory it needs
its batch to be in the file, and the request that it names to be of that operation
(`RequestsAreKnown`).

`ServingInv` is about the other direction, memory not behind the file. The rows do not agree with the
maps while a task is between its commit and its update, so the invariant compares
them with the maps to come: `SessionsAfter` and `AnalysesAfter` are the maps with the committed
batches of waiting tasks applied. Each map has at most one such task, since it holds the mutex
(`OneUpdater`), except for `start_session`, which inserts what it has just created and takes the lock
only for the insertion: `StartsFit` says that its session has no row but its own and that no two starts create
the same session. `SessionsAgree` and `AnalysesAgree` are stronger than `MemoryMirrorsStore`: all
operations and requests of the session are in its record, which is what makes the check in memory as
good as one in the file. A commit of each type has a lemma that maps it to its `Ledger` action
(`SessionCommitted`, `OperationCommitted`, `AttemptCommitted`, `EventCommitted`, `SnapshotCommitted`,
`BlocksCommitted`, `OutcomeCommitted`, `FinishCommitted`): the guard of that action reads rows, the
handler checked memory, and the invariant connects the two. `StartImplements` maps recovery; all other steps
leave the rows alone. `Crash` needs nothing of memory, and after it the maps are empty
(`DownIsEmpty`).

The ledger's own theorems hold of every behaviour that implements `LedgerSpec`, hence of the daemon's file
by `DaemonImplementsLedger`: one open analysis only in active sessions, one end, consecutive attempts,
closed sessions closed. That last step is by substitution, which TLAPS 1.4.5 does not do with
theorems of an instantiated module; `daemon_serve` checks `ImplementsLedger`, `ledger` the rest. With
stops the daemon does not implement the ledger (section 5, item 5), so there is no such theorem for
`Spec`.

`BlobStore_proofs` proves, for any number of callers, contents, encodings, pins and restarts:

- `BlobTypeCorrect` and `ReferencesAreImmutableAlways`, also with cancelled collections;
- `NoDanglingReferenceAlways`, `ReferencesAreDurableAlways` and `GetFindsWhatWasStoredAlways`, if
  `CancelCollect` is FALSE; all three leave out the contents in `inherited` (section 5, item 17).

Assumption: `BlobAssumption` (the bounds are natural numbers; `"none"` and `"inline"` are no
encodings; `Nobody` is no client).

Argument. `TypeInv` adds to the types that a job or a registration which still has a client is the
only one and that its client waits for it, so its client holds the guard (`WaitersHoldTheGuard`).
`DurableInv` adds the two facts that make `ReferencesAreDurable` inductive. A put that has its file
or has posted its registration can refer to it (`PutsAreReferable`), for the registration commits
even if the put was cancelled. A removal has a waiting collection, a content no row refers to, and
no posted registration (`RemovalsAreSafe`), for the writer answered the collection behind all of
them and the guard keeps new ones away; this is what a cancelled collection would break. `Known`
says what a get in flight may rely on: rows never move (`RowsStay`), so the file its lookup named is
the one the row still names when the guard is free.

`ForwardRecorder_proofs` proves of the recorder, for any number of forwards and any bounds on its queues,
maps and retirement memory:

- `RecorderFits`: the inductive invariant `RunInv`;
- `OnlyLeaversAreRefusedHolds`: a forward that is treated as retired has been retired;
- `EveryAnalysisHasOneOutcomeHolds`: at the end, an analysis is ingested or accounted as dropped;
- `NoPartialRecordLooksWholeHolds`: while the run lasts, what is presented as a whole exchange is one;
- `NoEvidenceIsLostSilentlyHolds`: at the end, each half a sink took is in an operation of its forward
  or paid for by a degradation that was counted for it, unless the daemon declined the record;
- `OneOperationPerForwardHolds`: a forward that is remembered has at most one operation.

Assumption: `RecorderAssumption` (positive queue sizes and slots; the sets of forwards are such). The last
theorem alone also assumes that no observation is committed and left unacknowledged (`"lost" \notin
Replies`): such a one falls back to a transport operation and gives the forward two.

Argument. `RunInv` says that retirement and correlation exclude each other (`MemoryFits`), that
an outcome is only of an analysis that has been seen (`OutcomesFit`), that one which is not over and which
neither the worker, a receipt nor an unsettled forward answers for is still in the durable queue
(`LooseAreQueued`), and that nothing is on the way when the run is over (`PhaseFits`). Each handler has
one lemma with the same conclusion, `Handled`: except for the forward of the event and
those that are evicted to make room, no forward changes; `StepsTell` sums up a step.
The other invariants are inductive relative to it.

- `OperationsFit`: a forward that has an operation is settled or retired, so no later half makes another.
- `HonestRecords`: an evicted forward is marked degraded, and any other is recorded when it is ready.
- `PathInv`, for the losses. `Path` says where the halves of one forward can be together: on the two queues,
  owed by its tasks, in the correlation state. `InOrder` says that they are there once, a terminal half last.
  `Balance` compares the halves that are gone with the degradations counted. The count alone is not
  inductive: a half can be consumed unseen, by a tombstone (the request of an evicted forward) or by
  a forward that settled before its metadata arrived (behind a degraded response). In these states one more
  degradation has been counted than halves are gone, and `Spare` describes them from what is still
  on the way. `JoinsPay` and `LeftPays` are the proof for one forward, `HandledTracked` carries it
  through a handler, and `SinkTracks` through the steps of the sinks, which count the refused admission before they
  offer its mark.

`ForwardProxy_proofs` proves of the proxy, for any number of forwards of any kinds and any bounds:

- `PlacesHold`: one party holds each analysis permit, and it is there;
- `AdmissionsAreReportedOnceHolds`: an admission is reported once, and its permit is free then;
- `BarrierCoversItsForwardsHolds`: behind the shutdown barrier nothing it should have waited for lives;
- `BudgetIsKeptHolds`: the budget counts the permits that are held, and neither its items, its bytes nor
  the decoders pass their bounds;
- `EarlierAdmissionsGoFirstHolds` (an action property): the worker takes the earliest admission.

Assumption: `ProxyAssumption` (the kinds of forwards, and positive bounds).

Argument. `PlaceInv` follows a permit from the forward to its trigger, the queue and the worker: the
parties hand it over, so that exactly one is responsible for it at any time, and jobs in the queue have a worker or a trigger
that is about to spawn one (`QueueIsServed`). `ReportFits` adds that who holds a permit has not reported,
and who let go of it has; the one exception is a client that leaves before an observer or a
record exists, which ends the admission and says nothing. `GuardsAreCounted` makes `pending` the
number of live guards, of exchanges, tasks and worker, so that the barrier's test of a counter is a statement
about all of them; behind it only late forwards live. The order follows from the least element
of the admitted forwards (`FirstIsLeast`, by well-founded induction).

`ContextIngestion_proofs` proves of the ingestion worker, for any number of analyses, of blocks and of stray
requests, any faults and any bounds on its queues and memory:

- `IngestionInvHolds`: the inductive invariant `IInv`;
- `TypesHold`: the types, and that the evidence and the identities kept stay within their bounds;
- `CountedOutcomesAreDurableHolds`: an outcome counted for a whole run or a partial one is the daemon's row;
- `ReportsNeverExceedDropsHolds`: the reports that the daemon has recorded are of drops that were had;

and, if `NoneForgotten`,

- `NothingIsForgottenHolds`: an analysis that has ended is known to have, and `TotalsTellFatesHolds`: the
  totals count the fates;
- `DropsAreReportedOnceHolds`: a run that ends without its time limit has reported each drop, or says so;
- `EveryAnalysisEndsOnceHolds`: the refinement of `AnalysisOutcomes`.

Assumptions: `IngestionAssumption`, and for the last four `NoneForgotten`: there are no more analyses than
`ContextCounters` keeps identities of. It keeps 256 (`tracepress-cli/src/main.rs:118`) besides a watermark, so it
forgets one when more than 256 have ended behind a forward that has not, or that has no analysis and keeps the
watermark below it. An analysis that is forgotten is counted again by a late event (section 5, item 9), so the
theorems are not claimed without the hypothesis, which is sufficient and not necessary; the first four do not need it.

Argument. `IInv` says which request each program counter has under way (`Places`), since an answer is only
matched with its request by the client that waits; that a pending analysis is held by somebody who will end it, the
recorder, a job in the queue or the worker, unless the worker has been cut (`PendingIsHeld`); that an answer that
was given is true of the rows, and stays true because rows only move forward (`Durable`); that a known
identity is of an analysis that ended and one that was seen stays seen (`Sound`, `SeenIsKept`).
The reports need two invariants because a client that gave up does not know whether its request will be performed.
`DropsAreBounded` pays for what is in flight: at most one stray report of the worker and one of the run
exist, and with them recorded reports are at most the drops taken. `DropsAreExact` holds until the run's
time limit: there is no stray, and recorded, lost and taken drops balance. `Remembers` adds what `NoneForgotten`
gives: `Known`, `Tells`, and `FlushCovers`, that the worker's last round still has each reason with a
drop before it.

`ResponseTap_proofs` proves of the taps, for any documents, any exchanges (bodies, cuts, declared lengths,
modes, requests), any bounds of the framer and the parser and any capacity of the queue:

- `TapTypeCorrect`: the types;
- `FragmentsNeverMatter`: the response recorded of a stream is the one that one push of all the cells that
  were fed would have recorded, whatever the fragments were, the number of chunks excepted, and
  the status if a message was lost;
- `CompleteIsWhole`: a response recorded as complete was observed to the last byte that was forwarded, and
  the provider or the end of the body said that it was over;
- `FinalUsageConfirmed`: usage recorded as final has a terminal state beside it and adds up;
- `CompactionMeasuredOnce`: a compaction is measured once, when it is over;
- `TerminalEvidenceFinal` (an action property): what was known at the terminal event is not walked back.

Assumptions: `JsonAssumption` (the parser's bounds are positive) and `TapAssumption` (a queue for at least one
message; the exchanges are such). Of the framer's bounds nothing is assumed.

Argument. First the sequential half. Framing and observing are recursive functions on the prefixes of what
is read; by an induction over naturals, as members of a set, framing `a \o b` is framing `b` from
where `a` left the framer, and its events are those of both (`FrameConcat`, `ObserveEventsConcat`).
`push` does not only append: it counts, stops at the terminal event, and stops at the first cell that crosses a
bound of the framer. So what the observer knows after the cells `a` is stated relative to one pass over
all of `a` (`SoFar`): `Watching` says that they agree in everything but the counts, that the framers agree until
the terminal event, and that a status may differ only by a failure of framing that the observer
has already absorbed and the single pass will absorb when it is settled. `Pushed` keeps `Watching`
through a push, and `SettledAlike` has two watching observers settle alike, however they end.
`Sound` is the other half: what the observer reports is supported by the terminal event it has seen (`SoundPush`,
`SettlingHonest`), and the document path by the one document (`DocumentHonest`).

Then the concurrent half, `TapInv`. `CompleteMeansWhole` alone is not inductive, since a recorded
response depends on what was in the queue. `NothingLost` says that, until a message is lost, offsets cut the body so that
what is fed and each message in the queue are consecutive pieces that end at the last byte seen; and that a
stream which is over has left its terminal message there. `TerminalIsLast` says that nothing follows
that message, and that `Finished` means an ended or exhausted body. `Stages` says who may still offer,
receive and record. There is a lemma per action (`ForwardStep` ... `RecordStep`).

`ContextEvidence_proofs` proves of the analyzer, for any requests a sender can write, of any size and depth, and for
any bounds:

- `IndexIsExact`: however the scan ends, what it indexed is a prefix of the values that were written, with exact
  spans, kinds, depths, parents, names, paths and occurrences;
- `StatusHonest`: a status is no better than the work behind it, and comes with its reason;
- `NothingLeftOut`: a Complete analysis has a block for every item and every content part that was written, and
  measured what could be measured;
- `NothingHidden`: a request whose context is called ExplicitOnly refers to nothing outside itself.

Assumptions: `LimitsAssumption` (positive bounds) and `RequestsAssumption` (a request is a text of the grammar, or one with
one letter too many that no text has; `MCAnalysis` builds such requests, so the hypothesis has instances).

Argument. `ScanInv` relates the place of the scan to the text of the sender, which for a damaged request is the request
without its extra letter (`Source`), trusted up to that letter (`Trusted`). `Indexes` has the nodes agree
with the first values, a node's end not beyond the value's; `Stack` has the frames be the open values, each inside the
one before, with as many children counted as there are values behind; `Recalled` says what the checkpoints will rewind the path to.
`Placed` says, mode by mode, what the letters between the cursor and the next thing are: blanks up to the next label, a
string whose escapes are at the places that the scan takes for escapes, a number with its point ahead, at or behind. It is
this part that `SpansAreExact` needs and does not mention: an index is exact because the scan always knows which value it is
about to read. A scan that stands before the extra letter or at the cut may be nowhere in the text any more; `Doomed` covers it until
it says so. Each action has a lemma that keeps `ScanInv` (`OpenContainerKeeps` ...), by what
the grammar says of one value and its neighbours (`NextChildIs`, `ChildFacts`); a doubled name is found because the earlier members
are nodes with the same names (`NamesakesAre`). A complete
number at the cut may be shorter than it was written (`CutAt`); `Finish` finds that and calls it incomplete, which is the
seeded fault of `SpansAreExact`. `AnalysisInv` adds that the index is left alone after the scan, and what a
reason can be; `StatusHonest` follows, as each reason to call an analysis less than complete names one.

The last two theorems read a whole index (`Perfect`: undamaged, every node complete, no name doubled, which
`CompleteIsPerfect` gets from the status). There, a type spelled by the sender is the type the extractor decodes
(`TypeIs`), by name the first member is the only one (`FirstIs`), and every item and part has its candidate (`ItemsAre`,
`PartsAre`, `CollectFinds`). `SoughtInv` carries that through the loop: until a reason is noted, each of them is still
to be looked at or has its block, and every block so far was measured. A limit, a refused charge or a string above
the bound notes a reason (`EmitBlockKeeps`), so none of them is in the way of a Complete analysis, and candidates that were
cut are skipped only in an index that is not whole (`SkipCutKeeps`). `NothingHidden` needs no invariant of the loop:
what refers outside is counted on the index itself (`ItemCounted`, `PartCounted`, `RootCounted`). An empty
`item_reference` list names nothing and is not counted, as the property says.

Only model-checked:

- the compressors (`RewriteIsFaithful`, `CandidatesTellTheirInput`, `EveryCandidateIsAccounted`): what they compare
  with are recursive definitions over documents as deep as they come, for which the modules use `RECURSIVE`
  operators;
- of the analyzer, the sums over its blocks and over two snapshots (`MetricsAddUp`, `DeltaAddsUp`), which are
  inductions over data;
- the start (`OneDaemonServes`, `ServingIsReachable`);
- of the ingestion worker, that the shadow queue's bytes are those of its jobs (`ShadowHoldsItsBytes`), and
  that its run ends (`RunEnds`); of the proxy, that the budget's counters equal the sum over its holders
  (`ProxyTypeOK`);
- every liveness property, and `ENABLED`.

## 5. Where code and documentation disagree

The first one is the run `startup_artifacts`. Each of the others is a state or action property of the
modules, with the configuration in which TLC finds it violated, given as the changes to a `.cfg` beside it.
`cli`, `daemon`, `proxy` stand for `src/crates/tracepress-<name>/src`.

Startup:

1. `ArtifactsAreRemoved` (`MCStartup_artifacts.cfg`). `prepare_socket_path` takes an owner marker
   without a socket for the rest of a dead daemon, but `bind` creates the marker before it publishes
   the socket: a second start in between removes it, and the first daemon, which has no marker then,
   leaves its socket behind when it stops (`tracepress-ipc/src/unix/artifacts.rs:97`).
2. `PredecessorsAreRecovered` (same cfg). A daemon that stops removes its files before its writer has
   drained: a successor binds, recovers the ledger and serves, and only then the first one commits a
   session it had accepted, which stays active. `writer.rs:192`: "Marks sessions left active by a previous
   daemon process as stale."
3. `OneDaemonServes`, with a third start in `Starts` (about 21 million states up to symmetry): it holds for two
   overlapping starts and fails for three.

Daemon:

4. `ObservationIsWhole` (`MCDaemon_stop.cfg` with `SPECIFICATION Spec`, one session, two operations, one
   request, one analysis, commands start, observe, finish, `QueueItems` 2, `MaxCalls` 3). An operation is
   committed before its request, in a transaction of its own and under another hold of the session guard
   (`daemon/lib.rs:1152`); a failure or a finish in between leaves it alone. `daemon/lib.rs:1122`: "Each
   forwarded provider request produces exactly one inference operation, one logical request, and one
   attempt."
5. `ClosedSessionsStayClosed` under `Spec` (the same, with commands start, event, finish). Tasks are aborted one at a time
   (`daemon/main.rs:523`); the guard of an aborted finish falls before its batch commits, and an event
   recorder not aborted yet appends to the session being closed. `daemon/lib.rs:1359`: "the session guard
   must outlive the durable append so no event lands on a session this daemon has already closed". It
   holds while the daemon serves (`ServingSpec`).

Recorder and ingestion:

6. `TicketsAreInFlight` (`MCRecorder.cfg` with 2 forwards, `Chat` {0}, `Unread` and
   `Undecodable` {}, `InFlight` 1, `AnalysisEnabled` FALSE, `Replies` {"ok"}). Chat forwards, and Responses forwards whose reply
   has no observer, never give their transport ticket back (`cli/main.rs:1089`); after 64 the run admits
   no forward. `cli/main.rs:102`: "Bound on forwards whose transport and semantic halves are still being
   correlated."
7. `AnalysisWaitsOnlyForIngestion` (`MCRecorder.cfg` with `Unread` {0}, `Chat` and `Undecodable`
   {}, 2 forwards, `InFlight` 2, `DurableItems` 8, `Slots` 1, `Replies` {"ok"}). A forward
   without a response half keeps its analysis and its slot (`cli/main.rs:1846`); at most four block
   the deferred worker, and the drain until its 30 s limit. `cli/main.rs:424`: "that worker waits for the
   single ingestion worker to make room".
8. `OneOperationPerForward` with `Replies` {"ok", "lost"} (2 forwards, `InFlight` 2, `AnalysisEnabled` FALSE).
   A record that is committed and not acknowledged is followed by a transport-only one
   (`cli/main.rs:2087`). `cli/main.rs:1520`: "each forward yields exactly one inference operation". The
   run `recorder` excludes this reply and nothing else.
9. `EveryDropIsObservable` (`MCIngestion.cfg` with `Analysis` {0, 2}, `Faults` {}). `run_agent` flushes the last drops after
   `FinishSession` (`cli/main.rs:5120`), and the daemon refuses events of an ended session
   (`daemon/lib.rs:1400`): those drops are only in the summary that the run prints.
   `docs/design/phase-3-shadow-context-analysis.md:193`: `context.analysis.dropped` "makes every
   explicit loss observable". By reading: an analysis whose finalize was performed and its reply lost is
   counted dropped at once (`cli/main.rs:3781`), where line 175 of that page has it dropped "when no
   successful terminal persistence exists"; `CountedOutcomesAreDurable` is the other direction only.
   Early `?` returns after `StartSession` (`cli/main.rs:4981-5021`) leave the session active until the
   next recovery. `TotalsTellFates` fails with `Analysis` {2, 4} and `TerminalIdentities` 1: an identity that
   was forgotten is counted again by a late drop, where `cli/main.rs:616` has identities "retained to reject
   reordered duplicates until the watermark catches up"; here it never does, since forward 0 has no analysis.

Observation:

10. `CancellationIsNotADisconnect` (`MCTap.cfg`). A client that leaves closes the observer's queue, and
    the observer reports `Disconnected` (`proxy/lib.rs:2318-2340`);
    `phase-2-provider-observability.md:65` lets a cancellation "remain Cancelled".
11. By reading only: a stream flag is published after the request has been given to the sink, not before
    (`proxy/lib.rs:1813`; phase 2, line 24); the bytes of comments and of blank blocks count towards the
    bound of the event that follows; `observe_stream` stops at the first framing error, so its byte count
    depends on the chunks (`FragmentsDoNotMatter` compares
    with the received bytes in one piece); backpressure
    and disconnection replace statuses that are worse.

Compression and analysis:

12. `AnyRefusalFailsOpen` (`MCActive.cfg`, `MaxSpans` 3, `MaxRequests` 1). The refusal of one span is
    forgotten when a later one merely does not apply, and a third is rewritten
    (`docs/design/phase-4-2-active-compression.md:31`).
13. `ViewHasTheSameModel` (`MCActive.cfg`, `ToolResults <- MCSpacedResults`, `MaxRequests` 1). A match
    whose text has outer spaces is read back without them
    (`docs/design/phase-4-5-controlled-public-tool-workloads.md:22`: "semantically lossless").
14. `ComparableIsBlockComplete` (`MCAnalysis.cfg`). Comparability looks at the visibility of the
    analysis, not at the blocks that were accepted (`cli/main.rs:3684-3697`; phase 3, line 117).
15. `CutPrefixIsAbsent` (`MCAnalysis.cfg`). A common prefix that ends at the end of a snapshot cut by a
    bound is reported (`tracepress-context/src/delta.rs:257-277`, against its comment at 95).
16. `ImpossibleShapesDegrade` (`MCAnalysis.cfg`). A text part whose `text` is no string is extracted as
    text and the snapshot stays `Complete` (`extractor.rs:1186-1215`; phase 3, line 83).

Blobs:

17. `PowerLossLeavesNoDanglingReference` (`MCBlobStore.cfg` with one client, `Encodings` {"raw"},
   `MaxPins` 0). A put over the name an interrupted
    put left behind does not sync its directory (`blob_store/filesystem.rs:256`), and a power loss takes
    the file away under the committed row; `PLAN.md:639` prefers an orphan blob to that. `blobs` leaves
    such contents out (`inherited`).

Met while modelling, kept in the models, contradicting no document: blocks of a message are not
eligible for a token estimate, so a request with a message reconciles as `MissingLocalEstimate`;
references inside tool outputs and unknown items are not flagged; `duplicate_key_in_subtree` is a
block's own flag; the manifest of a shadow experiment stays "running" after an abort and is completed
although a flush of its counters failed; one lost batch is one drop, whatever it held; a candidate past
`max_candidates` is "skipped"; a body of exactly the maximal size is refused by `decode_zstd`, and a
failed re-encoding counts no attempt; a forward may begin after the barrier; deferred analyses are
first in, first out only among admitted ones; a `StartSession` whose root operation fails leaves a
session that only recovery ends; a torn marker or credential makes later starts fail; `daemon stop`
may report the stop before the process has ended and remove a newer `ready` file; two migrations at
once make one start fail.

## 6. Not modelled, and why

- Shadow-experiment recorders and the read-only queries of the daemon: no other handler reads what
  they write. The status query reads the file and then memory without a common lock; here it is one step.
  A terminal answer comes from the row alone, so between the two reads only "open" can become "none",
  which `LookedUp` treats alike.
- The exit of `main` through `?` when `accept` fails: as a crash.
- Compaction observations of the recorder: they bypass the correlation. A forward whose endpoint URI
  cannot be built, and a clock that fails: configuration errors.
- Proxy: header filtering, upstream URIs, error bodies. A guard's count and its notification are one
  step: the barrier that waits reads the count only after it is woken or before it waits.
- Observer: strings are tokens, and the sign and the exponent of a number are omitted.
- Compression: the encodings' bytes, the caps of a readable table (100,000 rows, 64 columns, cells of
  depth 8) and of a document's depth (128), and the work of the search for blocks, none of which a document
  of the runs comes near; the test-result model, the quality report, the guard against
  overlapping rewrites (spans are disjoint by construction), gaps of log prefixes. Timings and
  fingerprints of shadow records.
- Analyzer: `features.rs` and `detector.rs` (run or not run; nothing branches on what they find), the
  response-id lookup, the bound on path length.
- Startup: liveness (`control` has no timeout), reuse of freed inode numbers, private directories that
  stay, TCP and Windows transports, framing and peer authentication. Ownership checks look twice in the
  code and once here. A kill during a start is an action (`MaxKills`), 0 in the run.
- Balanced durability of blobs, which promises nothing after a power loss; their temporary files (a
  crash leaves one that no collection removes), size limits and codec; cancelled collections in the
  runs (`BlobStore_proofs` says what still holds).
- Core lifecycle and stream budgets: a sequential transition table that the running commands use only
  for its limits. Tool proxy: policy over text and process I/O. Dashboard: queries and rendering.

## 7. Plan

1. Done: ledger and daemon with their proofs and the proof of the refinement; recorder, proxy and blob store
   with proofs; ingestion with its refinement and their proofs; taps and observer with proofs; active rewrite and
   shadow worker; analyzer with proofs of its index, status and decomposition; startup.
2. Proofs left, in order: the type invariant of the analyzer and the order of its blocks; the start, for two daemons; ingestion with
   a hypothesis about the identities above the watermark instead of all of them.
3. Compositions left: recorder and ingestion worker in one module, with the slot of an analysis released
   by the worker's step; the daemon's own analyses under the ingestion worker.
4. Left of the code: the core lifecycle, if the commands come to use it; balanced durability.
