---------------------------- MODULE DaemonService ----------------------------
(***************************************************************************)
(* The daemon: control connections handled by concurrent tasks, the session *)
(* and analysis maps they share under three mutexes, and the one SQLite     *)
(* writer thread behind a bounded queue.  A task decides in memory, waits   *)
(* for its batch to commit while it holds its locks, then updates memory.   *)
(* The process may crash at any step, or be asked to stop.                  *)
(***************************************************************************)
EXTENDS Naturals, Sequences, FiniteSets

CONSTANTS
    SessionId, OperationId, RequestId, SnapshotId, None,
    Handler,       \* control connections being served at once
    Commands,      \* the kinds of request the clients send
    QueueItems,    \* capacity of the writer's channel
    MaxAnalyses,   \* MAX_ACTIVE_CONTEXT_ANALYSES
    MaxBlocks,     \* ContextAnalysisLimits::MAX_BLOCKS
    MaxBatches,    \* ContextAnalysisLimits::MAX_BATCHES
    MaxCalls,      \* bound of the model: requests over all process lives
    MaxCrashes     \* bound of the model: crashes

CommandKind ==
    {"start", "forward", "observe", "persist", "event", "finish",
     "begin", "append", "abort", "finalize"}

VARIABLES
    \* the SQLite file
    sessionRow, operationRow, requestRow, attempts, snapshotRow, eventRows,
    \* the process
    phase,      \* "down", "serving" or "stopping"
    sessions,   \* DaemonService.sessions
    analyses,   \* DaemonService.context_analyses
    holder,     \* who holds each tokio mutex
    task,       \* the handler task of each connection
    queue,      \* envelopes accepted by the writer's channel
    \* the model's own counters
    minted,     \* identifiers generated so far: a UUID never comes back
    calls, crashes

store == <<sessionRow, operationRow, requestRow, attempts, snapshotRow, eventRows>>
memory == <<sessions, analyses>>
bounds == <<calls, crashes>>
vars == <<store, phase, memory, holder, task, queue, minted, bounds>>

Ledger == INSTANCE Ledger

ASSUME ConstantsAssumption ==
    /\ None \notin SessionId \cup OperationId \cup RequestId
                     \cup SnapshotId \cup Handler \cup Nat
    /\ None \notin Ledger!OperationRow \cup Ledger!SnapshotRow
    /\ Commands \subseteq CommandKind
    /\ QueueItems \in Nat \ {0}
    /\ {MaxAnalyses, MaxBlocks, MaxBatches, MaxCalls, MaxCrashes} \subseteq Nat

-----------------------------------------------------------------------------
(* State                                                                    *)

Mutex == {"sessions", "analyses", "ids"}

(* SessionRecord; "absent" stands for an identifier that is not in the map. *)
SessionRecord ==
    [state : {"absent", "active", "closed"},
     operations : [OperationId -> {"agent", "inference"} \cup {None}],
     requests : [OperationId -> RequestId \cup {None}],
     ordinals : [OperationId -> Nat]]

AbsentSession ==
    [state |-> "absent",
     operations |-> [o \in OperationId |-> None],
     requests |-> [o \in OperationId |-> None],
     ordinals |-> [o \in OperationId |-> 0]]

ActiveAnalysis ==
    [session : SessionId, request : RequestId, sequence : Nat, ordinal : Nat]

ASSUME NoneIsNoEntry == None \notin {"agent", "inference"} \cup ActiveAnalysis

(* A connection's request.  "root" is the second half of StartSession, which *)
(* creates the session's agent operation; clients do not send it.            *)
ClientCall ==
    [kind : {"start"}]
      \cup [kind : {"event", "finish"}, session : SessionId]
      \cup [kind : {"forward"}, session : SessionId, parent : OperationId]
      \cup [kind : {"observe"}, session : SessionId, parent : OperationId,
            terminal : BOOLEAN]
      \cup [kind : {"persist"}, session : SessionId, operation : OperationId,
            terminal : BOOLEAN]
      \cup [kind : {"begin"}, session : SessionId, operation : OperationId,
            request : RequestId]
      \cup [kind : {"append"}, snapshot : SnapshotId,
            sequence : 0..MaxBatches, blocks : 0..MaxBlocks]
      \cup [kind : {"abort"}, snapshot : SnapshotId]
      \cup [kind : {"finalize"}, snapshot : SnapshotId,
            count : (0..MaxBlocks) \cup {None}]

Call == ClientCall \cup [kind : {"root"}, session : SessionId]

(* A WriteBatch, by what it does to the tables.                             *)
Batch ==
    [type : {"session"}, session : SessionId]
      \cup [type : {"operation"}, session : SessionId, operation : OperationId,
            kind : {"agent", "inference"}, parent : OperationId \cup {None}]
      \cup [type : {"attempt"}, operation : OperationId, request : RequestId,
            ordinal : Nat, retry : BOOLEAN, terminal : BOOLEAN]
      \cup [type : {"event"}, session : SessionId]
      \cup [type : {"finish"}, session : SessionId,
            counts : [SnapshotId -> Nat \cup {None}]]
      \cup [type : {"snapshot"}, snapshot : SnapshotId, session : SessionId,
            request : RequestId]
      \cup [type : {"blocks"}, snapshot : SnapshotId, first : Nat, blocks : Nat]
      \cup [type : {"outcome"}, snapshot : SnapshotId,
            count : Nat \cup {None}]

(* Where a task stands: about to lock a mutex, about to send its batch, or   *)
(* waiting for the writer's reply.                                           *)
Pc == {"idle", "sessions", "analyses", "ids", "send", "reply"}

Task ==
    [pc : Pc, call : Call \cup {None}, batch : Batch \cup {None},
     reply : {"none", "ok", "error"}]

IdleTask == [pc |-> "idle", call |-> None, batch |-> None, reply |-> "none"]

Envelope == [from : Handler, batch : Batch]

TypeOK ==
    /\ Ledger!LedgerTypeOK
    /\ phase \in {"down", "serving", "stopping"}
    /\ sessions \in [SessionId -> SessionRecord]
    /\ analyses \in [SnapshotId -> ActiveAnalysis \cup {None}]
    /\ holder \in [Mutex -> Handler \cup {None}]
    /\ task \in [Handler -> Task]
    /\ queue \in Seq(Envelope)
    /\ Len(queue) <= QueueItems
    /\ minted \subseteq SessionId \cup OperationId \cup RequestId \cup SnapshotId
    /\ calls \in 0..MaxCalls
    /\ crashes \in 0..MaxCrashes

EmptyMemory ==
    /\ sessions' = [s \in SessionId |-> AbsentSession]
    /\ analyses' = [x \in SnapshotId |-> None]
    /\ holder' = [m \in Mutex |-> None]
    /\ task' = [c \in Handler |-> IdleTask]
    /\ queue' = <<>>

Init ==
    /\ Ledger!LedgerInit
    /\ phase = "down"
    /\ sessions = [s \in SessionId |-> AbsentSession]
    /\ analyses = [x \in SnapshotId |-> None]
    /\ holder = [m \in Mutex |-> None]
    /\ task = [c \in Handler |-> IdleTask]
    /\ queue = <<>>
    /\ minted = {}
    /\ calls = 0
    /\ crashes = 0

-----------------------------------------------------------------------------
(* Arrival of a request                                                     *)

(* The clients name rows that exist; any other identifier is refused by the  *)
(* same guards as one of an earlier process life.                            *)
Known(call) ==
    /\ call.kind \in {"forward", "observe", "persist", "event", "finish", "begin"}
          => sessionRow[call.session] # "none"
    /\ call.kind \in {"forward", "observe"} => operationRow[call.parent] # None
    /\ call.kind \in {"persist", "begin"} => operationRow[call.operation] # None
    /\ call.kind = "begin" => requestRow[call.request] # None
    /\ call.kind \in {"append", "abort", "finalize"}
          => snapshotRow[call.snapshot] # None

(* The bound on identifiers: a request is sent only while every identifier   *)
(* the requests in progress may still generate is available.                 *)
Owes(d, whole, half) ==
    /\ task[d].pc # "idle"
    /\ \/ task[d].call.kind \in whole
       \/ task[d].call.kind \in half /\ task[d].batch = None

Spare(ids, whole, half) ==
    Cardinality({d \in Handler : Owes(d, whole, half)})
       < Cardinality(ids \ minted)

IdsLeft(call) ==
    /\ call.kind = "start" => Spare(SessionId, {}, {"start"})
    /\ call.kind \in {"start", "forward", "observe"} =>
          Spare(OperationId, {"start"}, {"root", "forward", "observe"})
    /\ call.kind \in {"observe", "persist"} =>
          Spare(RequestId, {"observe"}, {"persist"})
    /\ call.kind = "begin" => Spare(SnapshotId, {}, {"begin"})

FirstStop(kind) ==
    CASE kind = "start" -> "ids"
      [] kind \in {"append", "abort", "finalize"} -> "analyses"
      [] OTHER -> "sessions"

Begun(call) ==
    [pc |-> FirstStop(call.kind), call |-> call, batch |-> None, reply |-> "none"]

Arrive(c) ==
    /\ phase = "serving"
    /\ task[c].pc = "idle"
    /\ calls < MaxCalls
    /\ \E call \in ClientCall :
          /\ call.kind \in Commands
          /\ Known(call)
          /\ IdsLeft(call)
          /\ task' = [task EXCEPT ![c] = Begun(call)]
    /\ calls' = calls + 1
    /\ UNCHANGED <<store, phase, memory, holder, queue, minted, crashes>>

-----------------------------------------------------------------------------
(* Locking and the guards                                                   *)

Waiting(c, m) == task[c].pc = m /\ holder[m] = None

Goto(c, pc) == task' = [task EXCEPT ![c].pc = pc]

Release(c) ==
    holder' = [m \in Mutex |-> IF holder[m] = c THEN None ELSE holder[m]]

(* Seeded fault: an early return that keeps the guards.                       *)
ReturnHoldingGuards(c) ==
    /\ task' = [task EXCEPT ![c] = IdleTask]
    /\ UNCHANGED holder

(* The handler returns: its guards drop and the response is sent.           *)
Return(c) == task' = [task EXCEPT ![c] = IdleTask] /\ Release(c)

(* Seeded fault: the session need only be known, not active.                  *)
SessionKnown(call) ==
    LET session == sessions[call.session] IN
    /\ session.state # "absent"
    /\ call.kind \in {"forward", "observe"} =>
          session.operations[call.parent] # None
    /\ call.kind \in {"persist", "begin"} =>
          session.operations[call.operation] = "inference"
    /\ call.kind = "begin" =>
          session.requests[call.operation] = call.request

(* What create_operation, persist_provider_observation, finish_session,     *)
(* begin_context_analysis and the event recorders require of the session.   *)
SessionAdmits(call) ==
    LET session == sessions[call.session] IN
    /\ session.state = "active"
    /\ call.kind \in {"forward", "observe"} =>
          session.operations[call.parent] # None
    /\ call.kind \in {"persist", "begin"} =>
          session.operations[call.operation] = "inference"
    /\ call.kind = "begin" =>
          session.requests[call.operation] = call.request

(* validate_append_batch, validate_finalize and the capacity of begin.      *)
AnalysisAdmits(call) ==
    /\ call.kind = "begin" =>
          Cardinality({x \in SnapshotId : analyses[x] # None}) < MaxAnalyses
    /\ call.kind \in {"append", "abort", "finalize"} =>
          analyses[call.snapshot] # None
    /\ call.kind = "append" =>
          /\ call.sequence = analyses[call.snapshot].sequence
          /\ call.blocks # 0
          /\ call.sequence < MaxBatches
          /\ analyses[call.snapshot].ordinal + call.blocks <= MaxBlocks
    /\ call.kind = "finalize" =>
          call.count \in {None, analyses[call.snapshot].ordinal}

LockSessions(c) ==
    /\ Waiting(c, "sessions")
    /\ SessionAdmits(task[c].call)
    /\ holder' = [holder EXCEPT !["sessions"] = c]
    /\ Goto(c, IF task[c].call.kind \in {"finish", "begin"}
               THEN "analyses" ELSE "ids")
    /\ UNCHANGED <<store, phase, memory, queue, minted, bounds>>

RefuseSession(c) ==
    /\ Waiting(c, "sessions")
    /\ ~SessionAdmits(task[c].call)
    /\ Return(c)
    /\ UNCHANGED <<store, phase, memory, queue, minted, bounds>>

LockAnalyses(c) ==
    /\ Waiting(c, "analyses")
    /\ AnalysisAdmits(task[c].call)
    /\ holder' = [holder EXCEPT !["analyses"] = c]
    /\ Goto(c, "ids")
    /\ UNCHANGED <<store, phase, memory, queue, minted, bounds>>

RefuseAnalysis(c) ==
    /\ Waiting(c, "analyses")
    /\ ~AnalysisAdmits(task[c].call)
    /\ Return(c)
    /\ UNCHANGED <<store, phase, memory, queue, minted, bounds>>

-----------------------------------------------------------------------------
(* Identifiers and the batch.  begin_context_analysis keeps the ids mutex    *)
(* until it returns; every other handler drops it before it sends.           *)

Prepare(c, batch, new) ==
    /\ task' = [task EXCEPT ![c].pc = "send", ![c].batch = batch]
    /\ minted' = minted \cup new
    /\ holder' = IF task[c].call.kind = "begin"
                 THEN [holder EXCEPT !["ids"] = c] ELSE holder
    /\ UNCHANGED <<store, phase, memory, queue, bounds>>

PrepareSession(c) ==
    /\ task[c].call.kind = "start"
    /\ \E s \in SessionId \ minted :
          Prepare(c, [type |-> "session", session |-> s], {s})

PrepareOperation(c) ==
    LET call == task[c].call IN
    /\ call.kind \in {"root", "forward", "observe"}
    /\ \E o \in OperationId \ minted :
          Prepare(c, [type |-> "operation", session |-> call.session,
                      operation |-> o,
                      kind |-> IF call.kind = "root"
                               THEN "agent" ELSE "inference",
                      parent |-> IF call.kind = "root"
                                 THEN None ELSE call.parent], {o})

(* provider_observation_batch: a later attempt reuses the known request.    *)
PrepareAttempt(c) ==
    LET call == task[c].call
        record == sessions[call.session]
        known == record.requests[call.operation]
    IN
    /\ call.kind = "persist"
    /\ \E r \in IF known = None THEN RequestId \ minted ELSE {known} :
          Prepare(c, [type |-> "attempt", operation |-> call.operation,
                      request |-> r,
                      ordinal |-> record.ordinals[call.operation],
                      retry |-> known # None,
                      terminal |-> call.terminal], {r})

PrepareEvent(c) ==
    /\ task[c].call.kind = "event"
    /\ Prepare(c, [type |-> "event", session |-> task[c].call.session], {})

(* context_analysis_finish_batch: every active analysis of the session ends  *)
(* in the transaction that closes it.                                        *)
PrepareFinish(c) ==
    LET s == task[c].call.session
        mine(x) == analyses[x] # None /\ analyses[x].session = s
    IN
    /\ task[c].call.kind = "finish"
    /\ Prepare(c, [type |-> "finish", session |-> s,
                   counts |-> [x \in SnapshotId |->
                      IF mine(x) THEN analyses[x].ordinal ELSE None]], {})

PrepareBegin(c) ==
    /\ task[c].call.kind = "begin"
    /\ \E x \in SnapshotId \ minted :
          Prepare(c, [type |-> "snapshot", snapshot |-> x,
                      session |-> task[c].call.session,
                      request |-> task[c].call.request], {x})

PrepareAppend(c) ==
    LET call == task[c].call IN
    /\ call.kind = "append"
    /\ Prepare(c, [type |-> "blocks", snapshot |-> call.snapshot,
                   first |-> analyses[call.snapshot].ordinal,
                   blocks |-> call.blocks], {})

(* context_analysis_abort_batch counts the blocks itself; finalize_commands  *)
(* stores the validated count of the request.                                *)
PrepareOutcome(c) ==
    LET call == task[c].call IN
    /\ call.kind \in {"abort", "finalize"}
    /\ Prepare(c, [type |-> "outcome", snapshot |-> call.snapshot,
                   count |-> IF call.kind = "abort"
                             THEN analyses[call.snapshot].ordinal
                             ELSE call.count], {})

PrepareBatch(c) ==
    /\ Waiting(c, "ids")
    /\ \/ PrepareSession(c)
       \/ PrepareOperation(c)
       \/ PrepareAttempt(c)
       \/ PrepareEvent(c)
       \/ PrepareFinish(c)
       \/ PrepareBegin(c)
       \/ PrepareAppend(c)
       \/ PrepareOutcome(c)

(* StorageWriter::submit_operation waits here for room in the channel.      *)
Send(c) ==
    /\ task[c].pc = "send"
    /\ Len(queue) < QueueItems
    /\ queue' = Append(queue, [from |-> c, batch |-> task[c].batch])
    /\ Goto(c, "reply")
    /\ UNCHANGED <<store, phase, memory, holder, minted, bounds>>

-----------------------------------------------------------------------------
(* The writer thread: one transaction per envelope.  The guards are the keys *)
(* and foreign keys of the schema; the updates look at nothing else.         *)

InsertSession(b) ==
    /\ b.type = "session"
    /\ sessionRow[b.session] = "none"
    /\ sessionRow' = [sessionRow EXCEPT ![b.session] = "active"]
    /\ UNCHANGED <<operationRow, requestRow, attempts, snapshotRow, eventRows>>

InsertOperation(b) ==
    /\ b.type = "operation"
    /\ sessionRow[b.session] # "none"
    /\ operationRow[b.operation] = None
    /\ b.parent # None => operationRow[b.parent] # None
    /\ operationRow' = [operationRow EXCEPT ![b.operation] =
          [session |-> b.session, kind |-> b.kind, parent |-> b.parent,
           status |-> "started"]]
    /\ UNCHANGED <<sessionRow, requestRow, attempts, snapshotRow, eventRows>>

InsertAttempt(b) ==
    /\ b.type = "attempt"
    /\ operationRow[b.operation] # None
    /\ (requestRow[b.request] # None) = b.retry
    /\ \A i \in 1..Len(attempts[b.request]) : attempts[b.request][i] # b.ordinal
    /\ requestRow' =
          IF b.retry THEN requestRow
                     ELSE [requestRow EXCEPT ![b.request] = b.operation]
    /\ attempts' = [attempts EXCEPT ![b.request] = Append(@, b.ordinal)]
    /\ operationRow' =
          IF b.terminal
          THEN [operationRow EXCEPT ![b.operation].status = "finished"]
          ELSE operationRow
    /\ UNCHANGED <<sessionRow, snapshotRow, eventRows>>

InsertEvent(b) ==
    /\ b.type = "event"
    /\ sessionRow[b.session] # "none"
    /\ eventRows' = [eventRows EXCEPT ![b.session] = @ + 1]
    /\ UNCHANGED <<sessionRow, operationRow, requestRow, attempts, snapshotRow>>

UpdateFinish(b) ==
    /\ b.type = "finish"
    /\ sessionRow' = [sessionRow EXCEPT ![b.session] = "closed"]
    /\ snapshotRow' = [x \in SnapshotId |->
          IF b.counts[x] # None /\ snapshotRow[x] # None
          THEN Ledger!Ended(snapshotRow[x], "ended", b.counts[x])
          ELSE snapshotRow[x]]
    /\ UNCHANGED <<operationRow, requestRow, attempts, eventRows>>

InsertSnapshot(b) ==
    /\ b.type = "snapshot"
    /\ snapshotRow[b.snapshot] = None
    /\ sessionRow[b.session] # "none"
    /\ requestRow[b.request] # None
    /\ \A y \in SnapshotId :
          snapshotRow[y] # None => snapshotRow[y].request # b.request
    /\ snapshotRow' = [snapshotRow EXCEPT ![b.snapshot] =
          [session |-> b.session, request |-> b.request, state |-> "open",
           blocks |-> 0, count |-> None, terminals |-> 0]]
    /\ UNCHANGED <<sessionRow, operationRow, requestRow, attempts, eventRows>>

InsertBlocks(b) ==
    /\ b.type = "blocks"
    /\ snapshotRow[b.snapshot] # None
    /\ snapshotRow[b.snapshot].blocks <= b.first
    /\ snapshotRow' =
          [snapshotRow EXCEPT ![b.snapshot].blocks = b.first + b.blocks]
    /\ UNCHANGED <<sessionRow, operationRow, requestRow, attempts, eventRows>>

UpdateOutcome(b) ==
    /\ b.type = "outcome"
    /\ snapshotRow[b.snapshot] # None
    /\ snapshotRow' =
          [snapshotRow EXCEPT ![b.snapshot] = Ledger!Ended(@, "ended", b.count)]
    /\ UNCHANGED <<sessionRow, operationRow, requestRow, attempts, eventRows>>

Execute(b) ==
    \/ InsertSession(b)
    \/ InsertOperation(b)
    \/ InsertAttempt(b)
    \/ InsertEvent(b)
    \/ UpdateFinish(b)
    \/ InsertSnapshot(b)
    \/ InsertBlocks(b)
    \/ UpdateOutcome(b)

(* The oneshot reply; nobody hears it when the task was aborted.            *)
Answer(c, result) ==
    task' = IF task[c].pc = "reply"
            THEN [task EXCEPT ![c].reply = result] ELSE task

Commit ==
    /\ queue # <<>>
    /\ Execute(Head(queue).batch)
    /\ Answer(Head(queue).from, "ok")
    /\ queue' = Tail(queue)
    /\ UNCHANGED <<phase, memory, holder, minted, bounds>>

(* The transaction rolls back: a constraint, a busy database, a full disk.  *)
RollBack ==
    /\ queue # <<>>
    /\ Answer(Head(queue).from, "error")
    /\ queue' = Tail(queue)
    /\ UNCHANGED <<store, phase, memory, holder, minted, bounds>>

-----------------------------------------------------------------------------
(* After the reply: memory follows the store, then the guards drop.         *)

(* Seeded fault: the handler goes on whatever the writer replied.             *)
RepliedAnyhow(c, kinds, result) ==
    /\ task[c].pc = "reply"
    /\ task[c].reply # "none"
    /\ task[c].call.kind \in kinds

Replied(c, kinds, result) ==
    /\ task[c].pc = "reply"
    /\ task[c].reply = result
    /\ task[c].call.kind \in kinds

(* A failed batch changes no memory: the handler returns the storage error. *)
ReplyError(c) ==
    /\ Replied(c, CommandKind \cup {"root"}, "error")
    /\ Return(c)
    /\ UNCHANGED <<store, phase, memory, queue, minted, bounds>>

(* start_session inserts the record under a lock it takes only now; the      *)
(* handler goes on to create the session's root operation.                   *)
PublishSession(c) ==
    LET s == task[c].batch.session IN
    /\ Replied(c, {"start"}, "ok")
    /\ holder["sessions"] = None
    /\ sessions' = [sessions EXCEPT ![s] = [AbsentSession EXCEPT !.state = "active"]]
    /\ task' = [task EXCEPT ![c] =
          [pc |-> "sessions", call |-> [kind |-> "root", session |-> s],
           batch |-> None, reply |-> "none"]]
    /\ UNCHANGED <<store, phase, analyses, holder, queue, minted, bounds>>

(* Seeded fault: the committed operation is not put in the map.               *)
ForgetOperation(c) == task[c].pc = "reply" /\ UNCHANGED sessions

RememberOperation(c) ==
    LET b == task[c].batch IN
    sessions' = [sessions EXCEPT ![b.session].operations[b.operation] = b.kind]

OperationCreated(c) ==
    /\ Replied(c, {"root", "forward"}, "ok")
    /\ RememberOperation(c)
    /\ Return(c)
    /\ UNCHANGED <<store, phase, analyses, queue, minted, bounds>>

(* record_provider_observation: create_operation has returned, and dropped   *)
(* its lock, before persist_provider_observation takes it again.             *)
ObservationCreated(c) ==
    LET call == task[c].call IN
    /\ Replied(c, {"observe"}, "ok")
    /\ RememberOperation(c)
    /\ Release(c)
    /\ task' = [task EXCEPT ![c] =
          [pc |-> "sessions",
           call |-> [kind |-> "persist", session |-> call.session,
                     operation |-> task[c].batch.operation,
                     terminal |-> call.terminal],
           batch |-> None, reply |-> "none"]]
    /\ UNCHANGED <<store, phase, analyses, queue, minted, bounds>>

AttemptPersisted(c) ==
    LET b == task[c].batch
        s == task[c].call.session
    IN
    /\ Replied(c, {"persist"}, "ok")
    /\ sessions' = [sessions EXCEPT
          ![s].requests[b.operation] = b.request,
          ![s].ordinals[b.operation] = b.ordinal + 1]
    /\ Return(c)
    /\ UNCHANGED <<store, phase, analyses, queue, minted, bounds>>

EventRecorded(c) ==
    /\ Replied(c, {"event"}, "ok")
    /\ Return(c)
    /\ UNCHANGED <<store, phase, memory, queue, minted, bounds>>

(* Seeded fault: the analyses ended with the session stay in the map.         *)
SessionFinishedOnly(c) ==
    /\ Replied(c, {"finish"}, "ok")
    /\ sessions' = [sessions EXCEPT ![task[c].batch.session].state = "closed"]
    /\ Return(c)
    /\ UNCHANGED <<store, phase, analyses, queue, minted, bounds>>

SessionFinished(c) ==
    LET b == task[c].batch IN
    /\ Replied(c, {"finish"}, "ok")
    /\ analyses' = [x \in SnapshotId |->
          IF b.counts[x] # None THEN None ELSE analyses[x]]
    /\ sessions' = [sessions EXCEPT ![b.session].state = "closed"]
    /\ Return(c)
    /\ UNCHANGED <<store, phase, queue, minted, bounds>>

AnalysisBegun(c) ==
    LET b == task[c].batch IN
    /\ Replied(c, {"begin"}, "ok")
    /\ analyses' = [analyses EXCEPT ![b.snapshot] =
          [session |-> b.session, request |-> b.request,
           sequence |-> 0, ordinal |-> 0]]
    /\ Return(c)
    /\ UNCHANGED <<store, phase, sessions, queue, minted, bounds>>

(* Seeded fault: the ordinal of the next block does not move.                 *)
BlocksAppendedInPlace(c) ==
    /\ Replied(c, {"append"}, "ok")
    /\ analyses' = [analyses EXCEPT ![task[c].batch.snapshot].sequence = @ + 1]
    /\ Return(c)
    /\ UNCHANGED <<store, phase, sessions, queue, minted, bounds>>

BlocksAppended(c) ==
    LET b == task[c].batch IN
    /\ Replied(c, {"append"}, "ok")
    /\ analyses' = [analyses EXCEPT
          ![b.snapshot].ordinal = b.first + b.blocks,
          ![b.snapshot].sequence = @ + 1]
    /\ Return(c)
    /\ UNCHANGED <<store, phase, sessions, queue, minted, bounds>>

AnalysisEnded(c) ==
    /\ Replied(c, {"abort", "finalize"}, "ok")
    /\ analyses' = [analyses EXCEPT ![task[c].batch.snapshot] = None]
    /\ Return(c)
    /\ UNCHANGED <<store, phase, sessions, queue, minted, bounds>>

-----------------------------------------------------------------------------
(* The process                                                              *)

(* Seeded fault: the daemon serves without recovering.                        *)
StartAsIs ==
    /\ phase = "down"
    /\ phase' = "serving"
    /\ UNCHANGED <<store, memory, holder, task, queue, minted, bounds>>

(* DaemonService::open after recover_stale_sessions, one transaction.       *)
Start ==
    /\ phase = "down"
    /\ phase' = "serving"
    /\ Ledger!Recover
    /\ UNCHANGED <<memory, holder, task, queue, minted, bounds>>

Crash ==
    /\ phase # "down"
    /\ crashes < MaxCrashes
    /\ phase' = "down"
    /\ crashes' = crashes + 1
    /\ EmptyMemory
    /\ UNCHANGED <<store, minted, calls>>

(* A Shutdown request was answered, or SIGINT arrived.                      *)
Stop ==
    /\ phase = "serving"
    /\ phase' = "stopping"
    /\ UNCHANGED <<store, memory, holder, task, queue, minted, bounds>>

(* JoinSet::abort_all reaches the tasks one after the other.  The batch an   *)
(* aborted task had already sent stays in the channel.                       *)
AbortTask(c) ==
    /\ phase = "stopping"
    /\ task[c].pc # "idle"
    /\ Return(c)
    /\ UNCHANGED <<store, phase, memory, queue, minted, bounds>>

(* StorageWriter::shutdown: the worker leaves once the channel is drained.  *)
Exit ==
    /\ phase = "stopping"
    /\ \A c \in Handler : task[c].pc = "idle"
    /\ queue = <<>>
    /\ phase' = "down"
    /\ EmptyMemory
    /\ UNCHANGED <<store, minted, bounds>>

(* The accept loop with nothing to do waits for a connection.               *)
Rest ==
    /\ phase = "serving"
    /\ queue = <<>>
    /\ \A c \in Handler : task[c].pc = "idle"
    /\ UNCHANGED vars

-----------------------------------------------------------------------------
HandlerStep(c) ==
    \/ LockSessions(c)
    \/ RefuseSession(c)
    \/ LockAnalyses(c)
    \/ RefuseAnalysis(c)
    \/ PrepareBatch(c)
    \/ Send(c)
    \/ ReplyError(c)
    \/ PublishSession(c)
    \/ OperationCreated(c)
    \/ ObservationCreated(c)
    \/ AttemptPersisted(c)
    \/ EventRecorded(c)
    \/ SessionFinished(c)
    \/ AnalysisBegun(c)
    \/ BlocksAppended(c)
    \/ AnalysisEnded(c)

(* Seeded fault: the writer thread leaves without draining its channel.       *)
WriterStepWhileServing == phase = "serving" /\ (Commit \/ RollBack)

WriterStep == Commit \/ RollBack

(* The daemon as long as nobody asks it to stop: it serves, and may crash.   *)
ServingNext ==
    \/ \E c \in Handler : Arrive(c) \/ HandlerStep(c)
    \/ WriterStep
    \/ Start
    \/ Crash
    \/ Rest

ServingSpec == Init /\ [][ServingNext]_vars

StopStep ==
    \/ \E c \in Handler : AbortTask(c)
    \/ Exit

Next == ServingNext \/ Stop \/ StopStep

Spec == Init /\ [][Next]_vars

(* A task that can run is run, the writer thread runs, and a stop goes on.   *)
(* tokio's mutex and channel serve their waiters in order.                   *)
FairSpec ==
    /\ Spec
    /\ \A c \in Handler : WF_vars(HandlerStep(c))
    /\ WF_vars(WriterStep)
    /\ WF_vars(StopStep)

=============================================================================
