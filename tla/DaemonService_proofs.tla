------------------------ MODULE DaemonService_proofs ------------------------
(* What DaemonService satisfies, for any sets of identifiers and connections.  *)
(* Part one holds of every behaviour, stops included: types, what a task that  *)
(* holds a mutex may rely on, and that memory never runs ahead of the          *)
(* database.  Part two holds while nobody asks the daemon to stop: its maps    *)
(* agree with the database outside its own guards, and every transaction it    *)
(* commits is one Ledger allows.                                               *)
EXTENDS DaemonProperties, TLAPS

-----------------------------------------------------------------------------
(* Part one: the inductive invariant                                           *)

SessionKinds ==
    {"root", "forward", "observe", "persist", "event", "finish", "begin"}

AnalysisKinds == {"finish", "begin", "append", "abort", "finalize"}

Guarded == {"ids", "send", "reply"}

(* The handler is past the lock of the session map, or of the analysis map.   *)
PastSessions(c) ==
    /\ task[c].pc \in Guarded \cup {"analyses"}
    /\ task[c].call.kind \in SessionKinds

PastAnalyses(c) ==
    /\ task[c].pc \in Guarded
    /\ task[c].call.kind \in AnalysisKinds

(* A task in progress has a request, and stops only at the locks it takes.    *)
CallFits(c) ==
    /\ task[c].pc # "idle" => task[c].call \in Call
    /\ task[c].pc = "sessions" => task[c].call.kind \in SessionKinds
    /\ task[c].pc = "analyses" => task[c].call.kind \in AnalysisKinds
    /\ task[c].pc # "reply" => task[c].reply = "none"

(* What was checked under a guard still holds while the guard is held.        *)
GuardsHold(c) ==
    /\ PastSessions(c) =>
          holder["sessions"] = c /\ SessionAdmits(task[c].call)
    /\ PastAnalyses(c) =>
          holder["analyses"] = c /\ AnalysisAdmits(task[c].call)

(* The batch b is the one the handler of the request prepares from memory.    *)
Fits(call, b) ==
    /\ call.kind = "start" => b.type = "session"
    /\ call.kind \in {"root", "forward", "observe"} =>
          /\ b.type = "operation"
          /\ b.session = call.session
          /\ b.kind = IF call.kind = "root" THEN "agent" ELSE "inference"
          /\ b.parent = IF call.kind = "root" THEN None ELSE call.parent
    /\ call.kind = "persist" =>
          LET record == sessions[call.session]
              known == record.requests[call.operation]
          IN  /\ b.type = "attempt"
              /\ b.operation = call.operation
              /\ b.ordinal = record.ordinals[call.operation]
              /\ b.retry = (known # None)
              /\ known # None => b.request = known
    /\ call.kind = "event" => b.type = "event" /\ b.session = call.session
    /\ call.kind = "finish" =>
          /\ b.type = "finish"
          /\ b.session = call.session
          /\ \A x \in SnapshotId : b.counts[x] =
                IF analyses[x] # None /\ analyses[x].session = call.session
                THEN analyses[x].ordinal ELSE None
    /\ call.kind = "begin" =>
          /\ b.type = "snapshot"
          /\ b.session = call.session
          /\ b.request = call.request
    /\ call.kind = "append" =>
          /\ b.type = "blocks"
          /\ b.snapshot = call.snapshot
          /\ b.first = analyses[call.snapshot].ordinal
          /\ b.blocks = call.blocks
    /\ call.kind \in {"abort", "finalize"} =>
          /\ b.type = "outcome"
          /\ b.snapshot = call.snapshot
          /\ b.count \in {None, analyses[call.snapshot].ordinal}

BatchFits(c) ==
    task[c].pc \in {"send", "reply"} =>
       task[c].batch \in Batch /\ Fits(task[c].call, task[c].batch)

HandlerFits(c) == CallFits(c) /\ GuardsHold(c) /\ BatchFits(c)

(* An accepted envelope is of a task that waits for its reply, or of one that *)
(* a stop has aborted; no task has two.                                       *)
QueueFits ==
    /\ \A i \in 1..Len(queue) :
          LET c == queue[i].from IN
          \/ /\ task[c].pc = "reply"
             /\ task[c].reply = "none"
             /\ task[c].batch = queue[i].batch
          \/ phase = "stopping" /\ task[c].pc = "idle"
    /\ \A i, j \in 1..Len(queue) : queue[i].from = queue[j].from => i = j
    /\ phase = "down" =>
          queue = <<>> /\ \A c \in Handler : task[c].pc = "idle"

(* The rows that a committed batch leaves behind for good.                    *)
Landed(b) ==
    /\ b.type = "session" => sessionRow[b.session] # "none"
    /\ b.type = "operation" => Ledger!InSession(b.operation, b.session)
    /\ b.type = "attempt" =>
          /\ requestRow[b.request] = b.operation
          /\ b.ordinal + 1 <= Len(attempts[b.request])
    /\ b.type = "snapshot" => snapshotRow[b.snapshot] # None
    /\ b.type = "blocks" =>
          /\ snapshotRow[b.snapshot] # None
          /\ b.first + b.blocks <= snapshotRow[b.snapshot].blocks

CommittedLanded ==
    \A c \in Handler : Catching(c) => Landed(task[c].batch)

(* MemoryIsDurable with what makes it inductive: only an operation of the     *)
(* session gets a request, and ordinals count the attempts of a request.      *)
RequestsAreKnown ==
    \A s \in SessionId : sessions[s].state # "absent" =>
       \A o \in OperationId :
          IF sessions[s].requests[o] = None
          THEN sessions[s].ordinals[o] = 0
          ELSE sessions[s].operations[o] # None

ControlInv ==
    /\ TypeOK
    /\ \A c \in Handler : HandlerFits(c)
    /\ QueueFits

DurableInv ==
    /\ CommittedLanded
    /\ RequestsAreKnown
    /\ MemoryIsDurable

IInv == ControlInv /\ DurableInv

-----------------------------------------------------------------------------
(* Facts about the constants, the requests and the batches                    *)

(* None is no value of any kind it is compared with; the bounds are naturals. *)
LEMMA NoneFacts ==
    /\ None \notin SessionId /\ None \notin OperationId /\ None \notin RequestId
    /\ None \notin SnapshotId /\ None \notin Handler /\ None \notin Nat
    /\ None \notin Ledger!OperationRow /\ None \notin Ledger!SnapshotRow
    /\ None \notin ActiveAnalysis
    /\ None # "agent" /\ None # "inference"
    /\ QueueItems \in Nat \ {0}
    /\ MaxBlocks \in Nat /\ MaxBatches \in Nat
    /\ MaxCalls \in Nat /\ MaxCrashes \in Nat
BY ConstantsAssumption, NoneIsNoEntry

(* The fields of a request, by its kind.                                      *)
LEMMA CallFields ==
    ASSUME NEW call \in Call
    PROVE  /\ call.kind \in CommandKind \cup {"root"}
           /\ call.kind \in SessionKinds => call.session \in SessionId
           /\ call.kind \in {"forward", "observe"} =>
                 call.parent \in OperationId
           /\ call.kind \in {"persist", "begin"} =>
                 call.operation \in OperationId
           /\ call.kind = "begin" => call.request \in RequestId
           /\ call.kind \in {"observe", "persist"} => call.terminal \in BOOLEAN
           /\ call.kind \in {"append", "abort", "finalize"} =>
                 call.snapshot \in SnapshotId
           /\ call.kind = "append" =>
                 call.sequence \in 0..MaxBatches /\ call.blocks \in 0..MaxBlocks
           /\ call.kind = "finalize" => call.count \in (0..MaxBlocks) \cup {None}
BY DEF Call, ClientCall, CommandKind, SessionKinds

(* The fields of a batch, by its type.                                        *)
LEMMA BatchFields ==
    ASSUME NEW b \in Batch
    PROVE  /\ b.type \in {"session", "operation", "attempt", "event", "finish",
                          "snapshot", "blocks", "outcome"}
           /\ b.type \in {"session", "operation", "event", "finish", "snapshot"}
                 => b.session \in SessionId
           /\ b.type = "operation" =>
                 /\ b.operation \in OperationId
                 /\ b.kind \in {"agent", "inference"}
                 /\ b.parent \in OperationId \cup {None}
           /\ b.type = "attempt" =>
                 /\ b.operation \in OperationId
                 /\ b.request \in RequestId
                 /\ b.ordinal \in Nat
                 /\ b.retry \in BOOLEAN
                 /\ b.terminal \in BOOLEAN
           /\ b.type = "finish" => b.counts \in [SnapshotId -> Nat \cup {None}]
           /\ b.type \in {"snapshot", "blocks", "outcome"} =>
                 b.snapshot \in SnapshotId
           /\ b.type = "snapshot" => b.request \in RequestId
           /\ b.type = "blocks" => b.first \in Nat /\ b.blocks \in Nat
           /\ b.type = "outcome" => b.count \in Nat \cup {None}
BY DEF Batch

(* Ended closes a row once and leaves the rest of it alone.                   *)
LEMMA EndedRow ==
    ASSUME NEW row \in Ledger!SnapshotRow, NEW state \in {"ended", "recovered"},
           NEW count \in Nat \cup {None}
    PROVE  /\ Ledger!Ended(row, state, count) \in Ledger!SnapshotRow
           /\ Ledger!Ended(row, state, count) =
                 [session |-> row.session, request |-> row.request,
                  state |-> state, blocks |-> row.blocks, count |-> count,
                  terminals |-> row.terminals + 1]
           /\ Ledger!Ended(row, state, count).session = row.session
           /\ Ledger!Ended(row, state, count).request = row.request
           /\ Ledger!Ended(row, state, count).state = state
           /\ Ledger!Ended(row, state, count).blocks = row.blocks
<1>1. /\ row.session \in SessionId
      /\ row.request \in RequestId
      /\ row.blocks \in Nat
      /\ row.terminals \in Nat
  BY DEF Ledger!SnapshotRow
<1>2. Ledger!Ended(row, state, count) =
         [session |-> row.session, request |-> row.request, state |-> state,
          blocks |-> row.blocks, count |-> count,
          terminals |-> row.terminals + 1]
  <2> DEFINE settled == [row EXCEPT !.state = state]
             counted == [settled EXCEPT !.count = count]
  <2>1. Ledger!Ended(row, state, count) =
           [counted EXCEPT !.terminals = row.terminals + 1]
    BY DEF Ledger!Ended, Ledger!SnapshotRow
  <2>2. settled =
           [session |-> row.session, request |-> row.request, state |-> state,
            blocks |-> row.blocks, count |-> row.count,
            terminals |-> row.terminals]
    BY DEF Ledger!SnapshotRow
  <2> HIDE DEF settled
  <2>3. counted =
           [session |-> row.session, request |-> row.request, state |-> state,
            blocks |-> row.blocks, count |-> count,
            terminals |-> row.terminals]
    BY <2>2
  <2> HIDE DEF counted
  <2> QED  BY <2>1, <2>3
<1> QED  BY <1>1, <1>2 DEF Ledger!SnapshotRow

-----------------------------------------------------------------------------
(* The writer: what any committed batch does to the rows.                     *)

(* A committed batch leaves rows of their types.                              *)
LEMMA ExecuteTypes ==
    ASSUME Ledger!LedgerTypeOK, NEW b \in Batch, Execute(b)
    PROVE  Ledger!LedgerTypeOK'
<1> USE BatchFields
<1>1. CASE InsertSession(b)
  BY <1>1 DEF InsertSession, Ledger!LedgerTypeOK
<1>2. CASE InsertOperation(b)
  <2>1. [session |-> b.session, kind |-> b.kind, parent |-> b.parent,
         status |-> "started"] \in Ledger!OperationRow
    BY <1>2 DEF InsertOperation, Ledger!OperationRow, Ledger!Kind
  <2> QED  BY <1>2, <2>1 DEF InsertOperation, Ledger!LedgerTypeOK
<1>3. CASE InsertAttempt(b)
  <2>1. requestRow' \in [RequestId -> OperationId \cup {None}]
    BY <1>3 DEF InsertAttempt, Ledger!LedgerTypeOK
  <2>2. attempts' \in [RequestId -> Seq(Nat)]
    BY <1>3 DEF InsertAttempt, Ledger!LedgerTypeOK
  <2>3. operationRow' \in [OperationId -> Ledger!OperationRow \cup {None}]
    <3>1. operationRow[b.operation] \in Ledger!OperationRow
      BY <1>3 DEF InsertAttempt, Ledger!LedgerTypeOK
    <3>2. [operationRow[b.operation] EXCEPT !.status = "finished"]
             \in Ledger!OperationRow
      BY <3>1 DEF Ledger!OperationRow
    <3> QED  BY <1>3, <3>2 DEF InsertAttempt, Ledger!LedgerTypeOK
  <2> QED  BY <1>3, <2>1, <2>2, <2>3 DEF InsertAttempt, Ledger!LedgerTypeOK
<1>4. CASE InsertEvent(b)
  BY <1>4 DEF InsertEvent, Ledger!LedgerTypeOK
<1>5. CASE UpdateFinish(b)
  <2>1. ASSUME NEW x \in SnapshotId, b.counts[x] # None, snapshotRow[x] # None
        PROVE  Ledger!Ended(snapshotRow[x], "ended", b.counts[x])
                  \in Ledger!SnapshotRow
    <3>1. b.counts[x] \in Nat /\ snapshotRow[x] \in Ledger!SnapshotRow
      BY <1>5, <2>1 DEF UpdateFinish, Ledger!LedgerTypeOK
    <3> QED  BY <3>1, EndedRow
  <2>2. snapshotRow' \in [SnapshotId -> Ledger!SnapshotRow \cup {None}]
    BY <1>5, <2>1 DEF UpdateFinish, Ledger!LedgerTypeOK
  <2>3. sessionRow' \in [SessionId -> {"none", "active", "closed", "stale"}]
    BY <1>5 DEF UpdateFinish, Ledger!LedgerTypeOK
  <2> QED  BY <1>5, <2>2, <2>3 DEF UpdateFinish, Ledger!LedgerTypeOK
<1>6. CASE InsertSnapshot(b)
  <2>1. [session |-> b.session, request |-> b.request, state |-> "open",
         blocks |-> 0, count |-> None, terminals |-> 0] \in Ledger!SnapshotRow
    BY <1>6 DEF InsertSnapshot, Ledger!SnapshotRow
  <2> QED  BY <1>6, <2>1 DEF InsertSnapshot, Ledger!LedgerTypeOK
<1>7. CASE InsertBlocks(b)
  <2>1. snapshotRow[b.snapshot] \in Ledger!SnapshotRow
    BY <1>7 DEF InsertBlocks, Ledger!LedgerTypeOK
  <2>2. [snapshotRow[b.snapshot] EXCEPT !.blocks = b.first + b.blocks]
           \in Ledger!SnapshotRow
    BY <1>7, <2>1 DEF InsertBlocks, Ledger!SnapshotRow
  <2> QED  BY <1>7, <2>2 DEF InsertBlocks, Ledger!LedgerTypeOK
<1>8. CASE UpdateOutcome(b)
  <2>1. Ledger!Ended(snapshotRow[b.snapshot], "ended", b.count)
           \in Ledger!SnapshotRow
    <3>1. b.count \in Nat \cup {None}
             /\ snapshotRow[b.snapshot] \in Ledger!SnapshotRow
      BY <1>8 DEF UpdateOutcome, Ledger!LedgerTypeOK
    <3> QED  BY <3>1, EndedRow
  <2> QED  BY <1>8, <2>1 DEF UpdateOutcome, Ledger!LedgerTypeOK
<1> QED
  BY <1>1, <1>2, <1>3, <1>4, <1>5, <1>6, <1>7, <1>8 DEF Execute

(* Rows are never taken back: a commit and a recovery only add to them.       *)
Grown ==
    /\ \A s \in SessionId : sessionRow[s] # "none" => sessionRow'[s] # "none"
    /\ \A o \in OperationId : operationRow[o] # None =>
          /\ operationRow'[o] # None
          /\ operationRow'[o].session = operationRow[o].session
          /\ operationRow'[o].kind = operationRow[o].kind
    /\ \A r \in RequestId :
          /\ requestRow[r] # None => requestRow'[r] = requestRow[r]
          /\ Len(attempts[r]) <= Len(attempts'[r])
    /\ \A x \in SnapshotId : snapshotRow[x] # None =>
          /\ snapshotRow'[x] # None
          /\ snapshotRow[x].blocks <= snapshotRow'[x].blocks

(* No committed batch takes a row back, or detaches one from another.         *)
LEMMA ExecuteGrows ==
    ASSUME Ledger!LedgerTypeOK, NEW b \in Batch, Execute(b)
    PROVE  Grown
<1> USE BatchFields, NoneFacts
<1>0. /\ \A r \in RequestId : Len(attempts[r]) \in Nat
      /\ \A x \in SnapshotId : snapshotRow[x] # None =>
            snapshotRow[x] \in Ledger!SnapshotRow /\ snapshotRow[x].blocks \in Nat
      /\ \A o \in OperationId : operationRow[o] # None =>
            operationRow[o] \in Ledger!OperationRow
  BY DEF Ledger!LedgerTypeOK, Ledger!SnapshotRow
<1>1. CASE InsertSession(b)
  BY <1>0, <1>1 DEF InsertSession, Grown, Ledger!LedgerTypeOK
<1>2. CASE InsertOperation(b)
  BY <1>0, <1>2 DEF InsertOperation, Grown, Ledger!LedgerTypeOK
<1>3. CASE InsertAttempt(b)
  <2>1. \A r \in RequestId :
           /\ requestRow[r] # None => requestRow'[r] = requestRow[r]
           /\ Len(attempts[r]) <= Len(attempts'[r])
    BY <1>0, <1>3 DEF InsertAttempt, Ledger!LedgerTypeOK
  <2>2. \A o \in OperationId : operationRow[o] # None =>
           /\ operationRow'[o] # None
           /\ operationRow'[o].session = operationRow[o].session
           /\ operationRow'[o].kind = operationRow[o].kind
    <3>1. [operationRow[b.operation] EXCEPT !.status = "finished"]
             \in Ledger!OperationRow
      BY <1>0, <1>3 DEF InsertAttempt, Ledger!OperationRow
    <3> QED  BY <1>0, <1>3, <3>1
         DEF InsertAttempt, Ledger!LedgerTypeOK, Ledger!OperationRow
  <2> QED  BY <1>0, <1>3, <2>1, <2>2 DEF InsertAttempt, Grown
<1>4. CASE InsertEvent(b)
  BY <1>0, <1>4 DEF InsertEvent, Grown, Ledger!LedgerTypeOK
<1>5. CASE UpdateFinish(b)
  <2>1. ASSUME NEW x \in SnapshotId, snapshotRow[x] # None
        PROVE  /\ snapshotRow'[x] # None
               /\ snapshotRow[x].blocks <= snapshotRow'[x].blocks
    <3>1. CASE b.counts[x] # None
      <4>1. b.counts[x] \in Nat \cup {None}
        BY <1>5 DEF UpdateFinish
      <4>2. snapshotRow'[x] = Ledger!Ended(snapshotRow[x], "ended", b.counts[x])
        BY <1>5, <2>1, <3>1 DEF UpdateFinish
      <4>3. /\ snapshotRow'[x] \in Ledger!SnapshotRow
            /\ snapshotRow'[x].blocks = snapshotRow[x].blocks
        <5>1. snapshotRow[x] \in Ledger!SnapshotRow
          BY <1>0, <2>1
        <5>2. /\ Ledger!Ended(snapshotRow[x], "ended", b.counts[x])
                    \in Ledger!SnapshotRow
              /\ Ledger!Ended(snapshotRow[x], "ended", b.counts[x]).blocks
                    = snapshotRow[x].blocks
          BY ONLY <4>1, <5>1, EndedRow
        <5> QED  BY <4>2, <5>2
      <4> QED  BY <1>0, <2>1, <4>3
    <3>2. CASE b.counts[x] = None
      BY <1>0, <1>5, <2>1, <3>2 DEF UpdateFinish
    <3> QED  BY <3>1, <3>2
  <2> QED  BY <1>0, <1>5, <2>1 DEF UpdateFinish, Grown, Ledger!LedgerTypeOK
<1>6. CASE InsertSnapshot(b)
  BY <1>0, <1>6 DEF InsertSnapshot, Grown, Ledger!LedgerTypeOK
<1>7. CASE InsertBlocks(b)
  <2>1. /\ snapshotRow[b.snapshot].blocks <= b.first + b.blocks
        /\ [snapshotRow[b.snapshot] EXCEPT !.blocks = b.first + b.blocks]
              \in Ledger!SnapshotRow
    BY <1>0, <1>7, SMTT(30) DEF InsertBlocks, Ledger!SnapshotRow
  <2>2. [snapshotRow[b.snapshot] EXCEPT !.blocks = b.first + b.blocks].blocks
           = b.first + b.blocks
    BY <1>0, <1>7 DEF InsertBlocks, Ledger!SnapshotRow
  <2>3. /\ snapshotRow'[b.snapshot] =
              [snapshotRow[b.snapshot] EXCEPT !.blocks = b.first + b.blocks]
        /\ \A x \in SnapshotId \ {b.snapshot} : snapshotRow'[x] = snapshotRow[x]
    BY <1>7 DEF InsertBlocks, Ledger!LedgerTypeOK
  <2>4. /\ snapshotRow'[b.snapshot] # None
        /\ snapshotRow'[b.snapshot].blocks = b.first + b.blocks
    BY <2>1, <2>2, <2>3
  <2>5. \A x \in SnapshotId : snapshotRow[x] # None =>
           /\ snapshotRow'[x] # None
           /\ snapshotRow[x].blocks <= snapshotRow'[x].blocks
    <3>1. b.snapshot \in SnapshotId
             /\ snapshotRow[b.snapshot].blocks <= snapshotRow'[b.snapshot].blocks
      BY <1>7, <2>1, <2>4 DEF InsertBlocks
    <3>2. ASSUME NEW x \in SnapshotId, snapshotRow[x] # None
          PROVE  /\ snapshotRow'[x] # None
                 /\ snapshotRow[x].blocks <= snapshotRow'[x].blocks
      <4>1. CASE x = b.snapshot
        BY <2>4, <3>1, <4>1
      <4>2. CASE x # b.snapshot
        BY <1>0, <2>3, <3>2, <4>2
      <4> QED  BY <4>1, <4>2
    <3> QED  BY <3>2
  <2> QED  BY <1>0, <1>7, <2>5 DEF InsertBlocks, Grown, Ledger!LedgerTypeOK
<1>8. CASE UpdateOutcome(b)
  <2>1. /\ Ledger!Ended(snapshotRow[b.snapshot], "ended", b.count)
              \in Ledger!SnapshotRow
        /\ Ledger!Ended(snapshotRow[b.snapshot], "ended", b.count).blocks
              = snapshotRow[b.snapshot].blocks
    <3>1. b.count \in Nat \cup {None}
             /\ snapshotRow[b.snapshot] \in Ledger!SnapshotRow
      BY <1>0, <1>8 DEF UpdateOutcome
    <3> QED  BY ONLY <3>1, EndedRow
  <2> QED  BY <1>0, <1>8, <2>1 DEF UpdateOutcome, Grown, Ledger!LedgerTypeOK
<1> QED
  BY <1>1, <1>2, <1>3, <1>4, <1>5, <1>6, <1>7, <1>8 DEF Execute

-----------------------------------------------------------------------------
(* How a handler step changes its own task, and leaves the others alone.      *)

(* Goto moves one task and keeps its request, its batch and its reply.        *)
LEMMA Moved ==
    ASSUME TypeOK, NEW c \in Handler, NEW pc \in Pc, Goto(c, pc)
    PROVE  /\ task' \in [Handler -> Task]
           /\ task'[c].pc = pc
           /\ task'[c].call = task[c].call
           /\ task'[c].batch = task[c].batch
           /\ task'[c].reply = task[c].reply
           /\ \A d \in Handler \ {c} : task'[d] = task[d]
<1>1. task \in [Handler -> Task] /\ task[c] \in Task
  BY DEF TypeOK
<1>2. /\ [task[c] EXCEPT !.pc = pc] \in Task
      /\ [task[c] EXCEPT !.pc = pc].pc = pc
      /\ [task[c] EXCEPT !.pc = pc].call = task[c].call
      /\ [task[c] EXCEPT !.pc = pc].batch = task[c].batch
      /\ [task[c] EXCEPT !.pc = pc].reply = task[c].reply
  BY <1>1 DEF Task
<1>3. /\ task'[c] = [task[c] EXCEPT !.pc = pc]
      /\ \A d \in Handler \ {c} : task'[d] = task[d]
      /\ DOMAIN task' = Handler
      /\ task' \in [Handler -> Task]
  BY <1>1, <1>2 DEF Goto
<1> QED  BY <1>2, <1>3

(* Prepare attaches the batch to the task that is about to send it.           *)
LEMMA Prepared ==
    ASSUME TypeOK, NEW c \in Handler, NEW b \in Batch, NEW new, Prepare(c, b, new)
    PROVE  /\ task' \in [Handler -> Task]
           /\ task'[c].pc = "send"
           /\ task'[c].call = task[c].call
           /\ task'[c].batch = b
           /\ task'[c].reply = task[c].reply
           /\ \A d \in Handler \ {c} : task'[d] = task[d]
<1>1. task \in [Handler -> Task] /\ task[c] \in Task
  BY DEF TypeOK
<1> DEFINE moved == [task EXCEPT ![c].pc = "send"]
<1>2. /\ moved \in [Handler -> Task]
      /\ moved[c].pc = "send"
      /\ moved[c].call = task[c].call
      /\ moved[c].reply = task[c].reply
      /\ \A d \in Handler \ {c} : moved[d] = task[d]
  <2>1. /\ [task[c] EXCEPT !.pc = "send"] \in Task
        /\ [task[c] EXCEPT !.pc = "send"].pc = "send"
        /\ [task[c] EXCEPT !.pc = "send"].call = task[c].call
        /\ [task[c] EXCEPT !.pc = "send"].reply = task[c].reply
    BY <1>1 DEF Task, Pc
  <2> QED  BY <1>1, <2>1
<1>3. task' = [moved EXCEPT ![c].batch = b]
  BY DEF Prepare
<1> HIDE DEF moved
<1>4. /\ [moved[c] EXCEPT !.batch = b] \in Task
      /\ [moved[c] EXCEPT !.batch = b].pc = "send"
      /\ [moved[c] EXCEPT !.batch = b].call = task[c].call
      /\ [moved[c] EXCEPT !.batch = b].batch = b
      /\ [moved[c] EXCEPT !.batch = b].reply = task[c].reply
  BY <1>2 DEF Task, Pc
<1>5. /\ task'[c] = [moved[c] EXCEPT !.batch = b]
      /\ \A d \in Handler \ {c} : task'[d] = moved[d]
      /\ task' \in [Handler -> Task]
  BY <1>2, <1>3, <1>4
<1> QED  BY <1>2, <1>4, <1>5

(* Answer writes the reply of the one task that waits for it.                 *)
LEMMA Answered ==
    ASSUME TypeOK, NEW c \in Handler, NEW result \in {"ok", "error"},
           Answer(c, result)
    PROVE  /\ task' \in [Handler -> Task]
           /\ task[c].pc = "reply" => task'[c].reply = result
           /\ task[c].pc # "reply" => task'[c] = task[c]
           /\ task'[c].pc = task[c].pc
           /\ task'[c].call = task[c].call
           /\ task'[c].batch = task[c].batch
           /\ \A d \in Handler \ {c} : task'[d] = task[d]
<1>1. task \in [Handler -> Task] /\ task[c] \in Task
  BY DEF TypeOK
<1>2. CASE task[c].pc # "reply"
  BY <1>1, <1>2 DEF Answer
<1>3. CASE task[c].pc = "reply"
  <2>1. /\ [task[c] EXCEPT !.reply = result] \in Task
        /\ [task[c] EXCEPT !.reply = result].reply = result
        /\ [task[c] EXCEPT !.reply = result].pc = task[c].pc
        /\ [task[c] EXCEPT !.reply = result].call = task[c].call
        /\ [task[c] EXCEPT !.reply = result].batch = task[c].batch
    BY <1>1 DEF Task
  <2>2. /\ task'[c] = [task[c] EXCEPT !.reply = result]
        /\ \A d \in Handler \ {c} : task'[d] = task[d]
        /\ task' \in [Handler -> Task]
    BY <1>1, <1>3, <2>1 DEF Answer
  <2> QED  BY <1>3, <2>1, <2>2
<1> QED  BY <1>2, <1>3

(* The task between two requests.                                             *)
LEMMA IdleTaskType == IdleTask \in Task
BY DEF IdleTask, Task, Pc

(* Release gives up what c holds and nothing else.                            *)
LEMMA Released ==
    ASSUME TypeOK, NEW c \in Handler, Release(c)
    PROVE  /\ holder' \in [Mutex -> Handler \cup {None}]
           /\ \A d \in Handler \ {c}, m \in Mutex :
                 holder[m] = d => holder'[m] = d
BY DEF TypeOK, Release

(* Return ends the task of c.                                                 *)
LEMMA Returned ==
    ASSUME TypeOK, NEW c \in Handler, Return(c)
    PROVE  /\ task' \in [Handler -> Task]
           /\ task'[c] = IdleTask
           /\ \A d \in Handler \ {c} : task'[d] = task[d]
           /\ holder' \in [Mutex -> Handler \cup {None}]
           /\ \A d \in Handler \ {c}, m \in Mutex :
                 holder[m] = d => holder'[m] = d
BY IdleTaskType, Released DEF TypeOK, Return

(* What every step of the handler of c owes to the other handlers.            *)
Frame(c) ==
    /\ \A d \in Handler \ {c} : task'[d] = task[d]
    /\ \A d \in Handler \ {c}, m \in Mutex : holder[m] = d => holder'[m] = d
    /\ sessions' = sessions \/ holder["sessions"] \in {c, None}
    /\ analyses' = analyses \/ holder["analyses"] = c

(* A handler that owes its frame leaves every other handler as it was.        *)
LEMMA OthersFit ==
    ASSUME ControlInv, NEW c \in Handler, Frame(c), NEW d \in Handler \ {c}
    PROVE  HandlerFits(d)'
<1> USE NoneFacts
<1>1. /\ d \in Handler /\ d # c /\ d # None
      /\ task'[d] = task[d]
      /\ HandlerFits(d)
      /\ "sessions" \in Mutex /\ "analyses" \in Mutex
      /\ \A m \in Mutex : holder[m] = d => holder'[m] = d
  BY DEF ControlInv, Frame, Mutex
<1>2. PastSessions(d) => /\ holder["sessions"] = d
                         /\ holder'["sessions"] = d
                         /\ sessions' = sessions
                         /\ SessionAdmits(task[d].call)
  BY <1>1 DEF HandlerFits, GuardsHold, Frame
<1>3. PastAnalyses(d) => /\ holder["analyses"] = d
                         /\ holder'["analyses"] = d
                         /\ analyses' = analyses
                         /\ AnalysisAdmits(task[d].call)
  BY <1>1 DEF HandlerFits, GuardsHold, Frame
<1>4. CallFits(d)'
  BY <1>1 DEF HandlerFits, CallFits
<1>5. GuardsHold(d)'
  <2>1. PastSessions(d)' => PastSessions(d)
    BY <1>1 DEF PastSessions
  <2>2. PastAnalyses(d)' => PastAnalyses(d)
    BY <1>1 DEF PastAnalyses
  <2>3. ASSUME PastSessions(d) PROVE SessionAdmits(task[d].call)'
    BY <1>1, <1>2, <2>3 DEF SessionAdmits
  <2>4. ASSUME PastAnalyses(d) PROVE AnalysisAdmits(task[d].call)'
    BY <1>1, <1>3, <2>4 DEF AnalysisAdmits
  <2> QED  BY <1>2, <1>3, <2>1, <2>2, <2>3, <2>4 DEF GuardsHold
<1>6. BatchFits(d)'
  <2> SUFFICES ASSUME task[d].pc \in {"send", "reply"}
               PROVE  /\ task[d].batch \in Batch
                      /\ Fits(task[d].call, task[d].batch)'
    BY <1>1 DEF BatchFits
  <2>1. task[d].batch \in Batch /\ Fits(task[d].call, task[d].batch)
    BY <1>1 DEF HandlerFits, BatchFits
  <2>2. /\ task[d].call.kind \in SessionKinds => sessions' = sessions
        /\ task[d].call.kind \in AnalysisKinds => analyses' = analyses
    BY <1>2, <1>3 DEF PastSessions, PastAnalyses, Guarded
  <2> QED  BY <1>1, <2>1, <2>2 DEF Fits, SessionKinds, AnalysisKinds
<1> QED  BY <1>4, <1>5, <1>6 DEF HandlerFits

(* A handler step keeps ControlInv when its own task still fits, and it is    *)
(* not one that waits for an envelope.                                        *)
LEMMA HandlerKeepsControl ==
    ASSUME ControlInv, NEW c \in Handler, Frame(c), TypeOK', HandlerFits(c)',
           task[c].pc # "idle",
           task[c].pc = "reply" => task[c].reply # "none",
           UNCHANGED <<phase, queue>>
    PROVE  ControlInv'
<1>1. \A d \in Handler : HandlerFits(d)'
  BY OthersFit
<1>2. queue \in Seq(Envelope)
  BY DEF ControlInv, TypeOK
<1>3. ASSUME NEW i \in 1..Len(queue)
      PROVE  queue[i].from \in Handler \ {c}
  <2>1. queue[i] \in Envelope
    BY <1>2, <1>3
  <2>2. queue[i].from # c
    BY <1>3 DEF ControlInv, QueueFits
  <2> QED  BY <2>1, <2>2 DEF Envelope
<1>4. QueueFits'
  BY <1>2, <1>3 DEF ControlInv, QueueFits, Frame
<1> QED  BY <1>1, <1>4 DEF ControlInv

(* A handler that returns keeps ControlInv, whatever it has done to memory    *)
(* under its guards.                                                          *)
LEMMA ReturnKeepsControl ==
    ASSUME ControlInv, NEW c \in Handler, Return(c), task[c].pc # "idle",
           task[c].pc = "reply" => task[c].reply # "none",
           UNCHANGED <<store, phase, queue, minted, bounds>>,
           sessions' \in [SessionId -> SessionRecord],
           analyses' \in [SnapshotId -> ActiveAnalysis \cup {None}],
           sessions' = sessions \/ holder["sessions"] \in {c, None},
           analyses' = analyses \/ holder["analyses"] = c
    PROVE  ControlInv'
<1>1. TypeOK
  BY DEF ControlInv
<1>2. TypeOK'
  <2>1. Ledger!LedgerTypeOK'
    BY <1>1 DEF TypeOK, store, Ledger!LedgerTypeOK
  <2> QED  BY <1>1, <2>1, Returned DEF TypeOK, store, bounds
<1>3. Frame(c)
  BY <1>1, Returned DEF Frame
<1>4. HandlerFits(c)'
  <2>1. task'[c] = IdleTask
    BY <1>1, Returned
  <2> QED  BY <2>1 DEF IdleTask, HandlerFits, CallFits, GuardsHold, BatchFits,
                       PastSessions, PastAnalyses, Guarded
<1> QED  BY <1>2, <1>3, <1>4, HandlerKeepsControl

(* The mutexes a handler may take.                                            *)
LEMMA LockKeepsControl ==
    ASSUME ControlInv, NEW c \in Handler, LockSessions(c) \/ LockAnalyses(c)
    PROVE  ControlInv'
<1> USE NoneFacts
<1>1. TypeOK /\ HandlerFits(c) /\ task[c].pc \in {"sessions", "analyses"}
  BY DEF ControlInv, LockSessions, LockAnalyses, Waiting
<1>2. PICK pc \in Pc : Goto(c, pc)
  BY DEF LockSessions, LockAnalyses, Pc
<1>3. /\ task' \in [Handler -> Task]
      /\ task'[c].pc = pc
      /\ task'[c].call = task[c].call
      /\ task'[c].reply = task[c].reply
      /\ \A d \in Handler \ {c} : task'[d] = task[d]
  BY <1>1, <1>2, Moved
<1>4. /\ holder' \in [Mutex -> Handler \cup {None}]
      /\ \A d \in Handler \ {c}, m \in Mutex : holder[m] = d => holder'[m] = d
  BY <1>1 DEF LockSessions, LockAnalyses, Waiting, TypeOK, Mutex
<1>5. TypeOK'
  <2>1. Ledger!LedgerTypeOK'
    BY <1>1 DEF LockSessions, LockAnalyses, TypeOK, store, Ledger!LedgerTypeOK
  <2> QED
    BY <1>1, <1>3, <1>4, <2>1
    DEF LockSessions, LockAnalyses, TypeOK, memory, bounds
<1>6. Frame(c)
  BY <1>3, <1>4 DEF Frame, LockSessions, LockAnalyses, memory
<1>7. HandlerFits(c)'
  <2>1. task[c].call \in Call /\ task[c].reply = "none"
    BY <1>1 DEF HandlerFits, CallFits
  <2>2. CASE LockSessions(c)
    <3>1. /\ task[c].call.kind \in SessionKinds
          /\ task'[c].pc = IF task[c].call.kind \in {"finish", "begin"}
                           THEN "analyses" ELSE "ids"
      <4>1. Goto(c, IF task[c].call.kind \in {"finish", "begin"}
                    THEN "analyses" ELSE "ids")
        BY <2>2 DEF LockSessions
      <4>2. task[c].call.kind \in SessionKinds
        BY <1>1, <2>2 DEF LockSessions, Waiting, HandlerFits, CallFits
      <4> QED  BY <1>1, <4>1, <4>2, Moved DEF Pc
    <3>2. holder'["sessions"] = c /\ SessionAdmits(task[c].call)'
      BY <1>1, <1>3, <2>2
      DEF LockSessions, SessionAdmits, TypeOK, Mutex, memory
    <3> QED
      BY <1>3, <2>1, <3>1, <3>2
      DEF HandlerFits, CallFits, GuardsHold, BatchFits, PastSessions,
          PastAnalyses, Guarded, SessionKinds, AnalysisKinds
  <2>3. CASE LockAnalyses(c)
    <3>1. task[c].call.kind \in AnalysisKinds /\ task'[c].pc = "ids"
      <4>1. Goto(c, "ids") /\ task[c].call.kind \in AnalysisKinds
        BY <1>1, <2>3 DEF LockAnalyses, Waiting, HandlerFits, CallFits
      <4> QED  BY <1>1, <4>1, Moved DEF Pc
    <3>2. holder'["analyses"] = c /\ AnalysisAdmits(task[c].call)'
      BY <1>1, <1>3, <2>3
      DEF LockAnalyses, AnalysisAdmits, TypeOK, Mutex, memory
    <3>3. PastSessions(c)' => PastSessions(c)
      BY <1>3, <2>3 DEF PastSessions, LockAnalyses, Waiting
    <3>4. holder'["sessions"] = holder["sessions"]
      BY <1>1, <2>3 DEF LockAnalyses, TypeOK, Mutex
    <3>5. SessionAdmits(task[c].call) => SessionAdmits(task[c].call)'
      BY <1>3, <2>3 DEF LockAnalyses, SessionAdmits, memory
    <3> QED
      BY <1>1, <1>3, <2>1, <3>1, <3>2, <3>3, <3>4, <3>5
      DEF HandlerFits, CallFits, GuardsHold, BatchFits
  <2> QED  BY <2>2, <2>3
<1>8. UNCHANGED <<phase, queue>>
  BY DEF LockSessions, LockAnalyses
<1> QED  BY <1>1, <1>5, <1>6, <1>7, <1>8, HandlerKeepsControl

(* A handler that prepares a batch of its request keeps ControlInv.           *)
LEMMA PrepareKeepsControl ==
    ASSUME ControlInv, NEW c \in Handler, Waiting(c, "ids"),
           NEW b \in Batch, Fits(task[c].call, b),
           NEW new \in SUBSET (SessionId \cup OperationId \cup RequestId
                                  \cup SnapshotId),
           Prepare(c, b, new)
    PROVE  ControlInv'
<1> USE NoneFacts
<1>1. TypeOK /\ HandlerFits(c) /\ task[c].pc = "ids" /\ holder["ids"] = None
  BY DEF ControlInv, Waiting
<1>2. /\ task' \in [Handler -> Task]
      /\ task'[c].pc = "send"
      /\ task'[c].call = task[c].call
      /\ task'[c].batch = b
      /\ task'[c].reply = task[c].reply
      /\ \A d \in Handler \ {c} : task'[d] = task[d]
  BY <1>1, Prepared
<1>3. UNCHANGED <<store, phase, memory, queue, bounds>>
  BY DEF Prepare
<1>4. /\ holder' \in [Mutex -> Handler \cup {None}]
      /\ \A d \in Handler, m \in Mutex : holder[m] = d => holder'[m] = d
  BY <1>1 DEF Prepare, TypeOK, Mutex
<1>5. TypeOK'
  <2>1. Ledger!LedgerTypeOK'
    BY <1>1, <1>3 DEF TypeOK, store, Ledger!LedgerTypeOK
  <2>2. minted' \subseteq SessionId \cup OperationId \cup RequestId \cup SnapshotId
    BY <1>1 DEF TypeOK, Prepare
  <2> QED  BY <1>1, <1>2, <1>3, <1>4, <2>1, <2>2 DEF TypeOK, memory, bounds
<1>6. Frame(c)
  BY <1>2, <1>3, <1>4 DEF Frame, memory
<1>7. HandlerFits(c)'
  <2>1. CallFits(c)'
    BY <1>1, <1>2 DEF HandlerFits, CallFits
  <2>2. GuardsHold(c)'
    <3>1. PastSessions(c)' => PastSessions(c)
      BY <1>1, <1>2 DEF PastSessions, Guarded
    <3>2. PastAnalyses(c)' => PastAnalyses(c)
      BY <1>1, <1>2 DEF PastAnalyses, Guarded
    <3>3. SessionAdmits(task[c].call) => SessionAdmits(task[c].call)'
      BY <1>2, <1>3 DEF SessionAdmits, memory
    <3>4. AnalysisAdmits(task[c].call) => AnalysisAdmits(task[c].call)'
      BY <1>2, <1>3 DEF AnalysisAdmits, memory
    <3> QED
      BY <1>1, <1>2, <1>4, <3>1, <3>2, <3>3, <3>4
      DEF HandlerFits, GuardsHold, Mutex
  <2>3. BatchFits(c)'
    <3>1. Fits(task[c].call, b) /\ UNCHANGED <<sessions, analyses>>
      BY <1>3 DEF memory
    <3>2. Fits(task[c].call, task[c].batch)'
      BY <1>2, <3>1 DEF Fits
    <3> QED  BY <1>2, <3>2 DEF BatchFits
  <2> QED  BY <2>1, <2>2, <2>3 DEF HandlerFits
<1> QED  BY <1>1, <1>3, <1>5, <1>6, <1>7, HandlerKeepsControl

(* What each handler prepares is what Fits says of its request.               *)
LEMMA PreparedFits ==
    ASSUME ControlInv, NEW c \in Handler, PrepareBatch(c)
    PROVE  \E b \in Batch, new \in SUBSET (SessionId \cup OperationId
                                     \cup RequestId \cup SnapshotId) :
              Fits(task[c].call, b) /\ Prepare(c, b, new)
<1> DEFINE call == task[c].call
           Ids == SessionId \cup OperationId \cup RequestId \cup SnapshotId
<1> USE NoneFacts
<1>1. TypeOK /\ HandlerFits(c) /\ task[c].pc = "ids" /\ call \in Call
  BY DEF ControlInv, PrepareBatch, Waiting, HandlerFits, CallFits
<1>2. /\ PastSessions(c) => SessionAdmits(call)
      /\ PastAnalyses(c) => AnalysisAdmits(call)
  BY <1>1 DEF HandlerFits, GuardsHold
<1>3. CASE PrepareSession(c)
  <2>1. PICK s \in SessionId :
           Prepare(c, [type |-> "session", session |-> s], {s})
    BY <1>3 DEF PrepareSession
  <2>2. [type |-> "session", session |-> s] \in Batch
    BY DEF Batch
  <2>3. Fits(call, [type |-> "session", session |-> s])
    BY <1>3 DEF Fits, PrepareSession
  <2> QED  BY <2>1, <2>2, <2>3
<1>4. CASE PrepareOperation(c)
  <2> DEFINE batch(o) ==
        [type |-> "operation", session |-> call.session, operation |-> o,
         kind |-> IF call.kind = "root" THEN "agent" ELSE "inference",
         parent |-> IF call.kind = "root" THEN None ELSE call.parent]
  <2>1. PICK o \in OperationId : Prepare(c, batch(o), {o})
    BY <1>4 DEF PrepareOperation
  <2>2. batch(o) \in Batch
    BY <1>1, <1>4, CallFields DEF Batch, PrepareOperation, SessionKinds
  <2>3. Fits(call, batch(o))
    BY <1>4 DEF Fits, PrepareOperation
  <2> QED  BY <2>1, <2>2, <2>3
<1>5. CASE PrepareAttempt(c)
  <2> DEFINE record == sessions[call.session]
             known == record.requests[call.operation]
             batch(r) ==
               [type |-> "attempt", operation |-> call.operation,
                request |-> r, ordinal |-> record.ordinals[call.operation],
                retry |-> known # None, terminal |-> call.terminal]
  <2>1. /\ call.kind = "persist"
        /\ \E r \in IF known = None THEN RequestId \ minted ELSE {known} :
              Prepare(c, batch(r), {r})
    BY <1>5 DEF PrepareAttempt
  <2>2. PICK r \in IF known = None THEN RequestId \ minted ELSE {known} :
           Prepare(c, batch(r), {r})
    BY <2>1
  <2>3. /\ call.session \in SessionId
        /\ call.operation \in OperationId
        /\ call.terminal \in BOOLEAN
    BY <1>1, <2>1, CallFields DEF SessionKinds
  <2>4. record \in SessionRecord
    BY <1>1, <2>3 DEF TypeOK
  <2>5. known \in RequestId \cup {None} /\ record.ordinals[call.operation] \in Nat
    BY <2>3, <2>4 DEF SessionRecord
  <2>6. r \in RequestId /\ (known # None => r = known)
    BY <2>2, <2>5
  <2>7. batch(r) \in Batch
    BY <2>3, <2>5, <2>6 DEF Batch
  <2>8. Fits(call, batch(r))
    BY <2>1, <2>6 DEF Fits
  <2> QED  BY <2>2, <2>6, <2>7, <2>8
<1>6. CASE PrepareEvent(c)
  <2>1. [type |-> "event", session |-> call.session] \in Batch
    BY <1>1, <1>6, CallFields DEF Batch, PrepareEvent, SessionKinds
  <2>2. Fits(call, [type |-> "event", session |-> call.session])
    BY <1>6 DEF Fits, PrepareEvent
  <2> QED  BY <1>6, <2>1, <2>2 DEF PrepareEvent
<1>7. CASE PrepareFinish(c)
  <2> DEFINE ends(x) == IF analyses[x] # None /\ analyses[x].session = call.session
                        THEN analyses[x].ordinal ELSE None
             batch == [type |-> "finish", session |-> call.session,
                       counts |-> [x \in SnapshotId |-> ends(x)]]
  <2>1. Prepare(c, batch, {}) /\ call.kind = "finish"
    BY <1>7 DEF PrepareFinish
  <2>2. \A x \in SnapshotId : ends(x) \in Nat \cup {None}
    BY <1>1 DEF TypeOK, ActiveAnalysis
  <2>3. batch \in Batch
    BY <1>1, <2>1, <2>2, CallFields DEF Batch, SessionKinds
  <2>4. Fits(call, batch)
    BY <2>1 DEF Fits
  <2> QED  BY <2>1, <2>3, <2>4
<1>8. CASE PrepareBegin(c)
  <2> DEFINE batch(x) == [type |-> "snapshot", snapshot |-> x,
                          session |-> call.session, request |-> call.request]
  <2>1. PICK x \in SnapshotId : Prepare(c, batch(x), {x})
    BY <1>8 DEF PrepareBegin
  <2>2. batch(x) \in Batch
    BY <1>1, <1>8, CallFields DEF Batch, PrepareBegin, SessionKinds
  <2>3. Fits(call, batch(x))
    BY <1>8 DEF Fits, PrepareBegin
  <2> QED  BY <2>1, <2>2, <2>3
<1>9. ASSUME call.kind \in {"append", "abort", "finalize"}
      PROVE  /\ call.snapshot \in SnapshotId
             /\ analyses[call.snapshot].ordinal \in Nat
  <2>1. call.snapshot \in SnapshotId
    BY <1>1, <1>9, CallFields
  <2>2. analyses[call.snapshot] # None
    BY <1>1, <1>2, <1>9 DEF PastAnalyses, Guarded, AnalysisKinds, AnalysisAdmits
  <2> QED  BY <1>1, <2>1, <2>2 DEF TypeOK, ActiveAnalysis
<1>10. CASE PrepareAppend(c)
  <2> DEFINE batch == [type |-> "blocks", snapshot |-> call.snapshot,
                       first |-> analyses[call.snapshot].ordinal,
                       blocks |-> call.blocks]
  <2>1. Prepare(c, batch, {}) /\ call.kind = "append"
    BY <1>10 DEF PrepareAppend
  <2>2. batch \in Batch
    <3>1. call.blocks \in Nat
      BY <1>1, <2>1, CallFields
    <3> QED  BY <1>9, <2>1, <3>1 DEF Batch
  <2>3. Fits(call, batch)
    BY <2>1 DEF Fits
  <2> QED  BY <2>1, <2>2, <2>3
<1>11. CASE PrepareOutcome(c)
  <2> DEFINE batch == [type |-> "outcome", snapshot |-> call.snapshot,
                       count |-> IF call.kind = "abort"
                                 THEN analyses[call.snapshot].ordinal
                                 ELSE call.count]
  <2>1. Prepare(c, batch, {}) /\ call.kind \in {"abort", "finalize"}
    BY <1>11 DEF PrepareOutcome
  <2>2. call.kind = "finalize" =>
           call.count \in {None, analyses[call.snapshot].ordinal}
    BY <1>1, <1>2, <2>1 DEF PastAnalyses, Guarded, AnalysisKinds, AnalysisAdmits
  <2>3. batch \in Batch
    BY <1>9, <2>1, <2>2 DEF Batch
  <2>4. Fits(call, batch)
    BY <2>1, <2>2 DEF Fits
  <2> QED  BY <2>1, <2>3, <2>4
<1> QED
  BY <1>3, <1>4, <1>5, <1>6, <1>7, <1>8, <1>10, <1>11 DEF PrepareBatch

-----------------------------------------------------------------------------
(* The updates of memory that follow a commit                                 *)

WithOperation(map, s, o, kind) == [map EXCEPT ![s].operations[o] = kind]

WithAttempt(map, s, o, r, n) ==
    [map EXCEPT ![s].requests[o] = r, ![s].ordinals[o] = n]

WithState(map, s, state) == [map EXCEPT ![s].state = state]

(* What is left of a record that remembers a new operation.                   *)
LEMMA WithOperationFields ==
    ASSUME NEW map \in [SessionId -> SessionRecord], NEW s \in SessionId,
           NEW o \in OperationId, NEW kind \in {"agent", "inference"}
    PROVE  LET next == WithOperation(map, s, o, kind) IN
           /\ next \in [SessionId -> SessionRecord]
           /\ \A t \in SessionId \ {s} : next[t] = map[t]
           /\ next[s].state = map[s].state
           /\ next[s].requests = map[s].requests
           /\ next[s].ordinals = map[s].ordinals
           /\ next[s].operations[o] = kind
           /\ \A p \in OperationId \ {o} :
                 next[s].operations[p] = map[s].operations[p]
<1> DEFINE ops == [map[s].operations EXCEPT ![o] = kind]
           record == [map[s] EXCEPT !.operations = ops]
<1>1. map[s] \in SessionRecord
  OBVIOUS
<1>2. ops \in [OperationId -> {"agent", "inference"} \cup {None}]
  BY <1>1 DEF SessionRecord
<1>3. /\ ops[o] = kind
      /\ \A p \in OperationId \ {o} : ops[p] = map[s].operations[p]
  BY <1>1 DEF SessionRecord
<1>4. WithOperation(map, s, o, kind) = [map EXCEPT ![s] = record]
  BY DEF WithOperation
<1> HIDE DEF ops
<1>5. /\ record \in SessionRecord
      /\ record.state = map[s].state
      /\ record.requests = map[s].requests
      /\ record.ordinals = map[s].ordinals
      /\ record.operations = ops
  BY <1>1, <1>2 DEF SessionRecord
<1> HIDE DEF record
<1> QED  BY <1>3, <1>4, <1>5

(* What is left of a record that remembers a new attempt.                     *)
LEMMA WithAttemptFields ==
    ASSUME NEW map \in [SessionId -> SessionRecord], NEW s \in SessionId,
           NEW o \in OperationId, NEW r \in RequestId, NEW n \in Nat
    PROVE  LET next == WithAttempt(map, s, o, r, n) IN
           /\ next \in [SessionId -> SessionRecord]
           /\ \A t \in SessionId \ {s} : next[t] = map[t]
           /\ next[s].state = map[s].state
           /\ next[s].operations = map[s].operations
           /\ next[s].requests[o] = r
           /\ next[s].ordinals[o] = n
           /\ \A p \in OperationId \ {o} :
                 /\ next[s].requests[p] = map[s].requests[p]
                 /\ next[s].ordinals[p] = map[s].ordinals[p]
<1> DEFINE reqs == [map[s].requests EXCEPT ![o] = r]
           half == [map[s] EXCEPT !.requests = reqs]
           ords == [half.ordinals EXCEPT ![o] = n]
           record == [half EXCEPT !.ordinals = ords]
           first == [map EXCEPT ![s] = half]
<1>1. map[s] \in SessionRecord
  OBVIOUS
<1>2. /\ reqs \in [OperationId -> RequestId \cup {None}]
      /\ reqs[o] = r
      /\ \A p \in OperationId \ {o} : reqs[p] = map[s].requests[p]
  BY <1>1 DEF SessionRecord
<1>3. WithAttempt(map, s, o, r, n) =
         [first EXCEPT ![s] = [first[s] EXCEPT !.ordinals =
                                 [first[s].ordinals EXCEPT ![o] = n]]]
  BY DEF WithAttempt
<1> HIDE DEF reqs
<1>4. /\ half \in SessionRecord
      /\ half.state = map[s].state
      /\ half.operations = map[s].operations
      /\ half.ordinals = map[s].ordinals
      /\ half.requests = reqs
  BY <1>1, <1>2 DEF SessionRecord
<1> HIDE DEF half
<1>5. /\ first \in [SessionId -> SessionRecord]
      /\ first[s] = half
      /\ \A t \in SessionId \ {s} : first[t] = map[t]
  BY <1>4
<1>6. /\ ords \in [OperationId -> Nat]
      /\ ords[o] = n
      /\ \A p \in OperationId \ {o} : ords[p] = map[s].ordinals[p]
  BY <1>1, <1>4 DEF SessionRecord
<1>7. WithAttempt(map, s, o, r, n) = [first EXCEPT ![s] = record]
  BY <1>3, <1>5
<1> HIDE DEF ords, first
<1>8. /\ record \in SessionRecord
      /\ record.state = half.state
      /\ record.operations = half.operations
      /\ record.requests = half.requests
      /\ record.ordinals = ords
  BY <1>4, <1>6 DEF SessionRecord
<1> HIDE DEF record
<1> QED  BY <1>2, <1>4, <1>5, <1>6, <1>7, <1>8

(* What is left of a record whose session changes state.                      *)
LEMMA WithStateFields ==
    ASSUME NEW map \in [SessionId -> SessionRecord], NEW s \in SessionId,
           NEW state \in {"active", "closed"}
    PROVE  LET next == WithState(map, s, state) IN
           /\ next \in [SessionId -> SessionRecord]
           /\ \A t \in SessionId \ {s} : next[t] = map[t]
           /\ next[s].state = state
           /\ next[s].operations = map[s].operations
           /\ next[s].requests = map[s].requests
           /\ next[s].ordinals = map[s].ordinals
<1> DEFINE record == [map[s] EXCEPT !.state = state]
<1>1. map[s] \in SessionRecord
  OBVIOUS
<1>2. /\ record \in SessionRecord
      /\ record.state = state
      /\ record.operations = map[s].operations
      /\ record.requests = map[s].requests
      /\ record.ordinals = map[s].ordinals
  BY <1>1 DEF SessionRecord
<1>3. WithState(map, s, state) = [map EXCEPT ![s] = record]
  BY DEF WithState
<1> HIDE DEF record
<1> QED  BY <1>2, <1>3

(* The record of a session that has just been created.                        *)
NewSession == [AbsentSession EXCEPT !.state = "active"]

(* A session that has just been created knows nothing yet.                    *)
LEMMA NewSessionFields ==
    /\ AbsentSession \in SessionRecord
    /\ NewSession \in SessionRecord
    /\ NewSession.state = "active"
    /\ \A o \in OperationId :
          /\ NewSession.operations[o] = None
          /\ NewSession.requests[o] = None
          /\ NewSession.ordinals[o] = 0
<1>1. NewSession = [state |-> "active",
                    operations |-> [o \in OperationId |-> None],
                    requests |-> [o \in OperationId |-> None],
                    ordinals |-> [o \in OperationId |-> 0]]
  BY DEF NewSession, AbsentSession
<1> QED  BY <1>1 DEF AbsentSession, SessionRecord

-----------------------------------------------------------------------------
(* Every step keeps ControlInv                                                *)

(* What a handler knows of its request and batch while it waits.              *)
LEMMA WaitingFacts ==
    ASSUME ControlInv, NEW c \in Handler, task[c].pc = "reply"
    PROVE  /\ TypeOK
           /\ task[c].call \in Call
           /\ task[c].batch \in Batch
           /\ Fits(task[c].call, task[c].batch)
           /\ task[c].call.kind \in SessionKinds =>
                 holder["sessions"] = c /\ SessionAdmits(task[c].call)
           /\ task[c].call.kind \in AnalysisKinds =>
                 holder["analyses"] = c /\ AnalysisAdmits(task[c].call)
<1>1. TypeOK /\ HandlerFits(c)
  BY DEF ControlInv
<1>2. task[c].call \in Call
  BY <1>1 DEF HandlerFits, CallFits
<1>3. task[c].batch \in Batch /\ Fits(task[c].call, task[c].batch)
  BY <1>1 DEF HandlerFits, BatchFits
<1>4. /\ task[c].call.kind \in SessionKinds => PastSessions(c)
      /\ task[c].call.kind \in AnalysisKinds => PastAnalyses(c)
  BY DEF PastSessions, PastAnalyses, Guarded
<1>5. /\ PastSessions(c) =>
            holder["sessions"] = c /\ SessionAdmits(task[c].call)
      /\ PastAnalyses(c) =>
            holder["analyses"] = c /\ AnalysisAdmits(task[c].call)
  BY <1>1 DEF HandlerFits, GuardsHold
<1> QED  BY <1>1, <1>2, <1>3, <1>4, <1>5

(* A refused request, or one with nothing to remember, returns.               *)
LEMMA RefusalKeepsControl ==
    ASSUME ControlInv, NEW c \in Handler,
           RefuseSession(c) \/ RefuseAnalysis(c) \/ ReplyError(c)
             \/ EventRecorded(c)
    PROVE  ControlInv'
<1>1. /\ Return(c)
      /\ task[c].pc # "idle"
      /\ task[c].pc = "reply" => task[c].reply # "none"
      /\ UNCHANGED <<store, phase, memory, queue, minted, bounds>>
  BY DEF RefuseSession, RefuseAnalysis, ReplyError, EventRecorded, Waiting, Replied
<1>2. TypeOK
  BY DEF ControlInv
<1>3. /\ UNCHANGED <<store, phase, queue, minted, bounds>>
      /\ sessions' = sessions /\ analyses' = analyses
  BY <1>1 DEF memory
<1>4. /\ sessions' \in [SessionId -> SessionRecord]
      /\ analyses' \in [SnapshotId -> ActiveAnalysis \cup {None}]
  BY <1>2, <1>3 DEF TypeOK
<1> QED  BY <1>1, <1>3, <1>4, ReturnKeepsControl

(* The maps a handler leaves when it returns after its commit.                *)
LEMMA ReturningMemory ==
    ASSUME ControlInv, NEW c \in Handler
    PROVE  /\ OperationCreated(c) =>
                 sessions' = WithOperation(sessions, task[c].batch.session,
                                task[c].batch.operation, task[c].batch.kind)
           /\ AttemptPersisted(c) =>
                 sessions' = WithAttempt(sessions, task[c].call.session,
                                task[c].batch.operation, task[c].batch.request,
                                task[c].batch.ordinal + 1)
           /\ SessionFinished(c) =>
                 sessions' = WithState(sessions, task[c].batch.session, "closed")
BY DEF OperationCreated, RememberOperation, AttemptPersisted, SessionFinished,
       WithOperation, WithAttempt, WithState

(* create_operation remembers its operation and returns.                      *)
LEMMA OperationCreatedKeepsControl ==
    ASSUME ControlInv, NEW c \in Handler, OperationCreated(c)
    PROVE  ControlInv'
<1>1. /\ task[c].pc = "reply" /\ task[c].reply = "ok"
      /\ task[c].call.kind \in {"root", "forward"}
      /\ Return(c)
      /\ UNCHANGED <<store, phase, analyses, queue, minted, bounds>>
  BY DEF OperationCreated, Replied
<1>2. /\ TypeOK
      /\ task[c].batch \in Batch
      /\ Fits(task[c].call, task[c].batch)
      /\ holder["sessions"] = c
  BY <1>1, WaitingFacts DEF SessionKinds
<1>3. task[c].batch.type = "operation"
  BY <1>1, <1>2 DEF Fits
<1>4. sessions' \in [SessionId -> SessionRecord]
  <2>1. /\ task[c].batch.session \in SessionId
        /\ task[c].batch.operation \in OperationId
        /\ task[c].batch.kind \in {"agent", "inference"}
    BY <1>2, <1>3, BatchFields
  <2>2. sessions' = WithOperation(sessions, task[c].batch.session,
                       task[c].batch.operation, task[c].batch.kind)
    BY ReturningMemory
  <2>3. sessions \in [SessionId -> SessionRecord]
    BY <1>2 DEF TypeOK
  <2> QED  BY <2>1, <2>2, <2>3, WithOperationFields
<1>5. analyses' \in [SnapshotId -> ActiveAnalysis \cup {None}]
  BY <1>1, <1>2 DEF TypeOK
<1>6. UNCHANGED <<store, phase, queue, minted, bounds>>
  BY <1>1
<1> QED  BY <1>1, <1>2, <1>4, <1>5, <1>6, ReturnKeepsControl

(* persist_provider_observation remembers its attempt and returns.            *)
LEMMA AttemptPersistedKeepsControl ==
    ASSUME ControlInv, NEW c \in Handler, AttemptPersisted(c)
    PROVE  ControlInv'
<1>1. /\ task[c].pc = "reply" /\ task[c].reply = "ok"
      /\ task[c].call.kind = "persist"
      /\ Return(c)
      /\ UNCHANGED <<store, phase, analyses, queue, minted, bounds>>
  BY DEF AttemptPersisted, Replied
<1>2. /\ TypeOK
      /\ task[c].call \in Call
      /\ task[c].batch \in Batch
      /\ Fits(task[c].call, task[c].batch)
      /\ holder["sessions"] = c
  BY <1>1, WaitingFacts DEF SessionKinds
<1>3. task[c].batch.type = "attempt" /\ task[c].call.session \in SessionId
  BY <1>1, <1>2, CallFields DEF Fits, SessionKinds
<1>4. sessions' \in [SessionId -> SessionRecord]
  <2>1. /\ task[c].batch.operation \in OperationId
        /\ task[c].batch.request \in RequestId
        /\ task[c].batch.ordinal + 1 \in Nat
    BY <1>2, <1>3, BatchFields
  <2>2. sessions' = WithAttempt(sessions, task[c].call.session,
                       task[c].batch.operation, task[c].batch.request,
                       task[c].batch.ordinal + 1)
    BY ReturningMemory
  <2>3. sessions \in [SessionId -> SessionRecord]
    BY <1>2 DEF TypeOK
  <2> QED  BY <1>3, <2>1, <2>2, <2>3, WithAttemptFields
<1>5. analyses' \in [SnapshotId -> ActiveAnalysis \cup {None}]
  BY <1>1, <1>2 DEF TypeOK
<1>6. UNCHANGED <<store, phase, queue, minted, bounds>>
  BY <1>1
<1> QED  BY <1>1, <1>2, <1>4, <1>5, <1>6, ReturnKeepsControl

(* finish_session closes the session in both maps and returns.                *)
LEMMA SessionFinishedKeepsControl ==
    ASSUME ControlInv, NEW c \in Handler, SessionFinished(c)
    PROVE  ControlInv'
<1>1. /\ task[c].pc = "reply" /\ task[c].reply = "ok"
      /\ task[c].call.kind = "finish"
      /\ Return(c)
      /\ UNCHANGED <<store, phase, queue, minted, bounds>>
  BY DEF SessionFinished, Replied
<1>2. /\ TypeOK
      /\ task[c].batch \in Batch
      /\ Fits(task[c].call, task[c].batch)
      /\ holder["sessions"] = c /\ holder["analyses"] = c
  BY <1>1, WaitingFacts DEF SessionKinds, AnalysisKinds
<1>3. task[c].batch.type = "finish"
  BY <1>1, <1>2 DEF Fits
<1>4. sessions' \in [SessionId -> SessionRecord]
  BY <1>2, <1>3, BatchFields, ReturningMemory, WithStateFields DEF TypeOK
<1>5. analyses' \in [SnapshotId -> ActiveAnalysis \cup {None}]
  BY <1>2 DEF SessionFinished, TypeOK
<1> QED  BY <1>1, <1>2, <1>4, <1>5, ReturnKeepsControl

(* The analysis handlers update their map and return.                         *)
LEMMA AnalysisStepKeepsControl ==
    ASSUME ControlInv, NEW c \in Handler,
           AnalysisBegun(c) \/ BlocksAppended(c) \/ AnalysisEnded(c)
    PROVE  ControlInv'
<1> DEFINE b == task[c].batch
<1>1. /\ task[c].pc = "reply" /\ task[c].reply = "ok"
      /\ task[c].call.kind \in {"begin", "append", "abort", "finalize"}
      /\ Return(c)
      /\ UNCHANGED <<store, phase, sessions, queue, minted, bounds>>
  BY DEF AnalysisBegun, BlocksAppended, AnalysisEnded, Replied
<1>2. /\ TypeOK
      /\ task[c].call \in Call
      /\ b \in Batch
      /\ Fits(task[c].call, b)
      /\ holder["analyses"] = c
      /\ AnalysisAdmits(task[c].call)
  BY <1>1, WaitingFacts DEF AnalysisKinds
<1>3. sessions' \in [SessionId -> SessionRecord]
  BY <1>1, <1>2 DEF TypeOK
<1>4. analyses' \in [SnapshotId -> ActiveAnalysis \cup {None}]
  <2>1. CASE AnalysisBegun(c)
    <3>1. b.type = "snapshot"
      BY <1>2, <2>1 DEF AnalysisBegun, Replied, Fits
    <3>2. [session |-> b.session, request |-> b.request,
           sequence |-> 0, ordinal |-> 0] \in ActiveAnalysis
      BY <1>2, <3>1, BatchFields DEF ActiveAnalysis
    <3> QED  BY <1>2, <2>1, <3>2 DEF AnalysisBegun, TypeOK
  <2>2. CASE BlocksAppended(c)
    <3> DEFINE x == b.snapshot
               longer == [analyses EXCEPT ![x].ordinal = b.first + b.blocks]
    <3>1. /\ b.type = "blocks"
          /\ x = task[c].call.snapshot
          /\ task[c].call.kind = "append"
      BY <1>2, <2>2 DEF BlocksAppended, Replied, Fits
    <3>2. x \in SnapshotId /\ b.first + b.blocks \in Nat
      BY <1>2, <3>1, BatchFields
    <3>3. analyses[x] \in ActiveAnalysis
      BY <1>2, <3>1, <3>2 DEF AnalysisAdmits, TypeOK
    <3>4. analyses' = [longer EXCEPT ![x].sequence = longer[x].sequence + 1]
      BY <2>2 DEF BlocksAppended
    <3>5. /\ longer \in [SnapshotId -> ActiveAnalysis \cup {None}]
          /\ longer[x] \in ActiveAnalysis
      <4>1. [analyses[x] EXCEPT !.ordinal = b.first + b.blocks] \in ActiveAnalysis
        BY <3>2, <3>3 DEF ActiveAnalysis
      <4> QED  BY <1>2, <3>2, <4>1 DEF TypeOK
    <3> HIDE DEF longer
    <3>6. [longer[x] EXCEPT !.sequence = longer[x].sequence + 1] \in ActiveAnalysis
      BY <3>5 DEF ActiveAnalysis
    <3> QED  BY <3>2, <3>4, <3>5, <3>6
  <2>3. CASE AnalysisEnded(c)
    BY <1>2, <2>3 DEF AnalysisEnded, TypeOK
  <2> QED  BY <2>1, <2>2, <2>3
<1>5. UNCHANGED <<store, phase, queue, minted, bounds>>
  BY <1>1
<1> QED  BY <1>1, <1>2, <1>3, <1>4, <1>5, ReturnKeepsControl

(* A task that goes on to a second half starts it with no guard.              *)
Restarted(call) ==
    [pc |-> "sessions", call |-> call, batch |-> None, reply |-> "none"]

(* A task that goes on to a second request starts from its lock.              *)
LEMMA RestartFits ==
    ASSUME NEW c \in Handler, NEW call \in Call, call.kind \in SessionKinds,
           task'[c] = Restarted(call)
    PROVE  HandlerFits(c)' /\ Restarted(call) \in Task
BY DEF Restarted, HandlerFits, CallFits, GuardsHold, BatchFits, PastSessions,
       PastAnalyses, Guarded, Task, Pc

(* start_session goes on to the root operation of its session.                *)
LEMMA PublishSessionKeepsControl ==
    ASSUME ControlInv, NEW c \in Handler, PublishSession(c)
    PROVE  ControlInv'
<1> DEFINE s == task[c].batch.session
           call == [kind |-> "root", session |-> s]
<1>1. /\ task[c].pc = "reply" /\ task[c].reply = "ok"
      /\ task[c].call.kind = "start"
      /\ holder["sessions"] = None
      /\ sessions' = [sessions EXCEPT ![s] = NewSession]
      /\ task' = [task EXCEPT ![c] = Restarted(call)]
      /\ UNCHANGED <<store, phase, analyses, holder, queue, minted, bounds>>
  BY DEF PublishSession, Replied, NewSession, Restarted
<1>2. /\ TypeOK
      /\ task[c].batch \in Batch
      /\ Fits(task[c].call, task[c].batch)
  BY <1>1, WaitingFacts
<1>3. s \in SessionId
  BY <1>1, <1>2, BatchFields DEF Fits
<1>4. call \in Call /\ call.kind \in SessionKinds
  BY <1>3 DEF Call, SessionKinds
<1> HIDE DEF call
<1>5. /\ task'[c] = Restarted(call)
      /\ \A d \in Handler \ {c} : task'[d] = task[d]
  BY <1>1, <1>2 DEF TypeOK
<1>6. HandlerFits(c)' /\ Restarted(call) \in Task
  BY <1>4, <1>5, RestartFits
<1>7. TypeOK'
  <2>1. Ledger!LedgerTypeOK'
    BY <1>1, <1>2 DEF TypeOK, store, Ledger!LedgerTypeOK
  <2>2. task' \in [Handler -> Task]
    BY <1>1, <1>2, <1>6 DEF TypeOK
  <2>3. sessions' \in [SessionId -> SessionRecord]
    BY <1>1, <1>2, NewSessionFields DEF TypeOK
  <2> QED  BY <1>1, <1>2, <2>1, <2>2, <2>3 DEF TypeOK, bounds
<1>8. Frame(c)
  BY <1>1, <1>5 DEF Frame
<1>9. task[c].pc # "idle" /\ task[c].reply # "none" /\ UNCHANGED <<phase, queue>>
  BY <1>1
<1> QED  BY <1>6, <1>7, <1>8, <1>9, HandlerKeepsControl

(* record_provider_observation goes on to the attempt, its guard dropped.     *)
LEMMA ObservationCreatedKeepsControl ==
    ASSUME ControlInv, NEW c \in Handler, ObservationCreated(c)
    PROVE  ControlInv'
<1> DEFINE b == task[c].batch
           call == [kind |-> "persist", session |-> task[c].call.session,
                    operation |-> b.operation,
                    terminal |-> task[c].call.terminal]
<1>1. /\ task[c].pc = "reply" /\ task[c].reply = "ok"
      /\ task[c].call.kind = "observe"
      /\ sessions' = WithOperation(sessions, b.session, b.operation, b.kind)
      /\ Release(c)
      /\ task' = [task EXCEPT ![c] = Restarted(call)]
      /\ UNCHANGED <<store, phase, analyses, queue, minted, bounds>>
  BY DEF ObservationCreated, Replied, RememberOperation, WithOperation, Restarted
<1>2. /\ TypeOK
      /\ task[c].call \in Call
      /\ b \in Batch
      /\ Fits(task[c].call, b)
      /\ holder["sessions"] = c
  BY <1>1, WaitingFacts DEF SessionKinds
<1>3. /\ b.type = "operation"
      /\ b.session \in SessionId
      /\ b.operation \in OperationId
      /\ b.kind \in {"agent", "inference"}
  BY <1>1, <1>2, BatchFields DEF Fits
<1>4. call \in Call /\ call.kind \in SessionKinds
  BY <1>1, <1>2, <1>3, CallFields DEF Call, ClientCall, SessionKinds
<1> HIDE DEF call
<1>5. /\ task'[c] = Restarted(call)
      /\ \A d \in Handler \ {c} : task'[d] = task[d]
  BY <1>1, <1>2 DEF TypeOK
<1>6. HandlerFits(c)' /\ Restarted(call) \in Task
  BY <1>4, <1>5, RestartFits
<1>7. /\ holder' \in [Mutex -> Handler \cup {None}]
      /\ \A d \in Handler \ {c}, m \in Mutex : holder[m] = d => holder'[m] = d
  BY <1>1, <1>2, Released
<1>8. TypeOK'
  <2>1. Ledger!LedgerTypeOK'
    BY <1>1, <1>2 DEF TypeOK, store, Ledger!LedgerTypeOK
  <2>2. task' \in [Handler -> Task]
    BY <1>1, <1>2, <1>6 DEF TypeOK
  <2>3. sessions' \in [SessionId -> SessionRecord]
    BY <1>1, <1>2, <1>3, WithOperationFields DEF TypeOK
  <2> QED  BY <1>1, <1>2, <1>7, <2>1, <2>2, <2>3 DEF TypeOK, bounds
<1>9. Frame(c)
  BY <1>1, <1>2, <1>5, <1>7 DEF Frame
<1>10. task[c].pc # "idle" /\ task[c].reply # "none" /\ UNCHANGED <<phase, queue>>
  BY <1>1
<1> QED  BY <1>6, <1>8, <1>9, <1>10, HandlerKeepsControl

(* Submitting the batch: one more envelope, and its task waits.               *)
LEMMA SendKeepsControl ==
    ASSUME ControlInv, NEW c \in Handler, Send(c)
    PROVE  ControlInv'
<1> DEFINE e == [from |-> c, batch |-> task[c].batch]
<1> USE NoneFacts
<1>1. /\ TypeOK /\ HandlerFits(c) /\ QueueFits
      /\ task[c].pc = "send"
      /\ Len(queue) < QueueItems
      /\ queue' = Append(queue, e)
      /\ Goto(c, "reply")
      /\ UNCHANGED <<store, phase, memory, holder, minted, bounds>>
  BY DEF ControlInv, Send
<1>2. /\ task' \in [Handler -> Task]
      /\ task'[c].pc = "reply"
      /\ task'[c].call = task[c].call
      /\ task'[c].batch = task[c].batch
      /\ task'[c].reply = task[c].reply
      /\ \A d \in Handler \ {c} : task'[d] = task[d]
  BY <1>1, Moved DEF Pc
<1>3. /\ task[c].batch \in Batch
      /\ task[c].reply = "none"
      /\ queue \in Seq(Envelope)
      /\ e \in Envelope
  BY <1>1 DEF HandlerFits, BatchFits, CallFits, TypeOK, Envelope
<1>4. /\ queue' \in Seq(Envelope)
      /\ Len(queue') = Len(queue) + 1
      /\ queue'[Len(queue) + 1] = e
      /\ \A i \in 1..Len(queue) : queue'[i] = queue[i]
      /\ Len(queue) \in Nat
  BY <1>1, <1>3
<1>5. TypeOK'
  <2>1. Ledger!LedgerTypeOK'
    BY <1>1 DEF TypeOK, store, Ledger!LedgerTypeOK
  <2>2. Len(queue') <= QueueItems
    BY <1>1, <1>4
  <2> QED  BY <1>1, <1>2, <1>4, <2>1, <2>2 DEF TypeOK, memory, bounds
<1>6. \A d \in Handler : HandlerFits(d)'
  <2>1. Frame(c)
    BY <1>1, <1>2 DEF Frame, memory
  <2>2. HandlerFits(c)'
    <3>1. /\ PastSessions(c)' => PastSessions(c)
          /\ PastAnalyses(c)' => PastAnalyses(c)
      BY <1>1, <1>2 DEF PastSessions, PastAnalyses, Guarded
    <3>2. /\ SessionAdmits(task[c].call) => SessionAdmits(task[c].call)'
          /\ AnalysisAdmits(task[c].call) => AnalysisAdmits(task[c].call)'
      BY <1>1, <1>2 DEF SessionAdmits, AnalysisAdmits, memory
    <3>3. GuardsHold(c)'
      BY <1>1, <1>2, <3>1, <3>2 DEF HandlerFits, GuardsHold
    <3>4. BatchFits(c)'
      <4>1. Fits(task[c].call, task[c].batch) /\ UNCHANGED <<sessions, analyses>>
        BY <1>1 DEF HandlerFits, BatchFits, memory
      <4>2. Fits(task[c].call, task[c].batch)'
        BY <1>2, <4>1 DEF Fits
      <4> QED  BY <1>2, <1>3, <4>2 DEF BatchFits
    <3>5. CallFits(c)'
      BY <1>1, <1>2 DEF HandlerFits, CallFits
    <3> QED  BY <3>3, <3>4, <3>5 DEF HandlerFits
  <2> QED  BY <2>1, <2>2, OthersFit
<1>7. QueueFits'
  <2>1. \A i \in 1..Len(queue) : queue[i].from # c
    BY <1>1 DEF QueueFits
  <2>2. \A i \in 1..Len(queue) : queue[i].from \in Handler
    <3>1. \A i \in 1..Len(queue) : queue[i] \in Envelope
      BY <1>3
    <3> QED  BY <3>1 DEF Envelope
  <2>3. phase # "down"
    BY <1>1 DEF QueueFits
  <2>4. \A i \in 1..(Len(queue) + 1) :
           i \in 1..Len(queue) \/ i = Len(queue) + 1
    BY <1>4
  <2>5. ASSUME NEW i \in 1..Len(queue')
        PROVE  LET d == queue'[i].from IN
               \/ /\ task'[d].pc = "reply"
                  /\ task'[d].reply = "none"
                  /\ task'[d].batch = queue'[i].batch
               \/ phase' = "stopping" /\ task'[d].pc = "idle"
    <3>1. CASE i \in 1..Len(queue)
      BY <1>1, <1>2, <1>4, <2>1, <2>2, <3>1 DEF QueueFits
    <3>2. CASE i = Len(queue) + 1
      BY <1>2, <1>3, <1>4, <3>2
    <3> QED  BY <1>4, <2>4, <3>1, <3>2
  <2>6. ASSUME NEW i \in 1..Len(queue'), NEW j \in 1..Len(queue'),
               queue'[i].from = queue'[j].from
        PROVE  i = j
    <3>1. CASE i \in 1..Len(queue) /\ j \in 1..Len(queue)
      BY <1>1, <1>4, <2>6, <3>1 DEF QueueFits
    <3>2. CASE i = Len(queue) + 1 \/ j = Len(queue) + 1
      BY <1>4, <2>1, <2>4, <2>6, <3>2
    <3> QED  BY <1>4, <2>4, <3>1, <3>2
  <2>7. phase' # "down"
    BY <1>1, <2>3
  <2> QED  BY <2>5, <2>6, <2>7 DEF QueueFits
<1> QED  BY <1>5, <1>6, <1>7 DEF ControlInv

(* The writer takes the first envelope, commits or rolls back, and replies.   *)
LEMMA WriterKeepsControl ==
    ASSUME ControlInv, WriterStep
    PROVE  ControlInv'
<1> DEFINE e == Head(queue)
           c == e.from
<1>1. /\ TypeOK /\ QueueFits
      /\ queue # <<>>
      /\ queue' = Tail(queue)
      /\ UNCHANGED <<phase, memory, holder, minted, bounds>>
  BY DEF ControlInv, WriterStep, Commit, RollBack
<1>2. /\ queue \in Seq(Envelope) /\ Len(queue) \in Nat \ {0}
      /\ e = queue[1] /\ e \in Envelope
      /\ queue' \in Seq(Envelope)
      /\ Len(queue') = Len(queue) - 1
      /\ \A i \in 1..Len(queue') : i + 1 \in 1..Len(queue) /\ queue'[i] = queue[i + 1]
  BY <1>1 DEF TypeOK
<1>3. c \in Handler /\ e.batch \in Batch
  BY <1>2 DEF Envelope
<1>4. PICK result \in {"ok", "error"} : Answer(c, result)
  BY DEF WriterStep, Commit, RollBack
<1>5. /\ task' \in [Handler -> Task]
      /\ task[c].pc = "reply" => task'[c].reply = result
      /\ task[c].pc # "reply" => task'[c] = task[c]
      /\ task'[c].pc = task[c].pc
      /\ task'[c].call = task[c].call
      /\ task'[c].batch = task[c].batch
      /\ \A d \in Handler \ {c} : task'[d] = task[d]
  BY <1>1, <1>3, <1>4, Answered
<1>6. TypeOK'
  <2>1. Ledger!LedgerTypeOK'
    <3>1. CASE Commit
      BY <1>1, <1>3, <3>1, ExecuteTypes DEF Commit, TypeOK
    <3>2. CASE RollBack
      BY <1>1, <3>2 DEF RollBack, TypeOK, store, Ledger!LedgerTypeOK
    <3> QED  BY <3>1, <3>2 DEF WriterStep
  <2>2. Len(queue') <= QueueItems
    BY <1>1, <1>2, NoneFacts DEF TypeOK
  <2> QED  BY <1>1, <1>2, <1>5, <2>1, <2>2 DEF TypeOK, memory, bounds
<1>7. ASSUME NEW d \in Handler PROVE HandlerFits(d)'
  <2>1. /\ task'[d].pc = task[d].pc
        /\ task'[d].call = task[d].call
        /\ task'[d].batch = task[d].batch
        /\ task'[d].pc # "reply" => task'[d].reply = task[d].reply
    BY <1>5
  <2>2. HandlerFits(d)
    BY DEF ControlInv
  <2>3. CallFits(d)'
    BY <2>1, <2>2 DEF HandlerFits, CallFits
  <2>4. GuardsHold(d)'
    BY <1>1, <2>1, <2>2
    DEF HandlerFits, GuardsHold, PastSessions, PastAnalyses, SessionAdmits,
        AnalysisAdmits, memory
  <2>5. BatchFits(d)'
    BY <1>1, <2>1, <2>2 DEF HandlerFits, BatchFits, Fits, memory
  <2> QED  BY <2>3, <2>4, <2>5 DEF HandlerFits
<1>8. QueueFits'
  <2>1. ASSUME NEW i \in 1..Len(queue')
        PROVE  /\ i + 1 \in 1..Len(queue)
               /\ queue'[i] = queue[i + 1]
               /\ queue[i + 1].from \in Handler
               /\ queue[i + 1].from # c
    <3>1. i + 1 \in 1..Len(queue) /\ queue'[i] = queue[i + 1] /\ i + 1 # 1
      BY <1>2
    <3>2. 1 \in 1..Len(queue)
      BY <1>2
    <3>3. queue[i + 1].from # c
      BY <1>1, <1>2, <3>1, <3>2 DEF QueueFits
    <3>4. queue[i + 1] \in Envelope
      BY <1>2, <3>1
    <3> QED  BY <3>1, <3>3, <3>4 DEF Envelope
  <2>2. ASSUME NEW i \in 1..Len(queue')
        PROVE  LET d == queue'[i].from IN
               \/ /\ task'[d].pc = "reply"
                  /\ task'[d].reply = "none"
                  /\ task'[d].batch = queue'[i].batch
               \/ phase' = "stopping" /\ task'[d].pc = "idle"
    BY <1>1, <1>5, <2>1 DEF QueueFits
  <2>3. ASSUME NEW i \in 1..Len(queue'), NEW j \in 1..Len(queue'),
               queue'[i].from = queue'[j].from
        PROVE  i = j
    <3>1. i + 1 = j + 1
      BY <1>1, <2>1, <2>3 DEF QueueFits
    <3> QED  BY <1>2, <3>1
  <2>4. phase' # "down"
    BY <1>1 DEF QueueFits
  <2> QED  BY <2>2, <2>3, <2>4 DEF QueueFits
<1> QED  BY <1>6, <1>7, <1>8 DEF ControlInv

(* A request arrives on an idle connection.                                   *)
LEMMA ArriveKeepsControl ==
    ASSUME ControlInv, NEW c \in Handler, Arrive(c)
    PROVE  ControlInv'
<1>1. /\ TypeOK /\ QueueFits
      /\ phase = "serving"
      /\ task[c].pc = "idle"
      /\ calls < MaxCalls
      /\ calls' = calls + 1
      /\ UNCHANGED <<store, phase, memory, holder, queue, minted, crashes>>
  BY DEF ControlInv, Arrive
<1>2. PICK call \in ClientCall : task' = [task EXCEPT ![c] = Begun(call)]
  BY DEF Arrive
<1>3. call \in Call /\ call.kind \in CommandKind
  BY DEF Call, ClientCall, CommandKind
<1>4. /\ Begun(call) \in Task
      /\ Begun(call).pc = FirstStop(call.kind)
      /\ Begun(call).call = call
      /\ Begun(call).reply = "none"
      /\ FirstStop(call.kind) \in {"ids", "analyses", "sessions"}
      /\ FirstStop(call.kind) = "ids" => call.kind = "start"
      /\ FirstStop(call.kind) = "analyses" =>
            call.kind \in {"append", "abort", "finalize"}
      /\ FirstStop(call.kind) = "sessions" => call.kind \in SessionKinds
  <2>1. /\ FirstStop(call.kind) \in {"ids", "analyses", "sessions"}
        /\ FirstStop(call.kind) = "ids" => call.kind = "start"
        /\ FirstStop(call.kind) = "analyses" =>
              call.kind \in {"append", "abort", "finalize"}
        /\ FirstStop(call.kind) = "sessions" => call.kind \in SessionKinds
    BY <1>3 DEF FirstStop, CommandKind, SessionKinds
  <2> QED  BY <1>3, <2>1 DEF Begun, Task, Pc
<1>5. /\ task'[c] = Begun(call)
      /\ task' \in [Handler -> Task]
      /\ \A d \in Handler \ {c} : task'[d] = task[d]
  BY <1>1, <1>2, <1>4 DEF TypeOK
<1>6. TypeOK'
  <2>1. Ledger!LedgerTypeOK'
    BY <1>1 DEF TypeOK, store, Ledger!LedgerTypeOK
  <2>2. calls' \in 0..MaxCalls
    BY <1>1, NoneFacts DEF TypeOK
  <2> QED  BY <1>1, <1>5, <2>1, <2>2 DEF TypeOK, memory
<1>7. \A d \in Handler : HandlerFits(d)'
  <2>1. Frame(c)
    BY <1>1, <1>5 DEF Frame, memory
  <2>2. HandlerFits(c)'
    BY <1>3, <1>4, <1>5
    DEF HandlerFits, CallFits, GuardsHold, BatchFits, PastSessions,
        PastAnalyses, Guarded, SessionKinds, AnalysisKinds
  <2> QED  BY <2>1, <2>2, OthersFit
<1>8. QueueFits'
  <2>1. \A i \in 1..Len(queue) : queue[i].from # c
    BY <1>1 DEF QueueFits
  <2>2. \A i \in 1..Len(queue) : queue[i].from \in Handler
    <3>1. \A i \in 1..Len(queue) : queue[i] \in Envelope
      BY <1>1 DEF TypeOK
    <3> QED  BY <3>1 DEF Envelope
  <2> QED  BY <1>1, <1>5, <2>1, <2>2 DEF QueueFits
<1> QED  BY <1>6, <1>7, <1>8 DEF ControlInv

(* A process that has just started, or is gone, has no task and no memory.    *)
LEMMA EmptyMemoryKeepsControl ==
    ASSUME TypeOK, EmptyMemory, phase' = "down", UNCHANGED <<store, minted, calls>>,
           crashes' \in 0..MaxCrashes
    PROVE  ControlInv'
<1>1. /\ sessions' = [s \in SessionId |-> AbsentSession]
      /\ analyses' = [x \in SnapshotId |-> None]
      /\ holder' = [m \in Mutex |-> None]
      /\ task' = [c \in Handler |-> IdleTask]
      /\ queue' = <<>>
  BY DEF EmptyMemory
<1>2. TypeOK'
  <2>1. Ledger!LedgerTypeOK'
    BY DEF TypeOK, store, Ledger!LedgerTypeOK
  <2>2. sessions' \in [SessionId -> SessionRecord]
    BY <1>1, NewSessionFields
  <2>3. queue' \in Seq(Envelope) /\ Len(queue') <= QueueItems
    BY <1>1, NoneFacts
  <2> QED  BY <1>1, <2>1, <2>2, <2>3, IdleTaskType DEF TypeOK
<1>3. \A c \in Handler : HandlerFits(c)'
  BY <1>1 DEF IdleTask, HandlerFits, CallFits, GuardsHold, BatchFits,
              PastSessions, PastAnalyses, Guarded
<1>4. QueueFits'
  BY <1>1 DEF QueueFits, IdleTask
<1> QED  BY <1>2, <1>3, <1>4 DEF ControlInv

(* The startup recovery ends what an earlier process left active.             *)
LEMMA RecoverGrows ==
    ASSUME Ledger!LedgerTypeOK, Ledger!Recover
    PROVE  Ledger!LedgerTypeOK' /\ Grown
<1> USE NoneFacts
<1>1. ASSUME NEW x \in SnapshotId
      PROVE  LET row == IF Ledger!Open(x)
                        THEN Ledger!Ended(snapshotRow[x], "recovered",
                                          snapshotRow[x].count)
                        ELSE snapshotRow[x]
             IN  /\ row \in Ledger!SnapshotRow \cup {None}
                 /\ snapshotRow[x] # None =>
                       /\ row # None
                       /\ snapshotRow[x].blocks <= row.blocks
  <2>1. snapshotRow[x] \in Ledger!SnapshotRow \cup {None}
    BY DEF Ledger!LedgerTypeOK
  <2>2. CASE Ledger!Open(x)
    <3>1. /\ snapshotRow[x] \in Ledger!SnapshotRow
          /\ snapshotRow[x].count \in Nat \cup {None}
          /\ snapshotRow[x].blocks \in Nat
      BY <2>1, <2>2 DEF Ledger!Open, Ledger!SnapshotRow
    <3>2. /\ Ledger!Ended(snapshotRow[x], "recovered", snapshotRow[x].count)
                \in Ledger!SnapshotRow
          /\ Ledger!Ended(snapshotRow[x], "recovered", snapshotRow[x].count).blocks
                = snapshotRow[x].blocks
      BY <3>1, EndedRow
    <3> QED  BY <2>2, <3>1, <3>2
  <2>3. CASE ~Ledger!Open(x)
    BY <2>1, <2>3 DEF Ledger!SnapshotRow
  <2> QED  BY <2>2, <2>3
<1>2. /\ snapshotRow' \in [SnapshotId -> Ledger!SnapshotRow \cup {None}]
      /\ \A x \in SnapshotId : snapshotRow[x] # None =>
            /\ snapshotRow'[x] # None
            /\ snapshotRow[x].blocks <= snapshotRow'[x].blocks
  BY <1>1 DEF Ledger!Recover
<1>3. /\ sessionRow' \in [SessionId -> {"none", "active", "closed", "stale"}]
      /\ \A s \in SessionId : sessionRow[s] # "none" => sessionRow'[s] # "none"
  BY DEF Ledger!Recover, Ledger!LedgerTypeOK
<1>4. \A r \in RequestId : Len(attempts[r]) \in Nat
  BY DEF Ledger!LedgerTypeOK
<1> QED  BY <1>2, <1>3, <1>4 DEF Ledger!Recover, Ledger!LedgerTypeOK, Grown

(* The process starts from the rows alone.                                    *)
LEMMA StartKeepsControl ==
    ASSUME ControlInv, Start
    PROVE  ControlInv'
<1>1. /\ TypeOK /\ QueueFits
      /\ phase = "down" /\ phase' = "serving"
      /\ Ledger!Recover
      /\ UNCHANGED <<memory, holder, task, queue, minted, bounds>>
  BY DEF ControlInv, Start
<1>2. TypeOK'
  <2>1. Ledger!LedgerTypeOK'
    BY <1>1, RecoverGrows DEF TypeOK
  <2> QED  BY <1>1, <2>1 DEF TypeOK, memory, bounds
<1>3. ASSUME NEW c \in Handler PROVE HandlerFits(c)'
  <2>1. task'[c].pc = "idle" /\ HandlerFits(c)
    BY <1>1 DEF QueueFits, ControlInv
  <2> QED
    BY <1>1, <2>1 DEF HandlerFits, CallFits, GuardsHold, BatchFits,
                      PastSessions, PastAnalyses, Guarded
<1>4. QueueFits'
  BY <1>1 DEF QueueFits
<1> QED  BY <1>2, <1>3, <1>4 DEF ControlInv

(* The steps that change no row and no map: the request to stop, and rest.    *)
LEMMA StandingStillKeepsControl ==
    ASSUME ControlInv,
           Stop \/ UNCHANGED vars
    PROVE  ControlInv'
<1>1. /\ TypeOK /\ QueueFits
      /\ phase' \in {"down", "serving", "stopping"}
      /\ phase' = phase \/ (phase = "serving" /\ phase' = "stopping")
      /\ UNCHANGED <<store, memory, holder, task, queue, minted, bounds>>
  BY DEF ControlInv, Stop, vars, TypeOK
<1>2. TypeOK'
  <2>1. Ledger!LedgerTypeOK'
    BY <1>1 DEF TypeOK, store, Ledger!LedgerTypeOK
  <2> QED  BY <1>1, <2>1 DEF TypeOK, memory, bounds
<1>3. ASSUME NEW c \in Handler PROVE HandlerFits(c)'
  <2>1. CallFits(c) /\ GuardsHold(c) /\ BatchFits(c)
    BY DEF ControlInv, HandlerFits
  <2>2. UNCHANGED <<sessions, analyses, holder, task>>
    BY <1>1 DEF memory
  <2>3. CallFits(c)'
    BY <2>1, <2>2 DEF CallFits
  <2>4. GuardsHold(c)'
    BY <2>1, <2>2
    DEF GuardsHold, PastSessions, PastAnalyses, SessionAdmits, AnalysisAdmits
  <2>5. BatchFits(c)'
    BY <2>1, <2>2 DEF BatchFits, Fits
  <2> QED  BY <2>3, <2>4, <2>5 DEF HandlerFits
<1>4. QueueFits'
  BY <1>1 DEF QueueFits
<1> QED  BY <1>2, <1>3, <1>4 DEF ControlInv

(* A stop aborts a task, and leaves the envelope it had sent.                 *)
LEMMA AbortKeepsControl ==
    ASSUME ControlInv, NEW c \in Handler, AbortTask(c)
    PROVE  ControlInv'
<1>1. /\ TypeOK /\ QueueFits
      /\ phase = "stopping" /\ task[c].pc # "idle"
      /\ Return(c)
      /\ UNCHANGED <<store, phase, memory, queue, minted, bounds>>
  BY DEF ControlInv, AbortTask
<1>2. /\ task' \in [Handler -> Task]
      /\ task'[c] = IdleTask
      /\ \A d \in Handler \ {c} : task'[d] = task[d]
      /\ holder' \in [Mutex -> Handler \cup {None}]
      /\ \A d \in Handler \ {c}, m \in Mutex :
            holder[m] = d => holder'[m] = d
  BY <1>1, Returned
<1>3. TypeOK'
  <2>1. Ledger!LedgerTypeOK'
    BY <1>1 DEF TypeOK, store, Ledger!LedgerTypeOK
  <2> QED  BY <1>1, <1>2, <2>1 DEF TypeOK, memory, bounds
<1>4. \A d \in Handler : HandlerFits(d)'
  <2>1. Frame(c)
    BY <1>1, <1>2 DEF Frame, memory
  <2>2. HandlerFits(c)'
    BY <1>2 DEF IdleTask, HandlerFits, CallFits, GuardsHold, BatchFits,
                PastSessions, PastAnalyses, Guarded
  <2> QED  BY <2>1, <2>2, OthersFit
<1>5. QueueFits'
  <2>1. \A i \in 1..Len(queue) : queue[i].from \in Handler
    <3>1. \A i \in 1..Len(queue) : queue[i] \in Envelope
      BY <1>1 DEF TypeOK
    <3> QED  BY <3>1 DEF Envelope
  <2> QED  BY <1>1, <1>2, <2>1 DEF QueueFits, IdleTask
<1> QED  BY <1>3, <1>4, <1>5 DEF ControlInv

(* Every step of a handler keeps ControlInv.                                  *)
LEMMA HandlerStepKeepsControl ==
    ASSUME ControlInv, NEW c \in Handler, HandlerStep(c)
    PROVE  ControlInv'
<1>1. CASE PrepareBatch(c)
  <2>1. Waiting(c, "ids")
    BY <1>1 DEF PrepareBatch
  <2> QED  BY <1>1, <2>1, PreparedFits, PrepareKeepsControl
<1> QED
  BY <1>1, LockKeepsControl, RefusalKeepsControl, SendKeepsControl,
     PublishSessionKeepsControl, OperationCreatedKeepsControl,
     ObservationCreatedKeepsControl, AttemptPersistedKeepsControl,
     SessionFinishedKeepsControl, AnalysisStepKeepsControl
  DEF HandlerStep

(* The first start of the daemon.                                             *)
LEMMA InitControl == Init => ControlInv
<1> SUFFICES ASSUME Init PROVE ControlInv
  OBVIOUS
<1>1. TypeOK
  <2>1. Ledger!LedgerTypeOK
    BY DEF Init, Ledger!LedgerInit, Ledger!LedgerTypeOK
  <2>2. sessions \in [SessionId -> SessionRecord]
    BY NewSessionFields DEF Init
  <2>3. queue \in Seq(Envelope) /\ Len(queue) <= QueueItems
    BY NoneFacts DEF Init
  <2>4. calls \in 0..MaxCalls /\ crashes \in 0..MaxCrashes
    BY NoneFacts DEF Init
  <2> QED  BY <2>1, <2>2, <2>3, <2>4, IdleTaskType DEF Init, TypeOK
<1>2. \A c \in Handler : HandlerFits(c)
  BY DEF Init, IdleTask, HandlerFits, CallFits, GuardsHold, BatchFits,
         PastSessions, PastAnalyses, Guarded
<1>3. QueueFits
  BY DEF Init, QueueFits, IdleTask
<1> QED  BY <1>1, <1>2, <1>3 DEF ControlInv

(* Every step of the specification keeps ControlInv.                          *)
LEMMA NextKeepsControl == ControlInv /\ [Next]_vars => ControlInv'
<1> SUFFICES ASSUME ControlInv, [Next]_vars PROVE ControlInv'
  OBVIOUS
<1>1. CASE \E c \in Handler : Arrive(c) \/ HandlerStep(c)
  BY <1>1, ArriveKeepsControl, HandlerStepKeepsControl
<1>2. CASE WriterStep
  BY <1>2, WriterKeepsControl
<1>3. CASE Start
  BY <1>3, StartKeepsControl
<1>4. CASE Crash \/ Exit
  <2>1. /\ TypeOK /\ EmptyMemory /\ phase' = "down"
        /\ UNCHANGED <<store, minted, calls>>
    BY <1>4 DEF Crash, Exit, ControlInv, bounds
  <2>2. crashes' \in 0..MaxCrashes
    BY <1>4, <2>1, NoneFacts DEF Crash, Exit, TypeOK, bounds
  <2> QED  BY <2>1, <2>2, EmptyMemoryKeepsControl
<1>5. CASE Rest \/ Stop \/ UNCHANGED vars
  BY <1>5, StandingStillKeepsControl DEF Rest
<1>6. CASE \E c \in Handler : AbortTask(c)
  BY <1>6, AbortKeepsControl
<1> QED
  BY <1>1, <1>2, <1>3, <1>4, <1>5, <1>6 DEF Next, ServingNext, StopStep

(* Types, and the agreement of tasks, guards, batches and envelopes, hold of  *)
(* every behaviour, stops and crashes included.                               *)
THEOREM ControlIsInvariant == Spec => []ControlInv
BY InitControl, NextKeepsControl, PTL DEF Spec

(* The daemon's memory, its tasks and the SQLite rows keep their types: no    *)
(* handler, writer step, recovery, stop or crash leaves anything else.        *)
THEOREM TypesHold == Spec => []TypeOK
<1>1. ControlInv => TypeOK
  BY DEF ControlInv
<1> QED  BY <1>1, ControlIsInvariant, PTL

-----------------------------------------------------------------------------
(* Memory never runs ahead of the database                                    *)

(* The two halves of MemoryIsDurable, for one session and for one analysis.   *)
SessionDurable(s) ==
    sessions[s].state # "absent" =>
       /\ sessionRow[s] # "none"
       /\ \A o \in OperationId :
             /\ sessions[s].operations[o] # None => Ledger!InSession(o, s)
             /\ sessions[s].requests[o] # None =>
                   /\ requestRow[sessions[s].requests[o]] = o
                   /\ sessions[s].ordinals[o]
                         <= Len(attempts[sessions[s].requests[o]])

AnalysisDurable(x) ==
    analyses[x] # None =>
       snapshotRow[x] # None /\ analyses[x].ordinal <= snapshotRow[x].blocks

RequestsKnown(s) ==
    sessions[s].state # "absent" =>
       \A o \in OperationId :
          IF sessions[s].requests[o] = None
          THEN sessions[s].ordinals[o] = 0
          ELSE sessions[s].operations[o] # None

(* DurableInv, session by session and analysis by analysis.                   *)
LEMMA DurableParts ==
    DurableInv <=> /\ CommittedLanded
                   /\ \A s \in SessionId : RequestsKnown(s) /\ SessionDurable(s)
                   /\ \A x \in SnapshotId : AnalysisDurable(x)
BY DEF DurableInv, RequestsAreKnown, MemoryIsDurable, RequestsKnown,
       SessionDurable, AnalysisDurable

(* A step that commits nothing takes no row back.                             *)
LEMMA StoreKept ==
    ASSUME TypeOK, UNCHANGED store
    PROVE  Grown
<1>1. \A r \in RequestId : Len(attempts[r]) \in Nat
  BY DEF TypeOK, Ledger!LedgerTypeOK
<1>2. \A x \in SnapshotId : snapshotRow[x] # None => snapshotRow[x].blocks \in Nat
  BY DEF TypeOK, Ledger!LedgerTypeOK, Ledger!SnapshotRow
<1> QED  BY <1>1, <1>2 DEF store, Grown

(* What has landed stays, and so does what memory knows of the rows.          *)
LEMMA LandedStays ==
    ASSUME TypeOK, TypeOK', Grown, NEW b \in Batch, Landed(b)
    PROVE  Landed(b)'
<1> USE BatchFields, NoneFacts
<1>1. \A r \in RequestId : Len(attempts[r]) \in Nat /\ Len(attempts'[r]) \in Nat
  BY DEF TypeOK, Ledger!LedgerTypeOK
<1>2. \A x \in SnapshotId :
         /\ snapshotRow[x] # None => snapshotRow[x].blocks \in Nat
         /\ snapshotRow'[x] # None => snapshotRow'[x].blocks \in Nat
  BY DEF TypeOK, Ledger!LedgerTypeOK, Ledger!SnapshotRow
<1>3. CASE b.type = "session"
  BY <1>3 DEF Landed, Grown
<1>4. CASE b.type = "operation"
  BY <1>4 DEF Landed, Grown, Ledger!InSession
<1>5. CASE b.type = "attempt"
  BY <1>1, <1>5 DEF Landed, Grown
<1>6. CASE b.type = "snapshot"
  BY <1>6 DEF Landed, Grown
<1>7. CASE b.type = "blocks"
  BY <1>2, <1>7 DEF Landed, Grown
<1>8. CASE b.type \in {"event", "finish", "outcome"}
  BY <1>8 DEF Landed
<1> QED  BY <1>3, <1>4, <1>5, <1>6, <1>7, <1>8

(* A record that does not change stays durable while rows only grow.          *)
LEMMA SessionStays ==
    ASSUME TypeOK, TypeOK', Grown, NEW s \in SessionId,
           RequestsKnown(s), SessionDurable(s), sessions'[s] = sessions[s]
    PROVE  RequestsKnown(s)' /\ SessionDurable(s)'
<1> USE NoneFacts
<1>1. \A r \in RequestId : Len(attempts[r]) \in Nat /\ Len(attempts'[r]) \in Nat
  BY DEF TypeOK, Ledger!LedgerTypeOK
<1>2. RequestsKnown(s)'
  BY DEF RequestsKnown
<1>3. \A o \in OperationId : /\ sessions[s].requests[o] \in RequestId \cup {None}
                             /\ sessions[s].ordinals[o] \in Nat
  BY DEF TypeOK, SessionRecord
<1>4. SessionDurable(s)'
  <2> SUFFICES ASSUME sessions[s].state # "absent"
               PROVE  /\ sessionRow'[s] # "none"
                      /\ \A o \in OperationId :
                            /\ sessions[s].operations[o] # None =>
                                  Ledger!InSession(o, s)'
                            /\ sessions[s].requests[o] # None =>
                                  /\ requestRow'[sessions[s].requests[o]] = o
                                  /\ sessions[s].ordinals[o]
                                       <= Len(attempts'[sessions[s].requests[o]])
    BY DEF SessionDurable
  <2>1. sessionRow'[s] # "none"
    BY DEF SessionDurable, Grown
  <2>2. ASSUME NEW o \in OperationId, sessions[s].operations[o] # None
        PROVE  Ledger!InSession(o, s)'
    BY <2>2 DEF SessionDurable, Grown, Ledger!InSession
  <2>3. ASSUME NEW o \in OperationId, sessions[s].requests[o] # None
        PROVE  /\ requestRow'[sessions[s].requests[o]] = o
               /\ sessions[s].ordinals[o] <= Len(attempts'[sessions[s].requests[o]])
    <3>1. /\ sessions[s].requests[o] \in RequestId
          /\ requestRow[sessions[s].requests[o]] = o
          /\ sessions[s].ordinals[o] <= Len(attempts[sessions[s].requests[o]])
      BY <1>3, <2>3 DEF SessionDurable
    <3>2. /\ requestRow'[sessions[s].requests[o]] = o
          /\ Len(attempts[sessions[s].requests[o]])
                <= Len(attempts'[sessions[s].requests[o]])
      BY <3>1 DEF Grown
    <3> QED  BY <1>1, <1>3, <3>1, <3>2
  <2> QED  BY <2>1, <2>2, <2>3
<1> QED  BY <1>2, <1>4

(* An entry that does not change, or goes, stays durable.                     *)
LEMMA AnalysisStays ==
    ASSUME TypeOK, TypeOK', Grown, NEW x \in SnapshotId,
           AnalysisDurable(x), analyses'[x] \in {analyses[x], None}
    PROVE  AnalysisDurable(x)'
<1>1. /\ analyses[x] # None => analyses[x].ordinal \in Nat
      /\ snapshotRow[x] # None => snapshotRow[x].blocks \in Nat
      /\ snapshotRow'[x] # None => snapshotRow'[x].blocks \in Nat
  BY DEF TypeOK, ActiveAnalysis, Ledger!LedgerTypeOK, Ledger!SnapshotRow
<1> QED  BY <1>1 DEF AnalysisDurable, Grown

(* A step that commits nothing of its own leaves what has landed.             *)
LEMMA CommittedStays ==
    ASSUME ControlInv, TypeOK', Grown, CommittedLanded, NEW c \in Handler,
           \A d \in Handler \ {c} : task'[d] = task[d],
           ~Catching(c)'
    PROVE  CommittedLanded'
<1> SUFFICES ASSUME NEW d \in Handler \ {c}, Catching(d)'
             PROVE  Landed(task[d].batch)'
  BY DEF CommittedLanded
<1>1. /\ task'[d] = task[d]
      /\ Catching(d)
      /\ HandlerFits(d)
      /\ TypeOK
  BY DEF Catching, ControlInv
<1>2. PICK b \in Batch : b = task[d].batch
  BY <1>1 DEF Catching, HandlerFits, BatchFits
<1>3. Landed(b)
  BY <1>1, <1>2 DEF CommittedLanded
<1>4. Landed(b)'
  BY <1>1, <1>3, LandedStays
<1> QED  BY <1>1, <1>2, <1>4 DEF Landed

(* A step that changes no map keeps what memory knows of the rows.            *)
LEMMA MemoryStays ==
    ASSUME TypeOK, TypeOK', Grown, UNCHANGED memory,
           \A s \in SessionId : RequestsKnown(s) /\ SessionDurable(s),
           \A x \in SnapshotId : AnalysisDurable(x)
    PROVE  /\ \A s \in SessionId : RequestsKnown(s)' /\ SessionDurable(s)'
           /\ \A x \in SnapshotId : AnalysisDurable(x)'
BY SessionStays, AnalysisStays DEF memory

(* A committed batch has landed.  The guards of its handler are what makes a  *)
(* retry find its request and its attempts.                                   *)
LEMMA CommitLands ==
    ASSUME ControlInv, DurableInv, NEW c \in Handler, task[c].pc = "reply",
           NEW b \in Batch, b = task[c].batch, Execute(b)
    PROVE  Landed(b)'
<1> USE BatchFields, NoneFacts
<1> DEFINE call == task[c].call
<1>1. /\ TypeOK
      /\ call \in Call
      /\ Fits(call, b)
      /\ call.kind \in SessionKinds => SessionAdmits(call)
  BY WaitingFacts
<1>2. CASE InsertSession(b)
  BY <1>1, <1>2 DEF InsertSession, Landed, TypeOK, Ledger!LedgerTypeOK
<1>3. CASE InsertOperation(b)
  <2> DEFINE row == [session |-> b.session, kind |-> b.kind, parent |-> b.parent,
                     status |-> "started"]
  <2>1. row \in Ledger!OperationRow /\ row.session = b.session
    BY <1>3 DEF InsertOperation, Ledger!OperationRow, Ledger!Kind
  <2> HIDE DEF row
  <2>2. operationRow' = [operationRow EXCEPT ![b.operation] = row]
    BY <1>3 DEF InsertOperation, row
  <2>3. operationRow'[b.operation] = row
    BY <1>1, <1>3, <2>2 DEF InsertOperation, TypeOK, Ledger!LedgerTypeOK
  <2>4. Ledger!InSession(b.operation, b.session)'
    BY <2>1, <2>3 DEF Ledger!InSession
  <2> QED  BY <1>3, <2>4 DEF InsertOperation, Landed
<1>4. CASE InsertAttempt(b)
  <2> DEFINE s == call.session
             o == call.operation
             known == sessions[s].requests[o]
  <2>1. b.type = "attempt" /\ call.kind = "persist"
    <3>1. b.type = "attempt"
      BY <1>4 DEF InsertAttempt
    <3> QED  BY <1>1, <3>1, CallFields DEF Fits, CommandKind
  <2>2. /\ b.operation = o
        /\ b.ordinal = sessions[s].ordinals[o]
        /\ b.retry = (known # None)
        /\ known # None => b.request = known
    BY <1>1, <2>1 DEF Fits
  <2>3. /\ s \in SessionId /\ o \in OperationId
        /\ b.request \in RequestId /\ b.ordinal \in Nat /\ b.retry \in BOOLEAN
    BY <1>1, <2>1, CallFields DEF SessionKinds
  <2>4. sessions[s].state # "absent" /\ RequestsKnown(s) /\ SessionDurable(s)
    BY <1>1, <2>1, <2>3, DurableParts DEF SessionAdmits, SessionKinds
  <2>5. Len(attempts'[b.request]) = Len(attempts[b.request]) + 1
           /\ Len(attempts[b.request]) \in Nat
    BY <1>1, <1>4, <2>3 DEF InsertAttempt, TypeOK, Ledger!LedgerTypeOK
  <2>6. /\ requestRow'[b.request] = b.operation
        /\ b.ordinal <= Len(attempts[b.request])
    <3>1. CASE known # None
      <4>1. requestRow' = requestRow
        BY <1>4, <2>2, <3>1 DEF InsertAttempt
      <4>2. requestRow[known] = o /\ sessions[s].ordinals[o] <= Len(attempts[known])
        BY <2>3, <2>4, <3>1 DEF SessionDurable
      <4> QED  BY <2>2, <3>1, <4>1, <4>2
    <3>2. CASE known = None
      <4>1. b.ordinal = 0
        BY <2>2, <2>3, <2>4, <3>2 DEF RequestsKnown
      <4>2. requestRow' = [requestRow EXCEPT ![b.request] = b.operation]
        BY <1>4, <2>2, <3>2 DEF InsertAttempt
      <4>3. requestRow'[b.request] = b.operation
        BY <1>1, <2>3, <4>2 DEF TypeOK, Ledger!LedgerTypeOK
      <4> QED  BY <2>5, <4>1, <4>3
    <3> QED  BY <3>1, <3>2
  <2> QED  BY <2>1, <2>3, <2>5, <2>6 DEF Landed
<1>5. CASE InsertSnapshot(b)
  <2>1. [session |-> b.session, request |-> b.request, state |-> "open",
         blocks |-> 0, count |-> None, terminals |-> 0] \in Ledger!SnapshotRow
    BY <1>5 DEF InsertSnapshot, Ledger!SnapshotRow
  <2> QED
    BY <1>1, <1>5, <2>1 DEF InsertSnapshot, Landed, TypeOK, Ledger!LedgerTypeOK
<1>6. CASE InsertBlocks(b)
  <2>1. snapshotRow[b.snapshot] \in Ledger!SnapshotRow
    BY <1>1, <1>6 DEF InsertBlocks, TypeOK, Ledger!LedgerTypeOK
  <2>2. [snapshotRow[b.snapshot] EXCEPT !.blocks = b.first + b.blocks]
           \in Ledger!SnapshotRow
    BY <1>6, <2>1 DEF InsertBlocks, Ledger!SnapshotRow
  <2>3. /\ snapshotRow'[b.snapshot] # None
        /\ snapshotRow'[b.snapshot].blocks = b.first + b.blocks
    BY <1>1, <1>6, <2>1, <2>2
    DEF InsertBlocks, TypeOK, Ledger!LedgerTypeOK, Ledger!SnapshotRow
  <2> QED  BY <1>6, <2>3 DEF InsertBlocks, Landed
<1>7. CASE InsertEvent(b) \/ UpdateFinish(b) \/ UpdateOutcome(b)
  BY <1>7 DEF InsertEvent, UpdateFinish, UpdateOutcome, Landed
<1> QED
  BY <1>2, <1>3, <1>4, <1>5, <1>6, <1>7 DEF Execute

(* The writer changes rows only, and lands what it commits.                   *)
LEMMA WriterKeepsDurable ==
    ASSUME ControlInv, DurableInv, WriterStep, ControlInv'
    PROVE  DurableInv'
<1>1. /\ TypeOK /\ TypeOK' /\ QueueFits
      /\ queue # <<>>
      /\ UNCHANGED memory
  BY DEF ControlInv, WriterStep, Commit, RollBack
<1>2. /\ queue \in Seq(Envelope) /\ 1 \in 1..Len(queue)
      /\ Head(queue) = queue[1] /\ queue[1] \in Envelope
  BY <1>1 DEF TypeOK
<1>3. PICK b \in Batch : b = Head(queue).batch
  BY <1>2 DEF Envelope
<1>4. PICK c \in Handler : c = Head(queue).from
  BY <1>2 DEF Envelope
<1>5. PICK result \in {"ok", "error"} :
         Answer(c, result) /\ (result = "ok" => Execute(b))
                          /\ (result = "error" => UNCHANGED store)
  BY <1>3, <1>4 DEF WriterStep, Commit, RollBack
<1>6. /\ task[c].pc = "reply" => task'[c].reply = result
      /\ task[c].pc # "reply" => task'[c] = task[c]
      /\ task'[c].pc = task[c].pc
      /\ task'[c].batch = task[c].batch
      /\ \A d \in Handler \ {c} : task'[d] = task[d]
  BY <1>1, <1>4, <1>5, Answered
<1>7. Grown
  BY <1>1, <1>5, ExecuteGrows, StoreKept DEF TypeOK
<1>8. CommittedLanded'
  <2>1. CASE Catching(c)'
    <3>1. task[c].pc = "reply" /\ result = "ok" /\ b = task[c].batch
      <4>1. task'[c].pc = "reply" /\ task'[c].reply = "ok"
        BY <2>1 DEF Catching
      <4>2. task[c].pc = "reply" /\ result = "ok"
        BY <1>6, <4>1
      <4>3. task[c].batch = queue[1].batch
        BY <1>1, <1>2, <1>4, <4>2 DEF QueueFits
      <4> QED  BY <1>2, <1>3, <4>2, <4>3
    <3>2. Landed(b)'
      BY <1>4, <1>5, <3>1, CommitLands
    <3>3. ASSUME NEW d \in Handler, Catching(d)'
          PROVE  Landed(task[d].batch)'
      <4>1. CASE d = c
        BY <1>6, <3>1, <3>2, <4>1 DEF Landed
      <4>2. CASE d # c
        <5>1. task'[d] = task[d] /\ Catching(d) /\ HandlerFits(d)
          BY <1>6, <3>3, <4>2 DEF Catching, ControlInv
        <5>2. PICK e \in Batch : e = task[d].batch
          BY <5>1 DEF Catching, HandlerFits, BatchFits
        <5>3. Landed(e)
          BY <5>1, <5>2 DEF DurableInv, CommittedLanded
        <5>4. Landed(e)'
          BY <1>1, <1>7, <5>3, LandedStays
        <5> QED  BY <5>1, <5>2, <5>4 DEF Landed
      <4> QED  BY <4>1, <4>2
    <3> QED  BY <3>3 DEF CommittedLanded
  <2>2. CASE ~Catching(c)'
    BY <1>1, <1>4, <1>6, <1>7, <2>2, CommittedStays DEF DurableInv
  <2> QED  BY <2>1, <2>2
<1>9. /\ \A s \in SessionId : RequestsKnown(s)' /\ SessionDurable(s)'
      /\ \A x \in SnapshotId : AnalysisDurable(x)'
  BY <1>1, <1>7, DurableParts, MemoryStays
<1> QED
  BY <1>8, <1>9
  DEF DurableInv, RequestsAreKnown, MemoryIsDurable, RequestsKnown,
      SessionDurable, AnalysisDurable

(* The handler steps that leave memory alone, and the abort of a task.        *)
LEMMA QuietKeepsDurable ==
    ASSUME ControlInv, DurableInv, ControlInv', NEW c \in Handler,
           UNCHANGED store, UNCHANGED memory,
           \A d \in Handler \ {c} : task'[d] = task[d],
           ~Catching(c)'
    PROVE  DurableInv'
<1>1. TypeOK /\ TypeOK' /\ Grown
  BY StoreKept DEF ControlInv
<1>2. CommittedLanded'
  BY <1>1, CommittedStays DEF DurableInv
<1>3. /\ \A s \in SessionId : RequestsKnown(s)' /\ SessionDurable(s)'
      /\ \A x \in SnapshotId : AnalysisDurable(x)'
  BY <1>1, DurableParts, MemoryStays
<1> QED
  BY <1>2, <1>3
  DEF DurableInv, RequestsAreKnown, MemoryIsDurable, RequestsKnown,
      SessionDurable, AnalysisDurable

(* The steps of a handler that change no row and no map.                      *)
LEMMA QuietSteps ==
    ASSUME ControlInv, NEW c \in Handler,
           \/ Arrive(c) \/ LockSessions(c) \/ RefuseSession(c)
           \/ LockAnalyses(c) \/ RefuseAnalysis(c) \/ PrepareBatch(c)
           \/ Send(c) \/ ReplyError(c) \/ EventRecorded(c) \/ AbortTask(c)
    PROVE  /\ UNCHANGED store /\ UNCHANGED memory
           /\ \A d \in Handler \ {c} : task'[d] = task[d]
           /\ ~Catching(c)'
<1>1. TypeOK /\ HandlerFits(c)
  BY DEF ControlInv
<1>2. CASE Arrive(c)
  <2>1. PICK call \in ClientCall : task' = [task EXCEPT ![c] = Begun(call)]
    BY <1>2 DEF Arrive
  <2>2. task'[c] = Begun(call) /\ \A d \in Handler \ {c} : task'[d] = task[d]
    BY <1>1, <2>1 DEF TypeOK
  <2> QED  BY <1>2, <2>2 DEF Arrive, Begun, Catching
<1>3. CASE LockSessions(c) \/ LockAnalyses(c) \/ Send(c)
  <2>1. task[c].reply = "none"
    BY <1>1, <1>3
    DEF LockSessions, LockAnalyses, Send, Waiting, HandlerFits, CallFits
  <2>2. PICK pc \in Pc : Goto(c, pc)
    BY <1>3 DEF LockSessions, LockAnalyses, Send, Pc
  <2>3. /\ task'[c].reply = "none"
        /\ \A d \in Handler \ {c} : task'[d] = task[d]
    BY <1>1, <2>1, <2>2, Moved
  <2> QED  BY <1>3, <2>3 DEF LockSessions, LockAnalyses, Send, Catching
<1>4. CASE PrepareBatch(c)
  <2>1. PICK b \in Batch, new \in SUBSET (SessionId \cup OperationId
                                     \cup RequestId \cup SnapshotId) :
           Prepare(c, b, new)
    BY <1>4, PreparedFits
  <2>2. /\ task'[c].pc = "send"
        /\ \A d \in Handler \ {c} : task'[d] = task[d]
    BY <1>1, <2>1, Prepared
  <2> QED  BY <2>1, <2>2 DEF Prepare, Catching
<1>5. CASE \/ RefuseSession(c) \/ RefuseAnalysis(c) \/ ReplyError(c)
           \/ EventRecorded(c) \/ AbortTask(c)
  <2>1. Return(c) /\ UNCHANGED store /\ UNCHANGED memory
    BY <1>5 DEF RefuseSession, RefuseAnalysis, ReplyError, EventRecorded, AbortTask
  <2>2. task'[c] = IdleTask /\ \A d \in Handler \ {c} : task'[d] = task[d]
    BY <1>1, <2>1, Returned
  <2> QED  BY <2>1, <2>2 DEF IdleTask, Catching
<1> QED  BY <1>2, <1>3, <1>4, <1>5

(* The handler steps that write memory: each writes what has landed.          *)
LEMMA UpdateStep ==
    ASSUME ControlInv, NEW c \in Handler,
           \/ PublishSession(c) \/ OperationCreated(c) \/ ObservationCreated(c)
           \/ AttemptPersisted(c) \/ SessionFinished(c) \/ AnalysisBegun(c)
           \/ BlocksAppended(c) \/ AnalysisEnded(c)
    PROVE  /\ Catching(c)
           /\ UNCHANGED <<store, phase, queue, minted, bounds>>
           /\ \A d \in Handler \ {c} : task'[d] = task[d]
           /\ ~Catching(c)'
<1>1. TypeOK
  BY DEF ControlInv
<1>2. /\ Catching(c)
      /\ UNCHANGED <<store, phase, queue, minted, bounds>>
  BY DEF PublishSession, OperationCreated, ObservationCreated, AttemptPersisted,
         SessionFinished, AnalysisBegun, BlocksAppended, AnalysisEnded,
         Replied, Catching
<1>3. CASE PublishSession(c) \/ ObservationCreated(c)
  <2>1. PICK call : task' = [task EXCEPT ![c] = Restarted(call)]
    <3>1. PublishSession(c) =>
             task' = [task EXCEPT ![c] = Restarted(
                [kind |-> "root", session |-> task[c].batch.session])]
      BY DEF PublishSession, Restarted
    <3>2. ObservationCreated(c) =>
             task' = [task EXCEPT ![c] = Restarted(
                [kind |-> "persist", session |-> task[c].call.session,
                 operation |-> task[c].batch.operation,
                 terminal |-> task[c].call.terminal])]
      BY DEF ObservationCreated, Restarted
    <3> QED  BY <1>3, <3>1, <3>2
  <2>2. /\ task'[c].pc = "sessions"
        /\ \A d \in Handler \ {c} : task'[d] = task[d]
    BY <1>1, <2>1 DEF TypeOK, Restarted
  <2> QED  BY <1>2, <2>2 DEF Catching
<1>4. CASE \/ OperationCreated(c) \/ AttemptPersisted(c) \/ SessionFinished(c)
           \/ AnalysisBegun(c) \/ BlocksAppended(c) \/ AnalysisEnded(c)
  <2>1. Return(c)
    BY <1>4 DEF OperationCreated, AttemptPersisted, SessionFinished,
                AnalysisBegun, BlocksAppended, AnalysisEnded
  <2>2. task'[c] = IdleTask /\ \A d \in Handler \ {c} : task'[d] = task[d]
    BY <1>1, <2>1, Returned
  <2> QED  BY <1>2, <2>2 DEF IdleTask, Catching
<1> QED  BY <1>3, <1>4

(* A record is updated from a batch that has landed.                          *)
LEMMA SessionUpdateKeepsDurable ==
    ASSUME ControlInv, DurableInv, TypeOK', Grown, NEW c \in Handler,
           \/ PublishSession(c) \/ OperationCreated(c) \/ ObservationCreated(c)
           \/ AttemptPersisted(c) \/ SessionFinished(c),
           NEW s \in SessionId
    PROVE  RequestsKnown(s)' /\ SessionDurable(s)'
<1> USE NoneFacts
<1>1. /\ TypeOK
      /\ task[c].pc = "reply"
      /\ RequestsKnown(s) /\ SessionDurable(s)
      /\ UNCHANGED store
  <2>1. Catching(c) /\ UNCHANGED store
    BY UpdateStep
  <2> QED  BY <2>1, DurableParts DEF ControlInv, Catching
<1>2. PICK b \in Batch : b = task[c].batch
  BY <1>1, WaitingFacts
<1>3. /\ task[c].call \in Call
      /\ Fits(task[c].call, b)
      /\ task[c].call.kind \in SessionKinds => SessionAdmits(task[c].call)
      /\ Landed(b)
  <2>1. Catching(c)
    BY UpdateStep
  <2> QED  BY <1>1, <1>2, <2>1, WaitingFacts DEF DurableInv, CommittedLanded
<1>4. sessions \in [SessionId -> SessionRecord]
  BY <1>1 DEF TypeOK
<1>5. CASE sessions'[s] = sessions[s]
  BY <1>1, <1>5, SessionStays
<1>6. CASE PublishSession(c)
  <2>1. /\ b.type = "session"
        /\ sessions' = [sessions EXCEPT ![b.session] = NewSession]
    BY <1>2, <1>3, <1>6 DEF PublishSession, Replied, Fits, NewSession
  <2>2. b.session \in SessionId
    BY <2>1, BatchFields
  <2>3. CASE s = b.session
    <3>1. sessions'[s] = NewSession
      BY <1>4, <2>1, <2>2, <2>3
    <3>2. sessionRow'[s] # "none"
      BY <1>1, <1>3, <2>1, <2>3 DEF Landed, store
    <3> QED  BY <3>1, <3>2, NewSessionFields DEF RequestsKnown, SessionDurable
  <2>4. CASE s # b.session
    BY <1>4, <1>5, <2>1, <2>2, <2>4
  <2> QED  BY <2>3, <2>4
<1>7. CASE OperationCreated(c) \/ ObservationCreated(c)
  <2> DEFINE o == b.operation
  <2>1. /\ b.type = "operation"
        /\ sessions' = WithOperation(sessions, b.session, b.operation, b.kind)
    BY <1>2, <1>3, <1>7
    DEF OperationCreated, ObservationCreated, Replied, Fits, RememberOperation,
        WithOperation
  <2>2. /\ b.session \in SessionId /\ o \in OperationId
        /\ b.kind \in {"agent", "inference"}
    BY <2>1, BatchFields
  <2>3. /\ \A t \in SessionId \ {b.session} : sessions'[t] = sessions[t]
        /\ sessions'[b.session].state = sessions[b.session].state
        /\ sessions'[b.session].requests = sessions[b.session].requests
        /\ sessions'[b.session].ordinals = sessions[b.session].ordinals
        /\ sessions'[b.session].operations[o] = b.kind
        /\ \A p \in OperationId \ {o} :
              sessions'[b.session].operations[p] = sessions[b.session].operations[p]
    BY <1>4, <2>1, <2>2, WithOperationFields
  <2>4. CASE s = b.session
    <3>1. Ledger!InSession(o, s)
      BY <1>3, <2>1, <2>4 DEF Landed
    <3>2. RequestsKnown(s)'
      BY <1>1, <2>2, <2>3, <2>4 DEF RequestsKnown
    <3>3. SessionDurable(s)'
      BY <1>1, <2>3, <2>4, <3>1
      DEF SessionDurable, store, Ledger!InSession
    <3> QED  BY <3>2, <3>3
  <2>5. CASE s # b.session
    BY <1>5, <2>3, <2>5
  <2> QED  BY <2>4, <2>5
<1>8. CASE AttemptPersisted(c)
  <2> DEFINE t == task[c].call.session
             o == b.operation
  <2>1. /\ b.type = "attempt"
        /\ task[c].call.kind = "persist"
        /\ b.operation = task[c].call.operation
        /\ sessions' = WithAttempt(sessions, t, o, b.request, b.ordinal + 1)
        /\ t \in SessionId
    <3>1. /\ task[c].call.kind = "persist"
          /\ sessions' = WithAttempt(sessions, t, o, b.request, b.ordinal + 1)
      BY <1>2, <1>8 DEF AttemptPersisted, Replied, WithAttempt
    <3>2. b.type = "attempt" /\ b.operation = task[c].call.operation
      BY <1>3, <3>1 DEF Fits
    <3>3. t \in SessionId
      BY <1>3, <3>1, CallFields DEF SessionKinds
    <3> QED  BY <3>1, <3>2, <3>3
  <2>2. /\ o \in OperationId /\ b.request \in RequestId
        /\ b.ordinal \in Nat /\ b.ordinal + 1 \in Nat
    BY <2>1, BatchFields
  <2>3. /\ \A q \in SessionId \ {t} : sessions'[q] = sessions[q]
        /\ sessions'[t].state = sessions[t].state
        /\ sessions'[t].operations = sessions[t].operations
        /\ sessions'[t].requests[o] = b.request
        /\ sessions'[t].ordinals[o] = b.ordinal + 1
        /\ \A p \in OperationId \ {o} :
              /\ sessions'[t].requests[p] = sessions[t].requests[p]
              /\ sessions'[t].ordinals[p] = sessions[t].ordinals[p]
    <3>1. PICK u \in SessionId, q \in OperationId, r \in RequestId, n \in Nat :
             u = t /\ q = o /\ r = b.request /\ n = b.ordinal + 1
      BY <2>1, <2>2
    <3>2. sessions' = WithAttempt(sessions, u, q, r, n)
      BY <2>1, <3>1
    <3>3. /\ \A v \in SessionId \ {u} : sessions'[v] = sessions[v]
          /\ sessions'[u].state = sessions[u].state
          /\ sessions'[u].operations = sessions[u].operations
          /\ sessions'[u].requests[q] = r
          /\ sessions'[u].ordinals[q] = n
          /\ \A p \in OperationId \ {q} :
                /\ sessions'[u].requests[p] = sessions[u].requests[p]
                /\ sessions'[u].ordinals[p] = sessions[u].ordinals[p]
      BY <1>4, <3>2, WithAttemptFields
    <3> QED  BY <3>1, <3>3
  <2>4. CASE s = t
    <3>1. /\ requestRow[b.request] = o
          /\ b.ordinal + 1 <= Len(attempts[b.request])
      BY <1>3, <2>1 DEF Landed
    <3>2. sessions[t].operations[o] # None
      BY <1>3, <2>1 DEF SessionAdmits, SessionKinds
    <3>3. RequestsKnown(s)'
      <4>1. sessions'[t].requests[o] # None
        BY <2>2, <2>3
      <4>2. sessions[t].state # "absent" =>
               \A p \in OperationId :
                  IF sessions[t].requests[p] = None
                  THEN sessions[t].ordinals[p] = 0
                  ELSE sessions[t].operations[p] # None
        BY <1>1, <2>4 DEF RequestsKnown
      <4> QED  BY <2>3, <2>4, <3>2, <4>1, <4>2 DEF RequestsKnown
    <3>4. SessionDurable(s)'
      <4>1. /\ sessionRow[s] # "none"
            /\ \A p \in OperationId : sessions[s].operations[p] # None =>
                  Ledger!InSession(p, s)
        BY <1>1, <1>3, <2>1, <2>4 DEF SessionDurable, SessionAdmits, SessionKinds
      <4>2. ASSUME NEW p \in OperationId, sessions'[s].requests[p] # None
            PROVE  /\ requestRow[sessions'[s].requests[p]] = p
                   /\ sessions'[s].ordinals[p]
                         <= Len(attempts[sessions'[s].requests[p]])
        <5>1. CASE p = o
          BY <2>3, <2>4, <3>1, <5>1
        <5>2. CASE p # o
          <6>1. /\ sessions'[s].requests[p] = sessions[s].requests[p]
                /\ sessions'[s].ordinals[p] = sessions[s].ordinals[p]
            BY <2>3, <2>4, <5>2
          <6>2. sessions[s].state # "absent"
            BY <1>3, <2>1, <2>4 DEF SessionAdmits, SessionKinds
          <6> QED  BY <1>1, <4>2, <6>1, <6>2 DEF SessionDurable
        <5> QED  BY <5>1, <5>2
      <4> QED
        <5>1. sessions'[s].operations = sessions[s].operations
          BY <2>3, <2>4
        <5>2. UNCHANGED <<sessionRow, operationRow, requestRow, attempts>>
          BY <1>1 DEF store
        <5>3. \A p \in OperationId :
                 Ledger!InSession(p, s)' <=> Ledger!InSession(p, s)
          BY <5>2 DEF Ledger!InSession
        <5> QED
          BY <4>1, <4>2, <5>1, <5>2, <5>3 DEF SessionDurable
    <3> QED  BY <3>3, <3>4
  <2>5. CASE s # t
    BY <1>5, <2>3, <2>5
  <2> QED  BY <2>4, <2>5
<1>9. CASE SessionFinished(c)
  <2>1. /\ b.type = "finish"
        /\ b.session = task[c].call.session
        /\ task[c].call.kind = "finish"
        /\ sessions' = WithState(sessions, b.session, "closed")
    BY <1>2, <1>3, <1>9, ReturningMemory DEF SessionFinished, Replied, Fits
  <2>2. b.session \in SessionId
    BY <2>1, BatchFields
  <2>3. /\ \A t \in SessionId \ {b.session} : sessions'[t] = sessions[t]
        /\ sessions'[b.session].operations = sessions[b.session].operations
        /\ sessions'[b.session].requests = sessions[b.session].requests
        /\ sessions'[b.session].ordinals = sessions[b.session].ordinals
    BY <1>4, <2>1, <2>2, WithStateFields
  <2>4. CASE s = b.session
    <3>1. sessions[s].state # "absent"
      BY <1>3, <2>1, <2>4 DEF SessionAdmits, SessionKinds
    <3> QED
      BY <1>1, <2>3, <2>4, <3>1
      DEF RequestsKnown, SessionDurable, store, Ledger!InSession
  <2>5. CASE s # b.session
    BY <1>5, <2>3, <2>5
  <2> QED  BY <2>4, <2>5
<1> QED  BY <1>6, <1>7, <1>8, <1>9

(* An entry is updated from a batch that has landed.                          *)
LEMMA AnalysisUpdateKeepsDurable ==
    ASSUME ControlInv, DurableInv, TypeOK', Grown, NEW c \in Handler,
           \/ SessionFinished(c) \/ AnalysisBegun(c) \/ BlocksAppended(c)
           \/ AnalysisEnded(c),
           NEW x \in SnapshotId
    PROVE  AnalysisDurable(x)'
<1> USE NoneFacts
<1>1. Catching(c) /\ UNCHANGED store
  BY UpdateStep
<1>2. /\ TypeOK
      /\ task[c].pc = "reply"
      /\ AnalysisDurable(x)
  BY <1>1, DurableParts DEF ControlInv, Catching
<1>3. PICK b \in Batch : b = task[c].batch
  BY <1>2, WaitingFacts
<1>4. /\ task[c].call \in Call
      /\ Fits(task[c].call, b)
      /\ task[c].call.kind \in AnalysisKinds => AnalysisAdmits(task[c].call)
      /\ Landed(b)
  BY <1>1, <1>2, <1>3, WaitingFacts DEF DurableInv, CommittedLanded
<1>5. analyses \in [SnapshotId -> ActiveAnalysis \cup {None}]
  BY <1>2 DEF TypeOK
<1>6. CASE analyses'[x] \in {analyses[x], None}
  BY <1>2, <1>6, AnalysisStays
<1>7. CASE SessionFinished(c)
  BY <1>6, <1>7 DEF SessionFinished
<1>8. CASE AnalysisEnded(c)
  <2>1. analyses' = [analyses EXCEPT ![b.snapshot] = None]
    BY <1>3, <1>8 DEF AnalysisEnded
  <2> QED  BY <1>5, <1>6, <2>1
<1>9. CASE AnalysisBegun(c)
  <2> DEFINE entry == [session |-> b.session, request |-> b.request,
                       sequence |-> 0, ordinal |-> 0]
  <2>1. b.type = "snapshot" /\ analyses' = [analyses EXCEPT ![b.snapshot] = entry]
    BY <1>3, <1>4, <1>9 DEF AnalysisBegun, Replied, Fits
  <2>2. entry.ordinal = 0
    OBVIOUS
  <2> HIDE DEF entry
  <2>3. CASE x = b.snapshot
    <3>1. analyses'[x] = entry
      BY <1>5, <2>1, <2>3
    <3>2. snapshotRow[x] # None
      BY <1>4, <2>1, <2>3 DEF Landed
    <3>3. snapshotRow[x].blocks \in Nat
      BY <1>2, <3>2 DEF TypeOK, Ledger!LedgerTypeOK, Ledger!SnapshotRow
    <3> QED  BY <1>1, <2>2, <3>1, <3>2, <3>3 DEF AnalysisDurable, store
  <2>4. CASE x # b.snapshot
    BY <1>5, <1>6, <2>1, <2>4
  <2> QED  BY <2>3, <2>4
<1>10. CASE BlocksAppended(c)
  <2> DEFINE y == b.snapshot
             longer == [analyses EXCEPT ![y].ordinal = b.first + b.blocks]
  <2>1. /\ b.type = "blocks"
        /\ y = task[c].call.snapshot
        /\ task[c].call.kind = "append"
        /\ analyses' = [longer EXCEPT ![y].sequence = longer[y].sequence + 1]
    BY <1>3, <1>4, <1>10 DEF BlocksAppended, Replied, Fits
  <2>2. y \in SnapshotId /\ b.first + b.blocks \in Nat
    BY <2>1, BatchFields
  <2>3. CASE x = y
    <3>1. analyses[x] # None
      BY <1>4, <2>1, <2>3 DEF AnalysisAdmits, AnalysisKinds
    <3>2. analyses[x] \in ActiveAnalysis
      BY <1>5, <3>1
    <3>3. /\ longer[x].ordinal = b.first + b.blocks
          /\ longer[x] \in ActiveAnalysis
          /\ DOMAIN longer = SnapshotId
      <4>1. /\ [analyses[x] EXCEPT !.ordinal = b.first + b.blocks] \in ActiveAnalysis
            /\ [analyses[x] EXCEPT !.ordinal = b.first + b.blocks].ordinal
                  = b.first + b.blocks
        BY <2>2, <3>2 DEF ActiveAnalysis
      <4> QED  BY <1>5, <2>3, <4>1
    <3> HIDE DEF longer
    <3>4. analyses'[x].ordinal = b.first + b.blocks
      <4>1. [longer[x] EXCEPT !.sequence = longer[x].sequence + 1].ordinal
               = b.first + b.blocks
        BY <3>3 DEF ActiveAnalysis
      <4>2. analyses'[x] = [longer[x] EXCEPT !.sequence = longer[x].sequence + 1]
        BY <2>1, <2>3, <3>3
      <4> QED  BY <4>1, <4>2
    <3>5. /\ snapshotRow[x] # None
          /\ b.first + b.blocks <= snapshotRow[x].blocks
      BY <1>4, <2>1, <2>3 DEF Landed
    <3> QED  BY <1>1, <3>4, <3>5 DEF AnalysisDurable, store
  <2>4. CASE x # y
    <3>1. analyses'[x] = analyses[x]
      BY <1>5, <2>1, <2>4
    <3> QED  BY <1>6, <3>1
  <2> QED  BY <2>3, <2>4
<1> QED  BY <1>7, <1>8, <1>9, <1>10

(* The steps of a handler that update a map keep DurableInv.                  *)
LEMMA UpdateKeepsDurable ==
    ASSUME ControlInv, DurableInv, ControlInv', NEW c \in Handler,
           \/ PublishSession(c) \/ OperationCreated(c) \/ ObservationCreated(c)
           \/ AttemptPersisted(c) \/ SessionFinished(c) \/ AnalysisBegun(c)
           \/ BlocksAppended(c) \/ AnalysisEnded(c)
    PROVE  DurableInv'
<1>1. /\ TypeOK /\ TypeOK' /\ UNCHANGED store
      /\ \A d \in Handler \ {c} : task'[d] = task[d]
      /\ ~Catching(c)'
  BY UpdateStep DEF ControlInv
<1>2. Grown
  BY <1>1, StoreKept
<1>3. CommittedLanded'
  BY <1>1, <1>2, CommittedStays DEF DurableInv
<1>4. ASSUME NEW s \in SessionId PROVE RequestsKnown(s)' /\ SessionDurable(s)'
  <2>1. CASE AnalysisBegun(c) \/ BlocksAppended(c) \/ AnalysisEnded(c)
    <3>1. sessions'[s] = sessions[s]
      BY <2>1 DEF AnalysisBegun, BlocksAppended, AnalysisEnded
    <3> QED  BY <1>1, <1>2, <3>1, DurableParts, SessionStays
  <2> QED  BY <1>1, <1>2, <2>1, SessionUpdateKeepsDurable
<1>5. ASSUME NEW x \in SnapshotId PROVE AnalysisDurable(x)'
  <2>1. CASE \/ PublishSession(c) \/ OperationCreated(c)
             \/ ObservationCreated(c) \/ AttemptPersisted(c)
    <3>1. analyses'[x] \in {analyses[x], None}
      BY <2>1 DEF PublishSession, OperationCreated, ObservationCreated,
                  AttemptPersisted
    <3> QED  BY <1>1, <1>2, <3>1, DurableParts, AnalysisStays
  <2> QED  BY <1>1, <1>2, <2>1, AnalysisUpdateKeepsDurable
<1> QED
  BY <1>3, <1>4, <1>5
  DEF DurableInv, RequestsAreKnown, MemoryIsDurable, RequestsKnown,
      SessionDurable, AnalysisDurable

(* Nothing is remembered at first.                                            *)
LEMMA InitDurable == Init => DurableInv
BY DEF Init, DurableInv, CommittedLanded, RequestsAreKnown, MemoryIsDurable,
       Catching, IdleTask, AbsentSession

(* Every step of the specification keeps DurableInv.                          *)
LEMMA NextKeepsDurable ==
    ControlInv /\ DurableInv /\ ControlInv' /\ [Next]_vars => DurableInv'
<1> SUFFICES ASSUME ControlInv, DurableInv, ControlInv', [Next]_vars
             PROVE  DurableInv'
  OBVIOUS
<1>1. TypeOK /\ TypeOK'
  BY DEF ControlInv
<1>2. ASSUME NEW c \in Handler, Arrive(c) \/ HandlerStep(c) \/ AbortTask(c)
      PROVE  DurableInv'
  <2>1. CASE \/ Arrive(c) \/ LockSessions(c) \/ RefuseSession(c)
             \/ LockAnalyses(c) \/ RefuseAnalysis(c) \/ PrepareBatch(c)
             \/ Send(c) \/ ReplyError(c) \/ EventRecorded(c) \/ AbortTask(c)
    BY <2>1, QuietSteps, QuietKeepsDurable
  <2>2. CASE \/ PublishSession(c) \/ OperationCreated(c)
             \/ ObservationCreated(c) \/ AttemptPersisted(c)
             \/ SessionFinished(c) \/ AnalysisBegun(c) \/ BlocksAppended(c)
             \/ AnalysisEnded(c)
    BY <2>2, UpdateKeepsDurable
  <2> QED  BY <1>2, <2>1, <2>2 DEF HandlerStep
<1>3. CASE WriterStep
  BY <1>3, WriterKeepsDurable
<1>4. CASE Start
  <2>1. /\ UNCHANGED memory /\ task' = task
        /\ \A c \in Handler : task[c].pc = "idle"
    BY <1>4 DEF Start, ControlInv, QueueFits
  <2>2. Grown
    BY <1>1, <1>4, RecoverGrows DEF Start, TypeOK
  <2>3. CommittedLanded'
    BY <2>1 DEF CommittedLanded, Catching
  <2>4. /\ \A s \in SessionId : RequestsKnown(s)' /\ SessionDurable(s)'
        /\ \A x \in SnapshotId : AnalysisDurable(x)'
    BY <1>1, <2>1, <2>2, DurableParts, MemoryStays
  <2> QED
    BY <2>3, <2>4
    DEF DurableInv, RequestsAreKnown, MemoryIsDurable, RequestsKnown,
        SessionDurable, AnalysisDurable
<1>5. CASE Crash \/ Exit
  BY <1>5
  DEF Crash, Exit, EmptyMemory, DurableInv, CommittedLanded, RequestsAreKnown,
      MemoryIsDurable, Catching, IdleTask, AbsentSession
<1>6. CASE Rest \/ Stop \/ UNCHANGED vars
  <2>1. UNCHANGED <<store, memory, task>>
    BY <1>6 DEF Rest, Stop, vars
  <2> QED
    BY <2>1
    DEF store, memory, DurableInv, CommittedLanded, RequestsAreKnown,
        MemoryIsDurable, Catching, Landed, Ledger!InSession
<1> QED
  BY <1>2, <1>3, <1>4, <1>5, <1>6 DEF Next, ServingNext, StopStep

(* The inductive invariant of every behaviour, stops and crashes included.    *)
THEOREM IInvHolds == Spec => []IInv
<1>1. Init => IInv
  BY InitControl, InitDurable DEF IInv
<1>2. IInv /\ [Next]_vars => IInv'
  BY NextKeepsControl, NextKeepsDurable DEF IInv
<1> QED  BY <1>1, <1>2, PTL DEF Spec

(* What the daemon remembers of a session, an operation, a request or an      *)
(* analysis is in the database: every handler updates memory only from a      *)
(* batch that has committed, and no stop or crash takes a row back.           *)
THEOREM MemoryIsDurableHolds == Spec => []MemoryIsDurable
<1>1. IInv => MemoryIsDurable
  BY DEF IInv, DurableInv
<1> QED  BY <1>1, IInvHolds, PTL

-----------------------------------------------------------------------------
(* Part two: the inductive invariant while the daemon serves                  *)

(* The keys of the schema: a request has its operation, an operation its      *)
(* session, and only a request has attempts.                                  *)
RowsRefer ==
    /\ \A r \in RequestId :
          IF requestRow[r] = None THEN attempts[r] = <<>>
          ELSE operationRow[requestRow[r]] # None
    /\ \A o \in OperationId :
          operationRow[o] # None => sessionRow[operationRow[o].session] # "none"

DownIsEmpty ==
    phase = "down" => /\ \A s \in SessionId : sessions[s].state = "absent"
                      /\ \A x \in SnapshotId : analyses[x] = None

(* start_session between its commit and its insertion in the map: the session *)
(* has a row and nothing else, and no other task is creating it.              *)
Starting(c) == Catching(c) /\ task[c].call.kind = "start"

StartsFit ==
    /\ \A c \in Handler : Starting(c) =>
          /\ sessions[task[c].batch.session].state = "absent"
          /\ sessionRow[task[c].batch.session] = "active"
          /\ \A o \in OperationId : ~Ledger!InSession(o, task[c].batch.session)
    /\ \A c, d \in Handler :
          Starting(c) /\ Starting(d)
             /\ task[c].batch.session = task[d].batch.session => c = d

(* The record says exactly what the rows of the session say.  Beyond          *)
(* SessionMirrored, an operation has no request the record does not name.     *)
Mirrors(record, s) ==
    /\ sessionRow[s] = record.state
    /\ \A o \in OperationId :
          record.operations[o] =
             IF Ledger!InSession(o, s) THEN operationRow[o].kind ELSE None
    /\ \A o \in OperationId, q \in RequestId :
          Ledger!InSession(o, s) /\ requestRow[q] = o => record.requests[o] = q
    /\ \A o \in OperationId :
          IF record.requests[o] = None THEN record.ordinals[o] = 0
          ELSE /\ Ledger!InSession(o, s)
               /\ requestRow[record.requests[o]] = o
               /\ Len(attempts[record.requests[o]]) = record.ordinals[o]

SessionsMirror(map) ==
    \A s \in SessionId : map[s].state # "absent" => Mirrors(map[s], s)

EntryMirrors(entry, x) ==
    IF entry = None THEN ~Ledger!Open(x)
    ELSE /\ Ledger!Open(x)
         /\ snapshotRow[x].session = entry.session
         /\ snapshotRow[x].request = entry.request
         /\ snapshotRow[x].blocks = entry.ordinal

AnalysesMirror(map) == \A x \in SnapshotId : EntryMirrors(map[x], x)

(* The maps as a task whose batch has committed is about to leave them.       *)
UpdatesSessions(c) ==
    /\ Catching(c)
    /\ task[c].call.kind \in {"root", "forward", "observe", "persist", "finish"}

SessionsAfter(c) ==
    LET b == task[c].batch IN
    CASE task[c].call.kind \in {"root", "forward", "observe"} ->
            WithOperation(sessions, b.session, b.operation, b.kind)
      [] task[c].call.kind = "persist" ->
            WithAttempt(sessions, task[c].call.session, b.operation, b.request,
                        b.ordinal + 1)
      [] task[c].call.kind = "finish" ->
            WithState(sessions, b.session, "closed")

UpdatesAnalyses(c) == Catching(c) /\ task[c].call.kind \in AnalysisKinds

AnalysesAfter(c) ==
    LET b == task[c].batch IN
    CASE task[c].call.kind = "finish" ->
            [x \in SnapshotId |-> IF b.counts[x] # None THEN None ELSE analyses[x]]
      [] task[c].call.kind = "begin" ->
            [analyses EXCEPT ![b.snapshot] =
               [session |-> b.session, request |-> b.request,
                sequence |-> 0, ordinal |-> 0]]
      [] task[c].call.kind = "append" ->
            [analyses EXCEPT ![b.snapshot].ordinal = b.first + b.blocks,
                             ![b.snapshot].sequence = @ + 1]
      [] task[c].call.kind \in {"abort", "finalize"} ->
            [analyses EXCEPT ![b.snapshot] = None]

(* The rows are those of the maps to come: the maps themselves, unless a task *)
(* is about to update them.                                                   *)
SessionsAgree ==
    /\ (\A c \in Handler : ~UpdatesSessions(c)) => SessionsMirror(sessions)
    /\ \A c \in Handler : UpdatesSessions(c) => SessionsMirror(SessionsAfter(c))

AnalysesAgree ==
    phase = "serving" =>
       /\ (\A c \in Handler : ~UpdatesAnalyses(c)) => AnalysesMirror(analyses)
       /\ \A c \in Handler : UpdatesAnalyses(c) => AnalysesMirror(AnalysesAfter(c))

(* finish_session takes the analyses of the session out of the map with it.   *)
AnalysesAreServed ==
    \A x \in SnapshotId :
       analyses[x] # None => sessions[analyses[x].session].state = "active"

ServingInv ==
    /\ IInv
    /\ phase \in {"down", "serving"}
    /\ RowsRefer
    /\ DownIsEmpty
    /\ StartsFit
    /\ SessionsAgree
    /\ AnalysesAgree
    /\ AnalysesAreServed
    /\ ActiveSessionsAreServed

-----------------------------------------------------------------------------
(* Who may be updating a map, and with what                                   *)

(* The kind of request behind a batch of each type.                           *)
LEMMA BatchKind ==
    ASSUME NEW call \in Call, NEW b, Fits(call, b)
    PROVE  /\ b.type = "session" => call.kind = "start"
           /\ b.type = "operation" => call.kind \in {"root", "forward", "observe"}
           /\ b.type = "attempt" => call.kind = "persist"
           /\ b.type = "event" => call.kind = "event"
           /\ b.type = "finish" => call.kind = "finish"
           /\ b.type = "snapshot" => call.kind = "begin"
           /\ b.type = "blocks" => call.kind = "append"
           /\ b.type = "outcome" => call.kind \in {"abort", "finalize"}
BY CallFields DEF Fits, CommandKind

(* A map has one task that can be about to update it: the one that holds its  *)
(* mutex.                                                                     *)
LEMMA OneUpdater ==
    ASSUME ControlInv, NEW c \in Handler, task[c].pc = "reply",
           NEW d \in Handler
    PROVE  /\ task[c].call.kind \in SessionKinds /\ UpdatesSessions(d) => d = c
           /\ task[c].call.kind \in AnalysisKinds /\ UpdatesAnalyses(d) => d = c
<1>1. /\ task[c].call.kind \in SessionKinds => holder["sessions"] = c
      /\ task[c].call.kind \in AnalysisKinds => holder["analyses"] = c
  BY WaitingFacts
<1>2. /\ UpdatesSessions(d) => holder["sessions"] = d
      /\ UpdatesAnalyses(d) => holder["analyses"] = d
  BY WaitingFacts DEF UpdatesSessions, UpdatesAnalyses, Catching, SessionKinds
<1> QED  BY <1>1, <1>2

(* A pending update changes one record, of a session still served.            *)
LEMMA SessionsAfterFields ==
    ASSUME ControlInv, NEW c \in Handler, UpdatesSessions(c)
    PROVE  /\ SessionsAfter(c) \in [SessionId -> SessionRecord]
           /\ task[c].call.session \in SessionId
           /\ sessions[task[c].call.session].state = "active"
           /\ \A s \in SessionId \ {task[c].call.session} :
                 SessionsAfter(c)[s] = sessions[s]
           /\ SessionsAfter(c)[task[c].call.session].state =
                 IF task[c].call.kind = "finish" THEN "closed" ELSE "active"
<1> DEFINE call == task[c].call
           b == task[c].batch
<1>1. /\ TypeOK
      /\ call \in Call
      /\ b \in Batch
      /\ Fits(call, b)
      /\ SessionAdmits(call)
  BY WaitingFacts DEF UpdatesSessions, Catching, SessionKinds
<1>2. sessions \in [SessionId -> SessionRecord]
  BY <1>1 DEF TypeOK
<1>3. call.session \in SessionId /\ sessions[call.session].state = "active"
  BY <1>1, CallFields DEF UpdatesSessions, SessionKinds, SessionAdmits
<1>4. CASE call.kind \in {"root", "forward", "observe"}
  <2>1. /\ b.session = call.session
        /\ b.operation \in OperationId
        /\ b.kind \in {"agent", "inference"}
    BY <1>1, <1>4, BatchFields DEF Fits
  <2>2. SessionsAfter(c) = WithOperation(sessions, call.session, b.operation, b.kind)
    BY <1>4, <2>1 DEF SessionsAfter
  <2> QED  BY <1>2, <1>3, <1>4, <2>1, <2>2, WithOperationFields
<1>5. CASE call.kind = "persist"
  <2>1. /\ b.operation \in OperationId
        /\ b.request \in RequestId
        /\ b.ordinal + 1 \in Nat
    BY <1>1, <1>5, BatchFields DEF Fits
  <2>2. SessionsAfter(c) =
           WithAttempt(sessions, call.session, b.operation, b.request, b.ordinal + 1)
    BY <1>5 DEF SessionsAfter
  <2> QED  BY <1>2, <1>3, <1>5, <2>1, <2>2, WithAttemptFields
<1>6. CASE call.kind = "finish"
  <2>1. b.session = call.session
    BY <1>1, <1>6 DEF Fits
  <2>2. SessionsAfter(c) = WithState(sessions, call.session, "closed")
    BY <1>6, <2>1 DEF SessionsAfter
  <2> QED  BY <1>2, <1>3, <1>6, <2>2, WithStateFields
<1> QED  BY <1>4, <1>5, <1>6 DEF UpdatesSessions

-----------------------------------------------------------------------------
(* Steps that do not touch the rows of a session, or of an analysis           *)

Untouched(s) ==
    /\ sessionRow'[s] = sessionRow[s]
    /\ \A o \in OperationId :
          /\ Ledger!InSession(o, s)' <=> Ledger!InSession(o, s)
          /\ Ledger!InSession(o, s) =>
                /\ operationRow'[o].kind = operationRow[o].kind
                /\ \A q \in RequestId :
                      /\ requestRow'[q] = o <=> requestRow[q] = o
                      /\ requestRow[q] = o => attempts'[q] = attempts[q]

(* A record goes on mirroring a session whose rows are untouched.             *)
LEMMA MirrorsStays ==
    ASSUME NEW record \in SessionRecord, NEW s \in SessionId,
           Mirrors(record, s), Untouched(s)
    PROVE  Mirrors(record, s)'
<1> USE NoneFacts
<1>1. /\ sessionRow'[s] = record.state
      /\ \A o \in OperationId :
            record.operations[o] =
               IF Ledger!InSession(o, s)' THEN operationRow'[o].kind ELSE None
  BY DEF Mirrors, Untouched
<1>2. \A o \in OperationId, q \in RequestId :
         Ledger!InSession(o, s)' /\ requestRow'[q] = o => record.requests[o] = q
  BY DEF Mirrors, Untouched
<1>3. ASSUME NEW o \in OperationId
      PROVE  IF record.requests[o] = None THEN record.ordinals[o] = 0
             ELSE /\ Ledger!InSession(o, s)'
                  /\ requestRow'[record.requests[o]] = o
                  /\ Len(attempts'[record.requests[o]]) = record.ordinals[o]
  <2>1. record.requests[o] \in RequestId \cup {None}
    BY DEF SessionRecord
  <2>2. CASE record.requests[o] = None
    BY <2>2 DEF Mirrors
  <2>3. CASE record.requests[o] # None
    <3>1. /\ record.requests[o] \in RequestId
          /\ Ledger!InSession(o, s)
          /\ requestRow[record.requests[o]] = o
          /\ Len(attempts[record.requests[o]]) = record.ordinals[o]
      BY <2>1, <2>3 DEF Mirrors
    <3> QED  BY <2>3, <3>1 DEF Untouched
  <2> QED  BY <2>2, <2>3
<1> QED  BY <1>1, <1>2, <1>3 DEF Mirrors

(* The tasks about to update the session map are the same, as they were.      *)
SameUpdaters ==
    \A d \in Handler :
       /\ UpdatesSessions(d)' <=> UpdatesSessions(d)
       /\ UpdatesSessions(d) => task'[d] = task[d]

SameAnalysts ==
    \A d \in Handler :
       /\ UpdatesAnalyses(d)' <=> UpdatesAnalyses(d)
       /\ UpdatesAnalyses(d) => task'[d] = task[d]

SameStarters ==
    \A d \in Handler :
       /\ Starting(d)' <=> Starting(d)
       /\ Starting(d) => task'[d] = task[d]

(* No row of a session in the map changes, and no updater does.               *)
LEMMA SessionsAgreeStays ==
    ASSUME ControlInv, SessionsAgree, UNCHANGED sessions, SameUpdaters,
           \A s \in SessionId : sessions[s].state # "absent" => Untouched(s)
    PROVE  SessionsAgree'
<1>1. ASSUME NEW m \in [SessionId -> SessionRecord], SessionsMirror(m),
             \A s \in SessionId :
                m[s].state # "absent" => sessions[s].state # "absent"
      PROVE  SessionsMirror(m)'
  BY <1>1, MirrorsStays DEF SessionsMirror
<1>2. ASSUME \A d \in Handler : ~UpdatesSessions(d)'
      PROVE  SessionsMirror(sessions)'
  <2>1. SessionsMirror(sessions)
    BY <1>2 DEF SessionsAgree, SameUpdaters
  <2>2. PICK m \in [SessionId -> SessionRecord] : m = sessions
    BY DEF ControlInv, TypeOK
  <2>3. SessionsMirror(m)'
    BY <1>1, <2>1, <2>2
  <2> QED  BY <2>2, <2>3 DEF SessionsMirror
<1>3. ASSUME NEW d \in Handler, UpdatesSessions(d)'
      PROVE  SessionsMirror(SessionsAfter(d))'
  <2>1. UpdatesSessions(d) /\ task'[d] = task[d]
    BY <1>3 DEF SameUpdaters
  <2>2. PICK m \in [SessionId -> SessionRecord] : m = SessionsAfter(d)
    BY <2>1, SessionsAfterFields
  <2>3. m = SessionsAfter(d)'
    BY <2>1, <2>2 DEF SessionsAfter
  <2>4. \A s \in SessionId :
           m[s].state # "absent" => sessions[s].state # "absent"
    BY <2>1, <2>2, SessionsAfterFields
  <2>5. SessionsMirror(m)
    BY <2>1, <2>2 DEF SessionsAgree
  <2>6. SessionsMirror(m)'
    BY <1>1, <2>4, <2>5
  <2> QED  BY <2>3, <2>6 DEF SessionsMirror
<1> QED  BY <1>2, <1>3 DEF SessionsAgree

(* No row of an analysis changes, and no updater does.                        *)
LEMMA AnalysesAgreeStays ==
    ASSUME AnalysesAgree, UNCHANGED <<phase, analyses, snapshotRow>>, SameAnalysts
    PROVE  AnalysesAgree'
<1> SUFFICES ASSUME phase = "serving"
             PROVE  AnalysesAgree'
  BY DEF AnalysesAgree
<1>1. ASSUME NEW m, AnalysesMirror(m) PROVE AnalysesMirror(m)'
  BY <1>1 DEF AnalysesMirror, EntryMirrors, Ledger!Open
<1>2. ASSUME \A d \in Handler : ~UpdatesAnalyses(d)'
      PROVE  AnalysesMirror(analyses)'
  <2>1. AnalysesMirror(analyses)
    BY <1>2 DEF AnalysesAgree, SameAnalysts
  <2>2. PICK m : m = analyses
    OBVIOUS
  <2>3. AnalysesMirror(m)'
    BY <1>1, <2>1, <2>2
  <2> QED  BY <2>2, <2>3 DEF AnalysesMirror
<1>3. ASSUME NEW d \in Handler, UpdatesAnalyses(d)'
      PROVE  AnalysesMirror(AnalysesAfter(d))'
  <2>1. UpdatesAnalyses(d) /\ task'[d] = task[d]
    BY <1>3 DEF SameAnalysts
  <2>2. PICK m : m = AnalysesAfter(d)
    OBVIOUS
  <2>3. m = AnalysesAfter(d)'
    BY <2>1, <2>2 DEF AnalysesAfter
  <2>4. AnalysesMirror(m)
    BY <2>1, <2>2 DEF AnalysesAgree
  <2>5. AnalysesMirror(m)'
    BY <1>1, <2>4
  <2> QED  BY <2>3, <2>5 DEF AnalysesMirror
<1> QED  BY <1>2, <1>3 DEF AnalysesAgree

(* No row of a session being started changes, and no starter does.            *)
LEMMA StartsFitStays ==
    ASSUME StartsFit, UNCHANGED sessions, SameStarters,
           \A c \in Handler : Starting(c) => Untouched(task[c].batch.session)
    PROVE  StartsFit'
<1>1. ASSUME NEW c \in Handler, Starting(c)'
      PROVE  /\ sessions'[task'[c].batch.session].state = "absent"
             /\ sessionRow'[task'[c].batch.session] = "active"
             /\ \A o \in OperationId :
                   ~Ledger!InSession(o, task[c].batch.session)'
  <2>1. Starting(c) /\ task'[c] = task[c]
    BY <1>1 DEF SameStarters
  <2>2. PICK s : s = task[c].batch.session
    OBVIOUS
  <2>3. /\ sessions[s].state = "absent" /\ sessionRow[s] = "active"
        /\ \A o \in OperationId : ~Ledger!InSession(o, s)
        /\ Untouched(s)
    BY <2>1, <2>2 DEF StartsFit
  <2>4. \A o \in OperationId : ~Ledger!InSession(o, s)'
    BY <2>3 DEF Untouched
  <2>5. sessionRow'[s] = "active"
    BY <2>3 DEF Untouched
  <2> QED  BY <2>1, <2>2, <2>3, <2>4, <2>5 DEF Ledger!InSession
<1>2. ASSUME NEW c \in Handler, NEW d \in Handler, Starting(c)', Starting(d)',
             task'[c].batch.session = task'[d].batch.session
      PROVE  c = d
  BY <1>2 DEF SameStarters, StartsFit
<1> QED  BY <1>1, <1>2 DEF StartsFit

(* No session becomes active, and no starter changes.                         *)
LEMMA ActiveStays ==
    ASSUME ActiveSessionsAreServed, UNCHANGED <<phase, sessions>>, SameStarters,
           \A s \in SessionId : sessionRow'[s] = "active" => sessionRow[s] = "active"
    PROVE  ActiveSessionsAreServed'
<1> SUFFICES ASSUME phase = "serving", NEW s \in SessionId,
                    sessionRow'[s] = "active", sessions[s].state # "active"
             PROVE  \E c \in Handler :
                       /\ Catching(c)' /\ task'[c].call.kind = "start"
                       /\ task'[c].batch.session = s
  BY DEF ActiveSessionsAreServed
<1>1. PICK c \in Handler : Starting(c) /\ task[c].batch.session = s
  BY DEF ActiveSessionsAreServed, Starting
<1>2. Starting(c)' /\ task'[c] = task[c]
  BY <1>1 DEF SameStarters
<1> QED  BY <1>1, <1>2 DEF Starting

(* A step that leaves the four tables alone touches no session.               *)
LEMMA UntouchedStore ==
    ASSUME NEW s, UNCHANGED <<sessionRow, operationRow, requestRow, attempts>>
    PROVE  Untouched(s)
BY DEF Untouched, Ledger!InSession

(* A step that changes no row and no map keeps ServingInv, when the task that *)
(* makes it was not about to update a map and is not after it.                *)
LEMMA QuietKeepsServing ==
    ASSUME ServingInv, IInv', UNCHANGED store, UNCHANGED memory, phase' = phase,
           NEW c \in Handler, \A d \in Handler \ {c} : task'[d] = task[d],
           ~UpdatesSessions(c), ~UpdatesAnalyses(c), ~Starting(c), ~Catching(c)'
    PROVE  ServingInv'
<1>1. SameUpdaters /\ SameAnalysts /\ SameStarters
  BY DEF SameUpdaters, SameAnalysts, SameStarters, UpdatesSessions,
         UpdatesAnalyses, Starting, Catching
<1>2. UNCHANGED <<sessionRow, operationRow, requestRow, attempts, snapshotRow>>
         /\ UNCHANGED <<sessions, analyses>>
  BY DEF store, memory
<1>3. SessionsAgree'
  BY <1>1, <1>2, UntouchedStore, SessionsAgreeStays DEF ServingInv, IInv
<1>4. AnalysesAgree'
  BY <1>1, <1>2, AnalysesAgreeStays DEF ServingInv
<1>5. StartsFit'
  BY <1>1, <1>2, UntouchedStore, StartsFitStays DEF ServingInv
<1>6. ActiveSessionsAreServed'
  BY <1>1, <1>2, ActiveStays DEF ServingInv
<1>7. RowsRefer' /\ DownIsEmpty' /\ AnalysesAreServed'
  BY <1>2 DEF ServingInv, RowsRefer, DownIsEmpty, AnalysesAreServed
<1> QED
  BY <1>3, <1>4, <1>5, <1>6, <1>7 DEF ServingInv

(* The quiet steps of a handler are no update of a map.                       *)
LEMMA QuietStepKeepsServing ==
    ASSUME ServingInv, IInv', NEW c \in Handler,
           \/ Arrive(c) \/ LockSessions(c) \/ RefuseSession(c)
           \/ LockAnalyses(c) \/ RefuseAnalysis(c) \/ PrepareBatch(c)
           \/ Send(c) \/ ReplyError(c) \/ EventRecorded(c)
    PROVE  ServingInv'
<1>1. /\ UNCHANGED store /\ UNCHANGED memory
      /\ \A d \in Handler \ {c} : task'[d] = task[d]
      /\ ~Catching(c)'
  BY QuietSteps DEF ServingInv, IInv
<1>2. phase' = phase
  <2>1. PrepareBatch(c) => phase' = phase
    BY DEF PrepareBatch, PrepareSession, PrepareOperation, PrepareAttempt,
           PrepareEvent, PrepareFinish, PrepareBegin, PrepareAppend,
           PrepareOutcome, Prepare
  <2> QED
    BY <2>1
    DEF Arrive, LockSessions, RefuseSession, LockAnalyses, RefuseAnalysis,
        Send, ReplyError, EventRecorded
<1>3. ~Catching(c) \/ task[c].call.kind = "event"
  BY DEF Arrive, LockSessions, RefuseSession, LockAnalyses, RefuseAnalysis,
         PrepareBatch, Send, ReplyError, EventRecorded, Waiting, Replied, Catching
<1>4. ~UpdatesSessions(c) /\ ~UpdatesAnalyses(c) /\ ~Starting(c)
  BY <1>3 DEF UpdatesSessions, UpdatesAnalyses, Starting, AnalysisKinds
<1> QED  BY <1>1, <1>2, <1>4, QuietKeepsServing

(* The transaction rolls back: its task will return the error.                *)
LEMMA RollBackKeepsServing ==
    ASSUME ServingInv, IInv', RollBack
    PROVE  ServingInv'
<1>1. TypeOK /\ QueueFits /\ queue # <<>> /\ UNCHANGED <<store, phase, memory>>
  BY DEF ServingInv, IInv, ControlInv, RollBack
<1>2. queue[1] \in Envelope /\ Head(queue) = queue[1] /\ 1 \in 1..Len(queue)
  BY <1>1 DEF TypeOK
<1>3. PICK c \in Handler : c = Head(queue).from
  BY <1>2 DEF Envelope
<1>4. task[c].pc = "reply" /\ task[c].reply = "none"
  BY <1>1, <1>2, <1>3 DEF QueueFits, ServingInv
<1>5. /\ task'[c].reply = "error"
      /\ \A d \in Handler \ {c} : task'[d] = task[d]
  BY <1>1, <1>3, <1>4, Answered DEF RollBack
<1>6. /\ ~UpdatesSessions(c) /\ ~UpdatesAnalyses(c) /\ ~Starting(c)
      /\ ~Catching(c)'
  BY <1>4, <1>5 DEF UpdatesSessions, UpdatesAnalyses, Starting, Catching
<1> QED  BY <1>1, <1>5, <1>6, QuietKeepsServing

-----------------------------------------------------------------------------
(* The updates of the maps                                                    *)

(* A task that leaves the maps as it was about to leave them.                 *)
LEMMA SessionsReached ==
    ASSUME ServingInv, NEW c \in Handler, UpdatesSessions(c),
           sessions' = SessionsAfter(c), UNCHANGED store,
           \A d \in Handler \ {c} : task'[d] = task[d], ~Catching(c)'
    PROVE  SessionsAgree' /\ SessionsMirror(sessions)'
<1>1. ControlInv /\ task[c].pc = "reply" /\ task[c].call.kind \in SessionKinds
  BY DEF ServingInv, IInv, UpdatesSessions, Catching, SessionKinds
<1>2. \A d \in Handler : ~UpdatesSessions(d)'
  BY <1>1, OneUpdater DEF UpdatesSessions, Catching
<1>3. SessionsMirror(SessionsAfter(c))
  BY DEF ServingInv, SessionsAgree
<1>4. SessionsMirror(sessions)'
  BY <1>3 DEF SessionsMirror, Mirrors, Ledger!InSession, store
<1> QED  BY <1>2, <1>4 DEF SessionsAgree

(* The same of the analyses.                                                  *)
LEMMA AnalysesReached ==
    ASSUME ServingInv, NEW c \in Handler, UpdatesAnalyses(c),
           analyses' = AnalysesAfter(c), UNCHANGED store, phase' = phase,
           \A d \in Handler \ {c} : task'[d] = task[d], ~Catching(c)'
    PROVE  AnalysesAgree'
<1>1. ControlInv /\ task[c].pc = "reply" /\ task[c].call.kind \in AnalysisKinds
  BY DEF ServingInv, IInv, UpdatesAnalyses, Catching
<1>2. \A d \in Handler : ~UpdatesAnalyses(d)'
  BY <1>1, OneUpdater DEF UpdatesAnalyses, Catching
<1>3. phase = "serving" => AnalysesMirror(AnalysesAfter(c))
  BY DEF ServingInv, AnalysesAgree
<1>4. phase = "serving" => AnalysesMirror(analyses)'
  BY <1>3 DEF AnalysesMirror, EntryMirrors, Ledger!Open, store
<1> QED  BY <1>2, <1>4 DEF AnalysesAgree

(* start_session inserts the record of the session it has created.            *)
LEMMA PublishSessionKeepsServing ==
    ASSUME ServingInv, IInv', NEW c \in Handler, PublishSession(c)
    PROVE  ServingInv'
<1> USE NoneFacts
<1>1. /\ Catching(c) /\ Starting(c)
      /\ task[c].pc = "reply" /\ task[c].call.kind = "start"
      /\ UNCHANGED <<store, phase, analyses>>
      /\ \A d \in Handler \ {c} : task'[d] = task[d]
      /\ ~Catching(c)'
      /\ holder["sessions"] = None
      /\ ControlInv /\ TypeOK
  BY UpdateStep
  DEF PublishSession, Replied, Starting, Catching, ServingInv, IInv, ControlInv
<1>2. PICK s0 \in SessionId : s0 = task[c].batch.session
  BY <1>1, WaitingFacts, BatchFields DEF Fits
<1>3. /\ sessions'[s0] = NewSession
      /\ \A s \in SessionId \ {s0} : sessions'[s] = sessions[s]
  BY <1>1, <1>2 DEF PublishSession, NewSession, TypeOK
<1>4. /\ sessions[s0].state = "absent"
      /\ sessionRow[s0] = "active"
      /\ \A o \in OperationId : ~Ledger!InSession(o, s0)
      /\ \A d \in Handler \ {c} : Starting(d) => task[d].batch.session # s0
  BY <1>1, <1>2 DEF ServingInv, StartsFit
<1>5. \A d \in Handler : ~UpdatesSessions(d)
  <2> SUFFICES ASSUME NEW d \in Handler, UpdatesSessions(d) PROVE FALSE
    OBVIOUS
  <2>1. holder["sessions"] = d
    BY <1>1, WaitingFacts DEF UpdatesSessions, Catching, SessionKinds
  <2> QED  BY <1>1, <2>1
<1>6. SameAnalysts
  BY <1>1 DEF SameAnalysts, UpdatesAnalyses, Catching, AnalysisKinds
<1>7. SessionsAgree'
  <2>1. \A d \in Handler : ~UpdatesSessions(d)'
    BY <1>1, <1>5 DEF UpdatesSessions, Catching
  <2>2. ASSUME NEW s \in SessionId, sessions'[s].state # "absent"
        PROVE  Mirrors(sessions[s], s)'
    <3>1. CASE s = s0
      BY <1>1, <1>3, <1>4, <3>1, NewSessionFields
      DEF Mirrors, Ledger!InSession, store
    <3>2. CASE s # s0
      <4>1. Mirrors(sessions[s], s)
        BY <1>3, <1>5, <2>2, <3>2 DEF ServingInv, SessionsAgree, SessionsMirror
      <4> QED
        BY <1>1, <1>3, <3>2, <4>1 DEF Mirrors, Ledger!InSession, store
    <3> QED  BY <3>1, <3>2
  <2> QED  BY <2>1, <2>2 DEF SessionsAgree, SessionsMirror
<1>8. AnalysesAgree'
  BY <1>1, <1>6, AnalysesAgreeStays DEF ServingInv, store
<1>9. StartsFit'
  <2>1. ASSUME NEW d \in Handler, Starting(d)'
        PROVE  /\ d # c /\ task'[d] = task[d] /\ Starting(d)
               /\ task[d].batch.session \in SessionId \ {s0}
    <3>1. d # c /\ task'[d] = task[d] /\ Starting(d)
      BY <1>1, <2>1 DEF Starting, Catching
    <3>2. task[d].batch.session \in SessionId
      BY <1>1, <3>1, WaitingFacts, BatchFields DEF Fits, Starting, Catching
    <3> QED  BY <1>4, <3>1, <3>2
  <2> QED
    BY <1>1, <1>3, <2>1 DEF ServingInv, StartsFit, store, Ledger!InSession
<1>10. ActiveSessionsAreServed'
  <2> SUFFICES ASSUME phase = "serving", NEW s \in SessionId,
                      sessionRow[s] = "active", sessions'[s].state # "active"
               PROVE  \E d \in Handler :
                         /\ Catching(d)' /\ task'[d].call.kind = "start"
                         /\ task'[d].batch.session = s
    BY <1>1 DEF ActiveSessionsAreServed, store
  <2>1. s # s0 /\ sessions[s].state # "active"
    BY <1>3, NewSessionFields
  <2>2. PICK d \in Handler :
           Catching(d) /\ task[d].call.kind = "start" /\ task[d].batch.session = s
    BY <2>1 DEF ServingInv, ActiveSessionsAreServed
  <2>3. task'[d] = task[d]
    BY <1>1, <1>2, <2>1, <2>2
  <2> QED  BY <2>2, <2>3 DEF Catching
<1>11. phase # "down"
  BY <1>1 DEF ControlInv, QueueFits
<1>12. RowsRefer' /\ DownIsEmpty'
  BY <1>1, <1>11 DEF ServingInv, RowsRefer, DownIsEmpty, store
<1>13. AnalysesAreServed'
  <2>1. ASSUME NEW x \in SnapshotId, analyses[x] # None
        PROVE  sessions'[analyses[x].session].state = "active"
    <3>1. analyses[x].session \in SessionId
      BY <1>1, <2>1 DEF TypeOK, ActiveAnalysis
    <3>2. sessions[analyses[x].session].state = "active"
      BY <2>1 DEF ServingInv, AnalysesAreServed
    <3> QED  BY <1>3, <3>1, <3>2, NewSessionFields
  <2> QED  BY <1>1, <2>1 DEF AnalysesAreServed
<1> QED
  BY <1>1, <1>7, <1>8, <1>9, <1>10, <1>12, <1>13 DEF ServingInv

(* A handler remembers what it has committed about a session.                 *)
LEMMA SessionUpdateKeepsServing ==
    ASSUME ServingInv, IInv', NEW c \in Handler,
           \/ OperationCreated(c) \/ ObservationCreated(c)
           \/ AttemptPersisted(c) \/ SessionFinished(c)
    PROVE  ServingInv'
<1> USE NoneFacts
<1> DEFINE call == task[c].call
           b == task[c].batch
<1>1. /\ Catching(c) /\ UpdatesSessions(c)
      /\ task[c].pc = "reply"
      /\ UNCHANGED <<store, phase>>
      /\ \A d \in Handler \ {c} : task'[d] = task[d]
      /\ ~Catching(c)'
      /\ ControlInv /\ TypeOK
  <2>1. UpdatesSessions(c)
    BY DEF OperationCreated, ObservationCreated, AttemptPersisted,
           SessionFinished, Replied, UpdatesSessions, Catching
  <2> QED  BY <2>1, UpdateStep DEF UpdatesSessions, Catching, ServingInv, IInv, ControlInv
<1>2. sessions' = SessionsAfter(c)
  BY DEF OperationCreated, ObservationCreated, AttemptPersisted, SessionFinished,
         RememberOperation, Replied, SessionsAfter, WithOperation, WithAttempt,
         WithState
<1>3. PICK s0 \in SessionId : s0 = call.session
  BY <1>1, SessionsAfterFields
<1>4. /\ sessions[s0].state = "active"
      /\ \A s \in SessionId \ {s0} : sessions'[s] = sessions[s]
      /\ sessions'[s0].state = IF call.kind = "finish" THEN "closed" ELSE "active"
  BY <1>1, <1>2, <1>3, SessionsAfterFields
<1>5. call.kind \in SessionKinds /\ (call.kind = "finish" <=> SessionFinished(c))
  BY DEF OperationCreated, ObservationCreated, AttemptPersisted, SessionFinished,
         Replied, SessionKinds
<1>6. SessionsAgree' /\ SessionsMirror(sessions)'
  BY <1>1, <1>2, SessionsReached
<1>7. call.kind # "finish" => analyses' = analyses /\ SameAnalysts
  <2>1. call.kind # "finish" => analyses' = analyses
    BY <1>5 DEF OperationCreated, ObservationCreated, AttemptPersisted
  <2>2. call.kind # "finish" => ~UpdatesAnalyses(c)
    BY <1>1 DEF UpdatesSessions, UpdatesAnalyses, AnalysisKinds
  <2> QED
    BY <1>1, <2>1, <2>2 DEF SameAnalysts, UpdatesAnalyses, Catching
<1>8. call.kind = "finish" =>
         /\ UpdatesAnalyses(c)
         /\ analyses' = AnalysesAfter(c)
         /\ \A x \in SnapshotId : analyses'[x] # None =>
               analyses'[x] = analyses[x] /\ analyses[x].session # s0
  <2> SUFFICES ASSUME call.kind = "finish"
               PROVE  /\ UpdatesAnalyses(c)
                      /\ analyses' = AnalysesAfter(c)
                      /\ \A x \in SnapshotId : analyses'[x] # None =>
                            analyses'[x] = analyses[x] /\ analyses[x].session # s0
    OBVIOUS
  <2>1. Fits(call, b)
    BY <1>1, WaitingFacts
  <2>2. \A x \in SnapshotId : b.counts[x] =
           IF analyses[x] # None /\ analyses[x].session = s0
           THEN analyses[x].ordinal ELSE None
    BY <1>3, <2>1 DEF Fits
  <2>3. analyses' = [x \in SnapshotId |->
                       IF b.counts[x] # None THEN None ELSE analyses[x]]
    BY <1>5 DEF SessionFinished
  <2>4. \A x \in SnapshotId : analyses[x] # None => analyses[x].ordinal \in Nat
    BY <1>1 DEF TypeOK, ActiveAnalysis
  <2>5. UpdatesAnalyses(c) /\ analyses' = AnalysesAfter(c)
    BY <1>1, <2>3 DEF UpdatesAnalyses, AnalysisKinds, AnalysesAfter
  <2> QED  BY <2>2, <2>3, <2>4, <2>5
<1>9. AnalysesAgree'
  BY <1>1, <1>7, <1>8, AnalysesAgreeStays, AnalysesReached
  DEF ServingInv, store
<1>10. AnalysesAreServed'
  <2> SUFFICES ASSUME NEW x \in SnapshotId, analyses'[x] # None
               PROVE  sessions'[analyses'[x].session].state = "active"
    BY DEF AnalysesAreServed
  <2>1. /\ analyses'[x] = analyses[x]
        /\ call.kind = "finish" => analyses[x].session # s0
    BY <1>7, <1>8
  <2>2. analyses[x].session \in SessionId
    BY <1>1, <2>1 DEF TypeOK, ActiveAnalysis
  <2>3. sessions[analyses[x].session].state = "active"
    BY <2>1 DEF ServingInv, AnalysesAreServed
  <2> QED  BY <1>4, <2>1, <2>2, <2>3
<1>11. StartsFit'
  <2>1. ASSUME NEW d \in Handler, Starting(d)'
        PROVE  /\ task'[d] = task[d] /\ Starting(d)
               /\ task[d].batch.session \in SessionId \ {s0}
    <3>1. d # c /\ task'[d] = task[d] /\ Starting(d)
      BY <1>1, <2>1 DEF Starting, Catching
    <3>2. task[d].batch.session \in SessionId
      BY <1>1, <3>1, WaitingFacts, BatchFields DEF Fits, Starting, Catching
    <3>3. sessions[task[d].batch.session].state = "absent"
      BY <3>1 DEF ServingInv, StartsFit
    <3> QED  BY <1>4, <3>1, <3>2, <3>3
  <2> QED
    BY <1>1, <1>4, <2>1 DEF ServingInv, StartsFit, store, Ledger!InSession
<1>12. ActiveSessionsAreServed'
  <2> SUFFICES ASSUME phase = "serving", NEW s \in SessionId,
                      sessionRow'[s] = "active", sessions'[s].state # "active"
               PROVE  \E d \in Handler :
                         /\ Catching(d)' /\ task'[d].call.kind = "start"
                         /\ task'[d].batch.session = s
    BY <1>1 DEF ActiveSessionsAreServed
  <2>1. s # s0
    <3>1. sessions'[s0].state # "absent" => sessionRow'[s0] = sessions'[s0].state
      BY <1>6 DEF SessionsMirror, Mirrors
    <3> QED  BY <1>4, <3>1
  <2>2. PICK d \in Handler :
           Catching(d) /\ task[d].call.kind = "start" /\ task[d].batch.session = s
    BY <1>1, <1>4, <2>1 DEF ServingInv, ActiveSessionsAreServed, store
  <2>3. d # c
    BY <1>5, <2>2 DEF SessionKinds
  <2> QED  BY <1>1, <2>2, <2>3 DEF Catching
<1>13. phase # "down"
  BY <1>1 DEF ControlInv, QueueFits
<1>14. RowsRefer' /\ DownIsEmpty'
  BY <1>1, <1>13 DEF ServingInv, RowsRefer, DownIsEmpty, store
<1> QED
  BY <1>1, <1>6, <1>9, <1>10, <1>11, <1>12, <1>14 DEF ServingInv

(* A handler remembers what it has committed about an analysis.               *)
LEMMA AnalysisUpdateKeepsServing ==
    ASSUME ServingInv, IInv', NEW c \in Handler,
           AnalysisBegun(c) \/ BlocksAppended(c) \/ AnalysisEnded(c)
    PROVE  ServingInv'
<1> USE NoneFacts
<1> DEFINE call == task[c].call
           b == task[c].batch
<1>1. /\ Catching(c) /\ UpdatesAnalyses(c)
      /\ task[c].pc = "reply"
      /\ call.kind \in {"begin", "append", "abort", "finalize"}
      /\ UNCHANGED <<store, phase, sessions>>
      /\ \A d \in Handler \ {c} : task'[d] = task[d]
      /\ ~Catching(c)'
      /\ ControlInv /\ TypeOK
  <2>1. /\ UpdatesAnalyses(c)
        /\ call.kind \in {"begin", "append", "abort", "finalize"}
        /\ sessions' = sessions
    BY DEF AnalysisBegun, BlocksAppended, AnalysisEnded, Replied,
           UpdatesAnalyses, Catching, AnalysisKinds
  <2> QED  BY <2>1, UpdateStep DEF UpdatesAnalyses, Catching, ServingInv, IInv, ControlInv
<1>2. analyses' = AnalysesAfter(c)
  BY DEF AnalysisBegun, BlocksAppended, AnalysisEnded, Replied, AnalysesAfter
<1>3. AnalysesAgree'
  BY <1>1, <1>2, AnalysesReached
<1>4. SameUpdaters /\ SameStarters
  BY <1>1 DEF SameUpdaters, SameStarters, UpdatesSessions, Starting, Catching
<1>5. UNCHANGED <<sessionRow, operationRow, requestRow, attempts>>
  BY <1>1 DEF store
<1>6. SessionsAgree'
  BY <1>1, <1>4, <1>5, UntouchedStore, SessionsAgreeStays DEF ServingInv
<1>7. StartsFit' /\ ActiveSessionsAreServed'
  BY <1>1, <1>4, <1>5, UntouchedStore, StartsFitStays, ActiveStays DEF ServingInv
<1>8. AnalysesAreServed'
  <2> SUFFICES ASSUME NEW x \in SnapshotId, analyses'[x] # None
               PROVE  sessions[analyses'[x].session].state = "active"
    BY <1>1 DEF AnalysesAreServed
  <2>1. analyses \in [SnapshotId -> ActiveAnalysis \cup {None}]
    BY <1>1 DEF TypeOK
  <2>2. /\ call \in Call /\ b \in Batch /\ Fits(call, b)
        /\ call.kind \in AnalysisKinds => AnalysisAdmits(call)
        /\ call.kind \in SessionKinds => SessionAdmits(call)
    BY <1>1, WaitingFacts
  <2>3. CASE analyses'[x] = analyses[x]
    BY <2>3 DEF ServingInv, AnalysesAreServed
  <2>4. CASE AnalysisBegun(c) /\ x = b.snapshot
    <3>1. analyses'[x] = [session |-> b.session, request |-> b.request,
                          sequence |-> 0, ordinal |-> 0]
      BY <2>1, <2>4 DEF AnalysisBegun
    <3>2. b.session = call.session /\ sessions[call.session].state = "active"
      BY <2>2, <2>4 DEF AnalysisBegun, Replied, Fits, SessionKinds, SessionAdmits
    <3> QED  BY <3>1, <3>2
  <2>5. CASE BlocksAppended(c) /\ x = b.snapshot
    <3> DEFINE longer == [analyses EXCEPT ![x].ordinal = b.first + b.blocks]
    <3>1. analyses' = [longer EXCEPT ![x].sequence = longer[x].sequence + 1]
      BY <2>5 DEF BlocksAppended
    <3>2. analyses[x] # None
      BY <2>2, <2>5
      DEF BlocksAppended, Replied, Fits, AnalysisAdmits, AnalysisKinds
    <3>3. longer[x] = [analyses[x] EXCEPT !.ordinal = b.first + b.blocks]
             /\ DOMAIN longer = SnapshotId
      BY <2>1
    <3>4. longer[x].session = analyses[x].session /\ "sequence" \in DOMAIN longer[x]
             /\ DOMAIN longer[x] = DOMAIN analyses[x]
             /\ "session" \in DOMAIN analyses[x]
      BY <2>1, <3>2, <3>3 DEF ActiveAnalysis
    <3> HIDE DEF longer
    <3>5. analyses'[x] = [longer[x] EXCEPT !.sequence = longer[x].sequence + 1]
      BY <3>1, <3>3
    <3>6. analyses'[x].session = analyses[x].session
      BY <3>4, <3>5
    <3> QED  BY <3>2, <3>6 DEF ServingInv, AnalysesAreServed
  <2>6. CASE AnalysisEnded(c) /\ x = b.snapshot
    BY <2>1, <2>6 DEF AnalysisEnded
  <2>7. CASE x # b.snapshot
    BY <2>1, <2>3, <2>7 DEF AnalysisBegun, BlocksAppended, AnalysisEnded
  <2> QED  BY <2>4, <2>5, <2>6, <2>7
<1>9. phase # "down"
  BY <1>1 DEF ControlInv, QueueFits
<1>10. RowsRefer' /\ DownIsEmpty'
  BY <1>1, <1>9 DEF ServingInv, RowsRefer, DownIsEmpty, store
<1> QED
  BY <1>1, <1>3, <1>6, <1>7, <1>8, <1>10 DEF ServingInv

-----------------------------------------------------------------------------
(* A commit: the transaction Ledger allows, and the rows of the maps to come  *)

Commits(c, b) ==
    /\ b = task[c].batch
    /\ Execute(b)
    /\ task[c].pc = "reply" /\ task[c].reply = "none"
    /\ task'[c].pc = "reply" /\ task'[c].reply = "ok"
    /\ task'[c].call = task[c].call
    /\ task'[c].batch = task[c].batch
    /\ \A d \in Handler \ {c} : task'[d] = task[d]
    /\ phase = "serving"
    /\ UNCHANGED <<phase, sessions, analyses>>

(* The head of the queue is the batch of a task that waits for it.            *)
LEMMA CommitOfTask ==
    ASSUME ServingInv, Commit
    PROVE  \E c \in Handler, b \in Batch : Commits(c, b)
<1>1. TypeOK /\ QueueFits /\ queue # <<>>
  BY DEF ServingInv, IInv, ControlInv, Commit
<1>2. queue[1] \in Envelope /\ Head(queue) = queue[1] /\ 1 \in 1..Len(queue)
  BY <1>1 DEF TypeOK
<1>3. PICK c \in Handler : c = Head(queue).from
  BY <1>2 DEF Envelope
<1>4. PICK b \in Batch : b = Head(queue).batch
  BY <1>2 DEF Envelope
<1>5. phase = "serving"
  BY <1>1 DEF ServingInv, QueueFits
<1>6. task[c].pc = "reply" /\ task[c].reply = "none" /\ task[c].batch = b
  BY <1>1, <1>2, <1>3, <1>4, <1>5 DEF QueueFits
<1>7. /\ task'[c].pc = "reply" /\ task'[c].reply = "ok"
      /\ task'[c].call = task[c].call /\ task'[c].batch = task[c].batch
      /\ \A d \in Handler \ {c} : task'[d] = task[d]
  BY <1>1, <1>3, <1>6, Answered DEF Commit
<1> QED  BY <1>4, <1>5, <1>6, <1>7 DEF Commits, Commit, memory

(* What the task of a commit holds, and what it knows of the rows.            *)
LEMMA CommitFacts ==
    ASSUME ServingInv, NEW c \in Handler, NEW b \in Batch, Commits(c, b)
    PROVE  /\ ControlInv /\ TypeOK
           /\ task[c].call \in Call
           /\ Fits(task[c].call, b)
           /\ task[c].call.kind \in SessionKinds =>
                 /\ \A d \in Handler : ~UpdatesSessions(d)
                 /\ SessionsMirror(sessions)
                 /\ SessionAdmits(task[c].call)
                 /\ task[c].call.session \in SessionId
                 /\ sessions[task[c].call.session].state = "active"
                 /\ Mirrors(sessions[task[c].call.session], task[c].call.session)
                 /\ sessionRow[task[c].call.session] = "active"
           /\ task[c].call.kind \in AnalysisKinds =>
                 /\ \A d \in Handler : ~UpdatesAnalyses(d)
                 /\ AnalysesMirror(analyses)
                 /\ AnalysisAdmits(task[c].call)
           /\ ~Catching(c) /\ Catching(c)'
<1>1. /\ ControlInv /\ TypeOK
      /\ task[c].pc = "reply"
      /\ ~Catching(c) /\ Catching(c)'
  BY DEF ServingInv, IInv, ControlInv, Commits, Catching
<1>2. /\ task[c].call \in Call
      /\ Fits(task[c].call, b)
      /\ task[c].call.kind \in SessionKinds => SessionAdmits(task[c].call)
      /\ task[c].call.kind \in AnalysisKinds => AnalysisAdmits(task[c].call)
  BY <1>1, WaitingFacts DEF Commits
<1>3. ASSUME task[c].call.kind \in SessionKinds
      PROVE  /\ \A d \in Handler : ~UpdatesSessions(d)
             /\ SessionsMirror(sessions)
             /\ task[c].call.session \in SessionId
             /\ sessions[task[c].call.session].state = "active"
             /\ Mirrors(sessions[task[c].call.session], task[c].call.session)
             /\ sessionRow[task[c].call.session] = "active"
  <2>1. \A d \in Handler : ~UpdatesSessions(d)
    BY <1>1, <1>3, OneUpdater DEF UpdatesSessions
  <2>2. SessionsMirror(sessions)
    BY <2>1 DEF ServingInv, SessionsAgree
  <2>3. /\ task[c].call.session \in SessionId
        /\ sessions[task[c].call.session].state = "active"
    BY <1>2, <1>3, CallFields DEF SessionAdmits
  <2>4. Mirrors(sessions[task[c].call.session], task[c].call.session)
    BY <2>2, <2>3 DEF SessionsMirror
  <2>5. sessionRow[task[c].call.session] = "active"
    BY <2>3, <2>4 DEF Mirrors
  <2> QED  BY <2>1, <2>2, <2>3, <2>4, <2>5
<1>4. ASSUME task[c].call.kind \in AnalysisKinds
      PROVE  /\ \A d \in Handler : ~UpdatesAnalyses(d)
             /\ AnalysesMirror(analyses)
  <2>1. \A d \in Handler : ~UpdatesAnalyses(d)
    BY <1>1, <1>4, OneUpdater DEF UpdatesAnalyses
  <2> QED  BY <2>1 DEF ServingInv, AnalysesAgree, Commits
<1> QED  BY <1>1, <1>2, <1>3, <1>4

(* The tasks about to update the maps after a commit.                         *)
LEMMA CommitUpdaters ==
    ASSUME NEW c \in Handler, NEW b \in Batch, Commits(c, b)
    PROVE  /\ task[c].call.kind \notin
                 {"root", "forward", "observe", "persist", "finish"} => SameUpdaters
           /\ task[c].call.kind \notin AnalysisKinds => SameAnalysts
           /\ task[c].call.kind # "start" => SameStarters
           /\ UpdatesSessions(c)' <=> task[c].call.kind \in
                 {"root", "forward", "observe", "persist", "finish"}
           /\ UpdatesAnalyses(c)' <=> task[c].call.kind \in AnalysisKinds
BY DEF Commits, SameUpdaters, SameAnalysts, SameStarters, UpdatesSessions,
       UpdatesAnalyses, Starting, Catching

(* The maps the task of a commit is about to leave.                           *)
LEMMA CommitReachesSessions ==
    ASSUME ServingInv, NEW c \in Handler, NEW b \in Batch, Commits(c, b),
           task[c].call.kind \in {"root", "forward", "observe", "persist", "finish"},
           NEW m \in [SessionId -> SessionRecord], m = SessionsAfter(c),
           NEW s0 \in SessionId, s0 = task[c].call.session,
           \A s \in SessionId \ {s0} : m[s] = sessions[s] /\ Untouched(s),
           Mirrors(m[s0], s0)'
    PROVE  SessionsAgree'
<1>1. task[c].call.kind \in SessionKinds
  BY DEF SessionKinds
<1>2. \A d \in Handler : ~UpdatesSessions(d)
  BY <1>1, CommitFacts
<1>3. SessionsMirror(sessions)
  BY <1>1, CommitFacts
<1>4. SessionsAfter(c)' = m
  BY DEF SessionsAfter, Commits
<1>5. SessionsMirror(m)'
  <2>1. ASSUME NEW s \in SessionId, m[s].state # "absent"
        PROVE  Mirrors(m[s], s)'
    <3>1. CASE s = s0
      BY <3>1
    <3>2. CASE s # s0
      <4>1. Mirrors(m[s], s) /\ Untouched(s) /\ m[s] \in SessionRecord
        BY <1>3, <2>1, <3>2 DEF SessionsMirror
      <4> QED  BY <4>1, MirrorsStays
    <3> QED  BY <3>1, <3>2
  <2> QED  BY <2>1 DEF SessionsMirror
<1>6. \A d \in Handler : UpdatesSessions(d)' => d = c
  BY <1>2 DEF UpdatesSessions, Catching, Commits
<1>7. UpdatesSessions(c)'
  BY CommitUpdaters
<1>8. SessionsMirror(SessionsAfter(c))'
  BY <1>4, <1>5 DEF SessionsMirror
<1> QED  BY <1>6, <1>7, <1>8 DEF SessionsAgree

(* The same of the analyses.                                                  *)
LEMMA CommitReachesAnalyses ==
    ASSUME ServingInv, NEW c \in Handler, NEW b \in Batch, Commits(c, b),
           task[c].call.kind \in AnalysisKinds,
           NEW m, m = AnalysesAfter(c), AnalysesMirror(m)'
    PROVE  AnalysesAgree'
<1>1. \A d \in Handler : ~UpdatesAnalyses(d)
  BY CommitFacts
<1>2. AnalysesAfter(c)' = m
  BY DEF AnalysesAfter, Commits
<1>3. \A d \in Handler : UpdatesAnalyses(d)' => d = c
  BY <1>1 DEF UpdatesAnalyses, Catching, Commits
<1>4. UpdatesAnalyses(c)'
  BY CommitUpdaters
<1>5. AnalysesMirror(AnalysesAfter(c))'
  BY <1>2 DEF AnalysesMirror
<1> QED  BY <1>3, <1>4, <1>5 DEF AnalysesAgree

(* What any commit leaves alone.                                              *)
LEMMA CommitRest ==
    ASSUME ServingInv, IInv', NEW c \in Handler, NEW b \in Batch, Commits(c, b),
           RowsRefer', StartsFit', SessionsAgree', AnalysesAgree',
           ActiveSessionsAreServed'
    PROVE  ServingInv'
BY DEF ServingInv, Commits, DownIsEmpty, AnalysesAreServed

(* A started session becomes a row, and the task will put it in the map.      *)
LEMMA SessionCommitted ==
    ASSUME ServingInv, IInv', NEW c \in Handler, NEW b \in Batch, Commits(c, b),
           InsertSession(b)
    PROVE  Ledger!LedgerNext /\ ServingInv'
<1> USE NoneFacts
<1>1. /\ ControlInv /\ TypeOK
      /\ task[c].call.kind = "start"
      /\ ~Catching(c) /\ Catching(c)'
      /\ b.type = "session" /\ b.session \in SessionId
  BY CommitFacts, BatchKind, BatchFields DEF InsertSession
<1>2. PICK s0 \in SessionId : s0 = b.session
  BY <1>1
<1>3. /\ sessionRow[s0] = "none" /\ sessionRow'[s0] = "active"
      /\ \A s \in SessionId \ {s0} : sessionRow'[s] = sessionRow[s]
      /\ UNCHANGED <<operationRow, requestRow, attempts, snapshotRow, eventRows>>
  BY <1>1, <1>2 DEF InsertSession, TypeOK, Ledger!LedgerTypeOK
<1>4. Ledger!LedgerNext
  BY <1>2 DEF InsertSession, Ledger!OpenSession, Ledger!LedgerNext
<1>5. /\ SameUpdaters /\ SameAnalysts
      /\ \A d \in Handler \ {c} :
            task'[d] = task[d] /\ (Starting(d)' <=> Starting(d))
      /\ Starting(c)' /\ task'[c].batch = b /\ ~Starting(c)
  BY <1>1, CommitUpdaters
  DEF Commits, Starting, Catching, AnalysisKinds
<1>6. sessions[s0].state = "absent" /\ UNCHANGED <<phase, sessions, analyses>>
  BY <1>3 DEF ServingInv, IInv, DurableInv, MemoryIsDurable, Commits
<1>7. \A s \in SessionId \ {s0} : Untouched(s)
  BY <1>3 DEF Untouched, Ledger!InSession
<1>8. SessionsAgree'
  BY <1>1, <1>5, <1>6, <1>7, SessionsAgreeStays DEF ServingInv
<1>9. AnalysesAgree'
  BY <1>3, <1>5, <1>6, AnalysesAgreeStays DEF ServingInv
<1>10. \A o \in OperationId : ~Ledger!InSession(o, s0)
  BY <1>3 DEF ServingInv, RowsRefer, Ledger!InSession
<1>11. StartsFit'
  <2>1. ASSUME NEW d \in Handler \ {c}, Starting(d)
        PROVE  /\ task[d].batch.session # s0
               /\ sessions[task[d].batch.session].state = "absent"
               /\ sessionRow'[task[d].batch.session] = "active"
               /\ \A o \in OperationId :
                     ~Ledger!InSession(o, task[d].batch.session)
    <3>1. task[d].batch.session \in SessionId
      BY <1>1, <2>1, WaitingFacts, BatchFields DEF Fits, Starting, Catching
    <3>2. /\ sessions[task[d].batch.session].state = "absent"
          /\ sessionRow[task[d].batch.session] = "active"
          /\ \A o \in OperationId : ~Ledger!InSession(o, task[d].batch.session)
      BY <2>1 DEF ServingInv, StartsFit
    <3> QED  BY <1>3, <3>1, <3>2
  <2>2. \A d, e \in Handler \ {c} :
           Starting(d) /\ Starting(e)
              /\ task[d].batch.session = task[e].batch.session => d = e
    BY DEF ServingInv, StartsFit
  <2>3. ASSUME NEW d \in Handler, Starting(d)'
        PROVE  /\ sessions'[task'[d].batch.session].state = "absent"
               /\ sessionRow'[task'[d].batch.session] = "active"
               /\ \A o \in OperationId :
                     ~Ledger!InSession(o, task[d].batch.session)'
    <3>1. CASE d = c
      BY <1>2, <1>3, <1>5, <1>6, <1>10, <3>1 DEF Ledger!InSession
    <3>2. CASE d # c
      BY <1>3, <1>5, <1>6, <2>1, <2>3, <3>2 DEF Ledger!InSession
    <3> QED  BY <3>1, <3>2
  <2>4. \A d, e \in Handler :
           Starting(d)' /\ Starting(e)'
              /\ task'[d].batch.session = task'[e].batch.session => d = e
    BY <1>2, <1>5, <2>1, <2>2
  <2> QED  BY <2>3, <2>4 DEF StartsFit
<1>12. ActiveSessionsAreServed'
  <2> SUFFICES ASSUME phase = "serving", NEW s \in SessionId,
                      sessionRow'[s] = "active", sessions[s].state # "active"
               PROVE  \E d \in Handler :
                         /\ Catching(d)' /\ task'[d].call.kind = "start"
                         /\ task'[d].batch.session = s
    BY <1>6 DEF ActiveSessionsAreServed
  <2>1. CASE s = s0
    BY <1>2, <1>5, <2>1 DEF Starting
  <2>2. CASE s # s0
    <3>1. PICK d \in Handler : Starting(d) /\ task[d].batch.session = s
      BY <1>3, <2>2 DEF ServingInv, ActiveSessionsAreServed, Starting
    <3>2. Starting(d)' /\ task'[d] = task[d]
      BY <1>5, <3>1
    <3> QED  BY <3>1, <3>2 DEF Starting
  <2> QED  BY <2>1, <2>2
<1>13. RowsRefer'
  <2>1. \A o \in OperationId :
           operationRow[o] # None => sessionRow'[operationRow[o].session] # "none"
    BY <1>1, <1>3
    DEF ServingInv, RowsRefer, TypeOK, Ledger!LedgerTypeOK, Ledger!OperationRow
  <2> QED  BY <1>3, <2>1 DEF ServingInv, RowsRefer
<1>14. ServingInv'
  BY <1>8, <1>9, <1>11, <1>12, <1>13, CommitRest
<1> QED  BY <1>4, <1>14

(* An event of a session is recorded; memory does not know of it.             *)
LEMMA EventCommitted ==
    ASSUME ServingInv, IInv', NEW c \in Handler, NEW b \in Batch, Commits(c, b),
           InsertEvent(b)
    PROVE  Ledger!LedgerNext /\ ServingInv'
<1>1. /\ ControlInv /\ TypeOK
      /\ task[c].call.kind = "event"
      /\ b.session = task[c].call.session /\ b.session \in SessionId
      /\ sessionRow[b.session] = "active"
  <2>1. /\ ControlInv /\ TypeOK /\ Fits(task[c].call, b)
        /\ task[c].call.kind = "event"
    BY CommitFacts, BatchKind DEF InsertEvent
  <2> QED  BY <2>1, CommitFacts DEF Fits, SessionKinds
<1>2. Ledger!LedgerNext
  BY <1>1 DEF InsertEvent, Ledger!RecordEvent, Ledger!LedgerNext
<1>3. /\ UNCHANGED <<sessionRow, operationRow, requestRow, attempts, snapshotRow>>
      /\ UNCHANGED <<phase, sessions, analyses>>
  BY DEF InsertEvent, Commits
<1>4. SameUpdaters /\ SameAnalysts /\ SameStarters
  BY <1>1, CommitUpdaters DEF AnalysisKinds
<1>5. SessionsAgree' /\ StartsFit'
  BY <1>1, <1>3, <1>4, UntouchedStore, SessionsAgreeStays, StartsFitStays
  DEF ServingInv
<1>6. AnalysesAgree'
  BY <1>3, <1>4, AnalysesAgreeStays DEF ServingInv
<1>7. ActiveSessionsAreServed'
  BY <1>3, <1>4, ActiveStays DEF ServingInv
<1>8. RowsRefer'
  BY <1>3 DEF ServingInv, RowsRefer
<1> QED
  BY <1>2, <1>5, <1>6, <1>7, <1>8, CommitRest

(* A session that a start_session is about to put in the map is not there.    *)
LEMMA StarterFacts ==
    ASSUME ServingInv, NEW d \in Handler, Starting(d)
    PROVE  /\ task[d].batch.session \in SessionId
           /\ sessions[task[d].batch.session].state = "absent"
<1>1. ControlInv /\ task[d].pc = "reply" /\ task[d].call.kind = "start"
  BY DEF ServingInv, IInv, Starting, Catching
<1> QED
  BY <1>1, WaitingFacts, BatchFields DEF Fits, ServingInv, StartsFit

(* What a commit about the operations of one session leaves alone.            *)
LEMMA OperationsCommitRest ==
    ASSUME ServingInv, NEW c \in Handler, NEW b \in Batch, Commits(c, b),
           task[c].call.kind \in {"root", "forward", "observe", "persist"},
           UNCHANGED <<sessionRow, snapshotRow>>,
           \A s \in SessionId \ {task[c].call.session} : Untouched(s)
    PROVE  StartsFit' /\ AnalysesAgree' /\ ActiveSessionsAreServed'
<1>1. SameAnalysts /\ SameStarters /\ UNCHANGED <<phase, sessions, analyses>>
  BY CommitUpdaters DEF AnalysisKinds, Commits
<1>2. /\ task[c].call.kind \in SessionKinds
      /\ sessions[task[c].call.session].state = "active"
  BY CommitFacts DEF SessionKinds
<1>3. \A d \in Handler : Starting(d) => Untouched(task[d].batch.session)
  BY <1>2, StarterFacts
<1>4. StartsFit'
  BY <1>1, <1>3, StartsFitStays DEF ServingInv
<1>5. AnalysesAgree'
  BY <1>1, AnalysesAgreeStays DEF ServingInv
<1>6. ActiveSessionsAreServed'
  BY <1>1, ActiveStays DEF ServingInv
<1> QED  BY <1>4, <1>5, <1>6

(* An operation is created: its parent is one of its session, as the map said. *)
LEMMA OperationCommitted ==
    ASSUME ServingInv, IInv', NEW c \in Handler, NEW b \in Batch, Commits(c, b),
           InsertOperation(b)
    PROVE  Ledger!LedgerNext /\ ServingInv'
<1> USE NoneFacts
<1> DEFINE call == task[c].call
<1>1. /\ ControlInv /\ TypeOK /\ call \in Call /\ Fits(call, b)
      /\ call.kind \in {"root", "forward", "observe"}
      /\ call.kind \in SessionKinds
  BY CommitFacts, BatchKind DEF InsertOperation, SessionKinds
<1>2. PICK s0 \in SessionId : s0 = call.session
  BY <1>1, CommitFacts
<1>3. /\ Mirrors(sessions[s0], s0)
      /\ SessionAdmits(call)
      /\ sessions[s0].state = "active" /\ sessionRow[s0] = "active"
  BY <1>1, <1>2, CommitFacts
<1>4. /\ b.session = s0
      /\ b.kind \in {"agent", "inference"}
      /\ b.parent = IF call.kind = "root" THEN None ELSE call.parent
      /\ b.parent \in OperationId \cup {None}
      /\ b.operation \in OperationId
  BY <1>1, <1>2, BatchFields DEF Fits, InsertOperation
<1>5. PICK o \in OperationId, kind \in {"agent", "inference"} :
         o = b.operation /\ kind = b.kind
  BY <1>4
<1>6. b.parent # None => Ledger!InSession(b.parent, s0)
  <2> SUFFICES ASSUME b.parent # None PROVE Ledger!InSession(b.parent, s0)
    OBVIOUS
  <2>1. call.kind \in {"forward", "observe"} /\ b.parent = call.parent
    BY <1>1, <1>4
  <2>2. sessions[s0].operations[b.parent] # None
    BY <1>2, <1>3, <2>1 DEF SessionAdmits
  <2> QED  BY <1>3, <1>4, <2>2 DEF Mirrors
<1>7. Ledger!LedgerNext
  <2>1. Ledger!StartOperation(o, s0, kind, b.parent)
    BY <1>3, <1>4, <1>5, <1>6 DEF InsertOperation, Ledger!StartOperation
  <2> QED  BY <1>4, <2>1 DEF Ledger!LedgerNext, Ledger!Kind
<1>8. /\ operationRow[o] = None
      /\ operationRow'[o] = [session |-> s0, kind |-> kind, parent |-> b.parent,
                             status |-> "started"]
      /\ \A p \in OperationId \ {o} : operationRow'[p] = operationRow[p]
      /\ operationRow'[o] # None
      /\ UNCHANGED <<sessionRow, requestRow, attempts, snapshotRow>>
  <2>1. [session |-> s0, kind |-> kind, parent |-> b.parent,
         status |-> "started"] \in Ledger!OperationRow
    BY <1>4 DEF Ledger!OperationRow, Ledger!Kind
  <2> QED
    BY <1>1, <1>4, <1>5, <2>1 DEF InsertOperation, TypeOK, Ledger!LedgerTypeOK
<1>9. /\ \A q \in RequestId : requestRow[q] # o
      /\ \A s \in SessionId : ~Ledger!InSession(o, s)
      /\ \A s \in SessionId : Ledger!InSession(o, s)' <=> s = s0
      /\ \A p \in OperationId \ {o}, s \in SessionId :
            Ledger!InSession(p, s)' <=> Ledger!InSession(p, s)
  BY <1>8 DEF ServingInv, RowsRefer, Ledger!InSession
<1>10. \A s \in SessionId \ {s0} : Untouched(s)
  BY <1>8, <1>9 DEF Untouched
<1>11. sessions \in [SessionId -> SessionRecord]
  BY <1>1 DEF TypeOK
<1>12. PICK m \in [SessionId -> SessionRecord] :
          m = WithOperation(sessions, s0, o, kind)
  BY <1>11, WithOperationFields
<1>13. /\ \A s \in SessionId \ {s0} : m[s] = sessions[s]
       /\ m[s0].state = "active"
       /\ m[s0].requests = sessions[s0].requests
       /\ m[s0].ordinals = sessions[s0].ordinals
       /\ m[s0].operations[o] = kind
       /\ \A p \in OperationId \ {o} :
             m[s0].operations[p] = sessions[s0].operations[p]
  BY <1>3, <1>11, <1>12, WithOperationFields
<1>14. Mirrors(m[s0], s0)'
  <2>1. sessionRow'[s0] = m[s0].state
    BY <1>3, <1>8, <1>13
  <2>2. \A p \in OperationId :
           m[s0].operations[p] =
              IF Ledger!InSession(p, s0)' THEN operationRow'[p].kind ELSE None
    BY <1>3, <1>8, <1>9, <1>13 DEF Mirrors
  <2>3. \A p \in OperationId, q \in RequestId :
           Ledger!InSession(p, s0)' /\ requestRow'[q] = p => m[s0].requests[p] = q
    BY <1>3, <1>8, <1>9, <1>13 DEF Mirrors
  <2>4. \A p \in OperationId :
           IF m[s0].requests[p] = None THEN m[s0].ordinals[p] = 0
           ELSE /\ Ledger!InSession(p, s0)'
                /\ requestRow'[m[s0].requests[p]] = p
                /\ Len(attempts'[m[s0].requests[p]]) = m[s0].ordinals[p]
    BY <1>3, <1>8, <1>9, <1>13 DEF Mirrors
  <2> QED  BY <2>1, <2>2, <2>3, <2>4 DEF Mirrors
<1>15. m = SessionsAfter(c)
  BY <1>1, <1>4, <1>5, <1>12 DEF SessionsAfter, Commits
<1>16. SessionsAgree'
  <2>1. /\ task[c].call.kind \in {"root", "forward", "observe", "persist", "finish"}
        /\ s0 = task[c].call.session
        /\ \A s \in SessionId \ {s0} : m[s] = sessions[s] /\ Untouched(s)
    BY <1>1, <1>2, <1>10, <1>13
  <2> QED  BY <1>14, <1>15, <2>1, CommitReachesSessions
<1>17. StartsFit' /\ AnalysesAgree' /\ ActiveSessionsAreServed'
  BY <1>1, <1>2, <1>8, <1>10, OperationsCommitRest
<1>18. RowsRefer'
  <2>1. ASSUME NEW r \in RequestId
        PROVE  IF requestRow'[r] = None THEN attempts'[r] = <<>>
               ELSE operationRow'[requestRow'[r]] # None
    <3>1. requestRow[r] \in OperationId \cup {None}
      BY <1>1 DEF TypeOK, Ledger!LedgerTypeOK
    <3> QED  BY <1>8, <1>9, <3>1 DEF ServingInv, RowsRefer
  <2>2. ASSUME NEW p \in OperationId, operationRow'[p] # None
        PROVE  sessionRow'[operationRow'[p].session] # "none"
    <3>1. CASE p = o
      BY <1>3, <1>8, <3>1
    <3>2. CASE p # o
      BY <1>8, <2>2, <3>2 DEF ServingInv, RowsRefer
    <3> QED  BY <3>1, <3>2
  <2> QED  BY <2>1, <2>2 DEF RowsRefer
<1>19. ServingInv'
  BY <1>16, <1>17, <1>18, CommitRest
<1> QED  BY <1>7, <1>19

(* An attempt is recorded: memory knew the request of the operation, if it    *)
(* had one, and the number of its attempts.                                   *)
LEMMA AttemptCommitted ==
    ASSUME ServingInv, IInv', NEW c \in Handler, NEW b \in Batch, Commits(c, b),
           InsertAttempt(b)
    PROVE  Ledger!LedgerNext /\ ServingInv'
<1> USE NoneFacts
<1> DEFINE call == task[c].call
<1>1. /\ ControlInv /\ TypeOK /\ call \in Call /\ Fits(call, b)
      /\ call.kind = "persist"
      /\ call.kind \in SessionKinds
  BY CommitFacts, BatchKind DEF InsertAttempt, SessionKinds
<1>2. PICK s0 \in SessionId : s0 = call.session
  BY <1>1, CommitFacts
<1>3. /\ Mirrors(sessions[s0], s0)
      /\ SessionAdmits(call)
      /\ sessions[s0].state = "active" /\ sessionRow[s0] = "active"
  BY <1>1, <1>2, CommitFacts
<1>4. PICK o \in OperationId, r \in RequestId, n \in Nat :
         o = b.operation /\ r = b.request /\ n = b.ordinal
  BY BatchFields DEF InsertAttempt
<1>5. /\ o = call.operation
      /\ b.terminal \in BOOLEAN /\ b.retry \in BOOLEAN
      /\ n = sessions[s0].ordinals[o]
      /\ b.retry = (sessions[s0].requests[o] # None)
      /\ sessions[s0].requests[o] # None => r = sessions[s0].requests[o]
  BY <1>1, <1>2, <1>4, BatchFields DEF Fits, InsertAttempt
<1>6. sessions \in [SessionId -> SessionRecord]
  BY <1>1 DEF TypeOK
<1>7. sessions[s0].requests[o] \in RequestId \cup {None}
  BY <1>6 DEF SessionRecord
<1>8. /\ Ledger!InSession(o, s0)
      /\ operationRow[o].kind = "inference"
  BY <1>1, <1>2, <1>3, <1>5 DEF SessionAdmits, Mirrors
<1>9. /\ requestRow \in [RequestId -> OperationId \cup {None}]
      /\ attempts \in [RequestId -> Seq(Nat)]
      /\ operationRow \in [OperationId -> Ledger!OperationRow \cup {None}]
  BY <1>1 DEF TypeOK, Ledger!LedgerTypeOK
<1>10. /\ \A q \in RequestId : requestRow[q] = o => q = r
       /\ requestRow[r] \in {o, None}
       /\ b.retry => requestRow[r] = o
       /\ n = Len(attempts[r])
  <2>1. ASSUME NEW q \in RequestId, requestRow[q] = o PROVE q = r
    BY <1>3, <1>5, <1>8, <2>1 DEF Mirrors
  <2>2. CASE b.retry
    <3>1. r = sessions[s0].requests[o] /\ r # None
      BY <1>5, <2>2
    <3>2. requestRow[r] = o /\ Len(attempts[r]) = sessions[s0].ordinals[o]
      BY <1>3, <3>1 DEF Mirrors
    <3> QED  BY <1>5, <2>1, <3>2
  <2>3. CASE ~b.retry
    <3>1. requestRow[r] = None
      BY <1>4, <2>3 DEF InsertAttempt
    <3>2. attempts[r] = <<>>
      BY <3>1 DEF ServingInv, RowsRefer
    <3>3. n = 0
      BY <1>3, <1>5, <2>3 DEF Mirrors
    <3> QED  BY <2>1, <2>3, <3>1, <3>2, <3>3
  <2> QED  BY <1>5, <2>1, <2>2, <2>3
<1>11. /\ requestRow' = [requestRow EXCEPT ![r] = o]
       /\ attempts' = [attempts EXCEPT ![r] = Append(@, n)]
       /\ operationRow' =
             IF b.terminal
             THEN [operationRow EXCEPT ![o] = Ledger!Completed(@)]
             ELSE operationRow
       /\ UNCHANGED <<sessionRow, snapshotRow, eventRows>>
  <2>1. requestRow' = [requestRow EXCEPT ![r] = o]
    BY <1>4, <1>9, <1>10 DEF InsertAttempt
  <2> QED  BY <1>4, <2>1 DEF InsertAttempt, Ledger!Completed
<1>12. Ledger!LedgerNext
  <2>1. attempts' = [attempts EXCEPT ![r] = Append(@, Len(@))]
    BY <1>10, <1>11
  <2>2. Ledger!RecordAttempt(o, r, b.terminal)
    BY <1>3, <1>8, <1>10, <1>11, <2>1 DEF Ledger!RecordAttempt, Ledger!InSession
  <2> QED  BY <1>5, <2>2 DEF Ledger!LedgerNext
<1>13. /\ requestRow'[r] = o
       /\ \A q \in RequestId \ {r} :
             requestRow'[q] = requestRow[q] /\ attempts'[q] = attempts[q]
       /\ Len(attempts'[r]) = n + 1
  <2>1. attempts'[r] = Append(attempts[r], n)
    BY <1>9, <1>11
  <2>2. Len(Append(attempts[r], n)) = Len(attempts[r]) + 1
    BY <1>9
  <2> QED  BY <1>9, <1>10, <1>11, <2>1, <2>2
<1>14. /\ \A p \in OperationId \ {o} : operationRow'[p] = operationRow[p]
       /\ operationRow'[o] # None
       /\ operationRow'[o].session = operationRow[o].session
       /\ operationRow'[o].kind = operationRow[o].kind
  <2>1. operationRow[o] \in Ledger!OperationRow
    BY <1>8, <1>9 DEF Ledger!InSession
  <2>2. /\ Ledger!Completed(operationRow[o]) \in Ledger!OperationRow
        /\ Ledger!Completed(operationRow[o]).session = operationRow[o].session
        /\ Ledger!Completed(operationRow[o]).kind = operationRow[o].kind
    BY <2>1 DEF Ledger!Completed, Ledger!OperationRow
  <2>3. operationRow'[o] \in {operationRow[o], Ledger!Completed(operationRow[o])}
    BY <1>5, <1>9, <1>11
  <2>4. \A p \in OperationId \ {o} : operationRow'[p] = operationRow[p]
    BY <1>9, <1>11
  <2> QED  BY <2>1, <2>2, <2>3, <2>4
<1>15. \A p \in OperationId, s \in SessionId :
          Ledger!InSession(p, s)' <=> Ledger!InSession(p, s)
  BY <1>8, <1>14 DEF Ledger!InSession
<1>16. ASSUME NEW s \in SessionId \ {s0} PROVE Untouched(s)
  <2> SUFFICES ASSUME NEW p \in OperationId, Ledger!InSession(p, s)
               PROVE  /\ operationRow'[p].kind = operationRow[p].kind
                      /\ \A q \in RequestId :
                            /\ requestRow'[q] = p <=> requestRow[q] = p
                            /\ requestRow[q] = p => attempts'[q] = attempts[q]
    BY <1>11, <1>15 DEF Untouched
  <2>1. p # o
    BY <1>8 DEF Ledger!InSession
  <2> QED  BY <1>10, <1>13, <1>14, <2>1
<1>17. PICK m \in [SessionId -> SessionRecord] :
          m = WithAttempt(sessions, s0, o, r, n + 1)
  BY <1>6, WithAttemptFields
<1>18. /\ \A s \in SessionId \ {s0} : m[s] = sessions[s]
       /\ m[s0].state = "active"
       /\ m[s0].operations = sessions[s0].operations
       /\ m[s0].requests[o] = r
       /\ m[s0].ordinals[o] = n + 1
       /\ \A p \in OperationId \ {o} :
             /\ m[s0].requests[p] = sessions[s0].requests[p]
             /\ m[s0].ordinals[p] = sessions[s0].ordinals[p]
  <2>1. n + 1 \in Nat
    OBVIOUS
  <2> QED  BY <1>3, <1>6, <1>17, <2>1, WithAttemptFields
<1>19. Mirrors(m[s0], s0)'
  <2>1. sessionRow'[s0] = m[s0].state
    BY <1>3, <1>11, <1>18
  <2>2. \A p \in OperationId :
           m[s0].operations[p] =
              IF Ledger!InSession(p, s0)' THEN operationRow'[p].kind ELSE None
    BY <1>3, <1>14, <1>15, <1>18 DEF Mirrors
  <2>3. ASSUME NEW p \in OperationId, NEW q \in RequestId,
               Ledger!InSession(p, s0)', requestRow'[q] = p
        PROVE  m[s0].requests[p] = q
    <3>1. CASE p = o
      BY <1>10, <1>13, <1>18, <2>3, <3>1
    <3>2. CASE p # o
      <4>1. requestRow[q] = p /\ Ledger!InSession(p, s0)
        BY <1>13, <1>15, <2>3, <3>2
      <4> QED  BY <1>3, <1>18, <3>2, <4>1 DEF Mirrors
    <3> QED  BY <3>1, <3>2
  <2>4. ASSUME NEW p \in OperationId
        PROVE  IF m[s0].requests[p] = None THEN m[s0].ordinals[p] = 0
               ELSE /\ Ledger!InSession(p, s0)'
                    /\ requestRow'[m[s0].requests[p]] = p
                    /\ Len(attempts'[m[s0].requests[p]]) = m[s0].ordinals[p]
    <3>1. CASE p = o
      BY <1>8, <1>13, <1>15, <1>18, <3>1
    <3>2. CASE p # o
      <4>1. m[s0].requests[p] = sessions[s0].requests[p]
               /\ m[s0].ordinals[p] = sessions[s0].ordinals[p]
        BY <1>18, <3>2
      <4>2. sessions[s0].requests[p] \in RequestId \cup {None}
        BY <1>6 DEF SessionRecord
      <4>3. sessions[s0].requests[p] # None =>
               /\ Ledger!InSession(p, s0)
               /\ requestRow[sessions[s0].requests[p]] = p
               /\ Len(attempts[sessions[s0].requests[p]]) = sessions[s0].ordinals[p]
        BY <1>3 DEF Mirrors
      <4>4. sessions[s0].requests[p] = None => sessions[s0].ordinals[p] = 0
        BY <1>3 DEF Mirrors
      <4>5. sessions[s0].requests[p] # r
        BY <1>10, <3>2, <4>3
      <4> QED  BY <1>13, <1>15, <4>1, <4>2, <4>3, <4>4, <4>5
    <3> QED  BY <3>1, <3>2
  <2> QED  BY <2>1, <2>2, <2>3, <2>4 DEF Mirrors
<1>20. m = SessionsAfter(c)
  BY <1>1, <1>2, <1>4, <1>17 DEF SessionsAfter, Commits
<1>21. SessionsAgree'
  BY <1>1, <1>2, <1>16, <1>18, <1>19, <1>20, CommitReachesSessions
<1>22. StartsFit' /\ AnalysesAgree' /\ ActiveSessionsAreServed'
  BY <1>1, <1>2, <1>11, <1>16, OperationsCommitRest
<1>23. RowsRefer'
  <2>1. ASSUME NEW q \in RequestId
        PROVE  IF requestRow'[q] = None THEN attempts'[q] = <<>>
               ELSE operationRow'[requestRow'[q]] # None
    <3>1. CASE q = r
      BY <1>13, <1>14, <3>1
    <3>2. CASE q # r
      BY <1>9, <1>13, <1>14, <3>2 DEF ServingInv, RowsRefer
    <3> QED  BY <3>1, <3>2
  <2>2. ASSUME NEW p \in OperationId, operationRow'[p] # None
        PROVE  sessionRow'[operationRow'[p].session] # "none"
    BY <1>8, <1>11, <1>14, <2>2
    DEF ServingInv, RowsRefer, Ledger!InSession
  <2> QED  BY <2>1, <2>2 DEF RowsRefer
<1>24. ServingInv'
  BY <1>21, <1>22, <1>23, CommitRest
<1> QED  BY <1>12, <1>24

(* A session a handler may still serve is active in the database too, when no *)
(* finish_session has committed: it would hold the mutex of the analyses.     *)
LEMMA ServedRow ==
    ASSUME ServingInv, \A d \in Handler : ~UpdatesAnalyses(d),
           NEW s \in SessionId, sessions[s].state = "active"
    PROVE  sessionRow[s] = "active"
<1>1. CASE \A d \in Handler : ~UpdatesSessions(d)
  <2>1. Mirrors(sessions[s], s)
    BY <1>1 DEF ServingInv, SessionsAgree, SessionsMirror
  <2> QED  BY <2>1 DEF Mirrors
<1>2. ASSUME NEW d \in Handler, UpdatesSessions(d)
      PROVE  sessionRow[s] = "active"
  <2>1. task[d].call.kind # "finish"
    BY <1>2 DEF UpdatesSessions, UpdatesAnalyses, AnalysisKinds
  <2>2. SessionsAfter(d)[s].state = "active"
    <3>1. ControlInv
      BY DEF ServingInv, IInv
    <3> QED  BY <1>2, <2>1, <3>1, SessionsAfterFields
  <2>3. Mirrors(SessionsAfter(d)[s], s)
    BY <1>2, <2>2 DEF ServingInv, SessionsAgree, SessionsMirror
  <2> QED  BY <2>2, <2>3 DEF Mirrors
<1> QED  BY <1>1, <1>2

(* A commit that touches only the rows of the analysis x.                     *)
LEMMA AnalysisCommitRest ==
    ASSUME ServingInv, IInv', NEW c \in Handler, NEW b \in Batch, Commits(c, b),
           task[c].call.kind \in {"begin", "append", "abort", "finalize"},
           UNCHANGED <<sessionRow, operationRow, requestRow, attempts>>,
           NEW x \in SnapshotId, NEW m, m = AnalysesAfter(c),
           \A y \in SnapshotId \ {x} :
              m[y] = analyses[y] /\ snapshotRow'[y] = snapshotRow[y],
           EntryMirrors(m[x], x)'
    PROVE  ServingInv'
<1>1. /\ ControlInv /\ task[c].call.kind \in AnalysisKinds
      /\ AnalysesMirror(analyses)
  BY CommitFacts DEF AnalysisKinds
<1>2. SameUpdaters /\ SameStarters
  BY CommitUpdaters
<1>3. UNCHANGED <<phase, sessions, analyses>>
  BY DEF Commits
<1>4. SessionsAgree' /\ StartsFit'
  BY <1>1, <1>2, <1>3, UntouchedStore, SessionsAgreeStays, StartsFitStays
  DEF ServingInv
<1>5. ActiveSessionsAreServed'
  BY <1>2, <1>3, ActiveStays DEF ServingInv
<1>6. RowsRefer'
  BY DEF ServingInv, RowsRefer
<1>7. AnalysesMirror(m)'
  <2>1. ASSUME NEW y \in SnapshotId PROVE EntryMirrors(m[y], y)'
    <3>1. CASE y = x
      BY <3>1
    <3>2. CASE y # x
      BY <1>1, <3>2 DEF AnalysesMirror, EntryMirrors, Ledger!Open
    <3> QED  BY <3>1, <3>2
  <2> QED  BY <2>1 DEF AnalysesMirror
<1>8. AnalysesAgree'
  BY <1>1, <1>7, CommitReachesAnalyses
<1> QED
  BY <1>4, <1>5, <1>6, <1>8, CommitRest

(* An analysis begins: its request is the one the session's record names.     *)
LEMMA SnapshotCommitted ==
    ASSUME ServingInv, IInv', NEW c \in Handler, NEW b \in Batch, Commits(c, b),
           InsertSnapshot(b)
    PROVE  Ledger!LedgerNext /\ ServingInv'
<1> USE NoneFacts
<1> DEFINE call == task[c].call
<1>1. /\ ControlInv /\ TypeOK /\ call \in Call /\ Fits(call, b)
      /\ call.kind = "begin"
      /\ call.kind \in SessionKinds
  BY CommitFacts, BatchKind DEF InsertSnapshot, SessionKinds
<1>2. PICK s0 \in SessionId : s0 = call.session
  BY <1>1, CommitFacts
<1>3. /\ Mirrors(sessions[s0], s0)
      /\ SessionAdmits(call)
      /\ sessionRow[s0] = "active"
  BY <1>1, <1>2, CommitFacts
<1>4. PICK x \in SnapshotId, r \in RequestId : x = b.snapshot /\ r = b.request
  BY BatchFields DEF InsertSnapshot
<1>5. /\ b.session = s0 /\ r = call.request
      /\ call.operation \in OperationId
  BY <1>1, <1>2, <1>4, CallFields DEF Fits
<1>6. sessions[s0].requests[call.operation] = r
  BY <1>1, <1>2, <1>3, <1>5 DEF SessionAdmits
<1>7. requestRow[r] = call.operation /\ Ledger!InSession(call.operation, s0)
  BY <1>3, <1>5, <1>6 DEF Mirrors
<1>8. Ledger!LedgerNext
  <2>1. Ledger!BeginSnapshot(x, s0, r)
    BY <1>3, <1>4, <1>5, <1>7 DEF InsertSnapshot, Ledger!BeginSnapshot
  <2> QED  BY <2>1 DEF Ledger!LedgerNext
<1>9. /\ snapshotRow'[x] = [session |-> s0, request |-> r, state |-> "open",
                            blocks |-> 0, count |-> None, terminals |-> 0]
      /\ snapshotRow'[x] # None
      /\ \A y \in SnapshotId \ {x} : snapshotRow'[y] = snapshotRow[y]
      /\ UNCHANGED <<sessionRow, operationRow, requestRow, attempts>>
  <2>1. [session |-> s0, request |-> r, state |-> "open",
         blocks |-> 0, count |-> None, terminals |-> 0] \in Ledger!SnapshotRow
    BY DEF Ledger!SnapshotRow
  <2> QED
    BY <1>1, <1>4, <1>5, <2>1 DEF InsertSnapshot, TypeOK, Ledger!LedgerTypeOK
<1>10. PICK entry : entry = [session |-> s0, request |-> r,
                             sequence |-> 0, ordinal |-> 0]
  OBVIOUS
<1>11. entry # None
  BY <1>10 DEF ActiveAnalysis
<1>12. PICK m : m = [analyses EXCEPT ![x] = entry]
  OBVIOUS
<1>13. m[x] = entry /\ \A y \in SnapshotId \ {x} : m[y] = analyses[y]
  BY <1>1, <1>12 DEF TypeOK
<1>14. m = AnalysesAfter(c)
  BY <1>1, <1>4, <1>5, <1>10, <1>12 DEF AnalysesAfter, Commits
<1>15. EntryMirrors(m[x], x)'
  BY <1>9, <1>10, <1>11, <1>13 DEF EntryMirrors, Ledger!Open
<1>16. ServingInv'
  <2>1. task[c].call.kind \in {"begin", "append", "abort", "finalize"}
    BY <1>1
  <2> QED  BY <1>9, <1>13, <1>14, <1>15, <2>1, AnalysisCommitRest
<1> QED  BY <1>8, <1>16

(* One entry of the map after an append.                                      *)
WithBlocks(map, x, n) == [map EXCEPT ![x].ordinal = n, ![x].sequence = @ + 1]

(* An append moves the ordinal of its analysis, and leaves the rest of it.    *)
LEMMA WithBlocksFields ==
    ASSUME NEW map \in [SnapshotId -> ActiveAnalysis \cup {None}],
           NEW x \in SnapshotId, map[x] # None, NEW n \in Nat
    PROVE  LET next == WithBlocks(map, x, n) IN
           /\ next[x] # None
           /\ next[x].session = map[x].session
           /\ next[x].request = map[x].request
           /\ next[x].ordinal = n
           /\ \A y \in SnapshotId \ {x} : next[y] = map[y]
<1> DEFINE half == [map[x] EXCEPT !.ordinal = n]
           first == [map EXCEPT ![x] = half]
           entry == [half EXCEPT !.sequence = half.sequence + 1]
<1>1. map[x] \in ActiveAnalysis
  OBVIOUS
<1>2. /\ half \in ActiveAnalysis
      /\ half.session = map[x].session
      /\ half.request = map[x].request
      /\ half.ordinal = n
  BY <1>1 DEF ActiveAnalysis
<1>3. WithBlocks(map, x, n) =
         [first EXCEPT ![x] = [first[x] EXCEPT !.sequence = first[x].sequence + 1]]
  BY DEF WithBlocks
<1> HIDE DEF half
<1>4. /\ first[x] = half /\ x \in DOMAIN first /\ DOMAIN first = SnapshotId
      /\ \A y \in SnapshotId \ {x} : first[y] = map[y]
  OBVIOUS
<1> HIDE DEF first
<1>5. /\ entry \in ActiveAnalysis
      /\ entry.session = half.session
      /\ entry.request = half.request
      /\ entry.ordinal = half.ordinal
  BY <1>2 DEF ActiveAnalysis
<1>6. entry # None
  BY <1>5, NoneFacts
<1> HIDE DEF entry
<1>7. WithBlocks(map, x, n) = [first EXCEPT ![x] = entry]
  BY <1>3, <1>4 DEF entry
<1> QED  BY <1>2, <1>4, <1>5, <1>6, <1>7

(* What the map knows of an active analysis is what its row says.             *)
LEMMA ActiveAnalysisFacts ==
    ASSUME ServingInv, NEW c \in Handler, NEW b \in Batch, Commits(c, b),
           task[c].call.kind \in {"append", "abort", "finalize"},
           NEW x \in SnapshotId, x = task[c].call.snapshot
    PROVE  /\ analyses[x] \in ActiveAnalysis /\ analyses[x] # None
           /\ snapshotRow[x] \in Ledger!SnapshotRow /\ snapshotRow[x] # None
           /\ Ledger!Open(x)
           /\ snapshotRow[x].session = analyses[x].session
           /\ snapshotRow[x].request = analyses[x].request
           /\ snapshotRow[x].blocks = analyses[x].ordinal
           /\ sessionRow[snapshotRow[x].session] = "active"
<1>1. /\ TypeOK
      /\ \A d \in Handler : ~UpdatesAnalyses(d)
      /\ AnalysesMirror(analyses)
      /\ analyses[x] # None
  BY CommitFacts DEF AnalysisKinds, AnalysisAdmits
<1>2. EntryMirrors(analyses[x], x)
  BY <1>1 DEF AnalysesMirror
<1>3. analyses[x] \in ActiveAnalysis
  BY <1>1 DEF TypeOK
<1>4. sessions[analyses[x].session].state = "active"
  BY <1>1 DEF ServingInv, AnalysesAreServed
<1>5. sessionRow[analyses[x].session] = "active"
  BY <1>1, <1>3, <1>4, ServedRow DEF ActiveAnalysis
<1>6. snapshotRow[x] # None /\ snapshotRow[x] \in Ledger!SnapshotRow
  BY <1>1, <1>2 DEF EntryMirrors, Ledger!Open, TypeOK, Ledger!LedgerTypeOK
<1> QED  BY <1>1, <1>2, <1>3, <1>5, <1>6 DEF EntryMirrors

(* Blocks are appended: the ordinal in memory is the count of stored blocks.  *)
LEMMA BlocksCommitted ==
    ASSUME ServingInv, IInv', NEW c \in Handler, NEW b \in Batch, Commits(c, b),
           InsertBlocks(b)
    PROVE  Ledger!LedgerNext /\ ServingInv'
<1> USE NoneFacts
<1> DEFINE call == task[c].call
<1>1. /\ TypeOK /\ call \in Call /\ Fits(call, b)
      /\ call.kind = "append"
  BY CommitFacts, BatchKind DEF InsertBlocks
<1>2. PICK x \in SnapshotId : x = call.snapshot
  BY <1>1, CallFields
<1>3. /\ analyses[x] \in ActiveAnalysis /\ analyses[x] # None
      /\ snapshotRow[x] \in Ledger!SnapshotRow /\ snapshotRow[x] # None
      /\ Ledger!Open(x)
      /\ snapshotRow[x].session = analyses[x].session
      /\ snapshotRow[x].request = analyses[x].request
      /\ snapshotRow[x].blocks = analyses[x].ordinal
      /\ sessionRow[snapshotRow[x].session] = "active"
  BY <1>1, <1>2, ActiveAnalysisFacts
<1>4. /\ b.snapshot = x /\ b.first = snapshotRow[x].blocks /\ b.blocks = call.blocks
      /\ call.blocks \in 1..MaxBlocks
      /\ snapshotRow[x].blocks + call.blocks <= MaxBlocks
  <2>1. AnalysisAdmits(call) /\ call.blocks \in 0..MaxBlocks
    BY <1>1, CommitFacts, CallFields DEF AnalysisKinds
  <2>2. /\ b.snapshot = x /\ b.first = analyses[x].ordinal
        /\ b.blocks = call.blocks
    BY <1>1, <1>2 DEF Fits
  <2>3. call.blocks # 0 /\ analyses[x].ordinal + call.blocks <= MaxBlocks
    BY <1>1, <1>2, <2>1 DEF AnalysisAdmits
  <2> QED  BY <1>3, <2>1, <2>2, <2>3
<1>5. PICK n \in 1..MaxBlocks : n = call.blocks
  BY <1>4
<1>6. /\ snapshotRow' = [snapshotRow EXCEPT ![x] = Ledger!Extended(@, n)]
      /\ UNCHANGED <<sessionRow, operationRow, requestRow, attempts, eventRows>>
  BY <1>4, <1>5 DEF InsertBlocks, Ledger!Extended
<1>7. Ledger!LedgerNext
  <2>1. Ledger!AppendBlocks(x, n)
    BY <1>3, <1>4, <1>5, <1>6 DEF Ledger!AppendBlocks
  <2> QED  BY <2>1 DEF Ledger!LedgerNext
<1>8. PICK total \in Nat : total = snapshotRow[x].blocks + n
  BY <1>3 DEF Ledger!SnapshotRow
<1>9. /\ snapshotRow'[x] # None
      /\ snapshotRow'[x].state = "open"
      /\ snapshotRow'[x].session = analyses[x].session
      /\ snapshotRow'[x].request = analyses[x].request
      /\ snapshotRow'[x].blocks = total
      /\ \A y \in SnapshotId \ {x} : snapshotRow'[y] = snapshotRow[y]
  <2>1. snapshotRow \in [SnapshotId -> Ledger!SnapshotRow \cup {None}]
    BY <1>1 DEF TypeOK, Ledger!LedgerTypeOK
  <2>2. snapshotRow'[x] = [snapshotRow[x] EXCEPT !.blocks = total]
    BY <1>6, <1>8, <2>1 DEF Ledger!Extended
  <2>3. [snapshotRow[x] EXCEPT !.blocks = total] \in Ledger!SnapshotRow
    BY <1>3, <1>8 DEF Ledger!SnapshotRow
  <2>4. \A y \in SnapshotId \ {x} : snapshotRow'[y] = snapshotRow[y]
    BY <1>6, <2>1
  <2> QED
    BY <1>3, <2>2, <2>3, <2>4 DEF Ledger!Open, Ledger!SnapshotRow
<1>10. PICK m : m = WithBlocks(analyses, x, total)
  OBVIOUS
<1>11. /\ m[x] # None
       /\ m[x].session = analyses[x].session
       /\ m[x].request = analyses[x].request
       /\ m[x].ordinal = total
       /\ \A y \in SnapshotId \ {x} : m[y] = analyses[y]
  <2>1. analyses \in [SnapshotId -> ActiveAnalysis \cup {None}]
    BY <1>1 DEF TypeOK
  <2> QED  BY <1>3, <1>10, <2>1, WithBlocksFields
<1>12. m = AnalysesAfter(c)
  <2>1. total = b.first + b.blocks
    BY <1>4, <1>5, <1>8
  <2> QED  BY <1>1, <1>4, <1>10, <2>1 DEF AnalysesAfter, WithBlocks, Commits
<1>13. EntryMirrors(m[x], x)'
  BY <1>9, <1>11 DEF EntryMirrors, Ledger!Open
<1>14. ServingInv'
  <2>1. task[c].call.kind \in {"begin", "append", "abort", "finalize"}
    BY <1>1
  <2>2. /\ \A y \in SnapshotId \ {x} :
              m[y] = analyses[y] /\ snapshotRow'[y] = snapshotRow[y]
        /\ UNCHANGED <<sessionRow, operationRow, requestRow, attempts>>
    BY <1>6, <1>9, <1>11
  <2> QED  BY <1>12, <1>13, <2>1, <2>2, AnalysisCommitRest
<1> QED  BY <1>7, <1>14

(* An analysis ends: the count, when there is one, is that of its blocks.     *)
LEMMA OutcomeCommitted ==
    ASSUME ServingInv, IInv', NEW c \in Handler, NEW b \in Batch, Commits(c, b),
           UpdateOutcome(b)
    PROVE  Ledger!LedgerNext /\ ServingInv'
<1> USE NoneFacts
<1> DEFINE call == task[c].call
<1>1. /\ TypeOK /\ call \in Call /\ Fits(call, b)
      /\ call.kind \in {"abort", "finalize"}
  BY CommitFacts, BatchKind DEF UpdateOutcome
<1>2. PICK x \in SnapshotId : x = call.snapshot
  BY <1>1, CallFields
<1>3. /\ analyses[x] \in ActiveAnalysis
      /\ snapshotRow[x] \in Ledger!SnapshotRow
      /\ Ledger!Open(x)
      /\ snapshotRow[x].blocks = analyses[x].ordinal
      /\ sessionRow[snapshotRow[x].session] = "active"
  BY <1>1, <1>2, ActiveAnalysisFacts
<1>4. PICK count \in {snapshotRow[x].blocks, None} : count = b.count
  BY <1>1, <1>2, <1>3 DEF Fits
<1>5. b.snapshot = x
  BY <1>1, <1>2 DEF Fits
<1>6. /\ snapshotRow' = [snapshotRow EXCEPT ![x] = Ledger!Ended(@, "ended", count)]
      /\ UNCHANGED <<sessionRow, operationRow, requestRow, attempts, eventRows>>
  BY <1>4, <1>5 DEF UpdateOutcome
<1>7. Ledger!LedgerNext
  <2>1. Ledger!EndSnapshot(x)
    BY <1>3, <1>4, <1>6 DEF Ledger!EndSnapshot
  <2> QED  BY <2>1 DEF Ledger!LedgerNext
<1>8. /\ ~Ledger!Open(x)'
      /\ \A y \in SnapshotId \ {x} : snapshotRow'[y] = snapshotRow[y]
  <2>1. snapshotRow \in [SnapshotId -> Ledger!SnapshotRow \cup {None}]
    BY <1>1 DEF TypeOK, Ledger!LedgerTypeOK
  <2>2. count \in Nat \cup {None}
    BY <1>3, <1>4 DEF Ledger!SnapshotRow
  <2>3. Ledger!Ended(snapshotRow[x], "ended", count).state = "ended"
    BY <1>3, <2>2, EndedRow
  <2>4. snapshotRow'[x] = Ledger!Ended(snapshotRow[x], "ended", count)
           /\ \A y \in SnapshotId \ {x} : snapshotRow'[y] = snapshotRow[y]
    BY <1>6, <2>1
  <2> QED  BY <2>3, <2>4 DEF Ledger!Open
<1>9. PICK m : m = [analyses EXCEPT ![x] = None]
  OBVIOUS
<1>10. m[x] = None /\ \A y \in SnapshotId \ {x} : m[y] = analyses[y]
  BY <1>1, <1>9 DEF TypeOK
<1>11. m = AnalysesAfter(c)
  BY <1>1, <1>5, <1>9 DEF AnalysesAfter, Commits
<1>12. EntryMirrors(m[x], x)'
  BY <1>8, <1>10 DEF EntryMirrors
<1>13. ServingInv'
  <2>1. task[c].call.kind \in {"begin", "append", "abort", "finalize"}
    BY <1>1
  <2> QED  BY <1>6, <1>8, <1>10, <1>11, <1>12, <2>1, AnalysisCommitRest
<1> QED  BY <1>7, <1>13

(* A session finishes: the analyses memory has of it are those still open.    *)
LEMMA FinishCommitted ==
    ASSUME ServingInv, IInv', NEW c \in Handler, NEW b \in Batch, Commits(c, b),
           UpdateFinish(b)
    PROVE  Ledger!LedgerNext /\ ServingInv'
<1> USE NoneFacts
<1> DEFINE call == task[c].call
<1>1. /\ ControlInv /\ TypeOK /\ call \in Call /\ Fits(call, b)
      /\ call.kind = "finish"
      /\ call.kind \in SessionKinds
      /\ call.kind \in AnalysisKinds
  BY CommitFacts, BatchKind DEF UpdateFinish, SessionKinds, AnalysisKinds
<1>2. PICK s0 \in SessionId : s0 = call.session
  BY <1>1, CommitFacts
<1>3. /\ Mirrors(sessions[s0], s0)
      /\ sessions[s0].state = "active" /\ sessionRow[s0] = "active"
  BY <1>1, <1>2, CommitFacts
<1>4. AnalysesMirror(analyses)
  BY <1>1, CommitFacts
<1>5. /\ b.session = s0
      /\ \A x \in SnapshotId : b.counts[x] =
            IF analyses[x] # None /\ analyses[x].session = s0
            THEN analyses[x].ordinal ELSE None
  BY <1>1, <1>2 DEF Fits
<1>6. /\ sessionRow \in [SessionId -> {"none", "active", "closed", "stale"}]
      /\ snapshotRow \in [SnapshotId -> Ledger!SnapshotRow \cup {None}]
      /\ analyses \in [SnapshotId -> ActiveAnalysis \cup {None}]
      /\ sessions \in [SessionId -> SessionRecord]
  BY <1>1 DEF TypeOK, Ledger!LedgerTypeOK
<1>7. ASSUME NEW x \in SnapshotId
      PROVE  /\ b.counts[x] # None <=>
                   Ledger!Open(x) /\ snapshotRow[x].session = s0
             /\ b.counts[x] # None => b.counts[x] = snapshotRow[x].blocks
  <2>1. EntryMirrors(analyses[x], x)
    BY <1>4 DEF AnalysesMirror
  <2>2. analyses[x] # None => analyses[x].ordinal \in Nat
    BY <1>6 DEF ActiveAnalysis
  <2> QED  BY <1>5, <2>1, <2>2 DEF EntryMirrors
<1>8. snapshotRow' = [x \in SnapshotId |->
         IF Ledger!Open(x) /\ snapshotRow[x].session = s0
         THEN Ledger!Ended(snapshotRow[x], "ended", snapshotRow[x].blocks)
         ELSE snapshotRow[x]]
  <2>1. \A x \in SnapshotId :
           (IF b.counts[x] # None /\ snapshotRow[x] # None
            THEN Ledger!Ended(snapshotRow[x], "ended", b.counts[x])
            ELSE snapshotRow[x])
           = (IF Ledger!Open(x) /\ snapshotRow[x].session = s0
              THEN Ledger!Ended(snapshotRow[x], "ended", snapshotRow[x].blocks)
              ELSE snapshotRow[x])
    BY <1>7 DEF Ledger!Open
  <2> QED  BY <2>1 DEF UpdateFinish
<1>9. Ledger!LedgerNext
  <2>1. Ledger!CloseSession(s0)
    BY <1>3, <1>5, <1>8 DEF UpdateFinish, Ledger!CloseSession
  <2> QED  BY <2>1 DEF Ledger!LedgerNext
<1>10. /\ sessionRow'[s0] = "closed"
       /\ \A s \in SessionId \ {s0} : sessionRow'[s] = sessionRow[s]
       /\ UNCHANGED <<operationRow, requestRow, attempts>>
  BY <1>5, <1>6 DEF UpdateFinish
<1>11. \A s \in SessionId \ {s0} : Untouched(s)
  BY <1>10 DEF Untouched, Ledger!InSession
<1>12. PICK m \in [SessionId -> SessionRecord] : m = WithState(sessions, s0, "closed")
  BY <1>6, WithStateFields
<1>13. /\ \A s \in SessionId \ {s0} : m[s] = sessions[s]
       /\ m[s0].state = "closed"
       /\ m[s0].operations = sessions[s0].operations
       /\ m[s0].requests = sessions[s0].requests
       /\ m[s0].ordinals = sessions[s0].ordinals
  BY <1>6, <1>12, WithStateFields
<1>14. Mirrors(m[s0], s0)'
  BY <1>3, <1>10, <1>13 DEF Mirrors, Ledger!InSession
<1>15. m = SessionsAfter(c)
  BY <1>1, <1>5, <1>12 DEF SessionsAfter, Commits
<1>16. SessionsAgree'
  BY <1>1, <1>2, <1>11, <1>13, <1>14, <1>15, CommitReachesSessions
<1>17. PICK a : a = [x \in SnapshotId |->
                       IF b.counts[x] # None THEN None ELSE analyses[x]]
  OBVIOUS
<1>18. AnalysesMirror(a)'
  <2>1. ASSUME NEW x \in SnapshotId PROVE EntryMirrors(a[x], x)'
    <3>1. EntryMirrors(analyses[x], x)
      BY <1>4 DEF AnalysesMirror
    <3>2. CASE b.counts[x] # None
      <4>1. snapshotRow[x] \in Ledger!SnapshotRow
               /\ snapshotRow'[x] = Ledger!Ended(snapshotRow[x], "ended",
                                                 snapshotRow[x].blocks)
        BY <1>6, <1>7, <1>8, <3>2 DEF Ledger!Open
      <4>2. Ledger!Ended(snapshotRow[x], "ended", snapshotRow[x].blocks).state
               = "ended"
        BY <4>1, EndedRow DEF Ledger!SnapshotRow
      <4>3. a[x] = None
        BY <1>17, <3>2
      <4> QED  BY <4>1, <4>2, <4>3 DEF EntryMirrors, Ledger!Open
    <3>3. CASE b.counts[x] = None
      <4>1. snapshotRow'[x] = snapshotRow[x] /\ a[x] = analyses[x]
        BY <1>7, <1>8, <1>17, <3>3
      <4> QED  BY <3>1, <4>1 DEF EntryMirrors, Ledger!Open
    <3> QED  BY <3>2, <3>3
  <2> QED  BY <2>1 DEF AnalysesMirror
<1>19. a = AnalysesAfter(c)
  BY <1>1, <1>17 DEF AnalysesAfter, Commits
<1>20. AnalysesAgree'
  BY <1>1, <1>18, <1>19, CommitReachesAnalyses
<1>21. SameStarters /\ UNCHANGED <<phase, sessions>>
  BY <1>1, CommitUpdaters DEF Commits
<1>22. StartsFit'
  <2>1. \A d \in Handler : Starting(d) => Untouched(task[d].batch.session)
    BY <1>3, <1>11, StarterFacts
  <2> QED  BY <1>21, <2>1, StartsFitStays DEF ServingInv
<1>23. ActiveSessionsAreServed'
  <2>1. \A s \in SessionId : sessionRow'[s] = "active" => sessionRow[s] = "active"
    BY <1>10
  <2> QED  BY <1>21, <2>1, ActiveStays DEF ServingInv
<1>24. RowsRefer'
  <2>1. \A s \in SessionId : sessionRow[s] # "none" => sessionRow'[s] # "none"
    BY <1>10
  <2>2. \A o \in OperationId :
           operationRow[o] # None => operationRow[o].session \in SessionId
    BY <1>1 DEF TypeOK, Ledger!LedgerTypeOK, Ledger!OperationRow
  <2> QED  BY <1>10, <2>1, <2>2 DEF ServingInv, RowsRefer
<1>25. ServingInv'
  BY <1>16, <1>20, <1>22, <1>23, <1>24, CommitRest
<1> QED  BY <1>9, <1>25

(* Every commit of the serving daemon is a transaction Ledger allows.         *)
LEMMA CommitImplements ==
    ASSUME ServingInv, IInv', Commit
    PROVE  Ledger!LedgerNext /\ ServingInv'
<1>1. PICK c \in Handler, b \in Batch : Commits(c, b)
  BY CommitOfTask
<1>2. \/ InsertSession(b) \/ InsertOperation(b) \/ InsertAttempt(b)
      \/ InsertEvent(b) \/ UpdateFinish(b) \/ InsertSnapshot(b)
      \/ InsertBlocks(b) \/ UpdateOutcome(b)
  BY <1>1 DEF Commits, Execute
<1>3. CASE InsertSession(b)
  BY <1>1, <1>3, SessionCommitted
<1>4. CASE InsertOperation(b)
  BY <1>1, <1>4, OperationCommitted
<1>5. CASE InsertAttempt(b)
  BY <1>1, <1>5, AttemptCommitted
<1>6. CASE InsertEvent(b)
  BY <1>1, <1>6, EventCommitted
<1>7. CASE UpdateFinish(b)
  BY <1>1, <1>7, FinishCommitted
<1>8. CASE InsertSnapshot(b)
  BY <1>1, <1>8, SnapshotCommitted
<1>9. CASE InsertBlocks(b)
  BY <1>1, <1>9, BlocksCommitted
<1>10. CASE UpdateOutcome(b)
  BY <1>1, <1>10, OutcomeCommitted
<1> QED
  BY <1>2, <1>3, <1>4, <1>5, <1>6, <1>7, <1>8, <1>9, <1>10

-----------------------------------------------------------------------------
(* The process                                                                *)

(* A process that starts finds nothing in memory, and the recovery leaves     *)
(* nothing active and nothing open in the database.                           *)
LEMMA StartImplements ==
    ASSUME ServingInv, IInv', Start
    PROVE  Ledger!LedgerNext /\ ServingInv'
<1> USE NoneFacts
<1>1. /\ phase = "down" /\ phase' = "serving" /\ Ledger!Recover
      /\ UNCHANGED <<sessions, analyses, task>>
  BY DEF Start, memory
<1>2. /\ TypeOK
      /\ \A c \in Handler : task'[c].pc = "idle"
      /\ \A s \in SessionId : sessions'[s].state = "absent"
      /\ \A x \in SnapshotId : analyses'[x] = None
  BY <1>1 DEF ServingInv, IInv, ControlInv, QueueFits, DownIsEmpty
<1>3. \A c \in Handler :
         ~UpdatesSessions(c)' /\ ~UpdatesAnalyses(c)' /\ ~Starting(c)'
  BY <1>2 DEF UpdatesSessions, UpdatesAnalyses, Starting, Catching
<1>4. SessionsAgree'
  BY <1>2, <1>3 DEF SessionsAgree, SessionsMirror
<1>5. AnalysesAgree'
  <2>1. ASSUME NEW x \in SnapshotId PROVE ~Ledger!Open(x)'
    <3>1. CASE Ledger!Open(x)
      <4>1. /\ snapshotRow[x] \in Ledger!SnapshotRow
            /\ snapshotRow'[x] = Ledger!Ended(snapshotRow[x], "recovered",
                                              snapshotRow[x].count)
        BY <1>1, <1>2, <3>1
        DEF TypeOK, Ledger!LedgerTypeOK, Ledger!Open, Ledger!Recover
      <4>2. Ledger!Ended(snapshotRow[x], "recovered", snapshotRow[x].count).state
               = "recovered"
        BY <4>1, EndedRow DEF Ledger!SnapshotRow
      <4> QED  BY <4>1, <4>2 DEF Ledger!Open
    <3>2. CASE ~Ledger!Open(x)
      <4>1. snapshotRow'[x] = snapshotRow[x]
        BY <1>1, <3>2 DEF Ledger!Recover
      <4> QED  BY <3>2, <4>1 DEF Ledger!Open
    <3> QED  BY <3>1, <3>2
  <2> QED  BY <1>2, <1>3, <2>1 DEF AnalysesAgree, AnalysesMirror, EntryMirrors
<1>6. StartsFit'
  BY <1>3 DEF StartsFit
<1>7. /\ \A s \in SessionId : sessionRow'[s] # "active"
      /\ \A s \in SessionId : sessionRow[s] # "none" => sessionRow'[s] # "none"
      /\ UNCHANGED <<operationRow, requestRow, attempts>>
  BY <1>1 DEF Ledger!Recover
<1>8. ActiveSessionsAreServed'
  BY <1>7 DEF ActiveSessionsAreServed
<1>9. RowsRefer'
  <2>1. \A o \in OperationId :
           operationRow[o] # None => operationRow[o].session \in SessionId
    BY <1>2 DEF TypeOK, Ledger!LedgerTypeOK, Ledger!OperationRow
  <2> QED  BY <1>7, <2>1 DEF ServingInv, RowsRefer
<1>10. DownIsEmpty' /\ AnalysesAreServed'
  BY <1>1, <1>2 DEF DownIsEmpty, AnalysesAreServed
<1>11. Ledger!LedgerNext
  BY <1>1 DEF Ledger!LedgerNext
<1> QED
  BY <1>1, <1>4, <1>5, <1>6, <1>8, <1>9, <1>10, <1>11 DEF ServingInv

(* A crash takes the memory and leaves the rows.                              *)
LEMMA CrashKeepsServing ==
    ASSUME ServingInv, IInv', Crash
    PROVE  ServingInv'
<1>1. /\ phase' = "down"
      /\ UNCHANGED <<sessionRow, operationRow, requestRow, attempts>>
      /\ \A s \in SessionId : sessions'[s].state = "absent"
      /\ \A x \in SnapshotId : analyses'[x] = None
      /\ \A c \in Handler : task'[c].pc = "idle"
  BY DEF Crash, EmptyMemory, AbsentSession, IdleTask, store
<1>2. \A c \in Handler : ~UpdatesSessions(c)' /\ ~Starting(c)'
  BY <1>1 DEF UpdatesSessions, Starting, Catching
<1>3. SessionsAgree' /\ StartsFit'
  BY <1>1, <1>2 DEF SessionsAgree, SessionsMirror, StartsFit
<1>4. RowsRefer' /\ DownIsEmpty'
  BY <1>1 DEF ServingInv, RowsRefer, DownIsEmpty
<1>5. AnalysesAgree' /\ AnalysesAreServed' /\ ActiveSessionsAreServed'
  BY <1>1 DEF AnalysesAgree, AnalysesAreServed, ActiveSessionsAreServed
<1> QED  BY <1>1, <1>3, <1>4, <1>5 DEF ServingInv

(* A step that changes nothing.                                               *)
LEMMA StandingStillKeepsServing ==
    ASSUME ServingInv, IInv', UNCHANGED vars
    PROVE  ServingInv'
<1>1. /\ UNCHANGED <<phase, sessions, analyses, task>>
      /\ UNCHANGED <<sessionRow, operationRow, requestRow, attempts, snapshotRow>>
  BY DEF vars, store, memory
<1>2. SameUpdaters /\ SameAnalysts /\ SameStarters
  BY <1>1 DEF SameUpdaters, SameAnalysts, SameStarters, UpdatesSessions,
              UpdatesAnalyses, Starting, Catching
<1>3. ControlInv
  BY DEF ServingInv, IInv
<1>4. SessionsAgree' /\ StartsFit'
  BY <1>1, <1>2, <1>3, UntouchedStore, SessionsAgreeStays, StartsFitStays
  DEF ServingInv
<1>5. AnalysesAgree' /\ ActiveSessionsAreServed'
  BY <1>1, <1>2, AnalysesAgreeStays, ActiveStays DEF ServingInv
<1>6. RowsRefer' /\ DownIsEmpty' /\ AnalysesAreServed'
  BY <1>1 DEF ServingInv, RowsRefer, DownIsEmpty, AnalysesAreServed
<1> QED  BY <1>1, <1>4, <1>5, <1>6 DEF ServingInv

(* The first start of the daemon.                                             *)
LEMMA InitServing == Init => ServingInv
<1> SUFFICES ASSUME Init PROVE ServingInv
  OBVIOUS
<1>1. IInv
  BY InitControl, InitDurable DEF IInv
<1>2. /\ phase = "down"
      /\ \A c \in Handler : task[c].pc = "idle"
      /\ \A s \in SessionId : sessions[s].state = "absent" /\ sessionRow[s] = "none"
      /\ \A x \in SnapshotId : analyses[x] = None
      /\ \A o \in OperationId : operationRow[o] = None
      /\ \A r \in RequestId : requestRow[r] = None /\ attempts[r] = <<>>
  BY DEF Init, Ledger!LedgerInit, AbsentSession, IdleTask
<1>3. \A c \in Handler : ~UpdatesSessions(c) /\ ~Starting(c)
  BY <1>2 DEF UpdatesSessions, Starting, Catching
<1>4. SessionsAgree /\ StartsFit
  BY <1>2, <1>3 DEF SessionsAgree, SessionsMirror, StartsFit
<1>5. RowsRefer /\ DownIsEmpty /\ AnalysesAgree /\ AnalysesAreServed
         /\ ActiveSessionsAreServed
  BY <1>2 DEF RowsRefer, DownIsEmpty, AnalysesAgree, AnalysesAreServed,
              ActiveSessionsAreServed
<1> QED  BY <1>1, <1>2, <1>4, <1>5 DEF ServingInv

(* The steps of a handler leave the rows to the writer.                       *)
LEMMA HandlersLeaveRows ==
    ASSUME NEW c \in Handler, Arrive(c) \/ HandlerStep(c)
    PROVE  UNCHANGED store
<1>1. PrepareBatch(c) => UNCHANGED store
  BY DEF PrepareBatch, PrepareSession, PrepareOperation, PrepareAttempt,
         PrepareEvent, PrepareFinish, PrepareBegin, PrepareAppend,
         PrepareOutcome, Prepare
<1> QED
  BY <1>1
  DEF Arrive, HandlerStep, LockSessions, RefuseSession, LockAnalyses,
      RefuseAnalysis, Send, ReplyError, PublishSession, OperationCreated,
      ObservationCreated, AttemptPersisted, EventRecorded, SessionFinished,
      AnalysisBegun, BlocksAppended, AnalysisEnded

(* One step of the serving daemon: the invariant, and the step of Ledger.     *)
LEMMA ServingStep ==
    ASSUME ServingInv, [ServingNext]_vars
    PROVE  ServingInv' /\ [Ledger!LedgerNext]_(Ledger!ledgerVars)
<1>1. IInv'
  <2>1. [Next]_vars
    BY DEF Next
  <2> QED  BY <2>1, NextKeepsControl, NextKeepsDurable DEF ServingInv, IInv
<1>2. UNCHANGED store => UNCHANGED Ledger!ledgerVars
  BY DEF store, Ledger!ledgerVars
<1>3. ASSUME NEW c \in Handler, Arrive(c) \/ HandlerStep(c)
      PROVE  ServingInv' /\ UNCHANGED store
  <2>1. UNCHANGED store
    BY <1>3, HandlersLeaveRows
  <2>2. CASE \/ Arrive(c) \/ LockSessions(c) \/ RefuseSession(c)
             \/ LockAnalyses(c) \/ RefuseAnalysis(c) \/ PrepareBatch(c)
             \/ Send(c) \/ ReplyError(c) \/ EventRecorded(c)
    BY <1>1, <2>1, <2>2, QuietStepKeepsServing
  <2>3. CASE PublishSession(c)
    BY <1>1, <2>1, <2>3, PublishSessionKeepsServing
  <2>4. CASE \/ OperationCreated(c) \/ ObservationCreated(c)
             \/ AttemptPersisted(c) \/ SessionFinished(c)
    BY <1>1, <2>1, <2>4, SessionUpdateKeepsServing
  <2>5. CASE AnalysisBegun(c) \/ BlocksAppended(c) \/ AnalysisEnded(c)
    BY <1>1, <2>1, <2>5, AnalysisUpdateKeepsServing
  <2> QED  BY <1>3, <2>2, <2>3, <2>4, <2>5 DEF HandlerStep
<1>4. CASE Commit
  BY <1>1, <1>4, CommitImplements
<1>5. CASE RollBack
  <2>1. ServingInv' /\ UNCHANGED store
    BY <1>1, <1>5, RollBackKeepsServing DEF RollBack
  <2> QED  BY <1>2, <2>1
<1>6. CASE Start
  BY <1>1, <1>6, StartImplements
<1>7. CASE Crash
  <2>1. ServingInv' /\ UNCHANGED store
    BY <1>1, <1>7, CrashKeepsServing DEF Crash
  <2> QED  BY <1>2, <2>1
<1>8. CASE Rest \/ UNCHANGED vars
  <2>1. UNCHANGED vars /\ UNCHANGED store
    BY <1>8 DEF Rest, vars
  <2> QED  BY <1>1, <1>2, <2>1, StandingStillKeepsServing
<1> QED
  BY <1>2, <1>3, <1>4, <1>5, <1>6, <1>7, <1>8 DEF ServingNext, WriterStep

-----------------------------------------------------------------------------
(* What follows for every behaviour in which nobody asks for a stop           *)

(* The inductive invariant of the serving daemon, crashes and restarts         *)
(* included.                                                                  *)
THEOREM ServingInvHolds == ServingSpec => []ServingInv
<1>1. Init => ServingInv
  BY InitServing
<1>2. ServingInv /\ [ServingNext]_vars => ServingInv'
  BY ServingStep
<1> QED  BY <1>1, <1>2, PTL DEF ServingSpec

(* Every decision the daemon takes from its maps is one the rows allow when    *)
(* the batch commits: what it writes is a behaviour of Ledger.                 *)
THEOREM DaemonImplementsLedger == ServingSpec => ImplementsLedger
<1>1. Init => Ledger!LedgerInit
  BY DEF Init
<1>2. ServingInv /\ [ServingNext]_vars => [Ledger!LedgerNext]_(Ledger!ledgerVars)
  BY ServingStep
<1> QED
  BY <1>1, <1>2, ServingInvHolds, PTL
  DEF ServingSpec, ImplementsLedger, Ledger!LedgerSpec

(* After the startup recovery, a session whose row is active is one the        *)
(* running daemon serves, or is about to.                                      *)
THEOREM ActiveSessionsAreServedHolds == ServingSpec => []ActiveSessionsAreServed
<1>1. ServingInv => ActiveSessionsAreServed
  BY DEF ServingInv
<1> QED  BY <1>1, ServingInvHolds, PTL

(* A map that differs from the rows is under the mutex of the task that has    *)
(* just committed the difference: no other handler can read it.                *)
LEMMA ServingMirrors == ServingInv => MemoryMirrorsStore
<1> SUFFICES ASSUME ServingInv, phase = "serving" PROVE MemoryMirrorsStore
  BY DEF MemoryMirrorsStore
<1>1. ControlInv
  BY DEF ServingInv, IInv
<1>2. ASSUME NEW s \in SessionId, sessions[s].state # "absent"
      PROVE  \/ SessionMirrored(s)
             \/ \E c \in Handler : Catching(c) /\ holder["sessions"] = c
  <2>1. CASE \A c \in Handler : ~UpdatesSessions(c)
    <3>1. Mirrors(sessions[s], s)
      BY <1>2, <2>1 DEF ServingInv, SessionsAgree, SessionsMirror
    <3>2. \A o \in OperationId :
             IF sessions[s].requests[o] = None
             THEN /\ sessions[s].ordinals[o] = 0
                  /\ Ledger!InSession(o, s) =>
                        \A r \in RequestId : requestRow[r] # o
             ELSE /\ requestRow[sessions[s].requests[o]] = o
                  /\ Len(attempts[sessions[s].requests[o]]) =
                        sessions[s].ordinals[o]
      BY <3>1, NoneFacts DEF Mirrors
    <3> QED  BY <3>1, <3>2 DEF Mirrors, SessionMirrored
  <2>2. ASSUME NEW c \in Handler, UpdatesSessions(c)
        PROVE  Catching(c) /\ holder["sessions"] = c
    BY <1>1, <2>2, WaitingFacts DEF UpdatesSessions, Catching, SessionKinds
  <2> QED  BY <2>1, <2>2
<1>3. ASSUME NEW x \in SnapshotId
      PROVE  \/ AnalysisMirrored(x)
             \/ \E c \in Handler : Catching(c) /\ holder["analyses"] = c
  <2>1. CASE \A c \in Handler : ~UpdatesAnalyses(c)
    <3>1. EntryMirrors(analyses[x], x)
      BY <2>1 DEF ServingInv, AnalysesAgree, AnalysesMirror
    <3> QED  BY <3>1 DEF EntryMirrors, AnalysisMirrored
  <2>2. ASSUME NEW c \in Handler, UpdatesAnalyses(c)
        PROVE  Catching(c) /\ holder["analyses"] = c
    BY <1>1, <2>2, WaitingFacts DEF UpdatesAnalyses, Catching
  <2> QED  BY <2>1, <2>2
<1> QED  BY <1>2, <1>3 DEF MemoryMirrorsStore

(* The daemon's maps agree with the database wherever a handler could read     *)
(* them.                                                                       *)
THEOREM MemoryMirrorsStoreHolds == ServingSpec => []MemoryMirrorsStore
BY ServingMirrors, ServingInvHolds, PTL

=============================================================================
