------------------------------- MODULE Ledger -------------------------------
(***************************************************************************)
(* What the daemon promises about its SQLite file, with no daemon in sight: *)
(* the rows, and the transactions that may change them.  Every guard here   *)
(* reads the rows themselves.  DaemonService takes the same decisions from  *)
(* memory, and is shown to implement this specification.                    *)
(***************************************************************************)
EXTENDS Naturals, Sequences

CONSTANTS
    SessionId, OperationId, RequestId, SnapshotId, None,
    MaxBlocks    \* ContextAnalysisLimits::MAX_BLOCKS

ASSUME MaxBlocksAssumption == MaxBlocks \in Nat

VARIABLES
    sessionRow,    \* sessions.state by session_id, "none" when there is no row
    operationRow,  \* operations with their causal edge
    requestRow,    \* provider_requests.operation_id by request_id
    attempts,      \* provider_attempts.ordinal by request_id, in commit order
    snapshotRow,   \* context_snapshots with their blocks and terminal events
    eventRows      \* events that carry a session and no operation

ledgerVars ==
    <<sessionRow, operationRow, requestRow, attempts, snapshotRow, eventRows>>

-----------------------------------------------------------------------------
(* OperationKind, reduced to whether provider observations may be attached. *)
Kind == {"agent", "inference"}

OperationRow ==
    [session : SessionId, kind : Kind, parent : OperationId \cup {None},
     status : {"started", "finished"}]

(* A snapshot is open while completed_at_us and recovered_at_us are NULL.   *)
SnapshotRow ==
    [session : SessionId, request : RequestId,
     state : {"open", "ended", "recovered"},
     blocks : Nat, count : Nat \cup {None}, terminals : Nat]

ASSUME NoneAssumption ==
    /\ None \notin SessionId \cup OperationId \cup RequestId \cup SnapshotId
    /\ None \notin Nat \cup OperationRow \cup SnapshotRow

LedgerTypeOK ==
    /\ sessionRow \in [SessionId -> {"none", "active", "closed", "stale"}]
    /\ operationRow \in [OperationId -> OperationRow \cup {None}]
    /\ requestRow \in [RequestId -> OperationId \cup {None}]
    /\ attempts \in [RequestId -> Seq(Nat)]
    /\ snapshotRow \in [SnapshotId -> SnapshotRow \cup {None}]
    /\ eventRows \in [SessionId -> Nat]

LedgerInit ==
    /\ sessionRow = [s \in SessionId |-> "none"]
    /\ operationRow = [o \in OperationId |-> None]
    /\ requestRow = [r \in RequestId |-> None]
    /\ attempts = [r \in RequestId |-> <<>>]
    /\ snapshotRow = [x \in SnapshotId |-> None]
    /\ eventRows = [s \in SessionId |-> 0]

-----------------------------------------------------------------------------
InSession(o, s) == operationRow[o] # None /\ operationRow[o].session = s

Open(x) == snapshotRow[x] # None /\ snapshotRow[x].state = "open"

(* Seeded fault: an outcome that is written without its lifecycle event.      *)
EndedSilently(row, state, count) ==
    [row EXCEPT !.state = state, !.count = count]

(* A snapshot row after its one terminal outcome and lifecycle event.       *)
Ended(row, state, count) ==
    [row EXCEPT !.state = state, !.count = count, !.terminals = @ + 1]

Completed(row) == [row EXCEPT !.status = "finished"]

Extended(row, n) == [row EXCEPT !.blocks = @ + n]

-----------------------------------------------------------------------------
OpenSession(s) ==
    /\ sessionRow[s] = "none"
    /\ sessionRow' = [sessionRow EXCEPT ![s] = "active"]
    /\ UNCHANGED <<operationRow, requestRow, attempts, snapshotRow, eventRows>>

StartOperation(o, s, kind, parent) ==
    /\ sessionRow[s] = "active"
    /\ operationRow[o] = None
    /\ parent # None => InSession(parent, s)
    /\ operationRow' = [operationRow EXCEPT ![o] =
          [session |-> s, kind |-> kind, parent |-> parent,
           status |-> "started"]]
    /\ UNCHANGED <<sessionRow, requestRow, attempts, snapshotRow, eventRows>>

(* Seeded fault: every attempt, a retry too, creates a request.               *)
RecordAttemptAnew(o, r, terminal) ==
    /\ operationRow[o] # None
    /\ operationRow[o].kind = "inference"
    /\ sessionRow[operationRow[o].session] = "active"
    /\ requestRow[r] = None
    /\ requestRow' = [requestRow EXCEPT ![r] = o]
    /\ attempts' = [attempts EXCEPT ![r] = Append(@, Len(@))]
    /\ UNCHANGED <<sessionRow, operationRow, snapshotRow, eventRows>>

(* One attempt: the first one of an operation also creates its request, and *)
(* ordinals are consecutive.                                                *)
RecordAttempt(o, r, terminal) ==
    /\ operationRow[o] # None
    /\ operationRow[o].kind = "inference"
    /\ sessionRow[operationRow[o].session] = "active"
    /\ \A q \in RequestId : requestRow[q] = o => q = r
    /\ requestRow[r] \in {o, None}
    /\ requestRow' = [requestRow EXCEPT ![r] = o]
    /\ attempts' = [attempts EXCEPT ![r] = Append(@, Len(@))]
    /\ operationRow' =
          IF terminal THEN [operationRow EXCEPT ![o] = Completed(@)]
                      ELSE operationRow
    /\ UNCHANGED <<sessionRow, snapshotRow, eventRows>>

(* Seeded fault: the event is appended without asking whether the session is  *)
(* still active.                                                              *)
RecordEventAnyway(s) ==
    /\ sessionRow[s] # "none"
    /\ eventRows' = [eventRows EXCEPT ![s] = @ + 1]
    /\ UNCHANGED <<sessionRow, operationRow, requestRow, attempts, snapshotRow>>

RecordEvent(s) ==
    /\ sessionRow[s] = "active"
    /\ eventRows' = [eventRows EXCEPT ![s] = @ + 1]
    /\ UNCHANGED <<sessionRow, operationRow, requestRow, attempts, snapshotRow>>

BeginSnapshot(x, s, r) ==
    /\ sessionRow[s] = "active"
    /\ snapshotRow[x] = None
    /\ requestRow[r] # None
    /\ InSession(requestRow[r], s)
    /\ \A y \in SnapshotId :
          snapshotRow[y] # None => snapshotRow[y].request # r
    /\ snapshotRow' = [snapshotRow EXCEPT ![x] =
          [session |-> s, request |-> r, state |-> "open",
           blocks |-> 0, count |-> None, terminals |-> 0]]
    /\ UNCHANGED <<sessionRow, operationRow, requestRow, attempts, eventRows>>

AppendBlocks(x, n) ==
    /\ Open(x)
    /\ snapshotRow[x].blocks + n <= MaxBlocks
    /\ sessionRow[snapshotRow[x].session] = "active"
    /\ snapshotRow' = [snapshotRow EXCEPT ![x] = Extended(@, n)]
    /\ UNCHANGED <<sessionRow, operationRow, requestRow, attempts, eventRows>>

EndSnapshot(x) ==
    /\ Open(x)
    /\ sessionRow[snapshotRow[x].session] = "active"
    /\ \E count \in {snapshotRow[x].blocks, None} :
          snapshotRow' =
             [snapshotRow EXCEPT ![x] = Ended(@, "ended", count)]
    /\ UNCHANGED <<sessionRow, operationRow, requestRow, attempts, eventRows>>

(* Seeded fault: the session closes and its analyses stay open.               *)
CloseSessionOnly(s) ==
    /\ sessionRow[s] = "active"
    /\ sessionRow' = [sessionRow EXCEPT ![s] = "closed"]
    /\ UNCHANGED <<operationRow, requestRow, attempts, snapshotRow, eventRows>>

(* Closing a session ends every analysis it still has, in one transaction.  *)
CloseSession(s) ==
    /\ sessionRow[s] = "active"
    /\ sessionRow' = [sessionRow EXCEPT ![s] = "closed"]
    /\ snapshotRow' = [x \in SnapshotId |->
          IF Open(x) /\ snapshotRow[x].session = s
          THEN Ended(snapshotRow[x], "ended", snapshotRow[x].blocks)
          ELSE snapshotRow[x]]
    /\ UNCHANGED <<operationRow, requestRow, attempts, eventRows>>

(* Startup recovery: nothing an earlier process left running stays running. *)
Recover ==
    /\ sessionRow' = [s \in SessionId |->
          IF sessionRow[s] = "active" THEN "stale" ELSE sessionRow[s]]
    /\ snapshotRow' = [x \in SnapshotId |->
          IF Open(x)
          THEN Ended(snapshotRow[x], "recovered", snapshotRow[x].count)
          ELSE snapshotRow[x]]
    /\ UNCHANGED <<operationRow, requestRow, attempts, eventRows>>

LedgerNext ==
    \/ \E s \in SessionId : OpenSession(s) \/ RecordEvent(s) \/ CloseSession(s)
    \/ \E o \in OperationId, s \in SessionId, kind \in Kind,
          parent \in OperationId \cup {None} : StartOperation(o, s, kind, parent)
    \/ \E o \in OperationId, r \in RequestId, terminal \in BOOLEAN :
          RecordAttempt(o, r, terminal)
    \/ \E x \in SnapshotId, s \in SessionId, r \in RequestId :
          BeginSnapshot(x, s, r)
    \/ \E x \in SnapshotId, n \in 1..MaxBlocks : AppendBlocks(x, n)
    \/ \E x \in SnapshotId : EndSnapshot(x)
    \/ Recover

LedgerSpec == LedgerInit /\ [][LedgerNext]_ledgerVars
-----------------------------------------------------------------------------
(* An analysis still open belongs to a session still active: finish_session   *)
(* and recover_stale_sessions end the analyses of the sessions they end.       *)
OpenAnalysesAreActive ==
    \A x \in SnapshotId :
       Open(x) => sessionRow[snapshotRow[x].session] = "active"

(* An analysis gets exactly one terminal outcome and one terminal event, of   *)
(* whichever path ends it (finalize, abort, finish_session, recovery); it has *)
(* no block count before, and the count recorded then, if any, is the number  *)
(* of its stored blocks.                                                      *)
AnalysesEndOnce ==
    \A x \in SnapshotId : snapshotRow[x] # None =>
       /\ snapshotRow[x].terminals = IF Open(x) THEN 0 ELSE 1
       /\ snapshotRow[x].count # None =>
             ~Open(x) /\ snapshotRow[x].count = snapshotRow[x].blocks

(* persist_provider_observation keeps one logical request per inference over   *)
(* its retries, and attempt ordinals have no gap and no repetition.           *)
AttemptsAreConsecutive ==
    /\ \A q, r \in RequestId :
          requestRow[q] # None /\ requestRow[q] = requestRow[r] => q = r
    /\ \A r \in RequestId : \A i \in DOMAIN attempts[r] : attempts[r][i] = i - 1

(* A causal edge joins two operations of one session, and an analysis is of a  *)
(* request of its own session (create_operation, begin_context_analysis).      *)
AssociationsStayInSession ==
    /\ \A o \in OperationId :
          operationRow[o] # None /\ operationRow[o].parent # None
             => InSession(operationRow[o].parent, operationRow[o].session)
    /\ \A x \in SnapshotId : snapshotRow[x] # None =>
          /\ requestRow[snapshotRow[x].request] # None
          /\ InSession(requestRow[snapshotRow[x].request], snapshotRow[x].session)

(* The rows of one session.                                                   *)
Rows(s) ==
    <<eventRows[s],
      {o \in OperationId : InSession(o, s)},
      [r \in {q \in RequestId : requestRow[q] # None
                 /\ InSession(requestRow[q], s)} |-> attempts[r]],
      [x \in {y \in SnapshotId : snapshotRow[y] # None
                 /\ snapshotRow[y].session = s} |-> snapshotRow[x]]>>

(* No handler writes about a session whose row says it is closed: the event    *)
(* recorders and append, abort and finalize included.                          *)
ClosedSessionsStayClosed ==
    [][\A s \in SessionId : sessionRow[s] = "closed" =>
          sessionRow'[s] = "closed" /\ Rows(s)' = Rows(s)]_ledgerVars
=============================================================================
