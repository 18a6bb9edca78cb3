-------------------------- MODULE DaemonProperties --------------------------
(* What must be true of DaemonService: of its memory against the SQLite file, *)
(* of the file alone, and of its progress.                                    *)
EXTENDS DaemonService

(* A task whose batch has committed and that has not yet updated memory.      *)
Catching(c) == task[c].pc = "reply" /\ task[c].reply = "ok"

(* What one session record says is what the session's rows say.               *)
SessionMirrored(s) ==
    LET record == sessions[s] IN
    /\ sessionRow[s] = record.state
    /\ \A o \in OperationId :
          record.operations[o] =
             IF Ledger!InSession(o, s) THEN operationRow[o].kind ELSE None
    /\ \A o \in OperationId :
          IF record.requests[o] = None
          THEN /\ record.ordinals[o] = 0
               /\ Ledger!InSession(o, s) =>
                     \A r \in RequestId : requestRow[r] # o
          ELSE /\ requestRow[record.requests[o]] = o
               /\ Len(attempts[record.requests[o]]) = record.ordinals[o]

AnalysisMirrored(x) ==
    IF analyses[x] = None THEN ~Ledger!Open(x)
    ELSE /\ Ledger!Open(x)
         /\ snapshotRow[x].session = analyses[x].session
         /\ snapshotRow[x].request = analyses[x].request
         /\ snapshotRow[x].blocks = analyses[x].ordinal

(* The daemon's maps agree with the database wherever a handler could read    *)
(* them: a difference exists only under the mutex of the handler that has     *)
(* just committed it (create_operation, persist_provider_observation,         *)
(* finish_session and the context handlers keep their guard over the await).  *)
MemoryMirrorsStore ==
    phase = "serving" =>
       /\ \A s \in SessionId :
             sessions[s].state # "absent" =>
                \/ SessionMirrored(s)
                \/ \E c \in Handler : Catching(c) /\ holder["sessions"] = c
       /\ \A x \in SnapshotId :
             \/ AnalysisMirrored(x)
             \/ \E c \in Handler : Catching(c) /\ holder["analyses"] = c

(* recover_stale_sessions leaves no session active that the running daemon    *)
(* does not serve; only a start_session between its commit and its insertion  *)
(* is not in memory yet.                                                      *)
ActiveSessionsAreServed ==
    phase = "serving" =>
       \A s \in SessionId : sessionRow[s] = "active" =>
          \/ sessions[s].state = "active"
          \/ \E c \in Handler :
                Catching(c) /\ task[c].call.kind = "start"
                            /\ task[c].batch.session = s

(* Every decision taken in memory is one the rows allow at commit time.       *)
ImplementsLedger == Ledger!LedgerSpec

(* Nothing is written about a session once its row says it is closed: the      *)
(* session guard must outlive the durable append.                              *)
ClosedSessionsStayClosed == Ledger!ClosedSessionsStayClosed

(* What memory remembers was committed: it never runs ahead of the database.  *)
MemoryIsDurable ==
    /\ \A s \in SessionId : sessions[s].state # "absent" =>
          /\ sessionRow[s] # "none"
          /\ \A o \in OperationId :
                /\ sessions[s].operations[o] # None => Ledger!InSession(o, s)
                /\ sessions[s].requests[o] # None =>
                      /\ requestRow[sessions[s].requests[o]] = o
                      /\ sessions[s].ordinals[o]
                            <= Len(attempts[sessions[s].requests[o]])
    /\ \A x \in SnapshotId : analyses[x] # None =>
          snapshotRow[x] # None /\ analyses[x].ordinal <= snapshotRow[x].blocks

(* Each inference recorded by an observation has its logical request once no  *)
(* handler is still recording it.  The doc comment of                         *)
(* record_provider_observation says so of every forwarded request.            *)
ObservationIsWhole ==
    \A o \in OperationId :
       /\ operationRow[o] # None
       /\ operationRow[o].kind = "inference"
       /\ \A c \in Handler : task[c].pc = "idle"
       => \E r \in RequestId : requestRow[r] = o

(* Every request is answered, or its task is aborted or dies with the process. *)
RequestsAreAnswered ==
    \A c \in Handler : task[c].pc # "idle" ~> task[c].pc = "idle"

(* A stop ends: the aborted tasks let go, and the accepted batches drain.     *)
StopCompletes == phase = "stopping" ~> phase = "down"

=============================================================================
