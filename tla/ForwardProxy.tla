---------------------------- MODULE ForwardProxy ----------------------------
(***************************************************************************)
(* The transparent proxy around one exchange (tracepress-proxy/src/lib.rs): *)
(* forward_inner, the detached tasks it leaves behind, the deferred         *)
(* analysis queue with its byte budget and its one worker, and the barrier  *)
(* run_agent waits on before it closes the recorder.                        *)
(*                                                                          *)
(*   forward --spawn--> parse --analysis input--> trigger --enqueue--+      *)
(*      |  --spawn--> observer                       ^               |      *)
(*      +--- body dropped ---------------------------+               v      *)
(*   barrier <--- background guards (pending) ---- everything --- worker    *)
(*                                                                          *)
(* A forward is its ordinal (ForwardId).  Every atomic operation, critical  *)
(* section and notification that another thread can come between is a step. *)
(* The bytes, the parsers and what an observer makes of a response are left *)
(* out (ResponseTap has the latter), and so is the active rewrite of a      *)
(* request.  The sinks are those of ForwardRecorder: here they just return. *)
(***************************************************************************)
EXTENDS Integers, FiniteSets, FiniteSetsExt

CONSTANTS
    Forwards,       \* number of requests the clients send
    Kind,           \* kinds of exchanges: those
    Responses,      \*   on /v1/responses, which are observed,
    Compact,        \*   on /v1/responses/compact (the others are chat),
    Misrouted,      \*   whose upstream URI cannot be built,
    Zstd,           \*   observed, with a zstd body,
    Undeclared,     \*   answered without a content type,
    Unread,         \*   answered with a content type no observer reads
    Scenarios,      \* which exchanges follow each other
    WireBytes,      \* the lengths a request body of each kind may have
    Analysis,       \* ContextAnalysisMode::Shadow
    MaxItems,       \* DEFERRED_ANALYSIS_MAX_ITEMS
    MaxBytes,       \* DEFERRED_ANALYSIS_MAX_BYTES
    Decoders,       \* OBSERVATION_DECODE_CONCURRENCY_HARD_CAP
    Panics          \* kinds whose parser may fail: the runtime is shutting down

Forward == 0 .. Forwards - 1

ASSUME ProxyAssumption ==
    /\ Forwards \in Nat /\ {MaxItems, MaxBytes, Decoders} \subseteq Nat
    /\ Responses \subseteq Kind /\ Compact \subseteq Kind \ Responses
    /\ Misrouted \subseteq Kind /\ Zstd \subseteq Responses
    /\ Undeclared \subseteq Kind /\ Unread \subseteq Kind \ Undeclared
    /\ Panics \subseteq Kind /\ Scenarios \subseteq [Forward -> Kind]
    /\ WireBytes \in [Kind -> SUBSET Nat] /\ Analysis \in BOOLEAN

VARIABLES
    kind,       \* the kind of each exchange
    stage,      \* where forward_inner, then the response body, of each forward is
    task,       \* the detached tasks of each forward
    permit,     \* the DeferredAnalysisPermit of each forward: its holder, its bytes
    hint,       \* the oneshot stream hint of each forward
    decoders,   \* forwards whose parse task holds a decode permit
    budget,     \* DeferredAnalysisBudgetState
    queue,      \* DeferredAnalysisQueueState
    worker,     \* the deferred analysis worker
    active,     \* active_forwards
    pending,    \* BackgroundTracker.pending
    listening,  \* who has created a Notified that no notify_waiters woke yet
    barrier,    \* wait_for_background_tasks in run_agent
    sink,       \* history: what the sinks were given of each forward
    late        \* history: forwards accepted after the barrier was passed

vars == <<kind, stage, task, permit, hint, decoders, budget, queue, worker, active,
          pending, listening, barrier, sink, late>>

Task == {"parse", "trigger", "observer", "record"}

(* "shed": refused with the request; "cancelled": by the trigger.              *)
Evidence == {"request", "shed", "response", "failure", "compaction", "analyzed", "cancelled"}

NoPermit == [holder |-> "none", bytes |-> 0]

Init ==
    /\ kind \in Scenarios
    /\ stage = [f \in Forward |-> "new"]
    /\ task = [f \in Forward |-> [t \in Task |-> "none"]]
    /\ permit = [f \in Forward |-> NoPermit]
    /\ hint = [f \in Forward |-> "pending"]
    /\ decoders = {}
    /\ budget = [items |-> 0, bytes |-> 0]
    /\ queue = [admitted |-> {}, jobs |-> {}, running |-> FALSE]
    /\ worker = [pc |-> "none", forward |-> {}]
    /\ active = 0 /\ pending = 0 /\ listening = {}
    /\ barrier = "serving"
    /\ sink = [f \in Forward |-> [e \in Evidence |-> 0]]
    /\ late = {}

Given(f, e) == sink' = [sink EXCEPT ![f][e] = @ + 1]
-----------------------------------------------------------------------------
(* Guards.  A background guard counts its task in pending from before the     *)
(* spawn until the task is gone; then notify_waiters wakes whoever has a      *)
(* Notified.  The count and the notification are one step: a Notified made    *)
(* between them belongs to a waiter that then sees the new count.             *)
Spawn(f, t) == [task EXCEPT ![f][t] = "running"]

Gone(f, t) ==
    /\ task' = [task EXCEPT ![f][t] = "gone"]
    /\ pending' = pending - 1

Wakes(who) == listening' = listening \ who

-----------------------------------------------------------------------------
(* DeferredAnalysisBudget::try_reserve, release.                              *)
Room(bytes) ==
    /\ budget.items + 1 <= Max({MaxItems, 1})
    /\ budget.bytes + bytes <= MaxBytes

Released(f) == [items |-> budget.items - 1, bytes |-> budget.bytes - permit[f].bytes]

(* Drop of a permit: the budget, then cancel_admission and its notification.  *)
(* The admission of a job the worker has taken is gone already.               *)
DropPermit(f) ==
    /\ permit' = [permit EXCEPT ![f] = NoPermit]
    /\ budget' = Released(f)
    /\ queue' = [queue EXCEPT !.admitted = @ \ {f}]
-----------------------------------------------------------------------------
(* forward_inner.  The ordinal is allocated first; then the guards are taken. *)
Accept(f) ==
    /\ stage[f] = "new" /\ \A g \in 0 .. f - 1 : stage[g] # "new"
    /\ stage' = [stage EXCEPT ![f] = "numbered"]
    /\ UNCHANGED <<kind, task, permit, hint, decoders, budget, queue, worker, active,
                   pending, listening, barrier, sink, late>>

TakeGuards(f) ==
    /\ stage[f] = "numbered"
    /\ stage' = [stage EXCEPT ![f] = "reading"]
    /\ pending' = pending + 1 /\ active' = active + 1
    /\ late' = IF barrier = "passed" THEN late \cup {f} ELSE late
    /\ UNCHANGED <<kind, task, permit, hint, decoders, budget, queue, worker,
                   listening, barrier, sink>>

(* The body is too large, or the client leaves while it is read: no evidence. *)
BodyFails(f) ==
    /\ stage[f] = "reading"
    /\ stage' = [stage EXCEPT ![f] = "settled"]
    /\ UNCHANGED <<kind, task, permit, hint, decoders, budget, queue, worker, active,
                   pending, listening, barrier, sink, late>>

(* queue_transport_failure, queue_compaction_failure.                         *)
ReportsFailure(f) == kind[f] \in Responses \cup Compact

EndpointFails(f) ==
    /\ stage[f] = "reading" /\ kind[f] \in Misrouted
    /\ stage' = [stage EXCEPT ![f] = "settled"]
    /\ IF ReportsFailure(f)
       THEN task' = Spawn(f, "record") /\ pending' = pending + 1
       ELSE UNCHANGED <<task, pending>>
    /\ UNCHANGED <<kind, permit, hint, decoders, budget, queue, worker, active,
                   listening, barrier, sink, late>>

(* try_admit reserves room for the raw body.                                  *)
Admit(f, bytes) ==
    /\ budget' = [items |-> budget.items + 1, bytes |-> budget.bytes + bytes]
    /\ queue' = [queue EXCEPT !.admitted = @ \cup {f}]
    /\ permit' = [permit EXCEPT ![f] = [holder |-> "forward", bytes |-> bytes]]

(* queue_request_observation detaches the parser; a zstd body that gets no    *)
(* decode permit is not decoded.                                              *)
DetachParser(f) ==
    /\ task' = Spawn(f, "parse") /\ pending' = pending + 1
    /\ decoders' = IF kind[f] \in Zstd /\ Cardinality(decoders) < Decoders
                   THEN decoders \cup {f} ELSE decoders

(* The request goes out; the parser reports a refused admission with it.      *)
Dispatch(f, bytes) ==
    LET context == Analysis /\ kind[f] \in Responses
    IN  /\ stage[f] = "reading" /\ kind[f] \notin Misrouted
        /\ stage' = [stage EXCEPT ![f] = "sending"]
        /\ IF context /\ Room(bytes)
           THEN Admit(f, bytes)
           ELSE UNCHANGED <<budget, queue, permit>>
        /\ IF context /\ ~Room(bytes) THEN Given(f, "shed") ELSE UNCHANGED sink
        /\ IF kind[f] \in Responses
           THEN DetachParser(f)
           ELSE UNCHANGED <<task, pending, decoders>>
        /\ UNCHANGED <<kind, hint, worker, active, listening, barrier, late>>

(* Whether the exchange still holds its admission, and so starts a trigger.   *)
Started(f) == permit[f].holder = "forward"

(* The client leaves: the future is dropped with the observation it holds.    *)
ClientLeaves(f) ==
    /\ stage[f] = "sending"
    /\ stage' = [stage EXCEPT ![f] = "settled"]
    /\ IF Started(f) THEN DropPermit(f) /\ Wakes({"queue"})
                     ELSE UNCHANGED <<permit, budget, queue, listening>>
    /\ UNCHANGED <<kind, task, hint, decoders, worker, active, pending, barrier, sink, late>>

(* Seeded fault: a forward the upstream did not answer is not analyzed.       *)
UpstreamFailsSilently(f) ==
    /\ stage[f] = "sending"
    /\ stage' = [stage EXCEPT ![f] = "settled"]
    /\ IF Started(f) THEN DropPermit(f) /\ Wakes({"queue"})
                     ELSE UNCHANGED <<permit, budget, queue, listening>>
    /\ task' = [task EXCEPT ![f].record = IF ReportsFailure(f) THEN "running" ELSE @]
    /\ pending' = pending + Cardinality({i \in {1} : ReportsFailure(f)})
    /\ UNCHANGED <<kind, hint, decoders, worker, active, barrier, sink, late>>

UpstreamFails(f) ==
    /\ stage[f] = "sending"
    /\ stage' = [stage EXCEPT ![f] = "settled"]
    /\ task' = [task EXCEPT
                 ![f].trigger = IF Started(f) THEN "running" ELSE @,
                 ![f].record = IF ReportsFailure(f) THEN "running" ELSE @]
    /\ pending' = pending + Cardinality({i \in {1} : Started(f)})
                          + Cardinality({i \in {1} : ReportsFailure(f)})
    /\ permit' = IF Started(f) THEN [permit EXCEPT ![f].holder = "trigger"] ELSE permit
    /\ UNCHANGED <<kind, hint, decoders, budget, queue, worker, active, listening,
                   barrier, sink, late>>

(* response_mode: what the upstream declared selects the tap; without a       *)
(* declaration the hint of the request does, which only an analyzed forward   *)
(* keeps.                                                                     *)
Tapped(f) ==
    /\ kind[f] \in Responses \ Unread
    /\ kind[f] \in Undeclared => Analysis

UpstreamAnswers(f) ==
    /\ stage[f] = "sending"
    /\ stage' = [stage EXCEPT ![f] = "streaming"]
    /\ IF Tapped(f)
       THEN task' = Spawn(f, "observer") /\ pending' = pending + 1
       ELSE UNCHANGED <<task, pending>>
    /\ UNCHANGED <<kind, permit, hint, decoders, budget, queue, worker, active,
                   listening, barrier, sink, late>>

(* The response body ends, fails, passes its bound or loses its client: a tap *)
(* lets go of its observer; CompactionTapState::settle queues its record.     *)
BodySettles(f) ==
    /\ stage[f] = "streaming"
    /\ stage' = [stage EXCEPT ![f] = "settled"]
    /\ IF kind[f] \in Compact
       THEN task' = Spawn(f, "record") /\ pending' = pending + 1
       ELSE UNCHANGED <<task, pending>>
    /\ UNCHANGED <<kind, permit, hint, decoders, budget, queue, worker, active,
                   listening, barrier, sink, late>>

(* Drop of the body (or of the future): the active guard, the trigger, the    *)
(* background guard.                                                          *)
DropActive(f) ==
    /\ stage[f] = "settled"
    /\ stage' = [stage EXCEPT ![f] = "quiet"]
    /\ active' = active - 1
    /\ Wakes({"active"})
    /\ UNCHANGED <<kind, task, permit, hint, decoders, budget, queue, worker, pending,
                   barrier, sink, late>>

(* Seeded fault: the trigger is detached without a background guard.          *)
StartTriggerUnguarded(f) ==
    /\ stage[f] = "quiet"
    /\ stage' = [stage EXCEPT ![f] = "started"]
    /\ IF Started(f)
       THEN /\ task' = Spawn(f, "trigger")
            /\ permit' = [permit EXCEPT ![f].holder = "trigger"]
       ELSE UNCHANGED <<task, permit>>
    /\ UNCHANGED <<kind, hint, decoders, budget, queue, worker, active, pending, listening,
                   barrier, sink, late>>

StartTrigger(f) ==
    /\ stage[f] = "quiet"
    /\ stage' = [stage EXCEPT ![f] = "started"]
    /\ IF Started(f)
       THEN /\ task' = Spawn(f, "trigger") /\ pending' = pending + 1
            /\ permit' = [permit EXCEPT ![f].holder = "trigger"]
       ELSE UNCHANGED <<task, pending, permit>>
    /\ UNCHANGED <<kind, hint, decoders, budget, queue, worker, active, listening,
                   barrier, sink, late>>

(* Seeded fault: the count of guards goes down without a notification.       *)
DropGuardUnnoticed(f) ==
    /\ stage[f] = "started"
    /\ stage' = [stage EXCEPT ![f] = "gone"]
    /\ pending' = pending - 1
    /\ UNCHANGED <<kind, task, permit, hint, decoders, budget, queue, worker, active,
                   listening, barrier, sink, late>>

DropGuard(f) ==
    /\ stage[f] = "started"
    /\ stage' = [stage EXCEPT ![f] = "gone"]
    /\ pending' = pending - 1
    /\ Wakes({"barrier"})
    /\ UNCHANGED <<kind, task, permit, hint, decoders, budget, queue, worker, active,
                   barrier, sink, late>>
-----------------------------------------------------------------------------
(* The detached tasks.  The parser records the request, sends the stream hint *)
(* and then the analysis input; when it fails both senders are dropped.  The  *)
(* hint is only enumerated where it may matter.                               *)
Undecoded(f) == kind[f] \in Zstd /\ f \notin decoders

Parse(f) ==
    /\ task[f].parse = "running"
    /\ Given(f, "request")
    /\ \E stream \in {"known", "unknown"} :
          /\ stream = "unknown" => Undecoded(f) \/ kind[f] \in Undeclared
          /\ stream = "known" => ~Undecoded(f)
          /\ hint' = [hint EXCEPT ![f] = stream]
    /\ Gone(f, "parse")
    /\ decoders' = decoders \ {f}
    /\ Wakes({"barrier"})
    /\ UNCHANGED <<kind, stage, permit, budget, queue, worker, active, barrier, late>>

ParseFails(f) ==
    /\ kind[f] \in Panics /\ task[f].parse = "running"
    /\ hint' = [hint EXCEPT ![f] = "closed"]
    /\ Gone(f, "parse")
    /\ decoders' = decoders \ {f}
    /\ Wakes({"barrier"})
    /\ UNCHANGED <<kind, stage, permit, budget, queue, worker, active, barrier, sink, late>>

(* queue_transport_failure, queue_compaction_observation.                     *)
Record(f) ==
    /\ task[f].record = "running"
    /\ Given(f, IF kind[f] \in Compact THEN "compaction" ELSE "failure")
    /\ Gone(f, "record") /\ Wakes({"barrier"})
    /\ UNCHANGED <<kind, stage, permit, hint, decoders, budget, queue, worker, active,
                   barrier, late>>

(* observe_response_task: resolve_mode first, then the chunks until the       *)
(* sender is gone.                                                            *)
Observe(f) ==
    /\ task[f].observer = "running"
    /\ kind[f] \in Undeclared => hint[f] # "pending"
    /\ IF kind[f] \in Undeclared /\ hint[f] \in {"unknown", "closed"}
       THEN UNCHANGED sink
       ELSE stage[f] # "streaming" /\ Given(f, "response")
    /\ Gone(f, "observer") /\ Wakes({"barrier"})
    /\ UNCHANGED <<kind, stage, permit, hint, decoders, budget, queue, worker, active,
                   barrier, late>>

(* The trigger waits for the analysis input; without one it reports the loss  *)
(* and gives its permit back.                                                 *)
TriggerIsCancelled(f) ==
    /\ task[f].trigger = "running" /\ hint[f] = "closed"
    /\ Given(f, "cancelled")
    /\ DropPermit(f)
    /\ Gone(f, "trigger") /\ Wakes({"queue", "barrier"})
    /\ UNCHANGED <<kind, stage, hint, decoders, worker, active, barrier, late>>

(* After the quiescence window it enqueues: the job and worker_running change *)
(* in one critical section, then the worker is notified, then spawned.        *)
Enqueue(f) ==
    /\ task[f].trigger = "running" /\ hint[f] \notin {"pending", "closed"}
    /\ queue' = [queue EXCEPT !.jobs = @ \cup {f}, !.running = TRUE]
    /\ permit' = [permit EXCEPT ![f].holder = "job"]
    /\ task' = [task EXCEPT ![f].trigger = IF queue.running THEN "joining" ELSE "starting"]
    /\ UNCHANGED <<kind, stage, hint, decoders, budget, worker, active, pending,
                   listening, barrier, sink, late>>

NotifyWorker(f) ==
    /\ task[f].trigger \in {"joining", "starting"}
    /\ IF task[f].trigger = "joining"
       THEN Gone(f, "trigger") /\ Wakes({"queue", "barrier"})
       ELSE /\ task' = [task EXCEPT ![f].trigger = "spawning"]
            /\ Wakes({"queue"}) /\ UNCHANGED pending
    /\ UNCHANGED <<kind, stage, permit, hint, decoders, budget, queue, worker, active,
                   barrier, sink, late>>

(* The trigger's guard is given back after the worker has its own.            *)
SpawnWorker(f) ==
    /\ task[f].trigger = "spawning" /\ worker.pc = "none"
    /\ worker' = [worker EXCEPT !.pc = "checking"]
    /\ task' = [task EXCEPT ![f].trigger = "gone"]
    /\ UNCHANGED <<kind, stage, permit, hint, decoders, budget, queue, active, pending,
                   listening, barrier, sink, late>>
-----------------------------------------------------------------------------
(* The worker.  wait_for_forwarding_idle: check, create a Notified, check     *)
(* again, wait.                                                               *)
WorkerMoves(from, to) ==
    /\ worker.pc = from
    /\ worker' = [worker EXCEPT !.pc = to]
    /\ UNCHANGED <<kind, stage, task, permit, hint, decoders, budget, active, pending,
                   barrier, sink, late>>

WorkerChecks ==
    /\ WorkerMoves("checking", IF active = 0 THEN "idle" ELSE "arming")
    /\ UNCHANGED <<queue, listening>>

WorkerArms ==
    /\ WorkerMoves("arming", "rechecking")
    /\ listening' = listening \cup {"active"}
    /\ UNCHANGED queue

WorkerRechecks ==
    /\ WorkerMoves("rechecking", IF active = 0 THEN "idle" ELSE "blocked")
    /\ UNCHANGED <<queue, listening>>

WorkerWakes ==
    /\ "active" \notin listening
    /\ WorkerMoves("blocked", "checking")
    /\ UNCHANGED <<queue, listening>>

(* The Notified of the queue exists before next_ready looks at the queue.     *)
WorkerListens ==
    /\ WorkerMoves("idle", "taking")
    /\ listening' = (listening \ {"active"}) \cup {"queue"}
    /\ UNCHANGED queue

(* next_ready: the smallest admitted forward, or nothing.                     *)
First == Min(queue.admitted)

TakeReady ==
    /\ worker.pc = "taking" /\ queue.admitted # {} /\ First \in queue.jobs
    /\ queue' = [queue EXCEPT !.jobs = @ \ {First}, !.admitted = @ \ {First}]
    /\ permit' = [permit EXCEPT ![First].holder = "worker"]
    /\ worker' = [pc |-> "analyzing", forward |-> {First}]
    /\ listening' = listening \ {"queue"}
    /\ UNCHANGED <<kind, stage, task, hint, decoders, budget, active, pending, barrier, sink, late>>

NothingReady ==
    /\ queue.admitted # {} /\ First \notin queue.jobs
    /\ WorkerMoves("taking", "starved")
    /\ UNCHANGED <<queue, listening>>

WorkerIsFed ==
    /\ "queue" \notin listening
    /\ WorkerMoves("starved", "checking")
    /\ UNCHANGED <<queue, listening>>

NothingAdmitted ==
    /\ worker.pc = "taking" /\ queue.admitted = {}
    /\ queue' = [queue EXCEPT !.running = FALSE]
    /\ worker' = [worker EXCEPT !.pc = "none"]
    /\ pending' = pending - 1
    /\ Wakes({"queue", "barrier"})
    /\ UNCHANGED <<kind, stage, task, permit, hint, decoders, budget, active, barrier, sink, late>>

(* The blocking analysis decodes and analyzes, or drops (or fails: Cancelled); *)
(* it gives the permit back before its outcome reaches the sink.              *)
Analyze ==
    /\ worker.pc = "analyzing"
    /\ \E f \in worker.forward : DropPermit(f)
    /\ Wakes({"queue"})
    /\ worker' = [worker EXCEPT !.pc = "reporting"]
    /\ UNCHANGED <<kind, stage, task, hint, decoders, active, pending, barrier, sink, late>>

ReportAnalysis ==
    /\ worker.pc = "reporting"
    /\ \E f \in worker.forward : Given(f, "analyzed")
    /\ worker' = [pc |-> "checking", forward |-> {}]
    /\ UNCHANGED <<kind, stage, task, permit, hint, decoders, budget, queue, active,
                   pending, listening, barrier, late>>
-----------------------------------------------------------------------------
(* BackgroundTracker::wait, once the agent has exited.                        *)
BarrierMoves(from, to) ==
    /\ barrier = from /\ barrier' = to
    /\ UNCHANGED <<kind, stage, task, permit, hint, decoders, budget, queue, worker,
                   active, pending, sink, late>>

BarrierArms ==
    /\ \/ BarrierMoves("serving", "armed")
       \/ "barrier" \notin listening /\ BarrierMoves("waiting", "armed")
    /\ listening' = listening \cup {"barrier"}

BarrierChecks ==
    /\ BarrierMoves("armed", IF pending = 0 THEN "passed" ELSE "waiting")
    /\ listening' = IF pending = 0 THEN listening \ {"barrier"} ELSE listening
-----------------------------------------------------------------------------
ForwardStep(f) ==
    \/ TakeGuards(f) \/ BodyFails(f) \/ EndpointFails(f)
    \/ \E bytes \in WireBytes[kind[f]] : Dispatch(f, bytes)
    \/ ClientLeaves(f) \/ UpstreamFails(f) \/ UpstreamAnswers(f) \/ BodySettles(f)
    \/ DropActive(f) \/ StartTrigger(f) \/ DropGuard(f)

TaskStep(f) ==
    \/ Parse(f) \/ ParseFails(f) \/ Record(f) \/ Observe(f)
    \/ TriggerIsCancelled(f) \/ Enqueue(f) \/ NotifyWorker(f) \/ SpawnWorker(f)

WorkerStep ==
    \/ WorkerChecks \/ WorkerArms \/ WorkerRechecks \/ WorkerWakes
    \/ WorkerListens \/ TakeReady \/ NothingReady \/ WorkerIsFed
    \/ NothingAdmitted \/ Analyze \/ ReportAnalysis

BarrierStep == BarrierArms \/ BarrierChecks

(* Everything is over: the recorder may be closed.                            *)
Over ==
    /\ barrier = "passed"
    /\ \A f \in Forward :
          stage[f] = "gone" /\ \A t \in Task : task[f][t] \in {"none", "gone"}
    /\ UNCHANGED vars

Next ==
    \/ Over
    \/ \E f \in Forward : Accept(f) \/ ForwardStep(f) \/ TaskStep(f)
    \/ WorkerStep
    \/ BarrierStep

(* The runtime runs every ready task, and clients hang up in the end: those of *)
(* an agent that has exited do.                                               *)
Spec ==
    /\ Init /\ [][Next]_vars
    /\ \A f \in Forward : WF_vars(ForwardStep(f)) /\ WF_vars(TaskStep(f))
    /\ WF_vars(WorkerStep) /\ WF_vars(BarrierStep)
=============================================================================
