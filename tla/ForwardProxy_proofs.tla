------------------------ MODULE ForwardProxy_proofs ------------------------
(* The safety of ForwardProxy for any number of forwards and any bounds: one  *)
(* report per admission, a barrier that covers what detached, and the order   *)
(* of the deferred analyses.                                                  *)
EXTENDS ProxyProperties, FiniteSetTheorems, WellFoundedInduction, TLAPS

-----------------------------------------------------------------------------
(* The inductive invariant                                                    *)

Early == {"new", "numbered"}
Stage == Early \cup {"reading", "sending", "streaming", "settled", "quiet", "started", "gone"}
Ended == {"none", "gone"}
HandingOver == {"joining", "starting", "spawning"}
Holder == {"none", "forward", "trigger", "job", "worker"}

Mode == Ended \cup {"running"} \cup HandingOver
Stages == [Forward -> Stage]
Tasks == [Forward -> [Task -> Mode]]
Permits == [Forward -> [holder : Holder, bytes : Nat]]
Sinks == [Forward -> [Evidence -> Nat]]
Queues == [admitted : SUBSET Forward, jobs : SUBSET Forward, running : BOOLEAN]
Workers ==
    [pc : {"none", "checking", "arming", "rechecking", "blocked", "idle",
           "taking", "starved", "analyzing", "reporting"},
     forward : SUBSET Forward]

(* The types that ProxyTypeOK leaves to the form of the model.                *)
FlowTypes == stage \in Stages /\ task \in Tasks /\ permit \in Permits /\ sink \in Sinks

ProxyTypes ==
    /\ FlowTypes
    /\ kind \in [Forward -> Kind]
    /\ hint \in [Forward -> {"pending", "known", "unknown", "closed"}]
    /\ decoders \in SUBSET Forward
    /\ budget \in [items : Int, bytes : Int]
    /\ queue \in Queues
    /\ worker \in Workers
    /\ active \in Int /\ pending \in Int
    /\ listening \in SUBSET {"active", "queue", "barrier"}
    /\ barrier \in {"serving", "armed", "waiting", "passed"}
    /\ late \in SUBSET Forward

(* What a forward has detached by the stage it is in.                         *)
StageFits(f) ==
    /\ stage[f] \in Early \cup {"reading"} =>
          /\ \A t \in Task : task[f][t] = "none"
          /\ \A e \in Evidence : sink[f][e] = 0
    /\ stage[f] = "sending" => task[f].observer = "none"
    /\ stage[f] \in {"sending", "streaming"} => task[f].record = "none"

(* A permit is held by exactly one of the parties, and that party is there.   *)
PermitFits(f) ==
    /\ permit[f].holder = "forward" =>
          /\ stage[f] \in {"sending", "streaming", "settled", "quiet"}
          /\ task[f].trigger = "none"
    /\ permit[f].holder = "trigger" <=> task[f].trigger = "running"
    /\ permit[f].holder = "job" <=> f \in queue.jobs
    /\ permit[f].holder = "worker" <=> worker.pc = "analyzing" /\ f \in worker.forward
    /\ permit[f].holder = "job" \/ f \in worker.forward =>
          task[f].trigger \in HandingOver \cup {"gone"}
    /\ worker.pc = "reporting" /\ f \in worker.forward => permit[f].holder = "none"
    /\ f \in queue.admitted <=> permit[f].holder \in {"forward", "trigger", "job"}

WorkerFits ==
    IF worker.pc \in {"analyzing", "reporting"}
    THEN \E f \in Forward : worker.forward = {f}
    ELSE worker.forward = {}

(* Jobs wait for a worker that is there or about to be spawned.               *)
QueueIsServed ==
    /\ queue.jobs # {} => queue.running
    /\ queue.running => \/ worker.pc # "none"
                        \/ \E f \in Forward : task[f].trigger \in {"starting", "spawning"}

PlaceInv ==
    /\ ProxyTypes
    /\ \A f \in Forward : StageFits(f) /\ PermitFits(f)
    /\ WorkerFits /\ QueueIsServed

(* The admission of f is still on its way to a report.                        *)
Owned(f) == f \in Held \cup worker.forward

Accounted(f) == Owned(f) \/ Reports(f) = 1

(* One report, when the admission is over; and only a client that leaves ends *)
(* an admission without a report, before anything told of an outcome.         *)
ReportFits(f) ==
    /\ Owned(f) => Reports(f) = 0
    /\ Reports(f) <= 1
    /\ task[f].trigger # "none" => Accounted(f)
    /\ Analysis /\ kind[f] \in Responses /\ stage[f] = "sending"
         => permit[f].holder = "forward" \/ Reports(f) = 1
    /\ Analysis /\ kind[f] \in Responses /\ stage[f] = "streaming" => Accounted(f)
    /\ task[f].observer # "none" => kind[f] \in Responses /\ (Analysis => Accounted(f))
    /\ task[f].record # "none" =>
          /\ kind[f] \in Responses \cup Compact
          /\ Analysis /\ kind[f] \in Responses \ Misrouted => Accounted(f)
    /\ sink[f].response > 0 => task[f].observer = "gone"
    /\ sink[f].failure > 0 => task[f].record = "gone" /\ kind[f] \notin Compact

ReportInv == \A f \in Forward : ReportFits(f)

(* The background guards: of the exchanges, of the tasks, of the worker.      *)
Guarding(S) == {f \in Forward : S[f] \notin Early \cup {"gone"}}
Running(T) == {x \in Forward \X Task : T[x[1]][x[2]] \notin Ended}
Count(P) == IF P THEN 1 ELSE 0

GuardsAreCounted ==
    pending = Cardinality(Guarding(stage)) + Cardinality(Running(task))
                 + Count(worker.pc # "none")

BarrierInv == GuardsAreCounted /\ BarrierCoversItsForwards

(* The counters of the live permits and exchanges are what they count, and    *)
(* the deferred queue and the decoders stay within their bounds.              *)
Forwarding(S) == {f \in Forward : S[f] \in {"reading", "sending", "streaming", "settled"}}

PermitsAreCounted ==
    /\ budget.items = Cardinality(Held)
    /\ budget.items <= Max({MaxItems, 1})
    /\ budget.bytes <= MaxBytes

DecodersFit == Cardinality(decoders) <= Decoders

ActiveIsCounted == active = Cardinality(Forwarding(stage))

BudgetIsKept == PermitsAreCounted /\ DecodersFit /\ ActiveIsCounted

-----------------------------------------------------------------------------
(* Types                                                                      *)

(* Every step of forward_inner writes one stage.                              *)
LEMMA StageSet ==
  ASSUME NEW S \in Stages, NEW f \in Forward, NEW to \in Stage
  PROVE  [S EXCEPT ![f] = to] \in Stages
  BY DEF Stages

(* A task is spawned, moves on or ends alone.                                 *)
LEMMA TaskSet ==
  ASSUME NEW T \in Tasks, NEW f \in Forward, NEW t \in Task, NEW m \in Mode
  PROVE  [T EXCEPT ![f][t] = m] \in Tasks
  BY DEF Tasks

(* A permit is given, handed over or dropped.                                 *)
LEMMA PermitSet ==
  ASSUME NEW P \in Permits, NEW f \in Forward
  PROVE  /\ [P EXCEPT ![f] = NoPermit] \in Permits
         /\ \A h \in Holder : [P EXCEPT ![f].holder = h] \in Permits
         /\ \A h \in Holder, b \in Nat :
               [P EXCEPT ![f] = [holder |-> h, bytes |-> b]] \in Permits
         /\ P[f].bytes \in Nat
  BY DEF Permits, NoPermit, Holder

(* A sink is given one more piece of evidence.                                *)
LEMMA SinkSet ==
  ASSUME NEW S \in Sinks, NEW f \in Forward, NEW e \in Evidence
  PROVE  [S EXCEPT ![f][e] = @ + 1] \in Sinks
  BY DEF Sinks

(* A guard that is taken if P, as the code counts it.                          *)
LEMMA OneOrNone ==
  ASSUME NEW P
  PROVE  Cardinality({i \in {1} : P}) = IF P THEN 1 ELSE 0
  <1>1. CASE P
    <2>1. {i \in {1} : P} = {1}
          BY <1>1
    <2> QED
          BY <1>1, <2>1, FS_Singleton
  <1>2. CASE ~P
    <2>1. {i \in {1} : P} = {}
          BY <1>2
    <2> QED
          BY <1>2, <2>1, FS_EmptySet
  <1> QED
        BY <1>1, <1>2

(* The initial state is well typed.                                          *)
LEMMA InitTypes == Init => ProxyTypes
  BY ProxyAssumption DEF Init, ProxyTypes, FlowTypes, Stage, Early, Ended, HandingOver, Holder, NoPermit,
     Mode, Stages, Tasks, Permits, Sinks, Queues, Workers

(* Types are kept by the exchange,                                             *)
LEMMA ExchangeTypes ==
  ASSUME ProxyTypes, NEW f \in Forward, Accept(f) \/ ForwardStep(f)
  PROVE  ProxyTypes'
PROOF
  <1>1. CASE Accept(f)
    <2>1. stage' \in Stages
          BY <1>1, StageSet DEF Accept, Stage, Early, ProxyTypes, FlowTypes
    <2>2. UNCHANGED <<task, permit, sink>>
          BY <1>1 DEF Accept
    <2>3. FlowTypes'
          BY <2>1, <2>2 DEF FlowTypes, ProxyTypes
    <2> QED
          BY <1>1, <2>3, ProxyAssumption DEF Accept, ProxyTypes, Queues, Workers
  <1>2. CASE TakeGuards(f)
    <2>1. stage' \in Stages
          BY <1>2, StageSet DEF TakeGuards, Stage, Early, ProxyTypes, FlowTypes
    <2>2. UNCHANGED <<task, permit, sink>>
          BY <1>2 DEF TakeGuards
    <2>3. FlowTypes'
          BY <2>1, <2>2 DEF FlowTypes, ProxyTypes
    <2> QED
          BY <1>2, <2>3, ProxyAssumption DEF TakeGuards, ProxyTypes, Queues, Workers
  <1>3. CASE BodyFails(f)
    <2>1. stage' \in Stages
          BY <1>3, StageSet DEF BodyFails, Stage, Early, ProxyTypes, FlowTypes
    <2>2. UNCHANGED <<task, permit, sink>>
          BY <1>3 DEF BodyFails
    <2>3. FlowTypes'
          BY <2>1, <2>2 DEF FlowTypes, ProxyTypes
    <2> QED
          BY <1>3, <2>3, ProxyAssumption DEF BodyFails, ProxyTypes, Queues, Workers
  <1>4. CASE EndpointFails(f)
    <2>1. stage' \in Stages
          BY <1>4, StageSet DEF EndpointFails, Spawn, Stage, Early, ProxyTypes, FlowTypes
    <2>2. task' \in Tasks
      <3>1. [task EXCEPT ![f].record = "running"] \in Tasks
            BY TaskSet DEF Mode, Ended, HandingOver, Task, ProxyTypes, FlowTypes
      <3>2. task' = task \/ task' = [task EXCEPT ![f].record = "running"]
            BY <1>4 DEF EndpointFails, Spawn
      <3> QED
            BY <3>1, <3>2 DEF ProxyTypes, FlowTypes
    <2>3. UNCHANGED <<permit, sink>>
          BY <1>4 DEF EndpointFails, Spawn
    <2>4. FlowTypes'
          BY <2>1, <2>2, <2>3 DEF FlowTypes, ProxyTypes
    <2> QED
          BY <1>4, <2>4, ProxyAssumption DEF EndpointFails, Spawn, ProxyTypes, Queues, Workers
  <1>5. CASE ClientLeaves(f)
    <2>1. stage' \in Stages
          BY <1>5, StageSet DEF ClientLeaves, DropPermit, Released, Wakes, Stage, Early, ProxyTypes, FlowTypes
    <2>2. permit' \in Permits
      <3>1. [permit EXCEPT ![f] = NoPermit] \in Permits
            BY PermitSet DEF Holder, ProxyTypes, FlowTypes
      <3>2. permit' = permit \/ permit' = [permit EXCEPT ![f] = NoPermit]
            BY <1>5 DEF ClientLeaves, DropPermit, Released, Wakes
      <3> QED
            BY <3>1, <3>2 DEF ProxyTypes, FlowTypes
    <2>3. UNCHANGED <<task, sink>>
          BY <1>5 DEF ClientLeaves, DropPermit, Released, Wakes
    <2>4. FlowTypes'
          BY <2>1, <2>2, <2>3 DEF FlowTypes, ProxyTypes
    <2>5. permit[f].bytes \in Int
          BY DEF ProxyTypes, FlowTypes, Permits
    <2> QED
          BY <1>5, <2>4, <2>5 DEF ClientLeaves, DropPermit, Released, Wakes, ProxyTypes, Queues, Workers
  <1>6. CASE UpstreamFails(f)
    <2>1. stage' \in Stages
          BY <1>6, StageSet DEF UpstreamFails, Started, Stage, Early, ProxyTypes, FlowTypes
    <2>2. task' \in Tasks
      <3> DEFINE trigger == IF Started(f) THEN "running" ELSE task[f].trigger
                 record == IF ReportsFailure(f) THEN "running" ELSE task[f].record
      <3>1. trigger \in Mode /\ record \in Mode
            BY DEF ProxyTypes, FlowTypes, Tasks, Task, Mode, Ended, HandingOver
      <3>2. task' = [[task EXCEPT ![f].trigger = trigger] EXCEPT ![f].record = record]
            BY <1>6 DEF UpstreamFails, ProxyTypes, FlowTypes, Tasks, Task
      <3> HIDE DEF trigger, record
      <3>3. [task EXCEPT ![f].trigger = trigger] \in Tasks
            BY <3>1, TaskSet DEF ProxyTypes, FlowTypes, Task
      <3> QED
            BY <3>1, <3>2, <3>3, TaskSet DEF Task
    <2>3. permit' \in Permits
      <3>1. [permit EXCEPT ![f].holder = "trigger"] \in Permits
            BY PermitSet DEF Holder, ProxyTypes, FlowTypes
      <3>2. permit' = permit \/ permit' = [permit EXCEPT ![f].holder = "trigger"]
            BY <1>6 DEF UpstreamFails, Started
      <3> QED
            BY <3>1, <3>2 DEF ProxyTypes, FlowTypes
    <2>4. UNCHANGED <<sink>>
          BY <1>6 DEF UpstreamFails, Started
    <2>5. FlowTypes'
          BY <2>1, <2>2, <2>3, <2>4 DEF FlowTypes, ProxyTypes
    <2>6. /\ Cardinality({i \in {1} : Started(f)}) \in Int
          /\ Cardinality({i \in {1} : ReportsFailure(f)}) \in Int
          BY OneOrNone
    <2> QED
          BY <1>6, <2>5, <2>6 DEF UpstreamFails, ProxyTypes
  <1>7. CASE UpstreamAnswers(f)
    <2>1. stage' \in Stages
          BY <1>7, StageSet DEF UpstreamAnswers, Spawn, Stage, Early, ProxyTypes, FlowTypes
    <2>2. task' \in Tasks
      <3>1. [task EXCEPT ![f].observer = "running"] \in Tasks
            BY TaskSet DEF Mode, Ended, HandingOver, Task, ProxyTypes, FlowTypes
      <3>2. task' = task \/ task' = [task EXCEPT ![f].observer = "running"]
            BY <1>7 DEF UpstreamAnswers, Spawn
      <3> QED
            BY <3>1, <3>2 DEF ProxyTypes, FlowTypes
    <2>3. UNCHANGED <<permit, sink>>
          BY <1>7 DEF UpstreamAnswers, Spawn
    <2>4. FlowTypes'
          BY <2>1, <2>2, <2>3 DEF FlowTypes, ProxyTypes
    <2> QED
          BY <1>7, <2>4, ProxyAssumption DEF UpstreamAnswers, Spawn, ProxyTypes, Queues, Workers
  <1>8. CASE BodySettles(f)
    <2>1. stage' \in Stages
          BY <1>8, StageSet DEF BodySettles, Spawn, Stage, Early, ProxyTypes, FlowTypes
    <2>2. task' \in Tasks
      <3>1. [task EXCEPT ![f].record = "running"] \in Tasks
            BY TaskSet DEF Mode, Ended, HandingOver, Task, ProxyTypes, FlowTypes
      <3>2. task' = task \/ task' = [task EXCEPT ![f].record = "running"]
            BY <1>8 DEF BodySettles, Spawn
      <3> QED
            BY <3>1, <3>2 DEF ProxyTypes, FlowTypes
    <2>3. UNCHANGED <<permit, sink>>
          BY <1>8 DEF BodySettles, Spawn
    <2>4. FlowTypes'
          BY <2>1, <2>2, <2>3 DEF FlowTypes, ProxyTypes
    <2> QED
          BY <1>8, <2>4, ProxyAssumption DEF BodySettles, Spawn, ProxyTypes, Queues, Workers
  <1>9. CASE DropActive(f)
    <2>1. stage' \in Stages
          BY <1>9, StageSet DEF DropActive, Wakes, Stage, Early, ProxyTypes, FlowTypes
    <2>2. UNCHANGED <<task, permit, sink>>
          BY <1>9 DEF DropActive, Wakes
    <2>3. FlowTypes'
          BY <2>1, <2>2 DEF FlowTypes, ProxyTypes
    <2> QED
          BY <1>9, <2>3, ProxyAssumption DEF DropActive, Wakes, ProxyTypes, Queues, Workers
  <1>10. CASE StartTrigger(f)
    <2>1. stage' \in Stages
          BY <1>10, StageSet DEF StartTrigger, Spawn, Started, Stage, Early, ProxyTypes, FlowTypes
    <2>2. task' \in Tasks
      <3>1. [task EXCEPT ![f].trigger = "running"] \in Tasks
            BY TaskSet DEF Mode, Ended, HandingOver, Task, ProxyTypes, FlowTypes
      <3>2. task' = task \/ task' = [task EXCEPT ![f].trigger = "running"]
            BY <1>10 DEF StartTrigger, Spawn, Started
      <3> QED
            BY <3>1, <3>2 DEF ProxyTypes, FlowTypes
    <2>3. permit' \in Permits
      <3>1. [permit EXCEPT ![f].holder = "trigger"] \in Permits
            BY PermitSet DEF Holder, ProxyTypes, FlowTypes
      <3>2. permit' = permit \/ permit' = [permit EXCEPT ![f].holder = "trigger"]
            BY <1>10 DEF StartTrigger, Spawn, Started
      <3> QED
            BY <3>1, <3>2 DEF ProxyTypes, FlowTypes
    <2>4. UNCHANGED <<sink>>
          BY <1>10 DEF StartTrigger, Spawn, Started
    <2>5. FlowTypes'
          BY <2>1, <2>2, <2>3, <2>4 DEF FlowTypes, ProxyTypes
    <2> QED
          BY <1>10, <2>5, ProxyAssumption DEF StartTrigger, Spawn, Started, ProxyTypes, Queues, Workers
  <1>11. CASE DropGuard(f)
    <2>1. stage' \in Stages
          BY <1>11, StageSet DEF DropGuard, Wakes, Stage, Early, ProxyTypes, FlowTypes
    <2>2. UNCHANGED <<task, permit, sink>>
          BY <1>11 DEF DropGuard, Wakes
    <2>3. FlowTypes'
          BY <2>1, <2>2 DEF FlowTypes, ProxyTypes
    <2> QED
          BY <1>11, <2>3, ProxyAssumption DEF DropGuard, Wakes, ProxyTypes, Queues, Workers
  <1>12. ASSUME NEW bytes \in WireBytes[kind[f]], Dispatch(f, bytes)
        PROVE  ProxyTypes'
    <2>1. stage' \in Stages
          BY <1>12, StageSet DEF Dispatch, Admit, Given, DetachParser, Spawn, Stage, Early, ProxyTypes, FlowTypes
    <2>2. task' \in Tasks
      <3>1. [task EXCEPT ![f].parse = "running"] \in Tasks
            BY TaskSet DEF Mode, Ended, HandingOver, Task, ProxyTypes, FlowTypes
      <3>2. task' = task \/ task' = [task EXCEPT ![f].parse = "running"]
            BY <1>12 DEF Dispatch, Admit, Given, DetachParser, Spawn
      <3> QED
            BY <3>1, <3>2 DEF ProxyTypes, FlowTypes
    <2>3. permit' \in Permits
      <3>1. [permit EXCEPT ![f] = [holder |-> "forward", bytes |-> bytes]] \in Permits
            BY <1>12, ProxyAssumption, PermitSet DEF Holder, ProxyTypes, FlowTypes
      <3>2. permit' = permit \/ permit' = [permit EXCEPT ![f] = [holder |-> "forward", bytes |-> bytes]]
            BY <1>12 DEF Dispatch, Admit, Given, DetachParser, Spawn
      <3> QED
            BY <3>1, <3>2 DEF ProxyTypes, FlowTypes
    <2>4. sink' \in Sinks
      <3>1. [sink EXCEPT ![f].shed = @ + 1] \in Sinks
            BY SinkSet DEF Evidence, ProxyTypes, FlowTypes
      <3>2. sink' = sink \/ sink' = [sink EXCEPT ![f].shed = @ + 1]
            BY <1>12 DEF Dispatch, Admit, Given, DetachParser, Spawn
      <3> QED
            BY <3>1, <3>2 DEF ProxyTypes, FlowTypes
    <2>5. FlowTypes'
          BY <2>1, <2>2, <2>3, <2>4 DEF FlowTypes, ProxyTypes
    <2> QED
          BY <1>12, <2>5, ProxyAssumption DEF Dispatch, Admit, Given, DetachParser, Spawn, ProxyTypes, Queues, Workers
  <1> QED
        BY <1>1, <1>2, <1>3, <1>4, <1>5, <1>6, <1>7, <1>8, <1>9, <1>10, <1>11, <1>12 DEF ForwardStep

(* by the detached tasks,                                                      *)
LEMMA TaskTypes ==
  ASSUME ProxyTypes, NEW f \in Forward, TaskStep(f)
  PROVE  ProxyTypes'
PROOF
  <1>1. CASE Parse(f)
    <2>1. task' \in Tasks
          BY <1>1, TaskSet DEF Parse, Given, Gone, Wakes, Mode, Ended, HandingOver, Task, ProxyTypes, FlowTypes
    <2>2. sink' \in Sinks
          BY <1>1, SinkSet DEF Parse, Given, Gone, Wakes, Evidence, ProxyTypes, FlowTypes
    <2>3. UNCHANGED <<stage, permit>>
          BY <1>1 DEF Parse, Given, Gone, Wakes
    <2>4. FlowTypes'
          BY <2>1, <2>2, <2>3 DEF FlowTypes, ProxyTypes
    <2> QED
          BY <1>1, <2>4, ProxyAssumption DEF Parse, Given, Gone, Wakes, ProxyTypes, Queues, Workers
  <1>2. CASE ParseFails(f)
    <2>1. task' \in Tasks
          BY <1>2, TaskSet DEF ParseFails, Gone, Wakes, Mode, Ended, HandingOver, Task, ProxyTypes, FlowTypes
    <2>2. UNCHANGED <<stage, permit, sink>>
          BY <1>2 DEF ParseFails, Gone, Wakes
    <2>3. FlowTypes'
          BY <2>1, <2>2 DEF FlowTypes, ProxyTypes
    <2> QED
          BY <1>2, <2>3, ProxyAssumption DEF ParseFails, Gone, Wakes, ProxyTypes, Queues, Workers
  <1>3. CASE Record(f)
    <2>1. task' \in Tasks
          BY <1>3, TaskSet DEF Record, Given, Gone, Wakes, Mode, Ended, HandingOver, Task, ProxyTypes, FlowTypes
    <2>2. sink' \in Sinks
          BY <1>3, SinkSet DEF Record, Given, Gone, Wakes, Evidence, ProxyTypes, FlowTypes
    <2>3. UNCHANGED <<stage, permit>>
          BY <1>3 DEF Record, Given, Gone, Wakes
    <2>4. FlowTypes'
          BY <2>1, <2>2, <2>3 DEF FlowTypes, ProxyTypes
    <2> QED
          BY <1>3, <2>4, ProxyAssumption DEF Record, Given, Gone, Wakes, ProxyTypes, Queues, Workers
  <1>4. CASE Observe(f)
    <2>1. task' \in Tasks
          BY <1>4, TaskSet DEF Observe, Given, Gone, Wakes, Mode, Ended, HandingOver, Task, ProxyTypes, FlowTypes
    <2>2. sink' \in Sinks
      <3>1. [sink EXCEPT ![f].response = @ + 1] \in Sinks
            BY SinkSet DEF Evidence, ProxyTypes, FlowTypes
      <3>2. sink' = sink \/ sink' = [sink EXCEPT ![f].response = @ + 1]
            BY <1>4 DEF Observe, Given, Gone, Wakes
      <3> QED
            BY <3>1, <3>2 DEF ProxyTypes, FlowTypes
    <2>3. UNCHANGED <<stage, permit>>
          BY <1>4 DEF Observe, Given, Gone, Wakes
    <2>4. FlowTypes'
          BY <2>1, <2>2, <2>3 DEF FlowTypes, ProxyTypes
    <2> QED
          BY <1>4, <2>4, ProxyAssumption DEF Observe, Given, Gone, Wakes, ProxyTypes, Queues, Workers
  <1>5. CASE TriggerIsCancelled(f)
    <2>1. task' \in Tasks
          BY <1>5, TaskSet DEF TriggerIsCancelled, Given, Gone, Wakes, DropPermit, Released, Mode, Ended, HandingOver, Task, ProxyTypes, FlowTypes
    <2>2. permit' \in Permits
          BY <1>5, PermitSet DEF TriggerIsCancelled, Given, Gone, Wakes, DropPermit, Released, Holder, ProxyTypes, FlowTypes
    <2>3. sink' \in Sinks
          BY <1>5, SinkSet DEF TriggerIsCancelled, Given, Gone, Wakes, DropPermit, Released, Evidence, ProxyTypes, FlowTypes
    <2>4. UNCHANGED <<stage>>
          BY <1>5 DEF TriggerIsCancelled, Given, Gone, Wakes, DropPermit, Released
    <2>5. FlowTypes'
          BY <2>1, <2>2, <2>3, <2>4 DEF FlowTypes, ProxyTypes
    <2>6. permit[f].bytes \in Int
          BY DEF ProxyTypes, FlowTypes, Permits
    <2> QED
          BY <1>5, <2>5, <2>6 DEF TriggerIsCancelled, Given, Gone, Wakes, DropPermit, Released, ProxyTypes, Queues, Workers
  <1>6. CASE Enqueue(f)
    <2>1. task' \in Tasks
          BY <1>6, TaskSet DEF Enqueue, Mode, Ended, HandingOver, Task, ProxyTypes, FlowTypes
    <2>2. permit' \in Permits
          BY <1>6, PermitSet DEF Enqueue, Holder, ProxyTypes, FlowTypes
    <2>3. UNCHANGED <<stage, sink>>
          BY <1>6 DEF Enqueue
    <2>4. FlowTypes'
          BY <2>1, <2>2, <2>3 DEF FlowTypes, ProxyTypes
    <2> QED
          BY <1>6, <2>4, ProxyAssumption DEF Enqueue, ProxyTypes, Queues, Workers
  <1>7. CASE NotifyWorker(f)
    <2>1. task' \in Tasks
      <3>1. [task EXCEPT ![f].trigger = "gone"] \in Tasks
            BY TaskSet DEF Mode, Ended, HandingOver, Task, ProxyTypes, FlowTypes
      <3>2. [task EXCEPT ![f].trigger = "spawning"] \in Tasks
            BY TaskSet DEF Mode, Ended, HandingOver, Task, ProxyTypes, FlowTypes
      <3>3. task' = task \/ task' = [task EXCEPT ![f].trigger = "gone"] \/ task' = [task EXCEPT ![f].trigger = "spawning"]
            BY <1>7 DEF NotifyWorker, Gone, Wakes
      <3> QED
            BY <3>1, <3>2, <3>3 DEF ProxyTypes, FlowTypes
    <2>2. UNCHANGED <<stage, permit, sink>>
          BY <1>7 DEF NotifyWorker, Gone, Wakes
    <2>3. FlowTypes'
          BY <2>1, <2>2 DEF FlowTypes, ProxyTypes
    <2> QED
          BY <1>7, <2>3, ProxyAssumption DEF NotifyWorker, Gone, Wakes, ProxyTypes, Queues, Workers
  <1>8. CASE SpawnWorker(f)
    <2>1. task' \in Tasks
          BY <1>8, TaskSet DEF SpawnWorker, Mode, Ended, HandingOver, Task, ProxyTypes, FlowTypes
    <2>2. UNCHANGED <<stage, permit, sink>>
          BY <1>8 DEF SpawnWorker
    <2>3. FlowTypes'
          BY <2>1, <2>2 DEF FlowTypes, ProxyTypes
    <2> QED
          BY <1>8, <2>3, ProxyAssumption DEF SpawnWorker, ProxyTypes, Queues, Workers
  <1> QED
        BY <1>1, <1>2, <1>3, <1>4, <1>5, <1>6, <1>7, <1>8 DEF TaskStep

(* and by the worker and the barrier.                                          *)
LEMMA WorkerTypes ==
  ASSUME ProxyTypes, WorkerStep \/ BarrierStep
  PROVE  ProxyTypes'
PROOF
  <1>1. CASE WorkerChecks
    <2>1. UNCHANGED <<stage, task, permit, sink>>
          BY <1>1 DEF WorkerChecks, WorkerMoves
    <2>2. FlowTypes'
          BY <2>1 DEF FlowTypes, ProxyTypes
    <2> QED
          BY <1>1, <2>2, ProxyAssumption DEF WorkerChecks, WorkerMoves, ProxyTypes, Queues, Workers
  <1>2. CASE WorkerArms
    <2>1. UNCHANGED <<stage, task, permit, sink>>
          BY <1>2 DEF WorkerArms, WorkerMoves
    <2>2. FlowTypes'
          BY <2>1 DEF FlowTypes, ProxyTypes
    <2> QED
          BY <1>2, <2>2, ProxyAssumption DEF WorkerArms, WorkerMoves, ProxyTypes, Queues, Workers
  <1>3. CASE WorkerRechecks
    <2>1. UNCHANGED <<stage, task, permit, sink>>
          BY <1>3 DEF WorkerRechecks, WorkerMoves
    <2>2. FlowTypes'
          BY <2>1 DEF FlowTypes, ProxyTypes
    <2> QED
          BY <1>3, <2>2, ProxyAssumption DEF WorkerRechecks, WorkerMoves, ProxyTypes, Queues, Workers
  <1>4. CASE WorkerWakes
    <2>1. UNCHANGED <<stage, task, permit, sink>>
          BY <1>4 DEF WorkerWakes, WorkerMoves
    <2>2. FlowTypes'
          BY <2>1 DEF FlowTypes, ProxyTypes
    <2> QED
          BY <1>4, <2>2, ProxyAssumption DEF WorkerWakes, WorkerMoves, ProxyTypes, Queues, Workers
  <1>5. CASE WorkerListens
    <2>1. UNCHANGED <<stage, task, permit, sink>>
          BY <1>5 DEF WorkerListens, WorkerMoves
    <2>2. FlowTypes'
          BY <2>1 DEF FlowTypes, ProxyTypes
    <2> QED
          BY <1>5, <2>2, ProxyAssumption DEF WorkerListens, WorkerMoves, ProxyTypes, Queues, Workers
  <1>6. CASE TakeReady
    <2>0. PICK f : f = First
          OBVIOUS
    <2>1. permit' \in Permits
      <3>1. f \in Forward
            BY <1>6, <2>0 DEF TakeReady, ProxyTypes, Queues
      <3>2. permit' = [permit EXCEPT ![f].holder = "worker"]
            BY <1>6, <2>0 DEF TakeReady
      <3> QED
            BY <3>1, <3>2, PermitSet DEF Holder, ProxyTypes, FlowTypes
    <2>2. UNCHANGED <<stage, task, sink>>
          BY <1>6 DEF TakeReady
    <2>3. FlowTypes'
          BY <2>1, <2>2 DEF FlowTypes, ProxyTypes
    <2>4. queue' \in Queues /\ worker' \in Workers
      <3>1. /\ f \in Forward /\ worker' = [pc |-> "analyzing", forward |-> {f}]
            /\ queue' = [queue EXCEPT !.jobs = @ \ {f}, !.admitted = @ \ {f}]
            BY <1>6, <2>0 DEF TakeReady, ProxyTypes, Queues
      <3> QED
            BY <3>1 DEF ProxyTypes, Queues, Workers
    <2> QED
          BY <1>6, <2>3, <2>4 DEF TakeReady, ProxyTypes
  <1>7. CASE NothingReady
    <2>1. UNCHANGED <<stage, task, permit, sink>>
          BY <1>7 DEF NothingReady, WorkerMoves
    <2>2. FlowTypes'
          BY <2>1 DEF FlowTypes, ProxyTypes
    <2> QED
          BY <1>7, <2>2, ProxyAssumption DEF NothingReady, WorkerMoves, ProxyTypes, Queues, Workers
  <1>8. CASE WorkerIsFed
    <2>1. UNCHANGED <<stage, task, permit, sink>>
          BY <1>8 DEF WorkerIsFed, WorkerMoves
    <2>2. FlowTypes'
          BY <2>1 DEF FlowTypes, ProxyTypes
    <2> QED
          BY <1>8, <2>2, ProxyAssumption DEF WorkerIsFed, WorkerMoves, ProxyTypes, Queues, Workers
  <1>9. CASE NothingAdmitted
    <2>1. UNCHANGED <<stage, task, permit, sink>>
          BY <1>9 DEF NothingAdmitted, Wakes
    <2>2. FlowTypes'
          BY <2>1 DEF FlowTypes, ProxyTypes
    <2>3. queue' \in Queues /\ worker' \in Workers
          BY <1>9 DEF NothingAdmitted, ProxyTypes, Queues, Workers
    <2>4. pending' \in Int /\ listening' \in SUBSET {"active", "queue", "barrier"}
          BY <1>9 DEF NothingAdmitted, Wakes, ProxyTypes
    <2> QED
          BY <1>9, <2>2, <2>3, <2>4 DEF NothingAdmitted, ProxyTypes
  <1>10. CASE Analyze
    <2>0. PICK f \in Forward : DropPermit(f)
          BY <1>10 DEF Analyze, ProxyTypes, Workers
    <2>1. permit' \in Permits
      <3>1. permit' = [permit EXCEPT ![f] = NoPermit]
            BY <2>0 DEF DropPermit
      <3> QED
            BY <3>1, PermitSet DEF ProxyTypes, FlowTypes
    <2>2. UNCHANGED <<stage, task, sink>>
          BY <1>10 DEF Analyze
    <2>3. FlowTypes'
          BY <2>1, <2>2 DEF FlowTypes, ProxyTypes
    <2>4. budget' \in [items : Int, bytes : Int] /\ queue' \in Queues
      <3>1. permit[f].bytes \in Int
            BY <2>0 DEF ProxyTypes, FlowTypes, Permits
      <3>2. /\ budget' = [items |-> budget.items - 1, bytes |-> budget.bytes - permit[f].bytes]
            /\ queue' = [queue EXCEPT !.admitted = @ \ {f}]
            BY <2>0 DEF DropPermit, Released
      <3> QED
            BY <3>1, <3>2 DEF ProxyTypes, Queues
    <2>5. worker' \in Workers
          BY <1>10 DEF Analyze, ProxyTypes, Workers
    <2> QED
          BY <1>10, <2>3, <2>4, <2>5 DEF Analyze, Wakes, ProxyTypes
  <1>11. CASE ReportAnalysis
    <2>1. sink' \in Sinks
      <3>1. PICK f \in Forward : Given(f, "analyzed")
            BY <1>11 DEF ReportAnalysis, ProxyTypes, Workers
      <3> QED
            BY <3>1, SinkSet DEF Given, Evidence, ProxyTypes, FlowTypes
    <2>2. UNCHANGED <<stage, task, permit>>
          BY <1>11 DEF ReportAnalysis, Given
    <2>3. FlowTypes'
          BY <2>1, <2>2 DEF FlowTypes, ProxyTypes
    <2> QED
          BY <1>11, <2>3, ProxyAssumption DEF ReportAnalysis, Given, ProxyTypes, Queues, Workers
  <1>12. CASE BarrierArms
    <2>1. UNCHANGED <<stage, task, permit, sink>>
          BY <1>12 DEF BarrierArms, BarrierMoves
    <2>2. FlowTypes'
          BY <2>1 DEF FlowTypes, ProxyTypes
    <2> QED
          BY <1>12, <2>2, ProxyAssumption DEF BarrierArms, BarrierMoves, ProxyTypes, Queues, Workers
  <1>13. CASE BarrierChecks
    <2>1. UNCHANGED <<stage, task, permit, sink>>
          BY <1>13 DEF BarrierChecks, BarrierMoves
    <2>2. FlowTypes'
          BY <2>1 DEF FlowTypes, ProxyTypes
    <2> QED
          BY <1>13, <2>2, ProxyAssumption DEF BarrierChecks, BarrierMoves, ProxyTypes, Queues, Workers
  <1> QED
        BY <1>1, <1>2, <1>3, <1>4, <1>5, <1>6, <1>7, <1>8, <1>9, <1>10, <1>11, <1>12, <1>13 DEF WorkerStep, BarrierStep

-----------------------------------------------------------------------------
(* Where permits, jobs and tasks are                                          *)

(* Nothing that the invariant says of the forward g depends on the step.      *)
Untouched(g) ==
    /\ stage'[g] = stage[g] /\ task'[g] = task[g]
    /\ permit'[g] = permit[g] /\ sink'[g] = sink[g]
    /\ g \in queue'.jobs <=> g \in queue.jobs
    /\ g \in queue'.admitted <=> g \in queue.admitted
    /\ g \in worker'.forward <=> g \in worker.forward
    /\ worker'.pc # worker.pc => g \notin worker.forward

(* What is said of an untouched forward stays true.                           *)
LEMMA UntouchedStays ==
  ASSUME NEW g \in Forward, StageFits(g), PermitFits(g), Untouched(g)
  PROVE  StageFits(g)' /\ PermitFits(g)'
  BY DEF StageFits, PermitFits, Untouched

(* A step of one exchange touches only its own forward, and not the worker.   *)
LEMMA ExchangeTouches ==
  ASSUME ProxyTypes, NEW f \in Forward, Accept(f) \/ ForwardStep(f)
  PROVE  /\ UNCHANGED <<kind, worker, barrier>>
         /\ queue'.jobs = queue.jobs /\ queue'.running = queue.running
         /\ \A g \in Forward \ {f} : Untouched(g)
PROOF
  <1> USE DEF ProxyTypes, FlowTypes, Stages, Tasks, Permits, Sinks, Queues, Untouched
  <1>1. CASE Accept(f)
        BY <1>1 DEF Accept
  <1>2. CASE TakeGuards(f)
        BY <1>2 DEF TakeGuards
  <1>3. CASE BodyFails(f)
        BY <1>3 DEF BodyFails
  <1>4. CASE EndpointFails(f)
        BY <1>4 DEF EndpointFails, Spawn
  <1>5. CASE ClientLeaves(f)
        BY <1>5 DEF ClientLeaves, DropPermit, Started, Wakes, NoPermit
  <1>6. CASE UpstreamFails(f)
        BY <1>6 DEF UpstreamFails, Started
  <1>7. CASE UpstreamAnswers(f)
        BY <1>7 DEF UpstreamAnswers, Spawn
  <1>8. CASE BodySettles(f)
        BY <1>8 DEF BodySettles, Spawn
  <1>9. CASE DropActive(f)
        BY <1>9 DEF DropActive
  <1>10. CASE StartTrigger(f)
        BY <1>10 DEF StartTrigger, Spawn, Started
  <1>11. CASE DropGuard(f)
        BY <1>11 DEF DropGuard
  <1>12. CASE \E bytes \in WireBytes[kind[f]] : Dispatch(f, bytes)
        BY <1>12 DEF Dispatch, Admit, Given, DetachParser, Spawn
  <1> QED
        BY <1>1, <1>2, <1>3, <1>4, <1>5, <1>6, <1>7, <1>8, <1>9, <1>10, <1>11, <1>12
        DEF ForwardStep

(* The exchange hands its admission to a trigger or drops it.                 *)
LEMMA ExchangePlaces ==
  ASSUME PlaceInv, NEW f \in Forward, Accept(f) \/ ForwardStep(f)
  PROVE  /\ StageFits(f)' /\ PermitFits(f)'
         /\ task[f].trigger # "none" => task'[f].trigger = task[f].trigger
PROOF
  <1>0. StageFits(f) /\ PermitFits(f) /\ ProxyTypes
        BY DEF PlaceInv
  <1> USE DEF ProxyTypes, FlowTypes, Stages, Tasks, Permits, Sinks, Queues, Workers, StageFits,
              PermitFits, Stage, Early, Task
  <1>1. CASE Accept(f)
        BY <1>0, <1>1 DEF Accept
  <1>2. CASE TakeGuards(f)
        BY <1>0, <1>2 DEF TakeGuards
  <1>3. CASE BodyFails(f)
        BY <1>0, <1>3 DEF BodyFails
  <1>4. CASE EndpointFails(f)
        BY <1>0, <1>4 DEF EndpointFails, Spawn
  <1>5. CASE ClientLeaves(f)
    <2>1. stage'[f] = "settled" /\ UNCHANGED <<task, sink, worker>> /\ queue'.jobs = queue.jobs
          BY <1>0, <1>5 DEF ClientLeaves, DropPermit
    <2>2. CASE Started(f)
      <3>1. permit'[f].holder = "none" /\ f \notin queue'.admitted
            BY <1>0, <1>5, <2>2 DEF ClientLeaves, DropPermit, NoPermit
      <3> QED
            BY <1>0, <2>1, <2>2, <3>1 DEF Started
    <2>3. CASE ~Started(f)
      <3>1. UNCHANGED <<permit, queue>>
            BY <1>0, <1>5, <2>3 DEF ClientLeaves
      <3> QED
            BY <1>0, <1>5, <2>1, <2>3, <3>1 DEF Started, ClientLeaves
    <2> QED
          BY <2>2, <2>3
  <1>6. CASE UpstreamFails(f)
    <2>1. stage'[f] = "settled" /\ UNCHANGED <<sink, worker, queue>>
          BY <1>0, <1>6 DEF UpstreamFails
    <2>2. CASE Started(f)
      <3>1. permit'[f].holder = "trigger" /\ task'[f].trigger = "running"
            BY <1>0, <1>6, <2>2 DEF UpstreamFails
      <3> QED
            BY <1>0, <2>1, <2>2, <3>1 DEF Started, HandingOver
    <2>3. CASE ~Started(f)
      <3>1. permit' = permit /\ task'[f].trigger = task[f].trigger
            BY <1>0, <1>6, <2>3 DEF UpstreamFails
      <3> QED
            BY <1>0, <2>1, <2>3, <3>1 DEF Started
    <2> QED
          BY <2>2, <2>3
  <1>7. CASE UpstreamAnswers(f)
        BY <1>0, <1>7 DEF UpstreamAnswers, Spawn
  <1>8. CASE BodySettles(f)
        BY <1>0, <1>8 DEF BodySettles, Spawn
  <1>9. CASE DropActive(f)
        BY <1>0, <1>9 DEF DropActive
  <1>10. CASE StartTrigger(f)
    <2>1. stage'[f] = "started" /\ UNCHANGED <<sink, worker, queue>>
          BY <1>0, <1>10 DEF StartTrigger
    <2>2. CASE Started(f)
      <3>1. permit'[f].holder = "trigger" /\ task'[f].trigger = "running"
            BY <1>0, <1>10, <2>2 DEF StartTrigger, Spawn
      <3> QED
            BY <1>0, <2>1, <2>2, <3>1 DEF Started, HandingOver
    <2>3. CASE ~Started(f)
      <3>1. permit' = permit /\ task'[f].trigger = task[f].trigger
            BY <1>0, <1>10, <2>3 DEF StartTrigger
      <3> QED
            BY <1>0, <2>1, <2>3, <3>1 DEF Started
    <2> QED
          BY <2>2, <2>3
  <1>11. CASE DropGuard(f)
        BY <1>0, <1>11 DEF DropGuard
  <1>12. ASSUME NEW bytes \in WireBytes[kind[f]], Dispatch(f, bytes)
         PROVE  /\ StageFits(f)' /\ PermitFits(f)'
                /\ task[f].trigger # "none" => task'[f].trigger = task[f].trigger
    <2>1. /\ stage[f] = "reading" /\ stage'[f] = "sending" /\ worker' = worker
          /\ queue'.jobs = queue.jobs
          /\ \A t \in Task \ {"parse"} : task'[f][t] = task[f][t]
          BY <1>0, <1>12 DEF Dispatch, Admit, DetachParser, Spawn
    <2>2. permit[f].holder = "none" /\ f \notin worker.forward
          BY <1>0, <2>1 DEF HandingOver, Holder
    <2>3. \/ permit'[f].holder = "forward" /\ f \in queue'.admitted
          \/ UNCHANGED <<permit, queue>>
          BY <1>0, <1>12 DEF Dispatch, Admit
    <2> QED
          BY <1>0, <2>1, <2>2, <2>3
  <1> QED
        BY <1>1, <1>2, <1>3, <1>4, <1>5, <1>6, <1>7, <1>8, <1>9, <1>10, <1>11, <1>12
        DEF ForwardStep

(* A step of one task touches only its own forward.                           *)
LEMMA TaskTouches ==
  ASSUME PlaceInv, NEW f \in Forward, TaskStep(f)
  PROVE  /\ UNCHANGED <<kind, stage, barrier, active, late>>
         /\ worker'.forward = worker.forward
         /\ \A g \in Forward \ {f} : Untouched(g)
PROOF
  <1>0. ProxyTypes /\ (worker.pc = "none" => worker.forward = {})
        BY DEF PlaceInv, WorkerFits
  <1> USE DEF ProxyTypes, FlowTypes, Stages, Tasks, Permits, Sinks, Queues, Workers, Untouched
  <1>1. CASE Parse(f)
        BY <1>0, <1>1 DEF Parse, Given, Gone
  <1>2. CASE ParseFails(f)
        BY <1>0, <1>2 DEF ParseFails, Gone
  <1>3. CASE Record(f)
        BY <1>0, <1>3 DEF Record, Given, Gone
  <1>4. CASE Observe(f)
        BY <1>0, <1>4 DEF Observe, Given, Gone
  <1>5. CASE TriggerIsCancelled(f)
        BY <1>0, <1>5 DEF TriggerIsCancelled, Given, Gone, DropPermit, NoPermit
  <1>6. CASE Enqueue(f)
        BY <1>0, <1>6 DEF Enqueue
  <1>7. CASE NotifyWorker(f)
        BY <1>0, <1>7 DEF NotifyWorker, Gone
  <1>8. CASE SpawnWorker(f)
        BY <1>0, <1>8 DEF SpawnWorker
  <1> QED
        BY <1>1, <1>2, <1>3, <1>4, <1>5, <1>6, <1>7, <1>8 DEF TaskStep

(* A trigger reports its loss or becomes a job; the other tasks have no part  *)
(* in the admission.                                                          *)
LEMMA TaskPlaces ==
  ASSUME PlaceInv, NEW f \in Forward, TaskStep(f)
  PROVE  StageFits(f)' /\ PermitFits(f)'
PROOF
  <1>0. StageFits(f) /\ PermitFits(f) /\ ProxyTypes /\ WorkerFits
        BY DEF PlaceInv
  <1> USE DEF ProxyTypes, FlowTypes, Stages, Tasks, Permits, Sinks, Queues, Workers, StageFits,
              PermitFits, Early, Task, HandingOver, WorkerFits
  <1>1. CASE Parse(f)
        BY <1>0, <1>1 DEF Parse, Given, Gone
  <1>2. CASE ParseFails(f)
        BY <1>0, <1>2 DEF ParseFails, Gone
  <1>3. CASE Record(f)
        BY <1>0, <1>3 DEF Record, Given, Gone
  <1>4. CASE Observe(f)
        BY <1>0, <1>4 DEF Observe, Given, Gone
  <1>5. CASE TriggerIsCancelled(f)
        BY <1>0, <1>5 DEF TriggerIsCancelled, Given, Gone, DropPermit, NoPermit
  <1>6. CASE Enqueue(f)
        BY <1>0, <1>6 DEF Enqueue
  <1>7. CASE NotifyWorker(f)
        BY <1>0, <1>7 DEF NotifyWorker, Gone
  <1>8. CASE SpawnWorker(f)
        BY <1>0, <1>8 DEF SpawnWorker
  <1> QED
        BY <1>1, <1>2, <1>3, <1>4, <1>5, <1>6, <1>7, <1>8 DEF TaskStep

(* The trigger that starts the worker answers for the jobs until it is there. *)
LEMMA TaskServes ==
  ASSUME PlaceInv, NEW f \in Forward, TaskStep(f)
  PROVE  WorkerFits' /\ QueueIsServed'
PROOF
  <1>0. ProxyTypes /\ WorkerFits /\ QueueIsServed
        BY DEF PlaceInv
  <1> USE DEF ProxyTypes, FlowTypes, Tasks, Queues, Workers, Task, WorkerFits, QueueIsServed
  <1>1. CASE Parse(f)
        BY <1>0, <1>1 DEF Parse, Given, Gone
  <1>2. CASE ParseFails(f)
        BY <1>0, <1>2 DEF ParseFails, Gone
  <1>3. CASE Record(f)
        BY <1>0, <1>3 DEF Record, Given, Gone
  <1>4. CASE Observe(f)
        BY <1>0, <1>4 DEF Observe, Given, Gone
  <1>5. CASE TriggerIsCancelled(f)
        BY <1>0, <1>5 DEF TriggerIsCancelled, Given, Gone, DropPermit, NoPermit
  <1>6. CASE Enqueue(f)
        BY <1>0, <1>6 DEF Enqueue
  <1>7. CASE NotifyWorker(f)
        BY <1>0, <1>7 DEF NotifyWorker, Gone
  <1>8. CASE SpawnWorker(f)
        BY <1>0, <1>8 DEF SpawnWorker
  <1> QED
        BY <1>1, <1>2, <1>3, <1>4, <1>5, <1>6, <1>7, <1>8 DEF TaskStep

(* While it waits the worker has no forward, and its moves touch none.        *)
LEMMA MovesTouchNothing ==
  ASSUME PlaceInv,
         \/ WorkerChecks \/ WorkerArms \/ WorkerRechecks \/ WorkerWakes
         \/ WorkerListens \/ NothingReady \/ WorkerIsFed \/ NothingAdmitted \/ BarrierStep
  PROVE  /\ UNCHANGED <<kind, stage, task, permit, sink, budget, decoders, active, late>>
         /\ queue'.jobs = queue.jobs /\ queue'.admitted = queue.admitted
         /\ worker'.forward = worker.forward
         /\ WorkerFits' /\ QueueIsServed'
         /\ \A g \in Forward : Untouched(g)
PROOF
  <1>0. ProxyTypes /\ WorkerFits /\ QueueIsServed
        BY DEF PlaceInv
  <1>a. queue.jobs \subseteq queue.admitted
        BY DEF PlaceInv, PermitFits, ProxyTypes, Queues
  <1> USE DEF ProxyTypes, FlowTypes, Queues, Workers, WorkerFits, QueueIsServed, Untouched
  <1>1. CASE WorkerChecks
        BY <1>0, <1>1 DEF WorkerChecks, WorkerMoves
  <1>2. CASE WorkerArms
        BY <1>0, <1>2 DEF WorkerArms, WorkerMoves
  <1>3. CASE WorkerRechecks
        BY <1>0, <1>3 DEF WorkerRechecks, WorkerMoves
  <1>4. CASE WorkerWakes
        BY <1>0, <1>4 DEF WorkerWakes, WorkerMoves
  <1>5. CASE WorkerListens
        BY <1>0, <1>5 DEF WorkerListens, WorkerMoves
  <1>6. CASE NothingReady
        BY <1>0, <1>6 DEF NothingReady, WorkerMoves
  <1>7. CASE WorkerIsFed
        BY <1>0, <1>7 DEF WorkerIsFed, WorkerMoves
  <1>8. CASE NothingAdmitted
        BY <1>0, <1>a, <1>8 DEF NothingAdmitted
  <1>9. CASE BarrierStep
        BY <1>0, <1>9 DEF BarrierStep, BarrierArms, BarrierChecks, BarrierMoves
  <1> QED
        BY <1>1, <1>2, <1>3, <1>4, <1>5, <1>6, <1>7, <1>8, <1>9

(* The worker takes a job, gives its permit back and reports.                 *)
LEMMA TakePlaces ==
  ASSUME PlaceInv, TakeReady, NEW f, f = First
  PROVE  /\ f \in Forward /\ permit[f].holder = "job"
         /\ worker.forward = {} /\ worker'.forward = {f}
         /\ UNCHANGED <<kind, stage, task, sink, budget, decoders, active, late, barrier>>
         /\ \A g \in Forward \ {f} : Untouched(g)
         /\ permit'[f].holder = "worker" /\ permit'[f].bytes = permit[f].bytes
         /\ StageFits(f)' /\ PermitFits(f)'
         /\ WorkerFits' /\ QueueIsServed'
PROOF
  <1>1. f \in Forward /\ f \in queue.jobs
        BY DEF PlaceInv, ProxyTypes, Queues, TakeReady
  <1>2. StageFits(f) /\ PermitFits(f) /\ ProxyTypes /\ WorkerFits /\ QueueIsServed
        BY <1>1 DEF PlaceInv
  <1>3. worker.forward = {} /\ permit[f].holder = "job"
        BY <1>1, <1>2 DEF TakeReady, WorkerFits, PermitFits
  <1>4. /\ UNCHANGED <<kind, stage, task, sink, budget, decoders, active, late, barrier>>
        /\ worker' = [pc |-> "analyzing", forward |-> {f}]
        /\ queue'.jobs = queue.jobs \ {f} /\ queue'.admitted = queue.admitted \ {f}
        /\ queue'.running = queue.running
        /\ permit' = [permit EXCEPT ![f].holder = "worker"]
        BY <1>2 DEF TakeReady, ProxyTypes, Queues
  <1>5. permit'[f].holder = "worker" /\ permit'[f].bytes = permit[f].bytes
        BY <1>1, <1>2, <1>4 DEF ProxyTypes, FlowTypes, Permits
  <1>6. \A g \in Forward \ {f} : permit'[g] = permit[g]
        BY <1>2, <1>4 DEF ProxyTypes, FlowTypes, Permits
  <1>7. \A g \in Forward \ {f} : Untouched(g)
        BY <1>3, <1>4, <1>6 DEF Untouched
  <1>8. StageFits(f)' /\ PermitFits(f)'
        BY <1>1, <1>2, <1>3, <1>4, <1>5 DEF StageFits, PermitFits
  <1>9. WorkerFits' /\ QueueIsServed'
        BY <1>1, <1>2, <1>4 DEF WorkerFits, QueueIsServed
  <1> QED
        BY <1>1, <1>3, <1>4, <1>5, <1>7, <1>8, <1>9

(* What comes of the analysis of f gives the permit back.                     *)
LEMMA AnalyzePlaces ==
  ASSUME PlaceInv, Analyze, NEW f, worker.forward = {f}
  PROVE  /\ f \in Forward /\ permit[f].holder = "worker" /\ permit'[f].holder = "none"
         /\ worker'.forward = {f} /\ queue'.jobs = queue.jobs
         /\ UNCHANGED <<kind, stage, task, sink, decoders, active, late, barrier>>
         /\ budget' = Released(f)
         /\ \A g \in Forward \ {f} : Untouched(g)
         /\ StageFits(f)' /\ PermitFits(f)'
         /\ WorkerFits' /\ QueueIsServed'
PROOF
  <1>1. f \in Forward
        BY DEF PlaceInv, ProxyTypes, Workers
  <1>2. StageFits(f) /\ PermitFits(f) /\ ProxyTypes /\ WorkerFits /\ QueueIsServed
        BY <1>1 DEF PlaceInv
  <1>3. worker.pc = "analyzing" /\ permit[f].holder = "worker"
        BY <1>1, <1>2 DEF Analyze, PermitFits
  <1>4. /\ UNCHANGED <<kind, stage, task, sink, decoders, active, late, barrier>>
        /\ worker' = [worker EXCEPT !.pc = "reporting"]
        /\ queue'.jobs = queue.jobs /\ queue'.admitted = queue.admitted \ {f}
        /\ queue'.running = queue.running
        /\ permit' = [permit EXCEPT ![f] = NoPermit]
        /\ budget' = Released(f)
        BY <1>2 DEF Analyze, DropPermit, ProxyTypes, Queues
  <1>5. permit'[f].holder = "none"
        BY <1>1, <1>2, <1>4 DEF ProxyTypes, FlowTypes, Permits, NoPermit
  <1>6. \A g \in Forward \ {f} : permit'[g] = permit[g]
        BY <1>2, <1>4 DEF ProxyTypes, FlowTypes, Permits
  <1>7. worker'.forward = {f} /\ worker'.pc = "reporting"
        BY <1>2, <1>4 DEF ProxyTypes, Workers
  <1>8. \A g \in Forward \ {f} : Untouched(g)
        BY <1>4, <1>6, <1>7 DEF Untouched
  <1>9. StageFits(f)' /\ PermitFits(f)'
        BY <1>1, <1>2, <1>3, <1>4, <1>5, <1>7 DEF StageFits, PermitFits
  <1>10. WorkerFits' /\ QueueIsServed'
        BY <1>1, <1>2, <1>4, <1>7 DEF WorkerFits, QueueIsServed
  <1> QED
        BY <1>1, <1>3, <1>4, <1>5, <1>7, <1>8, <1>9, <1>10

(* Then it reports, and has no forward any more.                              *)
LEMMA ReportPlaces ==
  ASSUME PlaceInv, ReportAnalysis, NEW f, worker.forward = {f}
  PROVE  /\ f \in Forward /\ permit[f].holder = "none"
         /\ worker'.forward = {} /\ worker.pc = "reporting" /\ worker'.pc = "checking"
         /\ sink' = [sink EXCEPT ![f].analyzed = @ + 1]
         /\ UNCHANGED <<kind, stage, task, permit, budget, queue, decoders, active, pending,
                        late, barrier>>
         /\ \A g \in Forward \ {f} : Untouched(g)
         /\ StageFits(f)' /\ PermitFits(f)'
         /\ WorkerFits' /\ QueueIsServed'
PROOF
  <1>1. f \in Forward
        BY DEF PlaceInv, ProxyTypes, Workers
  <1>2. StageFits(f) /\ PermitFits(f) /\ ProxyTypes /\ WorkerFits /\ QueueIsServed
        BY <1>1 DEF PlaceInv
  <1>3. /\ UNCHANGED <<kind, stage, task, permit, budget, queue, decoders, active, pending,
                       late, barrier>>
        /\ worker.pc = "reporting" /\ worker' = [pc |-> "checking", forward |-> {}]
        /\ sink' = [sink EXCEPT ![f].analyzed = @ + 1]
        BY DEF ReportAnalysis, Given
  <1>4. permit[f].holder = "none" /\ task[f].trigger \in HandingOver \cup {"gone"}
        BY <1>1, <1>2, <1>3 DEF PermitFits
  <1>5. \A g \in Forward \ {f} : sink'[g] = sink[g]
        BY <1>2, <1>3 DEF ProxyTypes, FlowTypes, Sinks
  <1>6. \A g \in Forward \ {f} : Untouched(g)
        BY <1>3, <1>5 DEF Untouched
  <1>7. stage[f] \notin Early \cup {"reading"}
        BY <1>2, <1>4 DEF StageFits, HandingOver, Task
  <1>8. StageFits(f)' /\ PermitFits(f)'
        BY <1>1, <1>2, <1>3, <1>4, <1>7 DEF StageFits, PermitFits
  <1>9. WorkerFits' /\ QueueIsServed'
        BY <1>2, <1>3 DEF WorkerFits, QueueIsServed
  <1> QED
        BY <1>1, <1>3, <1>4, <1>6, <1>8, <1>9

(* At the start nothing is admitted and nothing runs.                         *)
LEMMA InitPlaces == Init => PlaceInv
  BY InitTypes DEF Init, PlaceInv, StageFits, PermitFits, WorkerFits, QueueIsServed, NoPermit,
     Task, HandingOver

(* A step of an exchange keeps every party in its place.                      *)
LEMMA ExchangeKeepsPlaces ==
  ASSUME PlaceInv, NEW f \in Forward, Accept(f) \/ ForwardStep(f)
  PROVE  PlaceInv'
PROOF
  <1>1. ProxyTypes /\ WorkerFits /\ QueueIsServed
        BY DEF PlaceInv
  <1>2. ProxyTypes'
        BY <1>1, ExchangeTypes
  <1>3. /\ worker' = worker /\ queue'.jobs = queue.jobs /\ queue'.running = queue.running
        /\ \A g \in Forward \ {f} : Untouched(g)
        BY <1>1, ExchangeTouches
  <1>4. /\ StageFits(f)' /\ PermitFits(f)'
        /\ task[f].trigger # "none" => task'[f].trigger = task[f].trigger
        BY ExchangePlaces
  <1>5. ASSUME NEW g \in Forward
        PROVE  StageFits(g)' /\ PermitFits(g)'
        BY <1>3, <1>4, UntouchedStays DEF PlaceInv
  <1>6. WorkerFits' /\ QueueIsServed'
    <2>1. \A g \in Forward : task[g].trigger # "none" => task'[g].trigger = task[g].trigger
          BY <1>3, <1>4 DEF Untouched
    <2> QED
          BY <1>1, <1>3, <2>1 DEF WorkerFits, QueueIsServed
  <1> QED
        BY <1>2, <1>5, <1>6 DEF PlaceInv

(* A step of a task keeps every party in its place.                           *)
LEMMA TaskKeepsPlaces ==
  ASSUME PlaceInv, NEW f \in Forward, TaskStep(f)
  PROVE  PlaceInv'
PROOF
  <1>1. ProxyTypes'
        BY TaskTypes DEF PlaceInv
  <1>2. \A g \in Forward \ {f} : Untouched(g)
        BY TaskTouches
  <1>3. StageFits(f)' /\ PermitFits(f)' /\ WorkerFits' /\ QueueIsServed'
        BY TaskPlaces, TaskServes
  <1>4. ASSUME NEW g \in Forward
        PROVE  StageFits(g)' /\ PermitFits(g)'
        BY <1>2, <1>3, UntouchedStays DEF PlaceInv
  <1> QED
        BY <1>1, <1>3, <1>4 DEF PlaceInv

(* So does a step of the worker or of the barrier.                            *)
LEMMA WorkerKeepsPlaces ==
  ASSUME PlaceInv, WorkerStep \/ BarrierStep
  PROVE  PlaceInv'
PROOF
  <1>1. ProxyTypes'
        BY WorkerTypes DEF PlaceInv
  <1>2. CASE ~(TakeReady \/ Analyze \/ ReportAnalysis)
    <2>1. WorkerFits' /\ QueueIsServed' /\ \A g \in Forward : Untouched(g)
          BY <1>2, MovesTouchNothing DEF WorkerStep
    <2>2. ASSUME NEW g \in Forward
          PROVE  StageFits(g)' /\ PermitFits(g)'
          BY <2>1, UntouchedStays DEF PlaceInv
    <2> QED
          BY <1>1, <2>1, <2>2 DEF PlaceInv
  <1>3. CASE TakeReady
    <2> PICK f : f = First
          OBVIOUS
    <2>1. /\ WorkerFits' /\ QueueIsServed' /\ \A g \in Forward \ {f} : Untouched(g)
          /\ StageFits(f)' /\ PermitFits(f)'
          BY <1>3, TakePlaces
    <2>2. ASSUME NEW g \in Forward
          PROVE  StageFits(g)' /\ PermitFits(g)'
          BY <2>1, UntouchedStays DEF PlaceInv
    <2> QED
          BY <1>1, <2>1, <2>2 DEF PlaceInv
  <1>4. CASE Analyze \/ ReportAnalysis
    <2>1. PICK f \in Forward : worker.forward = {f}
          BY <1>4 DEF PlaceInv, WorkerFits, Analyze, ReportAnalysis
    <2>2. /\ WorkerFits' /\ QueueIsServed' /\ \A g \in Forward \ {f} : Untouched(g)
          /\ StageFits(f)' /\ PermitFits(f)'
          BY <1>4, <2>1, AnalyzePlaces, ReportPlaces
    <2>3. ASSUME NEW g \in Forward
          PROVE  StageFits(g)' /\ PermitFits(g)'
          BY <2>2, UntouchedStays DEF PlaceInv
    <2> QED
          BY <1>1, <2>2, <2>3 DEF PlaceInv
  <1> QED
        BY <1>2, <1>3, <1>4

(* Standing still, as the finished system does.                               *)
LEMMA StandingStillKeepsPlaces ==
  ASSUME PlaceInv, UNCHANGED vars
  PROVE  PlaceInv'
  BY DEF vars, PlaceInv, ProxyTypes, FlowTypes, StageFits, PermitFits, WorkerFits, QueueIsServed

(* Every step keeps every party in its place.                                 *)
LEMMA PlaceStep == PlaceInv /\ [Next]_vars => PlaceInv'
PROOF
  <1> SUFFICES ASSUME PlaceInv, [Next]_vars
               PROVE  PlaceInv'
      OBVIOUS
  <1>1. CASE UNCHANGED vars
        BY <1>1, StandingStillKeepsPlaces
  <1>2. CASE Over
        BY <1>2, StandingStillKeepsPlaces DEF Over
  <1>3. CASE \E f \in Forward : Accept(f) \/ ForwardStep(f)
        BY <1>3, ExchangeKeepsPlaces
  <1>4. CASE \E f \in Forward : TaskStep(f)
        BY <1>4, TaskKeepsPlaces
  <1>5. CASE WorkerStep \/ BarrierStep
        BY <1>5, WorkerKeepsPlaces
  <1> QED
        BY <1>1, <1>2, <1>3, <1>4, <1>5 DEF Next

-----------------------------------------------------------------------------
(* One report per admission                                                   *)

(* Nothing is reported of an untouched forward.                               *)
LEMMA UntouchedReports ==
  ASSUME NEW g \in Forward, ReportFits(g), Untouched(g), kind' = kind
  PROVE  ReportFits(g)'
  BY DEF ReportFits, Untouched, Accounted, Owned, Held, Reports

(* The exchange: a refused admission is reported with the request, and only a *)
(* client that leaves drops one that nothing will report.                     *)
LEMMA ExchangeReports ==
  ASSUME PlaceInv, NEW f \in Forward, ReportFits(f), Accept(f) \/ ForwardStep(f)
  PROVE  ReportFits(f)'
PROOF
  <1>0. StageFits(f) /\ PermitFits(f) /\ ProxyTypes
        BY DEF PlaceInv
  <1>a. kind' = kind /\ worker' = worker
        BY <1>0, ExchangeTouches
  <1>b. \A e \in Evidence : sink[f][e] \in Nat
        BY <1>0 DEF ProxyTypes, FlowTypes, Sinks
  <1>c. ASSUME sink' = sink
        PROVE  Reports(f)' = Reports(f)
        BY <1>c DEF Reports
  <1>1. CASE Accept(f) \/ TakeGuards(f) \/ BodyFails(f) \/ EndpointFails(f)
    <2>1. /\ stage'[f] \in {"numbered", "reading", "settled"} /\ UNCHANGED <<permit, sink>>
          /\ task'[f].trigger = task[f].trigger /\ task'[f].observer = task[f].observer
          /\ stage[f] \in Early \cup {"reading"}
          /\ \/ task'[f].record = task[f].record
             \/ kind[f] \in Misrouted \cap (Responses \cup Compact)
          BY <1>0, <1>1 DEF Accept, TakeGuards, BodyFails, EndpointFails, Spawn, ReportsFailure,
             ProxyTypes, FlowTypes, Stages, Tasks, Task, Early
    <2>2. task[f].trigger = "none" /\ task[f].observer = "none" /\ task[f].record = "none"
          BY <1>0, <2>1 DEF StageFits, Task
    <2>3. sink[f].response = 0 /\ sink[f].failure = 0
          BY <1>0, <2>1 DEF StageFits, Evidence
    <2> QED
          BY <1>a, <1>c, <2>1, <2>2, <2>3 DEF ReportFits, Accounted, Owned, Held
  <1>2. ASSUME NEW bytes \in WireBytes[kind[f]], Dispatch(f, bytes)
        PROVE  ReportFits(f)'
    <2>1. /\ stage[f] = "reading" /\ stage'[f] = "sending"
          /\ \A t \in Task \ {"parse"} : task'[f][t] = task[f][t]
          BY <1>0, <1>2 DEF Dispatch, DetachParser, Spawn, ProxyTypes, FlowTypes, Stages, Tasks, Task
    <2>2. /\ \A t \in Task : task[f][t] = "none"
          /\ \A e \in Evidence : sink[f][e] = 0
          /\ permit[f].holder = "none" /\ f \notin worker.forward
          BY <1>0, <2>1 DEF StageFits, PermitFits, Task, HandingOver, Holder, Early, ProxyTypes,
             FlowTypes, Permits
    <2>3. task'[f].trigger = "none" /\ task'[f].observer = "none" /\ task'[f].record = "none"
          BY <2>1, <2>2 DEF Task
    <2>4. CASE Analysis /\ kind[f] \in Responses /\ ~Room(bytes)
      <3>1. sink' = [sink EXCEPT ![f].shed = @ + 1] /\ permit' = permit
            BY <1>2, <2>4 DEF Dispatch, Given
      <3>2. /\ sink'[f].shed = 1 /\ sink'[f].analyzed = 0 /\ sink'[f].cancelled = 0
            /\ sink'[f].response = 0 /\ sink'[f].failure = 0
            BY <1>0, <2>2, <3>1 DEF ProxyTypes, FlowTypes, Sinks, Evidence
      <3>3. Reports(f)' = 1
            BY <3>2 DEF Reports
      <3> QED
            BY <1>a, <2>1, <2>2, <2>3, <3>1, <3>2, <3>3 DEF ReportFits, Accounted, Owned, Held
    <2>5. CASE ~(Analysis /\ kind[f] \in Responses /\ ~Room(bytes))
      <3>1. sink' = sink
            BY <1>2, <2>5 DEF Dispatch
      <3>2. Reports(f)' = 0 /\ sink'[f].response = 0 /\ sink'[f].failure = 0
            BY <2>2, <3>1 DEF Reports, Evidence
      <3>3. Analysis /\ kind[f] \in Responses => permit'[f].holder = "forward"
            BY <1>0, <1>2, <2>5 DEF Dispatch, Admit, ProxyTypes, FlowTypes, Permits
      <3> QED
            BY <1>a, <2>1, <2>3, <3>2, <3>3 DEF ReportFits, Accounted, Owned, Held
    <2> QED
          BY <2>4, <2>5
  <1>3. CASE ClientLeaves(f)
    <2>1. /\ stage[f] = "sending" /\ stage'[f] = "settled" /\ UNCHANGED <<task, sink>>
          BY <1>0, <1>3 DEF ClientLeaves, ProxyTypes, FlowTypes, Stages
    <2>2. \/ permit[f].holder = "forward" /\ permit'[f].holder = "none"
          \/ permit' = permit
          BY <1>0, <1>3 DEF ClientLeaves, Started, DropPermit, NoPermit, ProxyTypes, FlowTypes,
             Permits
    <2>3. /\ task[f].observer = "none" /\ task[f].record = "none"
          /\ permit[f].holder = "forward" => task[f].trigger = "none" /\ f \notin worker.forward
          BY <1>0, <2>1 DEF StageFits, PermitFits, HandingOver
    <2> QED
          BY <1>a, <1>c, <2>1, <2>2, <2>3 DEF ReportFits, Accounted, Owned, Held
  <1>4. CASE UpstreamFails(f) \/ UpstreamAnswers(f) \/ BodySettles(f)
    <2>1. /\ stage[f] \in {"sending", "streaming"} /\ stage'[f] # "sending" /\ sink' = sink
          /\ stage'[f] = "streaming" => stage[f] = "sending"
          BY <1>0, <1>4 DEF UpstreamFails, UpstreamAnswers, BodySettles, ProxyTypes, FlowTypes, Stages
    <2>2. /\ Owned(f)' = Owned(f) /\ Reports(f)' = Reports(f)
          BY <1>0, <1>4, <1>a, <2>1 DEF UpstreamFails, UpstreamAnswers, BodySettles, Started,
             ProxyTypes, FlowTypes, Permits, Owned, Held, Reports
    <2>3. task[f].trigger = task'[f].trigger \/ Owned(f)
          BY <1>0, <1>4 DEF UpstreamFails, UpstreamAnswers, BodySettles, Started, Spawn,
             ProxyTypes, FlowTypes, Tasks, Task, Owned, Held
    <2>4. /\ \/ task'[f].observer = task[f].observer
             \/ task[f].observer = "none" /\ stage[f] = "sending" /\ kind[f] \in Responses
          /\ \/ task'[f].record = task[f].record
             \/ /\ task[f].record = "none"
                /\ kind[f] \in Responses \cup Compact
                /\ kind[f] \in Responses => stage[f] = "sending"
          BY <1>0, <1>4, ProxyAssumption DEF UpstreamFails, UpstreamAnswers, BodySettles, Tapped,
             ReportsFailure, Spawn, StageFits, ProxyTypes, FlowTypes, Tasks, Task
    <2>5. /\ stage[f] = "sending" /\ Analysis /\ kind[f] \in Responses => Accounted(f)
          /\ Accounted(f)' = Accounted(f)
          BY <2>2 DEF ReportFits, Accounted, Owned, Held
    <2> QED
          BY <1>a, <1>b, <2>1, <2>2, <2>3, <2>4, <2>5 DEF ReportFits, Accounted, Evidence
  <1>5. CASE DropActive(f) \/ StartTrigger(f) \/ DropGuard(f)
    <2>1. /\ stage'[f] \notin {"sending", "streaming"} /\ sink' = sink
          /\ task'[f].observer = task[f].observer /\ task'[f].record = task[f].record
          BY <1>0, <1>5 DEF DropActive, StartTrigger, DropGuard, Spawn, ProxyTypes, FlowTypes,
             Stages, Tasks, Task
    <2>2. /\ Owned(f)' = Owned(f) /\ Reports(f)' = Reports(f)
          BY <1>0, <1>5, <1>a, <2>1 DEF DropActive, StartTrigger, DropGuard, Started,
             ProxyTypes, FlowTypes, Permits, Owned, Held, Reports
    <2>3. task[f].trigger = task'[f].trigger \/ Owned(f)
          BY <1>0, <1>5 DEF DropActive, StartTrigger, DropGuard, Started, Spawn,
             ProxyTypes, FlowTypes, Tasks, Task, Owned, Held
    <2> QED
          BY <1>a, <2>1, <2>2, <2>3 DEF ReportFits, Accounted
  <1> QED
        BY <1>1, <1>2, <1>3, <1>4, <1>5 DEF ForwardStep

(* The tasks: a trigger that is cancelled reports, and gives its permit back. *)
LEMMA TaskReports ==
  ASSUME PlaceInv, NEW f \in Forward, ReportFits(f), TaskStep(f)
  PROVE  ReportFits(f)'
PROOF
  <1>0. StageFits(f) /\ PermitFits(f) /\ ProxyTypes
        BY DEF PlaceInv
  <1>a. kind' = kind /\ stage' = stage /\ worker'.forward = worker.forward
        BY TaskTouches
  <1>b. \A e \in Evidence : sink[f][e] \in Nat
        BY <1>0 DEF ProxyTypes, FlowTypes, Sinks
  <1>1. CASE Parse(f) \/ ParseFails(f)
    <2>1. /\ \A t \in Task \ {"parse"} : task'[f][t] = task[f][t]
          /\ \A e \in Evidence \ {"request"} : sink'[f][e] = sink[f][e]
          /\ permit' = permit
          BY <1>0, <1>1 DEF Parse, ParseFails, Gone, Given, ProxyTypes, FlowTypes, Tasks, Sinks
    <2>2. Reports(f)' = Reports(f) /\ Owned(f)' = Owned(f)
          BY <1>a, <2>1 DEF Reports, Owned, Held, Evidence
    <2> QED
          BY <1>a, <2>1, <2>2 DEF ReportFits, Accounted, Task, Evidence
  <1>2. CASE Record(f)
    <2>1. /\ task[f].record = "running" /\ task'[f].record = "gone"
          /\ \A t \in Task \ {"record"} : task'[f][t] = task[f][t]
          /\ \A e \in Evidence \ {"compaction", "failure"} : sink'[f][e] = sink[f][e]
          /\ kind[f] \in Compact => sink'[f].failure = sink[f].failure
          /\ permit' = permit
          BY <1>0, <1>2 DEF Record, Gone, Given, ProxyTypes, FlowTypes, Tasks, Sinks, Task, Evidence
    <2>2. Reports(f)' = Reports(f) /\ Owned(f)' = Owned(f)
          BY <1>a, <2>1 DEF Reports, Owned, Held, Evidence
    <2> QED
          BY <1>a, <2>1, <2>2 DEF ReportFits, Accounted, Task, Evidence
  <1>3. CASE Observe(f)
    <2>1. /\ task[f].observer = "running" /\ task'[f].observer = "gone"
          /\ \A t \in Task \ {"observer"} : task'[f][t] = task[f][t]
          /\ \A e \in Evidence \ {"response"} : sink'[f][e] = sink[f][e]
          /\ permit' = permit
          BY <1>0, <1>3 DEF Observe, Gone, Given, ProxyTypes, FlowTypes, Tasks, Sinks, Task, Evidence
    <2>2. Reports(f)' = Reports(f) /\ Owned(f)' = Owned(f)
          BY <1>a, <2>1 DEF Reports, Owned, Held, Evidence
    <2> QED
          BY <1>a, <2>1, <2>2 DEF ReportFits, Accounted, Task, Evidence
  <1>4. CASE TriggerIsCancelled(f)
    <2>1. /\ task[f].trigger = "running"
          /\ \A t \in Task \ {"trigger"} : task'[f][t] = task[f][t]
          /\ \A e \in Evidence \ {"cancelled"} : sink'[f][e] = sink[f][e]
          /\ sink'[f].cancelled = sink[f].cancelled + 1
          /\ permit'[f].holder = "none"
          BY <1>0, <1>4 DEF TriggerIsCancelled, Gone, Given, DropPermit, NoPermit, ProxyTypes,
             FlowTypes, Tasks, Sinks, Permits, Task, Evidence
    <2>2. permit[f].holder = "trigger" /\ f \notin worker.forward
          BY <1>0, <2>1 DEF PermitFits, HandingOver
    <2>3. Reports(f) = 0 /\ Reports(f)' = 1 /\ ~Owned(f)'
      <3>1. Owned(f) /\ ~Owned(f)'
            BY <1>a, <2>1, <2>2 DEF Owned, Held
      <3>2. Reports(f) = 0
            BY <3>1 DEF ReportFits
      <3> QED
            BY <1>b, <2>1, <3>1, <3>2 DEF Reports, Evidence
    <2> QED
          BY <1>a, <2>1, <2>2, <2>3 DEF ReportFits, Accounted, Task, Evidence
  <1>5. CASE Enqueue(f) \/ NotifyWorker(f) \/ SpawnWorker(f)
    <2>1. /\ task[f].trigger # "none" /\ sink' = sink
          /\ \A t \in Task \ {"trigger"} : task'[f][t] = task[f][t]
          /\ \/ permit' = permit
             \/ permit[f].holder = "trigger" /\ permit'[f].holder = "job"
          BY <1>0, <1>5 DEF Enqueue, NotifyWorker, SpawnWorker, Gone, PermitFits, ProxyTypes,
             FlowTypes, Tasks, Permits, Task
    <2>2. Reports(f)' = Reports(f) /\ Owned(f)' = Owned(f)
          BY <1>a, <2>1 DEF Reports, Owned, Held
    <2>3. permit'[f].holder = "forward" <=> permit[f].holder = "forward"
          BY <2>1
    <2> QED
          BY <1>a, <2>1, <2>2, <2>3 DEF ReportFits, Accounted, Task
  <1> QED
        BY <1>1, <1>2, <1>3, <1>4, <1>5 DEF TaskStep

(* The worker reports the forward it has analyzed, and no other.              *)
LEMMA WorkerReports ==
  ASSUME PlaceInv, ReportInv, WorkerStep \/ BarrierStep
  PROVE  ReportInv'
PROOF
  <1>1. CASE ~(TakeReady \/ Analyze \/ ReportAnalysis)
    <2>1. kind' = kind /\ \A g \in Forward : Untouched(g)
          BY <1>1, MovesTouchNothing DEF WorkerStep
    <2> QED
          BY <2>1, UntouchedReports DEF ReportInv
  <1>2. CASE TakeReady
    <2> PICK f : f = First
          OBVIOUS
    <2>1. /\ f \in Forward /\ permit[f].holder = "job" /\ permit'[f].holder = "worker"
          /\ UNCHANGED <<kind, stage, task, sink>> /\ \A g \in Forward \ {f} : Untouched(g)
          BY <1>2, TakePlaces
    <2>2. Reports(f)' = Reports(f) /\ Owned(f)' /\ Owned(f) /\ ReportFits(f)
          BY <2>1 DEF Reports, Owned, Held, ReportInv
    <2>3. ReportFits(f)'
          BY <2>1, <2>2 DEF ReportFits, Accounted
    <2> QED
          BY <2>1, <2>3, UntouchedReports DEF ReportInv
  <1>3. CASE Analyze
    <2>1. PICK f \in Forward : worker.forward = {f}
          BY <1>3 DEF PlaceInv, WorkerFits, Analyze
    <2>2. /\ permit[f].holder = "worker" /\ permit'[f].holder = "none" /\ worker'.forward = {f}
          /\ UNCHANGED <<kind, stage, task, sink>> /\ \A g \in Forward \ {f} : Untouched(g)
          BY <1>3, <2>1, AnalyzePlaces
    <2>3. Reports(f)' = Reports(f) /\ Owned(f)' /\ Owned(f) /\ ReportFits(f)
          BY <2>1, <2>2 DEF Reports, Owned, Held, ReportInv
    <2>4. ReportFits(f)'
          BY <2>2, <2>3 DEF ReportFits, Accounted
    <2> QED
          BY <2>2, <2>4, UntouchedReports DEF ReportInv
  <1>4. CASE ReportAnalysis
    <2>1. PICK f \in Forward : worker.forward = {f}
          BY <1>4 DEF PlaceInv, WorkerFits, ReportAnalysis
    <2>2. /\ permit[f].holder = "none" /\ permit' = permit /\ worker'.forward = {}
          /\ UNCHANGED <<kind, stage, task>> /\ \A g \in Forward \ {f} : Untouched(g)
          /\ sink' = [sink EXCEPT ![f].analyzed = @ + 1]
          BY <1>4, <2>1, ReportPlaces
    <2>3. /\ \A e \in Evidence \ {"analyzed"} : sink'[f][e] = sink[f][e]
          /\ sink'[f].analyzed = sink[f].analyzed + 1
          /\ \A e \in Evidence : sink[f][e] \in Nat
          BY <2>2 DEF PlaceInv, ProxyTypes, FlowTypes, Sinks, Evidence
    <2>4. Owned(f) /\ Reports(f) = 0 /\ ReportFits(f)
          BY <2>1 DEF Owned, ReportInv, ReportFits
    <2>5. Reports(f)' = 1 /\ ~Owned(f)'
          BY <2>2, <2>3, <2>4 DEF Reports, Owned, Held, Evidence
    <2>6. ReportFits(f)'
          BY <2>2, <2>3, <2>4, <2>5 DEF ReportFits, Accounted, Evidence
    <2> QED
          BY <2>2, <2>6, UntouchedReports DEF ReportInv
  <1> QED
        BY <1>1, <1>2, <1>3, <1>4

(* At the start nothing is reported.                                          *)
LEMMA InitReports == Init => ReportInv
  BY DEF Init, ReportInv, ReportFits, Accounted, Owned, Held, Reports, NoPermit, Task, Evidence

(* Every step keeps the account.                                              *)
LEMMA ReportStep == PlaceInv /\ ReportInv /\ [Next]_vars => ReportInv'
PROOF
  <1> SUFFICES ASSUME PlaceInv, ReportInv, [Next]_vars
               PROVE  ReportInv'
      OBVIOUS
  <1>1. CASE UNCHANGED vars \/ Over
        BY <1>1 DEF vars, Over, ReportInv, ReportFits, Accounted, Owned, Held, Reports
  <1>2. ASSUME NEW f \in Forward, Accept(f) \/ ForwardStep(f)
        PROVE  ReportInv'
    <2>1. kind' = kind /\ \A g \in Forward \ {f} : Untouched(g)
          BY <1>2, ExchangeTouches DEF PlaceInv
    <2>2. ReportFits(f)'
          BY <1>2, ExchangeReports DEF ReportInv
    <2> QED
          BY <2>1, <2>2, UntouchedReports DEF ReportInv
  <1>3. ASSUME NEW f \in Forward, TaskStep(f)
        PROVE  ReportInv'
    <2>1. kind' = kind /\ \A g \in Forward \ {f} : Untouched(g)
          BY <1>3, TaskTouches
    <2>2. ReportFits(f)'
          BY <1>3, TaskReports DEF ReportInv
    <2> QED
          BY <2>1, <2>2, UntouchedReports DEF ReportInv
  <1>4. CASE WorkerStep \/ BarrierStep
        BY <1>4, WorkerReports
  <1> QED
        BY <1>1, <1>2, <1>3, <1>4 DEF Next

(* What a reader of the sinks may rely on, from what holds of each forward.   *)
LEMMA ReportsFollow == PlaceInv /\ ReportInv => AdmissionsAreReportedOnce
PROOF
  <1> SUFFICES ASSUME PlaceInv, ReportInv, NEW f \in Forward
               PROVE  /\ Reports(f) <= 1
                      /\ f \in Held => Reports(f) = 0
                      /\ Analysis /\ HasOutcome(f) /\ f \notin Held \cup worker.forward
                           => Reports(f) = 1
      BY DEF AdmissionsAreReportedOnce
  <1>1. ReportFits(f) /\ StageFits(f)
        BY DEF ReportInv, PlaceInv
  <1>2. Reports(f) <= 1 /\ (f \in Held => Reports(f) = 0)
        BY <1>1 DEF ReportFits, Owned
  <1>3. ASSUME Analysis, HasOutcome(f), ~Owned(f)
        PROVE  Reports(f) = 1
    <2>1. CASE sink[f].failure = 1 /\ kind[f] \notin Misrouted
          BY <1>1, <1>3, <2>1 DEF ReportFits, Accounted
    <2>2. CASE sink[f].response = 1
          BY <1>1, <1>3, <2>2 DEF ReportFits, Accounted
    <2>3. CASE task[f].trigger = "gone"
          BY <1>1, <1>3, <2>3 DEF ReportFits, Accounted
    <2> QED
          BY <1>3, <2>1, <2>2, <2>3 DEF HasOutcome
  <1> QED
        BY <1>2, <1>3 DEF Owned

(* The permits, the jobs, the queue and the worker agree in every reachable   *)
(* state, so that an admission is with one party at a time.                   *)
THEOREM PlacesHold == Spec => []PlaceInv
  <1>1. Init => PlaceInv
        BY InitPlaces
  <1>2. PlaceInv /\ [Next]_vars => PlaceInv'
        BY PlaceStep
  <1> QED
        BY <1>1, <1>2, PTL DEF Spec

(* An admission is reported once over every interleaving of the exchange, its *)
(* detached tasks, the worker and a client that leaves.                       *)
THEOREM AdmissionsAreReportedOnceHolds == Spec => []AdmissionsAreReportedOnce
  <1>1. Init => PlaceInv /\ ReportInv
        BY InitPlaces, InitReports
  <1>2. (PlaceInv /\ ReportInv) /\ [Next]_vars => (PlaceInv /\ ReportInv)'
        BY PlaceStep, ReportStep
  <1>3. PlaceInv /\ ReportInv => AdmissionsAreReportedOnce
        BY ReportsFollow
  <1> QED
        BY <1>1, <1>2, <1>3, PTL DEF Spec

-----------------------------------------------------------------------------
(* The shutdown barrier                                                       *)

(* Forwards and tasks are finitely many, so guards can be counted.            *)
LEMMA GuardsAreFinite ==
  /\ \A S \in SUBSET Forward : IsFiniteSet(S)
  /\ \A S \in SUBSET (Forward \X Task) : IsFiniteSet(S)
PROOF
  <1>1. IsFiniteSet(Forward)
        BY ProxyAssumption, FS_Interval DEF Forward
  <1>2. IsFiniteSet(Task)
    <2>1. Task = ((({} \cup {"parse"}) \cup {"trigger"}) \cup {"observer"}) \cup {"record"}
          BY DEF Task
    <2> QED
          BY <2>1, FS_EmptySet, FS_AddElement
  <1>3. IsFiniteSet(Forward \X Task)
        BY <1>1, <1>2, FS_Product
  <1> QED
        BY <1>1, <1>3, FS_Subset

(* A set that a step turns from S into R by what happens to x.                *)
LEMMA OneChanges ==
  ASSUME NEW S, NEW R, NEW x, IsFiniteSet(S), R \ {x} = S \ {x}
  PROVE  /\ Cardinality(R) = Cardinality(S) + Count(x \in R) - Count(x \in S)
         /\ Cardinality(S) \in Nat
PROOF
  <1>0. Cardinality(S) \in Nat
        BY FS_CardinalityType
  <1>1. CASE x \in R /\ x \notin S
    <2>1. R = S \cup {x}
          BY <1>1
    <2> QED
          BY <1>0, <1>1, <2>1, FS_AddElement DEF Count
  <1>2. CASE x \notin R /\ x \in S
    <2>1. R = S \ {x}
          BY <1>2
    <2> QED
          BY <1>0, <1>2, <2>1, FS_RemoveElement DEF Count
  <1>3. CASE x \in R <=> x \in S
    <2>1. R = S
          BY <1>3
    <2> QED
          BY <1>0, <1>3, <2>1 DEF Count
  <1> QED
        BY <1>1, <1>2, <1>3

(* The guard of an exchange is taken before it reads and dropped at its end.  *)
LEMMA StageCounts ==
  ASSUME NEW S \in Stages, NEW f \in Forward, NEW to \in Stage
  PROVE  /\ Cardinality(Guarding([S EXCEPT ![f] = to])) =
               Cardinality(Guarding(S)) + Count(to \notin Early \cup {"gone"})
                                        - Count(S[f] \notin Early \cup {"gone"})
         /\ Cardinality(Guarding(S)) \in Nat
PROOF
  <1> DEFINE R == Guarding([S EXCEPT ![f] = to])
  <1>1. IsFiniteSet(Guarding(S))
        BY GuardsAreFinite DEF Guarding
  <1>2. R \ {f} = Guarding(S) \ {f}
        BY DEF Guarding, Stages
  <1>3. /\ f \in R <=> to \notin Early \cup {"gone"}
        /\ f \in Guarding(S) <=> S[f] \notin Early \cup {"gone"}
        BY DEF Guarding, Stages
  <1> HIDE DEF R
  <1>4. /\ Cardinality(R) = Cardinality(Guarding(S)) + Count(f \in R) - Count(f \in Guarding(S))
        /\ Cardinality(Guarding(S)) \in Nat
        BY <1>1, <1>2, OneChanges
  <1> QED
        BY <1>3, <1>4 DEF R, Count

(* The guard of a task is taken before the spawn and dropped when it is gone. *)
LEMMA TaskCounts ==
  ASSUME NEW T \in Tasks, NEW f \in Forward, NEW t \in Task, NEW m \in Mode
  PROVE  /\ Cardinality(Running([T EXCEPT ![f][t] = m])) =
               Cardinality(Running(T)) + Count(m \notin Ended) - Count(T[f][t] \notin Ended)
         /\ Cardinality(Running(T)) \in Nat
PROOF
  <1> DEFINE R == Running([T EXCEPT ![f][t] = m])
             x == <<f, t>>
  <1>1. IsFiniteSet(Running(T))
        BY GuardsAreFinite DEF Running
  <1>2. ASSUME NEW y \in Forward \X Task, y # x
        PROVE  y \in R <=> y \in Running(T)
    <2>1. PICK g \in Forward, u \in Task : y = <<g, u>>
          OBVIOUS
    <2>2. [T EXCEPT ![f][t] = m][g][u] = T[g][u]
          BY <1>2, <2>1 DEF Tasks
    <2> QED
          BY <2>1, <2>2 DEF Running
  <1>3. R \ {x} = Running(T) \ {x}
        BY <1>2 DEF Running
  <1>4. /\ x \in R <=> m \notin Ended
        /\ x \in Running(T) <=> T[f][t] \notin Ended
        BY DEF Running, Tasks
  <1> HIDE DEF R, x
  <1>5. /\ Cardinality(R) = Cardinality(Running(T)) + Count(x \in R) - Count(x \in Running(T))
        /\ Cardinality(Running(T)) \in Nat
        BY <1>1, <1>3, OneChanges
  <1> QED
        BY <1>4, <1>5 DEF R, Count

(* A step that leaves stages, tasks and the worker alone leaves the count.     *)
LEMMA NoGuardMoves ==
  ASSUME GuardsAreCounted, UNCHANGED <<stage, task, pending>>,
         worker'.pc = "none" <=> worker.pc = "none"
  PROVE  GuardsAreCounted'
  BY DEF GuardsAreCounted, Count

(* The exchange takes each guard before the code it guards runs.              *)
LEMMA ExchangeCounts ==
  ASSUME PlaceInv, GuardsAreCounted, NEW f \in Forward, Accept(f) \/ ForwardStep(f)
  PROVE  GuardsAreCounted'
PROOF
  <1>0. StageFits(f) /\ PermitFits(f) /\ ProxyTypes
        BY DEF PlaceInv
  <1>a. worker' = worker /\ stage \in Stages /\ task \in Tasks /\ pending \in Int
        BY <1>0, ExchangeTouches DEF ProxyTypes, FlowTypes
  <1>b. /\ Cardinality(Guarding(stage)) \in Nat /\ Cardinality(Running(task)) \in Nat
        /\ Count(worker.pc # "none") \in Nat
        BY <1>a, StageCounts, TaskCounts DEF Count, Task, Mode, Stage, Early, Ended
  <1>c. ASSUME NEW to \in Stage, stage' = [stage EXCEPT ![f] = to]
        PROVE  Cardinality(Guarding(stage')) = Cardinality(Guarding(stage))
                  + Count(to \notin Early \cup {"gone"})
                  - Count(stage[f] \notin Early \cup {"gone"})
        BY <1>a, <1>c, StageCounts
  <1>d. ASSUME NEW t \in Task, task[f][t] = "none", task' = Spawn(f, t)
        PROVE  Cardinality(Running(task')) = Cardinality(Running(task)) + 1
    <2>1. "running" \in Mode
          BY DEF Mode
    <2>2. Cardinality(Running([task EXCEPT ![f][t] = "running"])) =
             Cardinality(Running(task)) + Count("running" \notin Ended) - Count(task[f][t] \notin Ended)
          BY <1>a, <2>1, TaskCounts
    <2>3. Count("running" \notin Ended) = 1 /\ Count(task[f][t] \notin Ended) = 0
          BY <1>d DEF Count, Ended
    <2> QED
          BY <1>b, <1>d, <2>2, <2>3 DEF Spawn
  <1>1. CASE Accept(f)
    <2>1. Cardinality(Guarding(stage')) = Cardinality(Guarding(stage))
          BY <1>1, <1>b, <1>c DEF Accept, Stage, Early, Count
    <2> QED
          BY <1>1, <1>a, <2>1 DEF Accept, GuardsAreCounted
  <1>2. CASE TakeGuards(f)
    <2>1. Cardinality(Guarding(stage')) = Cardinality(Guarding(stage)) + 1
          BY <1>2, <1>b, <1>c DEF TakeGuards, Stage, Early, Count
    <2> QED
          BY <1>2, <1>a, <1>b, <2>1 DEF TakeGuards, GuardsAreCounted
  <1>3. CASE DropGuard(f)
    <2>1. Cardinality(Guarding(stage')) = Cardinality(Guarding(stage)) - 1
          BY <1>3, <1>b, <1>c DEF DropGuard, Stage, Early, Count
    <2> QED
          BY <1>3, <1>a, <1>b, <2>1 DEF DropGuard, GuardsAreCounted
  <1>4. ASSUME NEW from \in Stage \ (Early \cup {"gone"}), NEW to \in Stage \ (Early \cup {"gone"}),
               stage[f] = from, stage' = [stage EXCEPT ![f] = to]
        PROVE  Cardinality(Guarding(stage')) = Cardinality(Guarding(stage))
    <2>1. Cardinality(Guarding(stage')) = Cardinality(Guarding(stage))
                  + Count(to \notin Early \cup {"gone"})
                  - Count(stage[f] \notin Early \cup {"gone"})
          BY <1>4, <1>c
    <2>2. Count(to \notin Early \cup {"gone"}) = 1 /\ Count(stage[f] \notin Early \cup {"gone"}) = 1
          BY <1>4 DEF Count
    <2> QED
          BY <1>b, <2>1, <2>2
  <1>5. CASE BodyFails(f) \/ ClientLeaves(f) \/ DropActive(f)
    <2>1. Cardinality(Guarding(stage')) = Cardinality(Guarding(stage))
          BY <1>5, <1>4 DEF BodyFails, ClientLeaves, DropActive, Stage, Early
    <2> QED
          BY <1>5, <1>a, <2>1 DEF BodyFails, ClientLeaves, DropActive, GuardsAreCounted
  <1>6. CASE EndpointFails(f) \/ UpstreamAnswers(f) \/ BodySettles(f) \/ StartTrigger(f)
    <2>1. Cardinality(Guarding(stage')) = Cardinality(Guarding(stage))
          BY <1>6, <1>4 DEF EndpointFails, UpstreamAnswers, BodySettles, StartTrigger, Stage, Early
    <2>2. \/ UNCHANGED <<task, pending>>
          \/ /\ pending' = pending + 1
             /\ \E t \in Task : task[f][t] = "none" /\ task' = Spawn(f, t)
          BY <1>0, <1>6 DEF EndpointFails, UpstreamAnswers, BodySettles, StartTrigger, StageFits,
             PermitFits, Started, Task, Early
    <2> QED
          BY <1>a, <1>b, <1>d, <2>1, <2>2 DEF GuardsAreCounted
  <1>7. CASE UpstreamFails(f)
    <2>1. Cardinality(Guarding(stage')) = Cardinality(Guarding(stage))
          BY <1>7, <1>4 DEF UpstreamFails, Stage, Early
    <2> DEFINE trigger == IF Started(f) THEN "running" ELSE task[f].trigger
               record == IF ReportsFailure(f) THEN "running" ELSE task[f].record
               once == [task EXCEPT ![f].trigger = trigger]
    <2>2. /\ trigger \in Mode /\ record \in Mode
          /\ task' = [once EXCEPT ![f].record = record]
          /\ once[f].record = task[f].record /\ task[f].record = "none"
          /\ Started(f) => task[f].trigger = "none"
          BY <1>0, <1>7, <1>a DEF UpstreamFails, Started, StageFits, PermitFits, Tasks, Task, Mode, Ended
    <2>3. /\ Count(trigger \notin Ended) - Count(task[f].trigger \notin Ended) = Count(Started(f))
          /\ Count(record \notin Ended) - Count(task[f].record \notin Ended)
                = Count(ReportsFailure(f))
          BY <2>2 DEF Count, Ended
    <2>4. pending' = pending + Count(Started(f)) + Count(ReportsFailure(f))
          BY <1>7, OneOrNone DEF UpstreamFails, Count
    <2> HIDE DEF trigger, record, once
    <2>5. once \in Tasks
          BY <1>a, <2>2, TaskSet DEF once, Task
    <2>a. Cardinality(Running(once)) = Cardinality(Running(task)) + Count(trigger \notin Ended)
               - Count(task[f].trigger \notin Ended)
          BY <1>a, <2>2, TaskCounts DEF once, Task
    <2>b. Cardinality(Running([once EXCEPT ![f].record = record])) =
             Cardinality(Running(once)) + Count(record \notin Ended)
               - Count(once[f].record \notin Ended)
          BY <2>2, <2>5, TaskCounts DEF Task
    <2>6. Cardinality(Running(task')) = Cardinality(Running(once)) + Count(record \notin Ended)
               - Count(task[f].record \notin Ended)
          BY <2>2, <2>b
    <2>7. Cardinality(Running(task'))
             = Cardinality(Running(task)) + Count(Started(f)) + Count(ReportsFailure(f))
          BY <1>b, <2>3, <2>a, <2>6 DEF Count
    <2> QED
          BY <1>a, <1>b, <2>1, <2>4, <2>7 DEF GuardsAreCounted, Count
  <1>8. ASSUME NEW bytes \in WireBytes[kind[f]], Dispatch(f, bytes)
        PROVE  GuardsAreCounted'
    <2>1. Cardinality(Guarding(stage')) = Cardinality(Guarding(stage))
          BY <1>8, <1>4 DEF Dispatch, Stage, Early
    <2>2. \/ UNCHANGED <<task, pending>>
          \/ pending' = pending + 1 /\ task[f].parse = "none" /\ task' = Spawn(f, "parse")
          BY <1>0, <1>8 DEF Dispatch, DetachParser, StageFits, Task
    <2> QED
          BY <1>a, <1>b, <1>d, <2>1, <2>2 DEF GuardsAreCounted, Task
  <1> QED
        BY <1>1, <1>2, <1>3, <1>5, <1>6, <1>7, <1>8 DEF ForwardStep

(* A task drops its guard when it is gone; the trigger that starts the worker *)
(* leaves its guard to it.                                                    *)
LEMMA TaskStepCounts ==
  ASSUME PlaceInv, GuardsAreCounted, NEW f \in Forward, TaskStep(f)
  PROVE  GuardsAreCounted'
PROOF
  <1>0. ProxyTypes
        BY DEF PlaceInv
  <1>a. stage' = stage /\ task \in Tasks /\ pending \in Int
        BY <1>0, TaskTouches DEF ProxyTypes, FlowTypes
  <1>b. /\ Cardinality(Guarding(stage)) \in Nat /\ Cardinality(Running(task)) \in Nat
        /\ Count(worker.pc # "none") \in Nat
        BY <1>0, StageCounts, TaskCounts DEF Count, Task, Mode, Stage, Early, Ended, ProxyTypes, FlowTypes
  <1>c. ASSUME NEW t \in Task, NEW m \in Mode, task[f][t] \notin Ended,
               task' = [task EXCEPT ![f][t] = m]
        PROVE  Cardinality(Running(task')) =
                  IF m \in Ended THEN Cardinality(Running(task)) - 1 ELSE Cardinality(Running(task))
    <2>1. Cardinality(Running([task EXCEPT ![f][t] = m])) =
             Cardinality(Running(task)) + Count(m \notin Ended) - Count(task[f][t] \notin Ended)
          BY <1>a, TaskCounts
    <2>2. /\ Count(task[f][t] \notin Ended) = 1
          /\ Count(m \notin Ended) = IF m \in Ended THEN 0 ELSE 1
          BY <1>c DEF Count
    <2> QED
          BY <1>b, <1>c, <2>1, <2>2
  <1>1. CASE Parse(f) \/ ParseFails(f) \/ Record(f) \/ Observe(f) \/ TriggerIsCancelled(f)
    <2>1. /\ worker' = worker /\ pending' = pending - 1
          /\ \E t \in Task : task[f][t] \notin Ended /\ task' = [task EXCEPT ![f][t] = "gone"]
          BY <1>1 DEF Parse, ParseFails, Record, Observe, TriggerIsCancelled, Gone, Task, Ended
    <2>2. Cardinality(Running(task')) = Cardinality(Running(task)) - 1
          BY <1>c, <2>1 DEF Mode, Ended
    <2> QED
          BY <1>a, <1>b, <2>1, <2>2 DEF GuardsAreCounted
  <1>2. CASE Enqueue(f)
    <2>1. /\ UNCHANGED <<worker, pending>> /\ task[f].trigger \notin Ended
          /\ \E m \in {"joining", "starting"} : task' = [task EXCEPT ![f].trigger = m]
          BY <1>2 DEF Enqueue, Ended
    <2>2. Cardinality(Running(task')) = Cardinality(Running(task))
          BY <1>c, <2>1 DEF Mode, Ended, HandingOver, Task
    <2> QED
          BY <1>a, <2>1, <2>2 DEF GuardsAreCounted
  <1>3. CASE NotifyWorker(f) /\ task[f].trigger = "joining"
    <2>1. /\ worker' = worker /\ pending' = pending - 1 /\ task[f].trigger \notin Ended
          /\ task' = [task EXCEPT ![f].trigger = "gone"]
          BY <1>3 DEF NotifyWorker, Gone, Ended
    <2>2. Cardinality(Running(task')) = Cardinality(Running(task)) - 1
          BY <1>c, <2>1 DEF Mode, Ended, Task
    <2> QED
          BY <1>a, <1>b, <2>1, <2>2 DEF GuardsAreCounted
  <1>4. CASE NotifyWorker(f) /\ task[f].trigger # "joining"
    <2>1. /\ UNCHANGED <<worker, pending>> /\ task[f].trigger \notin Ended
          /\ task' = [task EXCEPT ![f].trigger = "spawning"]
          BY <1>4 DEF NotifyWorker, Ended
    <2>a. "spawning" \in Mode /\ "spawning" \notin Ended /\ "trigger" \in Task
          BY DEF Mode, HandingOver, Ended, Task
    <2>2. Cardinality(Running(task')) = Cardinality(Running(task))
          BY <1>c, <2>1, <2>a
    <2> QED
          BY <1>a, <2>1, <2>2 DEF GuardsAreCounted
  <1>5. CASE SpawnWorker(f)
    <2>1. /\ worker.pc = "none" /\ worker'.pc = "checking" /\ pending' = pending
          /\ task[f].trigger \notin Ended /\ task' = [task EXCEPT ![f].trigger = "gone"]
          BY <1>0, <1>5 DEF SpawnWorker, Ended, ProxyTypes, Workers
    <2>2. Cardinality(Running(task')) = Cardinality(Running(task)) - 1
          BY <1>c, <2>1 DEF Mode, Ended, Task
    <2>3. Count(worker.pc # "none") = 0 /\ Count(worker'.pc # "none") = 1
          BY <2>1 DEF Count
    <2> QED
          BY <1>a, <1>b, <2>1, <2>2, <2>3 DEF GuardsAreCounted
  <1> QED
        BY <1>1, <1>2, <1>3, <1>4, <1>5 DEF TaskStep

(* The worker has one guard as long as it runs.                               *)
LEMMA WorkerCounts ==
  ASSUME PlaceInv, GuardsAreCounted, WorkerStep \/ BarrierStep
  PROVE  GuardsAreCounted'
PROOF
  <1>0. ProxyTypes
        BY DEF PlaceInv
  <1>1. CASE NothingAdmitted
    <2>1. /\ UNCHANGED <<stage, task>> /\ pending' = pending - 1
          /\ Count(worker.pc # "none") = 1 /\ Count(worker'.pc # "none") = 0
          BY <1>0, <1>1 DEF NothingAdmitted, Count, ProxyTypes, Workers
    <2>2. Cardinality(Guarding(stage)) \in Nat /\ Cardinality(Running(task)) \in Nat
          BY <1>0, GuardsAreFinite, FS_CardinalityType DEF Guarding, Running
    <2> QED
          BY <2>1, <2>2 DEF GuardsAreCounted
  <1>2. CASE TakeReady \/ Analyze \/ ReportAnalysis
    <2>1. /\ UNCHANGED <<stage, task, pending>> /\ worker.pc # "none" /\ worker'.pc # "none"
          BY <1>0, <1>2 DEF TakeReady, Analyze, ReportAnalysis, ProxyTypes, Workers
    <2> QED
          BY <2>1, NoGuardMoves
  <1>3. CASE WorkerChecks \/ WorkerArms \/ WorkerRechecks \/ WorkerWakes \/ WorkerListens
               \/ NothingReady \/ WorkerIsFed
    <2>1. /\ UNCHANGED <<stage, task, pending>> /\ worker.pc # "none" /\ worker'.pc # "none"
          BY <1>0, <1>3 DEF WorkerMoves, WorkerChecks, WorkerArms, WorkerRechecks, WorkerWakes,
             WorkerListens, NothingReady, WorkerIsFed, ProxyTypes, Workers
    <2> QED
          BY <2>1, NoGuardMoves
  <1>4. CASE BarrierStep
    <2>1. UNCHANGED <<stage, task, pending, worker>>
          BY <1>4 DEF BarrierStep, BarrierArms, BarrierChecks, BarrierMoves
    <2> QED
          BY <2>1, NoGuardMoves
  <1> QED
        BY <1>1, <1>2, <1>3, <1>4 DEF WorkerStep

(* An untouched forward is as alive as before.                                *)
LEMMA UntouchedLives ==
  ASSUME NEW g \in Forward, Untouched(g)
  PROVE  Alive(g)' <=> Alive(g)
  BY DEF Untouched, Alive, Held

(* What a forward detaches it detaches while it is alive itself, and a        *)
(* forward that begins after the barrier was passed is a late one.            *)
LEMMA ExchangeOnlyOfTheLiving ==
  ASSUME PlaceInv, NEW f \in Forward, Accept(f) \/ ForwardStep(f), barrier = "passed",
         f \notin late'
  PROVE  Alive(f) \/ ~Alive(f)'
PROOF
  <1>0. ProxyTypes
        BY DEF PlaceInv
  <1>1. CASE Accept(f)
    <2>1. stage'[f] = "numbered" /\ UNCHANGED <<task, permit, worker>>
          BY <1>0, <1>1 DEF Accept, ProxyTypes, FlowTypes, Stages
    <2> QED
          BY <2>1 DEF Alive, Held
  <1>2. CASE TakeGuards(f)
        BY <1>2 DEF TakeGuards
  <1>3. CASE ForwardStep(f) /\ ~TakeGuards(f)
    <2>1. stage[f] \in {"reading", "sending", "streaming", "settled", "quiet", "started"}
          BY <1>3 DEF ForwardStep, BodyFails, EndpointFails, Dispatch, ClientLeaves, UpstreamFails,
             UpstreamAnswers, BodySettles, DropActive, StartTrigger, DropGuard
    <2> QED
          BY <2>1 DEF Alive
  <1> QED
        BY <1>1, <1>2, <1>3

(* A task that takes a step is alive.                                         *)
LEMMA TaskOfTheLiving ==
  ASSUME NEW f \in Forward, TaskStep(f)
  PROVE  Alive(f)
  BY DEF TaskStep, Parse, ParseFails, Record, Observe, TriggerIsCancelled, Enqueue, NotifyWorker,
     SpawnWorker, Alive, Task

(* Without a guard there is nothing left that could do anything: neither a    *)
(* permit, nor a job, nor a worker.                                           *)
LEMMA NoGuardNothingAlive ==
  ASSUME PlaceInv, GuardsAreCounted, pending = 0, NEW f \in Forward
  PROVE  ~Alive(f)
PROOF
  <1>0. ProxyTypes /\ StageFits(f) /\ PermitFits(f) /\ WorkerFits /\ QueueIsServed
        BY DEF PlaceInv
  <1>1. /\ IsFiniteSet(Guarding(stage)) /\ IsFiniteSet(Running(task))
        /\ Cardinality(Guarding(stage)) \in Nat /\ Cardinality(Running(task)) \in Nat
        BY GuardsAreFinite, FS_CardinalityType DEF Guarding, Running
  <1>2. /\ Cardinality(Guarding(stage)) = 0 /\ Cardinality(Running(task)) = 0
        /\ worker.pc = "none"
        BY <1>1 DEF GuardsAreCounted, Count
  <1>3. Guarding(stage) = {} /\ Running(task) = {}
        BY <1>1, <1>2, FS_EmptySet
  <1>4. \A g \in Forward : stage[g] \in Early \cup {"gone"}
        BY <1>3 DEF Guarding
  <1>5. ASSUME NEW g \in Forward, NEW t \in Task
        PROVE  task[g][t] \in Ended
    <2>1. <<g, t>> \in Forward \X Task /\ <<g, t>> \notin Running(task)
          BY <1>3
    <2> QED
          BY <2>1 DEF Running
  <1>6. worker.forward = {}
        BY <1>0, <1>2 DEF WorkerFits
  <1>7. queue.jobs = {}
        BY <1>0, <1>2, <1>5 DEF QueueIsServed, Ended, Task
  <1>8. permit[f].holder = "none"
    <2>1. permit[f].holder \in Holder
          BY <1>0 DEF ProxyTypes, FlowTypes, Permits
    <2>2. task[f].trigger # "running"
          BY <1>5 DEF Ended, Task
    <2> QED
          BY <1>0, <1>2, <1>4, <1>7, <2>1, <2>2 DEF PermitFits, Holder, Early
  <1> QED
        BY <1>4, <1>5, <1>6, <1>8 DEF Alive, Held, Early, Ended

(* Behind the barrier no step of what is alive brings back what is over.      *)
LEMMA CoverStep ==
  PlaceInv /\ GuardsAreCounted /\ BarrierCoversItsForwards /\ [Next]_vars
     => BarrierCoversItsForwards'
PROOF
  <1> SUFFICES ASSUME PlaceInv, GuardsAreCounted, BarrierCoversItsForwards, [Next]_vars,
                      barrier' = "passed", NEW g \in Forward, g \notin late'
               PROVE  ~Alive(g)'
      BY DEF BarrierCoversItsForwards
  <1>1. CASE UNCHANGED vars \/ Over
        BY <1>1 DEF vars, Over, BarrierCoversItsForwards, Alive, Held
  <1>2. ASSUME NEW f \in Forward, Accept(f) \/ ForwardStep(f)
        PROVE  ~Alive(g)'
    <2>1. barrier = "passed" /\ \A h \in Forward \ {f} : Untouched(h)
          BY <1>2, ExchangeTouches DEF PlaceInv
    <2>2. late \subseteq late'
          BY <1>2 DEF Accept, ForwardStep, TakeGuards, BodyFails, EndpointFails, Dispatch, ClientLeaves,
             UpstreamFails, UpstreamAnswers, BodySettles, DropActive, StartTrigger, DropGuard
    <2>3. ~Alive(g)
          BY <2>1, <2>2 DEF BarrierCoversItsForwards
    <2>4. CASE g = f
          BY <1>2, <2>1, <2>3, <2>4, ExchangeOnlyOfTheLiving
    <2>5. CASE g # f
          BY <2>1, <2>3, <2>5, UntouchedLives
    <2> QED
          BY <2>4, <2>5
  <1>3. ASSUME NEW f \in Forward, TaskStep(f)
        PROVE  ~Alive(g)'
    <2>1. barrier = "passed" /\ late' = late /\ \A h \in Forward \ {f} : Untouched(h)
          BY <1>3, TaskTouches
    <2>2. ~Alive(g)
          BY <2>1 DEF BarrierCoversItsForwards
    <2> QED
          BY <1>3, <2>1, <2>2, TaskOfTheLiving, UntouchedLives
  <1>4. CASE (WorkerStep \/ BarrierStep) /\ ~(TakeReady \/ Analyze \/ ReportAnalysis)
    <2>1. late' = late /\ Untouched(g)
          BY <1>4, MovesTouchNothing DEF WorkerStep
    <2>2. barrier = "passed" \/ pending = 0
          BY <1>4 DEF WorkerStep, BarrierStep, BarrierArms, BarrierChecks, BarrierMoves, WorkerMoves,
             WorkerChecks, WorkerArms, WorkerRechecks, WorkerWakes, WorkerListens, NothingReady,
             WorkerIsFed, NothingAdmitted
    <2>3. ~Alive(g)
          BY <2>1, <2>2, NoGuardNothingAlive DEF BarrierCoversItsForwards
    <2> QED
          BY <2>1, <2>3, UntouchedLives
  <1>5. CASE TakeReady
    <2> PICK f : f = First
          OBVIOUS
    <2>1. /\ f \in Forward /\ permit[f].holder = "job" /\ barrier = "passed" /\ late' = late
          /\ \A h \in Forward \ {f} : Untouched(h)
          BY <1>5, TakePlaces
    <2>2. Alive(f) /\ ~Alive(g)
          BY <2>1 DEF Alive, Held, BarrierCoversItsForwards
    <2> QED
          BY <2>1, <2>2, UntouchedLives
  <1>6. CASE Analyze \/ ReportAnalysis
    <2>1. PICK f \in Forward : worker.forward = {f}
          BY <1>6 DEF PlaceInv, WorkerFits, Analyze, ReportAnalysis
    <2>2. barrier = "passed" /\ late' = late /\ \A h \in Forward \ {f} : Untouched(h)
          BY <1>6, <2>1, AnalyzePlaces, ReportPlaces
    <2>3. Alive(f) /\ ~Alive(g)
          BY <2>1, <2>2 DEF Alive, BarrierCoversItsForwards
    <2> QED
          BY <2>2, <2>3, UntouchedLives
  <1> QED
        BY <1>1, <1>2, <1>3, <1>4, <1>5, <1>6 DEF Next

(* The count is right in every step.                                          *)
LEMMA CountStep == PlaceInv /\ GuardsAreCounted /\ [Next]_vars => GuardsAreCounted'
PROOF
  <1> SUFFICES ASSUME PlaceInv, GuardsAreCounted, [Next]_vars
               PROVE  GuardsAreCounted'
      OBVIOUS
  <1>1. CASE UNCHANGED vars \/ Over
        BY <1>1, NoGuardMoves DEF vars, Over
  <1>2. CASE \E f \in Forward : Accept(f) \/ ForwardStep(f)
        BY <1>2, ExchangeCounts
  <1>3. CASE \E f \in Forward : TaskStep(f)
        BY <1>3, TaskStepCounts
  <1>4. CASE WorkerStep \/ BarrierStep
        BY <1>4, WorkerCounts
  <1> QED
        BY <1>1, <1>2, <1>3, <1>4 DEF Next

(* At the start there is no guard and the barrier is far.                     *)
LEMMA InitCounts == Init => BarrierInv
PROOF
  <1> SUFFICES ASSUME Init
               PROVE  BarrierInv
      OBVIOUS
  <1>1. Guarding(stage) = {}
        BY DEF Init, Guarding, Early
  <1>2. Running(task) = {}
        BY DEF Init, Running, Ended
  <1>3. pending = 0 /\ worker.pc = "none" /\ barrier = "serving"
        BY DEF Init
  <1> QED
        BY <1>1, <1>2, <1>3, FS_EmptySet DEF BarrierInv, GuardsAreCounted, Count,
           BarrierCoversItsForwards

(* The barrier of the shutdown is passed only when everything that the        *)
(* forwards accepted before it had detached is over: no hand-over, of a permit *)
(* from a trigger to the queue or of the queue to a new worker, leaves a       *)
(* moment without a guard.                                                    *)
THEOREM BarrierCoversItsForwardsHolds == Spec => []BarrierCoversItsForwards
  <1>1. Init => PlaceInv /\ BarrierInv
        BY InitPlaces, InitCounts
  <1>2. (PlaceInv /\ BarrierInv) /\ [Next]_vars => (PlaceInv /\ BarrierInv)'
        BY PlaceStep, CountStep, CoverStep DEF BarrierInv
  <1>3. PlaceInv /\ BarrierInv => BarrierCoversItsForwards
        BY DEF BarrierInv
  <1> QED
        BY <1>1, <1>2, <1>3, PTL DEF Spec

-----------------------------------------------------------------------------
(* The budget and the order of the deferred analyses                          *)

(* try_new allows at least one item.                                          *)
LEMMA ItemBound == Max({MaxItems, 1}) \in Nat /\ Max({MaxItems, 1}) >= 1
PROOF
  <1>1. \E x \in {MaxItems, 1} : \A y \in {MaxItems, 1} : x >= y
        BY ProxyAssumption
  <1>2. /\ Max({MaxItems, 1}) \in {MaxItems, 1}
        /\ \A y \in {MaxItems, 1} : Max({MaxItems, 1}) >= y
        BY <1>1 DEF Max
  <1> QED
        BY <1>2, ProxyAssumption

(* Only the permit of f is taken or dropped in a step of f.                   *)
LEMMA HeldCounts ==
  ASSUME NEW f \in Forward, \A g \in Forward \ {f} : Untouched(g)
  PROVE  /\ Cardinality(Held') = Cardinality(Held) + Count(permit'[f].holder # "none")
                                                  - Count(permit[f].holder # "none")
         /\ Cardinality(Held) \in Nat
PROOF
  <1>1. IsFiniteSet(Held)
        BY GuardsAreFinite DEF Held
  <1>2. Held' \ {f} = Held \ {f}
        BY DEF Held, Untouched
  <1>3. /\ Cardinality(Held') = Cardinality(Held) + Count(f \in Held') - Count(f \in Held)
        /\ Cardinality(Held) \in Nat
        BY <1>1, <1>2, OneChanges
  <1>4. /\ f \in Held' <=> permit'[f].holder # "none"
        /\ f \in Held <=> permit[f].holder # "none"
        BY DEF Held
  <1> QED
        BY <1>3, <1>4 DEF Count

(* Forwards in transit, as their guards count them.                           *)
LEMMA ForwardingCounts ==
  ASSUME NEW S \in Stages, NEW f \in Forward, NEW to \in Stage
  PROVE  /\ Cardinality(Forwarding([S EXCEPT ![f] = to])) =
               Cardinality(Forwarding(S))
                  + Count(to \in {"reading", "sending", "streaming", "settled"})
                  - Count(S[f] \in {"reading", "sending", "streaming", "settled"})
         /\ Cardinality(Forwarding(S)) \in Nat
PROOF
  <1> DEFINE R == Forwarding([S EXCEPT ![f] = to])
             in == {"reading", "sending", "streaming", "settled"}
  <1>1. IsFiniteSet(Forwarding(S))
        BY GuardsAreFinite DEF Forwarding
  <1>2. R \ {f} = Forwarding(S) \ {f}
        BY DEF Forwarding, Stages
  <1>3. (f \in R <=> to \in in) /\ (f \in Forwarding(S) <=> S[f] \in in)
        BY DEF Forwarding, Stages
  <1> HIDE DEF R
  <1>4. /\ Cardinality(R) = Cardinality(Forwarding(S)) + Count(f \in R) - Count(f \in Forwarding(S))
        /\ Cardinality(Forwarding(S)) \in Nat
        BY <1>1, <1>2, OneChanges
  <1> QED
        BY <1>3, <1>4 DEF R, Count

(* active_forwards is the number of forwards in transit.                      *)
LEMMA ActiveStep == PlaceInv /\ ActiveIsCounted /\ [Next]_vars => ActiveIsCounted'
PROOF
  <1> SUFFICES ASSUME PlaceInv, ActiveIsCounted, [Next]_vars
               PROVE  ActiveIsCounted'
      OBVIOUS
  <1>0. ProxyTypes /\ stage \in Stages /\ active \in Int
        BY DEF PlaceInv, ProxyTypes, FlowTypes
  <1>1. CASE UNCHANGED <<stage, active>>
        BY <1>1 DEF ActiveIsCounted
  <1>2. ASSUME NEW f \in Forward, Accept(f) \/ ForwardStep(f)
        PROVE  ActiveIsCounted'
    <2>1. PICK to \in Stage : stage' = [stage EXCEPT ![f] = to]
          BY <1>2 DEF Accept, ForwardStep, TakeGuards, BodyFails, EndpointFails, Dispatch, ClientLeaves,
             UpstreamFails, UpstreamAnswers, BodySettles, DropActive, StartTrigger, DropGuard,
             Stage, Early
    <2>2. /\ Cardinality(Forwarding(stage')) =
               Cardinality(Forwarding(stage))
                  + Count(to \in {"reading", "sending", "streaming", "settled"})
                  - Count(stage[f] \in {"reading", "sending", "streaming", "settled"})
          /\ Cardinality(Forwarding(stage)) \in Nat
          BY <1>0, <2>1, ForwardingCounts
    <2>3. stage'[f] = to
          BY <1>0, <2>1 DEF Stages
    <2>4. active' = active + Count(to \in {"reading", "sending", "streaming", "settled"})
                  - Count(stage[f] \in {"reading", "sending", "streaming", "settled"})
      <3>1. CASE TakeGuards(f)
            BY <1>0, <2>1, <2>3, <3>1 DEF TakeGuards, Count, Stages
      <3>2. CASE DropActive(f)
            BY <1>0, <2>1, <2>3, <3>2 DEF DropActive, Count, Stages
      <3>3. CASE Accept(f) \/ StartTrigger(f) \/ DropGuard(f)
            BY <1>0, <2>1, <2>3, <3>3 DEF Accept, StartTrigger, DropGuard, Count, Stages
      <3>4. CASE BodyFails(f) \/ EndpointFails(f) \/ ClientLeaves(f) \/ UpstreamFails(f)
                   \/ UpstreamAnswers(f) \/ BodySettles(f)
            BY <1>0, <2>1, <2>3, <3>4 DEF BodyFails, EndpointFails, ClientLeaves, UpstreamFails,
               UpstreamAnswers, BodySettles, Count, Stages
      <3>5. CASE \E bytes \in WireBytes[kind[f]] : Dispatch(f, bytes)
            BY <1>0, <2>1, <2>3, <3>5 DEF Dispatch, Count, Stages
      <3> QED
            BY <1>2, <3>1, <3>2, <3>3, <3>4, <3>5 DEF ForwardStep
    <2> QED
          BY <1>0, <2>1, <2>2, <2>4 DEF ActiveIsCounted
  <1>3. CASE \E f \in Forward : TaskStep(f)
        BY <1>1, <1>3, TaskTouches
  <1>4. CASE WorkerStep \/ BarrierStep
        BY <1>1, <1>4 DEF WorkerStep, BarrierStep, WorkerMoves, WorkerChecks, WorkerArms,
           WorkerRechecks, WorkerWakes, WorkerListens, TakeReady, NothingReady, WorkerIsFed,
           NothingAdmitted, Analyze, ReportAnalysis, BarrierArms, BarrierChecks, BarrierMoves
  <1> QED
        BY <1>1, <1>2, <1>3, <1>4 DEF Next, Over, vars

(* A step that neither takes nor drops a permit leaves the budget alone.      *)
LEMMA NoPermitMoves ==
  ASSUME PermitsAreCounted, budget' = budget,
         \A g \in Forward : permit'[g].holder = "none" <=> permit[g].holder = "none"
  PROVE  PermitsAreCounted'
PROOF
  <1>1. Held' = Held
        BY DEF Held
  <1> QED
        BY <1>1 DEF PermitsAreCounted

(* A permit that is dropped gives back its item and its bytes.                *)
LEMMA DropCounts ==
  ASSUME ProxyTypes, PermitsAreCounted, NEW f \in Forward, \A g \in Forward \ {f} : Untouched(g),
         permit[f].holder # "none", permit'[f].holder = "none", budget' = Released(f)
  PROVE  PermitsAreCounted'
PROOF
  <1>1. /\ Cardinality(Held') = Cardinality(Held) - 1
        /\ Cardinality(Held) \in Nat
        BY HeldCounts DEF Count
  <1>2. permit[f].bytes \in Nat
        BY PermitSet DEF ProxyTypes, FlowTypes
  <1>3. budget'.items = budget.items - 1 /\ budget'.bytes = budget.bytes - permit[f].bytes
        BY DEF Released
  <1>4. budget.items \in Int /\ budget.bytes \in Int
        BY DEF ProxyTypes
  <1> QED
        BY <1>1, <1>2, <1>3, <1>4, ItemBound, ProxyAssumption DEF PermitsAreCounted

(* A permit is only given where there is room for it.                         *)
LEMMA AdmitCounts ==
  ASSUME ProxyTypes, PermitsAreCounted, NEW f \in Forward, \A g \in Forward \ {f} : Untouched(g),
         NEW bytes \in Nat, permit[f].holder = "none", Room(bytes), Admit(f, bytes)
  PROVE  PermitsAreCounted'
PROOF
  <1>1. permit'[f].holder = "forward"
        BY DEF Admit, ProxyTypes, FlowTypes, Permits
  <1>2. /\ Cardinality(Held') = Cardinality(Held) + 1
        /\ Cardinality(Held) \in Nat
        BY <1>1, HeldCounts DEF Count
  <1>3. budget'.items = budget.items + 1 /\ budget'.bytes = budget.bytes + bytes
        BY DEF Admit
  <1>4. budget'.items <= Max({MaxItems, 1}) /\ budget'.bytes <= MaxBytes
        BY <1>3 DEF Room
  <1> QED
        BY <1>2, <1>3, <1>4 DEF PermitsAreCounted

(* The exchange takes a permit with its request and drops the one it holds.   *)
LEMMA ExchangeBudget ==
  ASSUME PlaceInv, PermitsAreCounted, NEW f \in Forward, Accept(f) \/ ForwardStep(f)
  PROVE  PermitsAreCounted'
PROOF
  <1>0. ProxyTypes /\ StageFits(f) /\ PermitFits(f)
        BY DEF PlaceInv
  <1>a. \A g \in Forward \ {f} : Untouched(g)
        BY <1>0, ExchangeTouches
  <1>1. CASE Accept(f) \/ TakeGuards(f) \/ BodyFails(f) \/ EndpointFails(f) \/ UpstreamAnswers(f)
               \/ BodySettles(f) \/ DropActive(f) \/ DropGuard(f)
    <2>1. UNCHANGED <<permit, budget>>
          BY <1>1 DEF Accept, TakeGuards, BodyFails, EndpointFails, UpstreamAnswers, BodySettles,
             DropActive, DropGuard
    <2> QED
          BY <2>1, NoPermitMoves
  <1>2. CASE UpstreamFails(f) \/ StartTrigger(f)
    <2>1. budget' = budget
          BY <1>2 DEF UpstreamFails, StartTrigger
    <2>2. \/ permit' = permit
          \/ permit[f].holder = "forward" /\ permit' = [permit EXCEPT ![f].holder = "trigger"]
          BY <1>2 DEF UpstreamFails, StartTrigger, Started
    <2>3. \A g \in Forward : permit'[g].holder = "none" <=> permit[g].holder = "none"
          BY <1>0, <2>2 DEF ProxyTypes, FlowTypes, Permits
    <2> QED
          BY <2>1, <2>3, NoPermitMoves
  <1>3. CASE ClientLeaves(f)
    <2>1. CASE Started(f)
      <3>1. budget' = Released(f) /\ permit' = [permit EXCEPT ![f] = NoPermit]
            BY <1>3, <2>1 DEF ClientLeaves, DropPermit
      <3>2. permit[f].holder # "none" /\ permit'[f].holder = "none"
            BY <1>0, <2>1, <3>1 DEF Started, NoPermit, ProxyTypes, FlowTypes, Permits
      <3> QED
            BY <1>0, <1>a, <3>1, <3>2, DropCounts
    <2>2. CASE ~Started(f)
          BY <1>3, <2>2, NoPermitMoves DEF ClientLeaves
    <2> QED
          BY <2>1, <2>2
  <1>4. ASSUME NEW bytes \in WireBytes[kind[f]], Dispatch(f, bytes)
        PROVE  PermitsAreCounted'
    <2>1. bytes \in Nat
      <3>1. kind[f] \in Kind
            BY <1>0 DEF ProxyTypes
      <3> QED
            BY <3>1, ProxyAssumption
    <2>2. stage[f] = "reading"
          BY <1>4 DEF Dispatch
    <2>3. permit[f].holder = "none"
          BY <1>0, <2>2 DEF StageFits, PermitFits, HandingOver, Early, Task, Holder, ProxyTypes,
             FlowTypes, Permits
    <2>4. CASE Room(bytes) /\ Admit(f, bytes)
          BY <1>0, <1>a, <2>1, <2>3, <2>4, AdmitCounts
    <2>5. CASE UNCHANGED <<permit, budget>>
          BY <2>5, NoPermitMoves
    <2> QED
          BY <1>4, <2>4, <2>5 DEF Dispatch
  <1> QED
        BY <1>1, <1>2, <1>3, <1>4 DEF ForwardStep

(* A trigger without an input drops its permit; the other tasks keep theirs.  *)
LEMMA TaskBudget ==
  ASSUME PlaceInv, PermitsAreCounted, NEW f \in Forward, TaskStep(f)
  PROVE  PermitsAreCounted'
PROOF
  <1>0. ProxyTypes /\ PermitFits(f) /\ \A g \in Forward \ {f} : Untouched(g)
        BY TaskTouches DEF PlaceInv
  <1>1. CASE Parse(f) \/ ParseFails(f) \/ Record(f) \/ Observe(f) \/ NotifyWorker(f)
               \/ SpawnWorker(f)
    <2>1. UNCHANGED <<permit, budget>>
          BY <1>1 DEF Parse, ParseFails, Record, Observe, NotifyWorker, SpawnWorker
    <2> QED
          BY <2>1, NoPermitMoves
  <1>2. CASE Enqueue(f)
    <2>1. budget' = budget /\ permit' = [permit EXCEPT ![f].holder = "job"]
          BY <1>2 DEF Enqueue
    <2>2. permit[f].holder = "trigger"
          BY <1>0, <1>2 DEF Enqueue, PermitFits
    <2>3. \A g \in Forward : permit'[g].holder = "none" <=> permit[g].holder = "none"
          BY <1>0, <2>1, <2>2 DEF ProxyTypes, FlowTypes, Permits
    <2> QED
          BY <2>1, <2>3, NoPermitMoves
  <1>3. CASE TriggerIsCancelled(f)
    <2>1. /\ budget' = Released(f) /\ permit' = [permit EXCEPT ![f] = NoPermit]
          /\ task[f].trigger = "running"
          BY <1>3 DEF TriggerIsCancelled, DropPermit
    <2>2. permit[f].holder = "trigger" /\ permit'[f].holder = "none"
          BY <1>0, <2>1 DEF PermitFits, NoPermit, ProxyTypes, FlowTypes, Permits
    <2> QED
          BY <1>0, <2>1, <2>2, DropCounts
  <1> QED
        BY <1>1, <1>2, <1>3 DEF TaskStep

(* The items and the bytes are kept within their bounds by every step.        *)
LEMMA BudgetStep == PlaceInv /\ PermitsAreCounted /\ [Next]_vars => PermitsAreCounted'
PROOF
  <1> SUFFICES ASSUME PlaceInv, PermitsAreCounted, [Next]_vars
               PROVE  PermitsAreCounted'
      OBVIOUS
  <1>0. ProxyTypes
        BY DEF PlaceInv
  <1>1. CASE UNCHANGED vars \/ Over
        BY <1>1, NoPermitMoves DEF vars, Over
  <1>2. CASE \E f \in Forward : Accept(f) \/ ForwardStep(f)
        BY <1>2, ExchangeBudget
  <1>3. CASE \E f \in Forward : TaskStep(f)
        BY <1>3, TaskBudget
  <1>4. CASE (WorkerStep \/ BarrierStep) /\ ~(TakeReady \/ Analyze \/ ReportAnalysis)
    <2>1. UNCHANGED <<permit, budget>>
          BY <1>4, MovesTouchNothing DEF WorkerStep
    <2> QED
          BY <2>1, NoPermitMoves
  <1>5. CASE TakeReady
    <2> PICK f : f = First
        OBVIOUS
    <2>1. /\ f \in Forward /\ permit[f].holder = "job" /\ permit'[f].holder = "worker"
          /\ budget' = budget /\ \A g \in Forward \ {f} : Untouched(g)
          BY <1>5, TakePlaces
    <2> QED
          BY <2>1, NoPermitMoves DEF Untouched
  <1>6. CASE Analyze \/ ReportAnalysis
    <2>1. PICK f \in Forward : worker.forward = {f}
          BY <1>6 DEF PlaceInv, WorkerFits, Analyze, ReportAnalysis
    <2>2. CASE Analyze
      <3>1. /\ permit[f].holder = "worker" /\ permit'[f].holder = "none" /\ budget' = Released(f)
            /\ \A g \in Forward \ {f} : Untouched(g)
            BY <2>1, <2>2, AnalyzePlaces
      <3> QED
            BY <1>0, <3>1, DropCounts
    <2>3. CASE ReportAnalysis
      <3>1. UNCHANGED <<permit, budget>>
            BY <2>1, <2>3, ReportPlaces
      <3> QED
            BY <3>1, NoPermitMoves
    <2> QED
          BY <1>6, <2>2, <2>3
  <1> QED
        BY <1>1, <1>2, <1>3, <1>4, <1>5, <1>6 DEF Next

(* A decode permit is taken while there is one, and returned by its parser.   *)
LEMMA DecodersStep == PlaceInv /\ DecodersFit /\ [Next]_vars => DecodersFit'
PROOF
  <1> SUFFICES ASSUME PlaceInv, DecodersFit, [Next]_vars
               PROVE  DecodersFit'
      OBVIOUS
  <1>0. /\ ProxyTypes /\ IsFiniteSet(decoders) /\ Cardinality(decoders) \in Nat
        BY GuardsAreFinite, FS_CardinalityType DEF PlaceInv, ProxyTypes
  <1>1. CASE decoders' = decoders
        BY <1>1 DEF DecodersFit
  <1>2. ASSUME NEW f \in Forward, Accept(f) \/ ForwardStep(f)
        PROVE  DecodersFit'
    <2>1. \/ decoders' = decoders
          \/ Cardinality(decoders) < Decoders /\ decoders' = decoders \cup {f}
          BY <1>2 DEF Accept, ForwardStep, TakeGuards, BodyFails, EndpointFails, Dispatch,
             DetachParser, ClientLeaves, UpstreamFails, UpstreamAnswers, BodySettles, DropActive,
             StartTrigger, DropGuard
    <2>2. Cardinality(decoders \cup {f}) = IF f \in decoders THEN Cardinality(decoders)
                                                             ELSE Cardinality(decoders) + 1
          BY <1>0, FS_AddElement
    <2>3. CASE Cardinality(decoders) < Decoders /\ decoders' = decoders \cup {f}
      <3>1. Cardinality(decoders \cup {f}) <= Decoders
            BY <1>0, <2>2, <2>3, ProxyAssumption
      <3> QED
            BY <2>3, <3>1 DEF DecodersFit
    <2> QED
          BY <1>1, <2>1, <2>3
  <1>3. ASSUME NEW f \in Forward, TaskStep(f)
        PROVE  DecodersFit'
    <2>1. decoders' = decoders \/ decoders' = decoders \ {f}
          BY <1>3 DEF TaskStep, Parse, ParseFails, Record, Observe, TriggerIsCancelled, Enqueue,
             NotifyWorker, SpawnWorker
    <2>2. Cardinality(decoders \ {f}) <= Cardinality(decoders)
          BY <1>0, FS_RemoveElement
    <2>3. CASE decoders' = decoders \ {f}
      <3>1. Cardinality(decoders \ {f}) \in Nat /\ Decoders \in Nat
            BY <1>0, FS_RemoveElement, FS_CardinalityType, ProxyAssumption
      <3>2. Cardinality(decoders \ {f}) <= Decoders
            BY <1>0, <2>2, <3>1 DEF DecodersFit
      <3> QED
            BY <2>3, <3>2 DEF DecodersFit
    <2> QED
          BY <1>1, <2>1, <2>3
  <1>4. CASE WorkerStep \/ BarrierStep
        BY <1>1, <1>4 DEF WorkerStep, BarrierStep, WorkerMoves, WorkerChecks, WorkerArms,
           WorkerRechecks, WorkerWakes, WorkerListens, TakeReady, NothingReady, WorkerIsFed,
           NothingAdmitted, Analyze, ReportAnalysis, BarrierArms, BarrierChecks, BarrierMoves
  <1> QED
        BY <1>1, <1>2, <1>3, <1>4 DEF Next, Over, vars

(* At the start nothing is held and nothing is in transit.                    *)
LEMMA InitBudget == Init => BudgetIsKept
PROOF
  <1> SUFFICES ASSUME Init
               PROVE  BudgetIsKept
      OBVIOUS
  <1>1. Held = {} /\ Forwarding(stage) = {} /\ decoders = {}
        BY DEF Init, Held, NoPermit, Forwarding
  <1>2. budget.items = 0 /\ budget.bytes = 0 /\ active = 0
        BY DEF Init
  <1> QED
        BY <1>1, <1>2, ItemBound, ProxyAssumption, FS_EmptySet
        DEF BudgetIsKept, PermitsAreCounted, DecodersFit, ActiveIsCounted

(* The budget of the deferred analyses counts the permits that are held,      *)
(* wherever they are, and neither its items, nor its bytes, nor the number of *)
(* concurrent decodes ever pass their bounds; active_forwards counts the      *)
(* forwards in transit, so that the worker waits for all of them.             *)
THEOREM BudgetIsKeptHolds == Spec => []BudgetIsKept
  <1>1. Init => PlaceInv /\ BudgetIsKept
        BY InitPlaces, InitBudget
  <1>2. (PlaceInv /\ BudgetIsKept) /\ [Next]_vars => (PlaceInv /\ BudgetIsKept)'
        BY PlaceStep, BudgetStep, DecodersStep, ActiveStep DEF BudgetIsKept
  <1> QED
        BY <1>1, <1>2, PTL DEF Spec

(* next_ready is the first of the admitted forwards.                          *)
LEMMA FirstIsLeast ==
  ASSUME ProxyTypes, queue.admitted # {}
  PROVE  First \in queue.admitted /\ \A g \in queue.admitted : First <= g
PROOF
  <1>1. queue.admitted \in SUBSET Nat
        BY ProxyAssumption DEF ProxyTypes, Queues, Forward
  <1>2. \E x \in queue.admitted : \A y \in queue.admitted : x <= y
    <2>1. PICK x \in queue.admitted : \A y \in queue.admitted : <<y, x>> \notin OpToRel(<, Nat)
          BY <1>1, WFMin, NatLessThanWellFounded
    <2>2. \A y \in queue.admitted : x \in Nat /\ y \in Nat /\ ~(y < x)
          BY <1>1, <2>1 DEF OpToRel
    <2> QED
          BY <2>2
  <1> QED
        BY <1>2 DEF First, Min

(* The deferred analyses are taken in the order of their forwards: none       *)
(* overtakes an earlier one that is admitted, even if only its exchange or    *)
(* its trigger knows of it yet.                                               *)
THEOREM EarlierAdmissionsGoFirstHolds == Spec => EarlierAdmissionsGoFirst
PROOF
  <1> DEFINE InOrder == \A f \in worker'.forward \ worker.forward :
                           \A g \in queue.admitted : f <= g
  <1>1. PlaceInv /\ [Next]_vars => [InOrder]_vars
    <2> SUFFICES ASSUME PlaceInv, [Next]_vars
                 PROVE  InOrder \/ UNCHANGED vars
        OBVIOUS
    <2>1. CASE worker'.forward \subseteq worker.forward
          BY <2>1
    <2>2. ASSUME NEW f \in Forward, Accept(f) \/ ForwardStep(f)
          PROVE  InOrder
          BY <2>1, <2>2, ExchangeTouches DEF PlaceInv
    <2>3. CASE \E f \in Forward : TaskStep(f)
          BY <2>1, <2>3, TaskTouches
    <2>4. CASE TakeReady
      <3>1. worker'.forward = {First}
            BY <2>4 DEF TakeReady
      <3> QED
            BY <2>4, <3>1, FirstIsLeast DEF TakeReady, PlaceInv
    <2>5. CASE (WorkerStep \/ BarrierStep) /\ ~TakeReady
      <3>1. \A f : worker.forward = {f} /\ (Analyze \/ ReportAnalysis)
                      => worker'.forward \subseteq worker.forward
            BY AnalyzePlaces, ReportPlaces
      <3> QED
            BY <2>1, <2>5, <3>1, MovesTouchNothing DEF WorkerStep, PlaceInv, WorkerFits, Analyze,
               ReportAnalysis
    <2> QED
          BY <2>2, <2>3, <2>4, <2>5 DEF Next, Over
  <1> QED
        BY <1>1, PlacesHold, PTL DEF Spec, EarlierAdmissionsGoFirst
=============================================================================
