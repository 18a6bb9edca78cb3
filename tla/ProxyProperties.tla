-------------------------- MODULE ProxyProperties --------------------------
(* What must be true of ForwardProxy: its budget, its one report per          *)
(* admission, the order of its analyses, and its shutdown barrier.            *)
EXTENDS ForwardProxy

Held == {f \in Forward : permit[f].holder # "none"}

(* Types; and the counters that destructors keep: the budget is what the live *)
(* permits hold (a permit is in one place at a time, whoever drops it), and   *)
(* neither bound is ever passed.                                              *)
ProxyTypeOK ==
    /\ \A f \in Forward :
          /\ permit[f].holder \in {"none", "forward", "trigger", "job", "worker"}
          /\ hint[f] \in {"pending", "known", "unknown", "closed"}
    /\ worker.forward \subseteq Forward /\ Cardinality(worker.forward) <= 1
    /\ active \in 0 .. Forwards /\ pending \in Nat
    /\ budget.items = Cardinality(Held) /\ budget.items <= Max({MaxItems, 1})
    /\ budget.bytes = MapThenSumSet(LAMBDA f : permit[f].bytes, Held)
    /\ budget.bytes <= MaxBytes /\ Cardinality(decoders) <= Decoders
    /\ queue.jobs \subseteq queue.admitted
    /\ queue.admitted = {f \in Forward : permit[f].holder \in {"forward", "trigger", "job"}}

Reports(f) == sink[f].analyzed + sink[f].cancelled + sink[f].shed

(* An analysis is reported once: refused with its request, cancelled by its   *)
(* trigger, or analyzed or dropped by the worker.  Once its exchange has had  *)
(* an outcome (unlike one whose client left first) and nothing holds a permit *)
(* for it any more, it has been reported.                                     *)
HasOutcome(f) ==
    \/ sink[f].failure = 1 /\ kind[f] \notin Misrouted
    \/ sink[f].response = 1
    \/ task[f].trigger = "gone"

AdmissionsAreReportedOnce ==
    \A f \in Forward :
       /\ Reports(f) <= 1
       /\ f \in Held => Reports(f) = 0
       /\ Analysis /\ HasOutcome(f) /\ f \notin Held \cup worker.forward
            => Reports(f) = 1

Alive(f) ==
    \/ stage[f] \notin {"new", "numbered", "gone"}
    \/ f \in Held \/ f \in worker.forward
    \/ \E t \in Task : task[f][t] \notin {"none", "gone"}

(* The barrier of the shutdown (phase-3-2-measurement-integrity.md:58: queued *)
(* analysis drains before recorder closure): whatever a forward accepted      *)
(* before it detached, from the parser to its analysis, is over when it is    *)
(* passed; no hand-over leaves a moment without a guard.                      *)
BarrierCoversItsForwards ==
    barrier = "passed" => \A f \in Forward \ late : ~Alive(f)

(* One FIFO worker in the order of ForwardId: an analysis is never taken      *)
(* before that of an earlier forward that is admitted, wherever that one is.  *)
EarlierAdmissionsGoFirst ==
    [][\A f \in worker'.forward \ worker.forward :
          \A g \in queue.admitted : f <= g]_vars

(* No wakeup is lost between a check and a wait, neither of the worker nor of *)
(* the barrier: with every analysis ended, the barrier is passed.             *)
BarrierIsPassed == <>(barrier = "passed")
=============================================================================
