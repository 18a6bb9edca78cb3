------------------------ MODULE IngestionProperties ------------------------
(* What must be true of ContextIngestion: of its accounts, of the accounts    *)
(* against the daemon's rows, and of the end of a run.                        *)
EXTENDS ContextIngestion

Outcomes == INSTANCE AnalysisOutcomes WITH outcome <- account.fate

Total(f) == f["ObserverBackpressure"] + f["CorrelationDegraded"] + f["Malformed"] + f["Cancelled"]
With(kind) == Cardinality({a \in Analysis : account.fate[a] = kind})

IngestionTypeOK ==
    /\ account.pending \subseteq Analysis /\ account.evidence \subseteq account.pending
    /\ account.holes \subseteq Analysis /\ account.through \in Analysis \cup {-1}
    /\ Cardinality(account.evidence) <= EvidenceItems
    /\ Cardinality(account.holes) <= TerminalIdentities
    /\ Len(jobs) <= QueueItems
    /\ worker.pc \in {"idle", "begin", "blocks", "abort", "flush", "done", "cut"}
    /\ shadow.pc \in {"starting", "running", "failed", "done", "cut"}
    /\ main.phase \in {"serving", "draining", "reconcile", "finish", "finishing",
                       "again", "flush", "done", "left"}
    /\ session \in {"active", "closed"}

(* ContextCounters is a partition: whatever ends an analysis (the worker, a   *)
(* reconciliation, a dropped event, the forced end), however late, it is seen *)
(* once and gets one outcome, once.                                           *)
EveryAnalysisEndsOnce == Outcomes!Spec

(* The totals tell the fates: seen = complete + partial + dropped once the     *)
(* run is over, and evidence to reconcile is kept for pending analyses only.  *)
TotalsTellFates ==
    /\ account.seen = Cardinality(Analysis) - With("unseen")
    /\ \A kind \in {"complete", "partial", "dropped"} : account[kind] = With(kind)
    /\ account.pending = {a \in Analysis : account.fate[a] = "pending"}
    /\ main.phase = "done" => account.pending = {}

(* An analysis counted complete or partial has that terminal snapshot at the  *)
(* daemon, also when it was counted from a reconciliation that raced the      *)
(* worker's own finalize; and its delta is over a finalized predecessor.      *)
CountedOutcomesAreDurable ==
    \A a \in Analysis :
       /\ account.fate[a] = "complete" => rows[a].state = "complete"
       /\ account.fate[a] = "partial" => rows[a].state \in {"partial", "aborted"}
       /\ \A p \in rows[a].previous : p # a /\ rows[p].state \in {"complete", "partial"}

Sent(client) ==
    IF Waits(client) /\ calls[client].op = "drops" THEN calls[client].number ELSE 0

(* A dropped analysis is reported to the daemon at most once, although an     *)
(* answer may be lost; after an orderly drain every drop was reported, unless *)
(* the daemon refused the report.                                             *)
DropsAreReportedOnce ==
    /\ Total(events) + Total(account.unreported) + Sent("worker") + Sent("main")
         <= account.dropped
    /\ main.phase = "done" /\ ~main.timedOut
         => Total(events) + worker.undelivered = account.dropped

(* Every explicit loss is observable as a context.analysis.dropped event      *)
(* (phase-3-shadow-context-analysis.md:193): a report under way is one that   *)
(* the daemon, which refuses events of a finished session, can record.        *)
EveryDropIsObservable ==
    \A c \in Client :
       Waits(c) /\ calls[c].op = "drops" => session = "active"

SumBytes(q) == FoldLeft(LAMBDA sum, a : sum + BodyBytes[a], 0, q)

(* The byte budget of the shadow queue is what its jobs hold, through every   *)
(* refusal and the worker's death; a job is of a finalized snapshot; and       *)
(* flush_counters reports every admitted job as processed.                     *)
ShadowHoldsItsBytes ==
    /\ shadow.used = SumBytes(shadow.queue \o SetToSeq(shadow.running))
    /\ shadow.used <= ShadowBytes /\ Len(shadow.queue) <= ShadowItems
    /\ \A a \in ToSet(shadow.queue) \cup shadow.running :
          rows[a].state \in {"complete", "partial"}
    /\ \A r \in shadow.recorded : r[1] = r[2]

(* A run that started its agent reaches its end, whatever times out.          *)
RunEnds == <>RunIsOver
=============================================================================
