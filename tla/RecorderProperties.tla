------------------------- MODULE RecorderProperties -------------------------
(***************************************************************************)
(* What the recorder of `tracepress run` promises about the evidence of a   *)
(* forward, its inference operations and its context analysis.              *)
(***************************************************************************)
EXTENDS ForwardRecorder

Recorded(f) == {recorder.records[f][i] : i \in DOMAIN recorder.records[f]}
Finished == phase = "done" /\ recorder.jobs = {}

(* The variables range over the values their declarations name, and every   *)
(* bounded map of the recorder keeps its bound.                             *)
RecorderTypeOK ==
    /\ stage \in [Forward -> {"new", "sent", "done"}]
    /\ owed \in [Forward -> SUBSET SUBSET Evidence]
    /\ dispatch \in Seq(Event) /\ Len(dispatch) <= InFlight
    /\ tickets \subseteq Forward /\ Cardinality(tickets) <= InFlight
    /\ durable \in Seq(Event) /\ Len(durable) <= DurableItems
    /\ phase \in {"running", "draining", "done"}
    /\ accepted \in [Forward -> SUBSET Half]
    /\ recorder.held \subseteq Forward /\ Cardinality(recorder.held) <= InFlight
    /\ recorder.evidence \in [Forward -> (SUBSET Evidence) \cup {Settled}]
    /\ Cardinality(recorder.receipts) <= InFlight
    /\ Cardinality(recorder.retired) <= RetiredIdentities
    /\ Cardinality(recorder.orphans) <= RetiredIdentities
    /\ recorder.jobs \subseteq Forward

(* A forward yields at most one inference operation at the daemon, whatever *)
(* the order of its halves, evictions and late arrivals, as long as the     *)
(* bounded retirement memory still knows it (RunRecorder, "each forward     *)
(* yields exactly one inference operation").                                *)
OneOperationPerForward ==
    \A f \in Forward \ recorder.forgotten : Len(recorder.records[f]) <= 1

(* Every half a sink took is in an operation of its forward when the run    *)
(* ends, or paid for by a degradation counted for that forward, or its      *)
(* record was declined by the daemon: bounded state loses evidence, and     *)
(* never more than it counts (CorrelationCounters, "every counter here      *)
(* names one such loss").                                                   *)
Lost(f) == accepted[f] \ UNION {op.halves : op \in Recorded(f)}

NoEvidenceIsLostSilently ==
    Finished => \A f \in Forward \ recorder.declined :
        Cardinality(Lost(f)) <= recorder.counted[f]

(* While the run lasts, an operation presented as a whole exchange has its  *)
(* request, its terminal half and, for an answered one, its status: what a  *)
(* bound cut short is marked degraded, "never as a whole exchange" (admit). *)
NoPartialRecordLooksWhole ==
    phase = "running" => \A f \in Forward : \A op \in Recorded(f) :
        op.status = "correlated" =>
            /\ "request" \in op.halves
            /\ {"response", "transport"} \subseteq op.halves \/ "failure" \in op.halves

(* Only an identity that left the correlation state is refused as retired:  *)
(* the watermark never swallows a slow forward it has not accounted for     *)
(* (RunRecorder::retired_through).                                          *)
OnlyLeaversAreRefused ==
    \A f \in Forward : IsRetired(recorder, f) => f \in recorder.leavers

(* Every context analysis the run admitted has one outcome when it ends:    *)
(* ingested by the context worker or accounted as dropped, never neither    *)
(* (context_analysis, "the one-outcome partition").                         *)
EveryAnalysisHasOneOutcome ==
    Finished => recorder.seen = recorder.ingested \cup recorder.dropped

(* A job the ingestion worker will persist is not already accounted as      *)
(* dropped: counters and stored snapshots agree.                            *)
DroppedAnalysisIsNotIngested ==
    \A f \in recorder.jobs \ recorder.forgotten : f \notin recorder.dropped

(* A ticket belongs to a forward whose halves are still being correlated:   *)
(* the proxy is not done with it (IN_FLIGHT_FORWARDS, "bound on forwards    *)
(* whose transport and semantic halves are still being correlated").        *)
TicketsAreInFlight ==
    \A f \in tickets :
        \/ stage[f] = "sent" \/ owed[f] # {}
        \/ \E i \in DOMAIN dispatch : dispatch[i].forward = f

(* An analyzed outcome is held back only while the ingestion worker has     *)
(* something to do: when every other task is done and the queues are empty, *)
(* no analysis waits for a slot (AnalysisOutputSlots, "that worker waits    *)
(* for the single ingestion worker to make room").                          *)
AnalysisWaitsOnlyForIngestion ==
    \A f \in Forward :
        /\ owed[f] = {{"analysis"}} /\ ~FreeSlot
        /\ \A g \in Forward : stage[g] # "sent" /\ owed[g] \subseteq {{"analysis"}}
        /\ dispatch = << >> /\ durable = << >>
        => recorder.jobs # {}
=============================================================================
