--------------------------- MODULE TapProperties ---------------------------
(***************************************************************************)
(* What the observation of a response promises.                            *)
(***************************************************************************)
EXTENDS ResponseTap

Recorded == recorded # <<>>
Response == recorded[1]
Streamed == Response.chunks # Absent

\* The variables hold values of their kinds, and a task that has not ended has recorded
\* nothing (the task records at most once).
TapTypeOK ==
    /\ request \in {"parsing", "recording", "published"}
    /\ hint \in {"pending", "none", "sse", "json"}
    /\ stream \in {"open", "settled", "dropped"}
    /\ stopped \in {"no", "ended", "exceeded", "failed", "abandoned"}
    /\ seen \in 0..MaxSemanticBytes
    /\ Len(queue) <= QueueCapacity
    /\ task \in {"resolving", "sse", "json", "done"}
    /\ Len(recorded) <= (IF task = "done" THEN 1 ELSE 0)

(***************************************************************************)
(* The same bytes, fragmented in any way, give the same observation: the   *)
(* recorded response is the one an observer that got them in one piece     *)
(* would report, the number of chunks excepted (StreamingObserver::push,   *)
(* SseFramer::deliver).  A message lost to a full queue only overrides the *)
(* status.                                                                 *)
(***************************************************************************)
Settling(o, terminal) ==
    Summary(CASE terminal = "Finished" -> Finish(o)
              [] terminal = "Disconnected" -> Disconnect(o)
              [] OTHER -> Cancel(o))
Whole(terminal) == Settling(Push(NewObserver, fed), terminal)
SameObservation(a, b) ==
    \A field \in DOMAIN a \ {"chunks"} :
        a[field] = b[field] \/ (field = "status" /\ dropped)
FragmentsDoNotMatter ==
    Recorded /\ Streamed =>
        \E terminal \in {"Finished", "Disconnected", "none"} :
            /\ terminal = "Finished" => stopped = "ended" \/ Exhausted
            /\ terminal = "none" => dropped
            /\ SameObservation(Response, Whole(terminal))

(***************************************************************************)
(* A response recorded as Complete was observed whole: every byte given to *)
(* the client reached the observer, none of it lost to the queue, and      *)
(* either the provider itself reported the end of its work or a document   *)
(* was received to its end.                                                *)
(***************************************************************************)
CompleteMeansWhole ==
    Recorded /\ Response.status = "Complete" =>
        /\ fed = SubSeq(exchange.body, 1, seen)
        /\ IF Streamed THEN Response.state \in TerminalStates
           ELSE stopped = "ended" \/ Exhausted

(***************************************************************************)
(* Usage is reported Final only together with a terminal state of the      *)
(* provider and a usage object without an anomaly, whose parts add up      *)
(* (settle_usage_status, normalize_usage).                                 *)
(***************************************************************************)
FinalUsageIsConfirmed ==
    Recorded /\ Response.usageStatus = "Final" =>
        /\ Response.state \in TerminalStates
        /\ Response.usage # <<>>
        /\ LET usage == Response.usage[1]
               known(n) == n # Absent
           IN  /\ known(usage.cached) /\ known(usage.input) =>
                     usage.cached + usage.uncached = usage.input
               /\ known(usage.total) /\ known(usage.input) /\ known(usage.output) =>
                     usage.total = usage.input + usage.output
               /\ known(usage.reasoning) /\ known(usage.output) =>
                     usage.reasoning <= usage.output

(***************************************************************************)
(* A compaction response is measured exactly once, when its body is over,  *)
(* and measured as completed only if all of it was forwarded               *)
(* (CompactionTapState).                                                   *)
(***************************************************************************)
CompactionIsMeasuredOnce ==
    exchange.mode = "compaction" =>
        /\ Len(compactions) = (IF stream = "open" THEN 0 ELSE 1)
        /\ \A i \in 1..Len(compactions) :
              compactions[i].outcome \in {"Completed", "Failed"} =>
                  stopped = "ended" \/ Exhausted

\* What the provider reported at its terminal event is never walked back or added to, the
\* counters excepted (StreamingObserver::freeze).
TerminalEvidenceIsFinal ==
    [][observer.evidence # "none" =>
          /\ observer'.evidence = observer.evidence
          /\ \A field \in DOMAIN observer.response \ {"chunks", "bytes"} :
                observer'.response[field] = observer.response[field]]_vars

\* The task of every tapped response ends: a body that is over always leads to a recorded
\* response, or to none because the request selected no observer.
ObservationEnds ==
    []((stream # "open" /\ Tapped) => <>(task = "done" /\ (Recorded \/ hint = "none")))

(***************************************************************************)
(* phase-2-provider-observability.md: "Client cancellation, upstream       *)
(* disconnect, response-limit termination, or end-of-stream without a      *)
(* final event must remain Cancelled, Disconnected, or Incomplete          *)
(* according to available transport evidence."                             *)
(***************************************************************************)
CancellationIsNotADisconnect ==
    (Recorded /\ Streamed /\ stopped = "abandoned" /\ ~Exhausted) =>
        Response.state # "Disconnected"
=============================================================================
