---------------------------- MODULE ResponseTap ----------------------------
(***************************************************************************)
(* How the proxy observes one response while forwarding it                 *)
(* (tracepress-proxy/src/lib.rs).  The body stream hands every chunk to    *)
(* the client first and offers a copy to a bounded queue; a detached task  *)
(* empties the queue into the observer the response's content type, or the *)
(* request's stream flag, selected, and records one response.  A           *)
(* compaction response is measured without being interpreted, and a        *)
(* response of another type is only bounded.                               *)
(*                                                                         *)
(* Time is left out, and so are the guards that the stream releases when   *)
(* it is dropped: module ForwardProxy has those.                           *)
(***************************************************************************)
EXTENDS SseObserver

CONSTANTS
    Exchanges,      \* the exchanges checked, see ExchangeType
    QueueCapacity   \* OBSERVATION_QUEUE_CAPACITY

(***************************************************************************)
(* One exchange: which observer applies (mode), the request the client     *)
(* sent and whether its body could be decoded for analysis, whether the    *)
(* upstream answered 2xx, the body length it declared (or Absent), the     *)
(* body, and the places where the transport cuts it into chunks.           *)
(***************************************************************************)
Modes == {"sse", "json", "hint", "opaque", "compaction"}
ExchangeType(x) ==
    /\ x.mode \in Modes
    /\ x.decoded \in BOOLEAN /\ x.ok \in BOOLEAN
    /\ x.length \in Nat \cup {Absent}
    /\ x.body \in Seq(ToSet(x.body))
    /\ x.cuts \subseteq 1..Len(x.body)

ASSUME TapAssumption ==
    /\ QueueCapacity \in Nat \ {0}
    /\ \A x \in Exchanges : ExchangeType(x)

VARIABLES
    exchange,   \* the exchange being forwarded
    request,    \* the request's parser: "parsing", "recording", "published"
    hint,       \* the stream flag it publishes: "pending", "none", "sse", "json"
    stream,     \* the response body: "open", "settled" or "dropped"
    seen,       \* body bytes handed to the client
    stopped,    \* how the body stopped: "no", "ended", "exceeded", "failed", "abandoned"
    queue,      \* messages offered and not received
    sender,     \* whether the stream still holds the queue's sender
    dropped,    \* whether a message was lost
    task,       \* the observer's task: "resolving", "sse", "json" or "done"
    observer,   \* the stream observer
    fed,        \* bytes the task received: the document's buffer
    recorded,   \* responses handed to the sink
    compactions \* compaction measurements handed to the sink

vars == <<exchange, request, hint, stream, seen, stopped, queue, sender, dropped, task,
          observer, fed, recorded, compactions>>
upstream == <<exchange, request, hint>>
body == <<stream, seen, stopped>>
channel == <<queue, sender, dropped>>
observation == <<task, observer, fed, recorded>>

Tapped == exchange.mode \in {"sse", "json", "hint"}
Length == Len(exchange.body)

\* Where the next chunk of the body ends.
NextCut ==
    CHOOSE cut \in exchange.cuts \cup {Length} :
        /\ cut > seen
        /\ \A other \in exchange.cuts : other > seen => cut <= other

Init ==
    /\ exchange \in Exchanges
    /\ request = "parsing" /\ hint = "pending"
    /\ stream = "open" /\ seen = 0 /\ stopped = "no"
    /\ queue = <<>> /\ sender = Tapped /\ dropped = FALSE
    /\ task = (IF Tapped THEN "resolving" ELSE "done")
    /\ observer = NewObserver /\ fed = <<>>
    /\ recorded = <<>> /\ compactions = <<>>

-----------------------------------------------------------------------------
(***************************************************************************)
(* The request half: parse the decoded body, hand the observation to the   *)
(* sink, then publish the stream flag and the body to be analysed.         *)
(***************************************************************************)
RequestObservation ==
    IF exchange.decoded THEN ParseRequest(exchange.request) ELSE EmptyRequest("Unsupported")

ParseRequestBody ==
    /\ request = "parsing"
    /\ request' = "recording"
    /\ UNCHANGED <<exchange, hint, body, channel, observation, compactions>>

\* Seeded fault of HintOf: nothing is published for a request without a stream flag.
HintOfFlagged(flag) ==
    IF flag = <<>> THEN "pending" ELSE IF flag[1] THEN "sse" ELSE "json"

HintOf(flag) ==
    IF flag = <<>> THEN "none" ELSE IF flag[1] THEN "sse" ELSE "json"

PublishHint ==
    /\ request = "recording"
    /\ request' = "published"
    /\ hint' = HintOf(RequestObservation.stream)
    /\ UNCHANGED <<exchange, body, channel, observation, compactions>>

-----------------------------------------------------------------------------
(***************************************************************************)
(* queue_observation: a message that finds no room, or no receiver, is     *)
(* lost and remembered as such.  Without a sender nothing is offered.      *)
(***************************************************************************)
Offer(message) ==
    IF ~sender THEN UNCHANGED <<queue, dropped>>
    ELSE IF Len(queue) < QueueCapacity /\ task # "done"
    THEN queue' = Append(queue, message) /\ UNCHANGED dropped
    ELSE dropped' = TRUE /\ UNCHANGED queue

Chunk(cells) == [kind |-> "Chunk", cells |-> cells]
Final(kind) == [kind |-> kind, cells |-> <<>>]

\* The last offer of a stream, which also closes the queue.
Conclude(kind) == Offer(Final(kind)) /\ sender' = FALSE

\* CompactionTapState::settle, for a state that is not settled.
Measured(outcome) == Append(compactions, [outcome |-> outcome, bytes |-> seen])

(***************************************************************************)
(* A chunk within the bound goes to the client, and a copy to the queue.   *)
(***************************************************************************)
ForwardChunk ==
    /\ stream = "open"
    /\ seen < Length
    /\ NextCut <= MaxSemanticBytes
    /\ seen' = NextCut
    /\ Offer(Chunk(SubSeq(exchange.body, seen + 1, NextCut)))
    /\ UNCHANGED <<upstream, stream, stopped, sender, observation, compactions>>

\* The stream gives its last item and settles: by a bound, an error or the upstream's end.
SettleAs(how, message, outcome) ==
    /\ stream' = "settled"
    /\ stopped' = how
    /\ IF Tapped THEN Conclude(message) ELSE UNCHANGED <<queue, dropped, sender>>
    /\ compactions' = IF exchange.mode = "compaction" THEN Measured(outcome) ELSE compactions
    /\ UNCHANGED <<upstream, seen, observation>>

ExceedLimit ==
    /\ stream = "open"
    /\ seen < Length
    /\ NextCut > MaxSemanticBytes
    /\ SettleAs("exceeded", "Disconnected", "Incomplete")

UpstreamFails ==
    /\ stream = "open"
    /\ SettleAs("failed", "Disconnected", "Disconnected")

CompletionOf == IF exchange.ok THEN "Completed" ELSE "Failed"

UpstreamEnds ==
    /\ stream = "open"
    /\ seen = Length
    /\ SettleAs("ended", "Finished", CompletionOf)

(***************************************************************************)
(* The client, or the server on its behalf, drops the body.  A body        *)
(* dropped before it settled was complete only if every declared byte had  *)
(* been forwarded.                                                         *)
(***************************************************************************)
Exhausted == exchange.length = seen

DropBody ==
    /\ stream # "dropped"
    /\ stream' = "dropped"
    /\ stopped' = IF stream = "open" THEN "abandoned" ELSE stopped
    /\ IF stream = "open" /\ Tapped
       THEN Conclude(IF Exhausted THEN "Finished" ELSE "Disconnected")
       ELSE sender' = FALSE /\ UNCHANGED <<queue, dropped>>
    /\ compactions' = IF stream = "open" /\ exchange.mode = "compaction"
                      THEN Measured(IF Exhausted THEN CompletionOf ELSE "Cancelled")
                      ELSE compactions
    /\ UNCHANGED <<upstream, seen, observation>>

-----------------------------------------------------------------------------
(***************************************************************************)
(* The observer's task.  It first learns which observer applies: the       *)
(* content type says, or the request's stream flag does once published.  A *)
(* request that sent no flag selects none, and the task ends.              *)
(***************************************************************************)
ResolveMode ==
    /\ task = "resolving"
    /\ \/ /\ exchange.mode # "hint"
          /\ task' = exchange.mode
       \/ /\ exchange.mode = "hint"
          /\ hint # "pending"
          /\ task' = IF hint = "none" THEN "done" ELSE hint
    /\ queue' = IF task' = "done" THEN <<>> ELSE queue
    /\ UNCHANGED <<upstream, body, sender, dropped, observer, fed, recorded, compactions>>

\* A chunk: the stream observer interprets it, the document's buffer keeps it if it fits.
ObserveChunk ==
    /\ task \in {"sse", "json"}
    /\ queue # <<>>
    /\ Head(queue).kind = "Chunk"
    /\ queue' = Tail(queue)
    /\ LET cells == Head(queue).cells
           fits == task = "sse" \/ Len(fed) + Len(cells) <= MaxSemanticBytes
       IN  /\ observer' = IF task = "sse" THEN Push(observer, cells) ELSE observer
           /\ fed' = IF fits THEN fed \o cells ELSE fed
           /\ dropped' = (dropped \/ ~fits)
    /\ UNCHANGED <<upstream, body, sender, task, recorded, compactions>>

\* observe_document: the transport's verdict replaces the parser's.
Judged(parsed, terminal) ==
    CASE terminal = "Finished" -> parsed
      [] terminal = "Disconnected" -> [parsed EXCEPT !.status = "Partial"]
      [] OTHER -> [parsed EXCEPT !.status = "Cancelled"]

ObserveDocument(terminal) ==
    Judged(ParseResponse([size |-> Len(fed), text |-> TRUE, json |-> Document(fed)]), terminal)

ObserveStream(terminal) ==
    CASE terminal = "Finished" -> Summary(Finish(observer))
      [] terminal = "Disconnected" -> Summary(Disconnect(observer))
      [] OTHER -> Summary(Cancel(observer))

\* Seeded fault of Considered: a lost message leaves the observation as it is.
ConsideredWhole(response) == response

\* Lost messages override what was observed.
Considered(response) ==
    IF dropped THEN [response EXCEPT !.status = "ObserverBackpressure"] ELSE response

\* What is recorded for the task's terminal decision.
Observed(terminal) ==
    Considered(IF task = "sse" THEN ObserveStream(terminal) ELSE ObserveDocument(terminal))

(***************************************************************************)
(* A terminal message, or a queue closed without one, ends the             *)
(* observation; its parse and the sink's call follow at once, nothing that *)
(* could change them being left.                                           *)
(***************************************************************************)
RecordResponse ==
    /\ task \in {"sse", "json"}
    /\ \/ queue # <<>> /\ Head(queue).kind # "Chunk"
       \/ queue = <<>> /\ ~sender
    /\ recorded' = Append(recorded,
                          Observed(IF queue = <<>> THEN "none" ELSE Head(queue).kind))
    /\ task' = "done"
    /\ queue' = <<>>
    /\ UNCHANGED <<upstream, body, sender, dropped, observer, fed, compactions>>

-----------------------------------------------------------------------------
RequestTask == ParseRequestBody \/ PublishHint
ObserverTask == ResolveMode \/ ObserveChunk \/ RecordResponse

Next ==
    \/ RequestTask
    \/ ForwardChunk \/ ExceedLimit \/ UpstreamFails \/ UpstreamEnds \/ DropBody
    \/ ObserverTask

\* When the observer's task has something to do.
ObserverTaskReady ==
    \/ task = "resolving" /\ (exchange.mode # "hint" \/ hint # "pending")
    \/ task \in {"sse", "json"} /\ (queue # <<>> \/ ~sender)

(***************************************************************************)
(* Detached tasks are scheduled, and a server drops a response body in the *)
(* end.  The middle conjunct is WF_vars(ObserverTask) with the ENABLED     *)
(* predicate spelled out, which spares TLC an interpretation of the whole  *)
(* stream in every state.                                                  *)
(***************************************************************************)
Fairness ==
    /\ WF_vars(RequestTask)
    /\ []<>~ObserverTaskReady \/ []<><<ObserverTask>>_vars
    /\ WF_vars(DropBody)

Spec == Init /\ [][Next]_vars /\ Fairness
=============================================================================
