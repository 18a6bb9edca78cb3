-------------------------- MODULE ForwardRecorder --------------------------
(***************************************************************************)
(* The recorder of `tracepress run` (tracepress-cli/src/main.rs): how the   *)
(* halves of one provider exchange, reported by detached tasks of the       *)
(* proxy in any order, are joined into one inference operation.             *)
(*                                                                          *)
(*   proxy tasks --offer_transport/offer_ordered--> dispatch --+            *)
(*               --try_send/send_request----------> durable ---+-> recorder *)
(*                                                                  |       *)
(*                            daemon <---- record -------------------+      *)
(*                            context worker <---- jobs --------------      *)
(*                                                                          *)
(* A forward is its ordinal (ForwardId), allocated before its body is read. *)
(* The tasks of the proxy are the environment.  The recorder's channel is   *)
(* merged into the two FIFOs that feed it, which keeps every order in which *)
(* its events can arrive.  Not modelled: compaction (it bypasses the        *)
(* correlation), a forward whose endpoint cannot be built, an event loop    *)
(* whose clock fails, and the 30 s limit on the final drain.                *)
(***************************************************************************)
EXTENDS Integers, Sequences, FiniteSets

CONSTANTS
    Forwards,           \* number of forwards the proxy accepts
    Chat,               \* the forwards on a route without semantic observation
    Unread,             \* Responses forwards whose reply no observer reads
    Undecodable,        \* forwards whose body the deferred analysis cannot decode
    InFlight,           \* IN_FLIGHT_FORWARDS = TRANSPORT_DISPATCH_QUEUE_ITEMS
    DurableItems,       \* RECORDER_QUEUE_ITEMS of the durable ingress
    RetiredIdentities,  \* RETIRED_IDENTITIES
    Slots,              \* context_queue_items: analysis slots and ingestion queue
    AnalysisEnabled,    \* TRACEPRESS_CONTEXT_ANALYSIS=shadow
    Replies             \* what the daemon may answer to an observation

Forward == 0 .. Forwards - 1

ASSUME RecorderAssumption ==
    /\ Forwards \in Nat /\ InFlight \in Nat \ {0} /\ DurableItems \in Nat \ {0}
    /\ RetiredIdentities \in Nat /\ Slots \in Nat \ {0}
    /\ Chat \subseteq Forward /\ Unread \subseteq Forward /\ Undecodable \subseteq Forward
    /\ AnalysisEnabled \in BOOLEAN
    /\ Replies \subseteq {"ok", "fallback", "refused", "lost"}

(***************************************************************************)
(* The evidence of a forward: its four halves; "refused", the mark of a     *)
(* failed transport admission; and the outcome of its context analysis,     *)
(* "analysis" (analyzed, holding an output slot) or "shed" (dropped with a  *)
(* reason).  An event carries part of it.                                   *)
(***************************************************************************)
Half == {"request", "response", "failure", "transport"}
Context == {"analysis", "shed"}
Evidence == Half \cup Context \cup {"refused"}
Event == [forward : Forward, evidence : SUBSET Evidence]

VARIABLES
    stage,      \* "new", "sent" upstream, or "done" with the exchange, per forward
    owed,       \* events the detached tasks of a forward still have to deliver
    dispatch,   \* the FIFO of the transport dispatcher
    tickets,    \* TransportOrdering.pending
    durable,    \* the FIFO of DurableEventIngress
    recorder,   \* RunRecorder and the counters it shares with its sinks
    phase,      \* "running", "draining" or "done"
    accepted    \* history: the halves the sinks took for the recorder

vars == <<stage, owed, dispatch, tickets, durable, recorder, phase, accepted>>

Oldest(S) == CHOOSE f \in S : \A g \in S : f <= g

Blank == {}
Settled == {"settled"}

InitialRecorder ==
    [held      |-> {},                             \* keys of RunRecorder.forwards
     evidence  |-> [f \in Forward |-> Blank],      \* their ForwardState
     orphans   |-> {},                             \* retired_orphans
     receipts  |-> {},                             \* pending_context
     retired   |-> {},                             \* retired, above the watermark
     through   |-> {},                             \* those up to retired_through
     seen      |-> {},                             \* ContextCounters: admitted
     dropped   |-> {},                             \*   and accounted as dropped
     ingested  |-> {},                             \*   or by the ingestion worker
     jobs      |-> {},                             \* jobs the ingestion worker has
     counted   |-> [f \in Forward |-> 0],          \* degradations counted per forward
     records   |-> [f \in Forward |-> << >>],      \* inference operations at the daemon
     declined  |-> {},                             \* history: records the daemon refused
     leavers   |-> {},                             \* history: identities ever retired
     forgotten |-> {}]                             \* history: and no longer remembered

(* Whether all the evidence one durable provider observation needs is there. *)
Ready(e) ==
    /\ "request" \in e
    /\ e \cap {"response", "failure"} # {}
    /\ e \cap {"transport", "failure", "refused"} # {}

(* Seeded fault: only the watermark is consulted. *)
IsRetiredByWatermark(r, f) == f \in r.through

IsRetired(r, f) == f \in r.through \cup r.retired

(* Retires an identity: the contiguous prefix folds into the watermark, and  *)
(* the oldest retirement stranded above it is forgotten past the bound.      *)
Retire(r, f) ==
    IF IsRetired(r, f) THEN r
    ELSE LET known == r.through \cup r.retired \cup {f}
             folded == {g \in known : 0 .. g \subseteq known}
             above == known \ folded
             excess == IF Cardinality(above) > RetiredIdentities THEN {Oldest(above)} ELSE {}
         IN  [r EXCEPT !.leavers = @ \cup {f},
                       !.forgotten = @ \cup excess,
                       !.through = folded,
                       !.retired = above \ excess]

See(r, f) == IF AnalysisEnabled THEN [r EXCEPT !.seen = @ \cup {f}] ELSE r

(* ContextCounters::dropped: only a pending analysis is accounted, and once. *)
Drop(r, S) == [r EXCEPT !.dropped = @ \cup ((S \cap r.seen) \ r.ingested)]

Count(r, f) == [r EXCEPT !.counted[f] = @ + 1]

(* Hands an analyzed outcome to the ingestion worker, or accounts its drop. *)
EnqueueContext(r, f, e) ==
    IF "analysis" \in e /\ Cardinality(r.jobs) < Slots
    THEN [r EXCEPT !.jobs = @ \cup {f}] ELSE Drop(r, {f})

(* Seeded fault: the receipt that makes room is not accounted. *)
KeepReceiptSilently(r, f) ==
    [r EXCEPT !.receipts = {f} \cup (IF Cardinality(@) >= InFlight THEN @ \ {Oldest(@)} ELSE @)]

(* The receipt of a recorded forward waits for its analysis; the oldest      *)
(* receipt makes room.                                                       *)
KeepReceipt(r, f) ==
    LET out == (IF Cardinality(r.receipts) >= InFlight THEN {Oldest(r.receipts)} ELSE {})
        again == {f} \cap (r.receipts \ out)
    IN  [Drop(r, out \cup again) EXCEPT !.receipts = (@ \ out) \cup {f}]

SettleContext(r, f, e) ==
    IF e \cap Context # {} THEN EnqueueContext(r, f, e)
    ELSE IF AnalysisEnabled THEN KeepReceipt(r, f) ELSE r

(***************************************************************************)
(* Records what one forward leaves.  The observation carries its own        *)
(* degradation; when it is not acknowledged the forward falls back to a     *)
(* transport-only operation, if it has transport evidence.  The daemon's    *)
(* reply: "ok"; "fallback", the observation is refused and the forward      *)
(* record is not; "refused", both are; "lost", the observation is committed *)
(* and not acknowledged.                                                    *)
(***************************************************************************)
Operations(e, limit, reply) ==
    (IF "request" \in e /\ reply \in {"ok", "lost"}
     THEN <<[halves |-> e \cap Half,
             status |-> IF limit \/ "refused" \in e THEN "degraded" ELSE "correlated"]>>
     ELSE << >>)
    \o
    (IF ~("request" \in e /\ reply = "ok") /\ "transport" \in e /\ reply # "refused"
     THEN <<[halves |-> {"transport"}, status |-> "transport"]>>
     ELSE << >>)

Record(r, f, e, limit, reply) ==
    LET news == (IF limit /\ "refused" \notin e THEN 1 ELSE 0)
              + (IF "request" \notin e /\ e \cap {"response", "failure"} # {} THEN 1 ELSE 0)
        written == [r EXCEPT !.counted[f] = @ + news,
                             !.records[f] = @ \o Operations(e, limit, reply),
                             !.declined = IF reply = "refused" \/ ("request" \in e /\ reply # "ok")
                                          THEN @ \cup {f} ELSE @]
    IN  IF "request" \notin e THEN written
        ELSE IF reply = "ok" THEN SettleContext(written, f, e)
        ELSE Drop(written, {f})

(* record_forward for a route without semantic observation. *)
RecordTransportOnly(r, f, reply) == Record(r, f, {"transport"}, FALSE, reply)

(* Seeded fault: an evicted forward is recorded as if its run had ended. *)
EvictAsWhole(r, reply) ==
    LET oldest == Oldest(r.held)
        gone == [Retire(r, oldest) EXCEPT !.held = @ \ {oldest}, !.evidence[oldest] = Blank]
    IN  IF r.evidence[oldest] = Settled THEN gone
        ELSE Record(gone, oldest, r.evidence[oldest], FALSE, reply)

(***************************************************************************)
(* Makes room for one more identity: the oldest is retired and, unless it   *)
(* is settled, recorded with what it has and marked degraded.  A terminal   *)
(* half without its request leaves a tombstone that consumes the request.   *)
(***************************************************************************)
Evict(r, reply) ==
    LET oldest == Oldest(r.held)
        e == r.evidence[oldest]
        gone == [Retire(r, oldest) EXCEPT !.held = @ \ {oldest}, !.evidence[oldest] = Blank]
        grown == gone.orphans \cup {oldest}
        kept == IF Cardinality(grown) > RetiredIdentities THEN grown \ {Oldest(grown)} ELSE grown
        unpaired == Drop(gone, {oldest})
    IN  IF e = Settled THEN gone
        ELSE IF "request" \in e THEN Record(gone, oldest, e, TRUE, reply)
        ELSE IF e \cap {"response", "failure"} = {} THEN Record(unpaired, oldest, e, TRUE, reply)
        ELSE Record([unpaired EXCEPT !.orphans = kept], oldest, e, TRUE, reply)

(* Correlation state for an identity that is not retired. *)
Admit(r, f, reply) ==
    IF f \in r.held THEN r
    ELSE LET roomy == IF Cardinality(r.held) >= InFlight THEN Evict(r, reply) ELSE r
         IN  [roomy EXCEPT !.held = @ \cup {f}]

(* Joins evidence onto an admitted forward, which settles once it is ready. *)
JoinEvidence(r, f, e, reply) ==
    LET joined == r.evidence[f] \cup e
    IN  IF Ready(joined)
        THEN Record([r EXCEPT !.evidence[f] = Settled], f, joined, FALSE, reply)
        ELSE [r EXCEPT !.evidence[f] = joined]
-----------------------------------------------------------------------------
(***************************************************************************)
(* The event loop of the recorder.  The handlers of the seven events share  *)
(* their shape: `Handle` is one event, and its disjuncts are the branches.  *)
(***************************************************************************)
CarriesRequest(e) == "request" \in e
CarriesContext(e) == e \subseteq Context
Sighted(f, e) == IF CarriesRequest(e) \/ CarriesContext(e) THEN See(recorder, f) ELSE recorder

(* What a half that can no longer be joined costs its context analysis. *)
Lose(r, f, e) == IF CarriesRequest(e) \/ CarriesContext(e) THEN Drop(r, {f}) ELSE r

HandleOtherRoute(f, e) ==
    /\ f \in Chat /\ e = {"transport"}
    /\ \E reply \in Replies : recorder' = RecordTransportOnly(recorder, f, reply)

HandleOrphaned(f, e) ==
    /\ CarriesRequest(e) /\ f \in recorder.orphans
    /\ recorder' = [Drop(Sighted(f, e), {f}) EXCEPT !.orphans = @ \ {f}]

HandleReceipt(f, e) ==
    /\ CarriesContext(e) /\ f \in recorder.receipts
    /\ recorder' = [EnqueueContext(Sighted(f, e), f, e) EXCEPT !.receipts = @ \ {f}]

(* Seeded fault: the late half is ignored. *)
HandleRetiredSilently(f, e) ==
    /\ f \notin recorder.held /\ IsRetired(recorder, f)
    /\ recorder' = Lose(Sighted(f, e), f, e)

(* A half of a retired forward: its loss is counted, an analysis's is not. *)
HandleRetired(f, e) ==
    /\ f \notin recorder.held /\ IsRetired(recorder, f)
    /\ recorder' = LET lost == Lose(Sighted(f, e), f, e)
                   IN  IF CarriesContext(e) THEN lost ELSE Count(lost, f)

HandleSettled(f, e) ==
    /\ recorder.evidence[f] = Settled
    /\ recorder' = Lose(Sighted(f, e), f, e)

HandleJoin(f, e) ==
    /\ f \in recorder.held \/ ~IsRetired(recorder, f)
    /\ recorder.evidence[f] # Settled
    /\ \E own \in Replies, evicted \in Replies :
           recorder' = JoinEvidence(Admit(Sighted(f, e), f, evicted), f, e, own)

Handle(f, e) ==
    \/ HandleOtherRoute(f, e)
    \/ HandleOrphaned(f, e)
    \/ HandleReceipt(f, e)
    \/ /\ ~(f \in Chat /\ e = {"transport"})
       /\ ~(CarriesRequest(e) /\ f \in recorder.orphans)
       /\ ~(CarriesContext(e) /\ f \in recorder.receipts)
       /\ HandleRetired(f, e) \/ HandleSettled(f, e) \/ HandleJoin(f, e)

HandleDispatched ==
    /\ dispatch # << >>
    /\ dispatch' = Tail(dispatch)
    /\ Handle(Head(dispatch).forward, Head(dispatch).evidence)
    /\ UNCHANGED <<stage, owed, tickets, durable, phase, accepted>>

HandleDurable ==
    /\ durable # << >>
    /\ durable' = Tail(durable)
    /\ Handle(Head(durable).forward, Head(durable).evidence)
    /\ UNCHANGED <<stage, owed, dispatch, tickets, phase, accepted>>

(* The context worker has persisted a snapshot; its slot is free again. *)
Ingest ==
    /\ \E f \in recorder.jobs :
           recorder' = [recorder EXCEPT !.jobs = @ \ {f},
                                        !.ingested = @ \cup ({f} \ recorder.dropped)]
    /\ UNCHANGED <<stage, owed, dispatch, tickets, durable, phase, accepted>>
-----------------------------------------------------------------------------
(***************************************************************************)
(* The sinks, called by the tasks of the proxy.                             *)
(***************************************************************************)
Has(f, e) == [forward |-> f, evidence |-> e]
HasRoom == Len(durable) < DurableItems

Take(f, e) == accepted' = [accepted EXCEPT ![f] = @ \cup (e \cap Half)]

(* DurableEventIngress::try_send, with what a refused event leaves undone. *)
TrySend(f, e) ==
    IF HasRoom THEN durable' = Append(durable, Has(f, e)) /\ Take(f, e)
    ELSE UNCHANGED <<durable, accepted>>

(* The body is read: a Responses forward gets its detached request parser    *)
(* and, if the deferred backlog admits its body, a later analysis.           *)
Send(f) ==
    /\ phase = "running" /\ stage[f] = "new"
    /\ stage' = [stage EXCEPT ![f] = "sent"]
    /\ IF f \in Chat THEN UNCHANGED owed
       ELSE \E pending \in (IF AnalysisEnabled
                            THEN {{{"request", "shed"}},
                                  {{"request"}, IF f \in Undecodable THEN {"shed"} ELSE {"analysis"}}}
                            ELSE {{{"request"}}}) :
                owed' = [owed EXCEPT ![f] = pending]
    /\ UNCHANGED <<dispatch, tickets, durable, recorder, phase, accepted>>

(* TransportOrdering::try_enqueue_transport reserves a ticket and a place in *)
(* the dispatcher's queue, or neither.                                       *)
AdmitsTransport == Cardinality(tickets) < InFlight /\ Len(dispatch) < InFlight

OfferTransport(f) ==
    \/ /\ AdmitsTransport
       /\ tickets' = tickets \cup {f}
       /\ dispatch' = Append(dispatch, Has(f, {"transport"}))
       /\ Take(f, {"transport"})
       /\ UNCHANGED <<durable, recorder>>
    \/ /\ ~AdmitsTransport
       /\ recorder' = Count(recorder, f)
       /\ TrySend(f, {"refused"})
       /\ UNCHANGED <<tickets, dispatch>>

(* The upstream answers: transport metadata, and an observer on the body. *)
Answer(f) ==
    /\ stage[f] = "sent"
    /\ stage' = [stage EXCEPT ![f] = "done"]
    /\ owed' = [owed EXCEPT ![f] = @ \cup (IF f \in Chat \cup Unread THEN {} ELSE {{"response"}})]
    /\ OfferTransport(f)
    /\ UNCHANGED phase

(* The upstream cannot be reached: no metadata, a classified failure. *)
Fail(f) ==
    /\ stage[f] = "sent"
    /\ stage' = [stage EXCEPT ![f] = "done"]
    /\ owed' = [owed EXCEPT ![f] = @ \cup (IF f \in Chat THEN {} ELSE {{"failure"}})]
    /\ UNCHANGED <<dispatch, tickets, durable, recorder, phase, accepted>>

(* The client leaves first: the handler is dropped with its analysis. *)
Cancel(f) ==
    /\ stage[f] = "sent"
    /\ stage' = [stage EXCEPT ![f] = "done"]
    /\ owed' = [owed EXCEPT ![f] = {e \in @ : ~CarriesContext(e)}]
    /\ UNCHANGED <<dispatch, tickets, durable, recorder, phase, accepted>>

Deliver(f, e) == e \in owed[f] /\ owed' = [owed EXCEPT ![f] = @ \ {e}]

(* The request half waits for room: it is never refused. *)
DeliverRequest(f, e) ==
    /\ CarriesRequest(e) /\ Deliver(f, e)
    /\ HasRoom /\ TrySend(f, e)
    /\ UNCHANGED <<stage, dispatch, tickets, recorder, phase>>

(* offer_ordered: behind the metadata on the dispatcher's queue; else, the   *)
(* ticket given up, as a degraded response on the durable queue.             *)
DeliverResponse(f) ==
    /\ Deliver(f, {"response"})
    /\ tickets' = tickets \ {f}
    /\ \/ /\ f \in tickets /\ Len(dispatch) < InFlight
          /\ dispatch' = Append(dispatch, Has(f, {"response"}))
          /\ Take(f, {"response"})
          /\ UNCHANGED <<durable, recorder>>
       \/ /\ f \notin tickets \/ Len(dispatch) >= InFlight
          /\ recorder' = IF f \in tickets THEN Count(recorder, f) ELSE recorder
          /\ LET offered == <<Has(f, {"refused"}), Has(f, {"response", "refused"})>>
                 room == IF DurableItems - Len(durable) < 2 THEN DurableItems - Len(durable) ELSE 2
             IN  /\ durable' = durable \o SubSeq(offered, 1, room)
                 /\ IF room = 2 THEN Take(f, {"response"}) ELSE UNCHANGED accepted
          /\ UNCHANGED dispatch
    /\ UNCHANGED <<stage, phase>>

DeliverFailure(f) ==
    /\ Deliver(f, {"failure"})
    /\ tickets' = tickets \ {f}
    /\ TrySend(f, {"failure"})
    /\ UNCHANGED <<stage, dispatch, recorder, phase>>

(* The analysis slot of a forward: in the durable queue, in its correlation  *)
(* state, or with the ingestion worker.                                      *)
InTransit(f) == \E i \in DOMAIN durable : durable[i] = Has(f, {"analysis"})
HoldsSlot(f) ==
    InTransit(f) \/ "analysis" \in recorder.evidence[f] \/ f \in recorder.jobs
FreeSlot == Cardinality({f \in Forward : HoldsSlot(f)}) < Slots

(* The deferred analysis runs after the exchange and its request parser, and *)
(* an analyzed outcome waits for a slot.                                     *)
DeliverAnalysis(f, e) ==
    /\ CarriesContext(e) /\ Deliver(f, e)
    /\ stage[f] = "done" /\ \A other \in owed[f] : ~CarriesRequest(other)
    /\ "analysis" \in e => FreeSlot
    /\ TrySend(f, e)
    /\ recorder' = IF HasRoom THEN See(recorder, f) ELSE Drop(See(recorder, f), {f})
    /\ UNCHANGED <<stage, dispatch, tickets, phase>>
-----------------------------------------------------------------------------
(***************************************************************************)
(* The end of the run: the agent has exited, the background tasks are done  *)
(* and the queues are empty; then the recorder settles what it still holds. *)
(***************************************************************************)
EndOfRun ==
    /\ phase = "running"
    /\ \A f \in Forward : stage[f] # "sent" /\ owed[f] = {}
    /\ dispatch = << >> /\ durable = << >>
    /\ phase' = "draining"
    /\ UNCHANGED <<stage, owed, dispatch, tickets, durable, recorder, accepted>>

DrainForward ==
    /\ phase = "draining" /\ recorder.held # {}
    /\ LET f == Oldest(recorder.held)
           e == recorder.evidence[f]
           gone == [Retire(recorder, f) EXCEPT !.held = @ \ {f}, !.evidence[f] = Blank]
       IN  \E reply \in Replies :
               recorder' = IF e = Settled THEN gone
                           ELSE Record(IF "request" \in e THEN gone ELSE Drop(gone, {f}),
                                       f, e, FALSE, reply)
    /\ UNCHANGED <<stage, owed, dispatch, tickets, durable, phase, accepted>>

DrainReceipts ==
    /\ phase = "draining" /\ recorder.held = {}
    /\ phase' = "done"
    /\ recorder' = [Drop(recorder, recorder.receipts \cup recorder.orphans)
                       EXCEPT !.receipts = {}, !.orphans = {}]
    /\ UNCHANGED <<stage, owed, dispatch, tickets, durable, accepted>>

(* Everything is recorded: `tracepress run` reports and exits. *)
Rest == phase = "done" /\ recorder.jobs = {} /\ UNCHANGED vars
-----------------------------------------------------------------------------
Init ==
    /\ stage = [f \in Forward |-> "new"]
    /\ owed = [f \in Forward |-> {}]
    /\ dispatch = << >> /\ tickets = {} /\ durable = << >>
    /\ recorder = InitialRecorder
    /\ phase = "running"
    /\ accepted = [f \in Forward |-> {}]

Next ==
    \/ \E f \in Forward :
          \/ Send(f) \/ Answer(f) \/ Fail(f) \/ Cancel(f)
          \/ DeliverResponse(f) \/ DeliverFailure(f)
          \/ \E e \in owed[f] : DeliverRequest(f, e) \/ DeliverAnalysis(f, e)
    \/ HandleDispatched \/ HandleDurable \/ Ingest
    \/ EndOfRun \/ DrainForward \/ DrainReceipts \/ Rest

Spec == Init /\ [][Next]_vars
=============================================================================
