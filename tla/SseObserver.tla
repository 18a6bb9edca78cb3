---------------------------- MODULE SseObserver ----------------------------
(***************************************************************************)
(* Incremental observation of one Responses event stream:                  *)
(* tracepress-provider/src/sse.rs.  The framer turns fragments of bytes    *)
(* into events under two bounds; the observer interprets events until the  *)
(* provider's own terminal one.                                            *)
(*                                                                         *)
(* A stream is a sequence of cells, each weighing one byte: CR, LF, and    *)
(* the cells a line is made of - "event:", "data:", ":" (a comment), " "   *)
(* and the words of names and payloads.  A fragment may end after any      *)
(* cell.  Documents gives the JSON tree that a sequence of payload cells   *)
(* spells; every other sequence is not JSON.                               *)
(***************************************************************************)
EXTENDS ProviderJson

CONSTANTS
    MaxEventBytes,  \* max_sse_event_bytes
    MaxEvents,      \* max_sse_events
    MaxNameBytes,   \* max_string_bytes
    Documents       \* from sequences of cells to JSON trees

Document(cells) == IF cells \in DOMAIN Documents THEN Documents[cells] ELSE Invalid

-----------------------------------------------------------------------------
\* SseFramer::new
NewFramer ==
    [line |-> <<>>, named |-> FALSE, name |-> <<>>, data |-> <<>>, size |-> 0,
     count |-> 0, cr |-> FALSE, failed |-> FALSE]

\* A framing in progress: the framer and the events this fragment completed so far.
Crosses(f) == [f EXCEPT !.framer.failed = TRUE]

\* emit_event: the only place that resets the byte count of an event.
EmitEvent(f) ==
    IF f.framer.count + 1 > MaxEvents THEN Crosses(f)
    ELSE [framer |-> [f.framer EXCEPT !.count = @ + 1, !.named = FALSE, !.name = <<>>,
                                      !.data = <<>>, !.size = 0],
          events |-> Append(f.events, [name |-> f.framer.name, data |-> f.framer.data])]

HasEvent(framer) == framer.named \/ framer.data # <<>>

\* The value of a field: what follows the colon, without one leading space.
FieldValue(line) ==
    IF Len(line) > 1 /\ line[2] = " " THEN SubSeq(line, 3, Len(line)) ELSE Tail(line)

\* finish_line
FinishLine(f) ==
    LET line == f.framer.line
        cleared == [f EXCEPT !.framer.line = <<>>]
        value == FieldValue(line)
        joined == IF f.framer.data = <<>> THEN value ELSE Append(f.framer.data, "NL") \o value
    IN  CASE line = <<>> -> IF HasEvent(f.framer) THEN EmitEvent(cleared) ELSE cleared
          [] line # <<>> /\ line[1] = "event:" ->
                IF Len(value) <= MaxNameBytes
                THEN [cleared EXCEPT !.framer.named = TRUE, !.framer.name = value]
                ELSE cleared
          [] line # <<>> /\ line[1] = "data:" ->
                IF Len(joined) > MaxEventBytes THEN Crosses(cleared)
                ELSE [cleared EXCEPT !.framer.data = joined]
          [] OTHER -> cleared

\* One byte: a CR ends its line at the next byte, and swallows an LF.
FrameByte(f, byte) ==
    LET pending == f.framer.cr
        uncr == [f EXCEPT !.framer.cr = FALSE]
        ended == IF pending THEN FinishLine(uncr) ELSE f
    IN  IF f.framer.failed THEN f
        ELSE IF ended.framer.failed THEN ended
        ELSE CASE byte = "CR" -> [ended EXCEPT !.framer.cr = TRUE]
               [] byte = "LF" -> IF pending THEN ended ELSE FinishLine(ended)
               [] OTHER ->
                     IF ended.framer.size + 1 > MaxEventBytes THEN Crosses(ended)
                     ELSE [ended EXCEPT !.framer.size = @ + 1, !.framer.line = Append(@, byte)]

\* push and finish of a framer that has not failed; deliver latches the failure.
Frame(framer, bytes) ==
    LET framed[n \in 0..Len(bytes)] ==
            IF n = 0 THEN [framer |-> framer, events |-> <<>>]
            ELSE FrameByte(framed[n - 1], bytes[n])
    IN  framed[Len(bytes)]

Flush(framer) ==
    LET start == [framer |-> [framer EXCEPT !.cr = FALSE], events |-> <<>>]
        lined == IF framer.cr \/ framer.line # <<>> THEN FinishLine(start) ELSE start
    IN  IF ~lined.framer.failed /\ HasEvent(lined.framer) THEN EmitEvent(lined) ELSE lined

-----------------------------------------------------------------------------
Severity(status) ==
    CASE status = "Complete" -> 0
      [] status = "Partial" -> 1
      [] status = "Unsupported" -> 2
      [] status = "Cancelled" -> 3
      [] status = "ObserverBackpressure" -> 4
      [] status = "Malformed" -> 5
      [] OTHER -> 6

\* StreamingObserver::new.  evidence and usageEvidence are "none" or what was seen.
NewObserver ==
    [framer |-> NewFramer, status |-> "Complete",
     response |-> [EmptyResponse("Complete") EXCEPT !.chunks = 0, !.bytes = 0],
     evidence |-> "none", usageEvidence |-> "none", settled |-> FALSE, terminal |-> FALSE]

Degrade(o, status) ==
    IF Severity(status) > Severity(o.status) THEN [o EXCEPT !.status = status] ELSE o

DegradeIf(o, condition, status) == IF condition THEN Degrade(o, status) ELSE o

Lifecycle(name) ==
    CASE name \in {<<"created">>, <<"queued">>} -> "Queued"
      [] name = <<"in_progress">> -> "InProgress"
      [] name = <<"completed">> -> "Completed"
      [] name = <<"incomplete">> -> "Incomplete"
      [] name \in {<<"failed">>, <<"error">>} -> "Failed"
      [] name = <<"cancelled">> -> "Cancelled"
      [] OTHER -> "none"

\* The object whose fields count: the payload's `response`, or the payload itself.
Subject(payload) ==
    IF payload.type = "object" /\ MembersNamed(payload, "response") # {}
    THEN Get(payload, "response") ELSE payload
SubjectHasSpan(payload) ==
    \/ MembersNamed(payload, "response") = {}
    \/ Span(payload, "response") # Absent

FirstOf(old, new) == IF old = Unknown THEN new ELSE old

\* A detail is read only from an object, and only while it is still unknown.
Detail(object, old, parent, key) == FirstOf(old, Nested(object, parent, key))
DetailRefused(object, old, parent, key) ==
    /\ old = Unknown
    /\ Get(object, parent).type = "object"
    /\ Drops(Get(object, parent), key)

\* Whether an event's object holds a value that is wanted and cannot be kept.
Refuses(r, object) ==
    \/ r.id = Unknown /\ Drops(object, "id")
    \/ r.model = Unknown /\ Drops(object, "model")
    \/ DetailRefused(object, r.reason, "incomplete_details", "reason")
    \/ DetailRefused(object, r.code, "error", "code")

\* The fields of an event's object: identifiers are kept, a later usage replaces an earlier.
ReadFields(o, object, evidence) ==
    LET retained == evidence.outcome = "Retained"
        response == [o.response EXCEPT
                         !.id = FirstOf(@, Extract(object, "id")),
                         !.model = FirstOf(@, Extract(object, "model")),
                         !.reason = Detail(object, @, "incomplete_details", "reason"),
                         !.code = Detail(object, @, "error", "code"),
                         !.usage = IF retained THEN evidence.usage ELSE @]
        reported == IF retained THEN evidence.status ELSE o.usageEvidence
    IN  [o EXCEPT !.response = response, !.usageEvidence = reported]

ReadEvidence(o, object, evidence) ==
    DegradeIf(DegradeIf(ReadFields(o, object, evidence),
                        Refuses(o.response, object) \/ evidence.outcome = "Unusable", "Partial"),
              evidence.outcome = "Oversized", "ResourceLimit")

ReadObject(o, object, spans) == ReadEvidence(o, object, ExtractUsage(object, spans))

UnconfirmedUsage(o) ==
    IF o.usageEvidence = "none" THEN "Unavailable"
    ELSE SettleUsageStatus(o.usageEvidence, FALSE)

\* The lifecycle an event names, and the usage status it leaves.
ReadLifecycle(o, state) ==
    LET ends == state \in TerminalStates
        moved == IF state = "none" THEN o
                 ELSE [o EXCEPT !.response.state = state,
                                !.evidence = IF ends THEN state ELSE @,
                                !.terminal = @ \/ ends]
        usage == IF o.usageEvidence = "none" THEN "Unavailable"
                 ELSE SettleUsageStatus(o.usageEvidence, moved.evidence # "none")
    IN  DegradeIf([moved EXCEPT !.response.usageStatus = usage],
                  moved.evidence = "Completed" /\ usage = "Unavailable", "Partial")

\* observe_event, for an observer that is not terminal yet.
ObserveEvent(o, event) ==
    LET payload == Document(event.data)
        error == ParseError(payload)
        object == Subject(payload)
        seen == [o EXCEPT !.response.compaction = @ \/ ContainsCompaction(payload)]
        read == IF object.type = "object"
                THEN ReadObject(seen, object, SubjectHasSpan(payload)) ELSE seen
        state == Lifecycle(event.name)
    IN  CASE o.terminal -> o
          [] ~o.terminal /\ error # "none" ->
                DegradeIf(o, state # "none",
                          IF error = "ResourceLimit" THEN "ResourceLimit" ELSE "Partial")
          [] OTHER -> ReadLifecycle(read, state)

ObserveEvents(o, events) ==
    LET observed[n \in 0..Len(events)] ==
            IF n = 0 THEN o ELSE ObserveEvent(observed[n - 1], events[n])
    IN  observed[Len(events)]

-----------------------------------------------------------------------------
\* Seeded faults of Push: a crossed bound discards the events its fragment had completed, and
\* fragments that follow the terminal event are still framed.
PushDiscarding(o, bytes) ==
    LET framed == Frame(o.framer, bytes)
        fed == [o EXCEPT !.response.chunks = @ + 1, !.response.bytes = @ + Len(bytes),
                         !.framer = framed.framer]
    IN  IF o.terminal \/ o.framer.failed THEN o
        ELSE IF framed.framer.failed THEN Degrade(fed, "ResourceLimit")
        ELSE ObserveEvents(fed, framed.events)

ObserveLater(o, event) == [ObserveEvent([o EXCEPT !.terminal = FALSE], event)
                           EXCEPT !.terminal = TRUE]
PushAfterTerminal(o, bytes) ==
    LET framed == Frame(o.framer, bytes)
        fed == [o EXCEPT !.framer = framed.framer]
    IN  IF o.terminal THEN FoldLeft(ObserveLater, fed, framed.events)
        ELSE ObserveEvents(fed, framed.events)

(***************************************************************************)
(* StreamingObserver::push.  Every fragment delivered before the stream is *)
(* settled is counted; after a terminal event nothing is framed.  A        *)
(* framing bound degrades at once only when the fragment completed no      *)
(* event, otherwise at the next push or when the stream settles.           *)
(***************************************************************************)
Push(o, bytes) ==
    LET counted == [o EXCEPT !.response.chunks = @ + 1, !.response.bytes = @ + Len(bytes)]
        framed == Frame(o.framer, bytes)
        fed == [counted EXCEPT !.framer = framed.framer]
    IN  CASE o.settled -> o
          [] ~o.settled /\ o.terminal -> counted
          [] ~o.settled /\ ~o.terminal /\ o.framer.failed -> Degrade(counted, "ResourceLimit")
          [] OTHER -> IF framed.framer.failed /\ framed.events = <<>>
                      THEN Degrade(fed, "ResourceLimit")
                      ELSE ObserveEvents(fed, framed.events)

AbsorbFramingFailure(o) == DegradeIf(o, o.framer.failed, "ResourceLimit")

SettleObserver(o) == [o EXCEPT !.terminal = TRUE, !.settled = TRUE]
Summary(o) == [o.response EXCEPT !.status = o.status]

WithoutEvidence(o, state, status) ==
    IF o.evidence # "none" THEN o
    ELSE Degrade([o EXCEPT !.response.state = state,
                           !.response.usageStatus = UnconfirmedUsage(o)], status)

\* finish, disconnect and cancel, for an observer that is not settled.
Absorb(o, flushed) ==
    IF o.framer.failed THEN o
    ELSE ObserveEvents([o EXCEPT !.framer = flushed.framer], flushed.events)

Finish(o) ==
    SettleObserver(
        IF o.terminal THEN o
        ELSE WithoutEvidence(AbsorbFramingFailure(Absorb(o, Flush(o.framer))),
                             "Incomplete", "Partial"))

SettleWithoutCompletion(o, state, status) ==
    SettleObserver(
        WithoutEvidence(IF o.terminal THEN o ELSE AbsorbFramingFailure(o), state, status))
Disconnect(o) == SettleWithoutCompletion(o, "Disconnected", "Partial")
Cancel(o) == SettleWithoutCompletion(o, "Cancelled", "Cancelled")
=============================================================================
