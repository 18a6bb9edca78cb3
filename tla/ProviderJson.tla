---------------------------- MODULE ProviderJson ----------------------------
(***************************************************************************)
(* The bounded JSON interpretation that every provider parser shares, and  *)
(* the two document parsers of the OpenAI Responses protocol built on it:  *)
(* tracepress-provider/src/{json,response,request,domain}.rs.              *)
(*                                                                         *)
(* A document is a tree.  A scalar is [type |-> "null" | "bool" | "number" *)
(* | "string", ...], a container keeps its elements or members in the      *)
(* order they are written, and [type |-> "invalid"] stands for the place   *)
(* where the text stops being JSON.  A member records how its key is       *)
(* written (exact: without an escape sequence) and the size of its value,  *)
(* because the byte scan that recovers a member's span sees those and the  *)
(* parser does not.  A string records whether it may be retained (within   *)
(* the bound and free of NUL).                                             *)
(***************************************************************************)
EXTENDS Integers, Sequences, SequencesExt, FiniteSets

CONSTANTS
    MaxJsonDepth,     \* max_json_depth
    MaxJsonItems,     \* max_json_items
    MaxSemanticBytes, \* max_semantic_bytes
    MaxUsageBytes,    \* max_usage_bytes
    DurableMax        \* largest signed 64-bit counter, scaled down

ASSUME JsonAssumption ==
    \A n \in {MaxJsonDepth, MaxJsonItems, MaxSemanticBytes, MaxUsageBytes, DurableMax} :
        n \in Nat \ {0}

Absent == -1
Unknown == "none"
Nothing == [type |-> "null"]
Invalid == [type |-> "invalid"]

-----------------------------------------------------------------------------
(***************************************************************************)
(* parse_bounded: one pass that charges a shared budget.  A member is      *)
(* charged before its value is read, an array element after it; a          *)
(* duplicate key is noticed after the second value.                        *)
(***************************************************************************)
Charge(budget) ==
    IF budget.items + 1 > MaxJsonItems
    THEN [budget EXCEPT !.items = @ + 1, !.error = "ResourceLimit"]
    ELSE [budget EXCEPT !.items = @ + 1]

\* The values of a document, as deep as the parser goes.
Children(value) ==
    CASE value.type = "array" -> {value.items[i] : i \in 1..Len(value.items)}
      [] value.type = "object" -> {value.members[i].value : i \in 1..Len(value.members)}
      [] OTHER -> {}

Values(document) ==
    LET below[depth \in 0..MaxJsonDepth] ==
            IF depth = 0 THEN {document} ELSE UNION {Children(v) : v \in below[depth - 1]}
    IN  UNION {below[depth] : depth \in 0..MaxJsonDepth}

Budget == [items : Nat, error : {"none", "ResourceLimit", "Malformed"}]

ParseError(document) ==
    LET visit[value \in Values(document), depth \in 0..MaxJsonDepth, budget \in Budget] ==
            LET element(b, v) ==
                    LET after == visit[v, depth + 1, b]
                    IN  IF b.error # "none" THEN b
                        ELSE IF after.error # "none" THEN after ELSE Charge(after)
                member(b, i) ==
                    LET charged == Charge(b)
                        after == visit[value.members[i].value, depth + 1, charged]
                        again == \E j \in 1..(i - 1) : value.members[j].key = value.members[i].key
                    IN  IF b.error # "none" THEN b
                        ELSE IF charged.error # "none" THEN charged
                        ELSE IF after.error = "none" /\ again
                        THEN [after EXCEPT !.error = "Malformed"] ELSE after
            IN  CASE value.type = "invalid" -> [budget EXCEPT !.error = "Malformed"]
                  [] value.type \in {"array", "object"} /\ depth + 1 > MaxJsonDepth ->
                        [budget EXCEPT !.error = "ResourceLimit"]
                  [] value.type = "array" /\ depth < MaxJsonDepth ->
                        FoldLeft(element, budget, value.items)
                  [] value.type = "object" /\ depth < MaxJsonDepth ->
                        FoldLeft(member, budget, [i \in 1..Len(value.members) |-> i])
                  [] OTHER -> budget
    IN  visit[document, 0, [items |-> 0, error |-> "none"]].error

\* validate_text and parse_bounded over one whole document.
DocumentError(document) ==
    IF document.size > MaxSemanticBytes THEN "ResourceLimit"
    ELSE IF ~document.text THEN "InvalidText"
    ELSE ParseError(document.json)

StatusForError(error) == IF error = "ResourceLimit" THEN "ResourceLimit" ELSE "Malformed"

-----------------------------------------------------------------------------
(***************************************************************************)
(* Reading members.  Get is the parsed view, Span the byte scan: it finds  *)
(* the member only by the exact bytes of its key.                          *)
(***************************************************************************)
MembersNamed(object, key) ==
    {i \in 1..Len(object.members) : object.members[i].key = key}

Get(object, key) ==
    IF MembersNamed(object, key) = {} THEN Nothing
    ELSE object.members[CHOOSE i \in MembersNamed(object, key) : TRUE].value

\* Size of the member's bytes, Absent when the scan does not find the key.
Span(object, key) ==
    LET found == {i \in MembersNamed(object, key) : object.members[i].exact}
    IN  IF found = {} THEN Absent ELSE object.members[CHOOSE i \in found : TRUE].size

\* StringExtraction::extract and extract_nested: what is kept, and what makes it partial.
Retainable(value) == value.type = "string" /\ value.fits
Extract(object, key) ==
    IF Retainable(Get(object, key)) THEN Get(object, key).text ELSE Unknown
Drops(object, key) == ~Retainable(Get(object, key)) /\ Get(object, key) # Nothing
Nested(object, parent, key) ==
    IF Get(object, parent).type = "object" THEN Extract(Get(object, parent), key) ELSE Unknown
NestedDrops(object, parent, key) ==
    LET value == Get(object, parent)
    IN  IF value.type = "object" THEN Drops(value, key) ELSE value # Nothing

\* Asked of documents that have been parsed, which are no deeper than the parser goes.
ContainsCompaction(document) ==
    \E value \in Values(document) :
        /\ value.type = "object"
        /\ Get(value, "type") = [type |-> "string", text |-> "compaction", fits |-> TRUE]

-----------------------------------------------------------------------------
(***************************************************************************)
(* normalize_usage.  Every component is a count or Absent; an anomaly      *)
(* never becomes a component.                                              *)
(***************************************************************************)
Count(value) ==
    IF value.type = "number" /\ ~value.fraction /\ value.number \in 0..DurableMax
    THEN value.number ELSE Absent
CountAnomaly(value) ==
    CASE value = Nothing \/ Count(value) # Absent -> {}
      [] value.type = "number" /\ value.number > DurableMax -> {"overflow"}
      [] OTHER -> {"invalid_number"}

Within(object, parent, key) ==
    IF Get(object, parent).type = "object" THEN Get(Get(object, parent), key)
    ELSE IF Get(object, parent) = Nothing THEN Nothing
    ELSE [type |-> "bool"]     \* any wrongly typed parent is an invalid number

Known(count) == count # Absent

\* What the counts say against each other.
Contradictions(input, cached, output, reasoning, total) ==
    (IF Known(input) /\ Known(cached) /\ cached > input THEN {"cached_exceeds_input"} ELSE {})
    \cup (IF Known(output) /\ Known(reasoning) /\ reasoning > output
          THEN {"reasoning_exceeds_output"} ELSE {})
    \cup (IF Known(total) /\ Known(input) /\ Known(output) /\ input + output # total
          THEN {"inconsistent_total"} ELSE {})

\* The seven members a usage is read from; the alias only without the name it stands for.
UsageMembers(object) ==
    LET written == Within(object, "input_tokens_details", "cache_write_tokens")
        alias == Within(object, "input_tokens_details", "cache_write")
    IN  {Get(object, key) : key \in {"input_tokens", "output_tokens", "total_tokens"}}
        \cup {Within(object, "input_tokens_details", "cached_tokens"), written,
              Within(object, "output_tokens_details", "reasoning_tokens")}
        \cup (IF Known(Count(written)) THEN {} ELSE {alias})

NormalizeUsage(object) ==
    LET input == Count(Get(object, "input_tokens"))
        output == Count(Get(object, "output_tokens"))
        total == Count(Get(object, "total_tokens"))
        cached == Count(Within(object, "input_tokens_details", "cached_tokens"))
        written == Count(Within(object, "input_tokens_details", "cache_write_tokens"))
        alias == Count(Within(object, "input_tokens_details", "cache_write"))
        reasoning == Count(Within(object, "output_tokens_details", "reasoning_tokens"))
        read == UsageMembers(object)
        misread == UNION {CountAnomaly(v) : v \in read}
        anomalies == misread \cup Contradictions(input, cached, output, reasoning, total)
    IN  [input |-> input, cached |-> cached,
         uncached |-> IF Known(input) /\ Known(cached) /\ cached <= input
                      THEN input - cached ELSE Absent,
         written |-> IF Known(written) THEN written ELSE alias,
         output |-> output, reasoning |-> reasoning, total |-> total,
         anomalies |-> anomalies,
         status |-> IF \A v \in read : ~Known(Count(v)) THEN "Unavailable"
                    ELSE IF anomalies # {} THEN "Partial" ELSE "Final"]

NoUsage == [status |-> "Unavailable", outcome |-> "Absent", usage |-> <<>>]

(***************************************************************************)
(* extract_usage: the parsed value decides whether there is a usage        *)
(* object, the span only recovers its exact bytes.  spans is FALSE when    *)
(* the caller could not recover the bytes of the object itself.            *)
(***************************************************************************)
ExtractUsage(object, spans) ==
    LET value == Get(object, "usage")
        size == IF spans THEN Span(object, "usage") ELSE Absent
        unusable == [NoUsage EXCEPT !.status = "Partial", !.outcome = "Unusable"]
    IN  IF value = Nothing THEN NoUsage
        ELSE IF value.type # "object" \/ size = Absent THEN unusable
        ELSE IF size > MaxUsageBytes THEN [NoUsage EXCEPT !.outcome = "Oversized"]
        ELSE [status |-> NormalizeUsage(value).status, outcome |-> "Retained",
              usage |-> <<NormalizeUsage(value)>>]

\* Seeded fault of SettleUsageStatus: a usage is final whatever the response's state.
SettleUsageAsReported(status, terminal) == status

SettleUsageStatus(status, terminal) ==
    IF status = "Final" /\ ~terminal THEN "Partial" ELSE status

TerminalStates == {"Completed", "Incomplete", "Failed", "Cancelled"}

MapStatus(text) ==
    CASE text = "queued" -> "Queued"
      [] text = "in_progress" -> "InProgress"
      [] text = "completed" -> "Completed"
      [] text = "incomplete" -> "Incomplete"
      [] text \in {"failed", "error"} -> "Failed"
      [] text \in {"cancelled", "canceled"} -> "Cancelled"
      [] OTHER -> "Unknown"

-----------------------------------------------------------------------------
\* ResponseObservation::empty, without the identities and the timings.
EmptyResponse(status) ==
    [status |-> status, id |-> Unknown, model |-> Unknown, state |-> "Unknown",
     reason |-> Unknown, code |-> Unknown, usage |-> <<>>, usageStatus |-> "Unavailable",
     compaction |-> FALSE, chunks |-> Absent, bytes |-> Absent]

\* A detail object that is neither an object nor null makes the observation partial.
DetailDrops(object, parent, key) ==
    Get(object, parent) # Nothing /\ NestedDrops(object, parent, key)

\* optional_u64: a creation time is kept when it is an unsigned integer.
BadTime(value) ==
    value # Nothing /\ ~(value.type = "number" /\ ~value.fraction /\ value.number >= 0)

\* Whether a response document holds a field that cannot be kept.
Lossy(object) ==
    \/ Drops(object, "id") \/ Drops(object, "model")
    \/ BadTime(Get(object, "created_at"))
    \/ Get(object, "status").type \notin {"null", "string"}
    \/ DetailDrops(object, "incomplete_details", "reason")
    \/ DetailDrops(object, "error", "code")

StateOf(status) == IF status.type = "string" THEN MapStatus(status.text) ELSE "Unknown"

DocumentStatus(object, evidence) ==
    IF evidence.outcome = "Oversized" THEN "ResourceLimit"
    ELSE IF evidence.outcome = "Unusable" \/ Lossy(object) THEN "Partial" ELSE "Complete"

ReadResponse(object, state, evidence) ==
    [EmptyResponse(DocumentStatus(object, evidence))
     EXCEPT !.id = Extract(object, "id"), !.model = Extract(object, "model"),
            !.state = state,
            !.reason = Nested(object, "incomplete_details", "reason"),
            !.code = Nested(object, "error", "code"),
            !.usage = evidence.usage,
            !.usageStatus = SettleUsageStatus(evidence.status, state \in TerminalStates),
            !.compaction = ContainsCompaction(object)]

ParseResponse(document) ==
    LET object == document.json
    IN  IF DocumentError(document) # "none"
        THEN EmptyResponse(StatusForError(DocumentError(document)))
        ELSE IF object.type # "object" THEN EmptyResponse("Malformed")
        ELSE ReadResponse(object, StateOf(Get(object, "status")), ExtractUsage(object, TRUE))

-----------------------------------------------------------------------------
(***************************************************************************)
(* parse_request: the fields that decide something later - the stream flag *)
(* that selects the response observer, the compaction classification - and *)
(* whether anything allowlisted had to be dropped.                         *)
(***************************************************************************)
Flag(value) == IF value.type = "bool" THEN <<value.value>> ELSE <<>>
BadFlag(value) == value.type \notin {"null", "bool"}
BadList(value) == value.type \notin {"null", "array"}

Blocks(item) ==
    IF item.type = "object" /\ Get(item, "content").type = "array"
    THEN {Get(item, "content").items[i] : i \in 1..Len(Get(item, "content").items)} ELSE {}
KnownBlocks == {"input_text", "text", "input_image", "image_url", "image", "input_file", "file"}
\* A content that is not an array (null included), or a block of an unknown kind, is
\* counted nowhere.
BadBlocks(item) ==
    \/ /\ item.type = "object"
       /\ MembersNamed(item, "content") # {}
       /\ Get(item, "content").type # "array"
    \/ \E block \in Blocks(item) :
          /\ block.type = "object"
          /\ Get(block, "type").type = "string"
          /\ Get(block, "type").text \notin KnownBlocks

IsCompactionTrigger(item) ==
    /\ item.type = "object"
    /\ Get(item, "type").type = "string"
    /\ Get(item, "type").text = "compaction_trigger"

EmptyRequest(status) == [status |-> status, stream |-> <<>>, kind |-> "Turn"]

ParseRequest(document) ==
    LET object == document.json
        input == Get(object, "input")
        items == IF input.type = "array" THEN {input.items[i] : i \in 1..Len(input.items)} ELSE {}
        previous == Get(object, "previous_response_id")
        partial == \/ \E key \in {"model", "truncation"} : Drops(object, key)
                   \/ \E key \in {"stream", "background", "store"} : BadFlag(Get(object, key))
                   \/ NestedDrops(object, "reasoning", "effort")
                   \/ NestedDrops(object, "text", "verbosity")
                   \/ previous.type \notin {"null", "string"}
                   \/ BadList(input) \/ BadList(Get(object, "tools"))
                   \/ \E item \in items : BadBlocks(item)
    IN  IF DocumentError(document) # "none"
        THEN EmptyRequest(StatusForError(DocumentError(document)))
        ELSE IF object.type # "object" THEN EmptyRequest("Malformed")
        ELSE [status |-> IF partial THEN "Partial" ELSE "Complete",
              stream |-> Flag(Get(object, "stream")),
              kind |-> IF \E item \in items : IsCompactionTrigger(item)
                       THEN "Compaction" ELSE "Turn"]
=============================================================================
