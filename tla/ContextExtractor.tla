-------------------------- MODULE ContextExtractor --------------------------
(***************************************************************************)
(* The Responses extractor of tracepress-context: from the finished index  *)
(* to ordered context blocks, each hashed and measured under one budget.   *)
(* One action is one round of extract_indexed's loop.                      *)
(*                                                                         *)
(* Types and names the code treats alike have one representative: "text"   *)
(* for every text part, "call" for every tool call, "output" for every     *)
(* tool result.  A decoded string is a sequence of letters, and one letter *)
(* weighs one token.                                                       *)
(***************************************************************************)
EXTENDS SpanIndex

VARIABLES
    phase,   \* "scan", "measure", "analysed"; a later module adds "finalized"
    queue,   \* candidates still to look at
    blocks,  \* the drafts emitted so far
    reason   \* state.reason

extractVars == <<phase, queue, blocks, reason>>

------------------------------------------------------------------------------
(* Reading the index. *)

Undecodable == <<"undecodable">>
TooLong == <<"long">>

(* decode_json_string: an incomplete string has no closing quote. *)
Decoded(i) ==
    IF i = 0 \/ (i # 0 => nodes[i].kind # "string" \/ ~nodes[i].complete) THEN Undecodable
    ELSE LET units == Units(nodes[i].start, nodes[i].end)
         IN  IF \E k \in 1..Len(units) : units[k] = "half" /\ k <= limits.text + 1
             THEN Undecodable
             ELSE IF Len(units) > limits.text THEN TooLong ELSE units

Named(i, word) ==
    IF i = 0 THEN {} ELSE {c \in ChildrenOf(i) : nodes[c].name = <<word>>}

(* first_named, over alternative names in order. *)
First(i, words) ==
    LET found == {k \in 1..Len(words) : Named(i, words[k]) # {}}
    IN  IF found = {} THEN 0 ELSE Min(Named(i, words[Min(found)]))

(* A string read for its meaning: nothing unless it decodes. *)
WordOf(i) ==
    LET units == Decoded(i)
    IN  IF units \in {Undecodable, TooLong} THEN "none"
        ELSE IF Len(units) = 1 THEN units[1] ELSE "other"

TypeOf(i) == WordOf(First(i, <<"type">>))

RoleNames == [system |-> "System", user |-> "User", assistant |-> "Assistant",
              tool |-> "Tool"]
RoleOf(i) ==
    LET word == WordOf(First(i, <<"role">>))
    IN  IF word \in DOMAIN RoleNames THEN RoleNames[word]
        ELSE IF word = "none" THEN "none" ELSE "Unknown"

Or(role, fallback) == IF role = "none" THEN fallback ELSE role

Or0(i, fallback) == IF i = 0 THEN fallback ELSE i

OriginFor(role) ==
    CASE role \in {"System", "User"} -> "HumanAuthored"
      [] role = "Assistant" -> "AgentGenerated"
      [] role = "Tool" -> "ToolGenerated"
      [] OTHER -> "Unknown"

------------------------------------------------------------------------------
(* Candidates. *)

Candidate(source, payload, parent, kind, role, origin) ==
    [source |-> source, payload |-> payload, parent |-> parent, kind |-> kind,
     role |-> role, origin |-> origin, owner |-> source, call |-> 0, tool |-> 0]

Simple(i, kind, role, origin) == Candidate(i, i, 0, kind, role, origin)

Rule(kind, origin, signal) == [kind |-> kind, origin |-> origin, signal |-> signal]

(* What a reference is, wherever it stands. *)
ReferenceRules ==
    [item_reference |-> Rule("ItemReference", "ProviderManaged", "item"),
     prompt |-> Rule("PromptReference", "ProviderManaged", "prompt"),
     reasoning |-> Rule("OpaqueReasoning", "ProviderManaged", "opaque")]

PartRules ==
    [item_reference |-> ReferenceRules.item_reference, prompt |-> ReferenceRules.prompt,
     reasoning |-> ReferenceRules.reasoning,
     image |-> Rule("ImageReference", "ExternalReference", "image"),
     file |-> Rule("FileReference", "ExternalReference", "file")]

(* collect_root: "shapes" are the kinds accepted, "always" adds a candidate *)
(* of any kind.                                                             *)
RootRule(rule, role, shapes, always) ==
    [kind |-> rule.kind, origin |-> rule.origin, signal |-> rule.signal,
     role |-> role, shapes |-> shapes, always |-> always]

RootRules ==
    [instructions |-> RootRule(Rule("Instructions", "HumanAuthored", "none"), "System",
                               {"string"}, FALSE),
     previous_response_id |-> RootRule(Rule("ProviderStateReference", "ProviderManaged",
                                            "previous"), "none", {"string"}, FALSE),
     conversation |-> RootRule(Rule("ProviderStateReference", "ProviderManaged",
                                    "conversation"), "none",
                               {"string", "object", "array"}, FALSE),
     prompt |-> RootRule(ReferenceRules.prompt, "none", {"string", "object"}, TRUE),
     item_reference |-> RootRule(ReferenceRules.item_reference, "none",
                                 {"string", "object"}, TRUE),
     file_id |-> RootRule(PartRules.file, "none", {"string"}, TRUE),
     image_url |-> RootRule(PartRules.image, "none", {"string"}, TRUE)]

HasObjectRoot == nodes # <<>> /\ (nodes # <<>> => nodes[1].kind = "object")
RootNamed(word) == IF HasObjectRoot THEN Named(1, word) ELSE {}

(* collect_reference_value looks into an array; the other members do not. *)
RootTargets(word) ==
    UNION {IF word = "item_reference" /\ nodes[c].kind = "array" THEN ChildrenOf(c) ELSE {c} :
             c \in RootNamed(word)}

RootCandidates ==
    UNION {{Simple(t, RootRules[w].kind, RootRules[w].role, RootRules[w].origin) :
              t \in {n \in RootTargets(w) : \/ RootRules[w].always
                                            \/ nodes[n].kind \in RootRules[w].shapes}} :
             w \in DOMAIN RootRules}

Elements(word) ==
    UNION {ChildrenOf(c) : c \in {n \in RootNamed(word) : nodes[n].kind = "array"}}

Items == Elements("input")
Tools == Elements("tools")

IsMessage(i) ==
    /\ nodes[i].kind = "object"
    /\ \/ TypeOf(i) \in {"message", "history"}
       \/ TypeOf(i) = "none" /\ First(i, <<"role", "content">>) # 0

MessageRole(i) == IF TypeOf(i) = "history" THEN Or(RoleOf(i), "Assistant") ELSE RoleOf(i)
MessageOrigin(i) ==
    IF TypeOf(i) = "history" THEN "AgentGenerated" ELSE OriginFor(RoleOf(i))

ToolCandidate(i, payloads, kind, origin) ==
    [Candidate(i, Or0(First(i, payloads), i), 0, kind, "Tool", origin)
        EXCEPT !.call = First(i, <<"call_id", "id">>), !.tool = First(i, <<"name">>)]

(* collect_text_part. *)
TextPart(i, parent, role, origin) ==
    LET body == First(i, <<"text">>)
    IN  IF body = 0 THEN Candidate(i, i, parent, "Unknown", role, "Unknown")
        ELSE [Candidate(body, body, parent, "Text", role, origin) EXCEPT !.owner = i]

ItemCandidate(i) ==
    LET type == TypeOf(i)
        role == RoleOf(i)
    IN  CASE nodes[i].kind # "object" -> Simple(i, "Unknown", "none", "Unknown")
          [] IsMessage(i) ->
                Simple(i, IF type = "history" THEN "AssistantHistory" ELSE "Message",
                       MessageRole(i), MessageOrigin(i))
          [] type = "call" ->
                ToolCandidate(i, <<"arguments", "input">>, "ToolCall", "AgentGenerated")
          [] type = "output" ->
                ToolCandidate(i, <<"output", "content">>, "ToolResult", "ToolGenerated")
          [] nodes[i].kind = "object" /\ type \in DOMAIN ReferenceRules ->
                Simple(i, ReferenceRules[type].kind,
                       IF type = "reasoning" THEN Or(role, "Assistant") ELSE role,
                       ReferenceRules[type].origin)
          [] type = "text" -> TextPart(i, 0, Or(role, "User"), OriginFor(role))
          [] OTHER -> Simple(i, "Unknown", role, "Unknown")

(* A compaction trigger is noted and gives no block. *)
Triggers == {i \in Items : nodes[i].kind = "object" /\ TypeOf(i) = "trigger"}

Contents(m) == Named(m, "content")
Parts(m) ==
    UNION {IF nodes[c].kind = "array" THEN ChildrenOf(c) ELSE {c} :
             c \in {n \in Contents(m) : nodes[n].kind \in Containers}}

(* collect_content_part: a part with no type and a text is text. *)
PartCandidate(p, m) ==
    LET type == TypeOf(p)
    IN  CASE nodes[p].kind # "object" ->
                Candidate(p, p, m, "Unknown", MessageRole(m), "Unknown")
          [] nodes[p].kind = "object" /\ type \in {"text", "none"}
                /\ First(p, <<"text">>) # 0 ->
                TextPart(p, m, MessageRole(m), MessageOrigin(m))
          [] nodes[p].kind = "object" /\ type \in DOMAIN PartRules ->
                Candidate(p, p, m, PartRules[type].kind, MessageRole(m),
                          PartRules[type].origin)
          [] OTHER -> Candidate(p, p, m, "Unknown", MessageRole(m), "Unknown")

(* Seeded fault: parts of an unknown type are skipped. *)
KnownContentCandidates(m) ==
    {[Candidate(c, c, m, "Text", MessageRole(m), MessageOrigin(m)) EXCEPT !.owner = m] :
        c \in {n \in Contents(m) : nodes[n].kind = "string"}}
    \cup {c \in {PartCandidate(p, m) : p \in Parts(m)} : c.kind # "Unknown"}

ContentCandidates(m) ==
    {[Candidate(c, c, m, "Text", MessageRole(m), MessageOrigin(m)) EXCEPT !.owner = m] :
        c \in {n \in Contents(m) : nodes[n].kind = "string"}}
    \cup {PartCandidate(p, m) : p \in Parts(m)}

Messages == {i \in Items : IsMessage(i)}

InputCandidates ==
    {Simple(c, "Text", "User", "HumanAuthored") :
        c \in {n \in RootNamed("input") : nodes[n].kind = "string"}}
    \cup {ItemCandidate(i) : i \in Items \ Triggers}
    \cup UNION {ContentCandidates(m) : m \in Messages}

(* collect_tool_definition: the name may sit in the function object. *)
ToolDefinition(t) ==
    IF nodes[t].kind # "object" THEN Simple(t, "Unknown", "none", "Unknown")
    ELSE [Simple(t, "ToolDefinition", "none", "ToolSchema") EXCEPT !.tool =
            Or0(First(t, <<"name">>),
                Or0(First(First(t, <<"function">>), <<"name">>),
                    First(t, <<"server_label">>)))]

Collected ==
    IF HasObjectRoot
    THEN RootCandidates \cup InputCandidates \cup {ToolDefinition(t) : t \in Tools}
    ELSE {}

(* A tool result without a name takes that of the last call with its id. *)
NamedByCall(c) ==
    LET calls == {k \in Collected : /\ k.kind = "ToolCall" /\ k.tool # 0
                                    /\ Decoded(k.call) \notin {Undecodable, TooLong}
                                    /\ Decoded(k.call) = Decoded(c.call)}
        last == {k \in calls : \A other \in calls : other.source <= k.source}
    IN  IF c.kind = "ToolResult" /\ c.tool = 0 /\ last # {}
        THEN [c EXCEPT !.tool = (CHOOSE k \in last : TRUE).tool]
        ELSE c

Candidates == {NamedByCall(c) : c \in Collected}

(* A known member with a shape collect_* marks as partial. *)
InvalidShape ==
    \/ ~HasObjectRoot /\ nodes # <<>>
    \/ \E w \in DOMAIN RootRules : \E t \in RootTargets(w) :
          nodes[t].kind \notin RootRules[w].shapes
    \/ \E c \in RootNamed("input") : nodes[c].kind \notin {"string", "array"}
    \/ \E c \in RootNamed("tools") : nodes[c].kind # "array"
    \/ \E t \in Tools : nodes[t].kind # "object"
    \/ \E m \in Messages : \E c \in Contents(m) :
          nodes[c].kind \notin {"string"} \cup Containers
    \/ \E i \in Items \ Messages : /\ nodes[i].kind = "object"
                                   /\ TypeOf(i) = "text" /\ First(i, <<"text">>) = 0

(* Seeded fault: references inside messages are not counted. *)
ReferencesOfItems(signal) ==
    (UNION {IF RootRules[w].signal = signal THEN RootTargets(w) ELSE {} :
              w \in DOMAIN RootRules})
    \cup {i \in Items \ Messages :
            /\ nodes[i].kind = "object" /\ TypeOf(i) \in DOMAIN ReferenceRules
            /\ ReferenceRules[TypeOf(i)].signal = signal}

(* The references behind each visibility signal, every one counted. *)
References(signal) ==
    (UNION {IF RootRules[w].signal = signal THEN RootTargets(w) ELSE {} :
              w \in DOMAIN RootRules})
    \cup {i \in Items \ Messages :
            /\ nodes[i].kind = "object" /\ TypeOf(i) \in DOMAIN ReferenceRules
            /\ ReferenceRules[TypeOf(i)].signal = signal}
    \cup {p \in UNION {Parts(m) : m \in Messages} :
            /\ nodes[p].kind = "object" /\ TypeOf(p) \in DOMAIN PartRules
            /\ PartRules[TypeOf(p)].signal = signal}

------------------------------------------------------------------------------
(* Measuring one candidate. *)

InspectableKinds == {"Instructions", "Text", "ToolCall", "ToolResult", "ToolDefinition"}

IsString(c) == nodes[c.payload].kind = "string"

(* Quotes and escapes included: such a string is not decoded to judge it. *)
Oversize(c) == IsString(c) /\ nodes[c.payload].end - nodes[c.payload].start > limits.text

(* candidate_measurement_applicability: a string longer than the bound is   *)
(* eligible until it is measured.                                           *)
Applicability(c) ==
    IF c.kind \notin InspectableKinds THEN "Ineligible"
    ELSE IF IsString(c) /\ ~Oversize(c) /\ Decoded(c.payload) = Undecodable
         THEN "Unavailable"
         ELSE "Eligible"

CallNode(c) == Or0(c.call, First(c.owner, <<"call_id">>))
ToolNode(c) == Or0(c.tool, First(c.owner, <<"name">>))

Readable(c) == IsString(c) => Decoded(c.payload) \notin {Undecodable, TooLong}

(* Every charge the budget is asked for while the candidate is processed.   *)
Charges(c) ==
    LET When(condition, charge) == IF condition THEN <<charge>> ELSE <<>>
        eligible == Applicability(c) = "Eligible"
        content == eligible /\ Readable(c)
    IN  When(CallNode(c) # 0, "call") \o When(ToolNode(c) # 0, "tool") \o <<"poll">>
        \o When(eligible /\ IsString(c), "decode")
        \o When(content, "detect") \o When(content, "estimate") \o When(content, "features")
        \o When(content /\ IsString(c) /\ c.kind \in {"Text", "ToolResult"}, "semantic")
        \o <<"after">>

Content(c) == IF IsString(c) THEN Decoded(c.payload)
              ELSE Letters(nodes[c.payload].start, nodes[c.payload].end)

(* StructuralHeuristicEstimator: nothing for content that is not text. *)
Estimate(c) == IF \E k \in 1..Len(Content(c)) : Content(c)[k] = "nul" THEN {}
               ELSE {Len(Content(c))}

Metadata(i) == IF Decoded(i) \in {Undecodable, TooLong} THEN {} ELSE {Decoded(i)}

(* The draft when the budget refuses the charges from the given one on. *)
Draft(c, refused) ==
    LET Granted(charge) == \E k \in 1..(refused - 1) : Charges(c)[k] = charge
        parents == {k \in 1..Len(blocks) : c.parent # 0 /\ blocks[k].source = c.parent}
    IN  [ordinal |-> Len(blocks),
         parent |-> {blocks[k].ordinal : k \in parents},
         source |-> c.source, kind |-> c.kind, role |-> c.role, origin |-> c.origin,
         start |-> nodes[c.source].start, end |-> nodes[c.source].end,
         exact |-> Letters(nodes[c.source].start, nodes[c.source].end),
         semantic |-> IF Granted("semantic") /\ ~nodes[c.source].duplicate
                      THEN {[kind |-> c.kind, role |-> Or(c.role, "Unknown"),
                             content |-> Content(c)]}
                      ELSE {},
         applicability |-> IF Granted("decode") /\ Decoded(c.payload) = Undecodable
                           THEN "Unavailable" ELSE Applicability(c),
         detected |-> Granted("detect"),
         estimate |-> IF Granted("estimate") THEN Estimate(c) ELSE {},
         features |-> Granted("features"),
         call |-> IF Granted("call") THEN Metadata(CallNode(c)) ELSE {},
         tool |-> IF Granted("tool") THEN Metadata(ToolNode(c)) ELSE {}]

(* A string above the inspection bound, told when its charge was granted. *)
BoundMet(c, refused) ==
    \E k \in 1..(refused - 1) :
        \/ Charges(c)[k] = "call" /\ Decoded(CallNode(c)) = TooLong
        \/ Charges(c)[k] = "tool" /\ Decoded(ToolNode(c)) = TooLong
        \/ Charges(c)[k] = "decode" /\ Decoded(c.payload) = TooLong

------------------------------------------------------------------------------
(* extract_indexed. *)

LimitReasons == {"Blocks", "Budget", "StringBytesInspected", "JsonDepth", "AnalyzedBytes"}

(* mark_resource_limit: a limit replaces any other reason, never a limit. *)
Limited(old, limit) == IF old \in LimitReasons THEN old ELSE limit

ExtractInit ==
    /\ phase = "scan"
    /\ queue = {}
    /\ blocks = <<>>
    /\ reason = "none"

Collect ==
    /\ phase = "scan" /\ mode = "done"
    /\ queue' = Candidates
    /\ reason' = CASE nodes = <<>> /\ IndexStatus # "ResourceLimit" -> "Malformed"
                   [] nodes # <<>> /\ InvalidShape -> "InvalidKnownShape"
                   [] OTHER -> "none"
    /\ phase' = "measure"
    /\ UNCHANGED blocks

(* The next one in document order, which is the order of the nodes. *)
Earliest == CHOOSE c \in queue : \A other \in queue : c.source <= other.source

BlocksFull ==
    /\ phase = "measure" /\ queue # {}
    /\ Len(blocks) >= limits.blocks
    /\ reason' = Limited(reason, "Blocks")
    /\ phase' = "analysed"
    /\ UNCHANGED <<queue, blocks>>

(* The poll before a candidate, or the charge of its fingerprint. *)
BudgetGone ==
    /\ phase = "measure" /\ queue # {}
    /\ Len(blocks) < limits.blocks
    /\ reason' = Limited(reason, "Budget")
    /\ phase' = "analysed"
    /\ UNCHANGED <<queue, blocks>>

SkipCut ==
    /\ phase = "measure" /\ queue # {}
    /\ Len(blocks) < limits.blocks
    /\ ~nodes[Earliest.source].complete
    /\ queue' = queue \ {Earliest}
    /\ UNCHANGED <<phase, blocks, reason>>

EmitBlock ==
    /\ phase = "measure" /\ queue # {}
    /\ Len(blocks) < limits.blocks
    /\ nodes[Earliest.source].complete
    /\ \E refused \in 1..(Len(Charges(Earliest)) + 1) :
          LET exhausted == refused <= Len(Charges(Earliest))
              told == IF BoundMet(Earliest, refused) THEN Limited(reason, "StringBytesInspected")
                      ELSE reason
          IN  /\ blocks' = Append(blocks, Draft(Earliest, refused))
              /\ reason' = IF exhausted THEN Limited(told, "Budget") ELSE told
              /\ phase' = IF exhausted THEN "analysed" ELSE "measure"
    /\ queue' = queue \ {Earliest}

Extracted ==
    /\ phase = "measure" /\ queue = {}
    /\ phase' = "analysed"
    /\ UNCHANGED <<queue, blocks, reason>>

Extract == /\ Collect \/ BlocksFull \/ BudgetGone \/ SkipCut \/ EmitBlock \/ Extracted
           /\ UNCHANGED scanVars

------------------------------------------------------------------------------
(* The result. *)

Status ==
    CASE IndexStatus = "Malformed" -> "Malformed"
      [] IndexStatus # "Malformed" /\ reason \in LimitReasons -> "ResourceLimit"
      [] IndexStatus = "Complete" /\ reason \notin LimitReasons \cup {"none"} -> "Partial"
      [] OTHER -> IndexStatus

AnalysisReason ==
    CASE Status = "Malformed" -> "Malformed"
      [] Status # "Malformed" /\ LimitReached # "none" -> LimitReached
      [] Status # "Malformed" /\ LimitReached = "none" /\ DuplicateKey /\ reason = "none" ->
            "DuplicateKey"
      [] OTHER -> reason

ExplicitComplete == Status = "Complete" /\ Skipped = 0 /\ ~DuplicateKey

(* ContextVisibility::logical_context_status. *)
ProviderManaged ==
    \E s \in {"previous", "conversation", "item", "prompt", "opaque"} : References(s) # {}
External == \E s \in {"file", "image"} : References(s) # {}

LogicalStatus ==
    CASE ProviderManaged /\ External -> "MixedPartial"
      [] ProviderManaged /\ ~External -> "ProviderManagedPartial"
      [] ~ProviderManaged /\ External -> "ExternalReferencesPartial"
      [] OTHER -> IF ExplicitComplete THEN "ExplicitOnly" ELSE "Unknown"

==============================================================================
