--------------------------- MODULE ContextEvidence ---------------------------
(***************************************************************************)
(* One request from its bytes to the evidence the CLI sends with           *)
(* FinalizeContextAnalysis: the analysis, the blocks the daemon accepted,  *)
(* the metrics over them, the delta from the previous snapshot and the     *)
(* reconciliation with the provider's usage.                               *)
(***************************************************************************)
EXTENDS ContextExtractor, ContextDelta

CONSTANTS
    Snapshots,  \* previous snapshots: records [blocks, status]
    Usages      \* what the provider told: records [tokens, comparable, correlated]

NoSnapshot == [blocks |-> <<>>, status |-> "none"]

ASSUME EvidenceAssumption ==
    /\ \A s \in Snapshots : Len(s.blocks) > 0
    /\ \A u \in Usages : Cardinality(u.tokens) <= 1

VARIABLE evidence  \* what is finalized, nothing before

vars == <<scanVars, extractVars, evidence>>

NoEvidence == [status |-> "none"]

------------------------------------------------------------------------------
(* context_metrics, over the accepted blocks. *)

Selected(accepted, Test(_)) == {i \in 1..accepted : Test(blocks[i])}

(* aggregate_total: nothing observed is no zero unless all was analysed. *)
AggregateTotal(chosen, complete) ==
    IF chosen = {} /\ ~complete THEN {}
    ELSE IF \E i \in chosen : blocks[i].estimate = {} THEN {}
    ELSE {FoldSet(LAMBDA i, sum : sum + CHOOSE t \in blocks[i].estimate : TRUE, 0, chosen)}

Share(part, visible) ==
    IF visible = {} \/ visible = {0} THEN {}
    ELSE {[part |-> p, whole |-> CHOOSE v \in visible : TRUE] : p \in part}

(* How many accepted blocks have the same bytes. *)
Copies(i, accepted) ==
    Cardinality({k \in 1..accepted : blocks[k].exact = blocks[i].exact})

(* A share nothing contributed to is zero only of a complete analysis. *)
GroupShare(chosen, visible, complete) ==
    IF chosen # {} THEN Share(AggregateTotal(chosen, TRUE), visible)
    ELSE IF complete THEN {[part |-> 0, whole |-> 1]} ELSE {}

KnownCount(count, complete) == IF count = 0 /\ ~complete THEN {} ELSE {count}

RawBytes(i) == blocks[i].end - blocks[i].start

ContextMetrics(accepted, status, prefixTokens) ==
    LET complete == status = "Complete"
        Total(chosen) == AggregateTotal(chosen, complete)
        OfKind(kind) == {i \in 1..accepted : blocks[i].kind = kind}
        visible == Total(1..accepted)
        tools == OfKind("ToolDefinition")
        schemas == {i \in tools : \E k \in tools \ {i} : blocks[k].exact = blocks[i].exact}
        human == {i \in 1..accepted : blocks[i].origin = "HumanAuthored"}
    IN  [visible |-> visible,
         byKind |-> [kind \in {blocks[i].kind : i \in 1..accepted} |-> Total(OfKind(kind))],
         toolShare |-> Share(Total(tools), visible),
         resultShare |-> Share(Total(OfKind("ToolResult")), visible),
         humanShare |-> Share(Total(human), visible),
         historyShare |-> Share(Total(OfKind("AssistantHistory")), visible),
         uniqueShare |-> GroupShare({i \in 1..accepted : Copies(i, accepted) = 1},
                                    visible, complete),
         repeatedShare |-> GroupShare({i \in 1..accepted : Copies(i, accepted) > 1},
                                      visible, complete),
         toolCount |-> KnownCount(Cardinality(tools), complete),
         schemaBytes |-> KnownCount(FoldSet(LAMBDA i, sum : sum + RawBytes(i), 0, tools),
                                    complete),
         repeatedSchemas |-> IF schemas # {} THEN AggregateTotal(schemas, TRUE)
                             ELSE IF complete THEN {0} ELSE {},
         stablePrefix |-> prefixTokens]

(* TokenReconciliation::reconcile. *)
Reconcile(visible, usage, status) ==
    LET comparable == /\ usage.comparable
                      /\ status \in {"Complete", "Partial", "ResourceLimit"}
    IN  CASE usage.tokens = {} -> "MissingProviderUsage"
          [] usage.tokens # {} /\ visible = {} -> "MissingLocalEstimate"
          [] usage.tokens # {} /\ visible # {} /\ ~comparable -> "NotComparable"
          [] OTHER -> IF LogicalStatus = "ExplicitOnly" THEN "ComparableApproximate"
                      ELSE "PartialVisibility"

(* context_block_summaries. *)
Summaries(accepted) ==
    [i \in 1..accepted |-> [exact |-> blocks[i].exact, semantic |-> blocks[i].semantic,
                            tokens |-> blocks[i].estimate]]

(* The unknown blocks of the accepted prefix, and the share of the others. *)
Unknown(accepted) == {i \in 1..accepted : blocks[i].kind = "Unknown"}
SemanticCoverage(accepted, status) ==
    IF status # "Complete" \/ accepted # Len(blocks) \/ accepted = 0 THEN {}
    ELSE {((accepted - Cardinality(Unknown(accepted))) * 10000) \div accepted}

Coverage(accepted) ==
    LET Eligible(b) == b.applicability = "Eligible"
        Estimated(b) == b.estimate # {}
        Detected(b) == b.detected
    IN  [eligible |-> Cardinality(Selected(accepted, Eligible)),
         estimated |-> Cardinality(Selected(accepted, Estimated)),
         detected |-> Cardinality(Selected(accepted, Detected))]

(* append_context_blocks may end before the last block: a full batch count, *)
(* a daemon out of capacity, a block that fits no message.  What was        *)
(* accepted is a prefix, and the status says so.                            *)
FinalStatus(accepted, usage) ==
    IF accepted < Len(blocks) THEN "ResourceLimit"
    ELSE IF usage.correlated THEN Status ELSE "CorrelationDegraded"

Evidence(accepted, previous, usage) ==
    LET status == FinalStatus(accepted, usage)
        delta == IF previous = NoSnapshot THEN [status |-> "none"]
                 ELSE Delta(previous.blocks, Summaries(accepted), previous.status, status,
                            limits.blocks)
        metrics == ContextMetrics(accepted, status,
                       IF previous = NoSnapshot THEN {} ELSE delta.prefixTokens)
    IN  [status |-> status, accepted |-> accepted, previous |-> previous,
         delta |-> delta, metrics |-> metrics,
         coverage |-> Coverage(accepted),
         unknown |-> Cardinality(Unknown(accepted)),
         semanticCoverage |-> SemanticCoverage(accepted, status),
         comparability |-> Reconcile(metrics.visible, usage, status)]

------------------------------------------------------------------------------

AnalysisInit == Init /\ ExtractInit /\ evidence = NoEvidence

Finalize ==
    /\ phase = "analysed"
    /\ \E accepted \in 0..Len(blocks), previous \in Snapshots \cup {NoSnapshot}, u \in Usages :
          evidence' = Evidence(accepted, previous, u)
    /\ phase' = "finalized"
    /\ UNCHANGED <<scanVars, queue, blocks, reason>>

Next ==
    \/ Scan /\ UNCHANGED <<extractVars, evidence>>
    \/ Extract /\ UNCHANGED evidence
    \/ Finalize

Spec == AnalysisInit /\ [][Next]_vars

==============================================================================
