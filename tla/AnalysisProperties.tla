------------------------ MODULE AnalysisProperties ------------------------
(***************************************************************************)
(* What the context analysis promises about a request.  request.values is  *)
(* what the sender wrote: every JSON value in document order with its      *)
(* span, depth, parent, occurrence, path, and decoded string.  Nothing in  *)
(* the code reads it.                                                      *)
(***************************************************************************)
EXTENDS ContextEvidence

Written == request.values
Finished == phase = "analysed"
Final == evidence.status # "none"

(* The index, the queue and the drafts keep their shapes and their bounds:  *)
(* the index never outgrows its two slots above max_blocks (push_node), the *)
(* drafts never max_blocks (extract_indexed), and the scan never leaves its *)
(* window (advance).                                                        *)
AnalysisTypeOK ==
    /\ cursor \in 0..WindowEnd
    /\ Len(nodes) <= limits.blocks + 2
    /\ Len(blocks) <= limits.blocks
    /\ \A i \in 1..Len(nodes) : nodes[i].start <= nodes[i].end /\ nodes[i].end <= cursor
    /\ \A f \in 1..Len(frames) : frames[f].node \in 1..Len(nodes)
    /\ Len(checkpoints) <= Len(frames) + 1
    /\ phase \in {"scan", "measure", "analysed", "finalized"}
    /\ reason \in LimitReasons \cup {"none", "Malformed", "InvalidKnownShape"}

(* However the scan ends (whole, cut by the window, out of budget or depth, *)
(* on a malformed byte), what it indexed is a prefix, in document order, of *)
(* the values the sender wrote: each with its exact start, kind, parent,    *)
(* occurrence and path, and a value called complete with its exact end      *)
(* (scan_string, scan_number, close_frame, rewind_path, finish).            *)
SpansAreExact ==
    mode = "done" /\ phase = "scan" =>
        /\ Len(nodes) <= Len(Written)
        /\ \A i \in 1..Len(nodes) :
              LET n == nodes[i]
                  w == Written[i]
              IN  /\ n.start = w.start /\ n.kind = w.kind /\ n.depth = w.depth
                  /\ n.parent = w.parent /\ n.occurrence = w.occurrence
                  /\ n.name = w.name /\ n.path = w.path
                  /\ IF n.complete THEN n.end = w.end ELSE n.end <= w.end

(* A status is never better than the work behind it: Complete means every   *)
(* value of the request was indexed to its end and nothing was doubled, a   *)
(* request its sender closed properly is never called Malformed, and every  *)
(* other status comes with its reason (extract_indexed, finish).            *)
StatusIsHonest ==
    Finished =>
        /\ Status = "Complete" <=> AnalysisReason = "none"
        /\ Status = "Complete" =>
              /\ Len(nodes) = Len(Written) /\ Skipped = 0
              /\ \A i \in 1..Len(nodes) : nodes[i].complete
              /\ \A i, k \in 1..Len(Written) :
                    i # k /\ Written[i].name # NoName /\ Written[i].parent = Written[k].parent
                        => Written[i].name # Written[k].name
        /\ ~request.damaged => Status # "Malformed"
        /\ Status = "ResourceLimit" => AnalysisReason \in LimitReasons

------------------------------------------------------------------------------
(* What the sender wrote, read without the index. *)

WrittenChildren(i) == {c \in 1..Len(Written) : Written[c].parent = i}
WrittenNamed(i, word) == {c \in WrittenChildren(i) : Written[c].name = <<word>>}
WrittenItems ==
    UNION {WrittenChildren(c) : c \in {n \in WrittenNamed(1, "input") : Written[n].kind = "array"}}
HasType(i, word) == \E c \in WrittenNamed(i, "type") : Written[c].units = <<word>>
WrittenMessages == {i \in WrittenItems : HasType(i, "message")}
WrittenParts ==
    UNION {WrittenChildren(c) :
             c \in {n \in 1..Len(Written) : /\ Written[n].kind = "array"
                                            /\ Written[n].name = <<"content">>
                                            /\ Written[n].parent \in WrittenMessages}}

BlockAt(i) == \E b \in 1..Len(blocks) :
                 blocks[b].start = Written[i].start /\ blocks[b].end = Written[i].end

(* A Complete analysis left nothing of the input out: every input item but  *)
(* a compaction trigger has a block with its exact span, every content part *)
(* has one for itself or for its text, and every block that could be        *)
(* measured was (collect_item, collect_content_part, measure_candidate).    *)
CompleteMeansDecomposed ==
    Finished /\ Status = "Complete" =>
        /\ \A i \in WrittenItems :
              \/ HasType(i, "trigger")
              \/ BlockAt(i)
              \/ HasType(i, "text") /\ \E t \in WrittenNamed(i, "text") : BlockAt(t)
        /\ \A p \in WrittenParts : BlockAt(p) \/ \E t \in WrittenNamed(p, "text") : BlockAt(t)
        /\ \A b \in 1..Len(blocks) :
              blocks[b].applicability = "Eligible" => blocks[b].detected /\ blocks[b].features

(* An analysis that claims to have seen the whole logical context hides no  *)
(* reference: no item, no content part and no member of the root the sender *)
(* wrote names stored, external or opaque content (derive_visibility).  An  *)
(* empty list of item references names nothing.                             *)
EmptyList(c) == Written[c].kind = "array" /\ WrittenChildren(c) = {}
ExplicitOnlyHidesNothing ==
    Finished /\ LogicalStatus = "ExplicitOnly" =>
        /\ \A i \in WrittenItems \cup WrittenParts :
              \A w \in {"item_reference", "prompt", "reasoning"} : ~HasType(i, w)
        /\ \A p \in WrittenParts : ~HasType(p, "image") /\ ~HasType(p, "file")
        /\ \A w \in DOMAIN RootRules \ {"instructions"} :
              \A c \in WrittenNamed(1, w) : w = "item_reference" /\ EmptyList(c)

(* Blocks are in document order, and a parent ordinal always names an       *)
(* earlier message block whose span covers the child's (ordinal_by_source). *)
ParentsComeFirst ==
    Finished => \A b \in 1..Len(blocks) :
        /\ blocks[b].ordinal = b - 1
        /\ b > 1 => blocks[b - 1].start < blocks[b].start
        /\ \A o \in blocks[b].parent :
              LET parent == blocks[o + 1]
              IN  /\ o < b - 1
                  /\ parent.kind \in {"Message", "AssistantHistory"}
                  /\ parent.start <= blocks[b].start /\ blocks[b].end <= parent.end

(* The delta puts every compared block of both snapshots in exactly one     *)
(* class, and a leading run of equal blocks is no longer than the repeated  *)
(* ones (compute_bounded_delta, unmatched_previous_semantics).              *)
DeltaAddsUp ==
    Final /\ evidence.delta.status # "none" =>
        LET d == evidence.delta
        IN  /\ d.repeated + d.changed + d.new = d.comparedCurrent
            /\ d.repeated + d.changed + d.removed = d.comparedPrevious
            /\ d.removed >= 0
            /\ \A n \in d.prefixBlocks : n <= d.repeated
            /\ \A t \in d.prefixTokens, r \in d.repeatedTokens : t <= r

(* A total is shown only of blocks that were all estimated, and the shares  *)
(* of unique and repeated content then make up the whole (context_metrics,  *)
(* TokenEstimateAggregate::complete_total).                                 *)
MetricsAddUp ==
    Final =>
        LET m == evidence.metrics
        IN  /\ m.visible # {} => \A i \in 1..evidence.accepted : blocks[i].estimate # {}
            /\ \A u \in m.uniqueShare, r \in m.repeatedShare, v \in m.visible :
                  v > 0 => u.part + r.part = v
            /\ \A s \in m.toolShare \cup m.resultShare \cup m.humanShare \cup m.historyShare :
                  s.part <= s.whole
            /\ evidence.coverage.estimated <= evidence.coverage.eligible
            /\ evidence.coverage.eligible > evidence.coverage.detected
                  => evidence.status # "Complete"

------------------------------------------------------------------------------
(* Promises of the design documents and comments that the code breaks. *)

(* phase-3-shadow-context-analysis.md: ComparableApproximate requires "a    *)
(* complete or partial-but-block-complete analysis".  reconcile looks at    *)
(* the visibility of the analysis, not at the blocks the daemon accepted.   *)
ComparableIsBlockComplete ==
    Final /\ evidence.comparability = "ComparableApproximate" =>
        evidence.accepted = Len(blocks)

(* delta.rs: the common prefix is "absent if a bound cut the run".  A run   *)
(* that reaches the end of a snapshot a bound cut may have been longer.     *)
CutPrefixIsAbsent ==
    Final /\ evidence.delta.status # "none" =>
        \A n \in evidence.delta.prefixBlocks :
            ~(/\ n = evidence.delta.comparedPrevious
              /\ evidence.previous.status = "ResourceLimit")

(* phase-3-shadow-context-analysis.md: "A known member with an impossible   *)
(* shape degrades the snapshot to `Partial`".  A text part whose text is no *)
(* string is extracted as text all the same.                                *)
ImpossibleShapesDegrade ==
    Finished /\ Status = "Complete" =>
        \A p \in WrittenParts : \A t \in WrittenNamed(p, "text") : Written[t].kind = "string"

==============================================================================
