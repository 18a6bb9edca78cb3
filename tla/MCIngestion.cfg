SPECIFICATION Spec
CONSTANTS
    Analysis = {0, 2}
    Blocks <- ThreeBlocks
    Oversized <- LastOversized
    QueueItems = 1
    EvidenceItems = 1
    TerminalIdentities = 2
    BatchBlocks = 2
    MaxBatches = 2
    ShadowItems = 1
    ShadowBytes = 2
    BodyBytes <- GrowingBytes
    Faults = {"lost", "refused"}
INVARIANT TotalsTellFates
INVARIANT CountedOutcomesAreDurable
INVARIANT DropsAreReportedOnce
PROPERTY EveryAnalysisEndsOnce
PROPERTY RunEnds
