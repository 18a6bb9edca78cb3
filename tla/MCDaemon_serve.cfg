SPECIFICATION ServingSpec
CONSTANTS
    SessionId = {s1, s2}
    OperationId = {o1, o2, o3}
    RequestId = {r1, r2}
    SnapshotId = {x1, x2}
    None = None
    Handler = {h1, h2}
    Commands = {"start", "observe", "persist", "event", "begin", "append", "abort", "finalize", "finish"}
    QueueItems = 1
    MaxAnalyses = 1
    MaxBlocks = 2
    MaxBatches = 2
    MaxCalls = 6
    MaxCrashes = 1
SYMMETRY Identifiers
INVARIANT MemoryMirrorsStore
INVARIANT ActiveSessionsAreServed
PROPERTY ImplementsLedger
