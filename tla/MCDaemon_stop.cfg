SPECIFICATION FairSpec
CONSTANTS
    SessionId = {s1}
    OperationId = {o1, o2}
    RequestId = {r1}
    SnapshotId = {x1}
    None = None
    Handler = {h1, h2}
    Commands = {"start", "observe", "begin", "append", "finish"}
    QueueItems = 1
    MaxAnalyses = 1
    MaxBlocks = 1
    MaxBatches = 1
    MaxCalls = 5
    MaxCrashes = 0
INVARIANT MemoryIsDurable
PROPERTY RequestsAreAnswered
PROPERTY StopCompletes
