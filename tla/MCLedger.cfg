SPECIFICATION LedgerSpec
CONSTANTS
    SessionId = {s1, s2}
    OperationId = {o1, o2}
    RequestId = {r1, r2}
    SnapshotId = {x1, x2}
    None = None
    MaxBlocks = 2
    MaxAttempts = 2
    MaxEvents = 1
SYMMETRY Identifiers
CONSTRAINT Small
INVARIANT OpenAnalysesAreActive
INVARIANT AnalysesEndOnce
INVARIANT AttemptsAreConsecutive
PROPERTY ClosedSessionsStayClosed
