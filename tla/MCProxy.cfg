SPECIFICATION Spec
CONSTANTS
    Forwards = 2
    Kind = {"plain", "zstd", "silent", "unread", "compact", "chat", "misrouted"}
    Responses = {"plain", "zstd", "silent", "unread", "misrouted"}
    Compact = {"compact"}
    Misrouted = {"misrouted"}
    Zstd = {"zstd", "silent"}
    Undeclared = {"silent"}
    Unread = {"unread"}
    Scenarios <- Encounters
    WireBytes <- Lengths
    Analysis = TRUE
    MaxItems = 2
    MaxBytes = 5
    Decoders = 1
    Panics = {"silent"}
INVARIANT AdmissionsAreReportedOnce
INVARIANT BarrierCoversItsForwards
PROPERTY BarrierIsPassed
