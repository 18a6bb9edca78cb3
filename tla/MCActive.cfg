SPECIFICATION Spec
CONSTANTS
    Modes <- MCModes
    ToolResults <- MCToolResults
    MaxSpans = 2
    MaxRequests = 2
    FrameBytes = 20
    Spaced <- MCSpaced
    InputBound = 200
    OutputBound = 200
    MemoryBound = 500
    WorkBound = 500
    MaxCandidates = 8
    HeadLines = 2
    TailLines = 2
INVARIANT RewriteIsFaithful
PROPERTY CountersTellForwards
CHECK_DEADLOCK FALSE
