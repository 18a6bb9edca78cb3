SPECIFICATION Spec
CONSTANTS
    Jobs <- MCJobs
    MaxJobs = 2
    MaxSlow = 1
    JsonKeepFull = 12
    TextKeepFull = 24
    BatchRecords = 8
    Spaced <- MCSpaced
    InputBound = 300
    OutputBound = 300
    MemoryBound = 600
    WorkBound = 1300
    MaxCandidates = 10
    HeadLines = 2
    TailLines = 2
INVARIANT EveryCandidateIsAccounted
INVARIANT CandidatesTellTheirInput
CHECK_DEADLOCK FALSE
