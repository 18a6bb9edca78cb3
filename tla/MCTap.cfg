SPECIFICATION Spec
CONSTANTS
    MaxJsonDepth = 4
    MaxJsonItems = 20
    MaxSemanticBytes = 24
    MaxUsageBytes = 8
    DurableMax = 8
    MaxEventBytes = 7
    MaxEvents = 2
    MaxNameBytes = 2
    Documents <- Payloads
    Exchanges <- SmallExchanges
    QueueCapacity = 2
INVARIANT FragmentsDoNotMatter
INVARIANT CompleteMeansWhole
INVARIANT FinalUsageIsConfirmed
PROPERTY TerminalEvidenceIsFinal
PROPERTY ObservationEnds
CHECK_DEADLOCK FALSE
