SPECIFICATION Spec
CONSTANTS
    Requests <- MCRequests
    Limits <- MCLimits
    Snapshots <- MCSnapshots
    Usages <- MCUsages
INVARIANT SpansAreExact
INVARIANT StatusIsHonest
INVARIANT CompleteMeansDecomposed
INVARIANT ExplicitOnlyHidesNothing
INVARIANT DeltaAddsUp
CHECK_DEADLOCK FALSE
