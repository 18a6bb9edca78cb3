SPECIFICATION Spec
CONSTANTS
    Forwards = 3
    Chat = {0}
    Unread = {}
    Undecodable = {1}
    InFlight = 1
    DurableItems = 2
    RetiredIdentities = 1
    Slots = 2
    AnalysisEnabled = TRUE
    Replies = {"ok", "fallback"}
INVARIANT OneOperationPerForward
INVARIANT NoEvidenceIsLostSilently
INVARIANT NoPartialRecordLooksWhole
INVARIANT EveryAnalysisHasOneOutcome
