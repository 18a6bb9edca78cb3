SPECIFICATION Spec
CONSTANTS
    Clients = {p1, p2}
    blob = blob
    Contents = {blob}
    Encodings = {"raw", "zstd"}
    Inlines <- InlinesMC
    MaxPins = 2
    MaxRestarts = 2
    CancelCollect = FALSE
    Nobody = Nobody
SYMMETRY ClientSymmetry
INVARIANT NoDanglingReference
INVARIANT ReferencesAreDurable
INVARIANT GetFindsWhatWasStored
PROPERTY ReferencesAreImmutable
