CONSTANTS
    Starts = {s1, s2}
    Old = old
    None = none
    Latest = 1
    MaxPolls = 1
    MaxAlive = 2
    MaxKills = 0
SPECIFICATION Spec
CHECK_DEADLOCK FALSE
INVARIANT ArtifactsAreRemoved
