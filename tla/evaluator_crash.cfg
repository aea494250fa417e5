SPECIFICATION FairSpec
CONSTANTS
    Regions = {r1, r2}
    NoRegion = none
    Threshold = 1
    MinFailing = 2
    Late = 1
    Outcomes = {"ok", "fail"}
    Interleaved = FALSE
    CutPoints = {"save", "publish", "close", "timer"}
    MaxTick = 1
    MaxTime = 4
    MaxCuts = 1
    MaxFaults = 1
    MaxParked = 1
    MaxEdits = 1
INVARIANTS SavedIsStored IdsNameOneTransition
PROPERTIES NodataIsEarned StoredIsPublished OpenTicksClose PausedIsForgotten
CHECK_DEADLOCK FALSE
