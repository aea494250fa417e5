SPECIFICATION Spec
CONSTANTS
    Regions = {r1, r2}
    NoRegion = none
    Threshold = 2
    MinFailing = 2
    Late = 1
    Outcomes = {"ok", "fail", "missing"}
    Interleaved = TRUE
    CutPoints = {"close"}
    MaxTick = 2
    MaxTime = 2
    MaxCuts = 1
    MaxFaults = 0
    MaxParked = 0
    MaxEdits = 0
SYMMETRY RegionSymmetry
INVARIANTS CountedOnce DownIsEarned
CHECK_DEADLOCK FALSE
