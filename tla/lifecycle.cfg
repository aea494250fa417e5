SPECIFICATION Spec
CONSTANTS
    Threshold = 2
    Phases = {"investigating", "resolved"}
    MaxSeq = 3
    MaxEdits = 2
    MaxTouches = 1
    MaxFaults = 1
INVARIANTS OneOpenIncident IncidentsFollowStatus AgreeOnStatus
CHECK_DEADLOCK FALSE
