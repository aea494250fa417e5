SPECIFICATION Spec
CONSTANTS
    Rules = {r1}
    Channels = {c1}
    None = none
    Terms <- OneRule
    Ladder = 1
    FlapWindow = 0
    FlapEdges = 2
    MaxTime = 1
    MaxEvents = 3
INVARIANTS NothingIsForgotten MissedIsNamed
PROPERTIES NoDownAfterRecovered
CHECK_DEADLOCK FALSE
