SPECIFICATION FairSpec
CONSTANTS
    Tabs = {t1}
    Attempts = 2
    StateTTL = 1
    HandoffTTL = 1
    ReplayTTL = 1
    SessionTTL = 1
    MaxStarts = 2
    MaxMoves = 2
    MaxFaults = 1
    MaxClock = 2
INVARIANT OneTokenPerHandoff
PROPERTIES OnlyLateIsRefused EveryVisitSettles
CHECK_DEADLOCK FALSE
