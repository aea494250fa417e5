SPECIFICATION KeysSpec
CONSTANTS
    Secrets = {s1, s2}
    NoSecret = none
    Lookups = {q1, q2}
    MaxAge = 2
    MissFloor = 2
    MissGap = 1
    FailureRetry = 1
    MissMemory = 1
    Grace = 1
    MaxClock = 4
    MaxSnapshots = 2
    MaxEvents = 1
    MaxFailures = 1
SYMMETRY Symmetry
INVARIANTS AnswersAreRecent CopyIsAsFreshAsItSays
PROPERTIES CopyNeverStepsBack
CHECK_DEADLOCK FALSE
