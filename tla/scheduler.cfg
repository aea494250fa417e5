SPECIFICATION FairSpec
CONSTANTS
    Monitors = {m1}
    Passes = {p1, p2}
    Intervals = {1, 2}
    Lease = 2
    MaxTime = 5
    MaxEdits = 3
    MaxFaults = 1
INVARIANTS NoDoubleDispatch SlotsAdvance ResumeIsKept
PROPERTIES OnlyResumeRewinds DueIsServed
CHECK_DEADLOCK FALSE
