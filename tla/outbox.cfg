SPECIFICATION FairSpec
CONSTANTS
    Kinds = {1, 2}
    Publishers = {p1, p2}
    Readers = {r1}
    BatchSize = 2
    Clocks = {1}
    MaxAttempts = 2
    MaxChanges = 2
    MaxExtras = 1
INVARIANTS PublishedIsStored LocksDoNotCycle
PROPERTIES ImplementsMonotoneConfig
CHECK_DEADLOCK FALSE
