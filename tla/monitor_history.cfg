SPECIFICATION HistorySpec
CONSTANTS
    Reporters = {r1, r2, r3}
    Thresholds = {1, 3}
    Quorums = {0, 2}
    MaxSlot = 5
INVARIANTS StatusFollowsHistory SilenceIsTimed
CHECK_DEADLOCK FALSE
