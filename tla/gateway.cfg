SPECIFICATION Spec
CONSTANTS
    Instances = {i1, i2}
    Orgs = {o1, o2}
    NoOne = none
    Requests = {q1, q2, q3}
    Kinds = {"http", "grpc", "events"}
    MaxBodies = 1
    Window = 1
    CheckEvery = 2
    LockTime = 1
    Keep = 2
    MaxTime = 2
    MaxFaults = 1
SYMMETRY Symmetry
INVARIANTS BodiesAreCounted NoOtherUsageIsLost SentOnce
CHECK_DEADLOCK FALSE
