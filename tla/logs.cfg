SPECIFICATION LogsSpec
CONSTANTS
    Pills = {2}
    Presets = {"1h", "1w"}
    Zooms = {w1}
    NoRange = none
    PageSize = 2
    TailMax = 2
    MaxLog = 3
    MaxPolls = 3
    MaxMoves = 3
INVARIANTS UrlIsTheRange TailIsOneStream
CHECK_DEADLOCK FALSE
