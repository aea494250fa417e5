\* One scene of each shape.
CONSTANTS
    Scenes <- OneOfEachShape
    MovesIn <- Bound
SPECIFICATION FairSpec
INVARIANTS
    OwnWritesAreShown
    ShownIsSelected
    NothingHalfMade
    
PROPERTIES
    LoadsEnd
CHECK_DEADLOCK FALSE
