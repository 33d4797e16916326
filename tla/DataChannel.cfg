SPECIFICATION Spec
CONSTANTS
    Creators = {1}
    MaxCreated = 2
    Unordered = {1}
    MaxUses = 2
PROPERTY UndisturbedChannelsWork
PROPERTY ClosingReachesBothEnds
CHECK_DEADLOCK FALSE
