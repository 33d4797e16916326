SPECIFICATION LinkSpec
CONSTANTS
    Commands <- Blocks
    MaxBoot = 2
    MaxSession = 2
    MaxSequence = 3
    Late = TRUE
INVARIANTS OwnedResultsAreTrue MotionEndsAreTrue
PROPERTY MotionsAndSettingsSettle
CHECK_DEADLOCK FALSE
