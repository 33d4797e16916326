SPECIFICATION ScenarioSpec
CONSTANTS
    Sessions = {1, 2}
    Commands <- AllCommands
    Keepalives <- AllKeepalives
    MoveMs = 2
    TimeoutMs = 3
    LeaseMs = 2
    FaultMs = 2
    HorizonMs = 3
    RetireMs = 3
    SlowFactor = 2
    CacheSize = 1
    MaxGap = 2
    MaxTime = 6
    MaxBoot = 2
INVARIANTS Inv EachCommandMovesOnce MotionNeedsLease
PROPERTIES NoMotionOutOfAlarm ResultsAreFinal NoReturnWithinValidity ImplementsDevice
