CONSTANTS
    MaxEvents = 4
SPECIFICATION Spec
INVARIANTS NothingOutlivesTheConnection
PROPERTIES ClosedIsTheLastReport EndIsNoticed
CHECK_DEADLOCK FALSE
