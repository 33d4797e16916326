SPECIFICATION Spec
CONSTANTS
    Flights = 2
    Room = 2
    MaxArrivals = 4
    MaxFires = 1
INVARIANT ReportsAreInOrder
PROPERTIES NothingStaysUnread StopEnds
CHECK_DEADLOCK FALSE
