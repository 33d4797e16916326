CONSTANTS
    Codes = {"CAPTURE_STALE", "HOST_HOT"}
    Following = 3
    EventLimit = 2
    MaxEvents = 3
    MaxFaults = 1
    MaxRuns = 2
SPECIFICATION Spec
INVARIANTS AlarmsAreDebounced ContextsAreTrue
PROPERTIES ContextsAreSettled
CHECK_DEADLOCK FALSE
