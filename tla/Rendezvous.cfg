SPECIFICATION Spec
CONSTANTS
    MaxPages = 2
    MaxGateways = 5
    MaxFaults = 1
INVARIANT OnePagePerSession
PROPERTIES ConsumedOfferIsNotReplayed PageIsServed
CHECK_DEADLOCK FALSE
