SPECIFICATION Spec
CONSTANTS
    Setups <- MCSetups
    MaxAddresses = 1
    Room = 2
    MaxOutstandingPings = 1
INVARIANT MessagesInOrder
PROPERTY WebSocketEnds
CHECK_DEADLOCK FALSE
