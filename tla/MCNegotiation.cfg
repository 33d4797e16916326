SPECIFICATION Spec
CONSTANTS
    Media <- TracksMedia
    Plans <- AllPlans
INVARIANTS EndsAgree TracksCarryMedia
PROPERTIES LinesKeepTheirPlace NegotiationEnds
CHECK_DEADLOCK FALSE
