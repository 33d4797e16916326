SPECIFICATION SessionSpec
CONSTANTS
    MaxFrames = 4
    MaxErrors = 2
    MaxLosses = 1
INVARIANTS TransitHoldsCredit EachFrameOnce
PROPERTY NewestIsShown
