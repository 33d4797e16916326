SPECIFICATION Spec
CONSTANTS
    Buffers = 2
    MaxPictures = 3
    MaxFrames = 3
    MaxBoots = 2
INVARIANT FramesAreWhole
PROPERTY FramesMoveForward
CHECK_DEADLOCK FALSE
