CONSTANTS
    MaxFrames = 3
    MaxBoots = 2
    MaxTotal = 2
    FirstIds = {3, 15}
    IdSpace = 16
    Watermark = 0
    Room = 2
SPECIFICATION Spec
INVARIANTS ShownFrameIsWhole BufferedAmountBoundsTheQueue
PROPERTIES NoOlderFrameShown QueueDrains NewCaptureIsShown
CHECK_DEADLOCK FALSE
