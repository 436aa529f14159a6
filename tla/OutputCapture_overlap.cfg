SPECIFICATION FairCaptureSpec
CONSTANTS
    Null = Null
    Limit = 2
    MaxOutput = 3
    Chunks = {1, 2}
    Faults = {}
INVARIANT AvailableIsReadable
CHECK_DEADLOCK FALSE
