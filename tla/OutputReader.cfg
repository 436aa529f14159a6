SPECIFICATION FairReaderSpec
CONSTANTS
    Null = Null
    Limit = 3
    MaxOutput = 4
    Chunks = {1, 2}
    Faults = {"create", "write", "marker", "sync", "close", "receipt", "directory"}
INVARIANTS ReceiptIsTrue DurableBeforePublished ClosedOnce
INVARIANTS EndIsEnd CompletePageIsComplete
PROPERTIES SealedStaysSealed NoFalseAlarm
PROPERTY CaptureEnds
CHECK_DEADLOCK FALSE
