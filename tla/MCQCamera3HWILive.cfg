SPECIFICATION FairSpec
CONSTANTS
    preview = preview
    blob = blob
    Streams <- TwoStreams
    NeedsMeta <- BlobOnly
    LiveRequests <- OnlyPreview
    InputRequests <- OnlyBlob
    HdrRequests <- OnlyBlob
    Mixed = TRUE
    MayFlush = FALSE
    MinInFlight = 2
    MaxInFlight = 3
    CountWidth = 8
    MaxPlain = 1
    MaxRefused = 1
    MaxFrame = 7

PROPERTIES WaiterReleased RequestsAnswered
CHECK_DEADLOCK FALSE
