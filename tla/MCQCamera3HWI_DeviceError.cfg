SPECIFICATION Spec
CONSTANTS
    preview = preview
    blob = blob
    Streams <- TwoStreams
    NeedsMeta <- BlobOnly
    LiveRequests <- PreviewOrBoth
    InputRequests <- OnlyBlob
    HdrRequests <- NoRequest
    Mixed = FALSE
    MayFlush = TRUE
    MinInFlight = 2
    MaxInFlight = 3
    CountWidth = 8
    MaxPlain = 2
    MaxRefused = 2
    MaxFrame = 2
INVARIANT DeviceErrorReported
CHECK_DEADLOCK FALSE
