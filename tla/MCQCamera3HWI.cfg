SPECIFICATION Spec
CONSTANTS
    preview = preview
    blob = blob
    Streams <- TwoStreams
    NeedsMeta <- BlobOnly
    LiveRequests <- PreviewOrBoth
    InputRequests <- OnlyBlob
    HdrRequests <- NoRequest
    Mixed = FALSE
    MayFlush = TRUE
    MinInFlight = 2
    MaxInFlight = 3
    CountWidth = 8
    MaxPlain = 3
    MaxRefused = 3
    MaxFrame = 3
INVARIANTS TypeOK AnsweredOnce LiveInOrder CountMatches BufferComesBack DeinitAnswered
PROPERTY FlushAnswersAll
CHECK_DEADLOCK FALSE
