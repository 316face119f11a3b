SPECIFICATION FairSpec
CONSTANTS
    Modes <- BothModes
    MaxJobs = 2
    MaxFrames = 2
    MaxPictures = 2
INVARIANTS TypeOK FramesAccounted
PROPERTIES NoAnswerAfterAbort JobsAnswered StopReturns
CHECK_DEADLOCK FALSE
