\* Pictures only, and everything else the framework may ask.
CONSTANTS
  app = app
  cb = cb
  Client <- Both
  Nobody = Nobody
  Calls <- PhotoCalls
  Settings <- MCSettings
  Flash = {FALSE, TRUE}
  Failing = {"take", "hw"}
  LateRelease = FALSE
  QuietParams = TRUE
  DaemonMayDie = FALSE
  MaxCalls = 5
SPECIFICATION FairSpec
PROPERTIES CallsReturn PicturesEnd
CHECK_DEADLOCK FALSE
