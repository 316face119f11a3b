\* One thread of the framework that takes pictures and records.
CONSTANTS
  app = app
  cb = cb
  Client <- Both
  Nobody = Nobody
  Calls <- VideoCalls
  Settings <- MCSettings
  Flash = {FALSE, TRUE}
  Failing = {"record", "take", "live", "hw"}
  LateRelease = FALSE
  QuietParams = TRUE
  DaemonMayDie = TRUE
  MaxCalls = 6
SPECIFICATION Spec
INVARIANTS TypeOK EveryWaiterServed PayloadAlive StateMatchesChannels PictureHasState EnableKept
CHECK_DEADLOCK FALSE
