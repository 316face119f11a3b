\* The framework gives a frame back after recording stopped.
CONSTANTS
  app = app
  cb = cb
  Client = {app}
  Nobody = Nobody
  Calls <- FrameBack
  Settings <- MCSettings
  Flash = {FALSE}
  Failing = {}
  LateRelease = TRUE
  QuietParams = TRUE
  DaemonMayDie = FALSE
  MaxCalls = 5
SPECIFICATION Spec
INVARIANTS EveryWaiterServed
CHECK_DEADLOCK FALSE
