\* Liveness: a preview-like stream, one session, one client, nothing fails.
CONSTANTS
  NumBufs = 2
  InitReg = {1}
  c1 = c1
  c2 = c2
  Client = {c1}
  Cmd = Cmd
  Bundled = FALSE
  HasCb = TRUE
  Linkable = FALSE
  MaxFail = 0
  MaxSession = 1
  QuietRestart = TRUE
SPECIFICATION FairSpec
PROPERTIES StopCompletes FilledIsDequeued BufferComesBack
