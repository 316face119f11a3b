\* A second start after a stop or a failed start, one client.
CONSTANTS
  NumBufs = 2
  InitReg = {1}
  c1 = c1
  c2 = c2
  Client = {c1}
  Cmd = Cmd
  Bundled = TRUE
  HasCb = TRUE
  Linkable = TRUE
  MaxFail = 1
  MaxSession = 2
  QuietRestart = TRUE
SPECIFICATION Spec
PROPERTY ImplementsOwnership
