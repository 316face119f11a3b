\* Two buffers, one of them held back by the upper layer, and two clients.
CONSTANTS
  NumBufs = 2
  InitReg = {1}
  c1 = c1
  c2 = c2
  Client <- MCClient
  Cmd = Cmd
  Bundled = TRUE
  HasCb = TRUE
  Linkable = TRUE
  MaxFail = 1
  MaxSession = 1
  QuietRestart = TRUE
SPECIFICATION Spec
SYMMETRY Symmetry
INVARIANTS TypeOK DriverOwnsAlone RefsAccounted CountMatchesDriver PolledWhileQueued
