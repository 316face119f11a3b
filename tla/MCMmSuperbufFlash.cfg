SPECIFICATION Spec
CONSTANTS
  meta = meta
  main = main
  post = post
  Stream = {meta, main}
  Metadata = meta
  Linked = {}
  Repeating = {}
  Attrs <- InstantAttrs
  MetaContent <- FlashMeta
  Command = {"request", "ae", "flash", "zoom", "manual", "flush", "notify"}
  MaxRequest = 2
  MaxFrame = 2
  MaxSession = 1
  MaxStartFail = 1
INVARIANT ZslMatchesDemand
CHECK_DEADLOCK FALSE
