SPECIFICATION Spec
CONSTANTS
  meta = meta
  main = main
  post = post
  Stream = {meta, main, post}
  Metadata = meta
  Linked = {meta}
  Repeating = {post}
  Attrs <- BothAttrs
  MetaContent <- DivertMeta
  Command = {"request"}
  MaxRequest = 1
  MaxFrame = 3
  MaxSession = 1
  MaxStartFail = 1
INVARIANTS TypeOK BuffersAccounted QueueInOrder CountsMatched LoopsEnd UnmatchedBounded OneFrame
PROPERTY KeepsCompletable
CHECK_DEADLOCK FALSE
