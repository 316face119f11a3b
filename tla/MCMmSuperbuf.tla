---------------------------- MODULE MCMmSuperbuf ----------------------------
(* Small channels: the streams meta, main and post.                            *)
EXTENDS MmSuperbuf

CONSTANTS meta, main, post

BurstAttr == [mode |-> "burst", waterMark |-> 1, lookBack |-> 0, skip |-> 1,
              maxUnmatched |-> 1, low |-> FALSE, userExpected |-> 0]
InstantAttr == [BurstAttr EXCEPT !.userExpected = 2, !.skip = 0, !.maxUnmatched = 0]
\* addSnapshotChannel: the live snapshot of a recording.
LiveAttr == [BurstAttr EXCEPT !.mode = "continuous", !.low = TRUE]

BothAttrs == {BurstAttr, LiveAttr}
InstantAttrs == {InstantAttr}

Quiet == [prep |-> "none", good |-> 0, last |-> 0, crop1x |-> FALSE, divert |-> 0,
          settled |-> FALSE]
DivertMeta == {Quiet, [Quiet EXCEPT !.divert = 2]}
FlashMeta == {Quiet, [Quiet EXCEPT !.prep = "future"],
              [Quiet EXCEPT !.prep = "done", !.crop1x = TRUE],
              [Quiet EXCEPT !.good = 2, !.last = 3],
              [Quiet EXCEPT !.settled = TRUE]}
=============================================================================
