----------------------------- MODULE MmSuperbuf -----------------------------
(* The super-buffer queue of a channel, mm_camera_channel.c: the buffers of    *)
(* the channel's streams are matched by frame id into bundles, and the matched *)
(* bundles wait for a request of the upper layer. Everything here is done by   *)
(* the channel's command thread, one command at a time and in the order the    *)
(* commands were queued; so a command is taken up in the step that queues it,  *)
(* and what the thread then does is the sequence of steps that pc walks        *)
(* through: comp -> settle -> dispatch for a buffer, skip -> settle ->         *)
(* dispatch for a request, settle -> dispatch for the other commands.          *)
(* A buffer of a linked stream goes back to the stream's own channel; once the *)
(* link is gone it goes nowhere, and its reference stays on the buffer.        *)
(* The frame-sync ring of dual cameras and the frame configurations of         *)
(* CAPTURE_SETTING are not part of this module.                                *)
EXTENDS Naturals, Integers, Sequences, FiniteSets, FiniteSetsExt, SequencePick

CONSTANTS
  Stream,       \* bundled_streams
  Metadata,     \* the metadata stream, or no member of Stream
  Linked,       \* the streams that belong to another channel
  Repeating,    \* the streams whose driver may deliver a frame id twice
  Attrs,        \* the mm_camera_channel_attr_t the upper layer may set
  MetaContent,  \* what a metadata buffer may say
  Command,      \* the commands the upper layer sends
  MaxRequest,   \* bound: super-buffers one request asks for
  MaxFrame,     \* bound: the last frame id of a session
  MaxSession,   \* bound: times the channel is started
  MaxStartFail  \* bound: times starting it fails

Frame == 1 .. MaxFrame
NoFrame == 0
\* Any id beyond the last frame: expected_frame_id + MM_CAMERA_MAX_FUTURE_FRAME_WAIT.
Future == MaxFrame + 1
FrameId == 0 .. Future
Mode == {"burst", "continuous"}
AttrRecord == [mode : Mode, waterMark : Nat, lookBack : Nat, skip : Nat,
               maxUnmatched : Nat, low : BOOLEAN, userExpected : FrameId]
Content == [prep : {"none", "future", "done"}, good : FrameId, last : FrameId,
            crop1x : BOOLEAN, divert : FrameId, settled : BOOLEAN]

ASSUME SuperbufAssumption ==
  /\ IsFiniteSet(Stream) /\ Stream # {} /\ Linked \cup Repeating \subseteq Stream
  /\ {MaxFrame, MaxSession, MaxStartFail, MaxRequest} \subseteq Nat
  /\ Attrs \subseteq AttrRecord /\ MetaContent \subseteq Content
  /\ Command \subseteq {"request", "notify", "flush", "ae", "flash", "zoom", "manual"}

VARIABLES
  queue,       \* superbuf_queue.que, the bundles from head to tail
  matchCnt,    \* superbuf_queue.match_cnt
  attr,        \* superbuf_queue.attr
  expected,    \* expected_frame_id
  good,        \* good_frame_id
  withoutLed,  \* expected_frame_id_without_led
  ledOff,      \* led_off_start_frame_id + frame_skip_count
  once,        \* once: the LED-off frame was seen
  diverted,    \* diverted_frame_id
  pending, retro, wait,          \* pending_cnt, pending_retro_cnt, bWaitForPrepSnapshotDone
  bracket, flash, zoom,          \* bracketingState, isFlashBracketingEnabled, isZoom1xFrameRequested
  led, zsl, stopZsl, burst, manual, \* needLEDFlash, startZSlSnapshotCalled, stopZslSnapshot,
                                    \* burstSnapNum, manualZSLSnapshot
  pc, hand,    \* where the command thread is, and the buffer in its hands
  phase,       \* mm_channel_start and mm_channel_stop
  last,        \* streams: the last frame each delivered
  owed,        \* streams: references the channel side holds on their buffers
  app,         \* references the upper layer holds
  linked,      \* the linked streams whose buffers the upper layer can give back
  lost,        \* references nobody can give back any more
  sessions, startFails

queueVars == <<queue, matchCnt>>
idVars    == <<expected, good, withoutLed, ledOff, once, diverted>>
reqVars   == <<pending, retro, wait>>
modeVars  == <<bracket, flash, zoom, led, zsl, stopZsl, burst, manual>>
envVars   == <<phase, last, app, linked, lost, sessions, startFails>>
vars == <<queueVars, attr, idVars, reqVars, modeVars, pc, hand, owed, envVars>>

Flag(c) == IF c THEN 1 ELSE 0
NoHand == [stream |-> Metadata, idx |-> NoFrame]
Bundle == [idx : Frame, buf : [Stream -> 0 .. MaxFrame], expected : BOOLEAN,
           matched : BOOLEAN, metaIdx : 0 .. MaxFrame]

TypeOK ==
  /\ queue \in Seq(Bundle) /\ matchCnt \in Nat /\ attr \in AttrRecord
  /\ {expected, good, withoutLed, ledOff, diverted} \subseteq FrameId
  /\ pending \in 0 .. MaxRequest /\ retro \in 0 .. pending
  /\ bracket \in {"off", "wait", "active"} /\ burst \in 0 .. MaxRequest
  /\ {once, wait, flash, zoom, led, zsl, stopZsl, manual} \subseteq BOOLEAN
  /\ pc \in {"idle", "comp", "skip", "settle", "dispatch"}
  /\ hand = NoHand \/ hand \in [stream : Stream, idx : Frame]
  /\ pc = "comp" <=> hand # NoHand
  /\ phase \in {"stopped", "starting", "started"}
  /\ last \in [Stream -> 0 .. MaxFrame]
  /\ owed \in [Stream -> Int] /\ app \in [Stream -> Nat] /\ lost \in [Stream -> Nat]
  /\ linked \subseteq Linked

\* The channel as mm_channel_config and add_channel leave it, its streams added and
\* linked, never started.
Init ==
  /\ queue = <<>> /\ matchCnt = 0 /\ attr \in Attrs
  /\ expected = 0 /\ good = 0 /\ withoutLed = 0 /\ ledOff = 0 /\ once = FALSE /\ diverted = 0
  /\ pending = 0 /\ retro = 0 /\ wait = FALSE
  /\ bracket = "off" /\ flash = FALSE /\ zoom = FALSE /\ led = FALSE
  /\ zsl = FALSE /\ stopZsl = FALSE /\ burst = 0 /\ manual = FALSE
  /\ pc = "idle" /\ hand = NoHand /\ phase = "stopped"
  /\ last = [s \in Stream |-> 0] /\ owed = [s \in Stream |-> 0] /\ app = [s \in Stream |-> 0]
  /\ linked = Linked /\ lost = [s \in Stream |-> 0]
  /\ sessions = 0 /\ startFails = 0

-----------------------------------------------------------------------------
(* The queue. A set of positions K stands for the bundles at those positions.  *)

\* How many buffers of each stream the bundles at the positions K hold.
Holding(K) == [s \in Stream |-> Cardinality({k \in K : queue[k].buf[s] # NoFrame})]
Returned(K) == [s \in Stream |-> owed[s] - Holding(K)[s]]
HandKept == owed  \* mutation: the buffer in hand is dropped
HandReturned == [owed EXCEPT ![hand.stream] = @ - 1]

Matched   == {k \in DOMAIN queue : queue[k].matched}
Unmatched == DOMAIN queue \ Matched
HeadMatched == queue # <<>> /\ Head(queue).matched

\* The matched bundles at the head, which dequeueing matched bundles reaches.
MatchedHead == {k \in DOMAIN queue : 1 .. k \subseteq Matched}

\* Variant for a mutation: match_cnt is forgotten.
FlushUncounted(K) ==
  queue' = Pick(queue, DOMAIN queue \ K) /\ owed' = Returned(K) /\ UNCHANGED matchCnt

\* mm_channel_superbuf_flush and _flush_matched.
Flush(K) ==
  /\ queue' = Pick(queue, DOMAIN queue \ K) /\ owed' = Returned(K)
  /\ matchCnt' = matchCnt - Cardinality(K \cap Matched)

Ahead(id) == Min({id, Future})

-----------------------------------------------------------------------------
(* A buffer arrives; that of the metadata stream first changes what frames     *)
(* the queue expects (mm_channel_handle_metadata).                             *)

Arrives(s, i) ==
  /\ pc = "idle" /\ phase # "stopped"
  /\ i > last[s] \/ (s \in Repeating /\ i = last[s])
  /\ pc' = "comp" /\ hand' = [stream |-> s, idx |-> i]
  /\ last' = [last EXCEPT ![s] = i]
  /\ UNCHANGED <<phase, app, linked, lost, sessions, startFails>>

Counted(refs, s) == [refs EXCEPT ![s] = @ + 1]

Buffer(s, i) ==
  /\ s # Metadata /\ Arrives(s, i)
  /\ owed' = Counted(owed, s)
  /\ UNCHANGED <<queueVars, attr, idVars, reqVars, modeVars>>

Divert(m, i) == diverted' = IF m.divert = NoFrame THEN diverted
                            ELSE IF m.divert >= i THEN m.divert ELSE NoFrame

\* What the metadata flushes: everything when the main flash is still to come,
\* the matched bundles while waiting for a zoomed-out or a bracketed frame.
FlushedBy(m) ==
  IF ~zoom /\ m.prep = "future" THEN DOMAIN queue
  ELSE IF \/ zoom /\ ~m.crop1x
          \/ ~zoom /\ m.good = NoFrame /\ bracket = "wait" /\ m.prep = "none"
       THEN MatchedHead ELSE {}

FlushMeta(m) ==
  /\ queue' = Pick(queue, DOMAIN queue \ FlushedBy(m))
  /\ matchCnt' = matchCnt - Cardinality(FlushedBy(m) \cap Matched)
  /\ owed' = Counted(Returned(FlushedBy(m)), Metadata)

\* A frame zoomed out to 1x was asked for: nothing else in the metadata counts.
MetaZoom(m, i) ==
  /\ zoom /\ zoom' = ~m.crop1x
  /\ expected' = IF m.crop1x THEN Ahead(i + 1) ELSE Future
  /\ UNCHANGED <<good, withoutLed, ledOff, once, reqVars, bracket, flash, led, stopZsl, attr>>

\* needLEDFlash after the pre-flash result, before the LED-off rule.
LedAsked(m) == IF m.prep = "none" THEN led ELSE m.prep = "future"
NewBracket(m) == IF m.good # NoFrame /\ ~flash THEN "active" ELSE bracket
NewRange(m) == m.good # NoFrame /\ LedAsked(m) /\ burst > 1

\* The frame after which the LED of a burst is off.
LedEnds(m, i) ==
  /\ burst > 1 /\ LedAsked(m) /\ ~flash /\ NewBracket(m) = "off"
  /\ i >= ledOff /\ ~once

\* The instant-capture frame the upper layer expects: it is forgotten once it
\* is reached, and replaced by this one when the exposure has settled before.
UserReached(i) == attr.userExpected > 0 /\ attr.userExpected <= i
UserSettled(m, i) == attr.userExpected > i /\ m.settled

MetaExpected(m, i) ==
  CASE UserSettled(m, i)                              -> i
    [] ~UserSettled(m, i) /\ LedEnds(m, i)            -> ledOff
    [] ~UserSettled(m, i) /\ ~LedEnds(m, i) /\ m.good # NoFrame -> m.good
    [] OTHER -> IF m.prep = "future" \/ (bracket = "wait" /\ m.prep = "none")
                THEN Future ELSE expected

MetaPlain(m, i) ==
  /\ ~zoom /\ UNCHANGED <<zoom, pending, retro, flash>>
  /\ wait' = (wait /\ m.prep = "none")
  /\ expected' = MetaExpected(m, i)
  /\ good' = IF m.good # NoFrame THEN m.good ELSE good
  /\ withoutLed' = IF m.good # NoFrame /\ flash THEN m.last ELSE withoutLed
  /\ bracket' = NewBracket(m)
  /\ ledOff' = IF NewRange(m) THEN m.last ELSE ledOff
  /\ once' = (LedEnds(m, i) \/ (once /\ ~NewRange(m)))
  /\ stopZsl' = (stopZsl \/ LedEnds(m, i))
  /\ led' = (LedAsked(m) /\ ~LedEnds(m, i))
  /\ attr' = IF UserReached(i) \/ UserSettled(m, i)
             THEN [attr EXCEPT !.userExpected = 0] ELSE attr

MetadataBuffer(i, m) ==
  /\ Metadata \in Stream /\ Arrives(Metadata, i)
  /\ FlushMeta(m) /\ Divert(m, i)
  /\ MetaZoom(m, i) \/ MetaPlain(m, i)
  /\ UNCHANGED <<zsl, burst, manual>>

-----------------------------------------------------------------------------
(* mm_channel_superbuf_comp_and_enqueue, for the buffer in hand.               *)

Settle == pc' = "settle" /\ hand' = NoHand
CompKeeps == UNCHANGED <<attr, good, withoutLed, ledOff, once, reqVars, bracket, zoom, led, zsl,
                         stopZsl, burst, manual, envVars>>

TooOld == hand.idx < expected
          /\ \A k \in DOMAIN queue : ~(queue[k].expected /\ queue[k].idx = hand.idx)

\* An unmatched bundle takes the buffer if it is of the same frame; in a queue
\* of low priority metadata may be newer than the other buffers.
Takes(n) ==
  \/ n.idx = hand.idx
  \/ /\ attr.low /\ n.buf[hand.stream] = NoFrame
     /\ IF hand.stream = Metadata THEN n.idx < hand.idx ELSE n.metaIdx > hand.idx

Found  == {k \in Unmatched : Takes(queue[k])}
Pos    == IF Found = {} THEN Len(queue) + 1 ELSE Min(Found)
Passed == {k \in Unmatched : k < Pos}
Older  == {k \in Passed : queue[k].idx < hand.idx}
Newer  == {k \in Passed : queue[k].idx > hand.idx}

\* A bundle of metadata alone takes the frame id of the first other buffer.
ClaimedIdxKept(n) == [n EXCEPT !.metaIdx = 0]  \* mutation: frame_idx stays
Claimed(n) == IF n.metaIdx > 0 THEN [n EXCEPT !.metaIdx = 0, !.idx = hand.idx] ELSE n
Filled(n) == [Claimed(n) EXCEPT !.buf[hand.stream] = hand.idx]
\* A frame that was asked for marks its bundle as expected.
Marked(n) == [Filled(n) EXCEPT !.expected = @ \/ diverted = hand.idx]
Full(n) == \A s \in Stream : n.buf[s] # NoFrame

\* A bundle is complete: the next frame to expect.
MatchedAt(i) ==
  /\ matchCnt' = matchCnt + 1
  /\ expected' = IF flash THEN withoutLed ELSE Ahead(i + attr.skip)
  /\ flash' = (flash /\ i < withoutLed)

Discard ==
  /\ pc = "comp" /\ TooOld
  /\ owed' = HandReturned /\ Settle /\ CompKeeps
  /\ UNCHANGED <<queueVars, expected, diverted, flash>>

\* The bundle of this frame already has a buffer of this stream.
Duplicate ==
  /\ pc = "comp" /\ ~TooOld /\ Found # {}
  /\ queue[Pos].buf[hand.stream] # NoFrame
  /\ queue' = [queue EXCEPT ![Pos] = Claimed(@)]
  /\ owed' = HandReturned /\ Settle /\ CompKeeps
  /\ UNCHANGED <<matchCnt, expected, diverted, flash>>

Fill ==
  /\ pc = "comp" /\ ~TooOld /\ Found # {}
  /\ queue[Pos].buf[hand.stream] = NoFrame /\ ~Full(Filled(queue[Pos]))
  /\ queue' = [queue EXCEPT ![Pos] = Marked(@)]
  /\ diverted' = IF diverted = hand.idx THEN NoFrame ELSE diverted
  /\ Settle /\ CompKeeps
  /\ UNCHANGED <<matchCnt, expected, flash, owed>>

\* The bundles from the first older one up to the completed one are released.
StaleKept == {}  \* mutation: older bundles stay
StaleButFirst == IF Older = {} THEN {} ELSE (Min(Older) + 1) .. (Pos - 1)  \* off by one
Stale == IF Older = {} THEN {} ELSE Min(Older) .. (Pos - 1)

Complete ==
  /\ pc = "comp" /\ ~TooOld /\ Found # {}
  /\ queue[Pos].buf[hand.stream] = NoFrame /\ Full(Filled(queue[Pos]))
  /\ LET done == [Filled(queue[Pos]) EXCEPT !.matched = TRUE, !.expected = FALSE]
     IN queue' = Pick([queue EXCEPT ![Pos] = done], DOMAIN queue \ Stale)
  /\ MatchedAt(hand.idx) /\ owed' = Returned(Stale)
  /\ Settle /\ CompKeeps /\ UNCHANGED diverted

\* How many more bundles than max_unmatched_frames wait for buffers.
ExcessLenient == Cardinality(Passed) - attr.maxUnmatched - 1  \* mutation: off by one
ExcessStrict == Cardinality(Passed) - attr.maxUnmatched + 1   \* mutation: <= for <
Excess == Cardinality(Passed) - attr.maxUnmatched

Refuse ==
  /\ pc = "comp" /\ ~TooOld /\ Found = {} /\ Excess > 0 /\ Older = {}
  /\ owed' = HandReturned /\ Settle /\ CompKeeps
  /\ UNCHANGED <<queueVars, expected, diverted, flash>>

\* The loop that makes room goes from the first older bundle to the tail and
\* passes over the expected bundles and the one to insert before; when it ends
\* too early the first older bundle goes as well.
Spare == {k \in Min(Older) .. Len(queue) :
            ~queue[k].expected /\ ~(Newer # {} /\ k = Min(Newer))}
Trimmed == IF Excess <= 0 THEN {}
           ELSE {k \in Spare : Cardinality({j \in Spare : j <= k}) <= Excess}
                \cup IF Cardinality(Spare) < Excess THEN {Min(Older)} ELSE {}

NewBundle == [idx |-> hand.idx,
              buf |-> [s \in Stream |-> IF s = hand.stream THEN hand.idx ELSE NoFrame],
              expected |-> hand.idx \in {diverted, good} /\ Cardinality(Stream) > 1,
              matched |-> Cardinality(Stream) = 1,
              metaIdx |-> IF attr.low /\ hand.stream = Metadata THEN hand.idx ELSE 0]

\* Without memory for a bundle the buffer goes back, after the room was made.
Enqueue ==
  /\ pc = "comp" /\ ~TooOld /\ Found = {} /\ (Excess <= 0 \/ Older # {})
  /\ LET at   == IF Newer = {} THEN Len(queue) + 1 ELSE Min(Newer)
         kept == DOMAIN queue \ Trimmed
     IN \/ /\ queue' = Pick(queue, {k \in kept : k < at}) \o <<NewBundle>>
                        \o Pick(queue, {k \in kept : k >= at})
           /\ owed' = Returned(Trimmed)
           /\ diverted' = IF hand.idx \in {diverted, good} THEN NoFrame ELSE diverted
           /\ IF Cardinality(Stream) = 1
                THEN /\ matchCnt' = matchCnt + 1 /\ UNCHANGED flash
                     /\ expected' = Ahead(hand.idx + attr.skip)
                ELSE UNCHANGED <<matchCnt, expected, flash>>
        \/ /\ queue' = Pick(queue, kept)
           /\ owed' = [Returned(Trimmed) EXCEPT ![hand.stream] = @ - 1]
           /\ UNCHANGED <<matchCnt, expected, diverted, flash>>
  /\ Settle /\ CompKeeps

CompAndEnqueue == Discard \/ Duplicate \/ Fill \/ Complete \/ Refuse \/ Enqueue

-----------------------------------------------------------------------------
(* After a command: ZSL capture is started or stopped, the overflow is given   *)
(* back, and what was asked for is dispatched.                                 *)

StopZsl == /\ zsl' = FALSE /\ led' = FALSE /\ burst' = 0 /\ stopZsl' = FALSE
           /\ bracket' = "off"

ZslStarts == pending > 0 /\ (led \/ bracket # "off") /\ ~manual /\ ~zsl
ZslStopsOnDemand == stopZsl /\ ~manual /\ zsl  \* mutation: not for a cancel
ZslStops  == (pending = 0 \/ stopZsl) /\ ~manual /\ zsl

TriggerZsl ==
  \/ /\ ZslStarts /\ zsl' = TRUE /\ burst' = pending /\ wait' = FALSE
     /\ UNCHANGED <<led, stopZsl, bracket>>
  \/ ZslStops /\ StopZsl /\ wait' = FALSE
  \/ ~ZslStarts /\ ~ZslStops /\ UNCHANGED <<zsl, led, burst, stopZsl, bracket, wait>>

\* The loop of mm_channel_superbuf_bufdone_overflow and _skip: while there are
\* more matched bundles than limit it dequeues a matched head, and it does not
\* end when the head is not matched.
Surplus(limit) == IF attr.mode = "continuous" \/ matchCnt <= limit THEN {}
                  ELSE 1 .. (matchCnt - limit)
BufDoneOver(limit) == Surplus(limit) \subseteq MatchedHead /\ Flush(Surplus(limit))

Skip ==
  /\ pc = "skip" /\ pc' = "settle"
  /\ BufDoneOver(attr.lookBack)
  /\ UNCHANGED <<attr, idVars, reqVars, modeVars, hand, envVars>>

Overflow ==
  /\ pc = "settle" /\ pc' = "dispatch"
  /\ TriggerZsl
  /\ BufDoneOver(attr.waterMark)
  /\ UNCHANGED <<attr, idVars, pending, retro, flash, zoom, manual, hand, envVars>>

Wanted == (pending > 0 \/ attr.mode = "continuous") /\ ~wait

\* One matched bundle for the callback thread, or its buffers given back when
\* there is no memory to tell it.
Dispatch ==
  /\ pc = "dispatch" /\ Wanted /\ HeadMatched
  /\ queue' = Tail(queue) /\ matchCnt' = matchCnt - 1
  /\ \/ /\ app' = [s \in Stream |-> app[s] + Holding({1})[s]]
        /\ UNCHANGED owed
     \/ owed' = Returned({1}) /\ UNCHANGED app
  /\ IF attr.mode = "burst"
       THEN /\ pending' = pending - 1
            /\ retro' = IF retro > 0 THEN retro - 1 ELSE 0
            /\ wait' = (retro = 1)
            /\ IF (pending = 1 \/ stopZsl) /\ ~manual /\ zsl
                 THEN StopZsl ELSE UNCHANGED <<zsl, led, burst, stopZsl, bracket>>
       ELSE UNCHANGED <<pending, retro, wait, zsl, led, burst, stopZsl, bracket>>
  /\ UNCHANGED <<attr, idVars, flash, zoom, manual, pc, hand, phase, last, linked, lost, sessions,
                 startFails>>

Rest ==
  /\ pc = "dispatch" /\ ~(Wanted /\ HeadMatched) /\ pc' = "idle"
  /\ UNCHANGED <<queueVars, attr, idVars, reqVars, modeVars, hand, owed, envVars>>

-----------------------------------------------------------------------------
(* The commands of the upper layer.                                            *)

Sends(c) == c \in Command /\ pc = "idle" /\ phase = "started"

\* At most as many retro frames as frames.
RetroUnclamped(n, r) == r  \* mutation: no clamp
Retro(n, r) == Min({n, r})

\* mm_channel_request_super_buf; n = 0 cancels what is pending.
Request(n, r) ==
  /\ Sends("request") /\ pc' = "skip"
  /\ pending' = n /\ retro' = Retro(n, r) /\ wait' = FALSE
  /\ led' = (led /\ retro' = 0) /\ stopZsl' = FALSE
  /\ UNCHANGED <<queueVars, attr, idVars, bracket, flash, zoom, zsl, burst, manual, hand, owed,
                 envVars>>

ConfigNotify(mode) ==
  /\ Sends("notify") /\ pc' = "settle" /\ attr' = [attr EXCEPT !.mode = mode]
  /\ UNCHANGED <<queueVars, idVars, reqVars, modeVars, hand, owed, envVars>>

\* The command returns at once: nothing is triggered or dispatched.
FlushQueue(i) ==
  /\ Sends("flush") /\ expected' = i /\ Flush(DOMAIN queue)
  /\ UNCHANGED <<attr, good, withoutLed, ledOff, once, diverted, reqVars, modeVars, pc, hand,
                 envVars>>

General ==
  /\ Flush(DOMAIN queue) /\ pc' = "settle"
  /\ UNCHANGED <<attr, idVars, reqVars, led, zsl, stopZsl, burst, manual, hand, envVars>>
AeBracketing(on) ==
  /\ Sends("ae") /\ General /\ UNCHANGED <<flash, zoom>>
  /\ bracket' = IF on THEN "wait" ELSE "off"
FlashBracketing(on) == Sends("flash") /\ General /\ flash' = on /\ UNCHANGED <<bracket, zoom>>
Zoom1x(on) == Sends("zoom") /\ General /\ zoom' = on /\ UNCHANGED <<bracket, flash>>

\* START_ZSL and STOP_ZSL.
ManualZsl(on) ==
  /\ Sends("manual") /\ manual' = on /\ pc' = "settle"
  /\ UNCHANGED <<queueVars, attr, idVars, reqVars, bracket, flash, zoom, led, zsl, stopZsl, burst,
                 hand, owed, envVars>>

Own == Stream \ Linked

\* mm_camera_qbuf: the upper layer gives a buffer back. For a linked stream that is
\* no longer in the channel's list mm_channel_qbuf fails, and so does bufDone.
GiveBack(s) ==
  /\ app[s] > 0 /\ app' = [app EXCEPT ![s] = @ - 1]
  /\ IF s \in Own \cup linked
       THEN owed' = [owed EXCEPT ![s] = @ - 1] /\ UNCHANGED lost
       ELSE lost' = [lost EXCEPT ![s] = @ + 1] /\ UNCHANGED owed
  /\ UNCHANGED <<queueVars, attr, idVars, reqVars, modeVars, pc, hand, phase, last, linked,
                 sessions, startFails>>

-----------------------------------------------------------------------------
(* Start and stop of the channel, as far as the queue is concerned.            *)

LinkKeeps == UNCHANGED <<queueVars, attr, idVars, reqVars, modeVars, pc, hand, owed, phase, last, app,
                         lost, sessions, startFails>>

\* mm_channel_link_stream, before each start.
Link(s) == phase = "stopped" /\ s \notin linked /\ linked' = linked \cup {s} /\ LinkKeeps

\* The upper layer takes the linked streams off its list before it stops the channel.
DropLinked == phase = "started" /\ linked # {} /\ linked' = {} /\ LinkKeeps

\* UNREG_BUF resets the references of the channel's own streams.
Unregistered(refs) == [s \in Stream |-> IF s \in Own THEN 0 ELSE refs[s]]

Start ==
  /\ phase = "stopped" /\ sessions < MaxSession /\ linked = Linked
  /\ phase' = "starting" /\ sessions' = sessions + 1
  /\ queue' = <<>> /\ expected' = attr.userExpected
  /\ withoutLed' = 0 /\ ledOff' = 0 /\ good' = 0
  /\ last' = Unregistered(last)
  /\ UNCHANGED <<matchCnt, attr, once, diverted, reqVars, modeVars, pc, hand, owed, app, linked, lost,
                 startFails>>

Started ==
  /\ phase = "starting" /\ phase' = "started" /\ wait' = FALSE
  /\ UNCHANGED <<queueVars, attr, idVars, pending, retro, modeVars, pc, hand, owed, last, app,
                 linked, lost, sessions, startFails>>

\* A stream of the channel cannot be started. For each linked stream the queue
\* is flushed, but of the buffers in it only those of the type of the stream
\* that failed are given back, and that one has delivered none; then the whole
\* of superbuf_queue is cleared, the attributes with it. The slots of the linked
\* streams are cleared too, but the upper layer's list still has them.
StartFails ==
  /\ phase = "starting" /\ pc = "idle" /\ phase' = "stopped"
  /\ \E s \in Own : last[s] = 0
  /\ queue' = <<>> /\ matchCnt' = 0
  /\ attr' = [mode |-> "burst", waterMark |-> 0, lookBack |-> 0, skip |-> 0,
              maxUnmatched |-> 0, low |-> FALSE, userExpected |-> 0]
  /\ expected' = 0 /\ good' = 0 /\ withoutLed' = 0 /\ ledOff' = 0 /\ once' = FALSE
  /\ owed' = Unregistered(owed) /\ app' = Unregistered(app) /\ wait' = FALSE
  /\ lost' = [s \in Stream |-> IF s \in Own THEN 0 ELSE lost[s] + Holding(DOMAIN queue)[s]]
  /\ linked' \in {linked, {}}
  /\ UNCHANGED <<diverted, pending, retro, modeVars, hand, pc, last, sessions>>
  /\ startFails < MaxStartFail /\ startFails' = startFails + 1

\* mm_channel_stop: the streams first, then a flush the caller waits for, which
\* still gives back the buffers of linked streams; then their slots are cleared.
Stop ==
  /\ phase = "started" /\ pc = "idle" /\ linked = {} /\ phase' = "stopped"
  /\ queue' = <<>> /\ matchCnt' = 0 /\ expected' = 0 /\ good' = 0
  /\ owed' = Unregistered(Returned(DOMAIN queue)) /\ app' = Unregistered(app)
  /\ UNCHANGED <<attr, withoutLed, ledOff, once, diverted, reqVars, modeVars, hand, pc, last,
                 linked, lost, sessions, startFails>>

Arrive == \E i \in Frame : \/ \E s \in Stream : Buffer(s, i)
                           \/ \E m \in MetaContent : MetadataBuffer(i, m)
Serve == Skip \/ Overflow \/ Dispatch \/ Rest
Upper == \/ \E n, r \in 0 .. MaxRequest : Request(n, r)
         \/ \E mode \in Mode : ConfigNotify(mode)
         \/ \E i \in 0 .. MaxFrame : FlushQueue(i)
         \/ \E on \in BOOLEAN : \/ AeBracketing(on) \/ FlashBracketing(on)
                                \/ Zoom1x(on) \/ ManualZsl(on)
         \/ \E s \in Stream : GiveBack(s)
Relink == DropLinked \/ \E s \in Linked : Link(s)
Session == Relink \/ Start \/ Started \/ StartFails \/ Stop

Next == Arrive \/ CompAndEnqueue \/ Serve \/ Upper \/ Session
Spec == Init /\ [][Next]_vars

-----------------------------------------------------------------------------
(* Properties.                                                                 *)

\* Every reference the channel side holds on a stream's buffers is in a bundle, in
\* the command thread's hands or with the upper layer (comp_and_enqueue, flush,
\* skip, overflow, send_super_buf), or it is lost: a buffer of a linked stream that
\* came back after the link was gone, or was queued when the start failed. No
\* reference on a buffer of the channel's own streams is ever lost.
BuffersAccounted ==
  \A s \in Stream :
    /\ owed[s] = Holding(DOMAIN queue)[s] + app[s] + Flag(pc = "comp" /\ hand.stream = s) + lost[s]
    /\ s \in Own => lost[s] = 0

\* The matched bundles come before the others, and in a queue of normal priority
\* the others are in the order of their frames; comp_and_enqueue looks for older
\* bundles, and dequeue for a matched head, only where this puts them.
QueueInOrder ==
  /\ \A k, n \in DOMAIN queue : queue[n].matched /\ k < n => queue[k].matched
  /\ ~attr.low => \A k, n \in Unmatched : k < n => queue[k].idx < queue[n].idx

\* match_cnt is the number of matched bundles, so that skip and overflow stop.
CountsMatched == matchCnt = Cardinality(Matched)

\* skip and overflow find a matched head for every bundle they have to drop:
\* otherwise the thread spins in them with the queue's lock held.
LoopsEnd ==
  /\ pc = "skip" => Surplus(attr.lookBack) \subseteq MatchedHead
  /\ pc = "settle" => Surplus(attr.waterMark) \subseteq MatchedHead

\* At most one bundle too many waits for buffers, so that making room frees
\* last_buf at most once.
UnmatchedBounded == Cardinality(Unmatched) <= attr.maxUnmatched + 1

\* A bundle that every stream can still complete is released only for want of
\* room: when a newer frame is complete, no stream is behind it any more.
Completable(n) == \A s \in Stream : n.buf[s] = NoFrame => last[s] < n.idx
KeepsCompletable ==
  [][CompAndEnqueue /\ ~attr.low =>
       \A k \in Unmatched :
          Completable(queue[k]) /\ (\A n \in DOMAIN queue' : queue'[n].idx # queue[k].idx)
             => Cardinality(Unmatched) > attr.maxUnmatched]_vars

\* All the buffers of a matched bundle are of one frame; with low priority all
\* but that of the metadata.
OneFrame ==
  \A k \in Matched : \A s \in Stream :
     s # Metadata \/ ~attr.low => queue[k].buf[s] = queue[k].idx

\* When the thread is back at its queue, ZSL capture that it started itself is
\* on only while super-buffers are pending.
ZslMatchesDemand == pc = "idle" /\ phase = "started" /\ zsl /\ ~manual => pending > 0

=============================================================================
