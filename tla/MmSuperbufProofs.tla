--------------------------- MODULE MmSuperbufProofs ---------------------------
(* Proofs about the super-buffer queue, for every channel and every command.   *)
EXTENDS MmSuperbuf, SequencePickProofs

-----------------------------------------------------------------------------
(* Facts about the data.                                                       *)

\* What the assumption says of the constants, piece by piece.
LEMMA ConstFacts ==
  /\ MaxFrame \in Nat /\ MaxRequest \in Nat /\ MaxSession \in Nat /\ MaxStartFail \in Nat
  /\ IsFiniteSet(Stream) /\ Stream # {} /\ Linked \subseteq Stream /\ Repeating \subseteq Stream
  /\ Attrs \subseteq AttrRecord /\ MetaContent \subseteq Content
  BY SuperbufAssumption

\* Frame ids are numbers, and the one that is ahead of another is one.
LEMMA FrameFacts ==
  /\ Future = MaxFrame + 1 /\ Future \in FrameId /\ 0 \in FrameId /\ NoFrame \in FrameId
  /\ \A i \in Frame : i \in Int /\ i > 0 /\ i <= MaxFrame /\ i \in FrameId /\ i # NoFrame
  /\ \A i \in FrameId : i \in Int /\ i >= 0 /\ i <= MaxFrame + 1
  BY ConstFacts DEF Future, FrameId, Frame, NoFrame

\* The least of some positions is one of them.
LEMMA MinFacts ==
  ASSUME NEW n \in Nat, NEW K \in SUBSET (1 .. n), K # {}
  PROVE  Min(K) \in K /\ \A k \in K : Min(K) <= k
<1> DEFINE m == Order(K)[1]
<1>1. Cardinality(K) \in Nat /\ Cardinality(K) # 0
  BY PositionsFinite
<1>2. 1 \in 1 .. Cardinality(K)
  BY <1>1
<1>3. m \in K
  BY <1>2, OrderFacts DEF Bijection, Injection
<1>4. ASSUME NEW k \in K PROVE m <= k
  <2>1. PICK j \in 1 .. Cardinality(K) : Order(K)[j] = k
    BY OrderFacts DEF Bijection, Surjection
  <2>2. 1 < j => m < k
    BY <1>2, <2>1, OrderFacts
  <2>3. m \in 1 .. n /\ k \in 1 .. n /\ (j = 1 => m = k)
    BY <1>3, <2>1
  <2>4. j \in Int /\ j >= 1
    BY <1>1
  <2> HIDE DEF m
  <2> QED BY <2>2, <2>3, <2>4
<1> HIDE DEF m
<1>5. \A k \in K : k \in Int
  OBVIOUS
<1> QED BY <1>3, <1>4, <1>5 DEF Min

\* The smaller of two ids is one of them.
LEMMA AheadFacts == ASSUME NEW id \in Nat PROVE Ahead(id) \in FrameId
<1>1. \E x \in {id, Future} : \A y \in {id, Future} : x =< y
  BY FrameFacts
<1>2. Ahead(id) \in {id, Future} /\ Ahead(id) <= Future
  BY <1>1 DEF Ahead, Min
<1> QED BY <1>2, FrameFacts, ConstFacts DEF FrameId

\* At most as many retro-active frames as frames.
LEMMA RetroFacts ==
  ASSUME NEW n \in 0 .. MaxRequest, NEW r \in 0 .. MaxRequest PROVE Retro(n, r) \in 0 .. n
<1>1. \E x \in {n, r} : \A y \in {n, r} : x =< y
  BY ConstFacts
<1>2. Retro(n, r) \in {n, r} /\ Retro(n, r) <= n
  BY <1>1 DEF Retro, Min
<1> QED BY <1>2, ConstFacts

\* A condition counts 1 or 0.
LEMMA FlagFacts == ASSUME NEW b PROVE Flag(b) \in {0, 1} /\ (b => Flag(b) = 1) /\ (~b => Flag(b) = 0)
  BY DEF Flag

\* The buffer in hand is of one of the streams.
LEMMA HandFacts ==
  ASSUME TypeOK, pc = "comp"
  PROVE  hand \in [stream : Stream, idx : Frame] /\ hand.stream \in Stream /\ hand.idx \in Frame
  BY DEF TypeOK

-----------------------------------------------------------------------------
(* ZSL capture.                                                                *)

\* After the trigger and until the next command, ZSL capture that the thread
\* started itself has super-buffers to wait for, in any phase of the channel.
ZslInv ==
  /\ pending \in Nat
  /\ pc \in {"idle", "dispatch"} /\ zsl /\ ~manual => pending > 0

\* Linking and unlinking streams concerns only who can give buffers back.
LEMMA RelinkFacts == Relink => LinkKeeps /\ (linked \subseteq Linked => linked' \subseteq Linked)
  BY DEF Relink, Link, DropLinked

\* A new channel neither runs ZSL capture nor owes a super-buffer.
LEMMA ZslInit == Init => ZslInv
  BY DEF Init, ZslInv

\* The trigger (mm_channel_trigger_zsl_snapshot) leaves ZSL capture as demanded.
LEMMA TriggerFollowsDemand ==
  ASSUME pending \in Nat, TriggerZsl
  PROVE  zsl' /\ ~manual => pending > 0
<1>1. CASE ZslStarts
  BY <1>1 DEF ZslStarts
<1>2. CASE ZslStops /\ StopZsl
  BY <1>2 DEF StopZsl
<1>3. CASE ~ZslStarts /\ ~ZslStops /\ UNCHANGED zsl
  <2>1. ~(pending = 0 /\ ~manual /\ zsl)
    BY <1>3 DEF ZslStops
  <2> QED BY <1>3, <2>1
<1> QED BY <1>1, <1>2, <1>3, Zenon DEF TriggerZsl

\* Every command and every step of dispatching keeps ZSL capture as demanded.
LEMMA ZslKept == ZslInv /\ [Next]_vars => ZslInv'
<1> SUFFICES ASSUME ZslInv, [Next]_vars PROVE ZslInv'
  OBVIOUS
<1> USE DEF ZslInv
<1>1. ASSUME NEW i \in Frame, NEW s \in Stream, Buffer(s, i) PROVE ZslInv'
  BY <1>1 DEF Buffer, Arrives, reqVars, modeVars
<1>2. ASSUME NEW i \in Frame, NEW m \in MetaContent, MetadataBuffer(i, m) PROVE ZslInv'
  BY <1>2 DEF MetadataBuffer, Arrives, MetaZoom, MetaPlain, reqVars
<1>3. CASE CompAndEnqueue
  <2>1. pc' = "settle" /\ UNCHANGED pending
    BY <1>3 DEF CompAndEnqueue, Discard, Duplicate, Fill, Complete, Refuse, Enqueue, Settle,
                CompKeeps, reqVars
  <2> QED BY <2>1
<1>4. CASE Skip
  BY <1>4 DEF Skip, reqVars
<1>5. CASE Overflow
  BY <1>5, TriggerFollowsDemand DEF Overflow
<1>6. CASE Dispatch
  <2>1. CASE attr.mode = "burst"
    <3>1. /\ pc = "dispatch" /\ pc' = pc /\ pending > 0 /\ pending' = pending - 1
          /\ manual' = manual
      BY <1>6, <2>1 DEF Dispatch, Wanted
    <3>2. CASE pending = 1 /\ ~manual /\ zsl
      <4>1. ~zsl'
        BY <1>6, <2>1, <3>2 DEF Dispatch, StopZsl
      <4> QED BY <3>1, <4>1
    <3>3. CASE ~(pending = 1 /\ ~manual /\ zsl)
      <4>1. zsl' => zsl
        BY <1>6, <2>1 DEF Dispatch, StopZsl
      <4> QED BY <3>1, <3>3, <4>1
    <3> QED BY <3>2, <3>3
  <2>2. CASE attr.mode # "burst"
    BY <1>6, <2>2 DEF Dispatch
  <2> QED BY <2>1, <2>2
<1>7. CASE Rest
  BY <1>7 DEF Rest, reqVars, modeVars
<1>8. ASSUME NEW n \in 0 .. MaxRequest, NEW r \in 0 .. MaxRequest, Request(n, r) PROVE ZslInv'
  BY <1>8, SuperbufAssumption DEF Request
<1>9. ASSUME NEW mode \in Mode, ConfigNotify(mode) PROVE ZslInv'
  BY <1>9 DEF ConfigNotify, reqVars
<1>10. ASSUME NEW i \in 0 .. MaxFrame, FlushQueue(i) PROVE ZslInv'
  BY <1>10 DEF FlushQueue, reqVars, modeVars
<1>11. ASSUME NEW on \in BOOLEAN, \/ AeBracketing(on) \/ FlashBracketing(on)
                                  \/ Zoom1x(on) \/ ManualZsl(on)
       PROVE  ZslInv'
  BY <1>11 DEF AeBracketing, FlashBracketing, Zoom1x, ManualZsl, General, reqVars
<1>12. ASSUME NEW s \in Stream, GiveBack(s) PROVE ZslInv'
  BY <1>12 DEF GiveBack, reqVars, modeVars
<1>13. CASE Session
  BY <1>13, RelinkFacts DEF Session, LinkKeeps, Start, Started, StartFails, Stop, reqVars, modeVars
<1>14. CASE UNCHANGED vars
  BY <1>14 DEF vars, reqVars, modeVars
<1> QED BY <1>1, <1>2, <1>3, <1>4, <1>5, <1>6, <1>7, <1>8, <1>9, <1>10, <1>11, <1>12, <1>13,
           <1>14, Zenon DEF Next, Arrive, Serve, Upper

\* ZSL capture that the channel's thread started for a request (LED or bracketing)
\* is stopped with the last super-buffer of it, with a cancel, and with the
\* metadata that ends the flash, whatever commands and frames come between.
THEOREM ZslCorrect == Spec => []ZslMatchesDemand
<1>1. ZslInv => ZslMatchesDemand
  BY DEF ZslInv, ZslMatchesDemand
<1> QED BY <1>1, ZslInit, ZslKept, PTL DEF Spec
-----------------------------------------------------------------------------
(* The invariant. What it says of bundles is written with sets of bundles and  *)
(* relations between them, which taking out and putting in entries keeps.      *)

MatchedOnes   == { n \in Bundle : n.matched }
WaitingOnes   == { n \in Bundle : ~n.matched }
Having(s)     == { n \in Bundle : n.buf[s] # NoFrame }

\* What a bundle holds when the streams have delivered up to l, in a queue of low
\* priority or not: frames that came, of its own id but for the metadata of a queue
\* of low priority, and as long as it has no id of its own nothing else.
OwnId(n, s, lo) == n.buf[s] # NoFrame /\ (lo => s # Metadata)
Sound(n, l, lo) ==
  /\ \A s \in Stream : n.buf[s] <= l[s]
  /\ \A s \in Stream : OwnId(n, s, lo) => n.buf[s] = n.idx
  /\ n.metaIdx > 0 => /\ lo /\ Metadata \in Stream /\ n.idx = n.metaIdx
                      /\ n.buf[Metadata] = n.metaIdx
                      /\ \A s \in Stream : ~OwnId(n, s, lo)
  /\ n.metaIdx = 0 => \E s \in Stream : OwnId(n, s, lo)
  /\ n.matched <=> Full(n)
SoundOnes(l, lo) == { n \in Bundle : Sound(n, l, lo) }

\* A bundle with its own frame id that lacks a buffer of a stream that has passed it.
Stuck(n, l) ==
  n.metaIdx = 0 /\ \E s \in Stream \ {Metadata} : n.buf[s] = NoFrame /\ n.idx < l[s]

\* How a bundle stands to a later one.
Before(m, n, l, lo) ==
  /\ n.matched => m.matched
  /\ ~m.matched => m.idx < n.idx \/ (lo /\ Stuck(n, l))
Ordered(l, lo) ==
  { p \in Bundle \X Bundle : Before(p[1], p[2], l, lo) }

\* Who has the buffers of a stream.
Owes(s) == owed[s] = Tally(queue, Having(s)) + app[s] + Flag(pc = "comp" /\ hand.stream = s)
                     + lost[s]

\* The queue of a stopped channel is empty, and the buffer in hand was the last.
RestInv ==
  /\ phase = "stopped" => pc = "idle" /\ queue = <<>> /\ matchCnt = 0
  /\ pc = "comp" => hand.idx = last[hand.stream]

CountInv == matchCnt >= Tally(queue, MatchedOnes)
OwedInv  == \A s \in Stream : Owes(s)

\* Metadata comes once per frame, or no queue is of low priority: the order and the
\* count of a queue whose metadata settles the ids of its bundles rest on this.
Orderly == Metadata \notin Repeating \/ \A a \in Attrs : ~a.low
LowInv   == attr.low => Metadata \notin Repeating
SoundInv == queue \in Seq(SoundOnes(last, attr.low))
OrderInv == Chain(queue, Ordered(last, attr.low))
ExactInv == matchCnt = Tally(queue, MatchedOnes)
BoundInv == Tally(queue, WaitingOnes) <= attr.maxUnmatched + 1
FreshInv ==
  pc = "comp" /\ hand.stream \notin Repeating =>
     \A k \in DOMAIN queue : queue[k].buf[hand.stream] < hand.idx
-----------------------------------------------------------------------------
(* Steps of the queue.                                                         *)

QueueType == queue \in Seq(Bundle) /\ matchCnt \in Nat

\* What can be counted of the bundles that are taken out.
LEMMA CountOut ==
  ASSUME queue \in Seq(Bundle), NEW F \in SUBSET DOMAIN queue
  PROVE  /\ DOMAIN queue = 1 .. Len(queue) /\ Len(queue) \in Nat
         /\ CountAt(queue, F, MatchedOnes) = Cardinality(F \cap Matched)
         /\ \A s \in Stream : CountAt(queue, F, Having(s)) = Holding(F)[s]
<1>1. DOMAIN queue = 1 .. Len(queue) /\ Len(queue) \in Nat /\ \A k \in F : queue[k] \in Bundle
  BY LenProperties
<1>2. { k \in F : queue[k] \in MatchedOnes } = F \cap Matched
  BY <1>1, Zenon DEF MatchedOnes, Matched
<1>3. ASSUME NEW s \in Stream
      PROVE  { k \in F : queue[k] \in Having(s) } = { k \in F : queue[k].buf[s] # NoFrame }
  BY <1>1, Zenon DEF Having
<1>4. \A s \in Stream : Holding(F)[s] = Cardinality({ k \in F : queue[k].buf[s] # NoFrame })
  BY Zenon DEF Holding
<1> QED BY <1>1, <1>2, <1>3, <1>4, Zenon DEF CountAt

\* Bundles taken out are as many fewer matched ones and as many fewer buffers.
LEMMA TakenOut ==
  ASSUME queue \in Seq(Bundle), NEW F \in SUBSET DOMAIN queue,
         queue' = Pick(queue, DOMAIN queue \ F)
  PROVE  /\ queue' \in Seq(Bundle)
         /\ Cardinality(F \cap Matched) \in Nat
         /\ Tally(queue', MatchedOnes) = Tally(queue, MatchedOnes) - Cardinality(F \cap Matched)
         /\ \A s \in Stream :
               /\ Holding(F)[s] \in Nat
               /\ Tally(queue', Having(s)) = Tally(queue, Having(s)) - Holding(F)[s]
<1> USE CountOut
<1>1. queue' = Pick(queue, (1 .. Len(queue)) \ F) /\ F \in SUBSET (1 .. Len(queue))
  BY Zenon
<1>2. /\ queue' \in Seq(Bundle)
      /\ CountAt(queue, F, MatchedOnes) \in Nat
      /\ Tally(queue', MatchedOnes)
            = Tally(queue, MatchedOnes) - CountAt(queue, F, MatchedOnes)
  BY <1>1, LeftTally, Zenon
<1>3. ASSUME NEW s \in Stream
      PROVE  /\ CountAt(queue, F, Having(s)) \in Nat
             /\ Tally(queue', Having(s))
                   = Tally(queue, Having(s)) - CountAt(queue, F, Having(s))
  BY <1>1, LeftTally, Zenon
<1> QED BY <1>2, <1>3, Zenon

\* Counts of a queue are numbers, and 0 in an empty one.
LEMMA CountTypes ==
  ASSUME NEW q \in Seq(Bundle)
  PROVE  /\ Tally(q, MatchedOnes) \in Nat /\ Tally(q, WaitingOnes) \in Nat
         /\ \A s \in Stream : Tally(q, Having(s)) \in Nat
         /\ q = <<>> => /\ Tally(q, MatchedOnes) = 0 /\ Tally(q, WaitingOnes) = 0
                        /\ \A s \in Stream : Tally(q, Having(s)) = 0
  BY TallyType, NoTally, Zenon

\* A flush that counts the matched bundles keeps the count.
LEMMA FlushCounts ==
  ASSUME queue \in Seq(Bundle), matchCnt \in Nat, CountInv, NEW F \in SUBSET DOMAIN queue,
         queue' = Pick(queue, DOMAIN queue \ F),
         matchCnt' = matchCnt - Cardinality(F \cap Matched)
  PROVE  queue' \in Seq(Bundle) /\ matchCnt' \in Nat /\ CountInv'
<1>1. /\ queue' \in Seq(Bundle) /\ Cardinality(F \cap Matched) \in Nat
      /\ Tally(queue', MatchedOnes) = Tally(queue, MatchedOnes) - Cardinality(F \cap Matched)
  BY TakenOut
<1>2. Tally(queue, MatchedOnes) \in Nat /\ Tally(queue', MatchedOnes) \in Nat
  BY <1>1, CountTypes
<1> QED BY <1>1, <1>2 DEF CountInv

\* The bundles that the steps flush are in the queue.
LEMMA FlushedFacts ==
  ASSUME queue \in Seq(Bundle)
  PROVE  /\ MatchedHead \subseteq DOMAIN queue /\ DOMAIN queue \subseteq DOMAIN queue
         /\ \A m : FlushedBy(m) \subseteq DOMAIN queue
  BY Zenon DEF MatchedHead, FlushedBy
-----------------------------------------------------------------------------
(* What comp_and_enqueue finds, and what becomes of the bundles.               *)

\* The bundles it looks at are those of the queue that wait for buffers.
LEMMA FoundFacts ==
  ASSUME queue \in Seq(Bundle)
  PROVE  /\ Len(queue) \in Nat /\ DOMAIN queue = 1 .. Len(queue)
         /\ Found \subseteq Unmatched /\ Passed \subseteq Unmatched /\ Unmatched \subseteq DOMAIN queue
         /\ Older \subseteq Passed /\ Newer \subseteq Passed
         /\ \A k \in Unmatched : ~queue[k].matched /\ k \in 1 .. Len(queue) /\ queue[k] \in Bundle
         /\ \A k \in DOMAIN queue : queue[k] \in Bundle /\ (queue[k].matched \/ k \in Unmatched)
         /\ Found # {} => Pos \in Found /\ Pos \in 1 .. Len(queue) /\ \A k \in Found : Pos <= k
         /\ Found = {} => Pos = Len(queue) + 1 /\ Passed = Unmatched
<1>1. Len(queue) \in Nat /\ DOMAIN queue = 1 .. Len(queue) /\ \A k \in DOMAIN queue : queue[k] \in Bundle
  BY LenProperties
<1>2. /\ Found \subseteq Unmatched /\ Passed \subseteq Unmatched /\ Unmatched \subseteq DOMAIN queue
      /\ Older \subseteq Passed /\ Newer \subseteq Passed
      /\ \A k \in DOMAIN queue : ~queue[k].matched <=> k \in Unmatched
  BY Zenon DEF Found, Passed, Unmatched, Older, Newer, Matched
<1>3. ASSUME Found # {} PROVE Pos \in Found /\ \A k \in Found : Pos <= k
  <2>1. Found \in SUBSET (1 .. Len(queue)) /\ Pos = Min(Found)
    BY <1>1, <1>2, <1>3, Zenon DEF Pos
  <2> QED BY <1>1, <1>3, <2>1, MinFacts
<1>4. ASSUME Found = {} PROVE Pos = Len(queue) + 1 /\ Passed = Unmatched
  <2>1. Pos = Len(queue) + 1
    BY <1>4 DEF Pos
  <2>2. \A k \in Unmatched : k < Pos
    BY <1>1, <1>2, <2>1
  <2> QED BY <2>1, <2>2 DEF Passed
<1> QED BY <1>1, <1>2, <1>3, <1>4, Zenon

\* A bundle's fields.
LEMMA BundleFields ==
  ASSUME NEW n \in Bundle
  PROVE  /\ n.idx \in Frame /\ n.buf \in [Stream -> 0 .. MaxFrame] /\ n.expected \in BOOLEAN
         /\ n.matched \in BOOLEAN /\ n.metaIdx \in 0 .. MaxFrame
         /\ n = [idx |-> n.idx, buf |-> n.buf, expected |-> n.expected, matched |-> n.matched,
                 metaIdx |-> n.metaIdx]
  BY DEF Bundle

\* A bundle of metadata alone takes the id of the buffer in hand, others keep theirs.
LEMMA ClaimedFacts ==
  ASSUME TypeOK, pc = "comp", NEW n \in Bundle
  PROVE  /\ Claimed(n) \in Bundle /\ Claimed(n).metaIdx = 0
         /\ Claimed(n).idx = IF n.metaIdx > 0 THEN hand.idx ELSE n.idx
         /\ Claimed(n).buf = n.buf /\ Claimed(n).matched = n.matched
         /\ Claimed(n).expected = n.expected
<1>1. hand.idx \in Frame
  BY HandFacts
<1>2. /\ n.metaIdx \in 0 .. MaxFrame /\ MaxFrame \in Nat
  BY BundleFields, ConstFacts
<1>3. CASE n.metaIdx > 0
  <2>1. Claimed(n) = [n EXCEPT !.metaIdx = 0, !.idx = hand.idx]
    BY <1>3 DEF Claimed
  <2>2. Claimed(n) = [idx |-> hand.idx, buf |-> n.buf, expected |-> n.expected,
                      matched |-> n.matched, metaIdx |-> 0]
    BY <2>1, BundleFields
  <2>3. 0 \in 0 .. MaxFrame
    BY <1>2
  <2> QED BY <1>1, <1>3, <2>2, <2>3, BundleFields DEF Bundle
<1>4. CASE n.metaIdx = 0
  <2>1. Claimed(n) = n
    BY <1>4 DEF Claimed
  <2> QED BY <1>1, <1>2, <1>4, <2>1
<1> QED BY <1>2, <1>3, <1>4

\* What a bundle becomes when the buffer in hand is put into it.
Completed(n) == [Filled(n) EXCEPT !.matched = TRUE, !.expected = FALSE]

\* The buffer fills the bundle's place for its stream.
LEMMA FilledFacts ==
  ASSUME TypeOK, pc = "comp", NEW n \in Bundle
  PROVE  /\ Filled(n) \in Bundle /\ Filled(n).metaIdx = 0
         /\ Filled(n).idx = IF n.metaIdx > 0 THEN hand.idx ELSE n.idx
         /\ \A s \in Stream : Filled(n).buf[s] = IF s = hand.stream THEN hand.idx ELSE n.buf[s]
         /\ Filled(n).matched = n.matched
<1>1. hand.stream \in Stream /\ hand.idx \in 0 .. MaxFrame
  BY HandFacts, FrameFacts, ConstFacts
<1>2. n.buf \in [Stream -> 0 .. MaxFrame]
  BY BundleFields
<1>3. /\ Claimed(n) \in Bundle /\ Claimed(n).metaIdx = 0
      /\ Claimed(n).idx = IF n.metaIdx > 0 THEN hand.idx ELSE n.idx
      /\ Claimed(n).buf = n.buf /\ Claimed(n).matched = n.matched
  BY ClaimedFacts
<1>4. Filled(n) = [Claimed(n) EXCEPT !.buf = [@ EXCEPT ![hand.stream] = hand.idx]]
  BY DEF Filled
<1>5. [n.buf EXCEPT ![hand.stream] = hand.idx] \in [Stream -> 0 .. MaxFrame]
  BY <1>1, <1>2
<1> DEFINE c == Claimed(n)
<1> HIDE DEF c
<1>6. c \in Bundle /\ c.buf = n.buf /\ Filled(n) = [c EXCEPT !.buf = [n.buf EXCEPT ![hand.stream] = hand.idx]]
  BY <1>3, <1>4 DEF c
<1>7. /\ Filled(n) \in Bundle /\ Filled(n).idx = c.idx /\ Filled(n).metaIdx = c.metaIdx
      /\ Filled(n).matched = c.matched
      /\ Filled(n).buf = [n.buf EXCEPT ![hand.stream] = hand.idx]
  BY <1>5, <1>6 DEF Bundle
<1> QED BY <1>1, <1>2, <1>3, <1>7 DEF c

\* Marking or completing it changes the flags alone.
LEMMA PutFacts ==
  ASSUME TypeOK, pc = "comp", NEW n \in Bundle
  PROVE  /\ Completed(n) \in Bundle /\ Completed(n).matched /\ Marked(n) \in Bundle
         /\ Marked(n).matched = n.matched
         /\ Completed(n).idx = Filled(n).idx /\ Marked(n).idx = Filled(n).idx
         /\ Completed(n).buf = Filled(n).buf /\ Marked(n).buf = Filled(n).buf
         /\ Completed(n).metaIdx = 0 /\ Marked(n).metaIdx = 0
<1> DEFINE f == Filled(n)
           e == f.expected \/ diverted = hand.idx
<1>1. f \in Bundle /\ f.metaIdx = 0 /\ f.matched = n.matched
  BY FilledFacts
<1>2. e \in BOOLEAN
  OBVIOUS
<1>3. Completed(n) = [f EXCEPT !.matched = TRUE, !.expected = FALSE] /\ Marked(n) = [f EXCEPT !.expected = e]
  BY DEF Completed, Marked
<1> HIDE DEF f, e
<1>4. /\ Completed(n) \in Bundle /\ Completed(n).matched /\ Marked(n) \in Bundle
      /\ Marked(n).matched = f.matched
      /\ Completed(n).idx = f.idx /\ Marked(n).idx = f.idx
      /\ Completed(n).buf = f.buf /\ Marked(n).buf = f.buf
      /\ Completed(n).metaIdx = f.metaIdx /\ Marked(n).metaIdx = f.metaIdx
  BY <1>1, <1>2, <1>3 DEF Bundle
<1> QED BY <1>1, <1>4 DEF f

\* The bundle that is made for the buffer in hand.
LEMMA NewFacts ==
  ASSUME TypeOK, pc = "comp"
  PROVE  /\ NewBundle \in Bundle /\ NewBundle.idx = hand.idx
         /\ \A s \in Stream : NewBundle.buf[s] = IF s = hand.stream THEN hand.idx ELSE NoFrame
         /\ NewBundle.matched = (Cardinality(Stream) = 1)
         /\ NewBundle.metaIdx = IF attr.low /\ hand.stream = Metadata THEN hand.idx ELSE 0
<1>1. hand.stream \in Stream /\ hand.idx \in 0 .. MaxFrame /\ hand.idx \in Frame /\ MaxFrame \in Nat
  BY HandFacts, FrameFacts, ConstFacts
<1>2. /\ (IF attr.low /\ hand.stream = Metadata THEN hand.idx ELSE 0) \in 0 .. MaxFrame
      /\ [s \in Stream |-> IF s = hand.stream THEN hand.idx ELSE NoFrame] \in [Stream -> 0 .. MaxFrame]
  BY <1>1 DEF NoFrame
<1>3. (Cardinality(Stream) = 1) \in BOOLEAN
      /\ (hand.idx \in {diverted, good} /\ Cardinality(Stream) > 1) \in BOOLEAN
  OBVIOUS
<1> QED BY <1>1, <1>2, <1>3 DEF NewBundle, Bundle
-----------------------------------------------------------------------------
(* The queue's type and the count of matched bundles, step by step.            *)

\* The bundle at Pos is replaced.
LEMMA Replaced ==
  ASSUME TypeOK, pc = "comp", Found # {}, NEW e \in Bundle
  PROVE  /\ [queue EXCEPT ![Pos] = e] \in Seq(Bundle)
         /\ Len([queue EXCEPT ![Pos] = e]) = Len(queue)
         /\ Tally([queue EXCEPT ![Pos] = e], MatchedOnes)
               = Tally(queue, MatchedOnes) + Flag(e.matched)
         /\ Tally([queue EXCEPT ![Pos] = e], WaitingOnes)
               = Tally(queue, WaitingOnes) - Flag(e.matched)
         /\ \A s \in Stream : Tally([queue EXCEPT ![Pos] = e], Having(s))
               = Tally(queue, Having(s)) - Flag(queue[Pos].buf[s] # NoFrame)
                                         + Flag(e.buf[s] # NoFrame)
<1>1. queue \in Seq(Bundle)
  BY DEF TypeOK
<1>2. Pos \in 1 .. Len(queue) /\ queue[Pos] \in Bundle /\ ~queue[Pos].matched
  BY <1>1, FoundFacts
<1> DEFINE q == queue
           p == Pos
           r == [q EXCEPT ![p] = e]
<1> HIDE DEF q, p
<1>3. q \in Seq(Bundle) /\ p \in 1 .. Len(q) /\ q[p] \in Bundle /\ ~q[p].matched
  BY <1>1, <1>2 DEF q, p
<1>4. r \in Seq(Bundle) /\ Len(r) = Len(q)
  BY <1>3, ExceptTally
<1>5. Tally(r, MatchedOnes) = Tally(q, MatchedOnes) - (IF q[p] \in MatchedOnes THEN 1 ELSE 0)
                                                    + IF e \in MatchedOnes THEN 1 ELSE 0
  BY <1>3, ExceptTally
<1>6. Tally(r, WaitingOnes) = Tally(q, WaitingOnes) - (IF q[p] \in WaitingOnes THEN 1 ELSE 0)
                                                    + IF e \in WaitingOnes THEN 1 ELSE 0
  BY <1>3, ExceptTally
<1>7. \A s \in Stream :
        Tally(r, Having(s)) = Tally(q, Having(s)) - (IF q[p] \in Having(s) THEN 1 ELSE 0)
                                                  + IF e \in Having(s) THEN 1 ELSE 0
  BY <1>3, ExceptTally
<1>8. /\ Tally(q, MatchedOnes) \in Nat /\ Tally(q, WaitingOnes) \in Nat
      /\ \A s \in Stream : Tally(q, Having(s)) \in Nat
  BY <1>3, CountTypes
<1> HIDE DEF r
<1>9. Tally(r, MatchedOnes) = Tally(q, MatchedOnes) + Flag(e.matched)
  BY <1>3, <1>5, <1>8 DEF MatchedOnes, Flag
<1>10. Tally(r, WaitingOnes) = Tally(q, WaitingOnes) - Flag(e.matched)
  BY <1>3, <1>6, <1>8 DEF WaitingOnes, Flag
<1>11. ASSUME NEW s \in Stream
       PROVE  Tally(r, Having(s)) = Tally(q, Having(s)) - Flag(q[p].buf[s] # NoFrame)
                                                        + Flag(e.buf[s] # NoFrame)
  <2>1. (q[p] \in Having(s) <=> q[p].buf[s] # NoFrame) /\ (e \in Having(s) <=> e.buf[s] # NoFrame)
    BY <1>3, Zenon DEF Having
  <2> QED BY <1>7, <1>8, <2>1 DEF Flag
<1> QED BY <1>4, <1>9, <1>10, <1>11 DEF r, q, p

\* The bundles that a complete one supersedes lie before it.
LEMMA StaleFacts ==
  ASSUME queue \in Seq(Bundle), Found # {}
  PROVE  /\ Stale \subseteq DOMAIN queue /\ Pos \notin Stale /\ \A k \in Stale : k < Pos
         /\ Older # {} => Min(Older) \in Older /\ \A k \in Older : Min(Older) <= k
<1>1. /\ Len(queue) \in Nat /\ DOMAIN queue = 1 .. Len(queue) /\ Pos \in 1 .. Len(queue)
      /\ Older \in SUBSET (1 .. Len(queue))
  BY FoundFacts
<1>2. ASSUME Older # {} PROVE Min(Older) \in Older /\ \A k \in Older : Min(Older) <= k
  BY <1>1, <1>2, MinFacts
<1>3. \A k \in Stale : k < Pos /\ k \in 1 .. Len(queue)
  <2>1. CASE Older = {}
    BY <2>1 DEF Stale
  <2>2. CASE Older # {}
    <3>1. Stale = Min(Older) .. (Pos - 1) /\ Min(Older) \in 1 .. Len(queue)
      BY <1>1, <1>2, <2>2 DEF Stale
    <3> QED BY <1>1, <3>1
  <2> QED BY <2>1, <2>2
<1>4. Pos \notin Stale
  BY <1>1, <1>3
<1> QED BY <1>1, <1>2, <1>3, <1>4

\* The bundles that make room are in the queue.
LEMMA TrimmedFacts ==
  ASSUME queue \in Seq(Bundle), Excess <= 0 \/ Older # {}
  PROVE  /\ Trimmed \subseteq DOMAIN queue
         /\ Excess <= 0 => Trimmed = {}
         /\ Older # {} => Min(Older) \in Older /\ \A k \in Older : Min(Older) <= k
<1>1. /\ Len(queue) \in Nat /\ DOMAIN queue = 1 .. Len(queue)
      /\ Older \in SUBSET (1 .. Len(queue))
  BY FoundFacts
<1>2. ASSUME Older # {} PROVE Min(Older) \in Older /\ \A k \in Older : Min(Older) <= k
  BY <1>1, <1>2, MinFacts
<1>3. ASSUME Excess <= 0 PROVE Trimmed = {}
  BY <1>3 DEF Trimmed
<1>4. ASSUME ~(Excess <= 0) PROVE Trimmed \subseteq DOMAIN queue
  <2>1. Min(Older) \in 1 .. Len(queue)
    BY <1>1, <1>2, <1>4
  <2>2. Spare \subseteq 1 .. Len(queue)
    <3>1. Spare \subseteq Min(Older) .. Len(queue)
      BY Zenon DEF Spare
    <3> QED BY <1>1, <2>1, <3>1
  <2>3. Trimmed \subseteq Spare \cup {Min(Older)}
    BY <1>4 DEF Trimmed
  <2> QED BY <1>1, <2>1, <2>2, <2>3
<1> QED BY <1>1, <1>2, <1>3, <1>4

\* What a completed bundle adds, and what those it supersedes take away.
LEMMA CompleteCounts ==
  ASSUME TypeOK, Complete
  PROVE  LET q == [queue EXCEPT ![Pos] = Completed(queue[Pos])] IN
         /\ q \in Seq(Bundle) /\ Len(q) = Len(queue)
         /\ queue' = Pick(q, (1 .. Len(q)) \ Stale) /\ queue' \in Seq(Bundle)
         /\ Cardinality(Stale \cap Matched) \in Nat
         /\ Tally(queue', MatchedOnes)
               = Tally(queue, MatchedOnes) + 1 - Cardinality(Stale \cap Matched)
         /\ \A s \in Stream :
               /\ Holding(Stale)[s] \in Nat
               /\ Tally(queue', Having(s))
                     = Tally(queue, Having(s)) + Flag(s = hand.stream) - Holding(Stale)[s]
<1> DEFINE e == Completed(queue[Pos])
           q == [queue EXCEPT ![Pos] = e]
<1>1. queue \in Seq(Bundle) /\ pc = "comp" /\ Found # {} /\ queue[Pos].buf[hand.stream] = NoFrame
      /\ queue' = Pick(q, DOMAIN queue \ Stale)
  BY DEF TypeOK, Complete, Completed
<1>2. /\ queue[Pos] \in Bundle /\ DOMAIN queue = 1 .. Len(queue) /\ Len(queue) \in Nat
      /\ Stale \in SUBSET (1 .. Len(queue)) /\ Pos \notin Stale /\ Pos \in DOMAIN queue
  BY <1>1, FoundFacts, StaleFacts
<1>3. /\ e \in Bundle /\ e.matched
      /\ \A s \in Stream : e.buf[s] = IF s = hand.stream THEN hand.idx ELSE queue[Pos].buf[s]
  BY <1>1, <1>2, PutFacts, FilledFacts
<1> HIDE DEF e
<1>4. /\ q \in Seq(Bundle) /\ Len(q) = Len(queue)
      /\ Tally(q, MatchedOnes) = Tally(queue, MatchedOnes) + Flag(e.matched)
      /\ \A s \in Stream : Tally(q, Having(s))
            = Tally(queue, Having(s)) - Flag(queue[Pos].buf[s] # NoFrame) + Flag(e.buf[s] # NoFrame)
  BY <1>1, <1>3, Replaced
<1>5. \A k \in Stale : q[k] = queue[k]
  BY <1>1, <1>2
<1>6. \A V : CountAt(q, Stale, V) = CountAt(queue, Stale, V)
  <2>1. ASSUME NEW V PROVE { k \in Stale : q[k] \in V } = { k \in Stale : queue[k] \in V }
    BY <1>5
  <2> QED BY <2>1, Zenon DEF CountAt
<1> HIDE DEF q
<1>7. queue' = Pick(q, (1 .. Len(q)) \ Stale) /\ Stale \in SUBSET (1 .. Len(q))
  BY <1>1, <1>2, <1>4
<1>8. /\ CountAt(queue, Stale, MatchedOnes) = Cardinality(Stale \cap Matched)
      /\ \A s \in Stream : CountAt(queue, Stale, Having(s)) = Holding(Stale)[s]
  BY <1>1, <1>2, CountOut
<1>9. /\ queue' \in Seq(Bundle)
      /\ CountAt(q, Stale, MatchedOnes) \in Nat
      /\ Tally(queue', MatchedOnes) = Tally(q, MatchedOnes) - CountAt(q, Stale, MatchedOnes)
  BY <1>4, <1>7, LeftTally
<1>10. \A s \in Stream : /\ CountAt(q, Stale, Having(s)) \in Nat
                         /\ Tally(queue', Having(s)) = Tally(q, Having(s)) - CountAt(q, Stale, Having(s))
  BY <1>4, <1>7, LeftTally
<1>11. /\ Tally(queue, MatchedOnes) \in Nat
       /\ \A s \in Stream : Tally(queue, Having(s)) \in Nat
  BY <1>1, CountTypes
<1>12. /\ Cardinality(Stale \cap Matched) \in Nat
       /\ Tally(queue', MatchedOnes)
               = Tally(queue, MatchedOnes) + 1 - Cardinality(Stale \cap Matched)
  BY <1>3, <1>4, <1>6, <1>8, <1>9, <1>11 DEF Flag
<1>13. ASSUME NEW s \in Stream
       PROVE  /\ Holding(Stale)[s] \in Nat
              /\ Tally(queue', Having(s))
                   = Tally(queue, Having(s)) + Flag(s = hand.stream) - Holding(Stale)[s]
  <2>1. Holding(Stale)[s] \in Nat /\ Tally(queue', Having(s)) = Tally(q, Having(s)) - Holding(Stale)[s]
    BY <1>6, <1>8, <1>10
  <2>2. Tally(q, Having(s)) = Tally(queue, Having(s)) + Flag(s = hand.stream)
    <3>1. hand.idx # NoFrame
      BY <1>1, HandFacts, FrameFacts
    <3>2. CASE s = hand.stream
      BY <1>1, <1>3, <1>4, <1>11, <3>1, <3>2 DEF Flag
    <3>3. CASE s # hand.stream
      BY <1>1, <1>3, <1>4, <1>11, <3>1, <3>3 DEF Flag
    <3> QED BY <3>2, <3>3
  <2>3. Tally(queue, Having(s)) \in Nat /\ Flag(s = hand.stream) \in {0, 1}
    BY <1>11, FlagFacts
  <2> QED BY <2>1, <2>2, <2>3
<1> QED BY <1>4, <1>7, <1>9, <1>12, <1>13 DEF q, e

\* Where a new bundle goes, and what stays of the queue beside it.
At   == IF Newer = {} THEN Len(queue) + 1 ELSE Min(Newer)
Kept == DOMAIN queue \ Trimmed
Front == Pick(queue, { k \in Kept : k < At })
Back  == Pick(queue, { k \in Kept : k >= At })

\* The place is one of the queue's or the one after it.
LEMMA AtFacts ==
  ASSUME queue \in Seq(Bundle)
  PROVE  /\ At \in 1 .. Len(queue) + 1 /\ At \in Int
         /\ Newer = {} => At = Len(queue) + 1
         /\ Newer # {} => At \in Newer /\ \A k \in Newer : At <= k
<1>1. Len(queue) \in Nat /\ Newer \in SUBSET (1 .. Len(queue))
  BY FoundFacts
<1>2. ASSUME Newer # {} PROVE At \in Newer /\ \A k \in Newer : At <= k
  <2>1. At = Min(Newer)
    BY <1>2 DEF At
  <2> QED BY <1>1, <1>2, <2>1, MinFacts
<1>3. ASSUME Newer = {} PROVE At = Len(queue) + 1
  BY <1>3 DEF At
<1>4. At \in 1 .. Len(queue) + 1
  <2>1. At \in 1 .. Len(queue) \/ At = Len(queue) + 1
    BY <1>1, <1>2, <1>3, Zenon
  <2> QED BY <1>1, <2>1
<1> QED BY <1>1, <1>2, <1>3, <1>4

\* A bundle enqueued, and those that made room for it.
LEMMA EnqueueCounts ==
  ASSUME TypeOK, pc = "comp", Excess <= 0 \/ Older # {}
  PROVE  LET q == Front \o <<NewBundle>> \o Back
             n == NewBundle
             p == Pick(queue, DOMAIN queue \ Trimmed) IN
         /\ Front \in Seq(Bundle) /\ Back \in Seq(Bundle) /\ q \in Seq(Bundle) /\ p \in Seq(Bundle)
         /\ \A V : /\ Tally(p, V) \in Nat /\ CountAt(queue, Trimmed, V) \in Nat
                   /\ Tally(p, V) = Tally(queue, V) - CountAt(queue, Trimmed, V)
                   /\ Tally(q, V) = Tally(p, V) + IF n \in V THEN 1 ELSE 0
<1> DEFINE n == NewBundle
           o == <<n>>
           p == Pick(queue, DOMAIN queue \ Trimmed)
<1>1. queue \in Seq(Bundle) /\ n \in Bundle
  BY NewFacts DEF TypeOK
<1>2. /\ Len(queue) \in Nat /\ DOMAIN queue = 1 .. Len(queue) /\ Trimmed \in SUBSET (1 .. Len(queue))
      /\ Kept \in SUBSET (1 .. Len(queue)) /\ At \in Int
      /\ p = Pick(queue, (1 .. Len(queue)) \ Trimmed) /\ p = Pick(queue, Kept)
  BY <1>1, FoundFacts, TrimmedFacts, AtFacts, Zenon DEF Kept
<1> DEFINE A == { k \in Kept : k < At }
           B == { k \in Kept : k >= At }
<1>3. A \in SUBSET (1 .. Len(queue)) /\ B \in SUBSET (1 .. Len(queue))
  BY <1>2, Zenon
<1>4. Front = Pick(queue, A) /\ Back = Pick(queue, B)
  BY DEF Front, Back
<1>5. /\ Front \in Seq(Bundle) /\ Back \in Seq(Bundle) /\ p \in Seq(Bundle)
  <2> HIDE DEF A, B
  <2>1. Pick(queue, A) \in Seq(Bundle) /\ Pick(queue, B) \in Seq(Bundle)
        /\ Pick(queue, Kept) \in Seq(Bundle)
    BY <1>1, <1>2, <1>3, PickFacts
  <2> QED BY <1>2, <1>4, <2>1, Zenon
<1>6. ASSUME NEW V PROVE Tally(Front, V) + Tally(Back, V) = Tally(p, V)
  BY <1>1, <1>2, CutTally DEF Front, Back
<1> HIDE DEF n, p, A, B
<1>7. o \in Seq(Bundle) /\ \A V : Tally(o, V) = IF n \in V THEN 1 ELSE 0
  BY <1>1, OneTally
<1> HIDE DEF o
<1>8. /\ Front \o o \in Seq(Bundle)
      /\ \A V : Tally(Front \o o, V) = Tally(Front, V) + Tally(o, V)
  BY <1>5, <1>7, ConcatTally
<1> DEFINE f == Front \o o
           q == f \o Back
<1>13. f \in Seq(Bundle)
  BY <1>8
<1> HIDE DEF f
<1>9. q \in Seq(Bundle) /\ \A V : Tally(q, V) = Tally(f, V) + Tally(Back, V)
  BY <1>5, <1>13, ConcatTally
<1> HIDE DEF q
<1>10. \A V : /\ Tally(p, V) \in Nat /\ Tally(Front, V) \in Nat /\ Tally(Back, V) \in Nat
  BY <1>5, TallyType
<1>11. \A V : /\ CountAt(queue, Trimmed, V) \in Nat
              /\ Tally(p, V) = Tally(queue, V) - CountAt(queue, Trimmed, V)
  BY <1>1, <1>2, LeftTally
<1>12. ASSUME NEW V PROVE Tally(q, V) = Tally(p, V) + IF n \in V THEN 1 ELSE 0
  <2>1. Tally(q, V) = Tally(Front, V) + (IF n \in V THEN 1 ELSE 0) + Tally(Back, V)
    BY <1>7, <1>8, <1>9 DEF f
  <2> QED BY <1>6, <1>10, <2>1
<1> QED BY <1>5, <1>9, <1>10, <1>11, <1>12 DEF q, p, n, f, o

\* What comp_and_enqueue does to the queue keeps its type and its count.
LEMMA CompQueue ==
  ASSUME TypeOK, CountInv, CompAndEnqueue
  PROVE  queue' \in Seq(Bundle) /\ matchCnt' \in Nat /\ CountInv'
<1>1. queue \in Seq(Bundle) /\ matchCnt \in Nat /\ matchCnt >= Tally(queue, MatchedOnes)
      /\ Tally(queue, MatchedOnes) \in Nat
  BY CountTypes DEF TypeOK, CountInv
<1>2. CASE Discard \/ Refuse
  BY <1>1, <1>2, Zenon DEF Discard, Refuse, queueVars, CountInv
<1>3. CASE Duplicate
  <2> DEFINE e == Claimed(queue[Pos])
  <2>1. /\ pc = "comp" /\ Found # {} /\ queue' = [queue EXCEPT ![Pos] = e] /\ matchCnt' = matchCnt
    BY <1>3 DEF Duplicate
  <2>2. e \in Bundle /\ ~e.matched
    BY <1>1, <2>1, FoundFacts, ClaimedFacts
  <2> HIDE DEF e
  <2>3. /\ queue' \in Seq(Bundle)
        /\ Tally(queue', MatchedOnes) = Tally(queue, MatchedOnes) + Flag(e.matched)
    BY <2>1, <2>2, Replaced
  <2> QED BY <1>1, <2>1, <2>2, <2>3 DEF CountInv, Flag
<1>4. CASE Fill
  <2> DEFINE e == Marked(queue[Pos])
  <2>1. /\ pc = "comp" /\ Found # {} /\ queue' = [queue EXCEPT ![Pos] = e] /\ matchCnt' = matchCnt
    BY <1>4 DEF Fill
  <2>2. e \in Bundle /\ ~e.matched
    BY <1>1, <2>1, FoundFacts, PutFacts
  <2> HIDE DEF e
  <2>3. /\ queue' \in Seq(Bundle)
        /\ Tally(queue', MatchedOnes) = Tally(queue, MatchedOnes) + Flag(e.matched)
    BY <2>1, <2>2, Replaced
  <2> QED BY <1>1, <2>1, <2>2, <2>3 DEF CountInv, Flag
<1>5. CASE Complete
  <2>1. matchCnt' = matchCnt + 1
    BY <1>5 DEF Complete, MatchedAt
  <2>2. /\ queue' \in Seq(Bundle) /\ Cardinality(Stale \cap Matched) \in Nat
        /\ Tally(queue', MatchedOnes) = Tally(queue, MatchedOnes) + 1 - Cardinality(Stale \cap Matched)
    BY <1>5, CompleteCounts
  <2> QED BY <1>1, <2>1, <2>2 DEF CountInv
<1>6. CASE Enqueue
  <2>1. /\ pc = "comp" /\ (Excess <= 0 \/ Older # {})
        /\ \/ /\ queue' = Front \o <<NewBundle>> \o Back
              /\ IF Cardinality(Stream) = 1 THEN matchCnt' = matchCnt + 1 ELSE matchCnt' = matchCnt
           \/ queue' = Pick(queue, DOMAIN queue \ Trimmed) /\ matchCnt' = matchCnt
    BY <1>6, Zenon DEF Enqueue, Front, Back, Kept, At
  <2>2. NewBundle \in Bundle /\ (NewBundle \in MatchedOnes <=> Cardinality(Stream) = 1)
    BY <2>1, NewFacts DEF MatchedOnes
  <2> DEFINE p == Pick(queue, DOMAIN queue \ Trimmed)
             q == Front \o <<NewBundle>> \o Back
  <2>3. /\ q \in Seq(Bundle) /\ p \in Seq(Bundle)
        /\ Tally(p, MatchedOnes) \in Nat /\ CountAt(queue, Trimmed, MatchedOnes) \in Nat
        /\ Tally(p, MatchedOnes) = Tally(queue, MatchedOnes) - CountAt(queue, Trimmed, MatchedOnes)
        /\ Tally(q, MatchedOnes) = Tally(p, MatchedOnes) + IF NewBundle \in MatchedOnes THEN 1 ELSE 0
    BY <2>1, EnqueueCounts
  <2>4. \/ queue' = q /\ matchCnt' = matchCnt + IF NewBundle \in MatchedOnes THEN 1 ELSE 0
        \/ queue' = p /\ matchCnt' = matchCnt
    BY <1>1, <2>1, <2>2
  <2> HIDE DEF p, q
  <2> QED BY <1>1, <2>3, <2>4 DEF CountInv
<1> QED BY <1>2, <1>3, <1>4, <1>5, <1>6, Zenon DEF CompAndEnqueue

\* What is dropped beyond a limit are positions of the queue.
LEMMA OverCounts ==
  ASSUME TypeOK, CountInv, NEW limit, BufDoneOver(limit)
  PROVE  /\ Surplus(limit) \in SUBSET DOMAIN queue
         /\ queue' = Pick(queue, DOMAIN queue \ Surplus(limit))
         /\ owed' = Returned(Surplus(limit))
         /\ queue' \in Seq(Bundle) /\ matchCnt' \in Nat /\ CountInv'
<1>1. queue \in Seq(Bundle) /\ matchCnt \in Nat
  BY DEF TypeOK
<1> DEFINE F == Surplus(limit)
<1>2. /\ F \in SUBSET DOMAIN queue /\ queue' = Pick(queue, DOMAIN queue \ F)
      /\ owed' = Returned(F) /\ matchCnt' = matchCnt - Cardinality(F \cap Matched)
  BY <1>1, FlushedFacts, Zenon DEF BufDoneOver, Flush
<1> HIDE DEF F
<1>3. queue' \in Seq(Bundle) /\ matchCnt' \in Nat /\ CountInv'
  BY <1>1, <1>2, FlushCounts
<1> QED BY <1>2, <1>3 DEF F

\* The matched head leaves the queue.
LEMMA DispatchCounts ==
  ASSUME queue \in Seq(Bundle), HeadMatched, queue' = Tail(queue)
  PROVE  /\ queue' \in Seq(Bundle) /\ Head(queue) \in Bundle
         /\ Tally(queue', MatchedOnes) = Tally(queue, MatchedOnes) - 1
         /\ Tally(queue', WaitingOnes) = Tally(queue, WaitingOnes)
         /\ \A s \in Stream : /\ Holding({1})[s] = Flag(Head(queue).buf[s] # NoFrame)
                              /\ Tally(queue', Having(s)) = Tally(queue, Having(s)) - Holding({1})[s]
<1>1. queue # <<>> /\ Head(queue).matched
  BY DEF HeadMatched
<1>2. /\ Head(queue) \in Bundle /\ queue' \in Seq(Bundle)
      /\ \A V : Tally(queue, V) = Tally(queue', V) + IF Head(queue) \in V THEN 1 ELSE 0
  BY <1>1, TailTally
<1>3. /\ Tally(queue', MatchedOnes) \in Nat /\ Tally(queue', WaitingOnes) \in Nat
      /\ \A s \in Stream : Tally(queue', Having(s)) \in Nat
  BY <1>2, CountTypes
<1>4. Head(queue) \in MatchedOnes /\ Head(queue) \notin WaitingOnes
  BY <1>1, <1>2 DEF MatchedOnes, WaitingOnes
<1>5. ASSUME NEW s \in Stream
      PROVE  /\ Holding({1})[s] = Flag(Head(queue).buf[s] # NoFrame)
             /\ Tally(queue', Having(s)) = Tally(queue, Having(s)) - Holding({1})[s]
  <2>1. Head(queue) \in Having(s) <=> Head(queue).buf[s] # NoFrame
    BY <1>2, Zenon DEF Having
  <2>2. queue[1] = Head(queue)
    BY <1>1
  <2>3. { k \in {1} : queue[k].buf[s] # NoFrame } = IF Head(queue).buf[s] # NoFrame THEN {1} ELSE {}
    BY <2>2
  <2>4. Cardinality({1}) = 1 /\ Cardinality({}) = 0
    BY FS_Singleton, FS_EmptySet
  <2>5. Holding({1})[s] = Flag(Head(queue).buf[s] # NoFrame)
    BY <2>3, <2>4 DEF Holding, Flag
  <2> QED BY <1>2, <1>3, <2>1, <2>5 DEF Flag
<1> QED BY <1>2, <1>3, <1>4, <1>5
-----------------------------------------------------------------------------
(* Types.                                                                      *)

QueueOK == queue \in Seq(Bundle) /\ matchCnt \in Nat /\ CountInv
IdsOK   == /\ attr \in AttrRecord
           /\ expected \in FrameId /\ good \in FrameId /\ withoutLed \in FrameId
           /\ ledOff \in FrameId /\ diverted \in FrameId
ReqOK   == pending \in 0 .. MaxRequest /\ retro \in 0 .. pending /\ burst \in 0 .. MaxRequest
ModeOK  == /\ bracket \in {"off", "wait", "active"}
           /\ {once, wait, flash, zoom, led, zsl, stopZsl, manual} \subseteq BOOLEAN
HandOK  == /\ pc \in {"idle", "comp", "skip", "settle", "dispatch"}
           /\ hand = NoHand \/ hand \in [stream : Stream, idx : Frame]
           /\ pc = "comp" <=> hand # NoHand
           /\ phase \in {"stopped", "starting", "started"}
           /\ last \in [Stream -> 0 .. MaxFrame]
RefsOK  == /\ owed \in [Stream -> Int] /\ app \in [Stream -> Nat] /\ lost \in [Stream -> Nat]
           /\ linked \subseteq Linked

\* The parts are the whole.
LEMMA TypeParts ==
  TypeOK /\ CountInv <=> QueueOK /\ IdsOK /\ ReqOK /\ ModeOK /\ HandOK /\ RefsOK
  BY DEF TypeOK, QueueOK, IdsOK, ReqOK, ModeOK, HandOK, RefsOK

TypeInv == TypeOK /\ CountInv /\ RestInv

\* In the beginning nothing is there.
LEMMA TypeInit == Init => TypeInv
<1> SUFFICES ASSUME Init PROVE TypeInv
  OBVIOUS
<1>1. 0 \in 0 .. MaxFrame /\ 0 \in 0 .. MaxRequest /\ 0 \in FrameId /\ attr \in AttrRecord
  BY ConstFacts, FrameFacts DEF Init
<1>2. queue = <<>> /\ queue \in Seq(Bundle) /\ matchCnt = 0
  BY DEF Init
<1>3. QueueOK
  <2>1. Tally(queue, MatchedOnes) = 0
    BY <1>2, NoTally
  <2> QED BY <1>2, <2>1 DEF QueueOK, CountInv
<1>4. IdsOK /\ ReqOK /\ HandOK /\ RefsOK
  BY <1>1 DEF Init, IdsOK, ReqOK, HandOK, RefsOK
<1>5. ModeOK
  BY DEF Init, ModeOK
<1>6. RestInv
  BY DEF Init, RestInv
<1> QED BY <1>3, <1>4, <1>5, <1>6, TypeParts DEF TypeInv

\* Every step keeps the queue's type and its count.
LEMMA QueueKept == TypeInv /\ [Next]_vars => QueueOK'
<1> SUFFICES ASSUME TypeInv, [Next]_vars PROVE QueueOK'
  OBVIOUS
<1>1. queue \in Seq(Bundle) /\ matchCnt \in Nat /\ CountInv /\ TypeOK
  BY DEF TypeInv, TypeOK
<1>2. ASSUME UNCHANGED queueVars PROVE QueueOK'
  BY <1>1, <1>2, Zenon DEF queueVars, QueueOK, CountInv
<1>3. ASSUME NEW F \in SUBSET DOMAIN queue, queue' = Pick(queue, DOMAIN queue \ F),
             matchCnt' = matchCnt - Cardinality(F \cap Matched)
      PROVE  QueueOK'
  BY <1>1, <1>3, FlushCounts DEF QueueOK
<1>4. ASSUME queue' = <<>>, matchCnt' \in Nat PROVE QueueOK'
  <2>1. queue' \in Seq(Bundle) /\ Tally(queue', MatchedOnes) = 0
    BY <1>4, NoTally
  <2> QED BY <1>4, <2>1 DEF QueueOK, CountInv
<1>5. ASSUME NEW i \in Frame, NEW s \in Stream, Buffer(s, i) PROVE QueueOK'
  BY <1>2, <1>5, Zenon DEF Buffer
<1>6. ASSUME NEW i \in Frame, NEW m \in MetaContent, MetadataBuffer(i, m) PROVE QueueOK'
  <2>1. FlushMeta(m) /\ FlushedBy(m) \in SUBSET DOMAIN queue
    BY <1>1, <1>6, FlushedFacts, Zenon DEF MetadataBuffer
  <2> QED BY <1>3, <2>1, Zenon DEF FlushMeta
<1>7. CASE CompAndEnqueue
  BY <1>1, <1>7, CompQueue DEF QueueOK
<1>8. CASE Skip
  BY <1>1, <1>8, OverCounts, Zenon DEF Skip, QueueOK
<1>9. CASE Overflow
  BY <1>1, <1>9, OverCounts, Zenon DEF Overflow, QueueOK
<1>10. CASE Dispatch
  <2>1. HeadMatched /\ queue' = Tail(queue) /\ matchCnt' = matchCnt - 1
    BY <1>10, Zenon DEF Dispatch
  <2>2. /\ queue' \in Seq(Bundle) /\ Tally(queue', MatchedOnes) = Tally(queue, MatchedOnes) - 1
    BY <1>1, <2>1, DispatchCounts
  <2>3. Tally(queue', MatchedOnes) \in Nat /\ Tally(queue, MatchedOnes) \in Nat
    BY <1>1, <2>2, CountTypes
  <2> QED BY <1>1, <2>1, <2>2, <2>3 DEF QueueOK, CountInv
<1>11. CASE Rest
  BY <1>2, <1>11, Zenon DEF Rest
<1>12. ASSUME NEW n \in 0 .. MaxRequest, NEW r \in 0 .. MaxRequest, Request(n, r) PROVE QueueOK'
  BY <1>2, <1>12, Zenon DEF Request
<1>13. ASSUME NEW mode \in Mode, ConfigNotify(mode) PROVE QueueOK'
  BY <1>2, <1>13, Zenon DEF ConfigNotify
<1>14. ASSUME Flush(DOMAIN queue) PROVE QueueOK'
  BY <1>3, <1>14, Zenon DEF Flush
<1>15. ASSUME NEW i \in 0 .. MaxFrame, FlushQueue(i) PROVE QueueOK'
  BY <1>14, <1>15, Zenon DEF FlushQueue
<1>16. ASSUME NEW on \in BOOLEAN, AeBracketing(on) \/ FlashBracketing(on) \/ Zoom1x(on)
       PROVE  QueueOK'
  BY <1>14, <1>16, Zenon DEF AeBracketing, FlashBracketing, Zoom1x, General
<1>17. ASSUME NEW on \in BOOLEAN, ManualZsl(on) PROVE QueueOK'
  BY <1>2, <1>17, Zenon DEF ManualZsl
<1>18. ASSUME NEW s \in Stream, GiveBack(s) PROVE QueueOK'
  BY <1>2, <1>18, Zenon DEF GiveBack
<1>19. CASE Start
  BY <1>1, <1>4, <1>19, Zenon DEF Start
<1>20. CASE Started
  BY <1>2, <1>20, Zenon DEF Started
<1>21. CASE StartFails \/ Stop
  BY <1>4, <1>21 DEF StartFails, Stop
<1>22. CASE UNCHANGED vars
  BY <1>2, <1>22, Zenon DEF vars
<1>23. CASE Relink
  BY <1>2, <1>23, RelinkFacts, Zenon DEF LinkKeeps
<1> QED BY <1>5, <1>6, <1>7, <1>8, <1>9, <1>10, <1>11, <1>12, <1>13, <1>15, <1>16, <1>17, <1>18,
           <1>19, <1>20, <1>21, <1>22, <1>23, Zenon DEF Next, Arrive, Serve, Upper, Session

\* The frame a metadata buffer makes the queue expect is a frame id.
LEMMA MetaIds ==
  ASSUME IdsOK, NEW i \in Frame, NEW m \in MetaContent
  PROVE  MetaExpected(m, i) \in FrameId /\ m.good \in FrameId /\ m.last \in FrameId
         /\ m.divert \in FrameId
<1>1. m.good \in FrameId /\ m.last \in FrameId /\ m.divert \in FrameId
  BY ConstFacts DEF Content
<1>2. i \in FrameId /\ Future \in FrameId
  BY FrameFacts
<1> DEFINE a == UserSettled(m, i)
           b == ~UserSettled(m, i) /\ LedEnds(m, i)
           c == ~UserSettled(m, i) /\ ~LedEnds(m, i) /\ m.good # NoFrame
           e == IF m.prep = "future" \/ (bracket = "wait" /\ m.prep = "none")
                THEN Future ELSE expected
<1>3. e \in FrameId /\ ledOff \in FrameId
  BY <1>2 DEF IdsOK
<1>4. MetaExpected(m, i) = CASE a -> i [] b -> ledOff [] c -> m.good [] OTHER -> e
  BY DEF MetaExpected
<1>5. ~(a /\ b) /\ ~(a /\ c) /\ ~(b /\ c)
  OBVIOUS
<1> HIDE DEF a, b, c, e
<1>6. MetaExpected(m, i) \in FrameId
  <2>1. CASE a
    BY <1>2, <1>4, <1>5, <2>1
  <2>2. CASE b
    BY <1>3, <1>4, <1>5, <2>2
  <2>3. CASE c
    BY <1>1, <1>4, <1>5, <2>3
  <2>4. CASE ~a /\ ~b /\ ~c
    BY <1>3, <1>4, <2>4
  <2> QED BY <2>1, <2>2, <2>3, <2>4
<1> QED BY <1>1, <1>6

\* Completing a bundle expects a frame that is an id.
LEMMA MatchedIds ==
  ASSUME IdsOK, NEW i \in Frame, MatchedAt(i) PROVE expected' \in FrameId
<1>1. attr.skip \in Nat /\ i \in Nat /\ withoutLed \in FrameId
  BY FrameFacts DEF IdsOK, AttrRecord
<1>2. Ahead(i + attr.skip) \in FrameId
  BY <1>1, AheadFacts
<1> QED BY <1>1, <1>2 DEF MatchedAt

\* Every step keeps the types of the ids and of the attributes.
LEMMA IdsKept == TypeInv /\ [Next]_vars => IdsOK'
<1> SUFFICES ASSUME TypeInv, [Next]_vars PROVE IdsOK'
  OBVIOUS
<1>1. IdsOK /\ HandOK /\ TypeOK
  BY TypeParts DEF TypeInv
<1>2. 0 \in FrameId /\ NoFrame \in FrameId /\ Future \in FrameId
  BY FrameFacts
<1>3. ASSUME UNCHANGED attr, UNCHANGED idVars PROVE IdsOK'
  BY <1>1, <1>3 DEF IdsOK, idVars
<1>4. ASSUME NEW i \in Frame, NEW s \in Stream, Buffer(s, i) PROVE IdsOK'
  BY <1>3, <1>4, Zenon DEF Buffer
<1>5. ASSUME NEW i \in Frame, NEW m \in MetaContent, MetadataBuffer(i, m) PROVE IdsOK'
  <2>1. MetaExpected(m, i) \in FrameId /\ m.good \in FrameId /\ m.last \in FrameId
        /\ m.divert \in FrameId
    BY <1>1, MetaIds
  <2>2. diverted' \in FrameId
    <3>1. Divert(m, i)
      BY <1>5 DEF MetadataBuffer
    <3> QED BY <1>1, <1>2, <2>1, <3>1 DEF Divert, IdsOK
  <2>3. CASE MetaZoom(m, i)
    <3>1. Ahead(i + 1) \in FrameId
      BY FrameFacts, AheadFacts
    <3> QED BY <1>1, <1>2, <2>2, <2>3, <3>1 DEF MetaZoom, IdsOK
  <2>4. CASE MetaPlain(m, i)
    <3>1. attr' \in AttrRecord
      <4>1. attr' = attr \/ attr' = [attr EXCEPT !.userExpected = 0]
        BY <2>4 DEF MetaPlain
      <4> QED BY <1>1, <1>2, <4>1 DEF IdsOK, AttrRecord
    <3>2. expected' \in FrameId /\ good' \in FrameId /\ withoutLed' \in FrameId /\ ledOff' \in FrameId
      BY <1>1, <2>1, <2>4 DEF MetaPlain, IdsOK
    <3> QED BY <2>2, <3>1, <3>2 DEF IdsOK
  <2> QED BY <1>5, <2>3, <2>4 DEF MetadataBuffer
<1>6. CASE CompAndEnqueue
  <2>1. UNCHANGED <<attr, good, withoutLed, ledOff>> /\ pc = "comp"
    BY <1>6, Zenon DEF CompAndEnqueue, Discard, Duplicate, Fill, Complete, Refuse, Enqueue, CompKeeps
  <2>2. hand.idx \in Frame
    BY <1>1, <2>1, HandFacts
  <2>3. diverted' = diverted \/ diverted' = NoFrame
    BY <1>6, Zenon DEF CompAndEnqueue, Discard, Duplicate, Fill, Complete, Refuse, Enqueue
  <2>4. expected' \in FrameId
    <3>1. CASE Complete
      <4>1. MatchedAt(hand.idx)
        BY <3>1 DEF Complete
      <4> QED BY <1>1, <2>2, <4>1, MatchedIds
    <3>2. CASE Enqueue
      <4>1. hand.idx + attr.skip \in Nat
        BY <1>1, <2>2, FrameFacts DEF IdsOK, AttrRecord
      <4>2. Ahead(hand.idx + attr.skip) \in FrameId
        BY <4>1, AheadFacts
      <4>3. expected' = expected \/ expected' = Ahead(hand.idx + attr.skip)
        BY <3>2, Zenon DEF Enqueue
      <4> QED BY <1>1, <4>2, <4>3 DEF IdsOK
    <3>3. CASE Discard \/ Duplicate \/ Fill \/ Refuse
      <4>1. expected' = expected
        BY <3>3, Zenon DEF Discard, Duplicate, Fill, Refuse
      <4> QED BY <1>1, <4>1 DEF IdsOK
    <3> QED BY <1>6, <3>1, <3>2, <3>3, Zenon DEF CompAndEnqueue
  <2> QED BY <1>1, <1>2, <2>1, <2>3, <2>4 DEF IdsOK
<1>7. CASE Serve
  BY <1>3, <1>7, Zenon DEF Serve, Skip, Overflow, Dispatch, Rest
<1>8. ASSUME NEW n \in 0 .. MaxRequest, NEW r \in 0 .. MaxRequest, Request(n, r) PROVE IdsOK'
  BY <1>3, <1>8, Zenon DEF Request
<1>9. ASSUME NEW mode \in Mode, ConfigNotify(mode) PROVE IdsOK'
  BY <1>1, <1>9 DEF ConfigNotify, IdsOK, idVars, AttrRecord
<1>10. ASSUME NEW i \in 0 .. MaxFrame, FlushQueue(i) PROVE IdsOK'
  <2>1. i \in FrameId
    BY ConstFacts DEF FrameId, Future
  <2> QED BY <1>1, <1>10, <2>1 DEF FlushQueue, IdsOK
<1>11. ASSUME NEW on \in BOOLEAN, \/ AeBracketing(on) \/ FlashBracketing(on)
                                  \/ Zoom1x(on) \/ ManualZsl(on)
       PROVE  IdsOK'
  BY <1>3, <1>11, Zenon DEF AeBracketing, FlashBracketing, Zoom1x, ManualZsl, General
<1>12. ASSUME NEW s \in Stream, GiveBack(s) PROVE IdsOK'
  BY <1>3, <1>12, Zenon DEF GiveBack
<1>13. CASE Start
  BY <1>1, <1>2, <1>13 DEF Start, IdsOK, AttrRecord
<1>14. CASE Started
  BY <1>3, <1>14, Zenon DEF Started
<1>15. CASE StartFails
  <2>1. attr' \in AttrRecord
    BY <1>2, <1>15 DEF StartFails, AttrRecord, Mode
  <2> QED BY <1>1, <1>2, <1>15, <2>1 DEF StartFails, IdsOK
<1>16. CASE Stop
  BY <1>1, <1>2, <1>16 DEF Stop, IdsOK
<1>17. CASE UNCHANGED vars
  BY <1>3, <1>17, Zenon DEF vars
<1>18. CASE Relink
  BY <1>3, <1>18, RelinkFacts, Zenon DEF LinkKeeps
<1> QED BY <1>4, <1>5, <1>6, <1>7, <1>8, <1>9, <1>10, <1>11, <1>12, <1>13, <1>14, <1>15, <1>16,
           <1>17, <1>18, Zenon DEF Next, Arrive, Upper, Session

\* Every step keeps the types of what was asked for.
LEMMA ReqKept == TypeInv /\ [Next]_vars => ReqOK'
<1> SUFFICES ASSUME TypeInv, [Next]_vars PROVE ReqOK'
  OBVIOUS
<1>1. ReqOK /\ IdsOK
  BY TypeParts DEF TypeInv
<1>2. ASSUME UNCHANGED <<pending, retro, burst>> PROVE ReqOK'
  BY <1>1, <1>2 DEF ReqOK
<1>3. CASE Arrive \/ CompAndEnqueue
  BY <1>2, <1>3, Zenon DEF Arrive, Buffer, MetadataBuffer, MetaZoom, MetaPlain, CompAndEnqueue,
     Discard, Duplicate, Fill, Complete, Refuse, Enqueue, CompKeeps, reqVars, modeVars
<1>4. CASE Skip \/ Rest
  BY <1>2, <1>4, Zenon DEF Skip, Rest, reqVars, modeVars
<1>5. CASE Overflow
  <2>1. burst' \in {0, pending, burst} /\ UNCHANGED <<pending, retro>>
    BY <1>5 DEF Overflow, TriggerZsl, StopZsl
  <2> QED BY <1>1, <2>1, ConstFacts DEF ReqOK
<1>6. CASE Dispatch
  <2>1. burst' \in {0, burst}
    BY <1>6 DEF Dispatch, StopZsl
  <2>2. /\ attr.mode = "burst" => pending > 0 /\ pending' = pending - 1
                                  /\ retro' = IF retro > 0 THEN retro - 1 ELSE 0
        /\ attr.mode # "burst" => pending' = pending /\ retro' = retro
    BY <1>1, <1>6 DEF Dispatch, Wanted
  <2> QED BY <1>1, <2>1, <2>2, ConstFacts DEF ReqOK
<1>7. ASSUME NEW n \in 0 .. MaxRequest, NEW r \in 0 .. MaxRequest, Request(n, r) PROVE ReqOK'
  BY <1>1, <1>7, RetroFacts DEF Request, ReqOK
<1>8. ASSUME NEW mode \in Mode, ConfigNotify(mode) PROVE ReqOK'
  BY <1>2, <1>8, Zenon DEF ConfigNotify, reqVars, modeVars
<1>9. ASSUME NEW i \in 0 .. MaxFrame, FlushQueue(i) PROVE ReqOK'
  BY <1>2, <1>9, Zenon DEF FlushQueue, reqVars, modeVars
<1>10. ASSUME NEW on \in BOOLEAN, \/ AeBracketing(on) \/ FlashBracketing(on)
                                  \/ Zoom1x(on) \/ ManualZsl(on)
       PROVE  ReqOK'
  BY <1>2, <1>10, Zenon DEF AeBracketing, FlashBracketing, Zoom1x, ManualZsl, General, reqVars
<1>11. ASSUME NEW s \in Stream, GiveBack(s) PROVE ReqOK'
  BY <1>2, <1>11, Zenon DEF GiveBack, reqVars, modeVars
<1>12. CASE Session
  BY <1>2, <1>12, RelinkFacts, Zenon DEF Session, LinkKeeps, Start, Started, StartFails, Stop,
     reqVars, modeVars
<1>13. CASE UNCHANGED vars
  BY <1>2, <1>13, Zenon DEF vars, reqVars, modeVars
<1> QED BY <1>3, <1>4, <1>5, <1>6, <1>7, <1>8, <1>9, <1>10, <1>11, <1>12, <1>13, Zenon
     DEF Next, Serve, Upper

\* A conjunction and a disjunction are true or false.
LEMMA Booleans == \A a, b : (a /\ b) \in BOOLEAN /\ (a \/ b) \in BOOLEAN /\ (~a) \in BOOLEAN
  OBVIOUS

\* The flags one by one.
LEMMA FlagParts ==
  ModeOK <=> /\ bracket \in {"off", "wait", "active"}
             /\ once \in BOOLEAN /\ wait \in BOOLEAN /\ flash \in BOOLEAN /\ zoom \in BOOLEAN
             /\ led \in BOOLEAN /\ zsl \in BOOLEAN /\ stopZsl \in BOOLEAN /\ manual \in BOOLEAN
  BY Zenon DEF ModeOK

\* Every step keeps the types of the flags.
LEMMA ModeKept == TypeInv /\ [Next]_vars => ModeOK'
<1> SUFFICES ASSUME TypeInv, [Next]_vars PROVE ModeOK'
  OBVIOUS
<1>1. /\ bracket \in {"off", "wait", "active"}
      /\ once \in BOOLEAN /\ wait \in BOOLEAN /\ flash \in BOOLEAN /\ zoom \in BOOLEAN
      /\ led \in BOOLEAN /\ zsl \in BOOLEAN /\ stopZsl \in BOOLEAN /\ manual \in BOOLEAN
  BY TypeParts, FlagParts DEF TypeInv
<1>2. FALSE \in BOOLEAN /\ TRUE \in BOOLEAN
  OBVIOUS
<1>3. ASSUME UNCHANGED modeVars, once' = once, wait' \in BOOLEAN PROVE ModeOK'
  BY <1>1, <1>3, Zenon DEF modeVars, ModeOK
<1>4. ASSUME NEW i \in Frame, NEW s \in Stream, Buffer(s, i) PROVE ModeOK'
  BY <1>1, <1>3, <1>4, Zenon DEF Buffer, reqVars, idVars
<1>5. ASSUME NEW i \in Frame, NEW m \in MetaContent, MetadataBuffer(i, m) PROVE ModeOK'
  <2>1. m.crop1x \in BOOLEAN /\ UNCHANGED <<zsl, burst, manual>>
    BY <1>5, ConstFacts DEF Content, MetadataBuffer
  <2>2. CASE MetaZoom(m, i)
    <3>1. zoom' \in BOOLEAN /\ UNCHANGED <<once, wait, bracket, flash, led, stopZsl>>
      BY <2>2, Booleans, Zenon DEF MetaZoom, reqVars
    <3> QED BY <1>1, <2>1, <3>1, Zenon DEF ModeOK
  <2>3. CASE MetaPlain(m, i)
    <3>1. /\ wait' \in BOOLEAN /\ once' \in BOOLEAN /\ stopZsl' \in BOOLEAN /\ led' \in BOOLEAN
          /\ UNCHANGED <<zoom, flash>>
      BY <2>3, Booleans, Zenon DEF MetaPlain
    <3>2. bracket' \in {"off", "wait", "active"}
      BY <1>1, <2>3 DEF MetaPlain, NewBracket
    <3> QED BY <1>1, <2>1, <3>1, <3>2, Zenon DEF ModeOK
  <2> QED BY <1>5, <2>2, <2>3 DEF MetadataBuffer
<1>6. CASE CompAndEnqueue
  <2>1. UNCHANGED <<once, wait, bracket, zoom, led, zsl, stopZsl, manual>>
    BY <1>6, Zenon DEF CompAndEnqueue, Discard, Duplicate, Fill, Complete, Refuse, Enqueue,
       CompKeeps, reqVars
  <2>2. flash' \in BOOLEAN
    <3>1. CASE Complete
      BY <3>1, Booleans, Zenon DEF Complete, MatchedAt
    <3>2. CASE Discard \/ Duplicate \/ Fill \/ Refuse \/ Enqueue
      BY <1>1, <3>2, Zenon DEF Discard, Duplicate, Fill, Refuse, Enqueue
    <3> QED BY <1>6, <3>1, <3>2, Zenon DEF CompAndEnqueue
  <2> QED BY <1>1, <2>1, <2>2, Zenon DEF ModeOK
<1>7. CASE Skip \/ Rest
  BY <1>1, <1>3, <1>7, Zenon DEF Skip, Rest, reqVars, idVars
<1>8. CASE Overflow
  <2>1. UNCHANGED <<once, flash, zoom, manual>>
    BY <1>8, Zenon DEF Overflow, idVars
  <2>2. /\ zsl' \in BOOLEAN /\ wait' \in BOOLEAN /\ led' \in BOOLEAN /\ stopZsl' \in BOOLEAN
        /\ bracket' \in {"off", "wait", "active"}
    <3>1. TriggerZsl
      BY <1>8 DEF Overflow
    <3>2. CASE ZslStarts /\ zsl' = TRUE /\ wait' = FALSE /\ UNCHANGED <<led, stopZsl, bracket>>
      BY <1>1, <1>2, <3>2, Zenon
    <3>3. CASE StopZsl /\ wait' = FALSE
      BY <1>2, <3>3, Zenon DEF StopZsl
    <3>4. CASE UNCHANGED <<zsl, led, burst, stopZsl, bracket, wait>>
      BY <1>1, <3>4, Zenon
    <3> QED BY <3>1, <3>2, <3>3, <3>4, Zenon DEF TriggerZsl
  <2> QED BY <1>1, <2>1, <2>2, Zenon DEF ModeOK
<1>9. CASE Dispatch
  <2>1. UNCHANGED <<once, flash, zoom, manual>>
    BY <1>9, Zenon DEF Dispatch, idVars
  <2>2. wait' \in BOOLEAN
    BY <1>1, <1>9, Zenon DEF Dispatch
  <2>3. StopZsl \/ UNCHANGED <<zsl, led, burst, stopZsl, bracket>>
    BY <1>9, Zenon DEF Dispatch
  <2>4. /\ zsl' \in BOOLEAN /\ led' \in BOOLEAN /\ stopZsl' \in BOOLEAN
        /\ bracket' \in {"off", "wait", "active"}
    BY <1>1, <1>2, <2>3, Zenon DEF StopZsl
  <2> QED BY <1>1, <2>1, <2>2, <2>4, Zenon DEF ModeOK
<1>10. ASSUME NEW n \in 0 .. MaxRequest, NEW r \in 0 .. MaxRequest, Request(n, r) PROVE ModeOK'
  <2>1. /\ wait' = FALSE /\ stopZsl' = FALSE /\ led' \in BOOLEAN
        /\ UNCHANGED <<once, bracket, flash, zoom, zsl, manual>>
    BY <1>10, Booleans, Zenon DEF Request, idVars
  <2> QED BY <1>1, <1>2, <2>1, Zenon DEF ModeOK
<1>11. ASSUME NEW mode \in Mode, ConfigNotify(mode) PROVE ModeOK'
  BY <1>1, <1>3, <1>11, Zenon DEF ConfigNotify, reqVars, idVars
<1>12. ASSUME NEW i \in 0 .. MaxFrame, FlushQueue(i) PROVE ModeOK'
  BY <1>1, <1>3, <1>12, Zenon DEF FlushQueue, reqVars
<1>13. ASSUME NEW on \in BOOLEAN, AeBracketing(on) PROVE ModeOK'
  <2>1. /\ UNCHANGED <<once, wait, flash, zoom, led, zsl, stopZsl, manual>>
        /\ bracket' \in {"off", "wait"}
    BY <1>13 DEF AeBracketing, General, idVars, reqVars
  <2> QED BY <1>1, <2>1, Zenon DEF ModeOK
<1>14. ASSUME NEW on \in BOOLEAN, FlashBracketing(on) \/ Zoom1x(on) PROVE ModeOK'
  <2>1. /\ UNCHANGED <<once, wait, led, zsl, stopZsl, manual, bracket>>
        /\ flash' \in {on, flash} /\ zoom' \in {on, zoom}
    BY <1>14, Zenon DEF FlashBracketing, Zoom1x, General, idVars, reqVars
  <2> QED BY <1>1, <1>14, <2>1, Zenon DEF ModeOK
<1>15. ASSUME NEW on \in BOOLEAN, ManualZsl(on) PROVE ModeOK'
  <2>1. /\ UNCHANGED <<once, wait, led, zsl, stopZsl, flash, zoom, bracket>> /\ manual' = on
    BY <1>15, Zenon DEF ManualZsl, idVars, reqVars
  <2> QED BY <1>1, <1>15, <2>1, Zenon DEF ModeOK
<1>16. ASSUME NEW s \in Stream, GiveBack(s) PROVE ModeOK'
  BY <1>1, <1>3, <1>16, Zenon DEF GiveBack, reqVars, idVars
<1>17. CASE Start \/ Started \/ Stop
  BY <1>1, <1>2, <1>3, <1>17, Zenon DEF Start, Started, Stop, reqVars, idVars
<1>18. CASE StartFails
  BY <1>1, <1>2, <1>18, Zenon DEF StartFails, modeVars, ModeOK
<1>19. CASE UNCHANGED vars
  BY <1>1, <1>3, <1>19, Zenon DEF vars, reqVars, idVars
<1>20. CASE Relink
  BY <1>1, <1>3, <1>20, RelinkFacts, Zenon DEF LinkKeeps, reqVars, idVars
<1> QED BY <1>4, <1>5, <1>6, <1>7, <1>8, <1>9, <1>10, <1>11, <1>12, <1>13, <1>14, <1>15, <1>16,
           <1>17, <1>18, <1>19, <1>20, Zenon DEF Next, Arrive, Serve, Upper, Session

PlaceInv == HandOK /\ RestInv

\* Every step keeps where the thread is and what it has in hand.
LEMMA PlaceKept == TypeInv /\ [Next]_vars => PlaceInv'
<1> SUFFICES ASSUME TypeInv, [Next]_vars PROVE PlaceInv'
  OBVIOUS
<1>1. HandOK /\ RestInv
  BY TypeParts DEF TypeInv
<1>2. MaxFrame \in Nat /\ \A i \in Frame : i \in 0 .. MaxFrame
  BY ConstFacts, FrameFacts
<1>3. ASSUME UNCHANGED <<pc, hand, phase, last, queue, matchCnt>> PROVE PlaceInv'
  BY <1>1, <1>3, Zenon DEF PlaceInv, HandOK, RestInv
<1>4. ASSUME NEW i \in Frame, NEW s \in Stream, Arrives(s, i) PROVE PlaceInv'
  <2>1. /\ pc' = "comp" /\ hand' = [stream |-> s, idx |-> i] /\ last' = [last EXCEPT ![s] = i]
        /\ phase # "stopped" /\ phase' = phase
    BY <1>4 DEF Arrives
  <2>2. hand' \in [stream : Stream, idx : Frame] /\ hand'.idx = i /\ hand'.stream = s
    BY <2>1
  <2>3. hand' # NoHand
    BY <2>2, FrameFacts DEF NoHand
  <2>4. last' \in [Stream -> 0 .. MaxFrame] /\ last'[s] = i
    BY <1>1, <1>2, <2>1 DEF HandOK
  <2>5. HandOK'
    BY <1>1, <2>1, <2>2, <2>3, <2>4 DEF HandOK
  <2> QED BY <2>1, <2>2, <2>4, <2>5 DEF PlaceInv, RestInv
<1>5. CASE Arrive
  BY <1>4, <1>5, SuperbufAssumption, Zenon DEF Arrive, Buffer, MetadataBuffer
<1>6. ASSUME pc # "idle", UNCHANGED <<phase, last>>, hand' = NoHand,
             pc' \in {"idle", "skip", "settle", "dispatch"}
      PROVE  PlaceInv'
  <2>1. phase # "stopped"
    BY <1>1, <1>6 DEF RestInv
  <2>2. HandOK'
    BY <1>1, <1>6 DEF HandOK
  <2> QED BY <1>6, <2>1, <2>2 DEF PlaceInv, RestInv
<1>7. CASE CompAndEnqueue
  <2>1. pc = "comp" /\ hand' = NoHand /\ pc' = "settle" /\ UNCHANGED envVars
    BY <1>7, Zenon DEF CompAndEnqueue, Discard, Duplicate, Fill, Complete, Refuse, Enqueue,
       CompKeeps, Settle
  <2> QED BY <1>6, <2>1, Zenon DEF envVars
<1>8. ASSUME pc # "comp" PROVE hand = NoHand
  BY <1>1, <1>8 DEF HandOK
<1>9. CASE Skip
  <2>1. pc = "skip" /\ pc' = "settle" /\ UNCHANGED <<phase, last>> /\ hand' = hand
    BY <1>9, Zenon DEF Skip, envVars
  <2> QED BY <1>6, <1>8, <2>1
<1>10. CASE Overflow
  <2>1. pc = "settle" /\ pc' = "dispatch" /\ UNCHANGED <<phase, last>> /\ hand' = hand
    BY <1>10, Zenon DEF Overflow, envVars
  <2> QED BY <1>6, <1>8, <2>1
<1>11. CASE Dispatch
  <2>1. pc = "dispatch" /\ pc' = pc /\ UNCHANGED <<phase, last>> /\ hand' = hand
    BY <1>11, Zenon DEF Dispatch
  <2> QED BY <1>6, <1>8, <2>1
<1>12. CASE Rest
  <2>1. pc = "dispatch" /\ pc' = "idle" /\ UNCHANGED <<phase, last>> /\ hand' = hand
    BY <1>12, Zenon DEF Rest, envVars
  <2> QED BY <1>6, <1>8, <2>1
<1>13. ASSUME pc = "idle", phase = "started", UNCHANGED <<phase, last, hand>>,
              pc' \in {"skip", "settle", "idle"}
       PROVE  PlaceInv'
  <2>1. HandOK'
    BY <1>1, <1>8, <1>13 DEF HandOK
  <2> QED BY <1>13, <2>1 DEF PlaceInv, RestInv
<1>14. ASSUME NEW n \in 0 .. MaxRequest, NEW r \in 0 .. MaxRequest, Request(n, r)
       PROVE  PlaceInv'
  BY <1>13, <1>14, Zenon DEF Request, Sends, envVars
<1>15. ASSUME NEW mode \in Mode, ConfigNotify(mode) PROVE PlaceInv'
  BY <1>13, <1>15, Zenon DEF ConfigNotify, Sends, envVars
<1>16. ASSUME NEW i \in 0 .. MaxFrame, FlushQueue(i) PROVE PlaceInv'
  BY <1>13, <1>16, Zenon DEF FlushQueue, Sends, envVars
<1>17. ASSUME NEW on \in BOOLEAN, \/ AeBracketing(on) \/ FlashBracketing(on)
                                  \/ Zoom1x(on) \/ ManualZsl(on)
       PROVE  PlaceInv'
  BY <1>13, <1>17, Zenon DEF AeBracketing, FlashBracketing, Zoom1x, ManualZsl, General, Sends, envVars
<1>18. ASSUME NEW s \in Stream, GiveBack(s) PROVE PlaceInv'
  BY <1>3, <1>18, Zenon DEF GiveBack, queueVars
<1>19. CASE Start
  <2>1. pc = "idle" /\ phase' = "starting" /\ UNCHANGED <<pc, hand>> /\ last' = Unregistered(last)
    BY <1>1, <1>19 DEF Start, RestInv
  <2>2. last' \in [Stream -> 0 .. MaxFrame]
    BY <1>1, <1>2, <2>1 DEF Unregistered, HandOK
  <2> QED BY <1>1, <2>1, <2>2 DEF PlaceInv, HandOK, RestInv
<1>20. CASE Started
  <2>1. UNCHANGED <<pc, hand, last>> /\ phase' = "started"
    BY <1>20, Zenon DEF Started
  <2> QED BY <1>1, <2>1 DEF PlaceInv, HandOK, RestInv
<1>21. CASE StartFails \/ Stop
  <2>1. pc = "idle" /\ UNCHANGED <<pc, hand, last>> /\ phase' = "stopped" /\ queue' = <<>> /\ matchCnt' = 0
    BY <1>21, Zenon DEF StartFails, Stop
  <2> QED BY <1>1, <2>1 DEF PlaceInv, HandOK, RestInv
<1>22. CASE UNCHANGED vars
  BY <1>3, <1>22, Zenon DEF vars, queueVars, envVars
<1>23. CASE Relink
  BY <1>3, <1>23, RelinkFacts, Zenon DEF LinkKeeps, queueVars
<1> QED BY <1>5, <1>7, <1>9, <1>10, <1>11, <1>12, <1>14, <1>15, <1>16, <1>17, <1>18, <1>19, <1>20,
           <1>21, <1>22, <1>23, Zenon DEF Next, Serve, Upper, Session

\* What bundles hold is a number for each stream.
LEMMA ReturnedType ==
  ASSUME TypeOK, NEW F \in SUBSET DOMAIN queue
  PROVE  /\ Returned(F) \in [Stream -> Int]
         /\ \A s \in Stream : Holding(F)[s] \in Nat /\ Returned(F)[s] = owed[s] - Holding(F)[s]
<1>1. queue \in Seq(Bundle) /\ owed \in [Stream -> Int]
  BY DEF TypeOK
<1>2. \A s \in Stream : Holding(F)[s] \in Nat
  <2>1. F \in SUBSET (1 .. Len(queue)) /\ \A s \in Stream : CountAt(queue, F, Having(s)) = Holding(F)[s]
    BY <1>1, CountOut, Zenon
  <2> QED BY <1>1, <2>1, LeftTally
<1>3. Returned(F) = [s \in Stream |-> owed[s] - Holding(F)[s]]
  BY DEF Returned
<1> QED BY <1>1, <1>2, <1>3

\* Every step keeps the types of the references.
LEMMA RefsKept == TypeInv /\ [Next]_vars => RefsOK'
<1> SUFFICES ASSUME TypeInv, [Next]_vars PROVE RefsOK'
  OBVIOUS
<1>1. RefsOK /\ TypeOK /\ CountInv /\ queue \in Seq(Bundle)
  BY TypeParts DEF TypeInv, TypeOK
<1>2. ASSUME UNCHANGED <<owed, app, lost, linked>> PROVE RefsOK'
  BY <1>1, <1>2 DEF RefsOK
<1>3. ASSUME NEW F \in SUBSET DOMAIN queue, owed' = Returned(F),
             UNCHANGED <<app, lost, linked>>
      PROVE  RefsOK'
  BY <1>1, <1>3, ReturnedType DEF RefsOK
<1>4. ASSUME NEW i \in Frame, NEW s \in Stream, Buffer(s, i) PROVE RefsOK'
  BY <1>1, <1>4 DEF Buffer, Arrives, Counted, RefsOK
<1>5. ASSUME NEW i \in Frame, NEW m \in MetaContent, MetadataBuffer(i, m) PROVE RefsOK'
  <2>1. FlushedBy(m) \in SUBSET DOMAIN queue
    BY <1>1, FlushedFacts, Zenon
  <2>2. owed' = Counted(Returned(FlushedBy(m)), Metadata) /\ Metadata \in Stream
        /\ UNCHANGED <<app, lost, linked>>
    BY <1>5 DEF MetadataBuffer, FlushMeta, Arrives
  <2>3. Returned(FlushedBy(m)) \in [Stream -> Int]
    BY <1>1, <2>1, ReturnedType
  <2> QED BY <1>1, <2>2, <2>3 DEF Counted, RefsOK
<1>6. CASE CompAndEnqueue
  <2>1. UNCHANGED <<app, lost, linked>>
    BY <1>6, Zenon DEF CompAndEnqueue, Discard, Duplicate, Fill, Complete, Refuse, Enqueue,
       CompKeeps, envVars
  <2>2. owed' \in [Stream -> Int]
    <3>1. CASE Discard \/ Duplicate \/ Refuse
      <4>1. owed' = HandReturned
        BY <3>1, Zenon DEF Discard, Duplicate, Refuse
      <4>2. hand.stream \in Stream
        BY <1>1, <3>1, HandFacts DEF Discard, Duplicate, Refuse
      <4> QED BY <1>1, <4>1, <4>2 DEF HandReturned, RefsOK
    <3>2. CASE Fill
      BY <1>1, <3>2 DEF Fill, RefsOK
    <3>3. CASE Complete
      <4>1. owed' = Returned(Stale) /\ Stale \in SUBSET DOMAIN queue
        BY <1>1, <3>3, StaleFacts, Zenon DEF Complete
      <4> QED BY <1>1, <4>1, ReturnedType
    <3>4. CASE Enqueue
      <4>1. Trimmed \in SUBSET DOMAIN queue
        BY <1>1, <3>4, TrimmedFacts, Zenon DEF Enqueue
      <4>2. Returned(Trimmed) \in [Stream -> Int]
        BY <1>1, <4>1, ReturnedType
      <4>3. \/ owed' = Returned(Trimmed)
            \/ owed' = [Returned(Trimmed) EXCEPT ![hand.stream] = @ - 1]
        BY <3>4, Zenon DEF Enqueue
      <4> QED BY <4>2, <4>3
    <3> QED BY <1>6, <3>1, <3>2, <3>3, <3>4, Zenon DEF CompAndEnqueue
  <2> QED BY <1>1, <2>1, <2>2 DEF RefsOK
<1>7. CASE Skip
  BY <1>1, <1>3, <1>7, OverCounts, Zenon DEF Skip, envVars
<1>8. CASE Overflow
  BY <1>1, <1>3, <1>8, OverCounts, Zenon DEF Overflow, envVars
<1>9. CASE Dispatch
  <2>1. {1} \in SUBSET DOMAIN queue
    <3>1. queue # <<>> /\ DOMAIN queue = 1 .. Len(queue) /\ Len(queue) \in Nat
      BY <1>1, <1>9, CountOut DEF Dispatch, HeadMatched
    <3> QED BY <1>1, <3>1
  <2>2. Returned({1}) \in [Stream -> Int] /\ \A s \in Stream : Holding({1})[s] \in Nat
    BY <1>1, <2>1, ReturnedType
  <2>3. \/ app' = [s \in Stream |-> app[s] + Holding({1})[s]] /\ owed' = owed
        \/ owed' = Returned({1}) /\ app' = app
    BY <1>9, Zenon DEF Dispatch
  <2>4. UNCHANGED <<lost, linked>>
    BY <1>9, Zenon DEF Dispatch
  <2>5. app \in [Stream -> Nat] /\ owed \in [Stream -> Int]
    BY <1>1 DEF RefsOK
  <2>6. app' \in [Stream -> Nat] /\ owed' \in [Stream -> Int]
    <3>1. CASE app' = [s \in Stream |-> app[s] + Holding({1})[s]] /\ owed' = owed
      BY <2>2, <2>5, <3>1
    <3>2. CASE owed' = Returned({1}) /\ app' = app
      BY <2>2, <2>5, <3>2
    <3> QED BY <2>3, <3>1, <3>2
  <2> QED BY <1>1, <2>4, <2>6, Zenon DEF RefsOK
<1>10. CASE Rest
  BY <1>2, <1>10, Zenon DEF Rest, envVars
<1>11. ASSUME NEW n \in 0 .. MaxRequest, NEW r \in 0 .. MaxRequest, Request(n, r) PROVE RefsOK'
  BY <1>2, <1>11, Zenon DEF Request, envVars
<1>12. ASSUME NEW mode \in Mode, ConfigNotify(mode) PROVE RefsOK'
  BY <1>2, <1>12, Zenon DEF ConfigNotify, envVars
<1>13. ASSUME Flush(DOMAIN queue), UNCHANGED <<app, lost, linked>> PROVE RefsOK'
  BY <1>1, <1>3, <1>13, FlushedFacts, Zenon DEF Flush
<1>14. ASSUME NEW i \in 0 .. MaxFrame, FlushQueue(i) PROVE RefsOK'
  BY <1>13, <1>14, Zenon DEF FlushQueue, envVars
<1>15. ASSUME NEW on \in BOOLEAN, AeBracketing(on) \/ FlashBracketing(on) \/ Zoom1x(on)
       PROVE  RefsOK'
  BY <1>13, <1>15, Zenon DEF AeBracketing, FlashBracketing, Zoom1x, General, envVars
<1>16. ASSUME NEW on \in BOOLEAN, ManualZsl(on) PROVE RefsOK'
  BY <1>2, <1>16, Zenon DEF ManualZsl, envVars
<1>17. ASSUME NEW s \in Stream, GiveBack(s) PROVE RefsOK'
  <2>1. /\ app[s] > 0 /\ app' = [app EXCEPT ![s] = @ - 1] /\ linked' = linked
        /\ \/ owed' = [owed EXCEPT ![s] = @ - 1] /\ lost' = lost
           \/ lost' = [lost EXCEPT ![s] = @ + 1] /\ owed' = owed
    BY <1>17, Zenon DEF GiveBack
  <2>2. app' \in [Stream -> Nat]
    BY <1>1, <2>1 DEF RefsOK
  <2>3. owed' \in [Stream -> Int]
    BY <1>1, <2>1 DEF RefsOK
  <2>4. lost' \in [Stream -> Nat]
    BY <1>1, <2>1 DEF RefsOK
  <2> QED BY <1>1, <2>1, <2>2, <2>3, <2>4, Zenon DEF RefsOK
<1>18. CASE Start \/ Started
  BY <1>2, <1>18, Zenon DEF Start, Started
<1>19. ASSUME NEW r, r \in [Stream -> Int] PROVE Unregistered(r) \in [Stream -> Int]
  BY <1>19 DEF Unregistered
<1>20. Unregistered(app) \in [Stream -> Nat]
  BY <1>1 DEF Unregistered, RefsOK
<1>21. CASE StartFails
  <2>1. \A s \in Stream : Holding(DOMAIN queue)[s] \in Nat
    BY <1>1, ReturnedType
  <2>2. lost' = [s \in Stream |-> IF s \in Own THEN 0 ELSE lost[s] + Holding(DOMAIN queue)[s]]
        /\ owed' = Unregistered(owed) /\ app' = Unregistered(app) /\ linked' \in {linked, {}}
    BY <1>21, Zenon DEF StartFails
  <2>3. lost' \in [Stream -> Nat]
    BY <1>1, <2>1, <2>2 DEF RefsOK
  <2> QED BY <1>1, <1>19, <1>20, <2>2, <2>3 DEF RefsOK
<1>22. CASE Stop
  <2>1. Returned(DOMAIN queue) \in [Stream -> Int]
    BY <1>1, ReturnedType
  <2> QED BY <1>1, <1>19, <1>20, <1>22, <2>1 DEF Stop, RefsOK
<1>23. CASE UNCHANGED vars
  BY <1>2, <1>23, Zenon DEF vars, envVars
<1>24. CASE Relink
  BY <1>1, <1>24, RelinkFacts, Zenon DEF LinkKeeps, RefsOK
<1> QED BY <1>4, <1>5, <1>6, <1>7, <1>8, <1>9, <1>10, <1>11, <1>12, <1>14, <1>15, <1>16, <1>17,
           <1>18, <1>21, <1>22, <1>23, <1>24, Zenon DEF Next, Arrive, Serve, Upper, Session

\* Every step keeps the types.
LEMMA TypeKept == TypeInv /\ [Next]_vars => TypeInv'
<1> SUFFICES ASSUME TypeInv, [Next]_vars PROVE TypeInv'
  OBVIOUS
<1>1. QueueOK' /\ IdsOK' /\ ReqOK' /\ ModeOK' /\ HandOK' /\ RefsOK' /\ RestInv'
  BY QueueKept, IdsKept, ReqKept, ModeKept, PlaceKept, RefsKept, Zenon DEF PlaceInv
<1>2. (QueueOK /\ IdsOK /\ ReqOK /\ ModeOK /\ HandOK /\ RefsOK)' => (TypeOK /\ CountInv)'
  BY TypeParts, PTL
<1> QED BY <1>1, <1>2 DEF TypeInv

\* Every variable of the queue and of the channel's thread has its type in every
\* state; in particular match_cnt, which is lowered with each matched bundle that is
\* dropped or dispatched, never passes below the number of matched bundles.
THEOREM TypeCorrect == Spec => []TypeOK
<1>1. TypeInv => TypeOK
  BY DEF TypeInv
<1> QED BY <1>1, TypeInit, TypeKept, PTL DEF Spec
-----------------------------------------------------------------------------
(* Who has the buffers.                                                        *)

\* The terms of the account are numbers.
LEMMA OwesTerms ==
  ASSUME TypeOK, NEW s \in Stream
  PROVE  /\ owed[s] \in Int /\ app[s] \in Nat /\ lost[s] \in Nat
         /\ Tally(queue, Having(s)) \in Nat
         /\ Flag(pc = "comp" /\ hand.stream = s) \in {0, 1}
  BY CountTypes, FlagFacts DEF TypeOK

\* Between buffers, bundles are taken out and their buffers given back.
LEMMA OwedOut ==
  ASSUME TypeOK, OwedInv, pc # "comp", pc' # "comp", UNCHANGED <<app, lost>>,
         NEW F \in SUBSET DOMAIN queue,
         queue' = Pick(queue, DOMAIN queue \ F), owed' = Returned(F)
  PROVE  OwedInv'
<1>1. queue \in Seq(Bundle)
  BY DEF TypeOK
<1>2. ASSUME NEW s \in Stream PROVE Owes(s)'
  <2>1. /\ Holding(F)[s] \in Nat
        /\ Tally(queue', Having(s)) = Tally(queue, Having(s)) - Holding(F)[s]
    BY <1>1, TakenOut
  <2>2. owed'[s] = owed[s] - Holding(F)[s]
    BY ReturnedType
  <2>3. owed[s] = Tally(queue, Having(s)) + app[s] + Flag(pc = "comp" /\ hand.stream = s)
                  + lost[s]
    BY DEF OwedInv, Owes
  <2>4. Flag(pc = "comp" /\ hand.stream = s) = 0 /\ Flag(pc' = "comp" /\ hand'.stream = s) = 0
    BY FlagFacts
  <2>5. Having(s)' = Having(s)
    BY Zenon DEF Having
  <2> QED BY <2>1, <2>2, <2>3, <2>4, <2>5, OwesTerms DEF Owes
<1> QED BY <1>2 DEF OwedInv

\* The buffer in hand is given back, put into a bundle, or into one of its own.
LEMMA OwedComp ==
  ASSUME TypeOK, CountInv, OwedInv, CompAndEnqueue
  PROVE  OwedInv'
<1>1. queue \in Seq(Bundle) /\ pc = "comp" /\ pc' = "settle" /\ owed \in [Stream -> Int]
      /\ UNCHANGED <<app, lost>>
  BY Zenon DEF TypeOK, CompAndEnqueue, Discard, Duplicate, Fill, Complete, Refuse, Enqueue, Settle,
     CompKeeps, envVars
<1>2. hand.stream \in Stream /\ hand.idx \in Frame /\ hand.idx # NoFrame
  BY <1>1, HandFacts, FrameFacts
<1> SUFFICES ASSUME NEW s \in Stream PROVE Owes(s)'
  BY DEF OwedInv
<1> DEFINE h == Flag(s = hand.stream)
           t == Tally(queue, Having(s))
           out == app[s] + lost[s]
<1>3. /\ owed[s] = t + out + h /\ h \in {0, 1} /\ t \in Nat /\ out \in Nat /\ owed[s] \in Int
  <2>1. owed[s] = t + app[s] + Flag(pc = "comp" /\ hand.stream = s) + lost[s]
    BY DEF OwedInv, Owes
  <2>2. Flag(pc = "comp" /\ hand.stream = s) = h
    BY <1>1 DEF Flag
  <2> QED BY <2>1, <2>2, FlagFacts, OwesTerms
<1>4. ASSUME owed'[s] = Tally(queue', Having(s)) + out PROVE Owes(s)'
  <2>1. Flag(pc' = "comp" /\ hand'.stream = s) = 0
    BY <1>1, FlagFacts
  <2>2. Having(s)' = Having(s)
    BY Zenon DEF Having
  <2>3. owed'[s] = Tally(queue', Having(s)) + app'[s] + 0 + lost'[s]
    <3>1. Tally(queue', Having(s)) \in Nat
      BY CompQueue, CountTypes
    <3>2. app'[s] = app[s] /\ lost'[s] = lost[s]
      BY <1>1
    <3> HIDE DEF h, t
    <3> QED BY <1>3, <1>4, <3>1, <3>2, OwesTerms
  <2> QED BY <2>1, <2>2, <2>3 DEF Owes
<1> HIDE DEF out
<1>5. CASE Discard \/ Refuse
  <2>1. owed' = HandReturned /\ queue' = queue
    BY <1>5, Zenon DEF Discard, Refuse, queueVars
  <2>2. owed'[s] = owed[s] - h
    BY <1>1, <1>2, <2>1 DEF HandReturned, Flag
  <2> HIDE DEF h, t
  <2>3. owed'[s] = t + out
    BY <1>3, <2>2
  <2> QED BY <1>4, <2>1, <2>3 DEF t
<1>6. CASE Duplicate
  <2> DEFINE e == Claimed(queue[Pos])
  <2>1. Found # {} /\ queue' = [queue EXCEPT ![Pos] = e] /\ owed' = HandReturned
    BY <1>6 DEF Duplicate
  <2>2. e \in Bundle /\ e.buf = queue[Pos].buf
    BY <1>1, <2>1, FoundFacts, ClaimedFacts
  <2> HIDE DEF e
  <2>3. Tally(queue', Having(s)) = t - Flag(queue[Pos].buf[s] # NoFrame) + Flag(queue[Pos].buf[s] # NoFrame)
    BY <1>1, <2>1, <2>2, Replaced
  <2>4. Flag(queue[Pos].buf[s] # NoFrame) \in {0, 1}
    BY FlagFacts
  <2>5. owed'[s] = owed[s] - h
    BY <1>1, <1>2, <2>1 DEF HandReturned, Flag
  <2> HIDE DEF h, t
  <2> QED BY <1>3, <1>4, <2>3, <2>4, <2>5
<1>7. CASE Fill
  <2> DEFINE e == Marked(queue[Pos])
  <2>1. /\ Found # {} /\ queue' = [queue EXCEPT ![Pos] = e] /\ owed' = owed
        /\ queue[Pos].buf[hand.stream] = NoFrame
    BY <1>7 DEF Fill
  <2>2. e \in Bundle /\ e.buf[s] = IF s = hand.stream THEN hand.idx ELSE queue[Pos].buf[s]
    BY <1>1, <2>1, FoundFacts, PutFacts, FilledFacts
  <2> HIDE DEF e
  <2>3. Tally(queue', Having(s)) = t - Flag(queue[Pos].buf[s] # NoFrame) + Flag(e.buf[s] # NoFrame)
    BY <1>1, <2>1, <2>2, Replaced
  <2>4. Flag(e.buf[s] # NoFrame) = Flag(queue[Pos].buf[s] # NoFrame) + h
    BY <1>2, <2>1, <2>2 DEF Flag
  <2>5. Flag(queue[Pos].buf[s] # NoFrame) \in {0, 1}
    BY FlagFacts
  <2> HIDE DEF h, t
  <2>6. Tally(queue', Having(s)) = t + h
    BY <1>3, <2>3, <2>4, <2>5
  <2>7. owed'[s] = Tally(queue', Having(s)) + out
    BY <1>3, <2>1, <2>6
  <2> QED BY <1>4, <2>7
<1>8. CASE Complete
  <2>1. /\ Holding(Stale)[s] \in Nat
        /\ Tally(queue', Having(s)) = t + h - Holding(Stale)[s]
    BY <1>8, CompleteCounts
  <2>2. owed' = Returned(Stale) /\ Stale \in SUBSET DOMAIN queue
    BY <1>1, <1>8, StaleFacts, Zenon DEF Complete
  <2>3. owed'[s] = owed[s] - Holding(Stale)[s]
    BY <2>2, ReturnedType
  <2> HIDE DEF h, t
  <2> QED BY <1>3, <1>4, <2>1, <2>3
<1>9. CASE Enqueue
  <2> DEFINE p == Pick(queue, DOMAIN queue \ Trimmed)
             q == Front \o <<NewBundle>> \o Back
             c == CountAt(queue, Trimmed, Having(s))
  <2>1. /\ Excess <= 0 \/ Older # {}
        /\ \/ queue' = q /\ owed' = Returned(Trimmed)
           \/ queue' = p /\ owed' = [Returned(Trimmed) EXCEPT ![hand.stream] = @ - 1]
    BY <1>9, Zenon DEF Enqueue, Front, Back, Kept, At
  <2>2. Trimmed \in SUBSET DOMAIN queue
    BY <1>1, <2>1, TrimmedFacts, Zenon
  <2>3. c = Holding(Trimmed)[s] /\ Returned(Trimmed) \in [Stream -> Int]
        /\ Returned(Trimmed)[s] = owed[s] - Holding(Trimmed)[s]
    BY <1>1, <2>2, CountOut, ReturnedType
  <2>4. NewBundle \in Having(s) <=> s = hand.stream
    BY <1>1, <1>2, NewFacts DEF Having
  <2>5. /\ Tally(p, Having(s)) \in Nat /\ c \in Nat
        /\ Tally(p, Having(s)) = t - c
        /\ Tally(q, Having(s)) = Tally(p, Having(s)) + IF NewBundle \in Having(s) THEN 1 ELSE 0
    BY <1>1, <2>1, EnqueueCounts
  <2>6. Tally(q, Having(s)) = Tally(p, Having(s)) + h
    BY <2>4, <2>5 DEF Flag
  <2>7. \/ queue' = q /\ owed'[s] = owed[s] - c
        \/ queue' = p /\ owed'[s] = owed[s] - c - h
    BY <1>2, <2>1, <2>3 DEF Flag
  <2> HIDE DEF p, q, c, h, t
  <2>8. CASE queue' = q /\ owed'[s] = owed[s] - c
    BY <1>3, <1>4, <2>5, <2>6, <2>8
  <2>9. CASE queue' = p /\ owed'[s] = owed[s] - c - h
    BY <1>3, <1>4, <2>5, <2>9
  <2> QED BY <2>7, <2>8, <2>9
<1> QED BY <1>5, <1>6, <1>7, <1>8, <1>9, Zenon DEF CompAndEnqueue

\* No reference on a buffer of the channel's own streams is lost.
KeptInv == \A s \in Own : lost[s] = 0

\* A reference is lost only when a buffer of a linked stream is given back or a start
\* fails.
LEMMA LostKept == TypeInv /\ KeptInv /\ [Next]_vars => KeptInv'
<1> SUFFICES ASSUME TypeInv, KeptInv, [Next]_vars, NEW e \in Own PROVE lost'[e] = 0
  BY DEF KeptInv
<1>1. lost[e] = 0 /\ e \in Stream /\ lost \in [Stream -> Nat]
  BY DEF KeptInv, Own, TypeInv, TypeOK
<1>2. ASSUME NEW s \in Stream, GiveBack(s) PROVE lost'[e] = 0
  <2>1. \/ lost' = lost
        \/ s \notin Own /\ lost' = [lost EXCEPT ![s] = @ + 1]
    BY <1>2, Zenon DEF GiveBack
  <2> QED BY <1>1, <2>1
<1>3. CASE StartFails
  <2>1. lost' = [s \in Stream |-> IF s \in Own THEN 0 ELSE lost[s] + Holding(DOMAIN queue)[s]]
    BY <1>3, Zenon DEF StartFails
  <2> QED BY <1>1, <2>1
<1>4. CASE lost' = lost
  BY <1>1, <1>4
<1>5. \/ lost' = lost \/ StartFails
      \/ \E s \in Stream : GiveBack(s)
  BY RelinkFacts, Zenon DEF Next, Arrive, Serve, Upper, Session, LinkKeeps, Buffer, MetadataBuffer, Arrives,
     CompAndEnqueue, Discard, Duplicate, Fill, Complete, Refuse, Enqueue, CompKeeps, Skip, Overflow,
     Dispatch, Rest, Request, ConfigNotify, FlushQueue, AeBracketing, FlashBracketing, Zoom1x,
     ManualZsl, General, Start, Started, Stop, vars, envVars
<1> QED BY <1>2, <1>3, <1>4, <1>5

\* Every step keeps the account.
LEMMA OwedKept == TypeInv /\ KeptInv /\ OwedInv /\ [Next]_vars => OwedInv'
<1> SUFFICES ASSUME TypeInv, KeptInv, OwedInv, [Next]_vars PROVE OwedInv'
  OBVIOUS
<1>1. TypeOK /\ CountInv /\ RestInv /\ queue \in Seq(Bundle)
  BY DEF TypeInv, TypeOK
<1>2. \A s \in Stream : lost[s] \in Nat /\ app[s] \in Nat /\ owed[s] \in Int
  BY <1>1, OwesTerms
<1>3. \A s \in Stream : owed[s] = Tally(queue, Having(s)) + app[s] + Flag(pc = "comp" /\ hand.stream = s)
                            + lost[s]
  BY DEF OwedInv, Owes
<1>4. \A s \in Stream : Having(s)' = Having(s)
  BY Zenon DEF Having
<1>5. ASSUME UNCHANGED <<queue, owed, app, lost>>, pc # "comp", pc' # "comp" PROVE OwedInv'
  <2>1. ASSUME NEW s \in Stream PROVE Owes(s)'
    <3>1. Flag(pc = "comp" /\ hand.stream = s) = 0 /\ Flag(pc' = "comp" /\ hand'.stream = s) = 0
      BY <1>5, FlagFacts
    <3> QED BY <1>3, <1>4, <1>5, <3>1 DEF Owes
  <2> QED BY <2>1 DEF OwedInv
<1>6. ASSUME NEW i \in Frame, NEW s \in Stream, Buffer(s, i) PROVE OwedInv'
  <2>1. /\ pc = "idle" /\ pc' = "comp" /\ hand' = [stream |-> s, idx |-> i]
        /\ app' = app /\ lost' = lost
        /\ queue' = queue /\ owed' = [owed EXCEPT ![s] = @ + 1]
    BY <1>6 DEF Buffer, Arrives, Counted, queueVars
  <2>2. ASSUME NEW e \in Stream PROVE Owes(e)'
    <3>1. Flag(pc = "comp" /\ hand.stream = e) = 0 /\ Flag(pc' = "comp" /\ hand'.stream = e) = Flag(e = s)
      BY <2>1 DEF Flag
    <3>2. owed'[e] = owed[e] + Flag(e = s)
      BY <1>1, <2>1, OwesTerms DEF TypeOK, Flag
    <3>3. owed'[e] = Tally(queue, Having(e)) + app[e] + Flag(e = s) + lost[e]
      BY <1>1, <1>3, <3>1, <3>2, OwesTerms, FlagFacts
    <3> QED BY <1>4, <2>1, <3>1, <3>3 DEF Owes
  <2> QED BY <2>2 DEF OwedInv
<1>7. ASSUME NEW i \in Frame, NEW m \in MetaContent, MetadataBuffer(i, m) PROVE OwedInv'
  <2> DEFINE F == FlushedBy(m)
  <2>1. /\ pc = "idle" /\ pc' = "comp" /\ hand' = [stream |-> Metadata, idx |-> i]
        /\ app' = app /\ lost' = lost
        /\ queue' = Pick(queue, DOMAIN queue \ F)
        /\ owed' = [Returned(F) EXCEPT ![Metadata] = @ + 1]
    BY <1>7 DEF MetadataBuffer, FlushMeta, Arrives, Counted
  <2>2. F \in SUBSET DOMAIN queue
    BY <1>1, FlushedFacts, Zenon
  <2> HIDE DEF F
  <2>3. /\ Returned(F) \in [Stream -> Int]
        /\ \A s \in Stream : Holding(F)[s] \in Nat /\ Returned(F)[s] = owed[s] - Holding(F)[s]
    BY <1>1, <2>2, ReturnedType
  <2>4. \A s \in Stream : Tally(queue', Having(s)) = Tally(queue, Having(s)) - Holding(F)[s]
    BY <1>1, <2>1, <2>2, TakenOut
  <2>5. ASSUME NEW e \in Stream PROVE Owes(e)'
    <3>1. /\ Flag(pc = "comp" /\ hand.stream = e) = 0
          /\ Flag(pc' = "comp" /\ hand'.stream = e) = Flag(e = Metadata)
      BY <2>1 DEF Flag
    <3>2. owed'[e] = owed[e] - Holding(F)[e] + Flag(e = Metadata)
      BY <1>1, <2>1, <2>3, OwesTerms DEF Flag
    <3>3. owed'[e] = Tally(queue', Having(e)) + app[e] + Flag(e = Metadata) + lost[e]
      BY <1>1, <1>3, <2>3, <2>4, <3>1, <3>2, OwesTerms, FlagFacts
    <3> QED BY <1>4, <2>1, <3>1, <3>3 DEF Owes
  <2> QED BY <2>5 DEF OwedInv
<1>8. CASE CompAndEnqueue
  BY <1>1, <1>8, OwedComp
<1>9. CASE Skip
  <2>1. pc # "comp" /\ pc' # "comp" /\ UNCHANGED <<app, lost>> /\ BufDoneOver(attr.lookBack)
    BY <1>9 DEF Skip, envVars
  <2> QED BY <1>1, <2>1, OverCounts, OwedOut
<1>10. CASE Overflow
  <2>1. pc # "comp" /\ pc' # "comp" /\ UNCHANGED <<app, lost>> /\ BufDoneOver(attr.waterMark)
    BY <1>10 DEF Overflow, envVars
  <2> QED BY <1>1, <2>1, OverCounts, OwedOut
<1>11. CASE Dispatch
  <2>1. /\ pc = "dispatch" /\ pc' = pc /\ HeadMatched /\ queue' = Tail(queue)
        /\ \/ app' = [s \in Stream |-> app[s] + Holding({1})[s]] /\ owed' = owed
           \/ owed' = Returned({1}) /\ app' = app
        /\ lost' = lost
    BY <1>11, Zenon DEF Dispatch
  <2>2. {1} \in SUBSET DOMAIN queue
    <3>1. queue # <<>> /\ DOMAIN queue = 1 .. Len(queue) /\ Len(queue) \in Nat
      BY <1>1, <2>1, CountOut DEF HeadMatched
    <3> QED BY <1>1, <3>1
  <2>3. ASSUME NEW s \in Stream PROVE Owes(s)'
    <3>1. /\ Holding({1})[s] \in Nat /\ Returned({1})[s] = owed[s] - Holding({1})[s]
          /\ Tally(queue', Having(s)) = Tally(queue, Having(s)) - Holding({1})[s]
      BY <1>1, <2>1, <2>2, ReturnedType, DispatchCounts
    <3>2. Flag(pc = "comp" /\ hand.stream = s) = 0 /\ Flag(pc' = "comp" /\ hand'.stream = s) = 0
      BY <2>1, FlagFacts
    <3>3. \/ app'[s] = app[s] + Holding({1})[s] /\ owed'[s] = owed[s]
          \/ owed'[s] = owed[s] - Holding({1})[s] /\ app'[s] = app[s]
      BY <2>1, <3>1
    <3>5. owed[s] = Tally(queue, Having(s)) + app[s] + lost[s] /\ lost'[s] = lost[s]
      BY <1>1, <1>3, <2>1, <3>2, OwesTerms
    <3>6. Tally(queue, Having(s)) \in Nat
      BY <1>1, OwesTerms
    <3>4. owed'[s] = Tally(queue', Having(s)) + app'[s] + 0 + lost'[s]
      BY <1>2, <3>1, <3>3, <3>5, <3>6
    <3> QED BY <1>4, <3>2, <3>4 DEF Owes
  <2> QED BY <2>3 DEF OwedInv
<1>12. CASE Rest
  BY <1>5, <1>12 DEF Rest, queueVars, envVars
<1>13. ASSUME NEW n \in 0 .. MaxRequest, NEW r \in 0 .. MaxRequest, Request(n, r) PROVE OwedInv'
  BY <1>5, <1>13 DEF Request, Sends, queueVars, envVars
<1>14. ASSUME NEW mode \in Mode, ConfigNotify(mode) PROVE OwedInv'
  BY <1>5, <1>14 DEF ConfigNotify, Sends, queueVars, envVars
<1>15. ASSUME Flush(DOMAIN queue), UNCHANGED <<app, lost>>, pc # "comp", pc' # "comp"
       PROVE  OwedInv'
  BY <1>1, <1>15, FlushedFacts, OwedOut DEF Flush
<1>16. ASSUME NEW i \in 0 .. MaxFrame, FlushQueue(i) PROVE OwedInv'
  BY <1>15, <1>16 DEF FlushQueue, Sends, envVars
<1>17. ASSUME NEW on \in BOOLEAN, AeBracketing(on) \/ FlashBracketing(on) \/ Zoom1x(on)
       PROVE  OwedInv'
  BY <1>15, <1>17 DEF AeBracketing, FlashBracketing, Zoom1x, General, Sends, envVars
<1>18. ASSUME NEW on \in BOOLEAN, ManualZsl(on) PROVE OwedInv'
  BY <1>5, <1>18 DEF ManualZsl, Sends, queueVars, envVars
<1>19. ASSUME NEW s \in Stream, GiveBack(s) PROVE OwedInv'
  <2>1. /\ app[s] > 0 /\ app' = [app EXCEPT ![s] = @ - 1] /\ UNCHANGED <<queue, pc, hand>>
        /\ \/ owed' = [owed EXCEPT ![s] = @ - 1] /\ lost' = lost
           \/ lost' = [lost EXCEPT ![s] = @ + 1] /\ owed' = owed
    BY <1>19, Zenon DEF GiveBack, queueVars
  <2>2. ASSUME NEW e \in Stream PROVE Owes(e)'
    <3> DEFINE h == Flag(pc = "comp" /\ hand.stream = e)
               t == Tally(queue, Having(e))
    <3>3. app \in [Stream -> Nat] /\ lost \in [Stream -> Nat] /\ owed \in [Stream -> Int]
      BY <1>1, Zenon DEF TypeOK
    <3>4. app'[e] = IF e = s THEN app[e] - 1 ELSE app[e]
      BY <2>1, <3>3
    <3>5. \/ owed'[e] = (IF e = s THEN owed[e] - 1 ELSE owed[e]) /\ lost'[e] = lost[e]
          \/ owed'[e] = owed[e] /\ lost'[e] = IF e = s THEN lost[e] + 1 ELSE lost[e]
      BY <2>1, <3>3
    <3>6. owed[e] = t + app[e] + h + lost[e] /\ h \in {0, 1} /\ t \in Nat
      BY <1>1, <1>3, OwesTerms, FlagFacts
    <3> HIDE DEF h, t
    <3>7. owed'[e] = t + app'[e] + h + lost'[e]
      BY <1>2, <3>4, <3>5, <3>6
    <3>2. owed'[e] = Tally(queue, Having(e)) + app'[e] + Flag(pc = "comp" /\ hand.stream = e) + lost'[e]
      BY <3>7 DEF h, t
    <3> QED BY <1>4, <2>1, <3>2 DEF Owes
  <2> QED BY <2>2 DEF OwedInv
<1>20. CASE Start
  <2>1. pc = "idle" /\ queue = <<>> /\ queue' = <<>> /\ UNCHANGED <<owed, app, lost, pc>>
    BY <1>1, <1>20 DEF Start, RestInv
  <2> QED BY <1>5, <2>1
<1>21. CASE Started
  <2>1. UNCHANGED <<queue, owed, app, lost, pc, hand>>
    BY <1>21, Zenon DEF Started, queueVars
  <2> QED BY <1>3, <1>4, <2>1 DEF OwedInv, Owes
<1>26. ASSUME NEW s \in Stream
       PROVE  /\ Holding(DOMAIN queue)[s] = Tally(queue, Having(s))
              /\ Returned(DOMAIN queue)[s] = owed[s] - Tally(queue, Having(s))
  <2>1. /\ CountAt(queue, DOMAIN queue, Having(s)) = Holding(DOMAIN queue)[s]
        /\ DOMAIN queue = 1 .. Len(queue)
        /\ Returned(DOMAIN queue)[s] = owed[s] - Holding(DOMAIN queue)[s]
    BY <1>1, CountOut, ReturnedType
  <2>2. Holding(DOMAIN queue)[s] = Tally(queue, Having(s))
    BY <2>1, Zenon DEF CountAt, Tally
  <2> QED BY <2>1, <2>2
<1>22. CASE StartFails
  <2>1. /\ queue' = <<>> /\ pc = "idle" /\ pc' = "idle"
        /\ owed' = Unregistered(owed) /\ app' = Unregistered(app)
        /\ lost' = [s \in Stream |-> IF s \in Own THEN 0 ELSE lost[s] + Holding(DOMAIN queue)[s]]
    BY <1>22, Zenon DEF StartFails
  <2>2. ASSUME NEW s \in Stream PROVE Owes(s)'
    <3>1. /\ Tally(queue', Having(s)) = 0 /\ Flag(pc' = "comp" /\ hand'.stream = s) = 0
          /\ Flag(pc = "comp" /\ hand.stream = s) = 0
      BY <2>1, NoTally, FlagFacts
    <3>2. owed'[s] = app'[s] + lost'[s] /\ app'[s] \in Nat /\ lost'[s] \in Nat
      <4>1. CASE s \in Own
        BY <2>1, <4>1 DEF Unregistered
      <4>2. CASE s \notin Own
        <5>1. owed'[s] = owed[s] /\ app'[s] = app[s] /\ lost'[s] = lost[s] + Tally(queue, Having(s))
          BY <1>26, <2>1, <4>2 DEF Unregistered
        <5> QED BY <1>1, <1>3, <3>1, <5>1, OwesTerms
      <4> QED BY <4>1, <4>2
    <3>3. owed'[s] = Tally(queue', Having(s)) + app'[s] + 0 + lost'[s]
      BY <3>1, <3>2
    <3> QED BY <1>4, <3>1, <3>3 DEF Owes
  <2> QED BY <2>2 DEF OwedInv
<1>23. CASE Stop
  <2>1. /\ queue' = <<>> /\ pc = "idle" /\ pc' = "idle"
        /\ owed' = Unregistered(Returned(DOMAIN queue)) /\ app' = Unregistered(app)
        /\ lost' = lost
    BY <1>23, Zenon DEF Stop
  <2>2. ASSUME NEW s \in Stream PROVE Owes(s)'
    <3>1. /\ Tally(queue', Having(s)) = 0 /\ Flag(pc' = "comp" /\ hand'.stream = s) = 0
          /\ Flag(pc = "comp" /\ hand.stream = s) = 0
      BY <2>1, NoTally, FlagFacts
    <3>2. Returned(DOMAIN queue)[s] = app[s] + lost[s]
      BY <1>1, <1>3, <1>26, <3>1, OwesTerms
    <3>3. owed'[s] = app'[s] + lost'[s] /\ app'[s] \in Nat /\ lost'[s] \in Nat
      <4>1. CASE s \in Own
        <5>1. lost[s] = 0
          BY <4>1 DEF KeptInv
        <5> QED BY <1>2, <2>1, <4>1, <5>1 DEF Unregistered
      <4>2. CASE s \notin Own
        BY <1>2, <2>1, <3>2, <4>2 DEF Unregistered
      <4> QED BY <4>1, <4>2
    <3>6. owed'[s] = Tally(queue', Having(s)) + app'[s] + 0 + lost'[s]
      BY <3>1, <3>3
    <3> QED BY <1>4, <3>1, <3>6 DEF Owes
  <2> QED BY <2>2 DEF OwedInv
<1>24. CASE UNCHANGED vars
  <2>1. UNCHANGED <<queue, owed, app, lost, pc, hand>>
    BY <1>24, Zenon DEF vars, queueVars, envVars
  <2> QED BY <1>3, <1>4, <2>1 DEF OwedInv, Owes
<1>27. CASE Relink
  <2>1. UNCHANGED <<queue, owed, app, lost, pc, hand>>
    BY <1>27, RelinkFacts, Zenon DEF LinkKeeps, queueVars
  <2> QED BY <1>3, <1>4, <2>1 DEF OwedInv, Owes
<1>25. OwedInv'
  BY <1>27, <1>6, <1>7, <1>8, <1>9, <1>10, <1>11, <1>12, <1>13, <1>14, <1>16, <1>17, <1>18, <1>19, <1>20,
     <1>21, <1>22, <1>23, <1>24, Zenon DEF Next, Arrive, Serve, Upper, Session
<1> QED BY <1>25

\* Every reference the channel side has on a stream's buffers belongs to a bundle in
\* the queue, to the buffer that is being matched or to the upper layer, whatever
\* frames, requests, flushes, starts, failed starts and stops come; or it is lost,
\* which happens only to a buffer of a linked stream, when it is given back after the
\* link is gone or is in the queue when a start fails.
THEOREM BuffersCorrect == Spec => []BuffersAccounted
<1>1. Init => KeptInv /\ OwedInv
  <2> SUFFICES ASSUME Init PROVE (\A s \in Own : lost[s] = 0) /\ \A s \in Stream : Owes(s)
    BY DEF OwedInv, KeptInv
  <2>1. /\ queue = <<>> /\ pc = "idle"
        /\ \A s \in Stream : owed[s] = 0 /\ app[s] = 0 /\ lost[s] = 0
    BY DEF Init
  <2>2. \A s \in Stream : Tally(queue, Having(s)) = 0
    BY <2>1, NoTally
  <2>3. \A s \in Stream : Flag(pc = "comp" /\ hand.stream = s) = 0
    BY <2>1, FlagFacts
  <2> QED BY <2>1, <2>2, <2>3 DEF Owes, Own
<1>2. TypeInv /\ KeptInv /\ OwedInv => BuffersAccounted
  <2> SUFFICES ASSUME TypeInv, KeptInv, OwedInv, NEW s \in Stream
               PROVE  owed[s] = Holding(DOMAIN queue)[s] + app[s]
                                + Flag(pc = "comp" /\ hand.stream = s) + lost[s]
    BY Zenon DEF BuffersAccounted, KeptInv
  <2>1. queue \in Seq(Bundle)
    BY DEF TypeInv, TypeOK
  <2>2. /\ CountAt(queue, DOMAIN queue, Having(s)) = Holding(DOMAIN queue)[s]
        /\ DOMAIN queue = 1 .. Len(queue)
    BY <2>1, CountOut
  <2>3. Holding(DOMAIN queue)[s] = Tally(queue, Having(s))
    BY <2>2, Zenon DEF CountAt, Tally
  <2> QED BY <2>3 DEF OwedInv, Owes
<1> QED BY <1>1, <1>2, LostKept, OwedKept, TypeInit, TypeKept, PTL DEF Spec
-----------------------------------------------------------------------------
(* The order of the queue. What the streams deliver keeps what is said of the  *)
(* bundles that wait.                                                          *)

\* The streams never deliver less than they did.
Grows(l, m) == l \in [Stream -> 0 .. MaxFrame] /\ m \in [Stream -> 0 .. MaxFrame]
               /\ \A s \in Stream : l[s] <= m[s]

\* A sound bundle stays sound, and bundles stay in order, when streams deliver more.
LEMMA GrownFacts ==
  ASSUME NEW l, NEW m, Grows(l, m), NEW lo
  PROVE  SoundOnes(l, lo) \subseteq SoundOnes(m, lo) /\ Ordered(l, lo) \subseteq Ordered(m, lo)
<1>1. \A s \in Stream : l[s] \in Int /\ m[s] \in Int /\ l[s] <= m[s]
  BY ConstFacts DEF Grows
<1>2. ASSUME NEW n \in Bundle, Sound(n, l, lo) PROVE Sound(n, m, lo)
  <2>1. \A s \in Stream : n.buf[s] \in Int
    BY BundleFields, ConstFacts
  <2>2. \A s \in Stream : n.buf[s] <= l[s]
    BY <1>2, Zenon DEF Sound
  <2>3. \A s \in Stream : n.buf[s] <= m[s]
    BY <1>1, <2>1, <2>2
  <2> QED BY <1>2, <2>3, Zenon DEF Sound
<1>3. ASSUME NEW n \in Bundle, Stuck(n, l) PROVE Stuck(n, m)
  <2>1. n.idx \in Int
    BY BundleFields, FrameFacts
  <2>2. PICK s \in Stream \ {Metadata} : n.buf[s] = NoFrame /\ n.idx < l[s]
    BY <1>3 DEF Stuck
  <2>3. n.idx < m[s]
    BY <1>1, <2>1, <2>2
  <2> QED BY <1>3, <2>2, <2>3 DEF Stuck
<1>4. ASSUME NEW a \in Bundle, NEW b \in Bundle, Before(a, b, l, lo) PROVE Before(a, b, m, lo)
  BY <1>3, <1>4, Zenon DEF Before
<1>5. SoundOnes(l, lo) \subseteq SoundOnes(m, lo)
  BY <1>2, Zenon DEF SoundOnes
<1>6. ASSUME NEW p \in Ordered(l, lo) PROVE p \in Ordered(m, lo)
  <2>1. p \in Bundle \X Bundle /\ Before(p[1], p[2], l, lo)
    BY <1>6, Zenon DEF Ordered
  <2>2. p[1] \in Bundle /\ p[2] \in Bundle
    BY <2>1
  <2>3. Before(p[1], p[2], m, lo)
    BY <1>4, <2>1, <2>2
  <2> QED BY <2>1, <2>3, Zenon DEF Ordered
<1> QED BY <1>5, <1>6, Zenon

\* Bundles in order, as a pair and one by one.
LEMMA OrderedFacts ==
  ASSUME NEW a \in Bundle, NEW b \in Bundle, NEW l, NEW lo
  PROVE  <<a, b>> \in Ordered(l, lo) <=> Before(a, b, l, lo)
<1>1. <<a, b>> \in Bundle \X Bundle /\ <<a, b>>[1] = a /\ <<a, b>>[2] = b
  OBVIOUS
<1> QED BY <1>1, Zenon DEF Ordered

\* What the invariant says of two bundles of the queue.
LEMMA PairFacts ==
  ASSUME queue \in Seq(Bundle), OrderInv, NEW j \in DOMAIN queue, NEW k \in DOMAIN queue, j < k
  PROVE  /\ Before(queue[j], queue[k], last, attr.low)
         /\ queue[k].matched => queue[j].matched
<1>1. j \in 1 .. Len(queue) /\ k \in 1 .. Len(queue) /\ queue[j] \in Bundle /\ queue[k] \in Bundle
  BY LenProperties
<1>2. <<queue[j], queue[k]>> \in Ordered(last, attr.low)
  BY <1>1 DEF OrderInv, Chain
<1>3. Before(queue[j], queue[k], last, attr.low)
  BY <1>1, <1>2, OrderedFacts, Zenon
<1> QED BY <1>3, Zenon DEF Before

\* What it says of one.
LEMMA OneSound ==
  ASSUME SoundInv, NEW k \in DOMAIN queue
  PROVE  queue[k] \in Bundle /\ Sound(queue[k], last, attr.low)
<1>1. queue[k] \in SoundOnes(last, attr.low)
  BY LenProperties DEF SoundInv
<1> QED BY <1>1, Zenon DEF SoundOnes

FlowInv == LowInv /\ SoundInv /\ OrderInv /\ ExactInv /\ BoundInv

\* The attributes that the invariant is about are not touched.
SameAttr == attr'.low = attr.low /\ attr'.maxUnmatched = attr.maxUnmatched

\* The numbers the count and the bound are about.
LEMMA FlowTypes ==
  ASSUME TypeOK
  PROVE  /\ queue \in Seq(Bundle) /\ matchCnt \in Nat /\ attr.maxUnmatched \in Nat
         /\ attr.low \in BOOLEAN /\ last \in [Stream -> 0 .. MaxFrame]
         /\ Tally(queue, MatchedOnes) \in Nat /\ Tally(queue, WaitingOnes) \in Nat
<1>1. queue \in Seq(Bundle) /\ matchCnt \in Nat /\ attr \in AttrRecord
      /\ last \in [Stream -> 0 .. MaxFrame]
  BY DEF TypeOK
<1>2. attr.maxUnmatched \in Nat /\ attr.low \in BOOLEAN
  BY <1>1 DEF AttrRecord
<1> QED BY <1>1, <1>2, CountTypes

\* The same bundles, counted as before, with more delivered, are as good.
LEMMA FlowSame ==
  ASSUME TypeOK, FlowInv, UNCHANGED <<queue, matchCnt>>, SameAttr, Grows(last, last')
  PROVE  FlowInv'
<1>1. /\ SoundOnes(last, attr.low) \subseteq SoundOnes(last', attr.low)
      /\ Ordered(last, attr.low) \subseteq Ordered(last', attr.low)
  BY GrownFacts, Zenon
<1>2. SoundInv'
  <2>1. SoundOnes(last, attr.low)' = SoundOnes(last', attr.low)
    BY DEF SameAttr
  <2>2. queue \in Seq(SoundOnes(last', attr.low))
    BY <1>1 DEF FlowInv, SoundInv
  <2> QED BY <2>2 DEF SoundInv, SameAttr
<1>3. OrderInv'
  <2>1. Chain(queue, Ordered(last', attr.low))
    BY <1>1, Zenon DEF FlowInv, OrderInv, Chain
  <2> QED BY <2>1 DEF OrderInv, SameAttr
<1>4. LowInv' /\ ExactInv' /\ BoundInv'
  BY DEF FlowInv, LowInv, ExactInv, BoundInv, SameAttr
<1> QED BY <1>2, <1>3, <1>4 DEF FlowInv

\* Some bundles taken out and the matched ones of them counted off.
LEMMA FlowTaken ==
  ASSUME TypeOK, FlowInv, SameAttr, Grows(last, last'), NEW F \in SUBSET DOMAIN queue,
         queue' = Pick(queue, DOMAIN queue \ F),
         matchCnt' = matchCnt - Cardinality(F \cap Matched)
  PROVE  FlowInv'
<1> DEFINE T == SoundOnes(last', attr.low)
           R == Ordered(last', attr.low)
           K == DOMAIN queue \ F
<1>1. queue \in Seq(T) /\ \A i, j \in 1 .. Len(queue) : i < j => <<queue[i], queue[j]>> \in R
  <2>1. /\ SoundOnes(last, attr.low) \subseteq SoundOnes(last', attr.low)
        /\ Ordered(last, attr.low) \subseteq Ordered(last', attr.low)
    BY GrownFacts, Zenon
  <2>2. queue \in Seq(T)
    BY <2>1 DEF FlowInv, SoundInv
  <2> QED BY <2>1, <2>2, Zenon DEF FlowInv, OrderInv, Chain
<1>2. K \in SUBSET (1 .. Len(queue)) /\ DOMAIN queue = 1 .. Len(queue)
  BY FlowTypes, LenProperties
<1> HIDE DEF T, R, K
<1>3. queue' = Pick(queue, K) /\ queue' \in Seq(T)
  <2>1. queue' = Pick(queue, K)
    BY DEF K
  <2>2. \A q \in Seq(T) : K \in SUBSET (1 .. Len(q)) => Pick(q, K) \in Seq(T)
    BY PickFacts, Zenon
  <2>3. queue \in Seq(T)
    BY <1>1
  <2> QED BY <1>2, <2>1, <2>2, <2>3, Zenon
<1>4. Chain(queue', R)
  BY <1>1, <1>2, <1>3, PickChain
<1>5. /\ Tally(queue', MatchedOnes) = Tally(queue, MatchedOnes) - Cardinality(F \cap Matched)
      /\ Cardinality(F \cap Matched) \in Nat
  BY TakenOut, FlowTypes
<1>6. /\ CountAt(queue, F, WaitingOnes) \in Nat
      /\ Tally(queue', WaitingOnes) = Tally(queue, WaitingOnes) - CountAt(queue, F, WaitingOnes)
  <2>1. F \in SUBSET (1 .. Len(queue)) /\ queue' = Pick(queue, (1 .. Len(queue)) \ F)
    BY <1>2
  <2> QED BY <2>1, LeftTally, FlowTypes
<1>7. ExactInv' /\ BoundInv' /\ LowInv'
  <2>1. MatchedOnes' = MatchedOnes /\ WaitingOnes' = WaitingOnes
    BY Zenon DEF MatchedOnes, WaitingOnes
  <2>2. ExactInv'
    BY <1>5, FlowTypes DEF FlowInv, ExactInv
  <2>3. BoundInv'
    BY <1>6, FlowTypes DEF FlowInv, BoundInv, SameAttr
  <2>4. LowInv'
    BY DEF FlowInv, LowInv, SameAttr
  <2> QED BY <2>2, <2>3, <2>4
<1>8. SoundInv' /\ OrderInv'
  BY <1>3, <1>4 DEF SoundInv, OrderInv, SameAttr, T, R
<1> QED BY <1>7, <1>8 DEF FlowInv

\* An empty queue.
LEMMA FlowEmpty ==
  ASSUME TypeOK', LowInv', queue' = <<>>, matchCnt' = 0
  PROVE  FlowInv'
<1>1. Tally(queue', MatchedOnes) = 0 /\ Tally(queue', WaitingOnes) = 0
  BY NoTally
<1>2. attr'.maxUnmatched \in Nat
  BY DEF TypeOK, AttrRecord
<1>3. ExactInv' /\ BoundInv'
  BY <1>1, <1>2 DEF ExactInv, BoundInv
<1>4. SoundInv' /\ OrderInv'
  BY DEF SoundInv, OrderInv, Chain
<1> QED BY <1>3, <1>4 DEF FlowInv

\* The matched head leaves the queue.
LEMMA FlowHead ==
  ASSUME TypeOK, FlowInv, HeadMatched, queue' = Tail(queue), matchCnt' = matchCnt - 1,
         UNCHANGED <<attr, last>>
  PROVE  FlowInv'
<1>1. queue # <<>> /\ queue \in Seq(SoundOnes(last, attr.low))
      /\ Chain(queue, Ordered(last, attr.low))
  BY DEF HeadMatched, FlowInv, SoundInv, OrderInv
<1>2. Tail(queue) \in Seq(SoundOnes(last, attr.low)) /\ Chain(Tail(queue), Ordered(last, attr.low))
  BY <1>1, TailChain, HeadTailProperties
<1>3. /\ Tally(queue', MatchedOnes) = Tally(queue, MatchedOnes) - 1
      /\ Tally(queue', WaitingOnes) = Tally(queue, WaitingOnes)
  BY FlowTypes, DispatchCounts
<1>4. ExactInv' /\ BoundInv'
  BY <1>3, FlowTypes DEF FlowInv, ExactInv, BoundInv
<1> QED BY <1>2, <1>4 DEF FlowInv, SoundInv, OrderInv, LowInv-----------------------------------------------------------------------------
(* The buffer in hand and the order of the queue.                              *)

CompPre == TypeInv /\ FlowInv /\ pc = "comp"

\* What is known of the buffer in hand.
LEMMA CompFacts ==
  ASSUME CompPre
  PROVE  /\ hand.stream \in Stream /\ hand.idx \in Frame /\ hand.idx = last[hand.stream]
         /\ hand.idx \in Int /\ hand.idx > 0 /\ hand.idx # NoFrame /\ TypeOK
         /\ \A s \in Stream : last[s] \in Int
         /\ queue \in Seq(Bundle)
<1>1. TypeOK /\ RestInv /\ pc = "comp"
  BY DEF CompPre, TypeInv
<1>2. /\ last \in [Stream -> 0 .. MaxFrame] /\ queue \in Seq(Bundle)
  BY <1>1, FlowTypes
<1> QED BY <1>1, <1>2, HandFacts, FrameFacts, ConstFacts DEF RestInv

\* The numbers in a bundle.
LEMMA BundleNumbers ==
  ASSUME NEW n \in Bundle
  PROVE  /\ n.idx \in Int /\ n.idx > 0 /\ n.metaIdx \in Int /\ n.metaIdx >= 0
         /\ \A s \in Stream : n.buf[s] \in Int /\ n.buf[s] >= 0
<1>1. MaxFrame \in Nat /\ n.idx \in Frame /\ n.metaIdx \in 0 .. MaxFrame /\ n.buf \in [Stream -> 0 .. MaxFrame]
  BY BundleFields, ConstFacts
<1>2. n.idx \in Int /\ n.idx > 0
  BY <1>1, FrameFacts
<1> QED BY <1>1, <1>2

\* What a sound bundle says of its ids.
LEMMA SoundFacts ==
  ASSUME NEW n \in Bundle, NEW l, NEW lo, Sound(n, l, lo)
  PROVE  /\ n.metaIdx > 0 => /\ lo /\ Metadata \in Stream /\ n.idx = n.metaIdx
                             /\ n.buf[Metadata] = n.metaIdx
                             /\ \A s \in Stream : s # Metadata => n.buf[s] = NoFrame
         /\ n.metaIdx = 0 => \E s \in Stream : OwnId(n, s, lo)
         /\ \A s \in Stream : n.buf[s] <= l[s] /\ (OwnId(n, s, lo) => n.buf[s] = n.idx)
         /\ n.matched <=> Full(n)
<1>1. n.metaIdx > 0 => lo /\ \A s \in Stream : ~OwnId(n, s, lo)
  BY DEF Sound
<1>2. n.metaIdx > 0 => \A s \in Stream : s # Metadata => n.buf[s] = NoFrame
  BY <1>1, Zenon DEF OwnId
<1> QED BY <1>2, Zenon DEF Sound

\* A bundle that takes the buffer in hand is of its frame, or of a later one that
\* only the metadata has named, or the buffer is metadata that is newer.
LEMMA TakesFacts ==
  ASSUME CompPre, NEW n \in Bundle, Sound(n, last, attr.low), Takes(n)
  PROVE  \/ n.idx = hand.idx
         \/ attr.low /\ hand.stream = Metadata /\ n.idx < hand.idx /\ n.metaIdx = 0
         \/ attr.low /\ hand.stream = Metadata /\ n.idx < hand.idx /\ n.metaIdx > 0
            /\ n.buf[hand.stream] = NoFrame
         \/ attr.low /\ hand.stream # Metadata /\ n.metaIdx > hand.idx /\ n.idx = n.metaIdx
<1>1. n.metaIdx \in Int /\ n.metaIdx >= 0 /\ hand.idx \in Int /\ hand.idx > 0
  BY BundleNumbers, CompFacts
<1>2. n.metaIdx > 0 => n.idx = n.metaIdx
  BY SoundFacts
<1>3. CASE n.idx = hand.idx
  BY <1>3
<1>4. CASE attr.low /\ n.buf[hand.stream] = NoFrame /\ hand.stream = Metadata /\ n.idx < hand.idx
  BY <1>1, <1>4
<1>5. CASE attr.low /\ hand.stream # Metadata /\ n.metaIdx > hand.idx
  BY <1>1, <1>2, <1>5
<1> QED BY <1>3, <1>4, <1>5 DEF Takes

\* The bundle found, with the buffer in it: it has its id from a stream that is not
\* the metadata of low priority, and it is no later than it was.
LEMMA FillFacts ==
  ASSUME CompPre, Found # {}, queue[Pos].buf[hand.stream] = NoFrame
  PROVE  LET n == queue[Pos]
             f == Filled(n)
         IN  /\ \A s \in Stream : f.buf[s] <= last[s]
             /\ \A s \in Stream : OwnId(f, s, attr.low) => f.buf[s] = f.idx
             /\ \E s \in Stream : OwnId(f, s, attr.low)
             /\ f.idx <= n.idx /\ f.idx <= hand.idx
<1> DEFINE n == queue[Pos]
           f == Filled(n)
           lo == attr.low
           h == hand.stream
           i == hand.idx
<1>1. /\ n \in Bundle /\ Takes(n) /\ ~n.matched
  <2>1. queue \in Seq(Bundle)
    BY CompFacts
  <2>2. Pos \in Found /\ Pos \in Unmatched
    BY <2>1, FoundFacts
  <2>3. Takes(queue[Pos])
    BY <2>2, Zenon DEF Found
  <2> QED BY <2>1, <2>2, <2>3, FoundFacts
<1>2. Sound(n, last, lo)
  <2>1. Pos \in DOMAIN queue
    BY CompFacts, FoundFacts
  <2> QED BY <2>1, OneSound DEF CompPre, FlowInv
<1>3. /\ n.metaIdx > 0 => /\ lo /\ n.idx = n.metaIdx /\ Metadata \in Stream /\ n.buf[Metadata] = n.metaIdx
                          /\ \A s \in Stream : s # Metadata => n.buf[s] = NoFrame
      /\ n.metaIdx = 0 => \E s \in Stream : OwnId(n, s, lo)
      /\ \A s \in Stream : n.buf[s] <= last[s] /\ (OwnId(n, s, lo) => n.buf[s] = n.idx)
  BY <1>1, <1>2, SoundFacts
<1>4. /\ f.metaIdx = 0 /\ f.idx = IF n.metaIdx > 0 THEN i ELSE n.idx
      /\ \A s \in Stream : f.buf[s] = IF s = h THEN i ELSE n.buf[s]
  BY <1>1, CompFacts, FilledFacts DEF CompPre
<1>5. /\ h \in Stream /\ i = last[h] /\ i \in Int /\ i > 0 /\ i # NoFrame
  BY CompFacts
<1>6. n.idx \in Int /\ n.metaIdx \in Int /\ n.metaIdx >= 0 /\ \A s \in Stream : n.buf[s] \in Int
  BY <1>1, BundleNumbers
<1>7. \/ n.idx = i
      \/ lo /\ h = Metadata /\ n.idx < i
      \/ lo /\ h # Metadata /\ n.metaIdx > i /\ n.idx = n.metaIdx
  BY <1>1, <1>2, TakesFacts
<1>8. n.metaIdx > 0 => h # Metadata
  BY <1>3, <1>6 DEF NoFrame
<1>9. n.buf[h] = NoFrame
  OBVIOUS
<1> HIDE DEF n, f, lo, h, i
<1>10. f.idx <= n.idx /\ f.idx <= i
  BY <1>4, <1>5, <1>6, <1>7, <1>8
<1>11. ASSUME NEW s \in Stream PROVE f.buf[s] <= last[s]
  BY <1>3, <1>4, <1>5
<1>12. ASSUME NEW s \in Stream, OwnId(f, s, lo) PROVE f.buf[s] = f.idx
  <2>1. lo => s # Metadata
    BY <1>12 DEF OwnId
  <2>2. CASE s = h
    BY <1>4, <1>5, <1>6, <1>7, <2>1, <2>2
  <2>3. CASE s # h
    <3>1. f.buf[s] = n.buf[s] /\ n.buf[s] # NoFrame /\ OwnId(n, s, lo)
      BY <1>4, <1>12, <2>3 DEF OwnId
    <3>2. ~(n.metaIdx > 0)
      BY <1>3, <2>1, <3>1
    <3> QED BY <1>3, <1>4, <3>1, <3>2
  <2> QED BY <2>2, <2>3
<1>13. \E s \in Stream : OwnId(f, s, lo)
  <2>1. CASE n.metaIdx > 0
    <3>1. OwnId(f, h, lo)
      BY <1>4, <1>5, <1>8, <2>1 DEF OwnId
    <3> QED BY <1>5, <3>1
  <2>2. CASE n.metaIdx = 0
    <3>1. PICK s \in Stream : OwnId(n, s, lo)
      BY <1>3, <2>2
    <3>2. s # h
      BY <1>9, <3>1 DEF OwnId
    <3>3. OwnId(f, s, lo)
      BY <1>4, <3>1, <3>2 DEF OwnId
    <3> QED BY <3>3
  <2> QED BY <1>6, <2>1, <2>2
<1> QED BY <1>10, <1>11, <1>12, <1>13 DEF n, f, lo, h, i

\* A bundle that waits before the found one is of an earlier frame than the found one
\* gets, unless that can no longer become complete.
LEMMA AheadOfFound ==
  ASSUME CompPre, Found # {}, queue[Pos].buf[hand.stream] = NoFrame,
         NEW k \in Unmatched, k < Pos
  PROVE  queue[k].idx < Filled(queue[Pos]).idx \/ (attr.low /\ Stuck(Filled(queue[Pos]), last))
<1> DEFINE n == queue[Pos]
           m == queue[k]
           f == Filled(n)
           lo == attr.low
           h == hand.stream
           i == hand.idx
<1>1. /\ n \in Bundle /\ Takes(n) /\ m \in Bundle /\ ~m.matched /\ ~Takes(m)
      /\ k \in DOMAIN queue /\ Pos \in DOMAIN queue
  <2>1. queue \in Seq(Bundle)
    BY CompFacts
  <2>2. Pos \in Found /\ Pos \in Unmatched /\ Pos \in Int /\ k \in Int /\ \A j \in Found : Pos <= j
    BY <2>1, FoundFacts
  <2>3. k \notin Found
    BY <2>2
  <2>4. Takes(queue[Pos]) /\ ~Takes(queue[k])
    BY <2>2, <2>3, Zenon DEF Found
  <2> QED BY <2>1, <2>2, <2>4, FoundFacts
<1>2. Sound(n, last, lo) /\ Sound(m, last, lo)
  BY <1>1, OneSound DEF CompPre, FlowInv
<1>3. \A b \in {m, n} :
        /\ b.metaIdx > 0 => /\ b.idx = b.metaIdx /\ Metadata \in Stream /\ b.buf[Metadata] = b.metaIdx /\ lo
                            /\ \A s \in Stream : s # Metadata => b.buf[s] = NoFrame
        /\ b.metaIdx = 0 => \E s \in Stream : OwnId(b, s, lo)
        /\ \A s \in Stream : b.buf[s] <= last[s] /\ (OwnId(b, s, lo) => b.buf[s] = b.idx)
  BY <1>1, <1>2, SoundFacts
<1>4. /\ f.metaIdx = 0 /\ f.idx = IF n.metaIdx > 0 THEN i ELSE n.idx
      /\ \A s \in Stream : f.buf[s] = IF s = h THEN i ELSE n.buf[s]
  BY <1>1, CompFacts, FilledFacts DEF CompPre
<1>5. /\ h \in Stream /\ i = last[h] /\ i \in Int /\ i > 0 /\ i # NoFrame
      /\ \A s \in Stream : last[s] \in Int
  BY CompFacts
<1>6. \A b \in {m, n} : /\ b.idx \in Int /\ b.idx > 0 /\ b.metaIdx \in Int /\ b.metaIdx >= 0
                        /\ \A s \in Stream : b.buf[s] \in Int
  BY <1>1, BundleNumbers
<1>7. \/ n.idx = i
      \/ lo /\ h = Metadata /\ n.idx < i
      \/ lo /\ h # Metadata /\ n.metaIdx > i /\ n.idx = n.metaIdx
  BY <1>1, <1>2, TakesFacts
<1>8. n.metaIdx > 0 => h # Metadata
  BY <1>3, <1>6 DEF NoFrame
<1>9. n.buf[h] = NoFrame
  OBVIOUS
<1>10. m.idx < n.idx \/ (lo /\ Stuck(n, last))
  <2>1. Before(m, n, last, lo)
    BY <1>1, CompFacts, PairFacts DEF CompPre, FlowInv
  <2> QED BY <1>1, <2>1 DEF Before
<1>11. /\ m.idx # i
       /\ lo /\ m.buf[h] = NoFrame => IF h = Metadata THEN ~(m.idx < i) ELSE ~(m.metaIdx > i)
  BY <1>1 DEF Takes
<1> HIDE DEF n, m, f, lo, h, i
<1>12. CASE n.metaIdx = 0
  <2>1. f.idx = n.idx
    BY <1>4, <1>12
  <2>2. CASE m.idx < n.idx
    BY <2>1, <2>2 DEF f, m, n
  <2>3. CASE lo /\ Stuck(n, last)
    <3>1. PICK s \in Stream \ {Metadata} : n.buf[s] = NoFrame /\ n.idx < last[s]
      BY <2>3 DEF Stuck
    <3>2. s # h
      BY <1>5, <1>6, <1>7, <1>12, <3>1
    <3>3. f.buf[s] = NoFrame /\ f.idx < last[s]
      BY <1>4, <2>1, <3>1, <3>2
    <3>4. Stuck(f, last)
      BY <1>4, <3>3 DEF Stuck
    <3> QED BY <2>3, <3>4 DEF f, m, n, lo
  <2> QED BY <1>10, <2>2, <2>3
<1>13. CASE n.metaIdx > 0
  <2>1. lo /\ h # Metadata /\ f.idx = i /\ \A s \in Stream : s # Metadata => n.buf[s] = NoFrame
    BY <1>3, <1>4, <1>8, <1>13
  <2>2. CASE m.idx < i
    BY <2>1, <2>2 DEF f, m, n, i
  <2>3. CASE m.idx > i
    <3>1. CASE m.buf[h] # NoFrame
      <4>1. m.buf[h] = m.idx /\ m.buf[h] <= i
        BY <1>3, <1>5, <2>1, <3>1 DEF OwnId
      <4> QED BY <1>5, <1>6, <2>3, <4>1
    <3>2. CASE m.buf[h] = NoFrame
      <4>1. ~(m.metaIdx > i)
        BY <1>11, <2>1, <3>2
      <4>2. m.metaIdx = 0
        BY <1>3, <1>5, <1>6, <2>3, <4>1
      <4>3. PICK s \in Stream : OwnId(m, s, lo)
        BY <1>3, <4>2
      <4>4. s # Metadata /\ s # h /\ m.buf[s] = m.idx /\ m.idx <= last[s]
        BY <1>3, <2>1, <3>2, <4>3 DEF OwnId
      <4>5. f.buf[s] = NoFrame /\ f.idx < last[s]
        BY <1>4, <1>5, <1>6, <2>1, <2>3, <4>4
      <4>6. Stuck(f, last)
        BY <1>4, <4>4, <4>5 DEF Stuck
      <4> QED BY <2>1, <4>6 DEF f, n, lo
    <3> QED BY <3>1, <3>2
  <2> QED BY <1>5, <1>6, <1>11, <2>2, <2>3
<1> QED BY <1>6, <1>12, <1>13

\* An attribute record and deliveries that stay keep what the invariant reads of them.
LEMMA StillFacts == ASSUME TypeOK, UNCHANGED <<attr, last>> PROVE SameAttr /\ Grows(last, last')
<1>1. \A s \in Stream : last[s] \in Int
  BY FlowTypes, ConstFacts
<1> QED BY <1>1, FlowTypes DEF SameAttr, Grows

\* Where the found bundle is.
LEMMA FoundPlace ==
  ASSUME CompPre, Found # {}
  PROVE  /\ Pos \in 1 .. Len(queue) /\ Pos \in DOMAIN queue /\ Pos \in Unmatched
         /\ queue[Pos] \in Bundle /\ ~queue[Pos].matched
         /\ Takes(queue[Pos]) /\ Sound(queue[Pos], last, attr.low)
<1>1. queue \in Seq(Bundle)
  BY CompFacts
<1>2. Pos \in Found /\ Pos \in Unmatched /\ Pos \in 1 .. Len(queue) /\ Pos \in DOMAIN queue
  BY <1>1, FoundFacts
<1>3. Takes(queue[Pos])
  BY <1>2, Zenon DEF Found
<1>4. Sound(queue[Pos], last, attr.low)
  BY <1>2, OneSound DEF CompPre, FlowInv
<1> QED BY <1>1, <1>2, <1>3, <1>4, FoundFacts

\* The buffer is put into a bundle that is still not complete.
LEMMA FlowFill ==
  ASSUME CompPre, Fill
  PROVE  FlowInv'
<1> DEFINE n == queue[Pos]
           f == Filled(n)
           e == Marked(n)
           q == [queue EXCEPT ![Pos] = e]
           S == SoundOnes(last, attr.low)
           R == Ordered(last, attr.low)
<1>1. /\ TypeOK /\ pc = "comp" /\ Found # {} /\ n.buf[hand.stream] = NoFrame /\ ~Full(f)
      /\ queue' = q /\ UNCHANGED <<matchCnt, attr, last>>
  BY CompFacts, Zenon DEF CompPre, Fill, CompKeeps, envVars
<1>2. Pos \in 1 .. Len(queue) /\ n \in Bundle /\ ~n.matched /\ queue \in Seq(Bundle) /\ Len(queue) \in Nat
  BY <1>1, FoundPlace, CompFacts, LenProperties
<1>3. /\ e \in Bundle /\ ~e.matched /\ e.idx = f.idx /\ e.buf = f.buf /\ e.metaIdx = 0
  BY <1>1, <1>2, PutFacts
<1>4. /\ \A s \in Stream : f.buf[s] <= last[s]
      /\ \A s \in Stream : OwnId(f, s, attr.low) => f.buf[s] = f.idx
      /\ \E s \in Stream : OwnId(f, s, attr.low)
      /\ f.idx <= n.idx
  BY <1>1, FillFacts
<1>5. \A k \in Unmatched : k < Pos => queue[k].idx < f.idx \/ (attr.low /\ Stuck(f, last))
  BY <1>1, AheadOfFound
<1>6. f \in Bundle /\ f.metaIdx = 0
  BY <1>1, <1>2, FilledFacts
<1> HIDE DEF f, e
<1>7. e \in S
  <2>1. \A s \in Stream : OwnId(e, s, attr.low) <=> OwnId(f, s, attr.low)
    BY <1>3 DEF OwnId
  <2>2. ~Full(e)
    BY <1>1, <1>3 DEF Full
  <2>3. Sound(e, last, attr.low)
    BY <1>3, <1>4, <2>1, <2>2 DEF Sound
  <2> QED BY <1>3, <2>3, Zenon DEF SoundOnes
<1>8. Stuck(e, last) <=> Stuck(f, last)
  BY <1>3, <1>6 DEF Stuck
<1>9. queue \in Seq(S)
  BY DEF CompPre, FlowInv, SoundInv
<1> HIDE DEF S
<1>10. q \in Seq(S) /\ Len(q) = Len(queue) /\ q[Pos] = e
       /\ \A k \in 1 .. Len(queue) : k # Pos => q[k] = queue[k]
  BY <1>2, <1>7, <1>9
<1> HIDE DEF q, n
<1>11. Chain(q, R)
  <2>1. ASSUME NEW j \in 1 .. Len(queue), NEW k \in 1 .. Len(queue), j < k
        PROVE  <<q[j], q[k]>> \in R
    <3>1. Before(queue[j], queue[k], last, attr.low) /\ queue[j] \in Bundle /\ queue[k] \in Bundle
          /\ j \in DOMAIN queue /\ k \in DOMAIN queue
      BY <1>2, <2>1, PairFacts, LenProperties DEF CompPre, FlowInv
    <3>2. CASE j # Pos /\ k # Pos
      BY <1>10, <3>1, <3>2, OrderedFacts
    <3>3. CASE k = Pos
      <4>1. ~queue[j].matched => queue[j].idx < e.idx \/ (attr.low /\ Stuck(e, last))
        <5>1. ~queue[j].matched => j \in Unmatched
          BY <3>1 DEF Unmatched, Matched
        <5> QED BY <1>3, <1>5, <1>8, <2>1, <3>3, <5>1
      <4>2. Before(queue[j], e, last, attr.low)
        BY <1>3, <4>1, Zenon DEF Before
      <4>3. q[j] = queue[j] /\ q[k] = e
        BY <1>10, <2>1, <3>3
      <4> QED BY <1>3, <3>1, <4>2, <4>3, OrderedFacts
    <3>4. CASE j = Pos
      <4>1. ~queue[k].matched /\ (n.idx < queue[k].idx \/ (attr.low /\ Stuck(queue[k], last)))
        BY <1>2, <3>1, <3>4 DEF Before, n
      <4>2. e.idx < queue[k].idx \/ (attr.low /\ Stuck(queue[k], last))
        <5>1. e.idx \in Int /\ n.idx \in Int /\ queue[k].idx \in Int
          BY <1>2, <1>3, <3>1, BundleNumbers
        <5> QED BY <1>3, <1>4, <4>1, <5>1
      <4>3. Before(e, queue[k], last, attr.low)
        BY <4>1, <4>2, Zenon DEF Before
      <4>4. q[j] = e /\ q[k] = queue[k]
        BY <1>10, <2>1, <3>4
      <4> QED BY <1>3, <3>1, <4>3, <4>4, OrderedFacts
    <3> QED BY <3>2, <3>3, <3>4
  <2> QED BY <1>10, <2>1, Zenon DEF Chain
<1>12. /\ Tally(q, MatchedOnes) = Tally(queue, MatchedOnes)
       /\ Tally(q, WaitingOnes) = Tally(queue, WaitingOnes)
  <2>1. /\ Tally(q, MatchedOnes) = Tally(queue, MatchedOnes) + Flag(e.matched)
        /\ Tally(q, WaitingOnes) = Tally(queue, WaitingOnes) - Flag(e.matched)
    BY <1>1, <1>3, Replaced DEF q
  <2> QED BY <1>1, <1>3, <2>1, FlowTypes DEF Flag
<1>13. ExactInv' /\ BoundInv' /\ LowInv'
  BY <1>1, <1>12 DEF CompPre, FlowInv, ExactInv, BoundInv, LowInv
<1>14. SoundInv' /\ OrderInv'
  BY <1>1, <1>10, <1>11 DEF SoundInv, OrderInv, S, R
<1> QED BY <1>13, <1>14 DEF FlowInv

\* A second buffer of the frame never finds a bundle that only the metadata named:
\* the queue is as it was.
LEMMA DuplicateSame ==
  ASSUME CompPre, FreshInv, Duplicate
  PROVE  queue' = queue
<1> DEFINE n == queue[Pos]
           h == hand.stream
           i == hand.idx
<1>1. /\ Found # {} /\ n.buf[h] # NoFrame /\ queue' = [queue EXCEPT ![Pos] = Claimed(n)] /\ pc = "comp"
  BY Zenon DEF Duplicate, CompPre
<1>2. /\ Pos \in 1 .. Len(queue) /\ Pos \in DOMAIN queue /\ n \in Bundle /\ Takes(n)
      /\ Sound(n, last, attr.low) /\ queue \in Seq(Bundle)
  BY <1>1, FoundPlace, CompFacts
<1>3. n.metaIdx \in Int /\ n.metaIdx >= 0 /\ i \in Int /\ h \in Stream /\ \A s \in Stream : n.buf[s] \in Int
  BY <1>2, BundleNumbers, CompFacts
<1>4. ASSUME n.metaIdx > 0 PROVE FALSE
  <2>1. /\ attr.low /\ n.idx = n.metaIdx /\ n.buf[Metadata] = n.metaIdx /\ h = Metadata
    BY <1>1, <1>2, <1>3, <1>4, SoundFacts
  <2>2. n.idx = i
    <3>1. \/ n.idx = i
          \/ h = Metadata /\ n.metaIdx = 0
          \/ n.buf[h] = NoFrame
          \/ h # Metadata
      BY <1>2, TakesFacts
    <3> QED BY <1>1, <1>4, <2>1, <3>1
  <2>3. Metadata \notin Repeating
    BY <2>1 DEF CompPre, FlowInv, LowInv
  <2>4. n.buf[h] < i
    BY <1>1, <1>2, <2>1, <2>3 DEF FreshInv
  <2> QED BY <1>3, <2>1, <2>2, <2>4
<1>5. Claimed(n) = n
  BY <1>3, <1>4 DEF Claimed
<1> QED BY <1>1, <1>2, <1>5

\* What becomes complete has nothing left before it but matched bundles: those that
\* waited are of earlier frames, and are the ones that are released.
LEMMA CompleteFacts ==
  ASSUME CompPre, Complete
  PROVE  /\ Stale \cap Matched = {}
         /\ \A k \in DOMAIN queue : k < Pos /\ k \notin Stale => queue[k].matched
         /\ \A k \in Stale : queue[k].idx < Filled(queue[Pos]).idx
<1> DEFINE f == Filled(queue[Pos])
<1>1. /\ Found # {} /\ queue[Pos].buf[hand.stream] = NoFrame /\ Full(f) /\ queue \in Seq(Bundle)
  BY CompFacts, Zenon DEF Complete
<1>2. /\ \A k \in Unmatched : k < Pos => queue[k].idx < f.idx \/ (attr.low /\ Stuck(f, last))
      /\ f.idx <= hand.idx
  BY <1>1, AheadOfFound, FillFacts
<1>3. ~Stuck(f, last)
  BY <1>1 DEF Stuck, Full
<1>4. f \in Bundle /\ f.idx \in Int /\ hand.idx \in Int
  <2>1. f \in Bundle
    BY <1>1, FoundPlace, CompFacts, FilledFacts DEF CompPre
  <2> QED BY <2>1, BundleNumbers, CompFacts
<1> HIDE DEF f
<1>5. \A k \in Unmatched : queue[k] \in Bundle /\ queue[k].idx \in Int /\ ~queue[k].matched
      /\ k \in 1 .. Len(queue) /\ k \in Int
  <2>1. \A k \in Unmatched : queue[k] \in Bundle /\ k \in 1 .. Len(queue) /\ ~queue[k].matched
    BY <1>1, FoundFacts
  <2> QED BY <1>1, <2>1, BundleNumbers, LenProperties
<1>6. \A k \in Unmatched : k < Pos => k \in Older /\ queue[k].idx < f.idx
  BY <1>2, <1>3, <1>4, <1>5 DEF Passed, Older
<1>7. /\ \A k \in Stale : k < Pos /\ k \in DOMAIN queue
      /\ Older # {} => Min(Older) \in Older /\ \A k \in Older : Min(Older) <= k
      /\ DOMAIN queue = 1 .. Len(queue) /\ Len(queue) \in Nat /\ Older \subseteq Unmatched
      /\ Pos \in Int /\ \A k \in DOMAIN queue : queue[k].matched \/ k \in Unmatched
  BY <1>1, StaleFacts, FoundFacts
<1>8. ASSUME NEW k \in Stale PROVE k \in Unmatched
  <2>1. Older # {} /\ Stale = Min(Older) .. (Pos - 1)
    BY <1>8 DEF Stale
  <2>2. Min(Older) \in Unmatched /\ Min(Older) <= k /\ Min(Older) \in DOMAIN queue
    BY <1>5, <1>7, <1>8, <2>1
  <2>3. CASE k = Min(Older)
    BY <2>2, <2>3
  <2>4. CASE k # Min(Older)
    <3>1. Min(Older) < k /\ k \in DOMAIN queue
      BY <1>5, <1>7, <1>8, <2>2, <2>4
    <3>2. queue[k].matched => queue[Min(Older)].matched
      BY <1>1, <2>2, <3>1, PairFacts DEF CompPre, FlowInv
    <3> QED BY <1>5, <1>7, <2>2, <3>1, <3>2
  <2> QED BY <2>3, <2>4
<1>9. \A k \in Stale : queue[k].idx < f.idx
  BY <1>6, <1>7, <1>8
<1>10. Stale \cap Matched = {}
  BY <1>8 DEF Unmatched
<1>11. ASSUME NEW k \in DOMAIN queue, k < Pos, k \notin Stale PROVE queue[k].matched
  <2>1. ASSUME k \in Unmatched PROVE k \in Stale
    <3>1. k \in Older /\ Min(Older) <= k /\ Min(Older) \in Int
      BY <1>5, <1>6, <1>7, <1>11, <2>1
    <3>2. Stale = Min(Older) .. (Pos - 1)
      BY <3>1 DEF Stale
    <3> QED BY <1>7, <1>11, <3>1, <3>2
  <2> QED BY <1>7, <1>11, <2>1
<1> QED BY <1>9, <1>10, <1>11 DEF f

\* A bundle becomes complete, and the older ones before it are released.
LEMMA FlowComplete ==
  ASSUME CompPre, Complete
  PROVE  FlowInv'
<1> DEFINE n == queue[Pos]
           f == Filled(n)
           e == Completed(n)
           q == [queue EXCEPT ![Pos] = e]
           S == SoundOnes(last, attr.low)
           R == Ordered(last, attr.low)
           K == (1 .. Len(q)) \ Stale
<1>1. /\ TypeOK /\ pc = "comp" /\ Found # {} /\ n.buf[hand.stream] = NoFrame /\ Full(f)
      /\ matchCnt' = matchCnt + 1 /\ UNCHANGED <<attr, last>>
  BY CompFacts, Zenon DEF CompPre, Complete, CompKeeps, envVars, MatchedAt
<1>2. Pos \in 1 .. Len(queue) /\ n \in Bundle /\ ~n.matched /\ queue \in Seq(Bundle) /\ Len(queue) \in Nat
      /\ DOMAIN queue = 1 .. Len(queue)
  BY <1>1, FoundPlace, CompFacts, LenProperties
<1>3. /\ e \in Bundle /\ e.matched /\ e.idx = f.idx /\ e.buf = f.buf /\ e.metaIdx = 0
  BY <1>1, <1>2, PutFacts
<1>4. /\ \A s \in Stream : f.buf[s] <= last[s]
      /\ \A s \in Stream : OwnId(f, s, attr.low) => f.buf[s] = f.idx
      /\ \E s \in Stream : OwnId(f, s, attr.low)
  BY <1>1, FillFacts
<1>5. /\ q \in Seq(Bundle) /\ Len(q) = Len(queue) /\ queue' = Pick(q, K)
      /\ Cardinality(Stale \cap Matched) \in Nat
      /\ Tally(queue', MatchedOnes) = Tally(queue, MatchedOnes) + 1 - Cardinality(Stale \cap Matched)
  BY <1>1, CompleteCounts
<1>6. /\ Stale \cap Matched = {}
      /\ \A k \in DOMAIN queue : k < Pos /\ k \notin Stale => queue[k].matched
  BY CompleteFacts
<1> HIDE DEF f, e
<1>7. e \in S
  <2>1. \A s \in Stream : OwnId(e, s, attr.low) <=> OwnId(f, s, attr.low)
    BY <1>3 DEF OwnId
  <2>2. Full(e)
    BY <1>1, <1>3 DEF Full
  <2>3. Sound(e, last, attr.low)
    BY <1>3, <1>4, <2>1, <2>2 DEF Sound
  <2> QED BY <1>3, <2>3, Zenon DEF SoundOnes
<1>9. queue \in Seq(S)
  BY DEF CompPre, FlowInv, SoundInv
<1> HIDE DEF S
<1>10. q \in Seq(S) /\ q[Pos] = e
       /\ \A k \in 1 .. Len(queue) : k # Pos => q[k] = queue[k]
  BY <1>2, <1>7, <1>9
<1>11. /\ Tally(q, WaitingOnes) = Tally(queue, WaitingOnes) - Flag(e.matched)
  BY <1>1, <1>3, Replaced
<1> HIDE DEF q, n
<1>12. K \in SUBSET (1 .. Len(q)) /\ K \in SUBSET (1 .. Len(queue)) /\ K \cap Stale = {}
  BY <1>5
<1> HIDE DEF K
<1>13. queue' \in Seq(S)
  BY <1>5, <1>10, <1>12, PickFacts
<1>14. Chain(queue', R)
  <2>1. ASSUME NEW j \in K, NEW k \in K, j < k PROVE <<q[j], q[k]>> \in R
    <3>1. /\ Before(queue[j], queue[k], last, attr.low) /\ queue[j] \in Bundle /\ queue[k] \in Bundle
          /\ j \in 1 .. Len(queue) /\ k \in 1 .. Len(queue) /\ j \in DOMAIN queue
      BY <1>2, <1>12, <2>1, PairFacts, LenProperties DEF CompPre, FlowInv
    <3>2. CASE j # Pos /\ k # Pos
      BY <1>10, <3>1, <3>2, OrderedFacts
    <3>3. CASE k = Pos
      <4>1. queue[j].matched
        BY <1>6, <1>12, <2>1, <3>1, <3>3
      <4>2. Before(queue[j], e, last, attr.low)
        BY <4>1, Zenon DEF Before
      <4>3. q[j] = queue[j] /\ q[k] = e
        BY <1>10, <2>1, <3>1, <3>3
      <4> QED BY <1>3, <3>1, <4>2, <4>3, OrderedFacts
    <3>4. CASE j = Pos
      <4>1. Before(e, queue[k], last, attr.low)
        BY <1>3, Zenon DEF Before
      <4>2. q[j] = e /\ q[k] = queue[k]
        BY <1>10, <2>1, <3>1, <3>4
      <4> QED BY <1>3, <3>1, <4>1, <4>2, OrderedFacts
    <3> QED BY <3>2, <3>3, <3>4
  <2> QED BY <1>5, <1>12, <2>1, PickChain
<1>15. ExactInv'
  <2>1. Cardinality(Stale \cap Matched) = 0
    BY <1>6, FS_EmptySet
  <2> QED BY <1>1, <1>5, <2>1, FlowTypes DEF CompPre, FlowInv, ExactInv
<1>16. BoundInv'
  <2>1. Tally(q, WaitingOnes) = Tally(queue, WaitingOnes) - 1
    BY <1>3, <1>11 DEF Flag
  <2>2. CountAt(q, (1 .. Len(q)) \ K, WaitingOnes) \in Nat
        /\ Tally(queue', WaitingOnes) = Tally(q, WaitingOnes) - CountAt(q, (1 .. Len(q)) \ K, WaitingOnes)
    <3>1. (1 .. Len(q)) \ K \in SUBSET (1 .. Len(q)) /\ (1 .. Len(q)) \ ((1 .. Len(q)) \ K) = K
      BY <1>12
    <3> QED BY <1>5, <3>1, LeftTally
  <2> QED BY <1>1, <2>1, <2>2, FlowTypes DEF CompPre, FlowInv, BoundInv
<1>17. SoundInv' /\ OrderInv' /\ LowInv'
  BY <1>1, <1>13, <1>14 DEF SoundInv, OrderInv, S, R, CompPre, FlowInv, LowInv
<1> QED BY <1>15, <1>16, <1>17 DEF FlowInv

\* The bundles that make room all wait for buffers, and come from an older one on.
LEMMA TrimmedWait ==
  ASSUME queue \in Seq(Bundle), OrderInv, Excess \in Int, Excess <= 0 \/ Older # {}
  PROVE  /\ Trimmed \subseteq Unmatched
         /\ Trimmed # {} => Excess > 0
         /\ Excess = 1 => Trimmed # {}
<1>1. /\ Trimmed \subseteq DOMAIN queue
      /\ Excess <= 0 => Trimmed = {}
      /\ Older # {} => Min(Older) \in Older /\ \A k \in Older : Min(Older) <= k
      /\ Len(queue) \in Nat /\ DOMAIN queue = 1 .. Len(queue) /\ Older \subseteq Unmatched
      /\ \A k \in Unmatched : ~queue[k].matched /\ k \in 1 .. Len(queue)
      /\ \A k \in DOMAIN queue : queue[k].matched \/ k \in Unmatched
  BY TrimmedFacts, FoundFacts
<1>2. CASE Excess <= 0
  BY <1>1, <1>2
<1>3. CASE ~(Excess <= 0)
  <2> DEFINE lead == Min(Older)
             S == Spare
  <2>1. Older # {} /\ lead \in Unmatched /\ lead \in 1 .. Len(queue)
    BY <1>1, <1>3
  <2>2. /\ S \subseteq lead .. Len(queue) /\ S \in SUBSET (1 .. Len(queue))
    <3>1. S \subseteq lead .. Len(queue)
      BY Zenon DEF Spare
    <3> QED BY <1>1, <2>1, <3>1
  <2>3. Trimmed = {k \in S : Cardinality({j \in S : j <= k}) <= Excess}
                  \cup (IF Cardinality(S) < Excess THEN {lead} ELSE {})
    BY <1>3 DEF Trimmed
  <2> HIDE DEF lead, S
  <2>4. Trimmed \subseteq S \cup {lead}
    BY <2>3
  <2>5. ASSUME NEW k \in Trimmed PROVE k \in Unmatched
    <3>1. k \in lead .. Len(queue) /\ k \in DOMAIN queue /\ lead \in DOMAIN queue
      BY <1>1, <2>1, <2>2, <2>4
    <3>2. CASE k = lead
      BY <2>1, <3>2
    <3>3. CASE k # lead
      <4>1. lead < k
        BY <1>1, <2>1, <3>1, <3>3
      <4>2. queue[k].matched => queue[lead].matched
        BY <3>1, <4>1, PairFacts
      <4> QED BY <1>1, <2>1, <3>1, <4>2
    <3> QED BY <3>2, <3>3
  <2>6. ASSUME Excess = 1 PROVE Trimmed # {}
    <3>1. CASE S = {}
      <4>1. Cardinality(S) = 0
        BY <3>1, FS_EmptySet
      <4>2. Cardinality(S) < Excess
        BY <2>6, <4>1
      <4>3. lead \in Trimmed
        BY <2>3, <4>2, Zenon
      <4> QED BY <4>3
    <3>2. CASE S # {}
      <4>1. Min(S) \in S /\ \A k \in S : Min(S) <= k
        BY <1>1, <2>2, <3>2, MinFacts
      <4>2. \A k \in S : k \in Int
        BY <1>1, <2>2
      <4>3. { j \in S : j <= Min(S) } = { Min(S) }
        BY <4>1, <4>2
      <4>4. Cardinality({ j \in S : j <= Min(S) }) = 1
        BY <4>3, FS_Singleton
      <4>5. Min(S) \in Trimmed
        BY <2>3, <2>6, <4>1, <4>4
      <4> QED BY <4>5
    <3> QED BY <3>1, <3>2
  <2>7. Excess > 0
    BY <1>3
  <2> QED BY <2>5, <2>6, <2>7
<1> QED BY <1>2, <1>3

\* With one stream no bundle waits.
LEMMA OneStream ==
  ASSUME CompPre, Cardinality(Stream) = 1
  PROVE  Unmatched = {} /\ Newer = {} /\ Full(NewBundle)
<1>1. \E s : Stream = {s}
  BY ConstFacts, FS_Singleton
<1>2. Stream = {hand.stream}
  BY <1>1, CompFacts
<1>3. Full(NewBundle)
  BY <1>2, CompFacts, NewFacts DEF Full, CompPre
<1>4. ASSUME NEW k \in Unmatched PROVE FALSE
  <2>1. k \in DOMAIN queue /\ ~queue[k].matched /\ queue[k] \in Bundle
    BY CompFacts, FoundFacts
  <2>2. Sound(queue[k], last, attr.low)
    BY <2>1, OneSound DEF CompPre, FlowInv
  <2>3. queue[k].metaIdx = 0 \/ queue[k].metaIdx > 0
    BY <2>1, BundleNumbers
  <2>4. \E s \in Stream : queue[k].buf[s] # NoFrame
    <3>1. CASE queue[k].metaIdx = 0
      BY <2>1, <2>2, <3>1, SoundFacts DEF OwnId
    <3>2. CASE queue[k].metaIdx > 0
      <4>1. Metadata \in Stream /\ queue[k].buf[Metadata] > 0
        BY <2>1, <2>2, <3>2, SoundFacts
      <4> QED BY <4>1 DEF NoFrame
    <3> QED BY <2>3, <3>1, <3>2
  <2>5. Full(queue[k])
    BY <1>2, <2>4 DEF Full
  <2> QED BY <2>1, <2>2, <2>5, SoundFacts
<1>5. Newer = {}
  BY <1>4 DEF Newer, Passed
<1> QED BY <1>3, <1>4, <1>5

\* The new bundle is sound.
LEMMA NewSound ==
  ASSUME CompPre
  PROVE  NewBundle \in SoundOnes(last, attr.low)
<1> DEFINE b == NewBundle
           h == hand.stream
           i == hand.idx
<1>1. /\ b \in Bundle /\ b.idx = i
      /\ \A s \in Stream : b.buf[s] = IF s = h THEN i ELSE NoFrame
      /\ b.matched = (Cardinality(Stream) = 1)
      /\ b.metaIdx = IF attr.low /\ h = Metadata THEN i ELSE 0
  BY NewFacts, CompFacts DEF CompPre
<1>2. /\ h \in Stream /\ i = last[h] /\ i \in Int /\ i > 0 /\ i # NoFrame
      /\ \A s \in Stream : last[s] \in Int
  BY CompFacts
<1>3. b.matched <=> Full(b)
  <2>1. CASE Cardinality(Stream) = 1
    BY <1>1, <2>1, OneStream
  <2>2. CASE Cardinality(Stream) # 1
    <3>1. PICK s \in Stream : s # h
      <4>1. ASSUME \A s \in Stream : s = h PROVE FALSE
        <5>1. Stream = {h}
          BY <1>2, <4>1
        <5> QED BY <2>2, <5>1, FS_Singleton
      <4> QED BY <4>1
    <3>2. b.buf[s] = NoFrame
      BY <1>1, <3>1
    <3> QED BY <1>1, <2>2, <3>2 DEF Full
  <2> QED BY <2>1, <2>2
<1>4. \A s \in Stream : 0 <= last[s]
  BY FlowTypes, CompFacts, ConstFacts
<1> HIDE DEF b, h, i
<1>5. \A s \in Stream : b.buf[s] <= last[s]
  BY <1>1, <1>2, <1>4 DEF NoFrame
<1>6. \A s \in Stream : OwnId(b, s, attr.low) => b.buf[s] = b.idx
  BY <1>1 DEF OwnId
<1>7. b.metaIdx > 0 => /\ attr.low /\ Metadata \in Stream /\ b.idx = b.metaIdx
                       /\ b.buf[Metadata] = b.metaIdx
                       /\ \A s \in Stream : ~OwnId(b, s, attr.low)
  BY <1>1, <1>2 DEF OwnId
<1>8. b.metaIdx = 0 => \E s \in Stream : OwnId(b, s, attr.low)
  BY <1>1, <1>2 DEF OwnId
<1>9. Sound(b, last, attr.low)
  BY <1>3, <1>5, <1>6, <1>7, <1>8 DEF Sound
<1> QED BY <1>1, <1>9, Zenon DEF SoundOnes, b

\* It stands in order to the bundles before and after its place.
LEMMA NewOrder ==
  ASSUME CompPre, Found = {}, NEW k \in DOMAIN queue
  PROVE  /\ k < At => <<queue[k], NewBundle>> \in Ordered(last, attr.low)
         /\ k >= At => <<NewBundle, queue[k]>> \in Ordered(last, attr.low)
<1> DEFINE b == NewBundle
           i == hand.idx
           lo == attr.low
<1>1. /\ b \in Bundle /\ b.idx = i /\ i \in Int /\ b.matched = (Cardinality(Stream) = 1)
  BY NewFacts, CompFacts DEF CompPre
<1>2. /\ queue \in Seq(Bundle) /\ DOMAIN queue = 1 .. Len(queue) /\ Len(queue) \in Nat
      /\ \A j \in DOMAIN queue : queue[j] \in Bundle /\ (queue[j].matched \/ j \in Unmatched)
      /\ \A j \in Unmatched : ~queue[j].matched /\ j \in DOMAIN queue
      /\ Passed = Unmatched /\ Newer \subseteq Unmatched
  BY CompFacts, FoundFacts
<1>3. /\ At \in 1 .. Len(queue) + 1
      /\ Newer = {} => At = Len(queue) + 1
      /\ Newer # {} => At \in Newer /\ \A j \in Newer : At <= j
  BY <1>2, AtFacts
<1>4. \A j \in Unmatched : queue[j].idx \in Int /\ queue[j].idx # i
  <2> TAKE j \in Unmatched
  <2>1. ~Takes(queue[j])
    BY Zenon DEF Found
  <2> QED BY <1>2, <2>1, BundleNumbers DEF Takes
<1>5. \A j \in Newer : queue[j].idx > i
  BY Zenon DEF Newer
<1>6. b.matched => Unmatched = {} /\ Newer = {}
  BY <1>1, OneStream
<1> HIDE DEF b, i, lo
<1>7. ASSUME k < At PROVE Before(queue[k], b, last, lo)
  <2>1. b.matched => queue[k].matched
    BY <1>2, <1>6
  <2>2. ~queue[k].matched => queue[k].idx < b.idx
    <3>1. ASSUME ~queue[k].matched, queue[k].idx > i PROVE FALSE
      <4>1. k \in Newer
        BY <1>2, <3>1 DEF Newer, i
      <4>2. At <= k /\ At \in Int /\ k \in Int
        BY <1>2, <1>3, <4>1
      <4> QED BY <1>7, <4>2
    <3>2. ~queue[k].matched => queue[k].idx \in Int /\ queue[k].idx # i
      BY <1>2, <1>4
    <3> QED BY <1>1, <3>1, <3>2
  <2> QED BY <2>1, <2>2, Zenon DEF Before
<1>8. ASSUME k >= At PROVE Before(b, queue[k], last, lo)
  <2>1. At \in Newer /\ At \in Unmatched /\ At \in DOMAIN queue /\ ~queue[At].matched
        /\ ~b.matched /\ queue[At].idx > i /\ queue[At].idx \in Int
    <3>1. Newer # {}
      BY <1>2, <1>3, <1>8
    <3> QED BY <1>2, <1>3, <1>4, <1>5, <1>6, <3>1
  <2>2. CASE k = At
    <3>1. b.idx < queue[k].idx /\ ~queue[k].matched
      BY <1>1, <2>1, <2>2
    <3> QED BY <3>1, Zenon DEF Before
  <2>3. CASE k # At
    <3>1. At < k
      BY <1>2, <1>3, <1>8, <2>3
    <3>2. Before(queue[At], queue[k], last, lo)
      BY <1>2, <2>1, <3>1, PairFacts DEF CompPre, FlowInv, lo
    <3>3. ~queue[k].matched /\ (queue[At].idx < queue[k].idx \/ (lo /\ Stuck(queue[k], last)))
      BY <2>1, <3>2, Zenon DEF Before
    <3>4. queue[k].idx \in Int
      BY <1>2, BundleNumbers
    <3>5. b.idx < queue[k].idx \/ (lo /\ Stuck(queue[k], last))
      BY <1>1, <2>1, <3>3, <3>4
    <3> QED BY <3>3, <3>5, Zenon DEF Before
  <2> QED BY <2>2, <2>3
<1> QED BY <1>1, <1>2, <1>7, <1>8, OrderedFacts DEF b, lo

\* The bundles that are matched and those that wait, counted.
LEMMA QueueCounts ==
  ASSUME queue \in Seq(Bundle)
  PROVE  /\ Cardinality(Matched) = Tally(queue, MatchedOnes)
         /\ Cardinality(Unmatched) = Tally(queue, WaitingOnes)
<1>1. DOMAIN queue = 1 .. Len(queue) /\ \A k \in DOMAIN queue : queue[k] \in Bundle
  BY LenProperties
<1>2. Matched = { k \in 1 .. Len(queue) : queue[k] \in MatchedOnes }
  BY <1>1, Zenon DEF Matched, MatchedOnes
<1>3. Unmatched = { k \in 1 .. Len(queue) : queue[k] \in WaitingOnes }
  BY <1>1, Zenon DEF Matched, Unmatched, WaitingOnes
<1> QED BY <1>2, <1>3 DEF Tally

\* A bundle is made for the buffer, after room was made for it.
LEMMA FlowEnqueue ==
  ASSUME CompPre, Enqueue
  PROVE  FlowInv'
<1> DEFINE b == NewBundle
           o == <<b>>
           q == Front \o o \o Back
           p == Pick(queue, DOMAIN queue \ Trimmed)
           S == SoundOnes(last, attr.low)
           R == Ordered(last, attr.low)
           A == { k \in Kept : k < At }
           B == { k \in Kept : k >= At }
           n == Len(queue)
<1>1. /\ TypeOK /\ pc = "comp" /\ Found = {} /\ (Excess <= 0 \/ Older # {}) /\ UNCHANGED <<attr, last>>
      /\ \/ /\ queue' = q
            /\ IF Cardinality(Stream) = 1 THEN matchCnt' = matchCnt + 1 ELSE matchCnt' = matchCnt
         \/ queue' = p /\ matchCnt' = matchCnt
  BY CompFacts, Zenon DEF Enqueue, Front, Back, Kept, At, CompPre, CompKeeps, envVars
<1>2. /\ queue \in Seq(Bundle) /\ n \in Nat /\ DOMAIN queue = 1 .. n /\ Passed = Unmatched
      /\ Trimmed \in SUBSET DOMAIN queue
  BY <1>1, CompFacts, FoundFacts, TrimmedFacts, Zenon
<1>3. /\ Excess \in Int /\ Excess = Tally(queue, WaitingOnes) - attr.maxUnmatched
      /\ Tally(queue, WaitingOnes) \in Nat /\ attr.maxUnmatched \in Nat
  BY <1>1, <1>2, QueueCounts, FlowTypes DEF Excess
<1>4. Excess <= 1
  BY <1>3 DEF CompPre, FlowInv, BoundInv
<1>5. /\ Trimmed \subseteq Unmatched /\ (Trimmed # {} => Excess > 0)
      /\ (Excess = 1 => Trimmed # {})
  BY <1>1, <1>2, <1>3, TrimmedWait DEF CompPre, FlowInv
<1>6. Trimmed \cap Matched = {} /\ Cardinality(Trimmed \cap Matched) = 0
  <2>1. Trimmed \cap Matched = {}
    BY <1>5 DEF Unmatched
  <2> QED BY <2>1, FS_EmptySet
<1>7. CASE queue' = p /\ matchCnt' = matchCnt
  <2>1. matchCnt' = matchCnt - Cardinality(Trimmed \cap Matched)
    BY <1>1, <1>6, <1>7, FlowTypes
  <2>2. SameAttr /\ Grows(last, last')
    BY <1>1, StillFacts
  <2> QED BY <1>1, <1>2, <1>7, <2>1, <2>2, FlowTaken DEF CompPre
<1>8. CASE /\ queue' = q
           /\ IF Cardinality(Stream) = 1 THEN matchCnt' = matchCnt + 1 ELSE matchCnt' = matchCnt
  <2>1. b \in S /\ b \in Bundle /\ b.matched = (Cardinality(Stream) = 1)
    BY <1>1, NewSound, NewFacts
  <2>2. queue \in Seq(S) /\ Chain(queue, R)
    BY DEF CompPre, FlowInv, SoundInv, OrderInv
  <2>3. /\ Kept \in SUBSET (1 .. n) /\ At \in Int /\ A \in SUBSET (1 .. n) /\ B \in SUBSET (1 .. n)
        /\ Front = Pick(queue, A) /\ Back = Pick(queue, B)
        /\ \A k \in A : k < At /\ k \in DOMAIN queue
        /\ \A k \in B : k >= At /\ k \in DOMAIN queue
    BY <1>2, AtFacts, Zenon DEF Kept, Front, Back
  <2>4. \A j, k \in 1 .. n : j < k => <<queue[j], queue[k]>> \in R
    BY <2>2, Zenon DEF Chain
  <2>5. \A k \in DOMAIN queue : /\ k < At => <<queue[k], b>> \in R
                                /\ k >= At => <<b, queue[k]>> \in R
    BY <1>1, NewOrder
  <2> HIDE DEF A, B, b, S, R
  <2>6. /\ Front \in Seq(S) /\ Back \in Seq(S) /\ Chain(Front, R) /\ Chain(Back, R)
    <3>1. Front \in Seq(S) /\ Back \in Seq(S)
      BY <2>2, <2>3, PickFacts
    <3>2. Chain(Front, R)
      BY <2>2, <2>3, <2>4, PickChain
    <3>3. Chain(Back, R)
      BY <2>2, <2>3, <2>4, PickChain
    <3> QED BY <3>1, <3>2, <3>3
  <2>7. /\ \A i \in 1 .. Len(Front) : \E k \in A : Front[i] = queue[k]
        /\ \A i \in 1 .. Len(Back) : \E k \in B : Back[i] = queue[k]
    <3>1. \A i \in 1 .. Len(Pick(queue, A)) : \E k \in A : Pick(queue, A)[i] = queue[k]
      BY <2>2, <2>3, PickedFrom
    <3>2. \A i \in 1 .. Len(Pick(queue, B)) : \E k \in B : Pick(queue, B)[i] = queue[k]
      BY <2>2, <2>3, PickedFrom
    <3> QED BY <2>3, <3>1, <3>2
  <2>8. /\ o \in Seq(S) /\ Len(o) = 1 /\ o[1] = b /\ Chain(o, R)
    <3>1. o \in Seq(S) /\ Len(o) = 1 /\ o[1] = b
      BY <2>1
    <3>2. \A i, j \in 1 .. 1 : ~(i < j)
      OBVIOUS
    <3> HIDE DEF o
    <3> QED BY <3>1, <3>2 DEF Chain
  <2> HIDE DEF o
  <2> DEFINE f == Front \o o
  <2>9. \A i \in 1 .. Len(Front), j \in 1 .. Len(o) : <<Front[i], o[j]>> \in R
    <3> TAKE i \in 1 .. Len(Front), j \in 1 .. Len(o)
    <3>1. j = 1 /\ o[j] = b
      BY <2>8
    <3> QED BY <2>3, <2>5, <2>7, <3>1
  <2>10. f \in Seq(S) /\ Chain(f, R)
    <3>1. f \in Seq(S)
      BY <2>6, <2>8, ConcatProperties
    <3> QED BY <2>6, <2>8, <2>9, <3>1, ConcatChain
  <2>11. \A i \in 1 .. Len(f), j \in 1 .. Len(Back) : <<f[i], Back[j]>> \in R
    <3> TAKE i \in 1 .. Len(f), j \in 1 .. Len(Back)
    <3>1. PICK k \in B : Back[j] = queue[k]
      BY <2>7
    <3>2. f[i] = b \/ (i \in 1 .. Len(Front) /\ f[i] = Front[i])
      <4>1. /\ Len(f) = Len(Front) + 1 /\ Len(Front) \in Nat
            /\ \A m \in 1 .. Len(Front) + 1 :
                  f[m] = IF m <= Len(Front) THEN Front[m] ELSE o[m - Len(Front)]
        <5>1. /\ Len(Front) \in Nat /\ Len(f) = Len(Front) + Len(o)
              /\ \A m \in 1 .. Len(Front) + Len(o) :
                    f[m] = IF m <= Len(Front) THEN Front[m] ELSE o[m - Len(Front)]
          BY <2>6, <2>8, ConcatProperties, LenProperties, Zenon
        <5> HIDE DEF f
        <5> QED BY <2>8, <5>1
      <4>2. CASE i <= Len(Front)
        BY <4>1, <4>2
      <4>3. CASE ~(i <= Len(Front))
        <5> HIDE DEF f
        <5>1. i - Len(Front) = 1 /\ i \in 1 .. Len(Front) + 1
          BY <4>1, <4>3
        <5>2. f[i] = o[i - Len(Front)]
          BY <4>1, <4>3, <5>1
        <5> QED BY <2>8, <5>1, <5>2
      <4> QED BY <4>2, <4>3
    <3>3. CASE f[i] = b
      BY <2>3, <2>5, <3>1, <3>3
    <3>4. CASE i \in 1 .. Len(Front) /\ f[i] = Front[i]
      <4>1. PICK m \in A : Front[i] = queue[m]
        BY <2>7, <3>4
      <4>2. m < k /\ m \in 1 .. n /\ k \in 1 .. n
        <5>1. m \in 1 .. n /\ k \in 1 .. n /\ m < At /\ k >= At
          BY <2>3
        <5> QED BY <1>2, <2>3, <5>1
      <4> QED BY <2>4, <3>1, <3>4, <4>1, <4>2
    <3> QED BY <3>2, <3>3, <3>4
  <2>12. q \in Seq(S) /\ Chain(q, R)
    <3> HIDE DEF f
    <3>1. f \o Back \in Seq(S)
      BY <2>6, <2>10, ConcatProperties
    <3>2. Chain(f \o Back, R)
      BY <2>6, <2>10, <2>11, ConcatChain
    <3> QED BY <3>1, <3>2 DEF f
  <2>13. SoundInv' /\ OrderInv' /\ LowInv'
    BY <1>1, <1>8, <2>12 DEF SoundInv, OrderInv, S, R, CompPre, FlowInv, LowInv
  <2>14. \A V : /\ Tally(p, V) \in Nat /\ CountAt(queue, Trimmed, V) \in Nat
                /\ Tally(p, V) = Tally(queue, V) - CountAt(queue, Trimmed, V)
                /\ Tally(q, V) = Tally(p, V) + IF b \in V THEN 1 ELSE 0
    BY <1>1, EnqueueCounts DEF b, o
  <2> HIDE DEF q, p
  <2>15. ExactInv'
    <3>1. CountAt(queue, Trimmed, MatchedOnes) = 0
      BY <1>2, <1>6, CountOut
    <3>2. b \in MatchedOnes <=> Cardinality(Stream) = 1
      BY <2>1 DEF MatchedOnes
    <3>3. Tally(q, MatchedOnes) = Tally(queue, MatchedOnes) + IF b \in MatchedOnes THEN 1 ELSE 0
      BY <1>1, <2>14, <3>1, FlowTypes
    <3> QED BY <1>1, <1>8, <3>2, <3>3, FlowTypes DEF CompPre, FlowInv, ExactInv
  <2>16. BoundInv'
    <3>1. Tally(q, WaitingOnes) <= Tally(queue, WaitingOnes) - CountAt(queue, Trimmed, WaitingOnes) + 1
      BY <1>3, <2>14
    <3>2. Excess = 1 => CountAt(queue, Trimmed, WaitingOnes) # 0
      <4> SUFFICES ASSUME Trimmed # {} PROVE CountAt(queue, Trimmed, WaitingOnes) # 0
        BY <1>5
      <4>1. \A k \in Trimmed : queue[k] \in WaitingOnes
        BY <1>2, <1>5, FoundFacts DEF WaitingOnes
      <4>2. { k \in Trimmed : queue[k] \in WaitingOnes } = Trimmed
        BY <4>1
      <4>3. CountAt(queue, Trimmed, WaitingOnes) = Cardinality(Trimmed)
        BY <4>2 DEF CountAt
      <4> QED BY <1>2, <4>3, PositionsFinite
    <3>3. CountAt(queue, Trimmed, WaitingOnes) \in Nat
      BY <2>14
    <3>4. Tally(q, WaitingOnes) \in Nat
      BY <2>14
    <3>5. Tally(q, WaitingOnes) <= attr.maxUnmatched + 1
      BY <1>3, <1>4, <3>1, <3>2, <3>3, <3>4
    <3> QED BY <1>1, <1>8, <3>5 DEF BoundInv
  <2> QED BY <2>13, <2>15, <2>16 DEF FlowInv
<1> QED BY <1>1, <1>7, <1>8

\* What comp_and_enqueue does keeps the invariant.
LEMMA FlowComp ==
  ASSUME CompPre, FreshInv, CompAndEnqueue
  PROVE  FlowInv'
<1>1. TypeOK /\ UNCHANGED <<attr, last>> /\ SameAttr /\ Grows(last, last')
  <2>1. TypeOK /\ UNCHANGED <<attr, last>>
    BY CompFacts, Zenon DEF CompAndEnqueue, Discard, Duplicate, Fill, Complete, Refuse, Enqueue,
       CompKeeps, envVars
  <2> QED BY <2>1, StillFacts
<1>2. CASE Discard \/ Refuse
  <2>1. UNCHANGED <<queue, matchCnt>>
    BY <1>2, Zenon DEF Discard, Refuse, queueVars
  <2> QED BY <1>1, <2>1, FlowSame DEF CompPre
<1>3. CASE Duplicate
  <2>1. queue' = queue /\ matchCnt' = matchCnt
    BY <1>3, DuplicateSame, Zenon DEF Duplicate
  <2> QED BY <1>1, <2>1, FlowSame DEF CompPre
<1> QED BY <1>2, <1>3, FlowFill, FlowComplete, FlowEnqueue, Zenon DEF CompAndEnqueue

\* A buffer that arrives is the last of its stream.
LEMMA ArrivesFacts ==
  ASSUME TypeOK, NEW i \in Frame, NEW s \in Stream, Arrives(s, i)
  PROVE  /\ Grows(last, last') /\ i >= last[s] /\ (s \notin Repeating => i > last[s])
         /\ last[s] \in Int /\ pc' = "comp" /\ hand'.stream = s /\ hand'.idx = i
<1>1. last \in [Stream -> 0 .. MaxFrame] /\ i \in Int /\ MaxFrame \in Nat /\ i \in 0 .. MaxFrame
  BY FlowTypes, FrameFacts, ConstFacts DEF Frame
<1>2. /\ last' = [last EXCEPT ![s] = i] /\ pc' = "comp" /\ hand' = [stream |-> s, idx |-> i]
      /\ i > last[s] \/ (s \in Repeating /\ i = last[s])
  BY DEF Arrives
<1>3. last[s] \in Int /\ \A e \in Stream : last[e] \in Int
  BY <1>1
<1> QED BY <1>1, <1>2, <1>3 DEF Grows

\* Every step keeps the invariant of the queue.
LEMMA FlowKept == TypeInv /\ TypeInv' /\ FlowInv /\ FreshInv /\ [Next]_vars => FlowInv'
<1> SUFFICES ASSUME TypeInv, TypeInv', FlowInv, FreshInv, [Next]_vars PROVE FlowInv'
  OBVIOUS
<1>1. TypeOK /\ CountInv /\ RestInv /\ TypeOK' /\ queue \in Seq(Bundle) /\ attr \in AttrRecord
  BY DEF TypeInv, TypeOK
<1>2. ASSUME UNCHANGED queueVars, SameAttr, UNCHANGED last PROVE FlowInv'
  <2>1. Grows(last, last')
    <3>1. \A s \in Stream : last[s] \in Int
      BY <1>1, FlowTypes, ConstFacts
    <3> QED BY <1>1, <1>2, <3>1, FlowTypes DEF Grows
  <2> QED BY <1>1, <1>2, <2>1, FlowSame DEF queueVars
<1>3. ASSUME NEW F \in SUBSET DOMAIN queue, queue' = Pick(queue, DOMAIN queue \ F),
             matchCnt' = matchCnt - Cardinality(F \cap Matched), UNCHANGED <<attr, last>>
      PROVE  FlowInv'
  <2>1. SameAttr /\ Grows(last, last')
    BY <1>1, <1>3, StillFacts
  <2> QED BY <1>1, <1>3, <2>1, FlowTaken
<1>4. ASSUME queue' = <<>>, matchCnt' = 0, attr' = attr \/ ~attr'.low PROVE FlowInv'
  <2>1. LowInv'
    BY <1>4 DEF FlowInv, LowInv
  <2> QED BY <1>1, <1>4, <2>1, FlowEmpty
<1>5. ASSUME NEW i \in Frame, NEW s \in Stream, Buffer(s, i) PROVE FlowInv'
  <2>1. Arrives(s, i) /\ UNCHANGED <<queue, matchCnt>> /\ SameAttr
    BY <1>5 DEF Buffer, queueVars, SameAttr
  <2>2. Grows(last, last')
    BY <1>1, <2>1, ArrivesFacts
  <2> QED BY <1>1, <2>1, <2>2, FlowSame
<1>6. ASSUME NEW i \in Frame, NEW m \in MetaContent, MetadataBuffer(i, m) PROVE FlowInv'
  <2>1. /\ Metadata \in Stream /\ Arrives(Metadata, i)
        /\ queue' = Pick(queue, DOMAIN queue \ FlushedBy(m))
        /\ matchCnt' = matchCnt - Cardinality(FlushedBy(m) \cap Matched)
    BY <1>6, Zenon DEF MetadataBuffer, FlushMeta
  <2>2. Grows(last, last')
    BY <1>1, <2>1, ArrivesFacts
  <2>3. attr' = attr \/ attr' = [attr EXCEPT !.userExpected = 0]
    BY <1>6 DEF MetadataBuffer, MetaZoom, MetaPlain
  <2>4. SameAttr
    BY <1>1, <2>3 DEF SameAttr, AttrRecord
  <2>5. FlushedBy(m) \in SUBSET DOMAIN queue
    BY <1>1, FlushedFacts, Zenon
  <2> QED BY <1>1, <2>1, <2>2, <2>4, <2>5, FlowTaken
<1>7. CASE CompAndEnqueue
  <2>1. pc = "comp"
    BY <1>7 DEF CompAndEnqueue, Discard, Duplicate, Fill, Complete, Refuse, Enqueue
  <2> QED BY <1>7, <2>1, FlowComp DEF CompPre
<1>8. ASSUME NEW limit, BufDoneOver(limit), UNCHANGED <<attr, last>> PROVE FlowInv'
  <2>1. /\ Surplus(limit) \in SUBSET DOMAIN queue
        /\ queue' = Pick(queue, DOMAIN queue \ Surplus(limit))
    BY <1>1, <1>8, OverCounts
  <2>2. matchCnt' = matchCnt - Cardinality(Surplus(limit) \cap Matched)
    BY <1>8, Zenon DEF BufDoneOver, Flush
  <2> QED BY <1>3, <1>8, <2>1, <2>2
<1>9. CASE Skip
  <2>1. BufDoneOver(attr.lookBack) /\ UNCHANGED <<attr, last>>
    BY <1>9, Zenon DEF Skip, envVars
  <2> QED BY <1>8, <2>1
<1>10. CASE Overflow
  <2>1. BufDoneOver(attr.waterMark) /\ UNCHANGED <<attr, last>>
    BY <1>10, Zenon DEF Overflow, envVars
  <2> QED BY <1>8, <2>1
<1>11. CASE Dispatch
  <2>1. /\ HeadMatched /\ queue' = Tail(queue) /\ matchCnt' = matchCnt - 1
        /\ UNCHANGED <<attr, last>>
    BY <1>11, Zenon DEF Dispatch
  <2> QED BY <1>1, <2>1, FlowHead
<1>12. ASSUME UNCHANGED queueVars, UNCHANGED attr, UNCHANGED last PROVE FlowInv'
  BY <1>2, <1>12 DEF SameAttr
<1>13. CASE Rest
  BY <1>12, <1>13, Zenon DEF Rest, envVars
<1>14. ASSUME NEW n \in 0 .. MaxRequest, NEW r \in 0 .. MaxRequest, Request(n, r) PROVE FlowInv'
  BY <1>12, <1>14, Zenon DEF Request, envVars
<1>15. ASSUME NEW mode \in Mode, ConfigNotify(mode) PROVE FlowInv'
  <2>1. UNCHANGED queueVars /\ UNCHANGED last /\ attr' = [attr EXCEPT !.mode = mode]
    BY <1>15, Zenon DEF ConfigNotify, envVars
  <2>2. SameAttr
    BY <1>1, <2>1 DEF SameAttr, AttrRecord
  <2> QED BY <1>2, <2>1, <2>2
<1>16. ASSUME Flush(DOMAIN queue), UNCHANGED <<attr, last>> PROVE FlowInv'
  BY <1>1, <1>3, <1>16, FlushedFacts DEF Flush
<1>17. ASSUME NEW i \in 0 .. MaxFrame, FlushQueue(i) PROVE FlowInv'
  BY <1>16, <1>17, Zenon DEF FlushQueue, envVars
<1>18. ASSUME NEW on \in BOOLEAN, AeBracketing(on) \/ FlashBracketing(on) \/ Zoom1x(on)
       PROVE  FlowInv'
  BY <1>16, <1>18, Zenon DEF AeBracketing, FlashBracketing, Zoom1x, General, envVars
<1>19. ASSUME NEW on \in BOOLEAN, ManualZsl(on) PROVE FlowInv'
  BY <1>12, <1>19, Zenon DEF ManualZsl, envVars
<1>20. ASSUME NEW s \in Stream, GiveBack(s) PROVE FlowInv'
  BY <1>12, <1>20, Zenon DEF GiveBack
<1>21. CASE Start
  <2>1. queue' = <<>> /\ matchCnt' = matchCnt /\ attr' = attr /\ phase = "stopped"
    BY <1>21, Zenon DEF Start
  <2>2. matchCnt = 0
    BY <1>1, <2>1 DEF RestInv
  <2> QED BY <1>4, <2>1, <2>2
<1>22. CASE Started
  BY <1>12, <1>22, Zenon DEF Started
<1>23. CASE StartFails
  <2>1. queue' = <<>> /\ matchCnt' = 0 /\ ~attr'.low
    BY <1>23 DEF StartFails
  <2> QED BY <1>4, <2>1
<1>24. CASE Stop
  BY <1>4, <1>24, Zenon DEF Stop
<1>25. CASE UNCHANGED vars
  BY <1>12, <1>25, Zenon DEF vars, envVars
<1>26. CASE Relink
  BY <1>12, <1>26, RelinkFacts, Zenon DEF LinkKeeps
<1> QED BY <1>5, <1>6, <1>7, <1>9, <1>10, <1>11, <1>13, <1>14, <1>15, <1>17, <1>18, <1>19, <1>20,
           <1>21, <1>22, <1>23, <1>24, <1>25, <1>26, Zenon DEF Next, Arrive, Serve, Upper, Session

\* Every step keeps the buffer in hand newer than the queue's, unless the driver of its
\* stream repeats frames.
LEMMA FreshKept == TypeInv /\ FlowInv /\ FreshInv /\ [Next]_vars => FreshInv'
<1> SUFFICES ASSUME TypeInv, FlowInv, FreshInv, [Next]_vars PROVE FreshInv'
  OBVIOUS
<1>1. TypeOK /\ RestInv /\ queue \in Seq(Bundle) /\ DOMAIN queue = 1 .. Len(queue)
  BY LenProperties DEF TypeInv, TypeOK
<1>2. ASSUME NEW i \in Frame, NEW s \in Stream, Arrives(s, i),
             \A k \in DOMAIN queue' : \E j \in DOMAIN queue : queue'[k] = queue[j]
      PROVE  FreshInv'
  <2> SUFFICES ASSUME s \notin Repeating, NEW k \in DOMAIN queue'
               PROVE  queue'[k].buf[s] < i
    BY <1>1, <1>2, ArrivesFacts DEF FreshInv
  <2>1. PICK j \in DOMAIN queue : queue'[k] = queue[j]
    BY <1>2
  <2>2. queue[j] \in Bundle /\ Sound(queue[j], last, attr.low)
    BY OneSound DEF FlowInv
  <2>3. queue[j].buf[s] <= last[s] /\ queue[j].buf[s] \in Int
    BY <2>2, SoundFacts, BundleNumbers
  <2>4. last[s] < i /\ last[s] \in Int /\ i \in Int
    BY <1>1, <1>2, ArrivesFacts, FrameFacts
  <2> QED BY <2>1, <2>3, <2>4
<1>3. ASSUME NEW i \in Frame, NEW s \in Stream, Buffer(s, i) PROVE FreshInv'
  BY <1>2, <1>3 DEF Buffer, queueVars
<1>4. ASSUME NEW i \in Frame, NEW m \in MetaContent, MetadataBuffer(i, m) PROVE FreshInv'
  <2> DEFINE K == DOMAIN queue \ FlushedBy(m)
  <2>1. Metadata \in Stream /\ Arrives(Metadata, i) /\ queue' = Pick(queue, K)
    BY <1>4, Zenon DEF MetadataBuffer, FlushMeta
  <2>2. K \in SUBSET (1 .. Len(queue)) /\ K \subseteq DOMAIN queue
    BY <1>1
  <2> HIDE DEF K
  <2>3. DOMAIN queue' = 1 .. Len(queue')
    BY <1>1, <2>1, <2>2, PickFacts, LenProperties
  <2>4. \A k \in 1 .. Len(Pick(queue, K)) : \E j \in K : Pick(queue, K)[k] = queue[j]
    BY <1>1, <2>2, PickedFrom
  <2>5. \A k \in DOMAIN queue' : \E j \in DOMAIN queue : queue'[k] = queue[j]
    BY <2>1, <2>2, <2>3, <2>4
  <2> QED BY <1>2, <2>1, <2>5
<1>5. ASSUME pc' # "comp" \/ UNCHANGED <<pc, hand, queue>> PROVE FreshInv'
  BY <1>5 DEF FreshInv
<1>6. CASE CompAndEnqueue \/ Serve
  <2>1. pc' # "comp"
    BY <1>6 DEF CompAndEnqueue, Discard, Duplicate, Fill, Complete, Refuse, Enqueue, Settle, Serve,
                Skip, Overflow, Dispatch, Rest
  <2> QED BY <1>5, <2>1
<1>7. ASSUME NEW n \in 0 .. MaxRequest, NEW r \in 0 .. MaxRequest, Request(n, r) PROVE FreshInv'
  BY <1>5, <1>7 DEF Request
<1>8. ASSUME NEW mode \in Mode, ConfigNotify(mode) PROVE FreshInv'
  BY <1>5, <1>8 DEF ConfigNotify
<1>9. ASSUME NEW i \in 0 .. MaxFrame, FlushQueue(i) PROVE FreshInv'
  BY <1>5, <1>9 DEF FlushQueue, Sends
<1>10. ASSUME NEW on \in BOOLEAN, \/ AeBracketing(on) \/ FlashBracketing(on)
                                  \/ Zoom1x(on) \/ ManualZsl(on)
       PROVE  FreshInv'
  BY <1>5, <1>10 DEF AeBracketing, FlashBracketing, Zoom1x, ManualZsl, General
<1>11. ASSUME NEW s \in Stream, GiveBack(s) PROVE FreshInv'
  BY <1>5, <1>11 DEF GiveBack, queueVars
<1>12. CASE Start
  BY <1>1, <1>5, <1>12 DEF Start, RestInv
<1>13. CASE Started
  BY <1>5, <1>13 DEF Started, queueVars
<1>14. CASE StartFails \/ Stop
  BY <1>5, <1>14 DEF StartFails, Stop
<1>15. CASE UNCHANGED vars
  BY <1>5, <1>15 DEF vars, queueVars
<1>16. CASE Relink
  BY <1>5, <1>16, RelinkFacts, Zenon DEF LinkKeeps, queueVars
<1> QED BY <1>3, <1>4, <1>6, <1>7, <1>8, <1>9, <1>10, <1>11, <1>12, <1>13, <1>14, <1>15, <1>16, Zenon
     DEF Next, Arrive, Upper, Session

BundlesInv == TypeInv /\ FlowInv /\ FreshInv

\* The invariant holds in every state of a channel whose metadata comes once per
\* frame, or whose queues are all of normal priority.
LEMMA BundlesAlways == Orderly => (Spec => []BundlesInv)
<1> SUFFICES ASSUME Orderly PROVE Spec => []BundlesInv
  OBVIOUS
<1>1. Init => BundlesInv
  <2> SUFFICES ASSUME Init PROVE BundlesInv
    OBVIOUS
  <2>1. queue = <<>> /\ matchCnt = 0 /\ attr \in Attrs /\ pc = "idle" /\ TypeInv
    BY TypeInit DEF Init
  <2>2. Tally(queue, MatchedOnes) = 0 /\ Tally(queue, WaitingOnes) = 0
    BY <2>1, NoTally
  <2>3. attr.maxUnmatched \in Nat
    BY <2>1, FlowTypes DEF TypeInv
  <2>4. LowInv
    BY <2>1 DEF Orderly, LowInv
  <2>5. ExactInv /\ BoundInv
    BY <2>1, <2>2, <2>3 DEF ExactInv, BoundInv
  <2>6. SoundInv /\ OrderInv /\ FreshInv
    BY <2>1 DEF SoundInv, OrderInv, Chain, FreshInv
  <2> QED BY <2>1, <2>4, <2>5, <2>6 DEF BundlesInv, FlowInv
<1>2. BundlesInv /\ [Next]_vars => BundlesInv'
  BY TypeKept, FlowKept, FreshKept, Zenon DEF BundlesInv
<1> QED BY <1>1, <1>2, PTL DEF Spec

\* The matched bundles are the first ones, as many as match_cnt says.
LEMMA MatchedFirst ==
  ASSUME BundlesInv
  PROVE  /\ matchCnt = Cardinality(Matched) /\ Matched = 1 .. matchCnt
         /\ Cardinality(Unmatched) <= attr.maxUnmatched + 1
         /\ \A k, n \in DOMAIN queue : queue[n].matched /\ k < n => queue[k].matched
<1>1. queue \in Seq(Bundle) /\ matchCnt \in Nat /\ FlowInv
  BY DEF BundlesInv, TypeInv, TypeOK
<1>2. matchCnt = Cardinality(Matched) /\ Cardinality(Unmatched) <= attr.maxUnmatched + 1
  BY <1>1, QueueCounts DEF FlowInv, ExactInv, BoundInv
<1>3. \A k, n \in DOMAIN queue : queue[n].matched /\ k < n => queue[k].matched
  BY <1>1, PairFacts DEF FlowInv
<1>4. DOMAIN queue = 1 .. Len(queue) /\ Len(queue) \in Nat
  BY <1>1, LenProperties
<1>5. /\ Matched \in SUBSET (1 .. Len(queue))
      /\ \A k \in Matched, j \in 1 .. Len(queue) : j < k => j \in Matched
  BY <1>3, <1>4, Zenon DEF Matched
<1>6. Matched = 1 .. Cardinality(Matched)
  BY <1>4, <1>5, PrefixCount
<1> QED BY <1>2, <1>3, <1>6

\* The matched bundles come before those that wait, whatever was flushed, replaced
\* or inserted; and in a queue of normal priority those that wait are in the order of
\* their frames.
THEOREM OrderCorrect == Orderly => (Spec => []QueueInOrder)
<1>1. BundlesInv => QueueInOrder
  <2> SUFFICES ASSUME BundlesInv PROVE QueueInOrder
    OBVIOUS
  <2>1. queue \in Seq(Bundle) /\ OrderInv
    BY DEF BundlesInv, TypeInv, TypeOK, FlowInv
  <2>2. ASSUME ~attr.low, NEW k \in Unmatched, NEW n \in Unmatched, k < n
        PROVE  queue[k].idx < queue[n].idx
    <3>1. k \in DOMAIN queue /\ n \in DOMAIN queue /\ ~queue[k].matched
      BY <2>1, FoundFacts
    <3>2. Before(queue[k], queue[n], last, attr.low)
      BY <2>1, <2>2, <3>1, PairFacts
    <3> QED BY <2>2, <3>1, <3>2, Zenon DEF Before
  <2> QED BY <2>2, MatchedFirst DEF QueueInOrder
<1> QED BY <1>1, BundlesAlways, PTL

\* match_cnt is exactly the number of matched bundles: whoever takes a bundle out
\* counts it off if and only if it was matched.
THEOREM CountCorrect == Orderly => (Spec => []CountsMatched)
<1>1. BundlesInv => CountsMatched
  BY MatchedFirst DEF CountsMatched
<1> QED BY <1>1, BundlesAlways, PTL

\* The loops of skip and overflow end: the bundles they have to drop are matched
\* ones at the head of the queue.
THEOREM LoopsCorrect == Orderly => (Spec => []LoopsEnd)
<1>1. BundlesInv => LoopsEnd
  <2> SUFFICES ASSUME BundlesInv PROVE LoopsEnd
    OBVIOUS
  <2>1. TypeOK /\ matchCnt \in Nat /\ queue \in Seq(Bundle) /\ DOMAIN queue = 1 .. Len(queue)
    BY LenProperties DEF BundlesInv, TypeInv, TypeOK
  <2>2. Matched = 1 .. matchCnt
    BY MatchedFirst
  <2>3. ASSUME NEW limit \in Nat PROVE Surplus(limit) \subseteq MatchedHead
    <3> SUFFICES ASSUME NEW k \in Surplus(limit) PROVE k \in MatchedHead
      OBVIOUS
    <3>1. k \in 1 .. (matchCnt - limit)
      BY DEF Surplus
    <3>2. k \in 1 .. matchCnt /\ 1 .. k \subseteq 1 .. matchCnt
      BY <2>1, <3>1
    <3>3. k \in DOMAIN queue
      BY <2>2, <3>2, Zenon DEF Matched
    <3> QED BY <2>2, <3>2, <3>3 DEF MatchedHead
  <2>4. attr.lookBack \in Nat /\ attr.waterMark \in Nat
    BY <2>1 DEF TypeOK, AttrRecord
  <2> QED BY <2>3, <2>4 DEF LoopsEnd
<1> QED BY <1>1, BundlesAlways, PTL

\* At most one bundle more than max_unmatched_frames waits for buffers.
THEOREM UnmatchedCorrect == Orderly => (Spec => []UnmatchedBounded)
<1>1. BundlesInv => UnmatchedBounded
  BY MatchedFirst DEF UnmatchedBounded
<1> QED BY <1>1, BundlesAlways, PTL

\* What is handed to the upper layer as one super-buffer is of one frame, but for the
\* metadata of a queue of low priority.
THEOREM FrameCorrect == Orderly => (Spec => []OneFrame)
<1>1. BundlesInv => OneFrame
  <2> SUFFICES ASSUME BundlesInv, NEW k \in Matched, NEW s \in Stream, s # Metadata \/ ~attr.low
               PROVE  queue[k].buf[s] = queue[k].idx
    BY DEF OneFrame
  <2>1. k \in DOMAIN queue /\ queue[k].matched
    BY Zenon DEF Matched
  <2>2. queue[k] \in Bundle /\ Sound(queue[k], last, attr.low)
    BY <2>1, OneSound DEF BundlesInv, FlowInv
  <2>3. Full(queue[k])
    BY <2>1, <2>2, SoundFacts
  <2>4. OwnId(queue[k], s, attr.low)
    BY <2>3 DEF Full, OwnId
  <2> QED BY <2>2, <2>4, SoundFacts
<1> QED BY <1>1, BundlesAlways, PTL

\* A step of matching in a queue of normal priority.
CompletableKept ==
  CompAndEnqueue /\ ~attr.low =>
    \A k \in Unmatched :
       Completable(queue[k]) /\ (\A n \in DOMAIN queue' : queue'[n].idx # queue[k].idx)
          => Cardinality(Unmatched) > attr.maxUnmatched

\* A bundle that every stream can still complete is not lost to a newer frame that
\* became complete, nor to a frame that came twice or too late: only want of room
\* releases it.
THEOREM CompletableCorrect == Orderly => (Spec => KeepsCompletable)
<1>1. BundlesInv => CompletableKept
  <2> SUFFICES ASSUME BundlesInv, CompAndEnqueue, ~attr.low, NEW k \in Unmatched,
                      Completable(queue[k]),
                      \A n \in DOMAIN queue' : queue'[n].idx # queue[k].idx
               PROVE  Cardinality(Unmatched) > attr.maxUnmatched
    BY Zenon DEF CompletableKept
  <2>1. CompPre
    BY DEF BundlesInv, CompPre, CompAndEnqueue, Discard, Duplicate, Fill, Complete, Refuse, Enqueue
  <2>2. /\ queue \in Seq(Bundle) /\ k \in DOMAIN queue /\ DOMAIN queue = 1 .. Len(queue)
        /\ Len(queue) \in Nat /\ queue[k] \in Bundle /\ ~queue[k].matched
    BY <2>1, CompFacts, FoundFacts
  <2>3. \A n \in DOMAIN queue : queue[n].metaIdx = 0
    <3> TAKE n \in DOMAIN queue
    <3>1. queue[n] \in Bundle /\ Sound(queue[n], last, attr.low)
      BY OneSound DEF BundlesInv, FlowInv
    <3> QED BY <3>1, SoundFacts, BundleNumbers
  <2>4. CASE Discard \/ Duplicate \/ Refuse
    <3>1. queue' = queue
      BY <2>1, <2>4, DuplicateSame, Zenon DEF Discard, Refuse, queueVars, BundlesInv
    <3> QED BY <2>2, <3>1
  <2>5. CASE Fill
    <3>1. /\ Found # {} /\ pc = "comp" /\ TypeOK
          /\ queue' = [queue EXCEPT ![Pos] = Marked(queue[Pos])]
      BY <2>1, <2>5, CompFacts, Zenon DEF Fill, CompPre
    <3>2. Pos \in DOMAIN queue /\ queue[Pos] \in Bundle
      BY <2>1, <3>1, FoundPlace
    <3>3. Marked(queue[Pos]).idx = queue[Pos].idx
      BY <2>3, <3>1, <3>2, PutFacts, FilledFacts
    <3>4. k \in DOMAIN queue' /\ queue'[k].idx = queue[k].idx
      BY <2>2, <3>1, <3>2, <3>3
    <3> QED BY <3>4
  <2>6. CASE Complete
    <3> DEFINE f == Filled(queue[Pos])
               e == Completed(queue[Pos])
               q == [queue EXCEPT ![Pos] = e]
    <3>1. /\ Found # {} /\ pc = "comp" /\ TypeOK /\ Full(f)
          /\ queue[Pos].buf[hand.stream] = NoFrame
      BY <2>1, <2>6, CompFacts, Zenon DEF Complete, CompPre
    <3>2. Pos \in DOMAIN queue /\ queue[Pos] \in Bundle
      BY <2>1, <3>1, FoundPlace
    <3>3. f.idx = queue[Pos].idx /\ e.idx = f.idx /\ f \in Bundle
      BY <2>3, <3>1, <3>2, PutFacts, FilledFacts
    <3>4. /\ q \in Seq(Bundle) /\ Len(q) = Len(queue) /\ queue' = Pick(q, (1 .. Len(q)) \ Stale)
          /\ queue' \in Seq(Bundle)
      BY <2>6, <3>1, CompleteCounts
    <3>5. CASE k \in Stale
      <4>1. queue[k].idx < f.idx
        BY <2>1, <2>6, <3>5, CompleteFacts
      <4>2. PICK s \in Stream : queue[k].buf[s] = NoFrame
        <5>1. ~Full(queue[k])
          BY <2>2, OneSound, SoundFacts DEF BundlesInv, FlowInv
        <5> QED BY <5>1 DEF Full
      <4>3. last[s] < queue[k].idx
        BY <4>2 DEF Completable
      <4>4. f.buf[s] = f.idx /\ f.buf[s] <= last[s]
        <5>1. OwnId(f, s, attr.low)
          BY <3>1 DEF OwnId, Full
        <5> QED BY <2>1, <3>1, <5>1, FillFacts
      <4>5. f.idx \in Int /\ queue[k].idx \in Int /\ last[s] \in Int
        BY <2>1, <2>2, <3>3, BundleNumbers, CompFacts
      <4> HIDE DEF f
      <4> QED BY <4>1, <4>3, <4>4, <4>5
    <3>6. CASE k \notin Stale
      <4>1. q[k].idx = queue[k].idx
        BY <2>2, <3>2, <3>3
      <4> HIDE DEF q
      <4>2. PICK n \in 1 .. Len(queue') : queue'[n] = q[k]
        <5>1. k \in (1 .. Len(q)) \ Stale /\ (1 .. Len(q)) \ Stale \in SUBSET (1 .. Len(q))
          BY <2>2, <3>4, <3>6
        <5> QED BY <3>4, <5>1, PickedAll
      <4>3. n \in DOMAIN queue'
        BY <3>4, <4>2, LenProperties
      <4> QED BY <4>1, <4>2, <4>3
    <3> QED BY <3>5, <3>6
  <2>7. CASE Enqueue
    <3> DEFINE p == Pick(queue, DOMAIN queue \ Trimmed)
               q == Front \o <<NewBundle>> \o Back
    <3>1. /\ Found = {} /\ pc = "comp" /\ TypeOK /\ (Excess <= 0 \/ Older # {})
          /\ queue' = q \/ queue' = p
      BY <2>1, <2>7, CompFacts, Zenon DEF Enqueue, Front, Back, Kept, At, CompPre
    <3>2. /\ Excess \in Int /\ Excess = Cardinality(Unmatched) - attr.maxUnmatched
          /\ Cardinality(Unmatched) \in Nat /\ attr.maxUnmatched \in Nat
      BY <2>2, <3>1, QueueCounts, FoundFacts, FlowTypes DEF Excess
    <3>3. CASE k \in Trimmed
      <4>1. Excess > 0
        BY <2>2, <3>1, <3>2, <3>3, TrimmedWait DEF BundlesInv, FlowInv
      <4> QED BY <3>2, <4>1
    <3>4. CASE k \notin Trimmed
      <4>1. k \in Kept /\ Kept \in SUBSET (1 .. Len(queue)) /\ p = Pick(queue, Kept)
        BY <2>2, <3>4 DEF Kept
      <4>2. Front \in Seq(Bundle) /\ Back \in Seq(Bundle) /\ q \in Seq(Bundle) /\ p \in Seq(Bundle)
        BY <3>1, EnqueueCounts
      <4>3. \E n \in DOMAIN p : p[n] = queue[k]
        <5>1. \E n \in 1 .. Len(Pick(queue, Kept)) : Pick(queue, Kept)[n] = queue[k]
          BY <2>2, <4>1, PickedAll
        <5> QED BY <4>1, <4>2, <5>1, LenProperties
      <4>4. \E n \in DOMAIN q : q[n] = queue[k]
        <5> DEFINE A == { j \in Kept : j < At }
                   B == { j \in Kept : j >= At }
        <5>1. A \in SUBSET (1 .. Len(queue)) /\ B \in SUBSET (1 .. Len(queue))
              /\ Front = Pick(queue, A) /\ Back = Pick(queue, B)
          BY <4>1, Zenon DEF Front, Back
        <5>2. k \in A \/ k \in B
          BY <2>2, <4>1, AtFacts
        <5> HIDE DEF A, B
        <5>3. \/ \E n \in 1 .. Len(Front) : Front[n] = queue[k]
              \/ \E n \in 1 .. Len(Back) : Back[n] = queue[k]
          BY <2>2, <5>1, <5>2, PickedAll
        <5> DEFINE o == <<NewBundle>>
                   f == Front \o o
        <5>4. o \in Seq(Bundle) /\ Len(o) = 1
          BY <3>1, NewFacts
        <5> HIDE DEF o
        <5>5. /\ f \in Seq(Bundle) /\ Back \in Seq(Bundle)
              /\ \A i \in 1 .. Len(Front) : \E n \in 1 .. Len(f) : f[n] = Front[i]
          BY <4>2, <5>4, ConcatEntries
        <5> HIDE DEF f
        <5>6. /\ \A i \in 1 .. Len(f) : \E n \in 1 .. Len(f \o Back) : (f \o Back)[n] = f[i]
              /\ \A i \in 1 .. Len(Back) : \E n \in 1 .. Len(f \o Back) : (f \o Back)[n] = Back[i]
          <6> DEFINE g == Back
          <6>1. f \in Seq(Bundle) /\ g \in Seq(Bundle)
            BY <5>5
          <6> HIDE DEF g
          <6>2. \A i \in 1 .. Len(f) : \E n \in 1 .. Len(f \o g) : (f \o g)[n] = f[i]
            BY <6>1, ConcatEntries
          <6>3. \A i \in 1 .. Len(g) : \E n \in 1 .. Len(f \o g) : (f \o g)[n] = g[i]
            BY <6>1, ConcatEntries
          <6> QED BY <6>2, <6>3 DEF g
        <5>7. \E n \in 1 .. Len(f \o Back) : (f \o Back)[n] = queue[k]
          BY <5>3, <5>5, <5>6, Zenon
        <5> QED BY <4>2, <5>7, LenProperties DEF f, o
      <4> QED BY <3>1, <4>3, <4>4
    <3> QED BY <3>3, <3>4
  <2> QED BY <2>4, <2>5, <2>6, <2>7, Zenon DEF CompAndEnqueue
<1>2. Spec /\ []BundlesInv => KeepsCompletable
  BY <1>1, PTL DEF KeepsCompletable, CompletableKept
<1> QED BY <1>2, BundlesAlways, PTL
=============================================================================
