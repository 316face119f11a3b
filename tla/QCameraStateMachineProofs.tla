---------------------- MODULE QCameraStateMachineProofs ----------------------
(* What holds of QCameraStateMachine for every set of callers, calls, settings *)
(* and failures. Three views of what a handler does carry the proofs: what it  *)
(* does to PREVIEW_FRAME, to the channels and parameters (CamOK), and to the   *)
(* message in hand (FlowStep), which is answered, noted, dropped or ignored.   *)
EXTENDS QCameraStateMachine, SequencePickProofs

MsgsOK == msgs \in [delaying : BOOLEAN, delayed : BOOLEAN, enabled : BOOLEAN, wanted : BOOLEAN]

\* What a step can do with the message.
Set(v) == msgs' = [msgs EXCEPT !.enabled = v, !.wanted = v]
Remember == msgs.delaying /\ msgs' = [msgs EXCEPT !.delayed = TRUE, !.wanted = TRUE]
Silence ==
  msgs' = [delaying |-> msgs.delaying /\ ~msgs.delayed, delayed |-> msgs.delayed /\ ~msgs.delaying,
           enabled |-> FALSE, wanted |-> FALSE]
Delay == msgs' = [msgs EXCEPT !.delaying = TRUE]
MsgStep == KeepMsgs \/ ApplyDelayedMsgs \/ Set(TRUE) \/ Set(FALSE) \/ Remember \/ Silence \/ Delay

\* The message's record keeps its type.
LEMMA StepTyped == MsgsOK /\ MsgStep => MsgsOK'
<1> SUFFICES ASSUME MsgsOK, MsgStep PROVE MsgsOK'
  OBVIOUS
<1>1. /\ msgs.delaying \in BOOLEAN /\ msgs.delayed \in BOOLEAN
      /\ msgs.enabled \in BOOLEAN /\ msgs.wanted \in BOOLEAN
  BY Zenon DEF MsgsOK
<1>2. CASE KeepMsgs
  BY <1>2, Zenon DEF MsgsOK, KeepMsgs
<1>3. CASE ApplyDelayedMsgs
  <2>1. /\ (msgs.enabled \/ (msgs.delaying /\ msgs.delayed)) \in BOOLEAN
        /\ (msgs.delayed /\ ~msgs.delaying) \in BOOLEAN
    BY Zenon
  <2> QED
    BY <1>3, <2>1, Zenon DEF MsgsOK, ApplyDelayedMsgs
<1>4. CASE Set(TRUE) \/ Set(FALSE)
  BY <1>4, Zenon DEF MsgsOK, Set
<1>5. CASE Remember \/ Delay
  BY <1>5, Zenon DEF MsgsOK, Remember, Delay
<1>6. CASE Silence
  <2>1. /\ (msgs.delaying /\ ~msgs.delayed) \in BOOLEAN
        /\ (msgs.delayed /\ ~msgs.delaying) \in BOOLEAN
    BY Zenon
  <2> QED
    BY <1>6, <2>1, Zenon DEF MsgsOK, Silence
<1> QED
  BY <1>2, <1>3, <1>4, <1>5, <1>6, Zenon DEF MsgStep

\* None of the things a step can do drops the message.
LEMMA StepKeeps == MsgsOK /\ EnableKept /\ MsgStep => EnableKept'
<1> SUFFICES ASSUME MsgsOK, EnableKept, MsgStep PROVE EnableKept'
  OBVIOUS
<1>1. CASE KeepMsgs
  BY <1>1, Zenon DEF EnableKept, KeepMsgs
<1>2. CASE ApplyDelayedMsgs
  <2>1. /\ msgs'.enabled = (msgs.enabled \/ (msgs.delaying /\ msgs.delayed))
        /\ msgs'.wanted = msgs.wanted
    BY <1>2, SMT DEF MsgsOK, ApplyDelayedMsgs
  <2> QED
    BY <2>1, Zenon DEF EnableKept
<1>3. CASE Set(TRUE)
  <2>1. msgs'.enabled
    BY <1>3, SMT DEF MsgsOK, Set
  <2> QED
    BY <2>1, Zenon DEF EnableKept
<1>4. CASE Set(FALSE) \/ Silence
  <2>1. Set(FALSE) => msgs'.wanted = FALSE
    BY SMT DEF MsgsOK, Set
  <2>2. Silence => msgs'.wanted = FALSE
    <3>1. ASSUME NEW a, NEW b,
                 msgs' = [delaying |-> a, delayed |-> b, enabled |-> FALSE, wanted |-> FALSE]
          PROVE  msgs'.wanted = FALSE
      BY <3>1, SMT
    <3> QED
      BY <3>1, Zenon DEF Silence
  <2> QED
    BY <1>4, <2>1, <2>2, Zenon DEF EnableKept
<1>5. CASE Remember
  <2>1. msgs.delaying /\ msgs' = [msgs EXCEPT !.delayed = TRUE, !.wanted = TRUE]
    BY <1>5, Zenon DEF Remember
  <2>2. msgs'.delaying = msgs.delaying /\ msgs'.delayed = TRUE
    BY <2>1, Zenon DEF MsgsOK
  <2> QED
    BY <2>1, <2>2, Zenon DEF EnableKept
<1>6. CASE Delay
  <2>1. /\ msgs'.delaying = TRUE /\ msgs'.delayed = msgs.delayed
        /\ msgs'.enabled = msgs.enabled /\ msgs'.wanted = msgs.wanted
    BY <1>6, SMT DEF MsgsOK, Delay
  <2> QED
    BY <2>1, Zenon DEF EnableKept
<1> QED
  BY <1>1, <1>2, <1>3, <1>4, <1>5, <1>6, Zenon DEF MsgStep

-----------------------------------------------------------------------------
(* Each state.                                                                 *)

\* The handlers that most states share.
LEMMA SharedStep ==
  SetParams \/ SetParamsRecording \/ CommitParams \/ DropRestart \/ NothingToDo \/ Ignore
    \/ CloseFrame \/ MsgType => MsgStep
<1>1. SetParams \/ SetParamsRecording \/ CommitParams \/ DropRestart => KeepMsgs
  BY Zenon DEF SetParams, SetParamsRecording, CommitParams, DropRestart
<1>2. NothingToDo \/ Ignore \/ CloseFrame => KeepMsgs
  BY Zenon DEF NothingToDo, Ignore, CloseFrame, Remain, KeepMsgs
<1>3. MsgType => Set(On({"enable"}))
  BY Zenon DEF MsgType, Set
<1>4. On({"enable"}) = TRUE \/ On({"enable"}) = FALSE
  BY SMT DEF On
<1>5. Set(On({"enable"})) => Set(TRUE) \/ Set(FALSE)
  BY <1>4, Zenon DEF Set
<1> QED
  BY <1>1, <1>2, <1>3, <1>5, Zenon DEF MsgStep

\* A handler of the stopped state does one of the seven to the message.
LEMMA StoppedStep == StoppedState => MsgStep
<1>1. StoppedReplies \/ SetPreviewWindow => KeepMsgs
  BY Zenon DEF StoppedReplies, SetPreviewWindow, Reply, Remain, KeepMsgs
<1>2. StoppedPreview => KeepMsgs \/ ApplyDelayedMsgs
  BY Zenon DEF StoppedPreview
<1> QED
  BY <1>1, <1>2, SharedStep, Zenon DEF StoppedState, MsgStep

\* So does one of the ready state.
LEMMA ReadyStep == ReadyState => MsgStep
<1>1. ReadyReplies => KeepMsgs
  BY Zenon DEF ReadyReplies, Reply, Remain, KeepMsgs
<1>2. ReadyPreview => KeepMsgs \/ ApplyDelayedMsgs
  BY Zenon DEF ReadyPreview, Reply, Remain, SetPreviewWindow, KeepMsgs
<1>3. ReadyRestart => KeepMsgs
  BY Zenon DEF ReadyRestart
<1> QED
  BY <1>1, <1>2, <1>3, SharedStep, Zenon DEF ReadyState, MsgStep

\* So does one of the previewing state.
LEMMA PreviewingStep == PreviewingState => MsgStep
<1>1. PreviewingReplies \/ PreviewingPreTake => KeepMsgs
  BY Zenon DEF PreviewingReplies, PreviewingPreTake, Reply, Remain, KeepMsgs
<1>2. PreviewingMsgType => Remember \/ Set(TRUE) \/ Silence
  BY Zenon DEF PreviewingMsgType, Remember, Set, Silence
<1>3. PreviewingRestart \/ PreviewingPreview \/ PreviewingRecord => KeepMsgs \/ ApplyDelayedMsgs
  BY Zenon DEF PreviewingRestart, PreviewingPreview, PreviewingRecord
<1>4. PreviewingPrepareSnapshot => KeepMsgs \/ ApplyDelayedMsgs
  BY Zenon DEF PreviewingPrepareSnapshot, Reply, Remain, KeepMsgs
<1>5. PreviewingTake => KeepMsgs \/ Delay
  BY Zenon DEF PreviewingTake, TakeZsl, TakeCapture, Delay
<1> QED
  BY <1>1, <1>2, <1>3, <1>4, <1>5, SharedStep, Zenon DEF PreviewingState, MsgStep

\* So does one of the states that prepare or take a picture.
LEMMA PictureStep == PrepareSnapshotState \/ PicTakingState => MsgStep
<1>1. PrepareSnapshotState => KeepMsgs
  BY Zenon DEF PrepareSnapshotState, NothingToDo, Reply, Remain, KeepMsgs
<1>2. PicTakingReplies \/ PicTakingEnd \/ StopCaptureChannel => KeepMsgs
  BY Zenon DEF PicTakingReplies, PicTakingEnd, StopCaptureChannel, Reply, Remain, KeepMsgs
<1> QED
  BY <1>1, <1>2, SharedStep, Zenon DEF PicTakingState, Remain, MsgStep, KeepMsgs

\* So does one of the recording states.
LEMMA RecordingStep == RecordingState \/ VideoPicState => MsgStep
<1>1. RecordingReplies \/ RecordingTake \/ RecordingStop => KeepMsgs
  BY Zenon DEF RecordingReplies, RecordingTake, RecordingStop, Reply, Remain, KeepMsgs
<1>2. VideoPicReplies \/ VideoPicEnd => KeepMsgs
  BY Zenon DEF VideoPicReplies, VideoPicEnd, Reply, Remain, KeepMsgs
<1> QED
  BY <1>1, <1>2, SharedStep, Zenon DEF RecordingState, VideoPicState, MsgStep

\* So does one of the state that takes a picture beside ZSL preview.
LEMMA PreviewPicStep == PreviewPicState => MsgStep
<1>1. PreviewPicReplies \/ PreviewPicEnd => KeepMsgs
  BY Zenon DEF PreviewPicReplies, PreviewPicEnd, Reply, Remain, KeepMsgs
<1>2. PreviewPicRestart => KeepMsgs \/ ApplyDelayedMsgs
  BY Zenon DEF PreviewPicRestart
<1>3. PreviewPicRecord => KeepMsgs
  BY Zenon DEF PreviewPicRecord, Reply, Remain, KeepMsgs
<1> QED
  BY <1>1, <1>2, <1>3, SharedStep, Zenon DEF PreviewPicState, MsgStep

\* Only the state machine thread touches the messages.
LEMMA OtherStep ==
  \/ \E c \in Client : BeginCall(c) \/ WaitAgain(c) \/ TakeAnswer(c)
  \/ Dequeue \/ FramesArrive \/ SnapshotDone \/ PrepSnapshotDone
  \/ TakeLiveSnapshot \/ CancelLiveSnapshot \/ VideoFrame \/ DaemonDies \/ UNCHANGED vars
  => KeepMsgs
  BY Zenon DEF BeginCall, WaitAgain, TakeAnswer, Dequeue, FramesArrive, SnapshotDone,
     PrepSnapshotDone, TakeLiveSnapshot, CancelLiveSnapshot, VideoFrame, DaemonDies, vars, KeepMsgs

\* PREVIEW_FRAME asked for by the framework is enabled or still remembered in
\* m_DelayedMsgs after every sequence of calls, events, failures and cancels.
THEOREM MessageKept == Spec => []EnableKept
<1>1. Init => MsgsOK /\ EnableKept
  <2>1. Init => msgs = [delaying |-> FALSE, delayed |-> FALSE, enabled |-> FALSE, wanted |-> FALSE]
    BY Zenon DEF Init
  <2>2. Init => ~msgs.wanted
    BY <2>1, SMT
  <2>3. Init => MsgsOK
    <3>1. ASSUME NEW f \in BOOLEAN,
                 msgs = [delaying |-> f, delayed |-> f, enabled |-> f, wanted |-> f]
          PROVE  MsgsOK
      BY <3>1, Zenon DEF MsgsOK
    <3> QED
      BY <2>1, <3>1, Zenon
  <2> QED
    BY <2>2, <2>3, Zenon DEF EnableKept
<1>2. [Next]_vars => MsgStep
  BY StoppedStep, ReadyStep, PreviewingStep, PictureStep, RecordingStep, PreviewPicStep,
     OtherStep, Zenon DEF Next, Handle, MsgStep
<1>3. MsgsOK /\ EnableKept /\ [Next]_vars => MsgsOK' /\ EnableKept'
  BY <1>2, StepTyped, StepKeeps, Zenon
<1> QED
  BY <1>1, <1>3, PTL DEF Spec
-----------------------------------------------------------------------------
(* The data: what the operations on channels and parameters return.            *)

\* The outcomes of an operation of the hardware.
LEMMA MayFacts == \A op : May(op) \subseteq BOOLEAN /\ (op \notin Failing => May(op) = {TRUE})
  BY DEF May

\* A channel is set, the others stay.
LEMMA SetFacts ==
  ASSUME NEW c \in Channels, NEW S, NEW v \in {"none", "added", "on"}
  PROVE  /\ SetChannels(c, S, v) \in Channels
         /\ \A x \in Chan : SetChannels(c, S, v)[x] = IF x \in S THEN v ELSE c[x]
  BY DEF SetChannels, Channels

\* Stopping and unpreparing.
LEMMA StopFacts ==
  ASSUME NEW c \in Channels
  PROVE  /\ UnpreparePreview(c) \in Channels /\ StopPreview(c) = UnpreparePreview(c)
         /\ \A x \in Chan : UnpreparePreview(c)[x] = IF x = "capture" THEN c[x] ELSE "none"
         /\ \A x \in Chan :
              /\ StopChannel(c, x) \in Channels
              /\ \A y \in Chan : StopChannel(c, x)[y] = IF y = x /\ c[x] = "on" THEN "added" ELSE c[y]
<1>1. UnpreparePreview(c) \in Channels /\ StopPreview(c) = UnpreparePreview(c)
  BY SetFacts DEF UnpreparePreview, StopPreview
<1>2. \A x \in Chan : UnpreparePreview(c)[x] = IF x = "capture" THEN c[x] ELSE "none"
  BY SetFacts DEF UnpreparePreview
<1>3. ASSUME NEW x \in Chan
      PROVE  /\ StopChannel(c, x) \in Channels
             /\ \A y \in Chan : StopChannel(c, x)[y] = IF y = x /\ c[x] = "on" THEN "added" ELSE c[y]
  <2>1. /\ SetChannels(c, {x}, "added") \in Channels
        /\ \A y \in Chan : SetChannels(c, {x}, "added")[y] = IF y \in {x} THEN "added" ELSE c[y]
    BY SetFacts
  <2> QED BY <2>1 DEF StopChannel
<1> QED BY <1>1, <1>2, <1>3

Outcome == [ok : BOOLEAN, ch : Channels]
PreviewChan(p) == IF p.zsl /\ ~p.hint THEN "zsl" ELSE "preview"
\* Preview prepared in the mode of p, and started in it.
Prepared(c, p) == SetChannels(c, ModeChannels(p), "added")
Started(c, p)  == SetChannels(Prepared(c, p), {PreviewChan(p)}, "on")

\* The channel preview runs on is one of those prepared for it.
LEMMA ModeFacts ==
  ASSUME NEW p
  PROVE  /\ PreviewChan(p) \in ModeChannels(p) /\ PreviewChan(p) \in {"zsl", "preview"}
         /\ ModeChannels(p) \subseteq Chan \ {"capture"}
  BY DEF PreviewChan, ModeChannels, Chan

\* preparePreview.
LEMMA PrepareFacts ==
  ASSUME NEW c \in Channels, NEW p, NEW o \in PreparePreview(c, p)
  PROVE  /\ o.ok \in BOOLEAN /\ o.ch \in Channels
         /\ o.ok => o.ch = Prepared(c, p)
         /\ ~o.ok => "prepare" \in Failing
<1>1. PICK k \in May("prepare") :
        o = [ok |-> k, ch |-> SetChannels(c, ModeChannels(p), IF k THEN "added" ELSE "none")]
  BY DEF PreparePreview
<1>2. k \in BOOLEAN /\ ("prepare" \notin Failing => k = TRUE)
  BY MayFacts
<1>3. /\ o.ok = k
      /\ o.ch = SetChannels(c, ModeChannels(p), IF k THEN "added" ELSE "none")
  BY <1>1
<1> QED BY <1>2, <1>3, SetFacts DEF Prepared

\* startChannel.
LEMMA StartFacts ==
  ASSUME NEW c \in Channels, NEW x \in Chan, NEW op, NEW o \in StartChannel(c, x, op)
  PROVE  /\ o.ok \in BOOLEAN /\ o.ch \in Channels
         /\ o.ok => c[x] # "none" /\ o.ch = SetChannels(c, {x}, "on")
         /\ ~o.ok => o.ch = c /\ (c[x] = "none" \/ op \in Failing)
<1>1. PICK k \in IF c[x] = "none" THEN {FALSE} ELSE May(op) :
        o = [ok |-> k, ch |-> IF k THEN SetChannels(c, {x}, "on") ELSE c]
  BY DEF StartChannel
<1>2. k \in BOOLEAN /\ (k => c[x] # "none") /\ (~k => c[x] = "none" \/ op \in Failing)
  <2>1. CASE c[x] = "none"
    BY <2>1
  <2>2. CASE c[x] # "none"
    <3>1. k \in May(op)
      BY <2>2, Zenon
    <3>2. k \in BOOLEAN /\ (op \notin Failing => k \in {TRUE})
      BY <3>1, MayFacts, Zenon
    <3> QED BY <2>2, <3>2
  <2> QED BY <2>1, <2>2
<1>3. o.ok = k /\ o.ch = IF k THEN SetChannels(c, {x}, "on") ELSE c
  BY <1>1
<1> QED BY <1>2, <1>3, SetFacts

\* startPreview.
LEMMA StartPreviewFacts ==
  ASSUME NEW c \in Channels, NEW p, NEW o \in StartPreview(c, p)
  PROVE  /\ o.ok \in BOOLEAN /\ o.ch \in Channels
         /\ o.ok => c[PreviewChan(p)] # "none" /\ o.ch = SetChannels(c, {PreviewChan(p)}, "on")
         /\ ~o.ok => o.ch = c /\ (c[PreviewChan(p)] = "none" \/ "start" \in Failing)
<1>1. PreviewChan(p) \in Chan
  BY ModeFacts
<1>2. o \in StartChannel(c, PreviewChan(p), "start")
  BY DEF StartPreview, PreviewChan
<1> QED BY <1>1, <1>2, StartFacts

\* A channel that cannot be started is taken down again.
LEMMA StartOrUnprepareFacts ==
  ASSUME NEW c \in Channels, NEW p, NEW o \in StartOrUnprepare(c, p)
  PROVE  /\ o.ok \in BOOLEAN /\ o.ch \in Channels
         /\ o.ok => c[PreviewChan(p)] # "none" /\ o.ch = SetChannels(c, {PreviewChan(p)}, "on")
         /\ ~o.ok => /\ o.ch = UnpreparePreview(c)
                     /\ c[PreviewChan(p)] = "none" \/ "start" \in Failing
<1>1. PICK q \in StartPreview(c, p) : o = [q EXCEPT !.ch = IF q.ok THEN @ ELSE UnpreparePreview(@)]
  BY DEF StartOrUnprepare
<1>2. /\ q.ok \in BOOLEAN /\ q.ch \in Channels
      /\ q.ok => c[PreviewChan(p)] # "none" /\ q.ch = SetChannels(c, {PreviewChan(p)}, "on")
      /\ ~q.ok => q.ch = c /\ (c[PreviewChan(p)] = "none" \/ "start" \in Failing)
  BY StartPreviewFacts
<1>3. q \in [ok : BOOLEAN, ch : Channels]
  <2>1. PICK k \in BOOLEAN : \E d : q = [ok |-> k, ch |-> d]
    <3>1. \E k : \E d : q = [ok |-> k, ch |-> d]
      BY DEF StartPreview, StartChannel
    <3>2. PICK k, d : q = [ok |-> k, ch |-> d]
      BY <3>1
    <3> QED BY <1>2, <3>2
  <2> QED BY <1>2, <2>1
<1>4. o.ok = q.ok /\ o.ch = IF q.ok THEN q.ch ELSE UnpreparePreview(q.ch)
  BY <1>1, <1>3
<1> QED BY <1>2, <1>4, StopFacts

\* What was prepared in the mode of p and started: preview runs on the mode's channel,
\* the channels of other modes are as they were.
LEMMA StartedFacts ==
  ASSUME NEW c \in Channels, NEW p
  PROVE  /\ Prepared(c, p) \in Channels /\ Started(c, p) \in Channels
         /\ Prepared(c, p)[PreviewChan(p)] = "added" /\ Started(c, p)[PreviewChan(p)] = "on"
         /\ \A x \in Chan : Prepared(c, p)[x] = IF x \in ModeChannels(p) THEN "added" ELSE c[x]
         /\ \A x \in Chan : x # PreviewChan(p) => Started(c, p)[x] = Prepared(c, p)[x]
<1>1. PreviewChan(p) \in Chan /\ PreviewChan(p) \in ModeChannels(p)
  BY ModeFacts
<1>2. /\ Prepared(c, p) \in Channels
      /\ \A x \in Chan : Prepared(c, p)[x] = IF x \in ModeChannels(p) THEN "added" ELSE c[x]
  BY SetFacts DEF Prepared
<1>3. /\ Started(c, p) \in Channels
      /\ \A x \in Chan : Started(c, p)[x] = IF x \in {PreviewChan(p)} THEN "on" ELSE Prepared(c, p)[x]
  BY <1>2, SetFacts DEF Started
<1> QED BY <1>1, <1>2, <1>3

\* preparePreview and startPreview, or what the first left behind.
LEMMA BothFacts ==
  ASSUME NEW c \in Channels, NEW p, NEW o \in PrepareAndStart(c, p)
  PROVE  /\ o.ok \in BOOLEAN /\ o.ch \in Channels
         /\ o.ok => o.ch = Started(c, p)
         /\ ~o.ok => Failing \cap {"prepare", "start"} # {}
<1>1. PICK q \in PreparePreview(c, p) :
        \E r \in IF q.ok THEN StartOrUnprepare(q.ch, p) ELSE {q} :
          o = [ok |-> r.ok, prepared |-> q.ok, ch |-> r.ch]
  BY DEF PrepareAndStart
<1>2. PICK r \in IF q.ok THEN StartOrUnprepare(q.ch, p) ELSE {q} :
        o = [ok |-> r.ok, prepared |-> q.ok, ch |-> r.ch]
  BY <1>1
<1>3. /\ q.ok \in BOOLEAN /\ q.ch \in Channels
      /\ q.ok => q.ch = Prepared(c, p)
      /\ ~q.ok => "prepare" \in Failing
  BY PrepareFacts
<1>4. o.ok = r.ok /\ o.ch = r.ch
  BY <1>2
<1>5. CASE q.ok
  <2>1. r \in StartOrUnprepare(q.ch, p)
    BY <1>5
  <2>2. /\ r.ok \in BOOLEAN /\ r.ch \in Channels
        /\ r.ok => r.ch = SetChannels(q.ch, {PreviewChan(p)}, "on")
        /\ ~r.ok => q.ch[PreviewChan(p)] = "none" \/ "start" \in Failing
    BY <1>3, <2>1, StartOrUnprepareFacts
  <2>3. q.ch[PreviewChan(p)] = "added"
    BY <1>3, <1>5, StartedFacts
  <2> QED BY <1>3, <1>4, <1>5, <2>2, <2>3 DEF Started
<1>6. CASE ~q.ok
  <2>1. r = q
    BY <1>6
  <2> QED BY <1>3, <1>4, <1>6, <2>1
<1> QED BY <1>3, <1>5, <1>6, Zenon

\* The parameters: what set_parameters stores, what a commit makes effective.
LEMMA ParamFacts ==
  ASSUME NEW p \in Params
  PROVE  /\ \A s \in Setting : /\ UpdateParameters(p, s) \in Params
                               /\ UpdateParameters(p, s).zsl = p.zsl
                               /\ UpdateParameters(p, s).hint = p.hint
         /\ CommitParamChanges(p) \in Params /\ CommitParamChanges(p).needRestart = p.needRestart
         /\ NoRestart(p) \in Params /\ NoRestart(p).zsl = p.zsl /\ NoRestart(p).hint = p.hint
         /\ NoRestart(p).needRestart = FALSE
         /\ \A v \in BOOLEAN : /\ UpdateRecordingHintValue(p, v) \in Params
                               /\ UpdateRecordingHintValue(p, v).hint = v
                               /\ UpdateRecordingHintValue(p, v).needRestart = p.needRestart
<1>1. /\ p.zsl \in BOOLEAN /\ p.zslNew \in BOOLEAN /\ p.hint \in BOOLEAN /\ p.hintNew \in BOOLEAN
      /\ p.hintKey \in BOOLEAN /\ p.hintTmp \in BOOLEAN /\ p.needRestart \in BOOLEAN
  BY DEF Params
<1>2. ASSUME NEW s \in Setting
      PROVE  /\ UpdateParameters(p, s) \in Params /\ UpdateParameters(p, s).zsl = p.zsl
             /\ UpdateParameters(p, s).hint = p.hint
  <2>1. s.zsl \in BOOLEAN /\ s.hint \in BOOLEAN /\ s.restart \in BOOLEAN
    BY DEF Setting
  <2> DEFINE n == IF s.hint # p.hintKey THEN s.hint ELSE p.hintNew
             r == s.restart \/ s.zsl # p.zslNew \/ (s.hint # p.hintKey /\ s.hint # p.hint)
  <2>2. n \in BOOLEAN /\ r \in BOOLEAN
    BY <1>1, <2>1
  <2>3. UpdateParameters(p, s) =
          [p EXCEPT !.zslNew = s.zsl, !.hintTmp = s.hint, !.hintNew = n, !.needRestart = r]
    BY DEF UpdateParameters, Params
  <2> HIDE DEF n, r
  <2> QED BY <2>1, <2>2, <2>3 DEF Params
<1>3. ASSUME NEW q \in Params
      PROVE  /\ CommitParamChanges(q) \in Params /\ CommitParamChanges(q).hint = q.hintNew
             /\ CommitParamChanges(q).needRestart = q.needRestart
  BY DEF CommitParamChanges, Params
<1>4. /\ NoRestart(p) \in Params /\ NoRestart(p).zsl = p.zsl /\ NoRestart(p).hint = p.hint
      /\ NoRestart(p).needRestart = FALSE
  BY DEF NoRestart, Params
<1>5. ASSUME NEW v \in BOOLEAN
      PROVE  /\ UpdateRecordingHintValue(p, v) \in Params
             /\ UpdateRecordingHintValue(p, v).hint = v
             /\ UpdateRecordingHintValue(p, v).needRestart = p.needRestart
  <2> DEFINE q == [p EXCEPT !.hintTmp = p.hintKey, !.hintNew = v]
  <2>1. q \in Params /\ q.hintNew = v /\ q.needRestart = p.needRestart
    BY DEF Params
  <2>2. UpdateRecordingHintValue(p, v) = CommitParamChanges(q)
    BY DEF UpdateRecordingHintValue
  <2> HIDE DEF q
  <2> QED BY <1>3, <2>1, <2>2
<1> QED BY <1>2, <1>3, <1>4, <1>5, Zenon

\* preStartRecording: preview goes on in recording mode.
LEMMA PreStartFacts ==
  ASSUME NEW c \in Channels, NEW p \in Params, NEW o \in PreStartRecording(c, p)
  PROVE  /\ o.ok \in BOOLEAN /\ o.ch \in Channels /\ o.par \in Params
         /\ o.par.needRestart = p.needRestart
         /\ o.ok => (o.ch = c /\ o.par = p) \/ o.ch = Started(UnpreparePreview(c), o.par)
         /\ ~o.ok => Failing \cap {"prepare", "start"} # {}
<1>1. CASE p.hint
  <2>1. o \in {[ok |-> TRUE, ch |-> c, par |-> p]}
    BY <1>1 DEF PreStartRecording
  <2>2. o.ok = TRUE /\ o.ch = c /\ o.par = p
    BY <2>1
  <2> QED BY <2>2
<1>2. CASE ~p.hint
  <2> DEFINE p2 == UpdateRecordingHintValue(p, TRUE)
             d  == UnpreparePreview(c)
  <2>1. p2 \in Params /\ p2.needRestart = p.needRestart
    BY ParamFacts
  <2>2. d \in Channels /\ StopPreview(c) = d
    BY StopFacts
  <2>3. PICK q \in PreparePreview(d, p2) :
          \E r \in IF q.ok THEN StartPreview(q.ch, p2) ELSE {q} :
            o = [ok |-> r.ok, ch |-> r.ch, par |-> p2]
    BY <1>2, <2>2 DEF PreStartRecording
  <2>4. PICK r \in IF q.ok THEN StartPreview(q.ch, p2) ELSE {q} :
          o = [ok |-> r.ok, ch |-> r.ch, par |-> p2]
    BY <2>3
  <2> HIDE DEF p2, d
  <2>5. o.ok = r.ok /\ o.ch = r.ch /\ o.par = p2
    BY <2>4
  <2>6. /\ q.ok \in BOOLEAN /\ q.ch \in Channels
        /\ q.ok => q.ch = Prepared(d, p2)
        /\ ~q.ok => "prepare" \in Failing
    BY <2>2, PrepareFacts
  <2>7. CASE q.ok
    <3>1. r \in StartPreview(q.ch, p2)
      BY <2>7
    <3>2. /\ r.ok \in BOOLEAN /\ r.ch \in Channels
          /\ r.ok => r.ch = SetChannels(q.ch, {PreviewChan(p2)}, "on")
          /\ ~r.ok => q.ch[PreviewChan(p2)] = "none" \/ "start" \in Failing
      BY <2>6, <3>1, StartPreviewFacts
    <3>3. q.ch[PreviewChan(p2)] = "added"
      BY <2>2, <2>6, <2>7, StartedFacts
    <3> QED BY <2>1, <2>5, <2>6, <2>7, <3>2, <3>3 DEF Started, d
  <2>8. CASE ~q.ok
    <3>1. r = q
      BY <2>8
    <3> QED BY <2>1, <2>5, <2>6, <2>8, <3>1
  <2> QED BY <2>6, <2>7, <2>8, Zenon
<1> QED BY <1>1, <1>2, Zenon DEF Params

\* What becomes of a preview in recording mode before a picture.
LEMMA ClearFacts ==
  ASSUME NEW c \in Channels, NEW p \in Params, NEW o \in ClearRecordingHint(c, p)
  PROVE  /\ o.ok \in BOOLEAN /\ o.ch \in Channels /\ o.par \in Params
         /\ o.par.needRestart = p.needRestart
         /\ o.ok => (o.ch = c /\ o.par = p) \/ o.ch = Started(UnpreparePreview(c), o.par)
         /\ ~o.ok => Failing \cap {"prepare", "start"} # {}
<1>1. CASE ~p.hint
  <2>1. o \in {[ok |-> TRUE, ch |-> c, par |-> p]}
    BY <1>1 DEF ClearRecordingHint
  <2>2. o.ok = TRUE /\ o.ch = c /\ o.par = p
    BY <2>1
  <2> QED BY <2>2
<1>2. CASE p.hint
  <2> DEFINE p2 == UpdateRecordingHintValue(p, FALSE)
             d  == UnpreparePreview(c)
  <2>1. p2 \in Params /\ p2.needRestart = p.needRestart
    BY ParamFacts
  <2>2. d \in Channels /\ StopPreview(c) = d
    BY StopFacts
  <2>3. PICK r \in PrepareAndStart(d, p2) : o = [ok |-> r.ok, ch |-> r.ch, par |-> p2]
    BY <1>2, <2>2 DEF ClearRecordingHint
  <2> HIDE DEF p2
  <2>4. o.ok = r.ok /\ o.ch = r.ch /\ o.par = p2
    BY <2>3
  <2>5. /\ r.ok \in BOOLEAN /\ r.ch \in Channels
        /\ r.ok => r.ch = Started(d, p2)
        /\ ~r.ok => Failing \cap {"prepare", "start"} # {}
    BY <2>2, BothFacts
  <2> QED BY <2>1, <2>4, <2>5
<1> QED BY <1>1, <1>2, Zenon

\* takePicture: a request to the ZSL channel, or a capture in preview's stead.
LEMMA TakeFacts ==
  ASSUME NEW c \in Channels, NEW p, NEW t \in TakePicture(c, p)
  PROVE  /\ t.ok \in BOOLEAN /\ t.ch \in Channels
         /\ p.zsl => t.ch = c
         /\ ~p.zsl /\ t.ok => t.ch = SetChannels(UnpreparePreview(c), {"capture"}, "on")
         /\ ~p.zsl /\ ~t.ok => t.ch["capture"] \in {c["capture"], "none", "added"}
<1> DEFINE d == UnpreparePreview(c)
<1>1. StopPreview(c) = d /\ d \in Channels
  BY StopFacts
<1>2. ASSUME NEW v \in {"none", "added", "on"}
      PROVE  /\ SetChannels(d, {"capture"}, v) \in Channels
             /\ SetChannels(d, {"capture"}, v)["capture"] = v
  BY <1>1, SetFacts DEF Chan
<1> HIDE DEF d
<1>3. CASE p.zsl
  <2>1. PICK k \in BOOLEAN : t = [ok |-> k, ch |-> c]
    <3>1. PICK k \in IF c["zsl"] = "none" THEN {FALSE} ELSE May("take") : t = [ok |-> k, ch |-> c]
      BY <1>3 DEF TakePicture
    <3>2. k \in {FALSE} \/ k \in May("take")
      BY <3>1
    <3>3. k \in BOOLEAN
      BY <3>2, MayFacts
    <3> QED BY <3>1, <3>3
  <2>2. t.ok = k /\ t.ch = c
    BY <2>1
  <2> QED BY <1>3, <2>2
<1>4. CASE ~p.zsl
  <2>1. \/ t = [ok |-> TRUE, ch |-> SetChannels(d, {"capture"}, "on")]
        \/ \E e \in {c} \cup {SetChannels(d, {"capture"}, v) : v \in {"none", "added"}} :
             t = [ok |-> FALSE, ch |-> e]
    BY <1>1, <1>4 DEF TakePicture
  <2>2. CASE t = [ok |-> TRUE, ch |-> SetChannels(d, {"capture"}, "on")]
    <3>1. t.ok = TRUE /\ t.ch = SetChannels(d, {"capture"}, "on")
      BY <2>2
    <3> QED BY <1>2, <1>4, <3>1 DEF d
  <2>3. ASSUME NEW e, e = c \/ \E v \in {"none", "added"} : e = SetChannels(d, {"capture"}, v),
               t = [ok |-> FALSE, ch |-> e]
        PROVE  t.ok = FALSE /\ t.ch \in Channels /\ t.ch["capture"] \in {c["capture"], "none", "added"}
    <3>1. t.ok = FALSE /\ t.ch = e
      BY <2>3
    <3>2. e \in Channels /\ e["capture"] \in {c["capture"], "none", "added"}
      BY <1>2, <2>3
    <3> QED BY <3>1, <3>2
  <2> QED BY <1>4, <2>1, <2>2, <2>3
<1> QED BY <1>3, <1>4

\* cancelPicture.
LEMMA CancelFacts ==
  ASSUME NEW c \in Channels, NEW p
  PROVE  /\ CancelPicture(c, p) \in Channels
         /\ \A x \in Chan : x # "capture" => CancelPicture(c, p)[x] = c[x]
         /\ ~p.zsl => CancelPicture(c, p)["capture"] = "none"
<1>1. /\ SetChannels(c, {"capture"}, "none") \in Channels
      /\ \A x \in Chan : SetChannels(c, {"capture"}, "none")[x]
                            = IF x \in {"capture"} THEN "none" ELSE c[x]
  BY SetFacts
<1>2. "capture" \in Chan
  BY DEF Chan
<1> QED BY <1>1, <1>2 DEF CancelPicture
-----------------------------------------------------------------------------
(* Types: the camera. No handler looks at who sent the message.                *)

CamOK ==
  /\ m_state \in State /\ m_channels \in Channels /\ params \in Params
  /\ mPreviewWindow \in BOOLEAN /\ prep \in BOOLEAN
  /\ shot \in Chan \cup {"none", "jpeg"} /\ live \in {"none", "take", "cancel"}

\* A picture is kept or lost.
LEMMA KeptFacts == \A c : Kept(c) \in {shot, "none"}
  BY DEF Kept

\* The live snapshot thread is given its job or none.
LEMMA LiveFacts ==
  \A job, ok : StartLive(job, ok) => /\ live = "none" /\ live' \in {job, "none"}
                                     /\ "thread" \notin Failing => ok /\ live' = job
<1> SUFFICES ASSUME NEW job, NEW ok, StartLive(job, ok)
             PROVE  /\ live = "none" /\ live' \in {job, "none"}
                    /\ "thread" \notin Failing => ok /\ live' = job
  OBVIOUS
<1>1. live = "none" /\ ok \in May("thread") /\ live' = IF ok THEN job ELSE "none"
  BY DEF StartLive
<1>2. "thread" \notin Failing => ok \in {TRUE}
  BY <1>1, MayFacts, Zenon
<1> QED BY <1>1, <1>2

\* A step that leaves the camera alone, and one that moves it.
LEMMA CamSame == CamOK /\ UNCHANGED <<m_state, cameraVars, shot>> => CamOK'
  BY DEF CamOK, cameraVars

\* What a handler settles is typed if what it settles on is.
LEMMA CamSettled ==
  ASSUME CamOK, NEW s \in State, NEW c \in Channels, NEW p \in Params, Settle(s, c, p)
  PROVE  CamOK'
  BY KeptFacts DEF Settle, Become, CamOK

\* A change of state alone keeps the types.
LEMMA CamBecome ==
  ASSUME CamOK, NEW s \in State, NEW c \in Channels, NEW p \in Params, Become(s, c, p),
         shot' \in Chan \cup {"none", "jpeg"}, live' \in {"none", "take", "cancel"}
  PROVE  CamOK'
  BY DEF Become, CamOK

\* The handlers that most states share.
LEMMA SharedCam ==
  ASSUME CamOK, cur.arg \in Setting,
         SetParams \/ SetParamsRecording \/ CommitParams \/ DropRestart \/ NothingToDo \/ Ignore
           \/ CloseFrame \/ MsgType
  PROVE  CamOK'
<1>1. m_state \in State /\ m_channels \in Channels /\ params \in Params
  BY DEF CamOK
<1>2. /\ UpdateParameters(params, cur.arg) \in Params
      /\ NoRestart(UpdateParameters(params, cur.arg)) \in Params
      /\ CommitParamChanges(params) \in Params /\ NoRestart(params) \in Params
  BY <1>1, ParamFacts
<1>3. CASE SetParams \/ SetParamsRecording
  BY <1>1, <1>2, <1>3, CamSettled, Zenon DEF SetParams, SetParamsRecording
<1>4. CASE CommitParams \/ DropRestart
  BY <1>1, <1>2, <1>4, CamSettled, Zenon DEF CommitParams, DropRestart
<1>5. CASE NothingToDo \/ Ignore \/ CloseFrame \/ MsgType
  <2>1. UNCHANGED <<m_state, cameraVars, shot>>
    BY <1>5, Zenon DEF NothingToDo, Ignore, CloseFrame, MsgType, Remain
  <2> QED BY <2>1, CamSame
<1> QED BY <1>3, <1>4, <1>5

\* Types after a message in the stopped state.
LEMMA StoppedCam == CamOK /\ cur.arg \in Setting /\ StoppedState => CamOK'
<1> SUFFICES ASSUME CamOK, cur.arg \in Setting, StoppedState PROVE CamOK'
  OBVIOUS
<1>1. m_state \in State /\ m_channels \in Channels /\ params \in Params /\ "READY" \in State
      /\ "PREVIEWING" \in State /\ [x \in Chan |-> "none"] \in Channels
  BY DEF CamOK, State, Channels
<1>2. CASE StoppedReplies
  BY <1>2, CamSame, Zenon DEF StoppedReplies, Reply, Remain
<1>3. CASE SetPreviewWindow
  BY <1>3 DEF SetPreviewWindow, CamOK, On
<1>4. CASE StoppedPreview
  <2>1. ASSUME NEW o \in PreparePreview(m_channels, params),
               Settle(IF o.ok THEN "READY" ELSE m_state, o.ch, params)
        PROVE  CamOK'
    <3>1. o.ch \in Channels /\ (IF o.ok THEN "READY" ELSE m_state) \in State
      BY <1>1, PrepareFacts
    <3> QED BY <1>1, <2>1, <3>1, CamSettled, Zenon
  <2>2. ASSUME NEW o \in PrepareAndStart(m_channels, params),
               Settle(IF o.ok THEN "PREVIEWING" ELSE m_state, o.ch, params)
        PROVE  CamOK'
    <3>1. o.ch \in Channels /\ (IF o.ok THEN "PREVIEWING" ELSE m_state) \in State
      BY <1>1, BothFacts
    <3> QED BY <1>1, <2>2, <3>1, CamSettled, Zenon
  <2> QED BY <1>1, <1>4, <2>1, <2>2, CamSettled, Zenon DEF StoppedPreview
<1> QED BY <1>2, <1>3, <1>4, SharedCam, Zenon DEF StoppedState

\* Types after a message in the ready state.
LEMMA ReadyCam == CamOK /\ cur.arg \in Setting /\ ReadyState => CamOK'
<1> SUFFICES ASSUME CamOK, cur.arg \in Setting, ReadyState PROVE CamOK'
  OBVIOUS
<1>1. m_state \in State /\ m_channels \in Channels /\ params \in Params /\ "STOPPED" \in State
      /\ UnpreparePreview(m_channels) \in Channels /\ NoRestart(params) \in Params
  BY StopFacts, ParamFacts DEF CamOK, State
<1>2. CASE ReadyReplies
  BY <1>2, CamSame, Zenon DEF ReadyReplies, Reply, Remain
<1>3. CASE ReadyPreview
  <2>1. ASSUME NEW o \in StartOrUnprepare(m_channels, params),
               m_state' = IF o.ok THEN "PREVIEWING" ELSE "STOPPED", m_channels' = o.ch,
               shot' = Kept(o.ch), mPreviewWindow' = TRUE, UNCHANGED <<params, prep, live>>
        PROVE  CamOK'
    <3>1. o.ch \in Channels
      BY <1>1, StartOrUnprepareFacts
    <3> QED BY <2>1, <3>1, KeptFacts DEF CamOK, State
  <2>2. CASE SetPreviewWindow
    BY <2>2 DEF SetPreviewWindow, CamOK, On
  <2>3. CASE Reply(TRUE)
    BY <2>3, CamSame, Zenon DEF Reply, Remain
  <2> QED BY <1>1, <1>3, <2>1, <2>2, <2>3, CamSettled, Zenon DEF ReadyPreview
<1>4. CASE ReadyRestart
  <2>1. ASSUME NEW o \in PreparePreview(m_channels, params),
               Settle(IF o.ok THEN m_state ELSE "STOPPED", o.ch, NoRestart(params))
        PROVE  CamOK'
    <3>1. o.ch \in Channels /\ (IF o.ok THEN m_state ELSE "STOPPED") \in State
      BY <1>1, PrepareFacts
    <3> QED BY <1>1, <2>1, <3>1, CamSettled, Zenon
  <2> QED BY <1>1, <1>4, <2>1, CamSettled, Zenon DEF ReadyRestart
<1> QED BY <1>2, <1>3, <1>4, SharedCam, Zenon DEF ReadyState

\* A picture is requested.
LEMMA TakeCam ==
  ASSUME CamOK, NEW o, o.ch \in Channels, o.par \in Params, TakeZsl(o) \/ TakeCapture(o)
  PROVE  CamOK'
<1>1. ASSUME NEW t \in TakePicture(o.ch, o.par) PROVE t.ok \in BOOLEAN /\ t.ch \in Channels
  BY <1>1, TakeFacts
<1>2. shot \in Chan \cup {"none", "jpeg"} /\ live \in {"none", "take", "cancel"}
      /\ {"zsl", "capture"} \subseteq Chan
      /\ {"PREVIEW_PIC", "PREVIEWING", "PIC_TAKING", "STOPPED"} \subseteq State
  BY DEF CamOK, Chan, State
<1>3. CASE TakeZsl(o)
  <2>1. PICK t \in TakePicture(o.ch, o.par) :
          /\ Become(IF t.ok THEN "PREVIEW_PIC" ELSE "PREVIEWING", t.ch, o.par) /\ UNCHANGED live
          /\ shot' = IF t.ok /\ t.ch["zsl"] = "on" THEN "zsl" ELSE Kept(t.ch)
    BY <1>3, Zenon DEF TakeZsl
  <2>2. shot' \in Chan \cup {"none", "jpeg"} /\ live' = live
        /\ (IF t.ok THEN "PREVIEW_PIC" ELSE "PREVIEWING") \in State
    BY <1>2, <2>1, KeptFacts
  <2> QED BY <1>1, <1>2, <2>1, <2>2, CamBecome
<1>4. CASE TakeCapture(o)
  <2>1. PICK t \in TakePicture(o.ch, o.par) :
          /\ IF t.ok THEN Become("PIC_TAKING", t.ch, o.par) /\ shot' = "capture"
             ELSE \E r \in PrepareAndStart(StopPreview(t.ch), o.par) :
                    Become(IF r.ok THEN "PREVIEWING" ELSE "STOPPED", r.ch, o.par)
                    /\ shot' = Kept(r.ch)
          /\ UNCHANGED live
    BY <1>4, Zenon DEF TakeCapture
  <2>2. CASE t.ok
    BY <1>1, <1>2, <2>1, <2>2, CamBecome
  <2>3. CASE ~t.ok
    <3>1. PICK r \in PrepareAndStart(StopPreview(t.ch), o.par) :
            Become(IF r.ok THEN "PREVIEWING" ELSE "STOPPED", r.ch, o.par) /\ shot' = Kept(r.ch)
      BY <2>1, <2>3, Zenon
    <3>2. r.ch \in Channels
      BY <1>1, StopFacts, BothFacts
    <3>3. shot' \in Chan \cup {"none", "jpeg"} /\ live' = live
          /\ (IF r.ok THEN "PREVIEWING" ELSE "STOPPED") \in State
      BY <1>2, <2>1, <3>1, KeptFacts
    <3> QED BY <1>2, <3>1, <3>2, <3>3, CamBecome
  <2> QED BY <2>2, <2>3
<1> QED BY <1>3, <1>4

\* Types after a message in the previewing state.
LEMMA PreviewingCam == CamOK /\ cur.arg \in Setting /\ PreviewingState => CamOK'
<1> SUFFICES ASSUME CamOK, cur.arg \in Setting, PreviewingState PROVE CamOK'
  OBVIOUS
<1>1. m_state \in State /\ m_channels \in Channels /\ params \in Params /\ "STOPPED" \in State
      /\ "RECORDING" \in State /\ StopPreview(m_channels) \in Channels /\ NoRestart(params) \in Params
  <2>1. m_state \in State /\ m_channels \in Channels /\ params \in Params
    BY DEF CamOK
  <2>2. StopPreview(m_channels) \in Channels
    BY <2>1, StopFacts
  <2>3. NoRestart(params) \in Params
    BY <2>1, ParamFacts, Zenon
  <2> QED BY <2>1, <2>2, <2>3 DEF State
<1>2. CASE PreviewingReplies
  BY <1>2, CamSame, Zenon DEF PreviewingReplies, Reply, Remain
<1>3. CASE PreviewingMsgType
  BY <1>3, CamSame, Zenon DEF PreviewingMsgType
<1>4. CASE PreviewingRestart
  <2>1. ASSUME NEW o \in PrepareAndStart(m_channels, params), NEW b,
               Settle(IF b THEN "STOPPED" ELSE m_state, o.ch, NoRestart(params))
        PROVE  CamOK'
    <3>1. o.ch \in Channels /\ (IF b THEN "STOPPED" ELSE m_state) \in State
      BY <1>1, BothFacts
    <3> QED BY <1>1, <2>1, <3>1, CamSettled, Zenon
  <2> QED BY <1>1, <1>4, <2>1, CamSettled, Zenon DEF PreviewingRestart
<1>5. CASE PreviewingPreview
  BY <1>1, <1>5, CamSame, CamSettled, Zenon DEF PreviewingPreview
<1>6. CASE PreviewingRecord
  <2>1. ASSUME NEW o \in PreStartRecording(m_channels, params), Settle(m_state, o.ch, o.par)
        PROVE  CamOK'
    <3>1. o.ch \in Channels /\ o.par \in Params
      BY <1>1, PreStartFacts
    <3> QED BY <1>1, <2>1, <3>1, CamSettled, Zenon
  <2>2. ASSUME NEW o \in StartChannel(m_channels, "video", "record"),
               Settle(IF o.ok THEN "RECORDING" ELSE m_state, o.ch, params)
        PROVE  CamOK'
    <3>1. "video" \in Chan
      BY DEF Chan
    <3>2. o.ch \in Channels /\ (IF o.ok THEN "RECORDING" ELSE m_state) \in State
      BY <1>1, <3>1, StartFacts
    <3> QED BY <1>1, <2>2, <3>2, CamSettled, Zenon
  <2> QED BY <1>6, <2>1, <2>2, Zenon DEF PreviewingRecord
<1>7. CASE PreviewingPrepareSnapshot
  <2>1. CASE m_state' = "PREPARE_SNAPSHOT" /\ prep' = TRUE
             /\ UNCHANGED <<m_channels, params, mPreviewWindow, live, shot>>
    BY <2>1 DEF CamOK, State
  <2>2. CASE Reply(FALSE)
    BY <2>2, CamSame, Zenon DEF Reply, Remain
  <2> QED BY <1>7, <2>1, <2>2, Zenon DEF PreviewingPrepareSnapshot
<1>8. CASE PreviewingPreTake
  <2>1. PICK o \in ClearRecordingHint(m_channels, params) : Settle(m_state, o.ch, o.par)
    BY <1>8, Zenon DEF PreviewingPreTake
  <2>2. o.ch \in Channels /\ o.par \in Params
    BY <1>1, ClearFacts
  <2> QED BY <1>1, <2>1, <2>2, CamSettled, Zenon
<1>9. CASE PreviewingTake
  <2>1. PICK o \in ClearRecordingHint(m_channels, params) : TakeZsl(o) \/ TakeCapture(o)
    BY <1>9, Zenon DEF PreviewingTake
  <2>2. o.ch \in Channels /\ o.par \in Params
    BY <1>1, ClearFacts
  <2> QED BY <2>1, <2>2, TakeCam, Zenon
<1> QED BY <1>2, <1>3, <1>4, <1>5, <1>6, <1>7, <1>8, <1>9, SharedCam, Zenon DEF PreviewingState

\* Types after a message while a picture is prepared or taken.
LEMMA PictureCam == CamOK /\ cur.arg \in Setting /\ (PrepareSnapshotState \/ PicTakingState) => CamOK'
<1> SUFFICES ASSUME CamOK, cur.arg \in Setting, PrepareSnapshotState \/ PicTakingState PROVE CamOK'
  OBVIOUS
<1>1. m_state \in State /\ m_channels \in Channels /\ params \in Params
      /\ {"PREVIEWING", "STOPPED"} \subseteq State
      /\ CancelPicture(m_channels, params) \in Channels
      /\ StopChannel(m_channels, "capture") \in Channels
  BY CancelFacts, StopFacts DEF CamOK, State, Chan
<1>2. CASE PrepareSnapshotState
  BY <1>1, <1>2, CamSame, CamSettled, SharedCam, Zenon DEF PrepareSnapshotState, Reply, Remain
<1>3. CASE PicTakingReplies \/ (On({"prep_done"}) /\ Remain /\ Silent)
  BY <1>3, CamSame, Zenon DEF PicTakingReplies, Reply, Remain
<1>4. CASE PicTakingEnd
  <2>1. EndCapture("STOPPED")
    BY <1>4, Zenon DEF PicTakingEnd
  <2>2. Become("STOPPED", CancelPicture(m_channels, params), params) /\ shot' = "none" /\ live' = live
    BY <2>1, Zenon DEF EndCapture
  <2>3. live' \in {"none", "take", "cancel"}
    BY <2>2 DEF CamOK
  <2> QED BY <1>1, <2>2, <2>3, CamBecome
<1>5. CASE StopCaptureChannel
  BY <1>1, <1>5, CamSettled, Zenon DEF StopCaptureChannel
<1> QED BY <1>2, <1>3, <1>4, <1>5, SharedCam, Zenon DEF PicTakingState

\* Types after a message while recording.
LEMMA RecordingCam == CamOK /\ cur.arg \in Setting /\ (RecordingState \/ VideoPicState) => CamOK'
<1> SUFFICES ASSUME CamOK, cur.arg \in Setting, RecordingState \/ VideoPicState PROVE CamOK'
  OBVIOUS
<1>1. m_state \in State /\ m_channels \in Channels /\ params \in Params
  BY DEF CamOK
<1>2. /\ {"PREVIEWING", "STOPPED", "VIDEO_PIC", "RECORDING"} \subseteq State
      /\ StopChannel(m_channels, "video") \in Channels /\ StopPreview(m_channels) \in Channels
  BY <1>1, StopFacts DEF State, Chan
<1>3. CASE RecordingReplies \/ VideoPicReplies
  BY <1>3, CamSame, Zenon DEF RecordingReplies, VideoPicReplies, Reply, Remain
<1>4. CASE RecordingTake
  <2>1. PICK ok \in BOOLEAN :
          /\ StartLive("take", ok)
          /\ Become(IF ok THEN "VIDEO_PIC" ELSE "RECORDING", m_channels, params)
    BY <1>4, Zenon DEF RecordingTake
  <2>2. live' \in {"none", "take", "cancel"} /\ shot' = shot /\ shot' \in Chan \cup {"none", "jpeg"}
        /\ (IF ok THEN "VIDEO_PIC" ELSE "RECORDING") \in State
    BY <1>2, <1>4, <2>1, LiveFacts DEF RecordingTake, CamOK
  <2> QED BY <1>1, <2>1, <2>2, CamBecome
<1>5. CASE RecordingStop
  BY <1>1, <1>2, <1>5, CamSettled DEF RecordingStop
<1>6. CASE VideoPicEnd
  <2>1. PICK ok \in BOOLEAN :
          /\ StartLive("cancel", ok)
          /\ \/ Become("PREVIEWING", StopChannel(m_channels, "video"), params) /\ UNCHANGED shot
             \/ Become("STOPPED", StopPreview(m_channels), params) /\ shot' = Kept(StopPreview(m_channels))
             \/ Become("RECORDING", m_channels, params) /\ UNCHANGED shot
    BY <1>6, Zenon DEF VideoPicEnd
  <2>2. live' \in {"none", "take", "cancel"} /\ shot' \in Chan \cup {"none", "jpeg"}
    BY <2>1, LiveFacts, KeptFacts DEF CamOK
  <2> QED BY <1>1, <1>2, <2>1, <2>2, CamBecome
<1> QED BY <1>3, <1>4, <1>5, <1>6, SharedCam, Zenon DEF RecordingState, VideoPicState

\* Types after a message while a picture is taken beside ZSL preview.
LEMMA PreviewPicCam == CamOK /\ cur.arg \in Setting /\ PreviewPicState => CamOK'
<1> SUFFICES ASSUME CamOK, cur.arg \in Setting, PreviewPicState PROVE CamOK'
  OBVIOUS
<1>1. m_state \in State /\ m_channels \in Channels /\ params \in Params
  BY DEF CamOK
<1>2. /\ {"PREVIEWING", "STOPPED", "VIDEO_PIC", "PIC_TAKING"} \subseteq State /\ "video" \in Chan
      /\ StopPreview(m_channels) \in Channels /\ NoRestart(params) \in Params
  <2>1. StopPreview(m_channels) \in Channels
    BY <1>1, StopFacts
  <2>2. NoRestart(params) \in Params
    BY <1>1, ParamFacts, Zenon
  <2> QED BY <2>1, <2>2 DEF State, Chan
<1>3. CASE PreviewPicReplies
  BY <1>3, CamSame, Zenon DEF PreviewPicReplies, Reply, Remain
<1>4. CASE PreviewPicRestart
  <2>1. ASSUME NEW o \in PrepareAndStart(m_channels, params),
               Settle(IF o.ok THEN m_state ELSE "PIC_TAKING", o.ch, NoRestart(params))
        PROVE  CamOK'
    <3>1. o.ch \in Channels /\ (IF o.ok THEN m_state ELSE "PIC_TAKING") \in State
      BY <1>1, <1>2, BothFacts
    <3> QED BY <1>1, <1>2, <2>1, <3>1, CamSettled, Zenon
  <2> QED BY <1>1, <1>2, <1>4, <2>1, CamSettled, Zenon DEF PreviewPicRestart
<1>5. CASE PreviewPicRecord
  <2>1. ASSUME NEW o \in PreStartRecording(m_channels, params), Settle(m_state, o.ch, o.par)
        PROVE  CamOK'
    <3>1. o.ch \in Channels /\ o.par \in Params
      BY <1>1, PreStartFacts
    <3> QED BY <1>1, <2>1, <3>1, CamSettled, Zenon
  <2>2. ASSUME NEW o \in StartChannel(m_channels, "video", "record"),
               Settle(IF o.ok THEN "VIDEO_PIC" ELSE m_state, o.ch, params)
        PROVE  CamOK'
    <3>1. o.ch \in Channels /\ (IF o.ok THEN "VIDEO_PIC" ELSE m_state) \in State
      BY <1>1, <1>2, StartFacts
    <3> QED BY <1>1, <2>2, <3>1, CamSettled, Zenon
  <2>3. CASE Reply(FALSE)
    BY <2>3, CamSame, Zenon DEF Reply, Remain
  <2> QED BY <1>5, <2>1, <2>2, <2>3, Zenon DEF PreviewPicRecord
<1>6. CASE PreviewPicEnd
  <2> DEFINE c == IF On({"stop_preview"}) THEN StopPreview(m_channels) ELSE m_channels
             s == IF On({"stop_preview"}) THEN "STOPPED" ELSE "PREVIEWING"
  <2>1. PICK ok \in BOOLEAN :
          /\ Become(s, c, params)
          /\ \/ shot' = "none" /\ UNCHANGED live
             \/ StartLive("cancel", ok) /\ shot' = Kept(c)
    BY <1>6, Zenon DEF PreviewPicEnd
  <2>2. live' \in {"none", "take", "cancel"} /\ shot' \in Chan \cup {"none", "jpeg"}
    BY <2>1, LiveFacts, KeptFacts DEF CamOK
  <2>3. c \in Channels /\ s \in State
    BY <1>1, <1>2
  <2> HIDE DEF c, s
  <2> QED BY <1>1, <2>1, <2>2, <2>3, CamBecome
<1> QED BY <1>3, <1>4, <1>5, <1>6, SharedCam, Zenon DEF PreviewPicState

-----------------------------------------------------------------------------
(* Types: messages, answers and callers.                                       *)

Result == [evt : ApiEvt, ok : BOOLEAN]
Caller == [evt : ApiEvt \cup {"none"}, plan : Seq(ApiEvt), woken : BOOLEAN]

QueueOK == api_queue \in Seq(Message) /\ evt_queue \in Seq(Message) /\ cur \in Message \cup {NoMessage}
AnswerOK == results \in Seq(Result) /\ call \in [Client -> Caller]
RestOK ==
  /\ daemon \in BOOLEAN /\ frame \in BOOLEAN /\ notifier \in {"idle", "wait"} /\ calls \in 0 .. MaxCalls

\* The parts are the whole.
LEMMA TypeParts == TypeOK <=> CamOK /\ MsgsOK /\ QueueOK /\ AnswerOK /\ RestOK
  BY DEF TypeOK, CamOK, MsgsOK, QueueOK, AnswerOK, RestOK, Result, Caller

\* What the assumption says of the constants.
LEMMA ConstFacts ==
  /\ IsFiniteSet(Client) /\ Nobody \notin Client /\ Calls \in [Client -> SUBSET Call]
  /\ Settings \subseteq Setting /\ Flash \subseteq BOOLEAN /\ MaxCalls \in Nat
  BY StateMachineAssumption

\* No caller and no thread has more or other messages in mind than those of calls.
LEMMA MessageFacts ==
  /\ NoSetting \in Setting /\ NoMessage.arg = NoSetting /\ NoMessage.evt = "none"
  /\ Idle \in Caller /\ Idle.evt = "none" /\ "none" \notin ApiEvt \cup Evt
  /\ \A e \in ApiEvt \cup Evt, s \in Setting, c \in Client \cup {Nobody} :
       /\ [evt |-> e, arg |-> s, from |-> c] \in Message
       /\ [evt |-> e, arg |-> s, from |-> c].evt = e
<1>1. NoSetting \in Setting /\ <<>> \in Seq(ApiEvt)
  BY DEF NoSetting, Setting
<1> QED BY <1>1 DEF NoMessage, Idle, Caller, ApiEvt, Evt, Message

\* The message that is handled has an argument of its type, and if it is of an event
\* it is one.
LEMMA CurFacts ==
  ASSUME QueueOK
  PROVE  cur.arg \in Setting /\ (cur.evt \in ApiEvt \cup Evt => cur \in Message)
         /\ (cur = NoMessage <=> cur.evt = "none")
  BY MessageFacts DEF QueueOK, Message

\* Two plans joined.
LEMMA JoinedPlans ==
  ASSUME NEW S, NEW a \in S, NEW b \in S, NEW c \in S
  PROVE  <<a>> \o <<b, c>> = <<a, b, c>> /\ <<>> \o <<b, c>> = <<b, c>>
<1>1. <<a>> \in Seq(S) /\ <<b, c>> \in Seq(S) /\ <<a, b, c>> \in Seq(S)
  OBVIOUS
<1>2. /\ <<a>> \o <<b, c>> \in Seq(S) /\ Len(<<a>> \o <<b, c>>) = 3
      /\ \A i \in 1 .. 3 : (<<a>> \o <<b, c>>)[i] = IF i <= 1 THEN <<a>>[i] ELSE <<b, c>>[i - 1]
  <2>1. Len(<<a>>) = 1 /\ Len(<<b, c>>) = 2
    OBVIOUS
  <2> QED BY <1>1, <2>1, ConcatProperties
<1>3. \A i \in 1 .. 3 : (<<a>> \o <<b, c>>)[i] = <<a, b, c>>[i]
  <2>1. <<a>>[1] = a /\ <<b, c>>[1] = b /\ <<b, c>>[2] = c
    OBVIOUS
  <2>2. <<a, b, c>>[1] = a /\ <<a, b, c>>[2] = b /\ <<a, b, c>>[3] = c
    OBVIOUS
  <2>3. 1 .. 3 = {1, 2, 3}
    OBVIOUS
  <2>4. 1 <= 1 /\ ~(2 <= 1) /\ ~(3 <= 1) /\ 2 - 1 = 1 /\ 3 - 1 = 2
    OBVIOUS
  <2>5. (<<a>> \o <<b, c>>)[1] = a /\ (<<a>> \o <<b, c>>)[2] = b /\ (<<a>> \o <<b, c>>)[3] = c
    BY <1>2, <2>1, <2>4
  <2> QED BY <2>2, <2>3, <2>5
<1>4. Len(<<a, b, c>>) = 3
  OBVIOUS
<1>5. <<a>> \o <<b, c>> = <<a, b, c>>
  BY <1>1, <1>2, <1>3, <1>4, SeqEqual
<1> QED BY <1>1, <1>5, ConcatEmptySeq

\* The messages that follow one in a call.
Then(e) ==
  CASE e = "set_params"       -> <<"params_stop", "params_commit", "params_restart">>
    [] e = "params_stop"      -> <<"params_commit", "params_restart">>
    [] e = "params_commit"    -> <<"params_restart">>
    [] e = "pre_start"        -> <<"start_recording">>
    [] e = "prepare_snapshot" -> <<"pre_take", "take">>
    [] e = "pre_take"         -> <<"take">>
    [] OTHER                  -> <<>>

\* The call a message is part of.
Part(k, e) ==
  \/ k = "set_params" /\ e \in {"set_params", "params_stop", "params_commit", "params_restart"}
  \/ k = "start_recording" /\ e \in {"pre_start", "start_recording"}
  \/ k = "take" /\ e \in {"prepare_snapshot", "pre_take", "take"}
  \/ e = k

\* The plan of a call is of messages that calls are made of, in their order.
LEMMA PlanFacts ==
  ASSUME NEW k \in Call, NEW plan \in Plans(k)
  PROVE  /\ plan \in Seq(ApiEvt) /\ plan # <<>>
         /\ Part(k, Head(plan)) /\ Tail(plan) = Then(Head(plan))
         /\ Head(plan) \notin {"params_stop", "params_commit", "params_restart"}
<1>1. \/ k = "set_params" /\ plan = <<"set_params", "params_stop", "params_commit", "params_restart">>
      \/ k = "start_recording" /\ plan = <<"pre_start", "start_recording">>
      \/ k = "take" /\ plan = <<"prepare_snapshot">> \o <<"pre_take", "take">>
      \/ k = "take" /\ plan = <<>> \o <<"pre_take", "take">>
      \/ k \notin {"set_params", "start_recording", "take"} /\ plan = <<k>>
  BY DEF Plans
<1>2. "prepare_snapshot" \in ApiEvt /\ "pre_take" \in ApiEvt /\ "take" \in ApiEvt
  BY DEF ApiEvt
<1>3. <<"prepare_snapshot">> \o <<"pre_take", "take">> = <<"prepare_snapshot", "pre_take", "take">>
      /\ <<>> \o <<"pre_take", "take">> = <<"pre_take", "take">>
  BY <1>2, JoinedPlans
<1>4. CASE k = "set_params" /\ plan = <<"set_params", "params_stop", "params_commit", "params_restart">>
  BY <1>4 DEF ApiEvt, Then, Part
<1>5. CASE k = "start_recording" /\ plan = <<"pre_start", "start_recording">>
  BY <1>5 DEF ApiEvt, Then, Part
<1>6. CASE k = "take" /\ plan = <<"prepare_snapshot", "pre_take", "take">>
  BY <1>6 DEF ApiEvt, Then, Part
<1>7. CASE k = "take" /\ plan = <<"pre_take", "take">>
  BY <1>7 DEF ApiEvt, Then, Part
<1>8. CASE k \notin {"set_params", "start_recording", "take"} /\ plan = <<k>>
  BY <1>8 DEF Call, ApiEvt, Then, Part
<1> QED BY <1>1, <1>3, <1>4, <1>5, <1>6, <1>7, <1>8

-----------------------------------------------------------------------------
(* What handling a message does to those who wait: it is answered, the notifier *)
(* goes on, it is dropped, or it begins or ends the preparation of a snapshot.  *)

Still == /\ m_state' = "PREPARE_SNAPSHOT" <=> m_state = "PREPARE_SNAPSHOT"
         /\ prep' = prep
Answered == cur.evt \in ApiEvt /\ Still /\ \E ok \in BOOLEAN : Answer(ok)
Noted == cur.evt = "snapshot_done" /\ Still /\ SignalEvtResult
Dropped ==
  /\ cur.evt \in {"prep_done", "stop_capture", "release_frame"} /\ Still /\ Silent
  /\ m_state # "PREPARE_SNAPSHOT"
  /\ cur.evt = "release_frame" => m_state \notin {"RECORDING", "VIDEO_PIC"}
Ignored == cur.evt = "stop_capture" /\ Still /\ Silent
Begun ==
  /\ cur.evt = "prepare_snapshot" /\ Silent
  /\ m_state = "PREVIEWING" /\ m_state' = "PREPARE_SNAPSHOT" /\ prep'
Ended ==
  /\ cur.evt = "prep_done" /\ m_state = "PREPARE_SNAPSHOT" /\ m_state' = "PREVIEWING" /\ prep' = prep
  /\ SignalAPIResult("prepare_snapshot", TRUE) /\ Handled /\ UNCHANGED notifier
FlowStep == Answered \/ Noted \/ Dropped \/ Ignored \/ Begun \/ Ended

\* A handler of a state that neither begins nor ends a preparation.
LEMMA StillFacts ==
  /\ Remain => Still
  /\ \A s, c, p : m_state # "PREPARE_SNAPSHOT" /\ s # "PREPARE_SNAPSHOT" /\ Become(s, c, p) => Still
  /\ \A s, c, p : m_state # "PREPARE_SNAPSHOT" /\ s # "PREPARE_SNAPSHOT" /\ Settle(s, c, p) => Still
  /\ UNCHANGED <<m_state, cameraVars, shot>> => Still
  BY Zenon DEF Remain, Become, Settle, Still, cameraVars

\* It answers.
LEMMA ReplyFlow == \A S, ok : S \subseteq ApiEvt /\ ok \in BOOLEAN /\ On(S) /\ Reply(ok) => Answered
  BY StillFacts, Zenon DEF On, Reply, Answered

\* Whatever settles the message has answered it.
LEMMA AnswerFlow ==
  \A S, ok : S \subseteq ApiEvt /\ ok \in BOOLEAN /\ On(S) /\ Still /\ Answer(ok) => Answered
  BY Zenon DEF On, Answered

\* The handlers that most states share.
LEMMA SharedFlow ==
  ASSUME m_state # "PREPARE_SNAPSHOT",
         SetParams \/ SetParamsRecording \/ CommitParams \/ DropRestart \/ NothingToDo \/ Ignore
           \/ MsgType
  PROVE  FlowStep
<1>1. /\ {"set_params"} \subseteq ApiEvt /\ {"params_commit"} \subseteq ApiEvt
      /\ {"params_restart"} \subseteq ApiEvt /\ {"enable", "disable"} \subseteq ApiEvt
  BY DEF ApiEvt
<1>2. CASE SetParams
  BY <1>1, <1>2, StillFacts, AnswerFlow, Zenon DEF SetParams, FlowStep
<1>3. CASE SetParamsRecording
  <2> DEFINE p == UpdateParameters(params, cur.arg)
             ok == ~p.needRestart
  <2>1. On({"set_params"}) /\ Settle(m_state, m_channels, NoRestart(p)) /\ Answer(ok)
    BY <1>3, Zenon DEF SetParamsRecording
  <2>2. ok \in BOOLEAN
    BY Zenon
  <2> HIDE DEF ok, p
  <2> QED BY <1>1, <2>1, <2>2, StillFacts, AnswerFlow, Zenon DEF FlowStep
<1>4. CASE CommitParams \/ DropRestart
  BY <1>1, <1>4, StillFacts, AnswerFlow, Zenon DEF CommitParams, DropRestart, FlowStep
<1>5. CASE MsgType
  BY <1>1, <1>5, StillFacts, AnswerFlow, Zenon DEF MsgType, FlowStep
<1>6. CASE NothingToDo
  <2>1. cur.evt = "snapshot_done"
    BY <1>6 DEF NothingToDo, On
  <2> QED BY <1>6, <2>1, StillFacts, Zenon DEF NothingToDo, FlowStep, Noted
<1>7. CASE Ignore
  <2>1. cur.evt \in {"prep_done", "stop_capture", "release_frame"} /\ cur.evt # "release_frame"
    BY <1>7 DEF Ignore, On
  <2> QED BY <1>7, <2>1, StillFacts, Zenon DEF Ignore, FlowStep, Dropped
<1> QED BY <1>2, <1>3, <1>4, <1>5, <1>6, <1>7

\* A frame given back while nothing is recorded.
LEMMA CloseFlow ==
  m_state \notin {"PREPARE_SNAPSHOT", "RECORDING", "VIDEO_PIC"} /\ CloseFrame => FlowStep
<1>1. CloseFrame => cur.evt \in {"prep_done", "stop_capture", "release_frame"}
  BY DEF CloseFrame, On
<1>2. \A s : s \notin {"PREPARE_SNAPSHOT", "RECORDING", "VIDEO_PIC"}
               => s # "PREPARE_SNAPSHOT" /\ s \notin {"RECORDING", "VIDEO_PIC"}
  OBVIOUS
<1> QED BY <1>1, <1>2, StillFacts, Zenon DEF CloseFrame, FlowStep, Dropped

\* What becomes of a message in the stopped state.
LEMMA StoppedFlow == CamOK /\ StoppedState => FlowStep
<1> SUFFICES ASSUME CamOK, StoppedState PROVE FlowStep
  OBVIOUS
<1>1. m_state = "STOPPED" /\ m_channels \in Channels
  BY DEF StoppedState, CamOK
<1>2. CASE StoppedReplies
  <2>1. \A S : S \in {{"query", "stop_preview", "preview_enabled", "cancel", "params_stop"},
                      {"pre_start", "start_recording", "stop_recording", "prepare_snapshot",
                       "pre_take", "take"}} => S \subseteq ApiEvt
    BY DEF ApiEvt
  <2> QED BY <1>2, <2>1, ReplyFlow, Zenon DEF StoppedReplies, FlowStep
<1>3. CASE SetPreviewWindow
  <2>1. {"set_window", "clear_window"} \subseteq ApiEvt
    BY DEF ApiEvt
  <2> QED BY <1>3, <2>1, AnswerFlow, Zenon DEF SetPreviewWindow, FlowStep, Still
<1>4. CASE StoppedPreview
  <2>1. /\ {"prepare_preview"} \subseteq ApiEvt /\ {"start_preview"} \subseteq ApiEvt
        /\ {"release"} \subseteq ApiEvt
    BY DEF ApiEvt
  <2>2. ASSUME NEW o \in PreparePreview(m_channels, params) \cup PrepareAndStart(m_channels, params),
               NEW s \in {"READY", "PREVIEWING"}, Settle(IF o.ok THEN s ELSE m_state, o.ch, params)
        PROVE  o.ok \in BOOLEAN /\ Still
    <3>1. o.ok \in BOOLEAN /\ (IF o.ok THEN s ELSE m_state) # "PREPARE_SNAPSHOT"
      BY <1>1, PrepareFacts, BothFacts
    <3> QED BY <1>1, <2>2, <3>1, StillFacts
  <2>3. ASSUME NEW o \in PreparePreview(m_channels, params),
               Settle(IF o.ok THEN "READY" ELSE m_state, o.ch, params)
        PROVE  o.ok \in BOOLEAN /\ Still
    BY <2>2, <2>3
  <2>4. ASSUME NEW o \in PrepareAndStart(m_channels, params),
               Settle(IF o.ok THEN "PREVIEWING" ELSE m_state, o.ch, params)
        PROVE  o.ok \in BOOLEAN /\ Still
    BY <2>2, <2>4
  <2>5. ASSUME NEW c, Settle(m_state, c, params) PROVE Still
    BY <1>1, <2>5, StillFacts
  <2> QED BY <1>4, <2>1, <2>3, <2>4, <2>5, AnswerFlow, Zenon DEF StoppedPreview, FlowStep
<1>5. m_state \notin {"PREPARE_SNAPSHOT", "RECORDING", "VIDEO_PIC"} /\ m_state # "PREPARE_SNAPSHOT"
  BY <1>1
<1> QED BY <1>2, <1>3, <1>4, <1>5, SharedFlow, CloseFlow, Zenon DEF StoppedState

\* What becomes of a message in the ready state.
LEMMA ReadyFlow == CamOK /\ ReadyState => FlowStep
<1> SUFFICES ASSUME CamOK, ReadyState PROVE FlowStep
  OBVIOUS
<1>1. m_state = "READY" /\ m_channels \in Channels
  BY DEF ReadyState, CamOK
<1>2. m_state \notin {"PREPARE_SNAPSHOT", "RECORDING", "VIDEO_PIC"} /\ m_state # "PREPARE_SNAPSHOT"
  BY <1>1
<1>3. CASE ReadyReplies
  <2>1. \A S : S \in {{"query", "prepare_preview", "preview_enabled"},
                      {"pre_start", "start_recording", "stop_recording", "prepare_snapshot",
                       "pre_take", "take", "cancel", "release"}} => S \subseteq ApiEvt
    BY DEF ApiEvt
  <2> QED BY <1>3, <2>1, ReplyFlow, Zenon DEF ReadyReplies, FlowStep
<1>4. CASE ReadyPreview
  <2>1. /\ {"set_window", "start_preview"} \subseteq ApiEvt /\ {"start_preview"} \subseteq ApiEvt
        /\ {"set_window", "clear_window"} \subseteq ApiEvt /\ {"stop_preview"} \subseteq ApiEvt
    BY DEF ApiEvt
  <2>2. ASSUME NEW o \in StartOrUnprepare(m_channels, params),
               m_state' = IF o.ok THEN "PREVIEWING" ELSE "STOPPED", UNCHANGED <<params, prep, live>>
        PROVE  (o.ok \/ On({"start_preview"})) \in BOOLEAN /\ Still
    <3>1. o.ok \in BOOLEAN
      BY <1>1, StartOrUnprepareFacts
    <3> QED BY <1>1, <2>2, <3>1 DEF Still
  <2>3. SetPreviewWindow => Still /\ Answer(TRUE) /\ On({"set_window", "clear_window"})
    BY Zenon DEF SetPreviewWindow, Still
  <2>4. ASSUME NEW c, Settle("STOPPED", c, params) PROVE Still
    BY <1>1, <2>4, StillFacts
  <2> QED BY <1>4, <2>1, <2>2, <2>3, <2>4, AnswerFlow, ReplyFlow, Zenon DEF ReadyPreview, FlowStep
<1>5. CASE ReadyRestart
  <2>1. {"params_stop"} \subseteq ApiEvt /\ {"params_restart"} \subseteq ApiEvt
    BY DEF ApiEvt
  <2>2. ASSUME NEW o \in PreparePreview(m_channels, params), NEW p,
               Settle(IF o.ok THEN m_state ELSE "STOPPED", o.ch, p)
        PROVE  o.ok \in BOOLEAN /\ Still
    <3>1. o.ok \in BOOLEAN /\ (IF o.ok THEN m_state ELSE "STOPPED") # "PREPARE_SNAPSHOT"
      BY <1>1, PrepareFacts
    <3> QED BY <1>1, <2>2, <3>1, StillFacts
  <2>3. ASSUME NEW c, Settle(m_state, c, params) PROVE Still
    BY <1>1, <2>3, StillFacts
  <2> QED BY <1>5, <2>1, <2>2, <2>3, AnswerFlow, Zenon DEF ReadyRestart, FlowStep
<1> QED BY <1>2, <1>3, <1>4, <1>5, SharedFlow, CloseFlow, Zenon DEF ReadyState

\* A picture is requested.
LEMMA TakeFlow ==
  ASSUME m_state = "PREVIEWING", On({"take"}), NEW o, o.ch \in Channels, TakeZsl(o) \/ TakeCapture(o)
  PROVE  FlowStep
<1>1. {"take"} \subseteq ApiEvt
  BY DEF ApiEvt
<1>2. PICK t \in TakePicture(o.ch, o.par) : t.ok \in BOOLEAN /\ Still /\ Answer(t.ok)
  <2>1. CASE TakeZsl(o)
    <3>1. PICK t \in TakePicture(o.ch, o.par) :
            Become(IF t.ok THEN "PREVIEW_PIC" ELSE "PREVIEWING", t.ch, o.par) /\ Answer(t.ok)
      BY <2>1, Zenon DEF TakeZsl
    <3>2. t.ok \in BOOLEAN
      BY TakeFacts
    <3>3. Still
      BY <3>1, StillFacts
    <3> QED BY <3>1, <3>2, <3>3
  <2>2. CASE TakeCapture(o)
    <3>1. PICK t \in TakePicture(o.ch, o.par) :
            /\ IF t.ok THEN Become("PIC_TAKING", t.ch, o.par)
               ELSE \E r \in PrepareAndStart(StopPreview(t.ch), o.par) :
                      Become(IF r.ok THEN "PREVIEWING" ELSE "STOPPED", r.ch, o.par)
            /\ Answer(t.ok)
      BY <2>2, Zenon DEF TakeCapture
    <3>2. t.ok \in BOOLEAN
      BY TakeFacts
    <3>3. \E s \in {"PIC_TAKING", "PREVIEWING", "STOPPED"} : \E c : Become(s, c, o.par)
      BY <3>1, <3>2
    <3>4. Still
      BY <3>3, StillFacts
    <3> QED BY <3>1, <3>2, <3>4
  <2> QED BY <2>1, <2>2
<1> QED BY <1>1, <1>2, AnswerFlow, Zenon DEF FlowStep

\* What becomes of a message in the previewing state.
LEMMA PreviewingFlow == CamOK /\ PreviewingState => FlowStep
<1> SUFFICES ASSUME CamOK, PreviewingState PROVE FlowStep
  OBVIOUS
<1>1. m_state = "PREVIEWING" /\ m_channels \in Channels /\ params \in Params
  BY DEF PreviewingState, CamOK
<1>2. m_state \notin {"PREPARE_SNAPSHOT", "RECORDING", "VIDEO_PIC"} /\ m_state # "PREPARE_SNAPSHOT"
  BY <1>1
<1>3. CASE PreviewingReplies
  <2>1. \A S : S \in {{"query", "prepare_preview", "cancel", "stop_recording"},
                      {"set_window", "clear_window", "release"}} => S \subseteq ApiEvt
    BY DEF ApiEvt
  <2> QED BY <1>3, <2>1, ReplyFlow, Zenon DEF PreviewingReplies, FlowStep
<1>4. CASE PreviewingMsgType
  <2>1. {"enable"} \subseteq ApiEvt /\ {"disable"} \subseteq ApiEvt
    BY DEF ApiEvt
  <2> QED BY <1>4, <2>1, StillFacts, AnswerFlow, Zenon DEF PreviewingMsgType, FlowStep
<1>5. CASE PreviewingRestart
  <2>1. {"params_stop"} \subseteq ApiEvt /\ {"params_restart"} \subseteq ApiEvt
    BY DEF ApiEvt
  <2>2. ASSUME NEW o \in PrepareAndStart(m_channels, params), NEW p,
               Settle(IF o.prepared /\ ~o.ok THEN "STOPPED" ELSE m_state, o.ch, p)
        PROVE  o.ok \in BOOLEAN /\ Still
    <3>1. (IF o.prepared /\ ~o.ok THEN "STOPPED" ELSE m_state) # "PREPARE_SNAPSHOT"
      BY <1>1
    <3> QED BY <1>1, <2>2, <3>1, StillFacts, BothFacts
  <2>3. ASSUME NEW c, Settle(m_state, c, params) PROVE Still
    BY <1>1, <2>3, StillFacts
  <2> QED BY <1>5, <2>1, <2>2, <2>3, AnswerFlow, Zenon DEF PreviewingRestart, FlowStep
<1>6. CASE PreviewingPreview
  <2>1. {"start_preview", "preview_enabled"} \subseteq ApiEvt /\ {"stop_preview"} \subseteq ApiEvt
    BY DEF ApiEvt
  <2>2. ASSUME NEW c, Settle("STOPPED", c, params) PROVE Still
    BY <1>1, <2>2, StillFacts
  <2> QED BY <1>6, <2>1, <2>2, StillFacts, AnswerFlow, Zenon DEF PreviewingPreview, FlowStep
<1>7. CASE PreviewingRecord
  <2>1. {"pre_start"} \subseteq ApiEvt /\ {"start_recording"} \subseteq ApiEvt
    BY DEF ApiEvt
  <2>2. ASSUME NEW o \in PreStartRecording(m_channels, params), Settle(m_state, o.ch, o.par)
        PROVE  o.ok \in BOOLEAN /\ Still
    BY <1>1, <2>2, StillFacts, PreStartFacts
  <2>3. ASSUME NEW o \in StartChannel(m_channels, "video", "record"),
               Settle(IF o.ok THEN "RECORDING" ELSE m_state, o.ch, params)
        PROVE  o.ok \in BOOLEAN /\ Still
    <3>1. "video" \in Chan /\ (IF o.ok THEN "RECORDING" ELSE m_state) # "PREPARE_SNAPSHOT"
      BY <1>1 DEF Chan
    <3> QED BY <1>1, <2>3, <3>1, StillFacts, StartFacts
  <2> QED BY <1>7, <2>1, <2>2, <2>3, AnswerFlow, Zenon DEF PreviewingRecord, FlowStep
<1>8. CASE PreviewingPrepareSnapshot
  <2>1. cur.evt = "prepare_snapshot" /\ {"prepare_snapshot"} \subseteq ApiEvt
    BY <1>8 DEF PreviewingPrepareSnapshot, On, ApiEvt
  <2>2. CASE Reply(FALSE)
    BY <1>8, <2>1, <2>2, ReplyFlow, Zenon DEF PreviewingPrepareSnapshot, FlowStep
  <2>3. CASE m_state' = "PREPARE_SNAPSHOT" /\ prep' = TRUE /\ Silent
    BY <1>1, <2>1, <2>3, Zenon DEF FlowStep, Begun
  <2> QED BY <1>8, <2>2, <2>3, Zenon DEF PreviewingPrepareSnapshot
<1>9. CASE PreviewingPreTake
  <2>1. {"pre_take"} \subseteq ApiEvt /\ On({"pre_take"})
    BY <1>9, Zenon DEF ApiEvt, PreviewingPreTake
  <2>2. PICK o \in ClearRecordingHint(m_channels, params) : Settle(m_state, o.ch, o.par) /\ Answer(o.ok)
    BY <1>9, Zenon DEF PreviewingPreTake
  <2>3. o.ok \in BOOLEAN /\ Still
    BY <1>1, <2>2, StillFacts, ClearFacts
  <2> QED BY <2>1, <2>2, <2>3, AnswerFlow, Zenon DEF FlowStep
<1>10. CASE PreviewingTake
  <2>1. PICK o \in ClearRecordingHint(m_channels, params) : TakeZsl(o) \/ TakeCapture(o)
    BY <1>10, Zenon DEF PreviewingTake
  <2>2. o.ch \in Channels
    BY <1>1, ClearFacts
  <2> QED BY <1>1, <1>10, <2>1, <2>2, TakeFlow, Zenon DEF PreviewingTake
<1> QED BY <1>2, <1>3, <1>4, <1>5, <1>6, <1>7, <1>8, <1>9, <1>10, SharedFlow, CloseFlow, Zenon
     DEF PreviewingState

\* What becomes of a message while the hardware prepares.
LEMMA PrepareSnapshotFlow == PrepareSnapshotState => FlowStep
<1> SUFFICES ASSUME PrepareSnapshotState PROVE FlowStep
  OBVIOUS
<1>1. m_state = "PREPARE_SNAPSHOT" /\ ApiEvt \ {"stop_capture"} \subseteq ApiEvt
  BY DEF PrepareSnapshotState
<1>2. CASE On(ApiEvt \ {"stop_capture"}) /\ Reply(FALSE)
  BY <1>1, <1>2, ReplyFlow, Zenon DEF FlowStep
<1>3. CASE NothingToDo
  <2>1. cur.evt = "snapshot_done"
    BY <1>3 DEF NothingToDo, On
  <2> QED BY <1>3, <2>1, StillFacts, Zenon DEF NothingToDo, FlowStep, Noted
<1>4. CASE On({"stop_capture"}) /\ Remain /\ Silent
  <2>1. cur.evt = "stop_capture"
    BY <1>4 DEF On
  <2> QED BY <1>4, <2>1, StillFacts, Zenon DEF FlowStep, Ignored
<1>5. CASE /\ On({"prep_done"})
           /\ Settle("PREVIEWING", m_channels, params)
           /\ SignalAPIResult("prepare_snapshot", TRUE) /\ Handled /\ UNCHANGED notifier
  <2>1. cur.evt = "prep_done" /\ m_state' = "PREVIEWING" /\ prep' = prep
    BY <1>5 DEF On, Settle, Become
  <2> QED BY <1>1, <1>5, <2>1, Zenon DEF FlowStep, Ended
<1> QED BY <1>2, <1>3, <1>4, <1>5, Zenon DEF PrepareSnapshotState

\* What becomes of a message while a picture is taken.
LEMMA PicTakingFlow == CamOK /\ PicTakingState => FlowStep
<1> SUFFICES ASSUME CamOK, PicTakingState PROVE FlowStep
  OBVIOUS
<1>1. m_state = "PIC_TAKING"
  BY DEF PicTakingState
<1>2. m_state # "PREPARE_SNAPSHOT"
  BY <1>1
<1>3. CASE PicTakingReplies
  <2>1. \A S : S \in {{"query", "preview_enabled", "params_stop"},
                      {"set_window", "clear_window", "prepare_snapshot", "pre_start",
                       "start_recording", "stop_recording", "release_frame", "prepare_preview",
                       "start_preview", "release", "pre_take", "take"}} => S \subseteq ApiEvt
    BY DEF ApiEvt
  <2> QED BY <1>3, <2>1, ReplyFlow, Zenon DEF PicTakingReplies, FlowStep
<1>4. CASE PicTakingEnd
  <2>1. EndCapture("STOPPED") => Still
    <3>1. EndCapture("STOPPED") => \E c : Become("STOPPED", c, params)
      BY Zenon DEF EndCapture
    <3> QED BY <1>1, <3>1, StillFacts
  <2>2. {"stop_preview", "cancel"} \subseteq ApiEvt
    BY DEF ApiEvt
  <2>3. On({"snapshot_done"}) => cur.evt = "snapshot_done"
    BY DEF On
  <2> QED BY <1>4, <2>1, <2>2, <2>3, AnswerFlow, Zenon DEF PicTakingEnd, FlowStep, Noted
<1>5. CASE StopCaptureChannel
  <2>1. {"stop_capture"} \subseteq ApiEvt /\ (m_channels["capture"] # "none") \in BOOLEAN
    BY DEF ApiEvt
  <2>2. ASSUME NEW c, Settle(m_state, c, params) PROVE Still
    BY <1>1, <2>2, StillFacts
  <2> QED BY <1>5, <2>1, <2>2, AnswerFlow, Zenon DEF StopCaptureChannel, FlowStep
<1>6. CASE On({"prep_done"}) /\ Remain /\ Silent
  <2>1. cur.evt = "prep_done" /\ cur.evt # "release_frame"
    BY <1>6 DEF On
  <2> QED BY <1>2, <1>6, <2>1, StillFacts DEF FlowStep, Dropped
<1>7. CASE MsgType \/ SetParams \/ CommitParams \/ DropRestart
  BY <1>2, <1>7, SharedFlow
<1> QED BY <1>3, <1>4, <1>5, <1>6, <1>7, Zenon DEF PicTakingState

\* What becomes of a message while recording.
LEMMA RecordingFlow == CamOK /\ (RecordingState \/ VideoPicState) => FlowStep
<1> SUFFICES ASSUME CamOK, RecordingState \/ VideoPicState PROVE FlowStep
  OBVIOUS
<1>1. m_state \in {"RECORDING", "VIDEO_PIC"}
  BY DEF RecordingState, VideoPicState
<1>2. m_state # "PREPARE_SNAPSHOT"
  BY <1>1
<1>3. CASE RecordingReplies
  <2>1. \A S : S \in {{"query", "prepare_preview", "start_preview", "set_window", "clear_window",
                       "pre_take", "pre_start", "start_recording", "prepare_snapshot",
                       "preview_enabled", "release_frame"},
                      {"params_stop", "params_restart", "cancel", "release"}} => S \subseteq ApiEvt
    BY DEF ApiEvt
  <2> QED BY <1>3, <2>1, ReplyFlow, Zenon DEF RecordingReplies, FlowStep
<1>4. CASE VideoPicReplies
  <2>1. \A S : S \in {{"query", "preview_enabled", "release_frame"},
                      {"set_window", "clear_window", "params_stop", "params_restart", "pre_start",
                       "start_recording", "prepare_preview", "start_preview", "prepare_snapshot",
                       "pre_take", "take", "release"}} => S \subseteq ApiEvt
    BY DEF ApiEvt
  <2> QED BY <1>4, <2>1, ReplyFlow, Zenon DEF VideoPicReplies, FlowStep
<1>5. CASE RecordingTake
  <2>1. PICK ok \in BOOLEAN :
          Become(IF ok THEN "VIDEO_PIC" ELSE "RECORDING", m_channels, params) /\ Answer(ok)
    BY <1>5, Zenon DEF RecordingTake
  <2>2. (IF ok THEN "VIDEO_PIC" ELSE "RECORDING") # "PREPARE_SNAPSHOT"
    OBVIOUS
  <2>3. Still /\ {"take"} \subseteq ApiEvt
    BY <1>2, <2>1, <2>2, StillFacts DEF ApiEvt
  <2> QED BY <1>5, <2>1, <2>3, AnswerFlow, Zenon DEF RecordingTake, FlowStep
<1>6. CASE RecordingStop
  <2>1. \A s, c : s \in {"PREVIEWING", "STOPPED"} /\ Settle(s, c, params) => Still
    BY <1>2, StillFacts
  <2>2. {"stop_recording"} \subseteq ApiEvt /\ {"stop_preview"} \subseteq ApiEvt
        /\ "PREVIEWING" \in {"PREVIEWING", "STOPPED"} /\ "STOPPED" \in {"PREVIEWING", "STOPPED"}
    BY DEF ApiEvt
  <2> QED BY <1>6, <2>1, <2>2, AnswerFlow, Zenon DEF RecordingStop, FlowStep
<1>7. CASE VideoPicEnd
  <2>1. \A s, c : s \in {"PREVIEWING", "STOPPED", "RECORDING"} /\ Become(s, c, params) => Still
    BY <1>2, StillFacts
  <2>2. \A s \in {"PREVIEWING", "STOPPED", "RECORDING"} : s \in {"PREVIEWING", "STOPPED", "RECORDING"}
    OBVIOUS
  <2>3. /\ {"stop_recording"} \subseteq ApiEvt /\ {"stop_preview"} \subseteq ApiEvt
        /\ {"cancel"} \subseteq ApiEvt /\ (On({"snapshot_done"}) => cur.evt = "snapshot_done")
    BY DEF ApiEvt, On
  <2>4. /\ \A c : Become("PREVIEWING", c, params) => Still
        /\ \A c : Become("STOPPED", c, params) => Still
        /\ \A c : Become("RECORDING", c, params) => Still
    BY <2>1
  <2>5. PICK ok \in BOOLEAN :
          \/ On({"stop_recording"}) /\ Answer(TRUE) /\ Still
          \/ On({"stop_preview"}) /\ Answer(TRUE) /\ Still
          \/ On({"cancel"}) /\ Answer(ok) /\ Still
          \/ On({"snapshot_done"}) /\ SignalEvtResult /\ Still
    BY <1>7, <2>4, Zenon DEF VideoPicEnd
  <2> QED BY <2>3, <2>5, AnswerFlow, Zenon DEF FlowStep, Noted
<1>8. CASE MsgType \/ SetParamsRecording \/ CommitParams \/ NothingToDo \/ Ignore
  BY <1>2, <1>8, SharedFlow
<1> QED BY <1>3, <1>4, <1>5, <1>6, <1>7, <1>8, Zenon DEF RecordingState, VideoPicState

\* What becomes of a message while a picture is taken beside ZSL preview.
LEMMA PreviewPicFlow == CamOK /\ PreviewPicState => FlowStep
<1> SUFFICES ASSUME CamOK, PreviewPicState PROVE FlowStep
  OBVIOUS
<1>1. m_state = "PREVIEW_PIC" /\ m_channels \in Channels /\ params \in Params
  BY DEF PreviewPicState, CamOK
<1>2. m_state # "PREPARE_SNAPSHOT"
  BY <1>1
<1>3. CASE PreviewPicReplies
  <2>1. \A S : S \in {{"query", "preview_enabled", "release_frame"},
                      {"prepare_snapshot", "pre_take", "take", "stop_recording", "prepare_preview",
                       "start_preview", "set_window", "clear_window", "release"}} => S \subseteq ApiEvt
    BY DEF ApiEvt
  <2> QED BY <1>3, <2>1, ReplyFlow, Zenon DEF PreviewPicReplies, FlowStep
<1>4. CASE PreviewPicRestart
  <2>1. {"params_stop"} \subseteq ApiEvt /\ {"params_restart"} \subseteq ApiEvt
    BY DEF ApiEvt
  <2>2. ASSUME NEW o \in PrepareAndStart(m_channels, params), NEW p,
               Settle(IF o.ok THEN m_state ELSE "PIC_TAKING", o.ch, p)
        PROVE  o.ok \in BOOLEAN /\ Still
    <3>1. (IF o.ok THEN m_state ELSE "PIC_TAKING") # "PREPARE_SNAPSHOT"
      BY <1>1
    <3> QED BY <1>1, <2>2, <3>1, StillFacts, BothFacts
  <2>3. ASSUME NEW c, Settle(m_state, c, params) PROVE Still
    BY <1>1, <2>3, StillFacts
  <2> QED BY <1>4, <2>1, <2>2, <2>3, AnswerFlow, Zenon DEF PreviewPicRestart, FlowStep
<1>5. CASE PreviewPicRecord
  <2>1. {"pre_start"} \subseteq ApiEvt /\ {"start_recording"} \subseteq ApiEvt
        /\ {"pre_start", "start_recording"} \subseteq ApiEvt
    BY DEF ApiEvt
  <2>2. ASSUME NEW o \in PreStartRecording(m_channels, params), Settle(m_state, o.ch, o.par)
        PROVE  o.ok \in BOOLEAN /\ Still
    BY <1>1, <2>2, StillFacts, PreStartFacts
  <2>3. ASSUME NEW o \in StartChannel(m_channels, "video", "record"),
               Settle(IF o.ok THEN "VIDEO_PIC" ELSE m_state, o.ch, params)
        PROVE  o.ok \in BOOLEAN /\ Still
    <3>1. "video" \in Chan /\ (IF o.ok THEN "VIDEO_PIC" ELSE m_state) # "PREPARE_SNAPSHOT"
      BY <1>1 DEF Chan
    <3> QED BY <1>1, <2>3, <3>1, StillFacts, StartFacts
  <2> QED BY <1>5, <2>1, <2>2, <2>3, AnswerFlow, ReplyFlow, Zenon DEF PreviewPicRecord, FlowStep
<1>6. CASE PreviewPicEnd
  <2>1. PICK ok \in BOOLEAN :
          /\ \E s \in {"STOPPED", "PREVIEWING"} : \E c : Become(s, c, params)
          /\ IF On({"snapshot_done"}) THEN SignalEvtResult ELSE Answer(ok)
    BY <1>6 DEF PreviewPicEnd
  <2>2. Still
    BY <1>2, <2>1, StillFacts
  <2>3. cur.evt \in {"cancel", "stop_preview", "snapshot_done"}
    BY <1>6 DEF PreviewPicEnd, On
  <2>4. CASE On({"snapshot_done"})
    <3>1. cur.evt = "snapshot_done"
      BY <2>4 DEF On
    <3> QED BY <2>1, <2>2, <2>4, <3>1, Zenon DEF FlowStep, Noted
  <2>5. CASE ~On({"snapshot_done"})
    <3>1. cur.evt \in ApiEvt
      BY <2>3, <2>5 DEF On, ApiEvt
    <3> QED BY <2>1, <2>2, <2>5, <3>1, Zenon DEF FlowStep, Answered
  <2> QED BY <2>4, <2>5
<1>7. CASE MsgType \/ SetParams \/ CommitParams \/ Ignore
  BY <1>2, <1>7, SharedFlow
<1> QED BY <1>3, <1>4, <1>5, <1>6, <1>7, Zenon DEF PreviewPicState

\* Whatever the state: a message is handled in one of these ways.
LEMMA HandleFlow == TypeOK /\ Handle => CamOK' /\ FlowStep
<1>1. TypeOK => CamOK /\ cur.arg \in Setting
  BY TypeParts, CurFacts
<1> QED BY <1>1, StoppedFlow, ReadyFlow, PreviewingFlow, PrepareSnapshotFlow, PicTakingFlow,
           RecordingFlow, PreviewPicFlow, StoppedCam, ReadyCam, PreviewingCam, PictureCam,
           RecordingCam, PreviewPicCam, Zenon DEF Handle

-----------------------------------------------------------------------------
(* Types: the callers and the other threads.                                   *)

\* A caller submits a message and waits for its answer.
Sent(c, e, s, p) ==
  /\ api_queue' = Append(api_queue, [evt |-> e, arg |-> s, from |-> c])
  /\ call' = [call EXCEPT ![c] = [evt |-> e, plan |-> p, woken |-> FALSE]]

\* The messages that follow are some of those calls are made of.
LEMMA ThenFacts == \A e : Then(e) \in Seq(ApiEvt)
<1> SUFFICES ASSUME NEW e PROVE Then(e) \in Seq(ApiEvt)
  OBVIOUS
<1>1. /\ "params_stop" \in ApiEvt /\ "params_commit" \in ApiEvt /\ "params_restart" \in ApiEvt
      /\ "start_recording" \in ApiEvt /\ "pre_take" \in ApiEvt /\ "take" \in ApiEvt
  BY DEF ApiEvt
<1>2. ASSUME NEW a \in ApiEvt, NEW b \in ApiEvt, NEW c \in ApiEvt
      PROVE  /\ <<>> \in Seq(ApiEvt) /\ <<a>> \in Seq(ApiEvt)
             /\ <<a, b>> \in Seq(ApiEvt) /\ <<a, b, c>> \in Seq(ApiEvt)
  OBVIOUS
<1>3. \/ Then(e) = <<"params_stop", "params_commit", "params_restart">>
      \/ Then(e) = <<"params_commit", "params_restart">> \/ Then(e) = <<"pre_take", "take">>
      \/ \E a \in {"params_restart", "start_recording", "take"} : Then(e) = <<a>>
      \/ Then(e) = <<>>
  BY Zenon DEF Then
<1> QED BY <1>1, <1>2, <1>3, Zenon

\* What a caller submits is a message, and it waits for it.
LEMMA SentFacts ==
  ASSUME QueueOK, AnswerOK, NEW c \in Client, NEW e \in ApiEvt, NEW s \in Setting,
         NEW p \in Seq(ApiEvt), Sent(c, e, s, p)
  PROVE  /\ [evt |-> e, arg |-> s, from |-> c] \in Message
         /\ api_queue' \in Seq(Message) /\ call' \in [Client -> Caller]
         /\ call'[c] = [evt |-> e, plan |-> p, woken |-> FALSE]
         /\ \A d \in Client : d # c => call'[d] = call[d]
<1> DEFINE m == [evt |-> e, arg |-> s, from |-> c]
           w == [evt |-> e, plan |-> p, woken |-> FALSE]
<1>1. m \in Message /\ w \in Caller
  BY DEF Message, Caller
<1>2. api_queue' = Append(api_queue, m) /\ call' = [call EXCEPT ![c] = w]
  BY DEF Sent
<1>3. api_queue \in Seq(Message) /\ call \in [Client -> Caller]
  BY DEF QueueOK, AnswerOK
<1> HIDE DEF m, w
<1>4. Append(api_queue, m) \in Seq(Message)
  BY <1>1, <1>3, AppendProperties
<1> QED BY <1>1, <1>2, <1>3, <1>4 DEF m, w

\* A call begins with a message of its own.
LEMMA BeginFacts ==
  ASSUME NEW c \in Client, BeginCall(c)
  PROVE  \E k \in Calls[c], e \in ApiEvt, s \in Setting :
           /\ k \in Call /\ Part(k, e) /\ MayCall(k) /\ Sent(c, e, s, Then(e))
           /\ e \notin {"params_stop", "params_commit", "params_restart"}
           /\ frame' = (frame /\ k # "release_frame")
<1>1. PICK k \in Calls[c] : \E s \in IF k = "set_params" THEN Settings ELSE {NoSetting} :
        /\ MayCall(k) /\ \E plan \in Plans(k) : Submit(c, plan, s)
        /\ frame' = (frame /\ k # "release_frame")
  BY Zenon DEF BeginCall
<1>2. PICK s \in IF k = "set_params" THEN Settings ELSE {NoSetting}, plan \in Plans(k) :
        MayCall(k) /\ Submit(c, plan, s) /\ frame' = (frame /\ k # "release_frame")
  BY <1>1
<1>3. k \in Call /\ s \in Setting
  BY <1>1, <1>2, ConstFacts, MessageFacts
<1>4. /\ plan \in Seq(ApiEvt) /\ plan # <<>> /\ Part(k, Head(plan)) /\ Tail(plan) = Then(Head(plan))
      /\ Head(plan) \notin {"params_stop", "params_commit", "params_restart"}
  BY <1>3, PlanFacts
<1>5. Head(plan) \in ApiEvt
  BY <1>4
<1>6. Sent(c, Head(plan), s, Then(Head(plan)))
  BY <1>2, <1>4, Zenon DEF Submit, Sent
<1> QED BY <1>2, <1>3, <1>4, <1>5, <1>6

\* A caller that has its answer returns, or goes on with what remains of its plan.
LEMMA AnswerFacts ==
  ASSUME AnswerOK, NEW c \in Client, TakeAnswer(c)
  PROVE  \E i \in 1 .. Len(results) :
           /\ results[i].evt = call[c].evt /\ results' = DropAt(results, i)
           /\ Remaining(call[c].plan) \in Seq(ApiEvt)
           /\ \/ /\ Remaining(call[c].plan) # <<>>
                 /\ results[i].ok \/ call[c].evt = "prepare_snapshot"
                 /\ Sent(c, Head(Remaining(call[c].plan)), NoSetting, Tail(Remaining(call[c].plan)))
              \/ /\ Remaining(call[c].plan) = <<>>
                    \/ ~(results[i].ok \/ call[c].evt = "prepare_snapshot")
                 /\ call' = [call EXCEPT ![c] = Idle] /\ UNCHANGED api_queue
<1> DEFINE more == Remaining(call[c].plan)
<1>1. call[c].plan \in Seq(ApiEvt) /\ results \in Seq(Result)
  BY DEF AnswerOK, Caller
<1>2. DOMAIN results = 1 .. Len(results)
  BY <1>1
<1>3. PICK i \in DOMAIN results :
        /\ results[i].evt = call[c].evt
        /\ results' = SubSeq(results, 1, i - 1) \o SubSeq(results, i + 1, Len(results))
        /\ IF more # <<>> /\ (results[i].ok \/ call[c].evt = "prepare_snapshot")
           THEN Submit(c, more, NoSetting)
           ELSE call' = [call EXCEPT ![c] = Idle] /\ UNCHANGED api_queue
  BY Zenon DEF TakeAnswer
<1>4. more \in Seq(ApiEvt)
  BY <1>1 DEF Remaining
<1>5. results' = DropAt(results, i)
  BY <1>3, Zenon DEF DropAt
<1> HIDE DEF more
<1>6. Submit(c, more, NoSetting) => Sent(c, Head(more), NoSetting, Tail(more))
  BY Zenon DEF Submit, Sent
<1> QED BY <1>2, <1>3, <1>4, <1>5, <1>6, Zenon DEF more

\* Types: a call begins, waits again, or goes on with an answer.
LEMMA CallerTyped ==
  ASSUME TypeOK, NEW c \in Client, BeginCall(c) \/ WaitAgain(c) \/ TakeAnswer(c)
  PROVE  CamOK' /\ QueueOK' /\ AnswerOK' /\ RestOK'
<1>1. CamOK /\ QueueOK /\ AnswerOK /\ RestOK
  BY TypeParts
<1>2. CamOK' /\ evt_queue' = evt_queue /\ cur' = cur /\ daemon' = daemon /\ notifier' = notifier
  <2>1. UNCHANGED <<m_state, cameraVars, shot, evt_queue, cur, daemon, notifier>>
    BY Zenon DEF BeginCall, WaitAgain, TakeAnswer, queueVars, envVars
  <2> QED BY <1>1, <2>1, CamSame, Zenon
<1>3. CASE BeginCall(c)
  <2>1. PICK k \in Calls[c], e \in ApiEvt, s \in Setting :
          Sent(c, e, s, Then(e)) /\ frame' = (frame /\ k # "release_frame")
    BY <1>3, BeginFacts
  <2>2. api_queue' \in Seq(Message) /\ call' \in [Client -> Caller]
    BY <1>1, <2>1, ThenFacts, SentFacts
  <2>3. results' = results /\ calls < MaxCalls /\ calls' = calls + 1
    BY <1>3, Zenon DEF BeginCall
  <2>4. calls' \in 0 .. MaxCalls
    BY <1>1, <2>3, ConstFacts DEF RestOK
  <2>5. frame' \in BOOLEAN
    BY <2>1
  <2> QED BY <1>1, <1>2, <2>2, <2>3, <2>4, <2>5, Zenon DEF QueueOK, AnswerOK, RestOK
<1>4. CASE WaitAgain(c)
  <2>1. /\ UNCHANGED <<api_queue, results, calls, frame>>
        /\ call' = [call EXCEPT ![c].woken = FALSE]
    BY <1>4, Zenon DEF WaitAgain, queueVars, envVars
  <2>2. call' \in [Client -> Caller]
    BY <1>1, <2>1 DEF AnswerOK, Caller
  <2> QED BY <1>1, <1>2, <2>1, <2>2, Zenon DEF QueueOK, AnswerOK, RestOK
<1>5. CASE TakeAnswer(c)
  <2>1. UNCHANGED <<calls, frame>>
    BY <1>5, Zenon DEF TakeAnswer, envVars
  <2>2. PICK i \in 1 .. Len(results) :
          /\ results' = DropAt(results, i)
          /\ Remaining(call[c].plan) \in Seq(ApiEvt)
          /\ \/ /\ Remaining(call[c].plan) # <<>>
                /\ Sent(c, Head(Remaining(call[c].plan)), NoSetting, Tail(Remaining(call[c].plan)))
             \/ call' = [call EXCEPT ![c] = Idle] /\ UNCHANGED api_queue
    BY <1>1, <1>5, AnswerFacts, Zenon
  <2>3. results' \in Seq(Result)
    BY <1>1, <2>2, DropAtFacts DEF AnswerOK
  <2>4. CASE Remaining(call[c].plan) # <<>>
             /\ Sent(c, Head(Remaining(call[c].plan)), NoSetting, Tail(Remaining(call[c].plan)))
    <3>1. Head(Remaining(call[c].plan)) \in ApiEvt /\ Tail(Remaining(call[c].plan)) \in Seq(ApiEvt)
      BY <2>2, <2>4
    <3>2. api_queue' \in Seq(Message) /\ call' \in [Client -> Caller]
      BY <1>1, <2>4, <3>1, MessageFacts, SentFacts
    <3> QED BY <1>1, <1>2, <2>1, <2>3, <3>2, Zenon DEF QueueOK, AnswerOK, RestOK
  <2>5. CASE call' = [call EXCEPT ![c] = Idle] /\ UNCHANGED api_queue
    <3>1. call' \in [Client -> Caller]
      BY <1>1, <2>5, MessageFacts DEF AnswerOK
    <3> QED BY <1>1, <1>2, <2>1, <2>3, <2>5, <3>1, Zenon DEF QueueOK, AnswerOK, RestOK
  <2> QED BY <2>2, <2>4, <2>5
<1> QED BY <1>3, <1>4, <1>5

\* Types: a message is taken from a queue.
LEMMA DequeueTyped == ASSUME TypeOK, Dequeue PROVE QueueOK'
<1>1. api_queue \in Seq(Message) /\ evt_queue \in Seq(Message)
  BY TypeParts DEF QueueOK
<1>2. CASE api_queue # <<>> /\ cur' = Head(api_queue) /\ api_queue' = Tail(api_queue)
           /\ evt_queue' = evt_queue
  BY <1>1, <1>2, HeadTailProperties DEF QueueOK
<1>3. CASE evt_queue # <<>> /\ cur' = Head(evt_queue) /\ evt_queue' = Tail(evt_queue)
           /\ api_queue' = api_queue
  BY <1>1, <1>3, HeadTailProperties DEF QueueOK
<1> QED BY <1>2, <1>3, Zenon DEF Dequeue

\* Types: handling a message leaves the queues alone and adds one answer at most.
LEMMA HandledTyped ==
  ASSUME TypeOK, FlowStep
  PROVE  QueueOK' /\ AnswerOK' /\ RestOK'
<1>1. QueueOK /\ AnswerOK /\ RestOK
  BY TypeParts
<1>2. Handled /\ notifier' \in {notifier, "idle"}
  BY DEF FlowStep, Answered, Noted, Dropped, Ignored, Begun, Ended, Answer, Silent, SignalEvtResult
<1>3. QueueOK' /\ RestOK'
  BY <1>1, <1>2 DEF Handled, queueVars, QueueOK, RestOK
<1>4. ASSUME NEW e \in ApiEvt, NEW ok \in BOOLEAN, SignalAPIResult(e, ok) PROVE AnswerOK'
  <2>1. results' = Append(results, [evt |-> e, ok |-> ok])
        /\ call' = [c \in Client |-> [call[c] EXCEPT !.woken = call[c] # Idle]]
    BY <1>4 DEF SignalAPIResult
  <2>2. results \in Seq(Result) /\ call \in [Client -> Caller] /\ [evt |-> e, ok |-> ok] \in Result
    BY <1>1 DEF AnswerOK, Result
  <2>3. results' \in Seq(Result)
    BY <2>1, <2>2, AppendProperties
  <2>4. ASSUME NEW c \in Client PROVE [call[c] EXCEPT !.woken = call[c] # Idle] \in Caller
    <3>1. call[c] \in Caller /\ (call[c] # Idle) \in BOOLEAN
      BY <2>2
    <3> QED BY <3>1, Zenon DEF Caller
  <2>5. call' \in [Client -> Caller]
    BY <2>1, <2>4, Zenon
  <2> QED BY <2>3, <2>5 DEF AnswerOK
<1>5. CASE Answered
  BY <1>3, <1>4, <1>5, Zenon DEF Answered, Answer
<1>6. CASE Ended
  <2>1. "prepare_snapshot" \in ApiEvt
    BY DEF ApiEvt
  <2> QED BY <1>3, <1>4, <1>6, <2>1, Zenon DEF Ended
<1>7. CASE Noted \/ Dropped \/ Ignored \/ Begun
  <2>1. results' = results /\ call' = call
    BY <1>7 DEF Noted, Dropped, Ignored, Begun, Silent, SignalEvtResult
  <2> QED BY <1>1, <1>3, <2>1, Zenon DEF AnswerOK
<1> QED BY <1>3, <1>5, <1>6, <1>7, Zenon DEF FlowStep

\* What the other threads put in the queues: one message nobody waits for, at most.
OwnPosts(A, B) ==
  /\ \/ api_queue' = api_queue
     \/ \E e \in A : api_queue' = Append(api_queue, [evt |-> e, arg |-> NoSetting, from |-> Nobody])
  /\ \/ evt_queue' = evt_queue
     \/ \E e \in B : evt_queue' = Append(evt_queue, [evt |-> e, arg |-> NoSetting, from |-> Nobody])

\* The threads behind the state machine.
Behind ==
  \/ FramesArrive \/ SnapshotDone \/ PrepSnapshotDone
  \/ TakeLiveSnapshot \/ CancelLiveSnapshot \/ VideoFrame \/ DaemonDies

\* They cancel a picture or stop its channel, tell that a snapshot is prepared or
\* that a picture is done, and leave the callers alone.
LEMMA BehindFacts ==
  ASSUME Behind
  PROVE  /\ UNCHANGED <<m_state, params, mPreviewWindow, cur, results, call, calls>>
         /\ OwnPosts({"cancel", "stop_capture"}, {"prep_done", "snapshot_done"})
<1>1. FramesArrive => OwnPosts({"cancel", "stop_capture"}, {"prep_done", "snapshot_done"})
  BY Zenon DEF FramesArrive, PostApi, OwnPosts
<1>2. SnapshotDone \/ PrepSnapshotDone
        => OwnPosts({"cancel", "stop_capture"}, {"prep_done", "snapshot_done"})
  BY Zenon DEF SnapshotDone, PrepSnapshotDone, PostEvt, OwnPosts
<1>3. TakeLiveSnapshot => OwnPosts({"cancel", "stop_capture"}, {"prep_done", "snapshot_done"})
  BY Zenon DEF TakeLiveSnapshot, PostApi, OwnPosts
<1>4. CancelLiveSnapshot \/ VideoFrame \/ DaemonDies
        => OwnPosts({"cancel", "stop_capture"}, {"prep_done", "snapshot_done"})
  BY Zenon DEF CancelLiveSnapshot, VideoFrame, DaemonDies, OwnPosts, queueVars
<1>5. Behind => UNCHANGED <<m_state, params, mPreviewWindow, cur, results, call, calls>>
  BY Zenon DEF Behind, FramesArrive, SnapshotDone, PrepSnapshotDone, TakeLiveSnapshot,
     CancelLiveSnapshot, VideoFrame, DaemonDies, cameraVars, callVars
<1> QED BY <1>1, <1>2, <1>3, <1>4, <1>5, Zenon DEF Behind

\* Types: one of those messages is put in a queue.
LEMMA OwnPostsTyped ==
  ASSUME QueueOK, cur' = cur, OwnPosts({"cancel", "stop_capture"}, {"prep_done", "snapshot_done"})
  PROVE  QueueOK'
<1>1. ASSUME NEW e \in {"cancel", "stop_capture", "prep_done", "snapshot_done"}
      PROVE  [evt |-> e, arg |-> NoSetting, from |-> Nobody] \in Message
  BY MessageFacts DEF ApiEvt, Evt
<1>2. api_queue \in Seq(Message) /\ evt_queue \in Seq(Message)
  BY DEF QueueOK
<1>3. ASSUME NEW q \in Seq(Message), NEW e \in {"cancel", "stop_capture", "prep_done", "snapshot_done"}
      PROVE  Append(q, [evt |-> e, arg |-> NoSetting, from |-> Nobody]) \in Seq(Message)
  BY <1>1, AppendProperties
<1>4. api_queue' \in Seq(Message) /\ evt_queue' \in Seq(Message)
  BY <1>2, <1>3 DEF OwnPosts
<1> QED BY <1>4 DEF QueueOK

\* Types: the threads behind the state machine.
LEMMA BehindTyped ==
  ASSUME TypeOK, Behind
  PROVE  CamOK' /\ QueueOK' /\ AnswerOK' /\ RestOK'
<1>1. CamOK /\ QueueOK /\ AnswerOK /\ RestOK
  BY TypeParts
<1>2. UNCHANGED <<m_state, params, mPreviewWindow, cur, results, call, calls>> /\ QueueOK'
  BY <1>1, BehindFacts, OwnPostsTyped
<1>3. AnswerOK'
  BY <1>1, <1>2 DEF AnswerOK
<1>4. RestOK'
  <2>1. daemon' \in {daemon, FALSE} /\ frame' \in {frame, TRUE} /\ notifier' \in {notifier, "wait"}
    BY DEF Behind, FramesArrive, SnapshotDone, PrepSnapshotDone, TakeLiveSnapshot,
       CancelLiveSnapshot, VideoFrame, DaemonDies, envVars
  <2> QED BY <1>1, <1>2, <2>1 DEF RestOK
<1>5. m_channels' \in Channels
  <2>1. m_channels \in Channels /\ {"snapshot"} \subseteq Chan
    BY <1>1 DEF CamOK, Chan
  <2>2. CASE TakeLiveSnapshot
    <3>1. PICK o \in StartChannel(m_channels, "snapshot", "live") : m_channels' = o.ch
      BY <2>2, Zenon DEF TakeLiveSnapshot
    <3> QED BY <2>1, <3>1, StartFacts
  <2>3. CASE CancelLiveSnapshot
    BY <2>1, <2>3, StopFacts DEF CancelLiveSnapshot
  <2>4. CASE FramesArrive \/ SnapshotDone \/ PrepSnapshotDone \/ VideoFrame \/ DaemonDies
    <3>1. m_channels' = m_channels
      BY <2>4, Zenon DEF FramesArrive, SnapshotDone, PrepSnapshotDone, VideoFrame, DaemonDies, cameraVars
    <3> QED BY <2>1, <3>1
  <2> QED BY <2>2, <2>3, <2>4, Zenon DEF Behind
<1>6. prep' \in {prep, FALSE} /\ live' \in {live, "none"}
  BY DEF Behind, FramesArrive, SnapshotDone, PrepSnapshotDone, TakeLiveSnapshot,
     CancelLiveSnapshot, VideoFrame, DaemonDies, cameraVars
<1>7. shot' \in {shot, "jpeg", "none", "snapshot"}
  BY DEF Behind, FramesArrive, SnapshotDone, PrepSnapshotDone, TakeLiveSnapshot,
     CancelLiveSnapshot, VideoFrame, DaemonDies
<1>8. CamOK'
  BY <1>1, <1>2, <1>5, <1>6, <1>7 DEF CamOK, Chan
<1> QED BY <1>2, <1>3, <1>4, <1>8

\* The state machine, its callers and the hardware keep their types.
THEOREM TypeCorrect == Spec => []TypeOK
<1>1. Init => TypeOK
  <2> SUFFICES ASSUME Init PROVE TypeOK
    OBVIOUS
  <2>1. MsgsOK
    BY Zenon DEF Init, MsgsOK
  <2>2. CamOK
    <3>1. m_channels \in Channels /\ m_state \in State
      BY DEF Init, Channels, State
    <3>2. params \in Params
      BY DEF Init, Params
    <3> QED BY <3>1, <3>2 DEF Init, CamOK
  <2>3. QueueOK
    BY DEF Init, QueueOK
  <2>4. AnswerOK
    BY MessageFacts DEF Init, AnswerOK
  <2>5. RestOK
    <3>1. daemon = TRUE /\ frame = FALSE /\ notifier = "idle" /\ calls = 0
      BY Zenon DEF Init
    <3>2. calls \in 0 .. MaxCalls
      BY <3>1, ConstFacts
    <3> QED BY <3>1, <3>2, Zenon DEF RestOK
  <2> QED BY <2>1, <2>2, <2>3, <2>4, <2>5, TypeParts
<1>2. TypeOK /\ [Next]_vars => TypeOK'
  <2> SUFFICES ASSUME TypeOK, [Next]_vars PROVE CamOK' /\ QueueOK' /\ AnswerOK' /\ RestOK'
    <3>1. TypeOK /\ [Next]_vars => MsgsOK'
      BY StoppedStep, ReadyStep, PreviewingStep, PictureStep, RecordingStep, PreviewPicStep,
         OtherStep, StepTyped, TypeParts, Zenon DEF Next, Handle, MsgStep
    <3>2. TypeOK' <=> CamOK' /\ MsgsOK' /\ QueueOK' /\ AnswerOK' /\ RestOK'
      BY TypeParts, PTL
    <3> QED BY <3>1, <3>2, Zenon
  <2>1. CamOK /\ QueueOK /\ AnswerOK /\ RestOK
    BY TypeParts
  <2>2. CASE \E c \in Client : BeginCall(c) \/ WaitAgain(c) \/ TakeAnswer(c)
    BY <2>2, CallerTyped
  <2>3. CASE Dequeue
    <3>1. QueueOK' /\ UNCHANGED <<m_state, cameraVars, shot, results, call, calls, envVars>>
      BY <2>3, DequeueTyped, Zenon DEF Dequeue, callVars
    <3> QED BY <2>1, <3>1, CamSame DEF AnswerOK, RestOK, envVars
  <2>4. CASE Handle
    BY <2>4, HandleFlow, HandledTyped
  <2>5. CASE Behind
    BY <2>5, BehindTyped
  <2>6. CASE UNCHANGED vars
    BY <2>1, <2>6, CamSame DEF vars, cameraVars, queueVars, callVars, envVars, QueueOK, AnswerOK, RestOK
  <2> QED BY <2>2, <2>3, <2>4, <2>5, <2>6, Zenon DEF Next, Behind
<1> QED BY <1>1, <1>2, PTL DEF Spec

-----------------------------------------------------------------------------
(* The picture in flight.                                                      *)

\* The states that take a picture.
Taking == {"PIC_TAKING", "PREVIEW_PIC", "VIDEO_PIC"}

\* A handler keeps the picture or loses it, in the state it is in or on the way
\* from a state that takes none; it enters a state that takes one; it ends the
\* picture; or it gives the live snapshot thread its job.
Calm == live' = live /\ shot' \in {shot, "none"}
PictStep ==
  \/ Calm /\ (m_state' = m_state \/ m_state \notin Taking)
  \/ live' = live /\ m_state # "VIDEO_PIC" /\ (m_state' \in Taking \/ shot' = "none")
  \/ live' = "take" /\ m_state' = "VIDEO_PIC"
  \/ live' = "cancel"

\* The inductive invariant: a live snapshot is started in its state only.
PictInv == PictureHasState /\ (live = "take" => m_state = "VIDEO_PIC")

\* None of the things a handler does forgets a picture.
LEMMA PictKept == PictInv /\ PictStep => PictInv'
  BY DEF PictInv, PictStep, Calm, PictureHasState, Taking

\* The steps handlers are made of.
LEMMA CalmFacts ==
  /\ Remain => Calm /\ m_state' = m_state
  /\ UNCHANGED <<m_state, cameraVars, shot>> => Calm /\ m_state' = m_state
  /\ \A s, c, p : Settle(s, c, p) => Calm /\ m_state' = s
  /\ \A c : Kept(c) \in {shot, "none"}
<1>1. \A c : Kept(c) \in {shot, "none"}
  BY KeptFacts
<1>2. Remain \/ UNCHANGED <<m_state, cameraVars, shot>> => Calm /\ m_state' = m_state
  BY DEF Remain, Calm, cameraVars
<1>3. \A s, c, p : Settle(s, c, p) => Calm /\ m_state' = s
  BY <1>1 DEF Settle, Become, Calm
<1> QED BY <1>1, <1>2, <1>3

\* The handlers that most states share.
LEMMA SharedCalm ==
  SetParams \/ SetParamsRecording \/ CommitParams \/ DropRestart \/ NothingToDo \/ Ignore
    \/ CloseFrame \/ MsgType => Calm /\ m_state' = m_state
  BY CalmFacts, Zenon DEF SetParams, SetParamsRecording, CommitParams, DropRestart, NothingToDo,
     Ignore, CloseFrame, MsgType

\* Without preview no picture is begun.
LEMMA StoppedPict == StoppedState \/ ReadyState \/ PrepareSnapshotState => PictStep
<1>1. StoppedReplies \/ StoppedPreview \/ ReadyReplies \/ ReadyRestart => Calm
  BY CalmFacts, Zenon DEF StoppedReplies, StoppedPreview, ReadyReplies, ReadyRestart, Reply
<1>2. SetPreviewWindow => Calm
  BY Zenon DEF SetPreviewWindow, Calm
<1>3. ReadyPreview => Calm
  <2>1. ASSUME NEW o, shot' = Kept(o.ch), UNCHANGED <<params, prep, live>> PROVE Calm
    BY <2>1, CalmFacts DEF Calm
  <2> QED BY <1>2, <2>1, CalmFacts, Zenon DEF ReadyPreview, Reply
<1>4. PrepareSnapshotState => Calm
  BY CalmFacts, SharedCalm, Zenon DEF PrepareSnapshotState, Reply
<1>5. StoppedState \/ ReadyState \/ PrepareSnapshotState => m_state \notin Taking
  BY DEF StoppedState, ReadyState, PrepareSnapshotState, Taking
<1> QED BY <1>1, <1>2, <1>3, <1>4, <1>5, SharedCalm, Zenon DEF StoppedState, ReadyState, PictStep

\* Preview goes on to a picture, or stays without one.
LEMMA PreviewingPict == PreviewingState => PictStep
<1>1. PreviewingReplies \/ PreviewingMsgType \/ PreviewingRestart \/ PreviewingPreview
        \/ PreviewingRecord \/ PreviewingPreTake => Calm
  BY CalmFacts, Zenon DEF PreviewingReplies, PreviewingMsgType, PreviewingRestart,
     PreviewingPreview, PreviewingRecord, PreviewingPreTake, Reply
<1>2. PreviewingPrepareSnapshot => Calm
  <2>1. UNCHANGED <<m_channels, params, mPreviewWindow, live, shot>> => Calm
    BY DEF Calm
  <2> QED BY <2>1, CalmFacts, Zenon DEF PreviewingPrepareSnapshot, Reply
<1>3. m_state = "PREVIEWING" /\ PreviewingTake => PictStep
  <2> SUFFICES ASSUME m_state = "PREVIEWING", NEW o, TakeZsl(o) \/ TakeCapture(o) PROVE PictStep
    BY Zenon DEF PreviewingTake
  <2>1. m_state \notin Taking /\ m_state # "VIDEO_PIC"
    BY DEF Taking
  <2>2. CASE TakeZsl(o)
    <3>1. PICK t : /\ m_state' = IF t.ok THEN "PREVIEW_PIC" ELSE "PREVIEWING"
                   /\ live' = live
                   /\ shot' = IF t.ok /\ t.ch["zsl"] = "on" THEN "zsl" ELSE Kept(t.ch)
      BY <2>2, Zenon DEF TakeZsl, Become
    <3>2. CASE t.ok
      BY <2>1, <3>1, <3>2 DEF PictStep, Taking
    <3>3. CASE ~t.ok
      BY <2>1, <3>1, <3>3, CalmFacts DEF PictStep, Calm
    <3> QED BY <3>2, <3>3
  <2>3. CASE TakeCapture(o)
    <3>1. PICK t : /\ live' = live
                   /\ IF t.ok THEN m_state' = "PIC_TAKING" ELSE \E c : shot' = Kept(c)
      BY <2>3, Zenon DEF TakeCapture, Become
    <3>2. CASE t.ok
      BY <2>1, <3>1, <3>2 DEF PictStep, Taking
    <3>3. CASE ~t.ok
      BY <2>1, <3>1, <3>3, CalmFacts DEF PictStep, Calm
    <3> QED BY <3>2, <3>3
  <2> QED BY <2>2, <2>3
<1>4. m_state = "PREVIEWING" => m_state \notin Taking
  BY DEF Taking
<1> QED BY <1>1, <1>2, <1>3, <1>4, SharedCalm, Zenon DEF PreviewingState, PictStep

\* A capture ends with its channel.
LEMMA PicTakingPict == PicTakingState => PictStep
<1>1. PicTakingReplies \/ StopCaptureChannel \/ (On({"prep_done"}) /\ Remain /\ Silent)
        => Calm /\ m_state' = m_state
  BY CalmFacts, Zenon DEF PicTakingReplies, StopCaptureChannel, Reply
<1>2. PicTakingEnd => shot' = "none" /\ live' = live
  BY Zenon DEF PicTakingEnd, EndCapture
<1>3. m_state = "PIC_TAKING" => m_state # "VIDEO_PIC"
  OBVIOUS
<1> QED BY <1>1, <1>2, <1>3, SharedCalm, Zenon DEF PicTakingState, PictStep

\* A live snapshot is begun and cancelled by its thread.
LEMMA RecordingPict == "thread" \notin Failing /\ (RecordingState \/ VideoPicState) => PictStep
<1> SUFFICES ASSUME "thread" \notin Failing, RecordingState \/ VideoPicState PROVE PictStep
  OBVIOUS
<1>1. RecordingReplies \/ RecordingStop \/ VideoPicReplies => Calm
  BY CalmFacts, Zenon DEF RecordingReplies, RecordingStop, VideoPicReplies, Reply
<1>2. VideoPicReplies => m_state' = m_state
  BY CalmFacts, Zenon DEF VideoPicReplies, Reply
<1>3. ASSUME RecordingTake PROVE PictStep
  <2>1. PICK ok \in BOOLEAN :
          StartLive("take", ok) /\ m_state' = IF ok THEN "VIDEO_PIC" ELSE "RECORDING"
    BY <1>3, Zenon DEF RecordingTake, Become
  <2>2. ok /\ live' = "take"
    BY <2>1, LiveFacts
  <2> QED BY <2>1, <2>2 DEF PictStep
<1>4. ASSUME VideoPicEnd PROVE PictStep
  <2>1. PICK ok \in BOOLEAN : StartLive("cancel", ok)
    BY <1>4, Zenon DEF VideoPicEnd
  <2>2. live' = "cancel"
    BY <2>1, LiveFacts
  <2> QED BY <2>2 DEF PictStep
<1>5. RecordingState => m_state \notin Taking
  BY DEF RecordingState, Taking
<1> QED BY <1>1, <1>2, <1>3, <1>4, <1>5, SharedCalm, Zenon DEF RecordingState, VideoPicState, PictStep

\* A ZSL picture ends with its state, or is left to the live snapshot thread.
LEMMA PreviewPicPict == "thread" \notin Failing /\ PreviewPicState => PictStep
<1> SUFFICES ASSUME "thread" \notin Failing, PreviewPicState PROVE PictStep
  OBVIOUS
<1>1. m_state = "PREVIEW_PIC" /\ m_state # "VIDEO_PIC" /\ m_state \in Taking
  BY DEF PreviewPicState, Taking
<1>2. PreviewPicReplies => Calm /\ m_state' = m_state
  BY CalmFacts, Zenon DEF PreviewPicReplies, Reply
<1>3. ASSUME PreviewPicRestart \/ PreviewPicRecord PROVE PictStep
  <2>1. ASSUME NEW b, NEW s \in {"VIDEO_PIC", "PIC_TAKING"}, NEW c, NEW p,
               Settle(IF b THEN m_state ELSE s, c, p) \/ Settle(IF b THEN s ELSE m_state, c, p)
        PROVE  live' = live /\ m_state' \in Taking
    <3>1. m_state' \in {m_state, s} /\ live' = live
      BY <2>1, CalmFacts DEF Calm
    <3> QED BY <1>1, <3>1 DEF Taking
  <2>2. ASSUME NEW c, NEW p, Settle(m_state, c, p) PROVE live' = live /\ m_state' \in Taking
    BY <1>1, <2>2, CalmFacts DEF Calm
  <2>3. PreviewPicRestart => live' = live /\ m_state' \in Taking
    BY <2>1, <2>2, Zenon DEF PreviewPicRestart
  <2>4. Reply(FALSE) => live' = live /\ m_state' \in Taking
    BY <1>1, CalmFacts, Zenon DEF Reply, Calm
  <2>5. PreviewPicRecord => live' = live /\ m_state' \in Taking
    BY <2>1, <2>2, <2>4, Zenon DEF PreviewPicRecord
  <2> QED BY <1>1, <1>3, <2>3, <2>5, Zenon DEF PictStep
<1>4. ASSUME PreviewPicEnd PROVE PictStep
  <2>1. PICK ok \in BOOLEAN : \/ shot' = "none" /\ live' = live
                              \/ StartLive("cancel", ok)
    BY <1>4, Zenon DEF PreviewPicEnd
  <2> QED BY <1>1, <2>1, LiveFacts DEF PictStep
<1> QED BY <1>2, <1>3, <1>4, SharedCalm, Zenon DEF PreviewPicState, PictStep

\* No picture is in flight that no state waits for, as long as the thread that
\* cancels a live snapshot can be started: for all callers, calls and settings,
\* and every failure of the hardware.
THEOREM PictureWaitedFor == "thread" \notin Failing => (Spec => []PictureHasState)
<1> SUFFICES ASSUME "thread" \notin Failing PROVE Spec => []PictureHasState
  OBVIOUS
<1>1. Init => PictInv
  BY DEF Init, PictInv, PictureHasState
<1>2. PictInv /\ [Next]_vars => PictInv'
  <2> SUFFICES ASSUME PictInv, [Next]_vars PROVE PictInv'
    OBVIOUS
  <2>1. CASE Handle
    BY <2>1, StoppedPict, PreviewingPict, PicTakingPict, RecordingPict, PreviewPicPict, PictKept,
       Zenon DEF Handle
  <2>2. CASE \/ \E c \in Client : BeginCall(c) \/ WaitAgain(c) \/ TakeAnswer(c)
             \/ Dequeue \/ SnapshotDone \/ PrepSnapshotDone \/ VideoFrame \/ DaemonDies
             \/ UNCHANGED vars
    <3>1. m_state' = m_state /\ live' = live /\ (shot' = shot \/ shot' = "none")
      BY <2>2, Zenon DEF BeginCall, WaitAgain, TakeAnswer, Dequeue, SnapshotDone, PrepSnapshotDone,
         VideoFrame, DaemonDies, vars, cameraVars
    <3> QED BY <3>1 DEF PictInv, PictureHasState
  <2>3. CASE FramesArrive
    <3>1. shot # "none" /\ UNCHANGED <<m_state, live>>
      BY <2>3 DEF FramesArrive, Chan, cameraVars
    <3> QED BY <3>1 DEF PictInv, PictureHasState
  <2>4. CASE TakeLiveSnapshot
    <3>1. live = "take" /\ live' = "none" /\ m_state' = m_state
      BY <2>4, Zenon DEF TakeLiveSnapshot
    <3> QED BY <3>1 DEF PictInv, PictureHasState
  <2>5. CASE CancelLiveSnapshot
    <3>1. live' = "none" /\ shot' = "none"
      BY <2>5, Zenon DEF CancelLiveSnapshot
    <3> QED BY <3>1 DEF PictInv, PictureHasState
  <2> QED BY <2>1, <2>2, <2>3, <2>4, <2>5, Zenon DEF Next
<1> QED BY <1>1, <1>2, PTL DEF Spec, PictInv

-----------------------------------------------------------------------------
(* Counting those who wait and what will answer them.                          *)

Same(a, b) == IF a = b THEN 1 ELSE 0
Messages(e) == {m \in Message : m.evt = e}
Answers(e) == {r \in Result : r.evt = e}
Having(C, f, e) == {c \in C : f[c].evt = e}

\* The answer of prepare_snapshot is held back while the hardware prepares.
Held(e) == IF e = "prepare_snapshot" /\ m_state = "PREPARE_SNAPSHOT" THEN 1 ELSE 0

\* The threads that wait for an answer of type e, and the answers there or to come.
Waiting(e) == Cardinality(Having(Client, call, e))
Due(e) ==
  Tally(api_queue, Messages(e)) + Tally(results, Answers(e)) + Same(cur.evt, e) + Held(e)

\* One member of a set takes up another event.
LEMMA HavingMove ==
  ASSUME NEW C, IsFiniteSet(C), NEW f, NEW g, NEW c \in C,
         \A d \in C : d # c => g[d].evt = f[d].evt, NEW e
  PROVE  /\ Cardinality(Having(C, f, e)) \in Nat /\ Cardinality(Having(C, g, e)) \in Nat
         /\ Cardinality(Having(C, g, e)) + Same(f[c].evt, e)
              = Cardinality(Having(C, f, e)) + Same(g[c].evt, e)
<1> DEFINE R == {d \in C : d # c /\ f[d].evt = e}
<1>1. R \in SUBSET C /\ c \notin R
  OBVIOUS
<1>2. Having(C, f, e) = IF f[c].evt = e THEN R \cup {c} ELSE R
  BY DEF Having
<1>3. Having(C, g, e) = IF g[c].evt = e THEN R \cup {c} ELSE R
  BY DEF Having
<1> HIDE DEF R
<1>4. IsFiniteSet(R) /\ Cardinality(R) \in Nat
  BY <1>1, FS_Subset, FS_CardinalityType
<1>5. Cardinality(R \cup {c}) = Cardinality(R) + 1
  BY <1>1, <1>4, FS_AddElement
<1> QED BY <1>2, <1>3, <1>4, <1>5 DEF Same

\* Nobody changes the event.
LEMMA HavingSame ==
  ASSUME NEW C, NEW f, NEW g, \A d \in C : g[d].evt = f[d].evt, NEW e
  PROVE  Having(C, g, e) = Having(C, f, e)
  BY DEF Having

\* The counts are numbers.
LEMMA CountType ==
  ASSUME QueueOK, AnswerOK, NEW e
  PROVE  /\ Waiting(e) \in Nat /\ Due(e) \in Nat
         /\ Tally(api_queue, Messages(e)) \in Nat /\ Tally(results, Answers(e)) \in Nat
<1>1. api_queue \in Seq(Message) /\ results \in Seq(Result)
  BY DEF QueueOK, AnswerOK
<1>2. Tally(api_queue, Messages(e)) \in Nat /\ Tally(results, Answers(e)) \in Nat
  BY <1>1, TallyType
<1>3. Waiting(e) \in Nat
  <2>1. Having(Client, call, e) \in SUBSET Client
    BY DEF Having
  <2> QED BY <2>1, ConstFacts, FS_Subset, FS_CardinalityType DEF Waiting
<1> QED BY <1>2, <1>3 DEF Due, Same, Held

\* A message more, counted.
LEMMA MessageCount ==
  ASSUME NEW q \in Seq(Message), NEW m \in Message, NEW e
  PROVE  Tally(Append(q, m), Messages(e)) = Tally(q, Messages(e)) + Same(m.evt, e)
<1>1. m \in Messages(e) <=> m.evt = e
  BY DEF Messages
<1> QED BY <1>1, AppendTally DEF Same

\* An answer more, counted.
LEMMA AnswerCount ==
  ASSUME NEW q \in Seq(Result), NEW r \in Result, NEW e
  PROVE  Tally(Append(q, r), Answers(e)) = Tally(q, Answers(e)) + Same(r.evt, e)
<1>1. r \in Answers(e) <=> r.evt = e
  BY DEF Answers
<1> QED BY <1>1, AppendTally DEF Same

\* An answer less, counted.
LEMMA TakenCount ==
  ASSUME NEW q \in Seq(Result), NEW i \in 1 .. Len(q), NEW e
  PROVE  Tally(q, Answers(e)) = Tally(DropAt(q, i), Answers(e)) + Same(q[i].evt, e)
<1>1. q[i] \in Result /\ Tally(q, Answers(e))
        = Tally(DropAt(q, i), Answers(e)) + IF q[i] \in Answers(e) THEN 1 ELSE 0
  BY DropAtFacts
<1>2. q[i] \in Answers(e) <=> q[i].evt = e
  BY <1>1 DEF Answers
<1> QED BY <1>1, <1>2 DEF Same

\* A message taken from the front, counted.
LEMMA HeadCount ==
  ASSUME NEW q \in Seq(Message), q # <<>>, NEW e
  PROVE  /\ Head(q) \in Message /\ Tail(q) \in Seq(Message)
         /\ Tally(q, Messages(e)) = Tally(Tail(q), Messages(e)) + Same(Head(q).evt, e)
<1>1. Head(q) \in Message /\ Tail(q) \in Seq(Message)
      /\ Tally(q, Messages(e)) = Tally(Tail(q), Messages(e)) + IF Head(q) \in Messages(e) THEN 1 ELSE 0
  BY TailTally
<1>2. Head(q) \in Messages(e) <=> Head(q).evt = e
  BY <1>1 DEF Messages
<1> QED BY <1>1, <1>2 DEF Same

\* One caller takes up another event.
LEMMA CallMove ==
  ASSUME NEW c \in Client, \A d \in Client : d # c => call'[d].evt = call[d].evt, NEW e
  PROVE  Waiting(e)' + Same(call[c].evt, e) = Waiting(e) + Same(call'[c].evt, e)
<1> DEFINE f == call
           g == call'
<1>1. IsFiniteSet(Client) /\ \A d \in Client : d # c => g[d].evt = f[d].evt
  BY ConstFacts
<1> HIDE DEF f, g
<1>2. Cardinality(Having(Client, g, e)) + Same(f[c].evt, e)
        = Cardinality(Having(Client, f, e)) + Same(g[c].evt, e)
  BY <1>1, HavingMove
<1> QED BY <1>2 DEF Waiting, f, g

\* A caller that submits a message waits for one answer more, and one more is due.
LEMMA SentCount ==
  ASSUME QueueOK, AnswerOK, NEW c \in Client, NEW k \in ApiEvt, NEW s \in Setting,
         NEW p \in Seq(ApiEvt), Sent(c, k, s, p), NEW e
  PROVE  /\ Waiting(e)' + Same(call[c].evt, e) = Waiting(e) + Same(k, e)
         /\ Tally(api_queue', Messages(e)) = Tally(api_queue, Messages(e)) + Same(k, e)
<1> DEFINE m == [evt |-> k, arg |-> s, from |-> c]
<1>1. /\ m \in Message /\ api_queue' = Append(api_queue, m) /\ m.evt = k
      /\ call'[c].evt = k /\ \A d \in Client : d # c => call'[d] = call[d]
  BY SentFacts DEF Sent
<1> HIDE DEF m
<1>2. Tally(api_queue', Messages(e)) = Tally(api_queue, Messages(e)) + Same(k, e)
  BY <1>1, MessageCount DEF QueueOK
<1>3. \A d \in Client : d # c => call'[d].evt = call[d].evt
  BY <1>1
<1>4. Waiting(e)' + Same(call[c].evt, e) = Waiting(e) + Same(call'[c].evt, e)
  BY <1>3, CallMove
<1> QED BY <1>1, <1>2, <1>4

\* Two sums.
LEMMA Balance ==
  ASSUME NEW d \in Nat, NEW d1 \in Nat, NEW w \in Nat, NEW w1 \in Nat, NEW o \in Nat, NEW n \in Nat,
         d1 + o = d + n, w1 + o = w + n
  PROVE  d1 + w = d + w1
  OBVIOUS

\* What is due and who waits for it change alike.
Even(e) == Due(e)' + Waiting(e) = Due(e) + Waiting(e)'

\* Whatever a caller does.
LEMMA CallerEven ==
  ASSUME TypeOK, NEW c \in Client, BeginCall(c) \/ WaitAgain(c) \/ TakeAnswer(c), NEW e \in ApiEvt
  PROVE  Even(e)
<1>1. QueueOK /\ AnswerOK /\ QueueOK' /\ AnswerOK' /\ call \in [Client -> Caller] /\ results \in Seq(Result)
  BY CallerTyped, TypeParts DEF AnswerOK
<1>2. /\ Waiting(e) \in Nat /\ Tally(api_queue, Messages(e)) \in Nat /\ Tally(results, Answers(e)) \in Nat
      /\ Waiting(e)' \in Nat /\ Tally(api_queue', Messages(e)) \in Nat /\ Tally(results', Answers(e)) \in Nat
  <2>1. Waiting(e) \in Nat /\ Tally(api_queue, Messages(e)) \in Nat /\ Tally(results, Answers(e)) \in Nat
    BY <1>1, CountType
  <2>2. Waiting(e)' \in Nat
    <3>1. Having(Client, call', e) \in SUBSET Client
      BY DEF Having
    <3> QED BY <3>1, ConstFacts, FS_Subset, FS_CardinalityType DEF Waiting
  <2>3. Tally(api_queue', Messages(e)) \in Nat /\ Tally(results', Answers(e)) \in Nat
    BY <1>1, TallyType DEF QueueOK, AnswerOK
  <2> QED BY <2>1, <2>2, <2>3
<1>3. cur' = cur /\ m_state' = m_state
  BY Zenon DEF BeginCall, WaitAgain, TakeAnswer
<1> DEFINE x == Same(cur.evt, e) + Held(e)
<1>4. /\ Due(e) = Tally(api_queue, Messages(e)) + Tally(results, Answers(e)) + x
      /\ Due(e)' = Tally(api_queue', Messages(e)) + Tally(results', Answers(e)) + x
      /\ x \in Nat
  <2>1. x \in Nat /\ Same(cur.evt, e) \in Nat /\ Held(e) \in Nat /\ Held(e)' = Held(e)
    BY <1>3 DEF Same, Held
  <2>2. Due(e) = Tally(api_queue, Messages(e)) + Tally(results, Answers(e)) + x
    BY <1>2, <2>1 DEF Due
  <2>3. Due(e)' = Tally(api_queue', Messages(e)) + Tally(results', Answers(e)) + x
    BY <1>2, <1>3, <2>1 DEF Due
  <2> QED BY <2>1, <2>2, <2>3
<1> HIDE DEF x
<1>5. \A a : Same(a, e) \in Nat
  BY DEF Same
<1>6. "none" \notin ApiEvt /\ Idle.evt = "none" /\ NoSetting \in Setting
  BY MessageFacts
<1>7. CASE BeginCall(c)
  <2>1. PICK k \in ApiEvt, s \in Setting : Sent(c, k, s, Then(k))
    BY <1>7, BeginFacts
  <2>2. results' = results /\ call[c] = Idle
    BY <1>7, Zenon DEF BeginCall
  <2>3. call[c].evt # e
    BY <1>6, <2>2
  <2>4. /\ Waiting(e)' + Same(call[c].evt, e) = Waiting(e) + Same(k, e)
        /\ Tally(api_queue', Messages(e)) = Tally(api_queue, Messages(e)) + Same(k, e)
    BY <1>1, <2>1, ThenFacts, SentCount
  <2> QED BY <1>2, <1>4, <1>5, <2>2, <2>3, <2>4 DEF Even, Same
<1>8. CASE WaitAgain(c)
  <2>1. api_queue' = api_queue /\ results' = results /\ call' = [call EXCEPT ![c].woken = FALSE]
    BY <1>8, Zenon DEF WaitAgain, queueVars
  <2>2. \A d \in Client : call'[d].evt = call[d].evt
    BY <1>1, <2>1 DEF Caller
  <2>3. Waiting(e)' = Waiting(e)
    BY <2>2, HavingSame DEF Waiting
  <2> QED BY <1>2, <1>4, <2>1, <2>3 DEF Even
<1>9. CASE TakeAnswer(c)
  <2> DEFINE more == Remaining(call[c].plan)
  <2>1. PICK i \in 1 .. Len(results) :
          /\ results[i].evt = call[c].evt /\ results' = DropAt(results, i) /\ more \in Seq(ApiEvt)
          /\ \/ more # <<>> /\ Sent(c, Head(more), NoSetting, Tail(more))
             \/ call' = [call EXCEPT ![c] = Idle] /\ UNCHANGED api_queue
    BY <1>1, <1>9, AnswerFacts, Zenon
  <2> HIDE DEF more
  <2>2. Tally(results, Answers(e)) = Tally(results', Answers(e)) + Same(call[c].evt, e)
    BY <1>1, <2>1, TakenCount
  <2>3. CASE more # <<>> /\ Sent(c, Head(more), NoSetting, Tail(more))
    <3>1. Head(more) \in ApiEvt /\ Tail(more) \in Seq(ApiEvt)
      BY <2>1, <2>3
    <3>2. PICK k \in ApiEvt :
            /\ Waiting(e)' + Same(call[c].evt, e) = Waiting(e) + Same(k, e)
            /\ Tally(api_queue', Messages(e)) = Tally(api_queue, Messages(e)) + Same(k, e)
      BY <1>1, <1>6, <2>3, <3>1, SentCount, Zenon
    <3> DEFINE n == Same(k, e)
               o == Same(call[c].evt, e)
    <3>3. /\ n \in Nat /\ o \in Nat /\ Waiting(e)' + o = Waiting(e) + n
          /\ Tally(api_queue', Messages(e)) = Tally(api_queue, Messages(e)) + n
          /\ Tally(results, Answers(e)) = Tally(results', Answers(e)) + o
      BY <1>5, <2>2, <3>2, Zenon
    <3> HIDE DEF n, o
    <3>4. Due(e)' + o = Due(e) + n /\ Due(e) \in Nat /\ Due(e)' \in Nat
      <4> DEFINE a  == Tally(api_queue, Messages(e))
                 a1 == Tally(api_queue', Messages(e))
                 r  == Tally(results, Answers(e))
                 r1 == Tally(results', Answers(e))
      <4>1. /\ a \in Nat /\ a1 \in Nat /\ r \in Nat /\ r1 \in Nat /\ a1 = a + n /\ r = r1 + o
            /\ Due(e) = a + r + x /\ Due(e)' = a1 + r1 + x
        BY <1>2, <1>4, <3>3, Zenon
      <4> HIDE DEF a, a1, r, r1
      <4> QED BY <1>4, <3>3, <4>1
    <3>5. Due(e)' + Waiting(e) = Due(e) + Waiting(e)'
      <4> DEFINE d  == Due(e)
                 d1 == Due(e)'
                 w  == Waiting(e)
                 w1 == Waiting(e)'
      <4>1. /\ d \in Nat /\ d1 \in Nat /\ w \in Nat /\ w1 \in Nat
            /\ d1 + o = d + n /\ w1 + o = w + n
        BY <1>2, <3>3, <3>4, Zenon
      <4> HIDE DEF d, d1, w, w1
      <4>2. d1 + w = d + w1
        BY <3>3, <4>1, Balance
      <4> QED BY <4>2, Zenon DEF d, d1, w, w1
    <3> QED BY <3>5, Zenon DEF Even
  <2>4. CASE call' = [call EXCEPT ![c] = Idle] /\ UNCHANGED api_queue
    <3>1. call'[c].evt = "none" /\ \A d \in Client : d # c => call'[d].evt = call[d].evt
      BY <1>1, <1>6, <2>4
    <3>2. Waiting(e)' + Same(call[c].evt, e) = Waiting(e) + Same(call'[c].evt, e)
      BY <3>1, CallMove
    <3>3. Same(call'[c].evt, e) = 0 /\ api_queue' = api_queue
      BY <1>6, <2>4, <3>1 DEF Same
    <3>4. Waiting(e)' + Same(call[c].evt, e) = Waiting(e)
      BY <1>2, <3>2, <3>3
    <3>5. Due(e)' + Same(call[c].evt, e) = Due(e) /\ Due(e) \in Nat /\ Due(e)' \in Nat
             /\ Same(call[c].evt, e) \in Nat
      BY <1>2, <1>4, <1>5, <2>2, <3>3
    <3> QED BY <1>2, <3>4, <3>5 DEF Even
  <2> QED BY <2>1, <2>3, <2>4
<1> QED BY <1>7, <1>8, <1>9

\* Whatever message is taken from a queue.
ApiMsg ==
  {m \in Message : /\ m.evt \in ApiEvt
                   /\ m.evt \in {"set_window", "enable", "disable", "set_params", "release_frame"}
                        => m.from \in Client /\ m.evt \in Calls[m.from]}
EvtMsg == {m \in Message : m.evt \in Evt}

\* The queues: calls in one, events in the other, and an argument is sent by the
\* caller itself.
KindInv ==
  /\ api_queue \in Seq(ApiMsg) /\ evt_queue \in Seq(EvtMsg)
  /\ cur \in ApiMsg \cup EvtMsg \cup {NoMessage}

\* The callers: each is in a call it makes, and what follows is the rest of it.
CallInv ==
  \A c \in Client :
    /\ call[c].plan = Then(call[c].evt)
    /\ call[c].evt # "none" => \E k \in Calls[c] : Part(k, call[c].evt)

\* The message that follows one, as the parameters are now.
Follows(e, h) ==
  \/ e = "set_params" /\ params.needRestart /\ h = "params_stop"
  \/ e = "set_params" /\ ~params.needRestart /\ h = "params_commit"
  \/ e = "params_stop" /\ h = "params_commit"
  \/ e = "params_commit" /\ params.needRestart /\ h = "params_restart"
  \/ e = "pre_start" /\ h = "start_recording"
  \/ e = "prepare_snapshot" /\ h = "pre_take"
  \/ e = "pre_take" /\ h = "take"

\* The messages that follow, for each event.
LEMMA ThenValues ==
  /\ Then("set_params") = <<"params_stop", "params_commit", "params_restart">>
  /\ Then("params_stop") = <<"params_commit", "params_restart">>
  /\ Then("params_commit") = <<"params_restart">>
  /\ Then("pre_start") = <<"start_recording">>
  /\ Then("prepare_snapshot") = <<"pre_take", "take">>
  /\ Then("pre_take") = <<"take">>
  /\ Then("params_restart") = <<>> /\ Then("start_recording") = <<>> /\ Then("take") = <<>>
<1>1. Then("set_params") = <<"params_stop", "params_commit", "params_restart">>
  BY DEF Then
<1>2. Then("params_stop") = <<"params_commit", "params_restart">>
  BY DEF Then
<1>3. Then("params_commit") = <<"params_restart">>
  BY DEF Then
<1>4. Then("pre_start") = <<"start_recording">>
  BY DEF Then
<1>5. Then("prepare_snapshot") = <<"pre_take", "take">>
  BY DEF Then
<1>6. Then("pre_take") = <<"take">>
  BY DEF Then
<1>7. Then("params_restart") = <<>> /\ Then("start_recording") = <<>> /\ Then("take") = <<>>
  BY DEF Then
<1> QED BY <1>1, <1>2, <1>3, <1>4, <1>5, <1>6, <1>7, Zenon

\* What remains of a plan begins with the message that follows.
LEMMA MoreFacts ==
  ASSUME NEW e, Remaining(Then(e)) # <<>>
  PROVE  /\ Follows(e, Head(Remaining(Then(e))))
         /\ Tail(Remaining(Then(e))) = Then(Head(Remaining(Then(e))))
<1>1. CASE e = "set_params"
  <2>1. /\ Head(Then(e)) = "params_stop" /\ Then(e) # <<>>
        /\ Tail(Then(e)) = <<"params_commit", "params_restart">>
    <3>1. Then(e) = <<"params_stop", "params_commit", "params_restart">>
      BY <1>1, ThenValues
    <3> QED BY <3>1
  <2>2. Head(<<"params_commit", "params_restart">>) = "params_commit"
        /\ Tail(<<"params_commit", "params_restart">>) = <<"params_restart">>
    OBVIOUS
  <2>3. \/ params.needRestart /\ Remaining(Then(e)) = Then(e)
        \/ ~params.needRestart /\ Remaining(Then(e)) = Tail(Then(e))
    BY <2>1 DEF Remaining
  <2> QED BY <1>1, <2>1, <2>2, <2>3, ThenValues, Zenon DEF Follows
<1>2. CASE e = "params_stop"
  <2>1. Remaining(Then(e)) = <<"params_commit", "params_restart">>
    BY <1>2, ThenValues DEF Remaining
  <2>2. Head(<<"params_commit", "params_restart">>) = "params_commit" /\ Tail(<<"params_commit", "params_restart">>) = <<"params_restart">>
    OBVIOUS
  <2> QED BY <1>2, <2>1, <2>2, ThenValues, Zenon DEF Follows
<1>3. CASE e = "params_commit"
  <2>1. Then(e) = <<"params_restart">>
    BY <1>3, ThenValues
  <2>2. params.needRestart /\ Remaining(Then(e)) = <<"params_restart">>
    BY <2>1 DEF Remaining
  <2>3. Head(<<"params_restart">>) = "params_restart" /\ Tail(<<"params_restart">>) = <<>>
    OBVIOUS
  <2> QED BY <1>3, <2>2, <2>3, ThenValues, Zenon DEF Follows
<1>4. CASE e = "pre_start"
  <2>1. Remaining(Then(e)) = <<"start_recording">>
    BY <1>4, ThenValues DEF Remaining
  <2>2. Head(<<"start_recording">>) = "start_recording" /\ Tail(<<"start_recording">>) = <<>>
    OBVIOUS
  <2> QED BY <1>4, <2>1, <2>2, ThenValues, Zenon DEF Follows
<1>5. CASE e = "prepare_snapshot"
  <2>1. Remaining(Then(e)) = <<"pre_take", "take">>
    BY <1>5, ThenValues DEF Remaining
  <2>2. Head(<<"pre_take", "take">>) = "pre_take" /\ Tail(<<"pre_take", "take">>) = <<"take">>
    OBVIOUS
  <2> QED BY <1>5, <2>1, <2>2, ThenValues, Zenon DEF Follows
<1>6. CASE e = "pre_take"
  <2>1. Remaining(Then(e)) = <<"take">>
    BY <1>6, ThenValues DEF Remaining
  <2>2. Head(<<"take">>) = "take" /\ Tail(<<"take">>) = <<>>
    OBVIOUS
  <2> QED BY <1>6, <2>1, <2>2, ThenValues, Zenon DEF Follows
<1>7. CASE e \notin {"set_params", "params_stop", "params_commit", "pre_start", "prepare_snapshot", "pre_take"}
  BY <1>7 DEF Then, Remaining
<1> QED BY <1>1, <1>2, <1>3, <1>4, <1>5, <1>6, <1>7

\* It is part of the same call, and carries no argument.
LEMMA FollowsPart ==
  ASSUME NEW e, NEW h, Follows(e, h)
  PROVE  /\ h \in ApiEvt /\ e \in ApiEvt
         /\ h \in {"params_stop", "params_commit", "params_restart", "start_recording", "pre_take", "take"}
         /\ \A k \in Call : Part(k, e) => Part(k, h)
<1>1. h \in ApiEvt /\ e \in ApiEvt
      /\ h \in {"params_stop", "params_commit", "params_restart", "start_recording", "pre_take", "take"}
  BY DEF Follows, ApiEvt
<1>2. ASSUME NEW k \in Call, Part(k, e) PROVE Part(k, h)
  <2>1. k \notin {"params_stop", "params_commit", "pre_start", "prepare_snapshot", "pre_take"}
    BY DEF Call
  <2> QED BY <1>2, <2>1 DEF Follows, Part
<1> QED BY <1>1, <1>2

\* The message of a caller is of the calls.
LEMMA SentKind ==
  ASSUME QueueOK, AnswerOK, KindInv, NEW c \in Client, NEW e \in ApiEvt, NEW s \in Setting,
         NEW p \in Seq(ApiEvt), Sent(c, e, s, p),
         e \in {"set_window", "enable", "disable", "set_params", "release_frame"} => e \in Calls[c]
  PROVE  api_queue' \in Seq(ApiMsg)
<1> DEFINE m == [evt |-> e, arg |-> s, from |-> c]
<1>1. m \in Message /\ api_queue' = Append(api_queue, m) /\ m.evt = e /\ m.from = c
  BY SentFacts DEF Sent
<1> HIDE DEF m
<1>2. m \in ApiMsg
  BY <1>1 DEF ApiMsg
<1> QED BY <1>1, <1>2, AppendProperties DEF KindInv

\* A call of one message is that message.
LEMMA PartOne ==
  ASSUME NEW k \in Call, NEW e, Part(k, e)
  PROVE  /\ e \in {"set_window", "enable", "disable", "set_params", "release_frame"} => e = k
         /\ e # "stop_capture"
<1>1. k # "stop_capture"
  BY DEF Call
<1> QED BY <1>1 DEF Part

\* Callers stay in calls they make.
LEMMA CallKept ==
  ASSUME TypeOK, KindInv, CallInv, NEW c \in Client, BeginCall(c) \/ WaitAgain(c) \/ TakeAnswer(c)
  PROVE  CallInv' /\ KindInv'
<1>1. QueueOK /\ AnswerOK /\ call \in [Client -> Caller]
  BY TypeParts DEF AnswerOK
<1>2. evt_queue' = evt_queue /\ cur' = cur
  BY Zenon DEF BeginCall, WaitAgain, TakeAnswer, queueVars
<1>3. ASSUME NEW e \in ApiEvt, NEW s \in Setting, Sent(c, e, s, Then(e)), NEW k \in Calls[c], Part(k, e)
      PROVE  CallInv' /\ KindInv'
  <2>1. /\ call'[c].plan = Then(e) /\ call'[c].evt = e /\ \A d \in Client : d # c => call'[d] = call[d]
    <3>1. call'[c] = [evt |-> e, plan |-> Then(e), woken |-> FALSE]
          /\ \A d \in Client : d # c => call'[d] = call[d]
      BY <1>1, <1>3, ThenFacts, SentFacts, Zenon
    <3> QED BY <3>1
  <2>2. CallInv'
    BY <1>3, <2>1 DEF CallInv
  <2>3. k \in Call
    BY ConstFacts
  <2>4. api_queue' \in Seq(ApiMsg)
    BY <1>1, <1>3, <2>3, PartOne, ThenFacts, SentKind
  <2> QED BY <1>2, <2>2, <2>4 DEF KindInv
<1>4. CASE BeginCall(c)
  <2>1. PICK k \in Calls[c], e \in ApiEvt, s \in Setting : Part(k, e) /\ Sent(c, e, s, Then(e))
    BY <1>4, BeginFacts
  <2> QED BY <1>3, <2>1
<1>5. CASE WaitAgain(c)
  <2>1. api_queue' = api_queue /\ call' = [call EXCEPT ![c].woken = FALSE]
    BY <1>5, Zenon DEF WaitAgain, queueVars
  <2>2. \A d \in Client : call'[d].evt = call[d].evt /\ call'[d].plan = call[d].plan
    BY <1>1, <2>1 DEF Caller
  <2>3. CallInv'
    BY <2>2 DEF CallInv
  <2> QED BY <1>2, <2>1, <2>3 DEF KindInv
<1>6. CASE TakeAnswer(c)
  <2> DEFINE more == Remaining(call[c].plan)
  <2>1. \/ more # <<>> /\ Sent(c, Head(more), NoSetting, Tail(more))
        \/ call' = [call EXCEPT ![c] = Idle] /\ UNCHANGED api_queue
    BY <1>1, <1>6, AnswerFacts, Zenon
  <2>2. more = Remaining(Then(call[c].evt))
    BY DEF CallInv
  <2> HIDE DEF more
  <2>3. CASE more # <<>> /\ Sent(c, Head(more), NoSetting, Tail(more))
    <3>1. Follows(call[c].evt, Head(more)) /\ Tail(more) = Then(Head(more))
      BY <2>2, <2>3, MoreFacts
    <3>2. /\ Head(more) \in ApiEvt /\ call[c].evt \in ApiEvt
          /\ \A k \in Call : Part(k, call[c].evt) => Part(k, Head(more))
      BY <3>1, FollowsPart
    <3>3. PICK k \in Calls[c] : Part(k, call[c].evt)
      BY <3>2, MessageFacts DEF CallInv
    <3>4. k \in Call
      BY ConstFacts
    <3>5. Sent(c, Head(more), NoSetting, Then(Head(more)))
      BY <2>3, <3>1
    <3> QED BY <1>3, <3>2, <3>3, <3>4, <3>5, MessageFacts
  <2>4. CASE call' = [call EXCEPT ![c] = Idle] /\ UNCHANGED api_queue
    <3>1. call'[c] = Idle /\ \A d \in Client : d # c => call'[d] = call[d]
      BY <1>1, <2>4
    <3>2. Idle.evt = "none" /\ Idle.plan = Then("none")
      BY DEF Idle, Then
    <3>3. CallInv'
      BY <3>1, <3>2 DEF CallInv
    <3> QED BY <1>2, <2>4, <3>3 DEF KindInv
  <2> QED BY <2>1, <2>3, <2>4
<1> QED BY <1>4, <1>5, <1>6

\* Handling a message leaves the callers in their calls.
LEMMA HandleCall ==
  ASSUME TypeOK, FlowStep
  PROVE  /\ \A c \in Client : call'[c].evt = call[c].evt /\ call'[c].plan = call[c].plan
         /\ cur' = NoMessage /\ api_queue' = api_queue /\ evt_queue' = evt_queue
<1>1. call \in [Client -> Caller]
  BY TypeParts DEF AnswerOK
<1>2. Handled
  BY DEF FlowStep, Answered, Noted, Dropped, Ignored, Begun, Ended, Answer, Silent, SignalEvtResult
<1>3. \A e, ok : SignalAPIResult(e, ok) =>
        \A c \in Client : call'[c].evt = call[c].evt /\ call'[c].plan = call[c].plan
  BY <1>1 DEF SignalAPIResult, Caller
<1>4. call' = call => \A c \in Client : call'[c].evt = call[c].evt /\ call'[c].plan = call[c].plan
  OBVIOUS
<1>5. \A c \in Client : call'[c].evt = call[c].evt /\ call'[c].plan = call[c].plan
  BY <1>3, <1>4, Zenon DEF FlowStep, Answered, Noted, Dropped, Ignored, Begun, Ended, Answer, Silent,
     SignalEvtResult
<1> QED BY <1>2, <1>5 DEF Handled, queueVars

\* Every step keeps the callers in their calls and the queues as they are used.
LEMMA CallsKept == TypeOK /\ KindInv /\ CallInv /\ [Next]_vars => KindInv' /\ CallInv'
<1> SUFFICES ASSUME TypeOK, KindInv, CallInv, [Next]_vars PROVE KindInv' /\ CallInv'
  OBVIOUS
<1>1. CASE \E c \in Client : BeginCall(c) \/ WaitAgain(c) \/ TakeAnswer(c)
  BY <1>1, CallKept
<1>2. CASE Dequeue
  <2>1. call' = call
    BY <1>2, Zenon DEF Dequeue, callVars
  <2>2. CASE api_queue # <<>> /\ cur' = Head(api_queue) /\ api_queue' = Tail(api_queue)
             /\ evt_queue' = evt_queue
    <3>1. Head(api_queue) \in ApiMsg /\ Tail(api_queue) \in Seq(ApiMsg)
      BY <2>2, HeadTailProperties DEF KindInv
    <3> QED BY <2>1, <2>2, <3>1 DEF KindInv, CallInv
  <2>3. CASE evt_queue # <<>> /\ cur' = Head(evt_queue) /\ evt_queue' = Tail(evt_queue)
             /\ api_queue' = api_queue
    <3>1. Head(evt_queue) \in EvtMsg /\ Tail(evt_queue) \in Seq(EvtMsg)
      BY <2>3, HeadTailProperties DEF KindInv
    <3> QED BY <2>1, <2>3, <3>1 DEF KindInv, CallInv
  <2> QED BY <1>2, <2>2, <2>3, Zenon DEF Dequeue
<1>3. CASE Handle
  BY <1>3, HandleFlow, HandleCall DEF KindInv, CallInv
<1>4. CASE Behind
  <2>1. /\ cur' = cur /\ call' = call
        /\ OwnPosts({"cancel", "stop_capture"}, {"prep_done", "snapshot_done"})
    BY <1>4, BehindFacts
  <2>2. ASSUME NEW e \in {"cancel", "stop_capture"}
        PROVE  [evt |-> e, arg |-> NoSetting, from |-> Nobody] \in ApiMsg
    BY MessageFacts DEF ApiMsg, ApiEvt
  <2>3. ASSUME NEW e \in {"prep_done", "snapshot_done"}
        PROVE  [evt |-> e, arg |-> NoSetting, from |-> Nobody] \in EvtMsg
    BY MessageFacts DEF EvtMsg, Evt
  <2>4. api_queue' \in Seq(ApiMsg)
    <3>1. ASSUME NEW e \in {"cancel", "stop_capture"}
          PROVE  Append(api_queue, [evt |-> e, arg |-> NoSetting, from |-> Nobody]) \in Seq(ApiMsg)
      BY <2>2, AppendProperties DEF KindInv
    <3> QED BY <2>1, <3>1, Zenon DEF KindInv, OwnPosts
  <2>5. evt_queue' \in Seq(EvtMsg)
    <3>1. ASSUME NEW e \in {"prep_done", "snapshot_done"}
          PROVE  Append(evt_queue, [evt |-> e, arg |-> NoSetting, from |-> Nobody]) \in Seq(EvtMsg)
      BY <2>3, AppendProperties DEF KindInv
    <3> QED BY <2>1, <3>1, Zenon DEF KindInv, OwnPosts
  <2> QED BY <2>1, <2>4, <2>5 DEF KindInv, CallInv
<1>5. CASE UNCHANGED vars
  BY <1>5 DEF vars, queueVars, callVars, KindInv, CallInv
<1> QED BY <1>1, <1>2, <1>3, <1>4, <1>5, Zenon DEF Next, Behind

\* The parts of what is due, as numbers.
LEMMA DueParts ==
  ASSUME QueueOK, AnswerOK, NEW e
  PROVE  /\ Tally(api_queue, Messages(e)) \in Nat /\ Tally(results, Answers(e)) \in Nat
         /\ Held(e) \in Nat /\ Waiting(e) \in Nat /\ Due(e) \in Nat
         /\ Due(e) = Tally(api_queue, Messages(e)) + Tally(results, Answers(e)) + Same(cur.evt, e) + Held(e)
         /\ \A a : Same(a, e) \in Nat
<1>1. Held(e) \in Nat /\ \A a : Same(a, e) \in Nat
  BY DEF Held, Same
<1> QED BY <1>1, CountType, Zenon DEF Due

\* The callers are where they were, and what is due is the sum of its parts then.
LEMMA DueMove ==
  ASSUME NEW e, \A c \in Client : call'[c].evt = call[c].evt
  PROVE  /\ Waiting(e)' = Waiting(e)
         /\ Due(e)' = Tally(api_queue', Messages(e)) + Tally(results', Answers(e))
                         + Same(cur'.evt, e) + Held(e)'
<1>1. Waiting(e)' = Waiting(e)
  BY HavingSame DEF Waiting
<1>2. Due(e)' = Tally(api_queue', Messages(e)) + Tally(results', Answers(e)) + Same(cur'.evt, e) + Held(e)'
  BY Zenon DEF Due
<1> QED BY <1>1, <1>2

\* Taking a call from its queue keeps it due.
LEMMA DequeueEven ==
  ASSUME TypeOK, KindInv, Dequeue, NEW e \in ApiEvt
  PROVE  Waiting(e)' = Waiting(e) /\ Due(e)' = Due(e)
<1>1. QueueOK /\ AnswerOK
  BY TypeParts
<1>2. /\ UNCHANGED <<results, call, m_state>> /\ cur = NoMessage
  BY Zenon DEF Dequeue, callVars
<1> DEFINE a == Tally(api_queue, Messages(e))
           r == Tally(results, Answers(e))
           h == Held(e)
<1>3. /\ a \in Nat /\ r \in Nat /\ h \in Nat
      /\ Tally(results', Answers(e)) = r /\ Held(e)' = h
      /\ \A c \in Client : call'[c].evt = call[c].evt
  BY <1>1, <1>2, DueParts DEF Held
<1>4. Same(cur.evt, e) = 0
  BY <1>2, MessageFacts DEF Same
<1>5. Due(e) = a + r + h
  <2>1. Due(e) = a + r + Same(cur.evt, e) + h
    BY DEF Due
  <2> HIDE DEF a, r, h
  <2> QED BY <1>3, <1>4, <2>1
<1> DEFINE a1 == Tally(api_queue', Messages(e))
           u == Same(cur'.evt, e)
<1>6. a1 \in Nat /\ u \in Nat /\ a = a1 + u
  <2>1. u \in Nat
    BY DEF Same
  <2>2. CASE api_queue # <<>> /\ cur' = Head(api_queue) /\ api_queue' = Tail(api_queue)
    <3>1. api_queue' \in Seq(Message)
          /\ Tally(api_queue, Messages(e)) = Tally(api_queue', Messages(e)) + Same(cur'.evt, e)
      BY <1>1, <2>2, HeadCount DEF QueueOK
    <3> QED BY <2>1, <3>1, TallyType, Zenon
  <2>3. CASE evt_queue # <<>> /\ cur' = Head(evt_queue) /\ api_queue' = api_queue
    <3>1. cur' \in EvtMsg
      BY <2>3, HeadTailProperties DEF KindInv
    <3>2. u = 0
      BY <3>1 DEF EvtMsg, Evt, ApiEvt, Same
    <3>3. a1 = a
      BY <2>3
    <3> HIDE DEF a, a1, u
    <3> QED BY <1>3, <3>2, <3>3
  <2> QED BY <2>2, <2>3, Zenon DEF Dequeue
<1>7. Waiting(e)' = Waiting(e) /\ Due(e)' = a1 + r + u + h
  BY <1>3, DueMove
<1> HIDE DEF a, r, h, a1, u
<1> QED BY <1>3, <1>5, <1>6, <1>7

\* A message that is handled is answered, or is one that nobody needs an answer to;
\* the answer of prepare_snapshot may be held back.
LEMMA HandleDue ==
  ASSUME TypeOK, FlowStep, NEW e \in ApiEvt
  PROVE  /\ Waiting(e)' = Waiting(e)
         /\ \/ Due(e)' = Due(e)
            \/ /\ Due(e)' + 1 = Due(e) /\ cur.evt = e
               /\ \/ e = "stop_capture"
                  \/ e = "release_frame" /\ m_state \notin {"RECORDING", "VIDEO_PIC"}
<1>1. QueueOK /\ AnswerOK /\ "none" \notin ApiEvt /\ NoMessage.evt = "none"
  BY TypeParts, MessageFacts
<1>2. /\ \A c \in Client : call'[c].evt = call[c].evt
      /\ cur' = NoMessage /\ api_queue' = api_queue
  BY HandleCall
<1> DEFINE a == Tally(api_queue, Messages(e))
           r == Tally(results, Answers(e))
           u == Same(cur.evt, e)
           h == Held(e)
<1>3. a \in Nat /\ r \in Nat /\ u \in Nat /\ h \in Nat /\ Due(e) = a + r + u + h
  BY <1>1, DueParts, Zenon
<1>4. Tally(api_queue', Messages(e)) = a /\ Same(cur'.evt, e) = 0
  BY <1>1, <1>2 DEF Same
<1>5. ASSUME NEW r1 \in Nat, Tally(results', Answers(e)) = r1, NEW h1 \in Nat, Held(e)' = h1
      PROVE  Waiting(e)' = Waiting(e) /\ Due(e)' = a + r1 + h1
  <2> HIDE DEF a, r, u, h
  <2>2. Waiting(e)' = Waiting(e) /\ Due(e)' = a + r1 + 0 + h1
    BY <1>2, <1>4, <1>5, DueMove
  <2> QED BY <1>3, <1>5, <2>2
<1>6. ASSUME NEW k \in ApiEvt, NEW ok \in BOOLEAN, SignalAPIResult(k, ok)
      PROVE  Tally(results', Answers(e)) = r + Same(k, e)
  <2> DEFINE x == [evt |-> k, ok |-> ok]
  <2>1. x \in Result /\ x.evt = k /\ results' = Append(results, x) /\ results \in Seq(Result)
    BY <1>1, <1>6 DEF Result, SignalAPIResult, AnswerOK
  <2> HIDE DEF x
  <2>2. Tally(results', Answers(e)) = r + Same(x.evt, e)
    BY <2>1, AnswerCount
  <2> QED BY <2>1, <2>2, Zenon
<1>7. Still => Held(e)' = h
  BY DEF Still, Held
<1>8. CASE Answered
  <2>1. cur.evt \in ApiEvt /\ \E ok \in BOOLEAN : SignalAPIResult(cur.evt, ok)
    BY <1>8, Zenon DEF Answered, Answer
  <2>2. Tally(results', Answers(e)) = r + u
    BY <1>6, <2>1, Zenon
  <2>3. Held(e)' = h
    BY <1>7, <1>8, Zenon DEF Answered
  <2> HIDE DEF a, r, u, h
  <2>4. r + u \in Nat
    BY <1>3
  <2>5. Waiting(e)' = Waiting(e) /\ Due(e)' = a + (r + u) + h
    BY <1>3, <1>5, <2>2, <2>3, <2>4, Zenon
  <2>6. a + (r + u) + h = a + r + u + h
    BY <1>3
  <2> QED BY <1>3, <2>5, <2>6, Zenon
<1>9. CASE Noted \/ Dropped \/ Ignored
  <2>1. results' = results
    BY <1>9, Zenon DEF Noted, Dropped, Ignored, Silent, SignalEvtResult
  <2>2. Tally(results', Answers(e)) = r /\ Held(e)' = h
    BY <1>7, <1>9, <2>1, Zenon DEF Noted, Dropped, Ignored
  <2>3. /\ cur.evt \in {"snapshot_done", "prep_done", "stop_capture", "release_frame"}
        /\ cur.evt = "release_frame" => m_state \notin {"RECORDING", "VIDEO_PIC"}
    BY <1>9 DEF Noted, Dropped, Ignored
  <2>4. \/ u = 0
        \/ /\ u = 1 /\ cur.evt = e
           /\ \/ e = "stop_capture"
              \/ e = "release_frame" /\ m_state \notin {"RECORDING", "VIDEO_PIC"}
    BY <2>3 DEF Same, ApiEvt
  <2> HIDE DEF a, r, u, h
  <2>5. Waiting(e)' = Waiting(e) /\ Due(e)' = a + r + h
    BY <1>3, <1>5, <2>2
  <2>6. Due(e) = Due(e)' + u
    BY <1>3, <2>5
  <2> QED BY <1>3, <2>4, <2>5, <2>6
<1>10. CASE Begun
  <2>1. results' = results /\ cur.evt = "prepare_snapshot" /\ m_state = "PREVIEWING"
        /\ m_state' = "PREPARE_SNAPSHOT"
    BY <1>10, Zenon DEF Begun, Silent
  <2>2. h = 0 /\ Held(e)' = u
    BY <2>1 DEF Held, Same
  <2>3. Tally(results', Answers(e)) = r
    BY <2>1
  <2> HIDE DEF a, r, u, h
  <2>4. Waiting(e)' = Waiting(e) /\ Due(e)' = a + r + u
    BY <1>3, <1>5, <2>2, <2>3
  <2> QED BY <1>3, <2>2, <2>4
<1>11. CASE Ended
  <2>1. /\ cur.evt = "prep_done" /\ m_state = "PREPARE_SNAPSHOT" /\ m_state' = "PREVIEWING"
        /\ SignalAPIResult("prepare_snapshot", TRUE)
    BY <1>11, Zenon DEF Ended
  <2>2. "prepare_snapshot" \in ApiEvt /\ u = 0 /\ Held(e)' = 0 /\ h = Same("prepare_snapshot", e)
    BY <2>1 DEF Held, Same, ApiEvt
  <2>3. Tally(results', Answers(e)) = r + h
    BY <1>6, <2>1, <2>2, Zenon
  <2> HIDE DEF a, r, u, h
  <2>4. r + h \in Nat /\ 0 \in Nat
    BY <1>3
  <2>5. Waiting(e)' = Waiting(e) /\ Due(e)' = a + (r + h) + 0
    BY <1>5, <2>2, <2>3, <2>4, Zenon
  <2> QED BY <1>3, <2>2, <2>5
<1> QED BY <1>8, <1>9, <1>10, <1>11, Zenon DEF FlowStep

\* The threads behind the state machine only make more due: cancels and stops.
LEMMA BehindDue ==
  ASSUME TypeOK, Behind, NEW e \in ApiEvt
  PROVE  /\ Waiting(e)' = Waiting(e)
         /\ \/ Due(e)' = Due(e)
            \/ Due(e)' = Due(e) + 1 /\ e \in {"cancel", "stop_capture"}
<1>1. QueueOK /\ AnswerOK /\ api_queue \in Seq(Message)
  BY TypeParts DEF QueueOK
<1>2. /\ UNCHANGED <<m_state, cur, results, call>>
      /\ OwnPosts({"cancel", "stop_capture"}, {"prep_done", "snapshot_done"})
  BY BehindFacts
<1> DEFINE a == Tally(api_queue, Messages(e))
           a1 == Tally(api_queue', Messages(e))
           x == Tally(results, Answers(e)) + Same(cur.evt, e) + Held(e)
<1>3. a \in Nat /\ x \in Nat /\ Due(e) = a + x
  BY <1>1, DueParts
<1>4. Waiting(e)' = Waiting(e) /\ Due(e)' = a1 + x
  <2>1. \A c \in Client : call'[c].evt = call[c].evt
    BY <1>2
  <2>2. /\ Waiting(e)' = Waiting(e)
        /\ Due(e)' = a1 + Tally(results', Answers(e)) + Same(cur'.evt, e) + Held(e)'
    BY <2>1, DueMove, Zenon
  <2>3. Tally(results', Answers(e)) = Tally(results, Answers(e)) /\ Same(cur'.evt, e) = Same(cur.evt, e)
        /\ Held(e)' = Held(e)
    BY <1>2 DEF Held
  <2>4. /\ Tally(results, Answers(e)) \in Nat /\ Same(cur.evt, e) \in Nat /\ Held(e) \in Nat
        /\ a1 \in Nat
    <3>1. QueueOK'
      BY <1>1, <1>2, OwnPostsTyped
    <3> QED BY <1>1, <3>1, DueParts, TallyType DEF QueueOK
  <2> QED BY <2>2, <2>3, <2>4
<1>5. CASE api_queue' = api_queue
  BY <1>3, <1>4, <1>5
<1>6. CASE \E k \in {"cancel", "stop_capture"} :
             api_queue' = Append(api_queue, [evt |-> k, arg |-> NoSetting, from |-> Nobody])
  <2>1. PICK k \in {"cancel", "stop_capture"} :
             api_queue' = Append(api_queue, [evt |-> k, arg |-> NoSetting, from |-> Nobody])
    BY <1>6
  <2> DEFINE m == [evt |-> k, arg |-> NoSetting, from |-> Nobody]
  <2>2. m \in Message /\ m.evt = k /\ api_queue' = Append(api_queue, m)
    BY <2>1, MessageFacts DEF ApiEvt
  <2> HIDE DEF m
  <2>3. a1 = a + Same(k, e)
    BY <1>1, <2>2, MessageCount
  <2>4. Same(k, e) = 0 \/ (Same(k, e) = 1 /\ e \in {"cancel", "stop_capture"})
    BY DEF Same
  <2> HIDE DEF a, a1, x
  <2> QED BY <1>3, <1>4, <2>3, <2>4
<1> QED BY <1>2, <1>5, <1>6, Zenon DEF OwnPosts

-----------------------------------------------------------------------------
(* Who waits for the hardware, and who gives a frame back.                     *)

\* PREPARE_SNAPSHOT is the state exactly as long as the hardware prepares or its
\* event is on the way, once.
Preparing == IF prep THEN 1 ELSE 0
PrepInv == Preparing + Tally(evt_queue, Messages("prep_done")) + Same(cur.evt, "prep_done")
             = Same(m_state, "PREPARE_SNAPSHOT")

\* Every step keeps the state that prepares in step with the hardware.
LEMMA PrepKept == TypeOK /\ KindInv /\ PrepInv /\ [Next]_vars => PrepInv'
<1> SUFFICES ASSUME TypeOK, KindInv, PrepInv, [Next]_vars PROVE PrepInv'
  OBVIOUS
<1>1. /\ evt_queue \in Seq(Message) /\ prep \in BOOLEAN
      /\ "prep_done" \notin ApiEvt /\ "none" # "prep_done" /\ NoMessage.evt = "none"
  BY TypeParts, MessageFacts DEF QueueOK, CamOK, ApiEvt
<1> DEFINE v == Tally(evt_queue, Messages("prep_done"))
           v1 == Tally(evt_queue', Messages("prep_done"))
           u == Same(cur.evt, "prep_done")
           u1 == Same(cur'.evt, "prep_done")
<1>2. v \in Nat /\ u \in Nat /\ u1 \in Nat /\ Preparing \in Nat /\ Preparing' \in Nat
  BY <1>1, TallyType DEF Same, Preparing
<1>3. CASE UNCHANGED <<evt_queue, cur, prep, m_state>>
  BY <1>3 DEF PrepInv, Preparing
<1>4. (\E c \in Client : BeginCall(c) \/ WaitAgain(c) \/ TakeAnswer(c)) \/ UNCHANGED vars
        => UNCHANGED <<evt_queue, cur, prep, m_state>>
  BY Zenon DEF BeginCall, WaitAgain, TakeAnswer, queueVars, cameraVars, vars
<1>5. CASE Dequeue
  <2>1. UNCHANGED <<prep, m_state>> /\ cur = NoMessage
    BY <1>5, Zenon DEF Dequeue, cameraVars
  <2>2. u = 0 /\ Preparing' = Preparing /\ Same(m_state', "PREPARE_SNAPSHOT") = Same(m_state, "PREPARE_SNAPSHOT")
    BY <1>1, <2>1 DEF Same, Preparing
  <2>3. CASE api_queue # <<>> /\ cur' = Head(api_queue) /\ evt_queue' = evt_queue
    <3>1. cur' \in ApiMsg
      BY <2>3, HeadTailProperties DEF KindInv
    <3>2. u1 = 0 /\ v1 = v
      BY <1>1, <2>3, <3>1 DEF ApiMsg, Same
    <3> QED BY <2>2, <3>2, Zenon DEF PrepInv
  <2>4. CASE evt_queue # <<>> /\ cur' = Head(evt_queue) /\ evt_queue' = Tail(evt_queue)
    <3>1. v = v1 + u1 /\ v1 \in Nat
      BY <1>1, <2>4, HeadCount, TallyType
    <3>2. Preparing + v + u = Same(m_state, "PREPARE_SNAPSHOT")
      BY Zenon DEF PrepInv
    <3> HIDE DEF u, v, u1, v1
    <3>3. Preparing' + v1 + u1 = Same(m_state', "PREPARE_SNAPSHOT")
      BY <1>2, <2>2, <3>1, <3>2
    <3> QED BY <3>3, Zenon DEF PrepInv, u1, v1
  <2> QED BY <1>5, <2>3, <2>4, Zenon DEF Dequeue
<1>6. CASE Handle
  <2>1. FlowStep /\ cur' = NoMessage /\ evt_queue' = evt_queue
    BY <1>6, HandleFlow, HandleCall
  <2>2. u1 = 0 /\ v1 = v
    BY <1>1, <2>1 DEF Same
  <2>3. Preparing + v + u = Same(m_state, "PREPARE_SNAPSHOT")
    BY Zenon DEF PrepInv
  <2>4. PrepInv' <=> Preparing' + v1 + u1 = Same(m_state', "PREPARE_SNAPSHOT")
    BY Zenon DEF PrepInv
  <2>5. Still => Preparing' = Preparing
                 /\ Same(m_state', "PREPARE_SNAPSHOT") = Same(m_state, "PREPARE_SNAPSHOT")
    BY DEF Still, Preparing, Same
  <2>6. CASE Answered \/ Noted \/ Ignored
    <3>1. u = 0
      BY <1>1, <2>6 DEF Answered, Noted, Ignored, Same
    <3>2. Still
      BY <2>6, Zenon DEF Answered, Noted, Ignored
    <3> HIDE DEF u, v, u1, v1
    <3> QED BY <1>2, <2>2, <2>3, <2>4, <2>5, <3>1, <3>2
  <2>7. CASE Dropped
    <3>1. Same(m_state, "PREPARE_SNAPSHOT") = 0
      BY <2>7 DEF Dropped, Same
    <3>2. Still
      BY <2>7, Zenon DEF Dropped
    <3> HIDE DEF u, v, u1, v1
    <3>3. u = 0
      BY <1>2, <2>3, <3>1
    <3> QED BY <1>2, <2>2, <2>3, <2>4, <2>5, <3>2, <3>3
  <2>8. CASE Begun
    <3>1. Same(m_state, "PREPARE_SNAPSHOT") = 0 /\ Same(m_state', "PREPARE_SNAPSHOT") = 1 /\ Preparing' = 1
      BY <2>8 DEF Begun, Same, Preparing
    <3> HIDE DEF u, v, u1, v1
    <3>2. v = 0
      BY <1>2, <2>3, <3>1
    <3> QED BY <2>2, <2>4, <3>1, <3>2
  <2>9. CASE Ended
    <3>1. /\ Same(m_state, "PREPARE_SNAPSHOT") = 1 /\ Same(m_state', "PREPARE_SNAPSHOT") = 0
          /\ Preparing' = Preparing /\ u = 1
      BY <2>9 DEF Ended, Same, Preparing
    <3> HIDE DEF u, v, u1, v1
    <3>2. v = 0 /\ Preparing = 0
      BY <1>2, <2>3, <3>1
    <3> QED BY <2>2, <2>4, <3>1, <3>2
  <2> QED BY <2>1, <2>6, <2>7, <2>8, <2>9, Zenon DEF FlowStep
<1>7. CASE PrepSnapshotDone
  <2>1. /\ prep /\ prep' = FALSE /\ UNCHANGED <<m_state, cur>>
        /\ evt_queue' = Append(evt_queue, [evt |-> "prep_done", arg |-> NoSetting, from |-> Nobody])
    BY <1>7, Zenon DEF PrepSnapshotDone, PostEvt
  <2>2. Preparing = 1 /\ Preparing' = 0
    BY <2>1 DEF Preparing
  <2>3. v1 = v + 1
    <3> DEFINE m == [evt |-> "prep_done", arg |-> NoSetting, from |-> Nobody]
    <3>1. m \in Message /\ Same(m.evt, "prep_done") = 1 /\ evt_queue' = Append(evt_queue, m)
      BY <2>1, MessageFacts DEF Evt, Same
    <3> HIDE DEF m
    <3>2. v1 = v + Same(m.evt, "prep_done")
      BY <1>1, <3>1, MessageCount
    <3> QED BY <3>1, <3>2, Zenon
  <2>4. Preparing + v + u = Same(m_state, "PREPARE_SNAPSHOT")
    BY Zenon DEF PrepInv
  <2>5. u1 = u /\ Same(m_state', "PREPARE_SNAPSHOT") = Same(m_state, "PREPARE_SNAPSHOT")
    BY <2>1
  <2> HIDE DEF u, v, u1, v1
  <2>6. Preparing' + v1 + u1 = Same(m_state', "PREPARE_SNAPSHOT")
    BY <1>2, <2>2, <2>3, <2>4, <2>5
  <2> QED BY <2>6, Zenon DEF PrepInv, u1, v1
<1>8. CASE SnapshotDone
  <2>1. /\ UNCHANGED <<prep, m_state, cur>>
        /\ evt_queue' = Append(evt_queue, [evt |-> "snapshot_done", arg |-> NoSetting, from |-> Nobody])
    BY <1>8, Zenon DEF SnapshotDone, PostEvt, cameraVars
  <2>2. v1 = v
    <3> DEFINE m == [evt |-> "snapshot_done", arg |-> NoSetting, from |-> Nobody]
    <3>1. m \in Message /\ Same(m.evt, "prep_done") = 0 /\ evt_queue' = Append(evt_queue, m)
      BY <2>1, MessageFacts DEF Evt, Same
    <3> HIDE DEF m
    <3>2. v1 = v + Same(m.evt, "prep_done")
      BY <1>1, <3>1, MessageCount
    <3> HIDE DEF v, v1
    <3> QED BY <1>2, <3>1, <3>2
  <2>3. UNCHANGED <<cur, m_state>> /\ Preparing' = Preparing
    BY <2>1 DEF Preparing
  <2> QED BY <2>2, <2>3, Zenon DEF PrepInv
<1>9. CASE FramesArrive \/ TakeLiveSnapshot \/ CancelLiveSnapshot \/ VideoFrame \/ DaemonDies
  BY <1>3, <1>9, Zenon DEF FramesArrive, TakeLiveSnapshot, CancelLiveSnapshot, VideoFrame, DaemonDies,
     queueVars, cameraVars
<1> QED BY <1>3, <1>4, <1>5, <1>6, <1>7, <1>8, <1>9, Zenon DEF Next

\* A frame is given back first in the queue, while the machine has nothing else to
\* do and records; it is handled in the same state.
FrameInv ==
  /\ \A i \in 1 .. Len(api_queue) : api_queue[i].evt = "release_frame" =>
       i = 1 /\ cur = NoMessage /\ m_state \in {"RECORDING", "VIDEO_PIC"}
  /\ cur.evt = "release_frame" => m_state \in {"RECORDING", "VIDEO_PIC"}

\* A message at the end of the calls is no frame, or is the first.
LEMMA FrameAppend ==
  ASSUME QueueOK, FrameInv, cur' = cur, m_state' = m_state, NEW m \in Message,
         api_queue' = Append(api_queue, m),
         m.evt = "release_frame" => /\ api_queue = <<>> /\ cur = NoMessage
                                    /\ m_state \in {"RECORDING", "VIDEO_PIC"}
  PROVE  FrameInv'
<1>1. /\ Len(api_queue') = Len(api_queue) + 1 /\ Len(api_queue) \in Nat
      /\ \A i \in 1 .. Len(api_queue) : api_queue'[i] = api_queue[i]
      /\ api_queue'[Len(api_queue) + 1] = m
  BY AppendProperties, LenProperties DEF QueueOK
<1>2. ASSUME NEW i \in 1 .. Len(api_queue'), api_queue'[i].evt = "release_frame"
      PROVE  i = 1 /\ cur = NoMessage /\ m_state \in {"RECORDING", "VIDEO_PIC"}
  <2>1. CASE i \in 1 .. Len(api_queue)
    BY <1>1, <1>2, <2>1 DEF FrameInv
  <2>2. CASE i = Len(api_queue) + 1
    <3>1. m.evt = "release_frame"
      BY <1>1, <1>2, <2>2
    <3>2. api_queue = <<>> => Len(api_queue) = 0
      BY EmptySeq
    <3> QED BY <2>2, <3>1, <3>2
  <2> QED BY <1>1, <2>1, <2>2
<1> QED BY <1>2 DEF FrameInv

\* Every step keeps the frame that is given back at the front, in a recording state.
LEMMA FrameKept ==
  ASSUME ~LateRelease, TypeOK, KindInv, CallInv, FrameInv, [Next]_vars
  PROVE  FrameInv'
<1>1. /\ QueueOK /\ AnswerOK /\ NoMessage.evt = "none"
      /\ "release_frame" \notin Evt /\ "none" # "release_frame"
  BY TypeParts, MessageFacts DEF Evt
<1>2. CASE UNCHANGED <<api_queue, cur, m_state>>
  BY <1>2 DEF FrameInv
<1>3. ASSUME NEW c \in Client, BeginCall(c) \/ WaitAgain(c) \/ TakeAnswer(c) PROVE FrameInv'
  <2>1. UNCHANGED <<cur, m_state>>
    BY <1>3, Zenon DEF BeginCall, WaitAgain, TakeAnswer
  <2>2. ASSUME NEW e \in ApiEvt, NEW s \in Setting, NEW p \in Seq(ApiEvt), Sent(c, e, s, p),
               e = "release_frame" => /\ api_queue = <<>> /\ cur = NoMessage
                                      /\ m_state \in {"RECORDING", "VIDEO_PIC"}
        PROVE  FrameInv'
    <3> DEFINE m == [evt |-> e, arg |-> s, from |-> c]
    <3>1. m \in Message /\ m.evt = e /\ api_queue' = Append(api_queue, m)
      BY <1>1, <2>2, SentFacts DEF Sent
    <3> HIDE DEF m
    <3> QED BY <1>1, <2>1, <2>2, <3>1, FrameAppend
  <2>3. CASE BeginCall(c)
    <3>1. PICK k \in Calls[c], e \in ApiEvt, s \in Setting :
            k \in Call /\ Part(k, e) /\ MayCall(k) /\ Sent(c, e, s, Then(e))
      BY <2>3, BeginFacts
    <3>2. e = "release_frame" => k = "release_frame"
      BY <3>1, PartOne
    <3>3. k = "release_frame" => /\ api_queue = <<>> /\ cur = NoMessage
                                 /\ m_state \in {"RECORDING", "VIDEO_PIC"}
      BY <3>1, Zenon DEF MayCall
    <3> QED BY <2>2, <3>1, <3>2, <3>3, ThenFacts
  <2>4. CASE WaitAgain(c)
    BY <1>2, <2>1, <2>4, Zenon DEF WaitAgain, queueVars
  <2>5. CASE TakeAnswer(c)
    <3> DEFINE more == Remaining(call[c].plan)
    <3>1. /\ more \in Seq(ApiEvt)
          /\ \/ more # <<>> /\ Sent(c, Head(more), NoSetting, Tail(more))
             \/ UNCHANGED api_queue
      BY <1>1, <2>5, AnswerFacts, Zenon
    <3>2. more = Remaining(Then(call[c].evt))
      BY DEF CallInv
    <3> HIDE DEF more
    <3>3. CASE more # <<>> /\ Sent(c, Head(more), NoSetting, Tail(more))
      <4>1. Follows(call[c].evt, Head(more))
        BY <3>2, <3>3, MoreFacts
      <4>2. Head(more) \in ApiEvt /\ Head(more) # "release_frame"
        BY <4>1, FollowsPart
      <4>3. Tail(more) \in Seq(ApiEvt)
        BY <3>1, <3>3
      <4> QED BY <2>2, <3>3, <4>2, <4>3, MessageFacts
    <3> QED BY <1>2, <2>1, <3>1, <3>3
  <2> QED BY <1>3, <2>3, <2>4, <2>5
<1>4. CASE Dequeue
  <2>1. m_state' = m_state
    BY <1>4, Zenon DEF Dequeue
  <2>2. CASE api_queue # <<>> /\ cur' = Head(api_queue) /\ api_queue' = Tail(api_queue)
    <3>1. /\ Len(api_queue) \in Nat /\ Len(api_queue') = Len(api_queue) - 1 /\ Len(api_queue) >= 1
          /\ cur' = api_queue[1]
          /\ \A i \in 1 .. Len(api_queue') : api_queue'[i] = api_queue[i + 1]
      BY <1>1, <2>2, HeadTailProperties, LenProperties, EmptySeq DEF QueueOK
    <3>2. ASSUME NEW i \in 1 .. Len(api_queue') PROVE api_queue'[i].evt # "release_frame"
      <4>1. i + 1 \in 1 .. Len(api_queue) /\ i + 1 # 1 /\ api_queue'[i] = api_queue[i + 1]
        BY <3>1
      <4> QED BY <4>1 DEF FrameInv
    <3>3. cur'.evt = "release_frame" => m_state \in {"RECORDING", "VIDEO_PIC"}
      BY <3>1 DEF FrameInv
    <3> QED BY <2>1, <3>2, <3>3 DEF FrameInv
  <2>3. CASE api_queue = <<>> /\ evt_queue # <<>> /\ cur' = Head(evt_queue) /\ api_queue' = api_queue
    <3>1. cur' \in EvtMsg
      BY <2>3, HeadTailProperties DEF KindInv
    <3>2. cur'.evt # "release_frame" /\ Len(api_queue') = 0
      BY <1>1, <2>3, <3>1, EmptySeq DEF EvtMsg
    <3> QED BY <3>2 DEF FrameInv
  <2> QED BY <1>4, <2>2, <2>3, Zenon DEF Dequeue
<1>5. CASE Handle
  <2>1. FlowStep /\ cur' = NoMessage /\ api_queue' = api_queue
    BY <1>5, HandleFlow, HandleCall
  <2>2. cur.evt \in ApiEvt \cup Evt
    BY <2>1 DEF FlowStep, Answered, Noted, Dropped, Ignored, Begun, Ended, ApiEvt, Evt
  <2>3. cur # NoMessage
    BY <1>1, <2>2, MessageFacts
  <2>4. \A i \in 1 .. Len(api_queue) : api_queue[i].evt # "release_frame"
    BY <2>3 DEF FrameInv
  <2> QED BY <1>1, <2>1, <2>4 DEF FrameInv
<1>6. CASE Behind
  <2>1. UNCHANGED <<m_state, cur>> /\ OwnPosts({"cancel", "stop_capture"}, {"prep_done", "snapshot_done"})
    BY <1>6, BehindFacts
  <2>2. ASSUME NEW e \in {"cancel", "stop_capture"},
               api_queue' = Append(api_queue, [evt |-> e, arg |-> NoSetting, from |-> Nobody])
        PROVE  FrameInv'
    <3> DEFINE m == [evt |-> e, arg |-> NoSetting, from |-> Nobody]
    <3>1. m \in Message /\ m.evt # "release_frame" /\ api_queue' = Append(api_queue, m)
      BY <2>2, MessageFacts DEF ApiEvt
    <3> HIDE DEF m
    <3> QED BY <1>1, <2>1, <3>1, FrameAppend
  <2> QED BY <1>2, <2>1, <2>2, Zenon DEF OwnPosts
<1>7. CASE UNCHANGED vars
  BY <1>2, <1>7, Zenon DEF vars, queueVars
<1> QED BY <1>3, <1>4, <1>5, <1>6, <1>7, Zenon DEF Next, Behind

-----------------------------------------------------------------------------
(* Nobody waits for nothing, and nobody leaves before the machine has read.    *)

\* No count changes when nothing does.
LEMMA StillEven ==
  ASSUME QueueOK, AnswerOK, UNCHANGED vars, NEW e
  PROVE  Even(e)
<1>1. UNCHANGED <<api_queue, results, call, cur, m_state>>
  BY Zenon DEF vars, queueVars, callVars
<1>2. Waiting(e)' = Waiting(e) /\ Due(e)' = Due(e) /\ Due(e) \in Nat /\ Waiting(e) \in Nat
  BY <1>1, CountType DEF Waiting, Due, Held
<1> QED BY <1>2 DEF Even

\* What a step does to the counts of one event.
LEMMA StepCounts ==
  ASSUME TypeOK, KindInv, [Next]_vars, NEW e \in ApiEvt
  PROVE  \/ Even(e)
         \/ /\ Waiting(e)' = Waiting(e) /\ Due(e)' + 1 = Due(e) /\ cur.evt = e
            /\ \/ e = "stop_capture"
               \/ e = "release_frame" /\ m_state \notin {"RECORDING", "VIDEO_PIC"}
         \/ /\ Waiting(e)' = Waiting(e) /\ Due(e)' = Due(e) + 1
            /\ e \in {"cancel", "stop_capture"}
<1>1. QueueOK /\ AnswerOK /\ Due(e) \in Nat /\ Waiting(e) \in Nat
  BY TypeParts, CountType
<1>2. Waiting(e)' = Waiting(e) /\ Due(e)' = Due(e) => Even(e)
  BY <1>1 DEF Even
<1>3. CASE \E c \in Client : BeginCall(c) \/ WaitAgain(c) \/ TakeAnswer(c)
  BY <1>3, CallerEven
<1>4. CASE Dequeue
  BY <1>2, <1>4, DequeueEven
<1>5. CASE Handle
  <2>1. FlowStep
    BY <1>5, HandleFlow
  <2> QED BY <1>2, <2>1, HandleDue, Zenon
<1>6. CASE Behind
  BY <1>2, <1>6, BehindDue, Zenon
<1>7. CASE UNCHANGED vars
  BY <1>1, <1>7, StillEven
<1> QED BY <1>3, <1>4, <1>5, <1>6, <1>7, Zenon DEF Next, Behind

\* At first nobody waits and nothing is due.
LEMMA InitCounts ==
  ASSUME Init
  PROVE  /\ KindInv /\ CallInv /\ PrepInv /\ FrameInv
         /\ \A e \in ApiEvt : Waiting(e) = 0 /\ Due(e) = 0
<1>1. /\ api_queue = <<>> /\ evt_queue = <<>> /\ results = <<>> /\ cur = NoMessage
      /\ call = [c \in Client |-> Idle] /\ m_state = "STOPPED" /\ prep = FALSE
  BY Zenon DEF Init
<1>2. NoMessage.evt = "none" /\ Idle.evt = "none" /\ Idle.plan = <<>> /\ "none" \notin ApiEvt
  BY MessageFacts DEF Idle
<1>3. \A V : Tally(<<>>, V) = 0
  <2>1. <<>> \in Seq({}) /\ Len(<<>>) = 0
    OBVIOUS
  <2>2. ASSUME NEW V PROVE Tally(<<>>, V) = 0
    <3>1. Tally(<<>>, V) \in Nat /\ Tally(<<>>, V) <= Len(<<>>)
      BY <2>1, TallyType
    <3> QED BY <2>1, <3>1
  <2> QED BY <2>2
<1>4. KindInv
  BY <1>1 DEF KindInv
<1>5. CallInv
  <2>1. Then("none") = <<>>
    BY DEF Then
  <2> QED BY <1>1, <1>2, <2>1 DEF CallInv
<1>6. PrepInv
  <2>1. Tally(evt_queue, Messages("prep_done")) = 0
    BY <1>1, <1>3
  <2> QED BY <1>1, <1>2, <2>1 DEF PrepInv, Preparing, Same
<1>7. FrameInv
  <2>1. 1 .. Len(api_queue) = {}
    BY <1>1
  <2> QED BY <1>1, <1>2, <2>1 DEF FrameInv
<1>8. ASSUME NEW e \in ApiEvt PROVE Waiting(e) = 0 /\ Due(e) = 0
  <2>1. Having(Client, call, e) = {}
    BY <1>1, <1>2 DEF Having
  <2>2. Waiting(e) = 0
    BY <2>1, FS_EmptySet DEF Waiting
  <2>3. Tally(api_queue, Messages(e)) = 0 /\ Tally(results, Answers(e)) = 0
    BY <1>1, <1>3
  <2>4. Same(cur.evt, e) = 0 /\ Held(e) = 0
    BY <1>1, <1>2 DEF Same, Held
  <2> QED BY <2>2, <2>3, <2>4 DEF Due
<1> QED BY <1>4, <1>5, <1>6, <1>7, <1>8

\* Nobody waits for the stop of a capture: no call is made of it.
LEMMA NoWaiter == ASSUME CallInv PROVE Waiting("stop_capture") = 0
<1>1. ASSUME NEW c \in Client, call[c].evt = "stop_capture" PROVE FALSE
  <2>1. PICK k \in Calls[c] : Part(k, "stop_capture")
    BY <1>1 DEF CallInv
  <2>2. k \in Call
    BY ConstFacts
  <2> QED BY <2>1, <2>2, PartOne
<1>2. Having(Client, call, "stop_capture") = {}
  BY <1>1 DEF Having
<1> QED BY <1>2, FS_EmptySet DEF Waiting

\* What is due is owed.
LEMMA DueOwed ==
  ASSUME TypeOK, PrepInv, NEW e \in ApiEvt
  PROVE  Owed(e) = Due(e)
<1>1. /\ QueueOK /\ AnswerOK /\ prep \in BOOLEAN
      /\ api_queue \in Seq(Message) /\ results \in Seq(Result) /\ evt_queue \in Seq(Message)
  BY TypeParts DEF QueueOK, AnswerOK, CamOK
<1>2. Cardinality({i \in DOMAIN api_queue : api_queue[i].evt = e}) = Tally(api_queue, Messages(e))
  <2>1. DOMAIN api_queue = 1 .. Len(api_queue)
    BY <1>1
  <2>2. {i \in DOMAIN api_queue : api_queue[i].evt = e} = {i \in 1 .. Len(api_queue) : api_queue[i] \in Messages(e)}
    BY <1>1, <2>1 DEF Messages
  <2> QED BY <2>2 DEF Tally
<1>3. Cardinality({i \in DOMAIN results : results[i].evt = e}) = Tally(results, Answers(e))
  <2>1. DOMAIN results = 1 .. Len(results)
    BY <1>1
  <2>2. {i \in DOMAIN results : results[i].evt = e} = {i \in 1 .. Len(results) : results[i] \in Answers(e)}
    BY <1>1, <2>1 DEF Answers
  <2> QED BY <2>2 DEF Tally
<1>4. m_state = "PREPARE_SNAPSHOT"
        => prep \/ "prep_done" \in {m.evt : m \in SeqRange(evt_queue) \cup {cur}}
  <2> SUFFICES ASSUME m_state = "PREPARE_SNAPSHOT", ~prep, cur.evt # "prep_done"
               PROVE  "prep_done" \in {m.evt : m \in SeqRange(evt_queue) \cup {cur}}
    BY Zenon
  <2>1. Tally(evt_queue, Messages("prep_done")) \in Nat
        /\ (Tally(evt_queue, Messages("prep_done")) = 0
              <=> \A i \in 1 .. Len(evt_queue) : evt_queue[i] \notin Messages("prep_done"))
    BY <1>1, TallyType
  <2>2. Tally(evt_queue, Messages("prep_done")) # 0
    BY <2>1 DEF PrepInv, Preparing, Same
  <2>3. PICK i \in 1 .. Len(evt_queue) : evt_queue[i].evt = "prep_done"
    BY <2>1, <2>2 DEF Messages
  <2>4. evt_queue[i] \in SeqRange(evt_queue)
    BY <1>1, <2>3 DEF SeqRange
  <2> QED BY <2>3, <2>4, Zenon
<1> DEFINE p == prep \/ "prep_done" \in {m.evt : m \in SeqRange(evt_queue) \cup {cur}}
           a == Cardinality({i \in DOMAIN api_queue : api_queue[i].evt = e})
           r == Cardinality({i \in DOMAIN results : results[i].evt = e})
<1>5. Owed(e) = a + r + (IF cur.evt = e THEN 1 ELSE 0)
                 + (IF e = "prepare_snapshot" /\ m_state = "PREPARE_SNAPSHOT" /\ p THEN 1 ELSE 0)
  BY Zenon DEF Owed
<1>6. a = Tally(api_queue, Messages(e)) /\ r = Tally(results, Answers(e))
      /\ (m_state = "PREPARE_SNAPSHOT" => p)
  BY <1>2, <1>3, <1>4, Zenon
<1> HIDE DEF p, a, r
<1> QED BY <1>5, <1>6 DEF Due, Same, Held

\* A number that keeps up with another.
LEMMA KeepsUp ==
  ASSUME NEW d \in Nat, NEW d1 \in Nat, NEW w \in Nat, NEW w1 \in Nat
  PROVE  /\ d1 + w = d + w1 => (w <= d => w1 <= d1) /\ (d <= w => d1 <= w1)
         /\ w1 = w /\ d1 = d + 1 /\ w <= d => w1 <= d1
         /\ w1 = w /\ d1 + 1 = d /\ d <= w => d1 <= w1
  OBVIOUS

\* The counts are numbers after a step too.
LEMMA CountsTyped ==
  ASSUME TypeOK, TypeOK', NEW e
  PROVE  Waiting(e) \in Nat /\ Due(e) \in Nat /\ Waiting(e)' \in Nat /\ Due(e)' \in Nat
<1>1. QueueOK /\ AnswerOK
  BY TypeParts
<1>2. QueueOK' /\ AnswerOK'
  <2>1. TypeOK' => QueueOK' /\ AnswerOK'
    BY TypeParts, PTL
  <2> QED BY <2>1, Zenon
<1>3. QueueOK /\ AnswerOK => Waiting(e) \in Nat /\ Due(e) \in Nat
  BY CountType
<1>4. Waiting(e)' \in Nat
  <2>1. Having(Client, call', e) \in SUBSET Client
    BY DEF Having
  <2> QED BY <2>1, ConstFacts, FS_Subset, FS_CardinalityType DEF Waiting
<1>5. Due(e)' \in Nat
  <2>1. Tally(api_queue', Messages(e)) \in Nat /\ Tally(results', Answers(e)) \in Nat
    BY <1>2, TallyType DEF QueueOK, AnswerOK
  <2>2. Same(cur'.evt, e) \in Nat /\ Held(e)' \in Nat
    BY DEF Same, Held
  <2>3. Due(e)' = Tally(api_queue', Messages(e)) + Tally(results', Answers(e)) + Same(cur'.evt, e) + Held(e)'
    BY Zenon DEF Due
  <2> QED BY <2>1, <2>2, <2>3
<1> QED BY <1>1, <1>3, <1>4, <1>5

\* For every waiting thread something is due.
ServedInv == \A e \in ApiEvt : Waiting(e) <= Due(e)

\* Every thread that waits has an answer or a message or a state that owes it one,
\* when no frame is given back outside recording: for all callers and calls, and
\* every failure of the hardware.
THEOREM WaitersServed == ~LateRelease => (Spec => []EveryWaiterServed)
<1> SUFFICES ASSUME ~LateRelease PROVE Spec => []EveryWaiterServed
  OBVIOUS
<1> DEFINE Inv == KindInv /\ CallInv /\ PrepInv /\ FrameInv /\ ServedInv
<1>1. Init => Inv
  BY InitCounts DEF ServedInv
<1>2. TypeOK /\ TypeOK' /\ Inv /\ [Next]_vars => Inv'
  <2> SUFFICES ASSUME TypeOK, TypeOK', Inv, [Next]_vars PROVE Inv'
    OBVIOUS
  <2>1. KindInv' /\ CallInv'
    BY CallsKept
  <2>2. PrepInv'
    BY PrepKept
  <2>3. FrameInv'
    BY FrameKept
  <2>4. ASSUME NEW e \in ApiEvt PROVE Waiting(e)' <= Due(e)'
    <3> DEFINE d  == Due(e)
               d1 == Due(e)'
               w  == Waiting(e)
               w1 == Waiting(e)'
    <3>1. d \in Nat /\ d1 \in Nat /\ w \in Nat /\ w1 \in Nat /\ w <= d
      BY CountsTyped DEF ServedInv
    <3>2. \/ d1 + w = d + w1
          \/ w1 = w /\ d1 = d + 1
          \/ w1 = w /\ cur.evt = e /\ e = "stop_capture"
          \/ w1 = w /\ cur.evt = e /\ e = "release_frame" /\ m_state \notin {"RECORDING", "VIDEO_PIC"}
      BY StepCounts, Zenon DEF Even
    <3>3. e = "stop_capture" => w = 0
      BY NoWaiter
    <3>4. ~(cur.evt = "release_frame" /\ m_state \notin {"RECORDING", "VIDEO_PIC"})
      BY DEF FrameInv
    <3> HIDE DEF d, d1, w, w1
    <3>5. w1 <= d1
      <4>1. CASE (d1 + w = d + w1) \/ (w1 = w /\ d1 = d + 1)
        BY <3>1, <4>1, KeepsUp
      <4>2. CASE w1 = w /\ w = 0
        BY <3>1, <4>2
      <4>3. (d1 + w = d + w1) \/ (w1 = w /\ d1 = d + 1) \/ (w1 = w /\ w = 0)
        BY <3>2, <3>3, <3>4
      <4> QED BY <4>1, <4>2, <4>3, Zenon
    <3> QED BY <3>5, Zenon DEF d1, w1
  <2>5. ServedInv'
    BY <2>4, Zenon DEF ServedInv
  <2> QED BY <2>1, <2>2, <2>3, <2>5
<1>3. TypeOK /\ Inv => EveryWaiterServed
  <2> SUFFICES ASSUME TypeOK, Inv, NEW e \in ApiEvt
               PROVE  Cardinality({c \in Client : call[c].evt = e}) <= Owed(e)
    BY DEF EveryWaiterServed
  <2>1. Cardinality({c \in Client : call[c].evt = e}) = Waiting(e)
    BY Zenon DEF Waiting, Having
  <2>2. Waiting(e) <= Due(e) /\ Owed(e) = Due(e)
    BY DueOwed DEF ServedInv
  <2> QED BY <2>1, <2>2
<1> QED BY <1>1, <1>2, <1>3, TypeCorrect, PTL DEF Spec

\* For every message or answer of a call that lends its argument somebody waits:
\* cancels and stops the machine sends to itself are the only answers to spare.
Own == {"cancel", "stop_capture"}
ClaimedInv == \A e \in ApiEvt \ Own : Due(e) <= Waiting(e)

\* No step makes more due than is waited for.
LEMMA ClaimedKept == ASSUME TypeOK, TypeOK', KindInv, ClaimedInv, [Next]_vars PROVE ClaimedInv'
<1>1. ASSUME NEW e \in ApiEvt \ Own PROVE Due(e)' <= Waiting(e)'
  <2> DEFINE d  == Due(e)
             d1 == Due(e)'
             w  == Waiting(e)
             w1 == Waiting(e)'
  <2>1. d \in Nat /\ d1 \in Nat /\ w \in Nat /\ w1 \in Nat /\ d <= w
    BY CountsTyped DEF ClaimedInv
  <2>2. e \in ApiEvt /\ e \notin {"cancel", "stop_capture"}
    BY DEF Own
  <2>3. (d1 + w = d + w1) \/ (w1 = w /\ d1 + 1 = d)
    BY <2>2, StepCounts, Zenon DEF Even
  <2> HIDE DEF d, d1, w, w1
  <2>4. d1 <= w1
    BY <2>1, <2>3, KeepsUp
  <2> QED BY <2>4, Zenon DEF d1, w1
<1> QED BY <1>1, Zenon DEF ClaimedInv

\* The calls whose message points into the caller's memory.
Lending == {"set_window", "enable", "disable", "set_params", "release_frame"}

\* A message in the queue or in hand is due.
LEMMA SubmittedDue ==
  ASSUME TypeOK, KindInv, NEW m \in Submitted, m.evt \in ApiEvt
  PROVE  m \in ApiMsg /\ Due(m.evt) >= 1
<1>1. /\ QueueOK /\ AnswerOK /\ api_queue \in Seq(Message) /\ api_queue \in Seq(ApiMsg)
      /\ "none" \notin ApiEvt /\ NoMessage.evt = "none"
  BY TypeParts, MessageFacts DEF QueueOK, KindInv
<1> DEFINE k == m.evt
           a == Tally(api_queue, Messages(k))
           r == Tally(results, Answers(k))
           u == Same(cur.evt, k)
           h == Held(k)
<1>2. a \in Nat /\ r \in Nat /\ u \in Nat /\ h \in Nat /\ Due(k) = a + r + u + h
  BY <1>1, DueParts
<1>3. CASE m = cur
  <2>1. cur \in ApiMsg
    <3>1. cur \notin EvtMsg /\ cur # NoMessage
      <4>1. \A x \in ApiEvt : x \notin Evt
        BY DEF ApiEvt, Evt
      <4> QED BY <1>1, <1>3, <4>1 DEF EvtMsg
    <3> QED BY <3>1 DEF KindInv
  <2>2. u = 1
    BY <1>3 DEF Same
  <2> HIDE DEF a, r, u, h, k
  <2>3. Due(k) >= 1
    BY <1>2, <2>2
  <2> QED BY <1>3, <2>1, <2>3 DEF k
<1>4. CASE m \in SeqRange(api_queue)
  <2>1. PICK i \in 1 .. Len(api_queue) : m = api_queue[i]
    BY <1>1, <1>4 DEF SeqRange
  <2>2. m \in ApiMsg /\ m \in Message
    BY <1>1, <2>1
  <2>3. m \in Messages(k)
    BY <2>2 DEF Messages
  <2>4. a = 0 <=> \A j \in 1 .. Len(api_queue) : api_queue[j] \notin Messages(k)
    BY <1>1, TallyType
  <2>5. a # 0
    BY <2>1, <2>3, <2>4
  <2> HIDE DEF a, r, u, h, k
  <2>6. Due(k) >= 1
    BY <1>2, <2>5
  <2> QED BY <2>2, <2>6 DEF k
<1> QED BY <1>3, <1>4 DEF Submitted

\* A caller's argument is alive until the machine has read it, whatever answers
\* are left over: for all callers, as long as no two of them make the same call
\* with an argument, and every failure of the hardware.
THEOREM ArgumentAlive ==
  ASSUME \A c, d \in Client : \A k \in Lending : k \in Calls[c] /\ k \in Calls[d] => c = d
  PROVE  Spec => []PayloadAlive
<1> DEFINE Inv == KindInv /\ CallInv /\ ClaimedInv
<1>1. Init => Inv
  BY InitCounts DEF ClaimedInv
<1>2. TypeOK /\ TypeOK' /\ Inv /\ [Next]_vars => Inv'
  <2> SUFFICES ASSUME TypeOK, TypeOK', Inv, [Next]_vars PROVE Inv'
    OBVIOUS
  <2>1. KindInv' /\ CallInv'
    BY CallsKept
  <2>2. ClaimedInv'
    BY ClaimedKept
  <2> QED BY <2>1, <2>2
<1>3. TypeOK /\ Inv => PayloadAlive
  <2> SUFFICES ASSUME TypeOK, Inv, NEW m \in Submitted, m.evt \in Lending
               PROVE  call[m.from].evt = m.evt
    BY Zenon DEF PayloadAlive, Lending
  <2>1. m.evt \in ApiEvt \ Own /\ m.evt # "none"
    BY DEF Lending, ApiEvt, Own
  <2>2. m \in ApiMsg /\ Due(m.evt) >= 1
    BY <2>1, SubmittedDue
  <2>3. m.from \in Client /\ m.evt \in Calls[m.from]
    BY <2>2 DEF ApiMsg, Lending
  <2>4. Waiting(m.evt) # 0
    <3>1. Due(m.evt) \in Nat /\ Waiting(m.evt) \in Nat /\ Due(m.evt) <= Waiting(m.evt)
      BY <2>1, TypeParts, CountType DEF ClaimedInv
    <3> QED BY <2>2, <3>1
  <2>5. Having(Client, call, m.evt) # {}
    BY <2>4, FS_EmptySet DEF Waiting
  <2>6. PICK c \in Client : call[c].evt = m.evt
    BY <2>5 DEF Having
  <2>7. PICK k \in Calls[c] : Part(k, m.evt)
    BY <2>1, <2>6 DEF CallInv
  <2>8. m.evt = k
    BY <2>7, ConstFacts, PartOne DEF Lending
  <2>9. c = m.from
    BY <2>3, <2>7, <2>8
  <2> QED BY <2>6, <2>9
<1> QED BY <1>1, <1>2, <1>3, TypeCorrect, PTL DEF Spec

-----------------------------------------------------------------------------
(* The states and the channels they stand for.                                 *)

ParamEvts == {"set_params", "params_stop", "params_commit", "params_restart"}

\* Preview runs on no channel, and on exactly one.
Dark(c) == c["zsl"] # "on" /\ c["preview"] # "on"
Lit(c) == \/ c["zsl"] = "on" /\ c["preview"] # "on"
          \/ c["zsl"] # "on" /\ c["preview"] = "on"

\* What runs in a state, and what may run while it is restarted.
Fits(s, c) ==
  /\ s \in {"STOPPED", "READY", "PIC_TAKING"} => Dark(c)
  /\ s \notin {"STOPPED", "READY", "PIC_TAKING"} => Lit(c)
  /\ c["video"] = "on" <=> s \in {"RECORDING", "VIDEO_PIC"}
  /\ c["capture"] = "on" => s = "PIC_TAKING"
Bare(s, c) == s = "PREVIEWING" /\ Dark(c) /\ c["video"] # "on" /\ c["capture"] # "on"

\* A picture is taken in the mode its state is for.
ModeFits(s, p) == (s = "PIC_TAKING" => ~p.zsl) /\ (s = "PREVIEW_PIC" => p.zsl)

\* Neither video nor a capture runs.
Plain(c) == c["video"] # "on" /\ c["capture"] # "on"

\* All but the snapshot channel, as far as it runs.
AlikeOn(c, d) == \A x \in {"zsl", "preview", "video", "capture"} : c[x] = "on" <=> d[x] = "on"

\* States do not tell apart channels that run alike.
LEMMA AlikeFits ==
  ASSUME NEW c, NEW d, AlikeOn(c, d), NEW s
  PROVE  (Fits(s, c) => Fits(s, d)) /\ (Bare(s, c) => Bare(s, d)) /\ (Dark(c) => Dark(d))
  BY DEF AlikeOn, Fits, Bare, Dark, Lit

\* What the states need of the channels.
LEMMA FitsFacts ==
  ASSUME NEW c, NEW s \in State
  PROVE  /\ Fits(s, c) /\ s \in {"STOPPED", "READY"} => Dark(c) /\ Plain(c)
         /\ Fits(s, c) /\ s \in {"PREVIEWING", "PREPARE_SNAPSHOT", "PREVIEW_PIC"} => Lit(c) /\ Plain(c)
         /\ Fits(s, c) /\ s = "PIC_TAKING" => Dark(c) /\ c["video"] # "on"
         /\ Fits(s, c) /\ s \in {"RECORDING", "VIDEO_PIC"} => Lit(c) /\ c["video"] = "on" /\ c["capture"] # "on"
         /\ Dark(c) /\ Plain(c) /\ s \in {"STOPPED", "READY"} => Fits(s, c)
         /\ Lit(c) /\ Plain(c) /\ s \in {"PREVIEWING", "PREPARE_SNAPSHOT", "PREVIEW_PIC"} => Fits(s, c)
         /\ Dark(c) /\ c["video"] # "on" /\ s = "PIC_TAKING" => Fits(s, c)
         /\ Lit(c) /\ c["video"] = "on" /\ c["capture"] # "on" /\ s \in {"RECORDING", "VIDEO_PIC"}
              => Fits(s, c)
  BY DEF Fits, Plain, State

\* Preview stopped, prepared, and started where it did not run.
LEMMA DarkFacts ==
  ASSUME NEW c \in Channels, NEW p
  PROVE  /\ Dark(UnpreparePreview(c)) /\ UnpreparePreview(c)["video"] # "on"
         /\ UnpreparePreview(c)["capture"] = c["capture"] /\ StopPreview(c) = UnpreparePreview(c)
         /\ Dark(c) => Dark(Prepared(c, p))
         /\ c["video"] # "on" => Prepared(c, p)["video"] # "on"
         /\ Prepared(c, p)["capture"] = c["capture"]
         /\ Dark(c) => Lit(Started(c, p))
         /\ c["video"] # "on" => Started(c, p)["video"] # "on"
         /\ Started(c, p)["capture"] = c["capture"]
<1>1. "zsl" \in Chan /\ "preview" \in Chan /\ "video" \in Chan /\ "capture" \in Chan
  BY DEF Chan
<1>2. /\ \A x \in Chan : UnpreparePreview(c)[x] = IF x = "capture" THEN c[x] ELSE "none"
      /\ StopPreview(c) = UnpreparePreview(c)
  BY StopFacts
<1>3. /\ \A x \in Chan : Prepared(c, p)[x] = IF x \in ModeChannels(p) THEN "added" ELSE c[x]
      /\ \A x \in Chan : x # PreviewChan(p) => Started(c, p)[x] = Prepared(c, p)[x]
      /\ Started(c, p)[PreviewChan(p)] = "on"
  BY StartedFacts
<1>4. PreviewChan(p) \in {"zsl", "preview"} /\ "capture" \notin ModeChannels(p)
  BY ModeFacts
<1>5. Dark(UnpreparePreview(c)) /\ UnpreparePreview(c)["video"] # "on"
      /\ UnpreparePreview(c)["capture"] = c["capture"]
  BY <1>1, <1>2 DEF Dark
<1>6. (Dark(c) => Dark(Prepared(c, p))) /\ (c["video"] # "on" => Prepared(c, p)["video"] # "on")
      /\ Prepared(c, p)["capture"] = c["capture"]
  BY <1>1, <1>3, <1>4 DEF Dark
<1>7. Dark(c) => Lit(Started(c, p))
  BY <1>1, <1>3, <1>4, <1>6 DEF Dark, Lit
<1>8. (c["video"] # "on" => Started(c, p)["video"] # "on") /\ Started(c, p)["capture"] = c["capture"]
  BY <1>1, <1>3, <1>4, <1>6
<1> QED BY <1>2, <1>5, <1>6, <1>7, <1>8

\* Preview restarted from scratch.
LEMMA AgainFacts ==
  ASSUME NEW c \in Channels, NEW p, Plain(c)
  PROVE  Lit(Started(UnpreparePreview(c), p)) /\ Plain(Started(UnpreparePreview(c), p))
<1>1. UnpreparePreview(c) \in Channels
  BY StopFacts
<1>2. Dark(UnpreparePreview(c)) /\ Plain(UnpreparePreview(c))
  BY DarkFacts DEF Plain
<1> QED BY <1>1, <1>2, DarkFacts DEF Plain

\* A channel set on, or stopped, that is none of preview.
LEMMA OtherFacts ==
  ASSUME NEW c \in Channels, NEW x \in {"video", "capture"}
  PROVE  /\ SetChannels(c, {x}, "on")[x] = "on" /\ StopChannel(c, x)[x] # "on"
         /\ \A y \in Chan : y # x => /\ SetChannels(c, {x}, "on")[y] = c[y]
                                     /\ StopChannel(c, x)[y] = c[y]
         /\ Lit(c) => Lit(SetChannels(c, {x}, "on")) /\ Lit(StopChannel(c, x))
         /\ Dark(c) => Dark(SetChannels(c, {x}, "on")) /\ Dark(StopChannel(c, x))
<1>1. x \in Chan /\ "zsl" \in Chan /\ "preview" \in Chan /\ x # "zsl" /\ x # "preview"
  BY DEF Chan
<1>2. \A y \in Chan : SetChannels(c, {x}, "on")[y] = IF y \in {x} THEN "on" ELSE c[y]
  BY SetFacts
<1>3. \A y \in Chan : StopChannel(c, x)[y] = IF y = x /\ c[x] = "on" THEN "added" ELSE c[y]
  BY <1>1, StopFacts
<1> QED BY <1>1, <1>2, <1>3 DEF Lit, Dark

-----------------------------------------------------------------------------
(* What the handlers do to state, channels and mode.                           *)

Unmoved == UNCHANGED <<m_state, m_channels, params>>
Moved(s, c, p) == m_state' = s /\ m_channels' = c /\ params' = p

\* A handler outside a change of parameters: the states fit after it, and pictures
\* begin with take.
Moves ==
  /\ params'.needRestart = params.needRestart
  /\ Fits(m_state', m_channels') /\ ModeFits(m_state', params')
  /\ m_state' \in {"PIC_TAKING", "PREVIEW_PIC"} => m_state' = m_state \/ cur.evt = "take"

\* The calls that may change what runs: all but those that ask, switch a message,
\* give a frame back or cancel a picture.
Gentle == {"query", "preview_enabled", "enable", "disable", "cancel", "release_frame"}
Driving == ApiEvt \ (Gentle \cup {"stop_capture"})

\* The handlers before it stand in states that fit.
Placed ==
  /\ CamOK /\ Failing \cap {"prepare", "start"} = {} /\ cur.evt \notin ParamEvts
  /\ Fits(m_state, m_channels) /\ ModeFits(m_state, params)

\* Where handlers move to.
LEMMA MovedFacts ==
  /\ \A s, c, p : Settle(s, c, p) \/ Become(s, c, p) => Moved(s, c, p)
  /\ \A ok : Reply(ok) => Unmoved
  /\ Remain => Unmoved
  /\ UNCHANGED <<m_state, cameraVars, shot>> => Unmoved
  BY Zenon DEF Settle, Become, Moved, Reply, Remain, Unmoved, cameraVars

\* A move to a state that fits.
LEMMA MovesTo ==
  ASSUME NEW s, NEW c, NEW p, Moved(s, c, p), p.needRestart = params.needRestart, Fits(s, c),
         ModeFits(s, p), s \in {"PIC_TAKING", "PREVIEW_PIC"} => s = m_state \/ cur.evt = "take"
  PROVE  Moves
  BY DEF Moved, Moves

\* No move.
LEMMA MovesNot == Placed /\ Unmoved => Moves
  BY DEF Placed, Unmoved, Moves

\* The handlers that most states share move nothing but for parameters.
LEMMA SharedMoves ==
  ASSUME cur.evt \notin ParamEvts,
         SetParams \/ SetParamsRecording \/ CommitParams \/ DropRestart \/ NothingToDo \/ Ignore
           \/ CloseFrame \/ MsgType
  PROVE  Unmoved
<1>1. ~On({"set_params"}) /\ ~On({"params_commit"}) /\ ~On({"params_restart"})
  BY DEF On, ParamEvts
<1> QED BY <1>1, MovedFacts, Zenon DEF SetParams, SetParamsRecording, CommitParams, DropRestart,
       NothingToDo, Ignore, CloseFrame, MsgType

\* What there is to work with.
LEMMA PlacedFacts ==
  ASSUME Placed
  PROVE  /\ m_state \in State /\ m_channels \in Channels /\ params \in Params
         /\ "prepare" \notin Failing /\ "start" \notin Failing
         /\ ~On({"set_params"}) /\ ~On({"params_stop"})
         /\ ~On({"params_commit"}) /\ ~On({"params_restart"})
  BY DEF Placed, CamOK, On, ParamEvts

\* Stopped: preview is prepared or started from nothing.
LEMMA StoppedMoves == Placed /\ StoppedState => Moves
<1> SUFFICES ASSUME Placed, StoppedState PROVE Moves
  OBVIOUS
<1>1. m_state = "STOPPED" /\ Dark(m_channels) /\ Plain(m_channels) /\ m_channels \in Channels
      /\ Failing \cap {"prepare", "start"} = {}
  BY PlacedFacts, FitsFacts, Zenon DEF StoppedState, Placed
<1>2. CASE StoppedReplies
  BY <1>2, MovesNot, MovedFacts, Zenon DEF StoppedReplies
<1>3. CASE SetPreviewWindow
  BY <1>3, MovesNot, Zenon DEF SetPreviewWindow, Unmoved
<1>4. CASE StoppedPreview
  <2>1. ASSUME NEW o \in PreparePreview(m_channels, params),
               Settle(IF o.ok THEN "READY" ELSE m_state, o.ch, params)
        PROVE  Moves
    <3>1. o.ok /\ o.ch = Prepared(m_channels, params)
      BY <1>1, PrepareFacts
    <3>2. Dark(o.ch) /\ Plain(o.ch)
      BY <1>1, <3>1, DarkFacts DEF Plain
    <3>3. Moved("READY", o.ch, params)
      BY <2>1, <3>1, MovedFacts
    <3> QED BY <3>2, <3>3, MovesTo, FitsFacts DEF ModeFits, State
  <2>2. ASSUME NEW o \in PrepareAndStart(m_channels, params),
               Settle(IF o.ok THEN "PREVIEWING" ELSE m_state, o.ch, params)
        PROVE  Moves
    <3>1. o.ok /\ o.ch = Started(m_channels, params)
      BY <1>1, BothFacts
    <3>2. Lit(o.ch) /\ Plain(o.ch)
      BY <1>1, <3>1, DarkFacts DEF Plain
    <3>3. Moved("PREVIEWING", o.ch, params)
      BY <2>2, <3>1, MovedFacts
    <3> QED BY <3>2, <3>3, MovesTo, FitsFacts DEF ModeFits, State
  <2>3. ASSUME Settle(m_state, [x \in Chan |-> "none"], params) PROVE Moves
    <3>1. Dark([x \in Chan |-> "none"]) /\ Plain([x \in Chan |-> "none"])
      BY DEF Dark, Plain, Chan
    <3>2. Moved("STOPPED", [x \in Chan |-> "none"], params)
      BY <1>1, <2>3, MovedFacts
    <3> QED BY <3>1, <3>2, MovesTo, FitsFacts DEF ModeFits, State
  <2> QED BY <1>4, <2>1, <2>2, <2>3, Zenon DEF StoppedPreview
<1>5. CASE MsgType \/ SetParams \/ CommitParams \/ DropRestart \/ CloseFrame \/ NothingToDo \/ Ignore
  <2>1. Unmoved
    BY <1>5, SharedMoves DEF Placed
  <2> QED BY <2>1, MovesNot
<1> QED BY <1>2, <1>3, <1>4, <1>5, Zenon DEF StoppedState

\* Ready: preview starts on what was prepared, or all of it goes.
LEMMA ReadyMoves == Placed /\ ReadyState => Moves
<1> SUFFICES ASSUME Placed, ReadyState PROVE Moves
  OBVIOUS
<1>1. m_state = "READY" /\ Dark(m_channels) /\ Plain(m_channels) /\ m_channels \in Channels
  BY PlacedFacts, FitsFacts, Zenon DEF ReadyState, Placed
<1>2. CASE ReadyReplies
  BY <1>2, MovesNot, MovedFacts, Zenon DEF ReadyReplies
<1>3. CASE ReadyPreview
  <2>1. ASSUME NEW o \in StartOrUnprepare(m_channels, params),
               m_state' = IF o.ok THEN "PREVIEWING" ELSE "STOPPED", m_channels' = o.ch,
               params' = params
        PROVE  Moves
    <3>1. CASE o.ok
      <4> DEFINE x == PreviewChan(params)
      <4>1. x \in {"zsl", "preview"} /\ o.ch = SetChannels(m_channels, {x}, "on")
        BY <1>1, <3>1, ModeFacts, StartOrUnprepareFacts
      <4>2. \A y \in Chan : o.ch[y] = IF y \in {x} THEN "on" ELSE m_channels[y]
        BY <1>1, <4>1, SetFacts
      <4> HIDE DEF x
      <4>3. Lit(o.ch) /\ Plain(o.ch)
        BY <1>1, <4>1, <4>2 DEF Dark, Lit, Plain, Chan
      <4>4. Moved("PREVIEWING", o.ch, params)
        BY <2>1, <3>1 DEF Moved
      <4> QED BY <4>3, <4>4, MovesTo, FitsFacts DEF ModeFits, State
    <3>2. CASE ~o.ok
      <4>1. o.ch = UnpreparePreview(m_channels)
        BY <1>1, <3>2, StartOrUnprepareFacts
      <4>2. Dark(o.ch) /\ Plain(o.ch)
        BY <1>1, <4>1, DarkFacts DEF Plain
      <4>3. Moved("STOPPED", o.ch, params)
        BY <2>1, <3>2 DEF Moved
      <4> QED BY <4>2, <4>3, MovesTo, FitsFacts DEF ModeFits, State
    <3> QED BY <3>1, <3>2
  <2>2. CASE SetPreviewWindow
    BY <2>2, MovesNot, Zenon DEF SetPreviewWindow, Unmoved
  <2>3. CASE Reply(TRUE)
    BY <2>3, MovesNot, MovedFacts
  <2>4. CASE Settle("STOPPED", UnpreparePreview(m_channels), params)
    <3>1. Dark(UnpreparePreview(m_channels)) /\ Plain(UnpreparePreview(m_channels))
      BY <1>1, DarkFacts DEF Plain
    <3>2. Moved("STOPPED", UnpreparePreview(m_channels), params)
      BY <2>4, MovedFacts
    <3> QED BY <3>1, <3>2, MovesTo, FitsFacts DEF ModeFits, State
  <2> QED BY <1>3, <2>1, <2>2, <2>3, <2>4, Zenon DEF ReadyPreview
<1>4. ~ReadyRestart
  BY PlacedFacts, Zenon DEF ReadyRestart
<1>5. CASE MsgType \/ SetParams \/ CommitParams \/ CloseFrame \/ NothingToDo \/ Ignore
  <2>1. Unmoved
    BY <1>5, SharedMoves DEF Placed
  <2> QED BY <2>1, MovesNot
<1> QED BY <1>2, <1>3, <1>4, <1>5, Zenon DEF ReadyState

\* A picture is requested while preview runs in the mode of o.
LEMMA TakeMoves ==
  ASSUME Placed, m_state = "PREVIEWING", NEW o, o.ch \in Channels, Lit(o.ch), Plain(o.ch),
         o.par.needRestart = params.needRestart, cur.evt = "take",
         (o.par.zsl /\ TakeZsl(o)) \/ (~o.par.zsl /\ TakeCapture(o))
  PROVE  Moves
<1>1. CASE o.par.zsl /\ TakeZsl(o)
  <2>1. PICK t \in TakePicture(o.ch, o.par) :
          Become(IF t.ok THEN "PREVIEW_PIC" ELSE "PREVIEWING", t.ch, o.par)
    BY <1>1, Zenon DEF TakeZsl
  <2> DEFINE s == IF t.ok THEN "PREVIEW_PIC" ELSE "PREVIEWING"
  <2>2. t.ch = o.ch
    BY <1>1, TakeFacts
  <2>3. s \in {"PREVIEW_PIC", "PREVIEWING"} /\ Moved(s, o.ch, o.par)
    BY <2>1, <2>2, MovedFacts
  <2> HIDE DEF s
  <2>4. Fits(s, o.ch) /\ ModeFits(s, o.par)
    BY <1>1, <2>3, FitsFacts DEF ModeFits, State
  <2> QED BY <2>3, <2>4, MovesTo
<1>2. CASE ~o.par.zsl /\ TakeCapture(o)
  <2>1. PICK t \in TakePicture(o.ch, o.par) :
          IF t.ok THEN Become("PIC_TAKING", t.ch, o.par)
          ELSE \E r \in PrepareAndStart(StopPreview(t.ch), o.par) :
                 Become(IF r.ok THEN "PREVIEWING" ELSE "STOPPED", r.ch, o.par)
    BY <1>2, Zenon DEF TakeCapture
  <2>2. t.ch \in Channels /\ t.ok \in BOOLEAN
    BY TakeFacts
  <2>3. CASE t.ok
    <3> DEFINE u == UnpreparePreview(o.ch)
    <3>1. u \in Channels /\ Dark(u) /\ u["video"] # "on"
      BY StopFacts, DarkFacts
    <3>2. t.ch = SetChannels(u, {"capture"}, "on")
      BY <1>2, <2>3, TakeFacts
    <3> HIDE DEF u
    <3>3. Dark(t.ch) /\ t.ch["video"] # "on"
      BY <3>1, <3>2, OtherFacts DEF Chan
    <3>4. Moved("PIC_TAKING", t.ch, o.par)
      BY <2>1, <2>3, MovedFacts
    <3> QED BY <1>2, <3>3, <3>4, MovesTo, FitsFacts DEF ModeFits, State
  <2>4. CASE ~t.ok
    <3>1. PICK r \in PrepareAndStart(StopPreview(t.ch), o.par) :
            Become(IF r.ok THEN "PREVIEWING" ELSE "STOPPED", r.ch, o.par)
      BY <2>1, <2>4, Zenon
    <3> DEFINE u == UnpreparePreview(t.ch)
    <3>2. u \in Channels /\ StopPreview(t.ch) = u /\ Dark(u) /\ Plain(u)
      <4>1. t.ch["capture"] # "on"
        BY <1>2, <2>4, TakeFacts DEF Plain
      <4> QED BY <2>2, <4>1, StopFacts, DarkFacts DEF Plain
    <3> HIDE DEF u
    <3>3. r.ok /\ r.ch = Started(u, o.par)
      BY <3>1, <3>2, BothFacts DEF Placed
    <3>4. Lit(r.ch) /\ Plain(r.ch)
      BY <3>2, <3>3, DarkFacts DEF Plain
    <3>5. Moved("PREVIEWING", r.ch, o.par)
      BY <3>1, <3>3, MovedFacts
    <3> QED BY <3>4, <3>5, MovesTo, FitsFacts DEF ModeFits, State
  <2> QED BY <2>2, <2>3, <2>4
<1> QED BY <1>1, <1>2

\* Previewing: preview goes on, restarted for video or for a picture, or makes way.
LEMMA PreviewingMoves == Placed /\ PreviewingState => Moves
<1> SUFFICES ASSUME Placed, PreviewingState PROVE Moves
  OBVIOUS
<1>1. m_state = "PREVIEWING" /\ Lit(m_channels) /\ Plain(m_channels) /\ m_channels \in Channels
      /\ params \in Params /\ Failing \cap {"prepare", "start"} = {}
  BY PlacedFacts, FitsFacts, Zenon DEF PreviewingState, Placed
<1>2. ASSUME NEW c, NEW p, Lit(c), Plain(c), p.needRestart = params.needRestart, Moved("PREVIEWING", c, p)
      PROVE  Moves
  BY <1>2, MovesTo, FitsFacts DEF ModeFits, State
<1>3. CASE PreviewingReplies \/ PreviewingMsgType
  BY <1>3, MovesNot, MovedFacts, Zenon DEF PreviewingReplies, PreviewingMsgType
<1>4. ~PreviewingRestart
  BY PlacedFacts, Zenon DEF PreviewingRestart
<1>5. CASE PreviewingPreview
  <2>1. CASE UNCHANGED <<m_state, cameraVars, shot>>
    BY <2>1, MovesNot, MovedFacts
  <2>2. CASE Settle("STOPPED", StopPreview(m_channels), params)
    <3>1. Dark(StopPreview(m_channels)) /\ Plain(StopPreview(m_channels))
      BY <1>1, DarkFacts DEF Plain
    <3>2. Moved("STOPPED", StopPreview(m_channels), params)
      BY <2>2, MovedFacts
    <3> QED BY <3>1, <3>2, MovesTo, FitsFacts DEF ModeFits, State
  <2> QED BY <1>5, <2>1, <2>2, Zenon DEF PreviewingPreview
<1>6. CASE PreviewingRecord
  <2>1. ASSUME NEW o \in PreStartRecording(m_channels, params), Settle(m_state, o.ch, o.par)
        PROVE  Moves
    <3>1. /\ o.par.needRestart = params.needRestart
          /\ o.ch = m_channels \/ o.ch = Started(UnpreparePreview(m_channels), o.par)
      BY <1>1, PreStartFacts
    <3>2. Lit(o.ch) /\ Plain(o.ch)
      BY <1>1, <3>1, AgainFacts
    <3> QED BY <1>1, <1>2, <2>1, <3>1, <3>2, MovedFacts
  <2>2. ASSUME NEW o \in StartChannel(m_channels, "video", "record"),
               Settle(IF o.ok THEN "RECORDING" ELSE m_state, o.ch, params)
        PROVE  Moves
    <3>1. /\ o.ok \in BOOLEAN /\ (o.ok => o.ch = SetChannels(m_channels, {"video"}, "on"))
          /\ ~o.ok => o.ch = m_channels
      BY <1>1, StartFacts DEF Chan
    <3>2. CASE o.ok
      <4>1. Lit(o.ch) /\ o.ch["video"] = "on" /\ o.ch["capture"] # "on"
        BY <1>1, <3>1, <3>2, OtherFacts DEF Plain, Chan
      <4>2. Moved("RECORDING", o.ch, params)
        BY <2>2, <3>2, MovedFacts
      <4> QED BY <4>1, <4>2, MovesTo, FitsFacts DEF ModeFits, State
    <3>3. CASE ~o.ok
      BY <1>1, <1>2, <2>2, <3>1, <3>3, MovedFacts
    <3> QED BY <3>1, <3>2, <3>3
  <2> QED BY <1>6, <2>1, <2>2, Zenon DEF PreviewingRecord
<1>7. CASE PreviewingPrepareSnapshot
  <2>1. CASE m_state' = "PREPARE_SNAPSHOT" /\ UNCHANGED <<m_channels, params>>
    <3>1. Moved("PREPARE_SNAPSHOT", m_channels, params)
      BY <2>1 DEF Moved
    <3> QED BY <1>1, <3>1, MovesTo, FitsFacts DEF ModeFits, State
  <2>2. CASE Reply(FALSE)
    BY <2>2, MovesNot, MovedFacts
  <2> QED BY <1>7, <2>1, <2>2, Zenon DEF PreviewingPrepareSnapshot
<1>8. ASSUME NEW o \in ClearRecordingHint(m_channels, params)
      PROVE  /\ o.par.needRestart = params.needRestart /\ Lit(o.ch) /\ Plain(o.ch) /\ o.ch \in Channels
  <2>1. /\ o.par.needRestart = params.needRestart /\ o.ch \in Channels
        /\ o.ch = m_channels \/ o.ch = Started(UnpreparePreview(m_channels), o.par)
    BY <1>1, ClearFacts
  <2> QED BY <1>1, <2>1, AgainFacts
<1>9. CASE PreviewingPreTake
  <2>1. PICK o \in ClearRecordingHint(m_channels, params) : Settle(m_state, o.ch, o.par)
    BY <1>9, Zenon DEF PreviewingPreTake
  <2> QED BY <1>1, <1>2, <1>8, <2>1, MovedFacts
<1>10. CASE PreviewingTake
  <2>1. /\ cur.evt = "take"
        /\ \E o \in ClearRecordingHint(m_channels, params) :
             (o.par.zsl /\ TakeZsl(o)) \/ (~o.par.zsl /\ TakeCapture(o))
    BY <1>10 DEF PreviewingTake, On
  <2>2. PICK o \in ClearRecordingHint(m_channels, params) :
          (o.par.zsl /\ TakeZsl(o)) \/ (~o.par.zsl /\ TakeCapture(o))
    BY <2>1
  <2> QED BY <1>1, <1>8, <2>1, <2>2, TakeMoves
<1>11. CASE SetParams \/ CommitParams \/ CloseFrame \/ NothingToDo \/ Ignore
  <2>1. Unmoved
    BY <1>11, SharedMoves DEF Placed
  <2> QED BY <2>1, MovesNot
<1> QED BY <1>3, <1>4, <1>5, <1>6, <1>7, <1>9, <1>10, <1>11, Zenon DEF PreviewingState

\* While the hardware prepares, preview runs.
LEMMA PrepareSnapshotMoves == Placed /\ PrepareSnapshotState => Moves
<1> SUFFICES ASSUME Placed, PrepareSnapshotState PROVE Moves
  OBVIOUS
<1>1. m_state = "PREPARE_SNAPSHOT" /\ Lit(m_channels) /\ Plain(m_channels)
  BY PlacedFacts, FitsFacts, Zenon DEF PrepareSnapshotState, Placed
<1>2. CASE Settle("PREVIEWING", m_channels, params)
  <2>1. Moved("PREVIEWING", m_channels, params)
    BY <1>2, MovedFacts
  <2> QED BY <1>1, <2>1, MovesTo, FitsFacts DEF ModeFits, State
<1>3. CASE Unmoved
  BY <1>3, MovesNot
<1>4. NothingToDo => Unmoved
  BY MovedFacts, Zenon DEF NothingToDo
<1> QED BY <1>2, <1>3, <1>4, MovedFacts, Zenon DEF PrepareSnapshotState

\* A picture is taken: its channel stops, or goes with it.
LEMMA PicTakingMoves == Placed /\ PicTakingState => Moves
<1> SUFFICES ASSUME Placed, PicTakingState PROVE Moves
  OBVIOUS
<1>1. m_state = "PIC_TAKING" /\ Dark(m_channels) /\ m_channels["video"] # "on"
      /\ m_channels \in Channels /\ ~params.zsl
  <2>1. m_state = "PIC_TAKING"
    BY Zenon DEF PicTakingState
  <2> QED BY <2>1, PlacedFacts, FitsFacts DEF Placed, ModeFits
<1>2. CASE PicTakingReplies \/ (On({"prep_done"}) /\ Remain /\ Silent)
  BY <1>2, MovesNot, MovedFacts, Zenon DEF PicTakingReplies
<1>3. CASE PicTakingEnd
  <2> DEFINE c == CancelPicture(m_channels, params)
  <2>1. Moved("STOPPED", c, params)
    BY <1>3, MovedFacts, Zenon DEF PicTakingEnd, EndCapture
  <2>2. (\A x \in Chan : x # "capture" => c[x] = m_channels[x]) /\ c["capture"] = "none"
    BY <1>1, CancelFacts
  <2> HIDE DEF c
  <2>3. Dark(c) /\ Plain(c)
    BY <1>1, <2>2 DEF Dark, Plain, Chan
  <2> QED BY <2>1, <2>3, MovesTo, FitsFacts DEF ModeFits, State
<1>4. CASE StopCaptureChannel
  <2> DEFINE c == StopChannel(m_channels, "capture")
  <2>1. Moved("PIC_TAKING", c, params)
    BY <1>1, <1>4, MovedFacts, Zenon DEF StopCaptureChannel
  <2>2. Dark(c) /\ c["video"] # "on"
    BY <1>1, OtherFacts DEF Chan
  <2> HIDE DEF c
  <2> QED BY <1>1, <2>1, <2>2, MovesTo, FitsFacts DEF ModeFits, State
<1>5. CASE MsgType \/ SetParams \/ CommitParams \/ DropRestart
  <2>1. Unmoved
    BY <1>5, SharedMoves DEF Placed
  <2> QED BY <2>1, MovesNot
<1> QED BY <1>2, <1>3, <1>4, <1>5, Zenon DEF PicTakingState

\* Recording: video stops with its state, and preview with both.
LEMMA RecordingMoves == Placed /\ (RecordingState \/ VideoPicState) => Moves
<1> SUFFICES ASSUME Placed, RecordingState \/ VideoPicState PROVE Moves
  OBVIOUS
<1>1. m_state \in {"RECORDING", "VIDEO_PIC"}
  BY DEF RecordingState, VideoPicState
<1>2. Lit(m_channels) /\ m_channels["video"] = "on" /\ m_channels["capture"] # "on"
      /\ m_channels \in Channels
  BY <1>1, PlacedFacts, FitsFacts DEF Placed
<1>3. CASE RecordingReplies \/ VideoPicReplies
  BY <1>3, MovesNot, MovedFacts, Zenon DEF RecordingReplies, VideoPicReplies
<1>4. ASSUME NEW s \in {"RECORDING", "VIDEO_PIC"}, Moved(s, m_channels, params) PROVE Moves
  BY <1>2, <1>4, MovesTo, FitsFacts DEF ModeFits, State
<1>5. CASE Moved("PREVIEWING", StopChannel(m_channels, "video"), params)
  <2> DEFINE c == StopChannel(m_channels, "video")
  <2>1. Lit(c) /\ Plain(c)
    BY <1>2, OtherFacts DEF Plain, Chan
  <2>2. Moved("PREVIEWING", c, params)
    BY <1>5
  <2> HIDE DEF c
  <2> QED BY <2>1, <2>2, MovesTo, FitsFacts DEF ModeFits, State
<1>6. CASE Moved("STOPPED", StopPreview(m_channels), params)
  <2> DEFINE c == StopPreview(m_channels)
  <2>1. Dark(c) /\ Plain(c)
    BY <1>2, DarkFacts DEF Plain
  <2>2. Moved("STOPPED", c, params)
    BY <1>6
  <2> HIDE DEF c
  <2> QED BY <2>1, <2>2, MovesTo, FitsFacts DEF ModeFits, State
<1>7. CASE RecordingTake
  <2>1. PICK ok \in BOOLEAN : Become(IF ok THEN "VIDEO_PIC" ELSE "RECORDING", m_channels, params)
    BY <1>7, Zenon DEF RecordingTake
  <2> DEFINE s == IF ok THEN "VIDEO_PIC" ELSE "RECORDING"
  <2>2. s \in {"RECORDING", "VIDEO_PIC"} /\ Moved(s, m_channels, params)
    BY <2>1, MovedFacts
  <2> HIDE DEF s
  <2> QED BY <1>4, <2>2
<1>8. CASE RecordingStop
  BY <1>5, <1>6, <1>8, MovedFacts, Zenon DEF RecordingStop
<1>9. CASE VideoPicEnd
  <2>1. "RECORDING" \in {"RECORDING", "VIDEO_PIC"}
    OBVIOUS
  <2> QED BY <1>4, <1>5, <1>6, <1>9, <2>1, MovedFacts, Zenon DEF VideoPicEnd
<1>10. CASE MsgType \/ SetParamsRecording \/ CommitParams \/ NothingToDo \/ Ignore
  <2>1. Unmoved
    BY <1>10, SharedMoves DEF Placed
  <2> QED BY <2>1, MovesNot
<1> QED BY <1>3, <1>7, <1>8, <1>9, <1>10, Zenon DEF RecordingState, VideoPicState

\* A picture is taken from the preview channel, which outlives it.
LEMMA PreviewPicMoves == Placed /\ PreviewPicState => Moves
<1> SUFFICES ASSUME Placed, PreviewPicState PROVE Moves
  OBVIOUS
<1>1. m_state = "PREVIEW_PIC" /\ Lit(m_channels) /\ Plain(m_channels)
      /\ m_channels \in Channels /\ params.zsl
  <2>1. m_state = "PREVIEW_PIC"
    BY Zenon DEF PreviewPicState
  <2> QED BY <2>1, PlacedFacts, FitsFacts DEF Placed, ModeFits
<1>2. CASE PreviewPicReplies
  BY <1>2, MovesNot, MovedFacts, Zenon DEF PreviewPicReplies
<1>3. ~PreviewPicRestart
  BY PlacedFacts, Zenon DEF PreviewPicRestart
<1>4. CASE PreviewPicRecord
  <2>1. Reply(FALSE)
    BY <1>1, <1>4, Zenon DEF PreviewPicRecord
  <2> QED BY <2>1, MovesNot, MovedFacts
<1>5. CASE PreviewPicEnd
  <2>1. \/ Become("STOPPED", StopPreview(m_channels), params)
        \/ Become("PREVIEWING", m_channels, params)
    <3>1. CASE On({"stop_preview"})
      BY <1>5, <3>1, Zenon DEF PreviewPicEnd
    <3>2. CASE ~On({"stop_preview"})
      BY <1>5, <3>2, Zenon DEF PreviewPicEnd
    <3> QED BY <3>1, <3>2
  <2>2. CASE Become("STOPPED", StopPreview(m_channels), params)
    <3> DEFINE c == StopPreview(m_channels)
    <3>1. Dark(c) /\ Plain(c) /\ Moved("STOPPED", c, params)
      BY <1>1, <2>2, DarkFacts, MovedFacts DEF Plain
    <3> HIDE DEF c
    <3> QED BY <3>1, MovesTo, FitsFacts DEF ModeFits, State
  <2>3. CASE Become("PREVIEWING", m_channels, params)
    <3>1. Moved("PREVIEWING", m_channels, params)
      BY <2>3, MovedFacts
    <3> QED BY <1>1, <3>1, MovesTo, FitsFacts DEF ModeFits, State
  <2> QED BY <2>1, <2>2, <2>3
<1>6. CASE MsgType \/ SetParams \/ CommitParams \/ Ignore
  <2>1. Unmoved
    BY <1>6, SharedMoves DEF Placed
  <2> QED BY <2>1, MovesNot
<1> QED BY <1>2, <1>3, <1>4, <1>5, <1>6, Zenon DEF PreviewPicState

\* Whatever message is handled.
LEMMA HandleMoves == Placed /\ Handle => Moves
  BY StoppedMoves, ReadyMoves, PreviewingMoves, PrepareSnapshotMoves, PicTakingMoves,
     RecordingMoves, PreviewPicMoves, Zenon DEF Handle

\* In the states a restart goes through, only calls that may change what runs do.
LEMMA GentleStill ==
  ASSUME Handle, m_state \in {"STOPPED", "READY", "PREVIEWING"}, cur.evt \notin Driving
  PROVE  Unmoved
<1>1. /\ ~On({"prepare_preview"}) /\ ~On({"start_preview"}) /\ ~On({"release"}) /\ ~On({"stop_preview"})
      /\ ~On({"set_window", "start_preview"}) /\ ~On({"pre_start"}) /\ ~On({"start_recording"})
      /\ ~On({"prepare_snapshot"}) /\ ~On({"pre_take"}) /\ ~On({"take"})
      /\ ~On({"set_params"}) /\ ~On({"params_stop"}) /\ ~On({"params_commit"}) /\ ~On({"params_restart"})
  BY DEF On, Driving, ApiEvt, Gentle
<1>2. cur.evt \notin ParamEvts
  BY DEF Driving, ApiEvt, Gentle, ParamEvts
<1>3. SetParams \/ CommitParams \/ DropRestart \/ NothingToDo \/ Ignore \/ CloseFrame \/ MsgType => Unmoved
  BY <1>2, SharedMoves
<1>4. SetPreviewWindow => Unmoved
  BY Zenon DEF SetPreviewWindow, Unmoved
<1>5. CASE StoppedState
  BY <1>1, <1>3, <1>4, <1>5, MovedFacts, Zenon DEF StoppedState, StoppedReplies, StoppedPreview
<1>6. CASE ReadyState
  BY <1>1, <1>3, <1>4, <1>6, MovedFacts, Zenon DEF ReadyState, ReadyReplies, ReadyPreview, ReadyRestart
<1>7. CASE PreviewingState
  <2>1. PreviewingReplies \/ PreviewingMsgType \/ PreviewingPreview => Unmoved
    BY <1>1, MovedFacts, Zenon DEF PreviewingReplies, PreviewingMsgType, PreviewingPreview
  <2>2. ~PreviewingRestart /\ ~PreviewingRecord /\ ~PreviewingPrepareSnapshot /\ ~PreviewingPreTake /\ ~PreviewingTake
    BY <1>1, Zenon DEF PreviewingRestart, PreviewingRecord, PreviewingPrepareSnapshot, PreviewingPreTake, PreviewingTake
  <2> QED BY <1>3, <1>7, <2>1, <2>2, Zenon DEF PreviewingState
<1> QED BY <1>5, <1>6, <1>7 DEF Handle, PrepareSnapshotState, PicTakingState, RecordingState,
       VideoPicState, PreviewPicState

-----------------------------------------------------------------------------
(* One thread drives; the others ask, switch, give back and cancel.            *)

Led(d) == \A c \in Client \ {d} : Calls[c] \subseteq Gentle

\* What is asked of the machine by a driving message, or answered to one, is what
\* the driver waits for; and it is asked or answered once.
LEMMA DrivenOnce ==
  ASSUME TypeOK, CallInv, ClaimedInv, NEW d \in Client, Led(d), NEW e \in Driving
  PROVE  /\ Waiting(e) \in Nat /\ Waiting(e) <= 1 /\ Due(e) \in Nat /\ Due(e) <= Waiting(e)
         /\ Due(e) >= 1 => call[d].evt = e
<1>1. e \in ApiEvt \ Own /\ e # "none" /\ e \notin Gentle
  BY MessageFacts DEF Driving, Own, Gentle
<1>2. ASSUME NEW c \in Client, call[c].evt = e PROVE c = d
  <2> SUFFICES ASSUME c # d PROVE FALSE
    OBVIOUS
  <2>1. PICK k \in Calls[c] : Part(k, e)
    BY <1>1, <1>2 DEF CallInv
  <2>2. k \in Gentle
    BY <2>1 DEF Led
  <2>3. e = k
    BY <2>1, <2>2 DEF Part, Gentle
  <2> QED BY <1>1, <2>2, <2>3
<1>3. Having(Client, call, e) \in SUBSET {d}
  BY <1>2 DEF Having
<1>4. Waiting(e) \in Nat /\ Waiting(e) <= 1
  <2>1. IsFiniteSet({d}) /\ Cardinality({d}) = 1
    BY FS_Singleton
  <2>2. IsFiniteSet(Having(Client, call, e)) /\ Cardinality(Having(Client, call, e)) <= 1
        /\ Cardinality(Having(Client, call, e)) \in Nat
    BY <1>3, <2>1, FS_Subset, FS_CardinalityType
  <2> QED BY <2>2 DEF Waiting
<1>5. Due(e) \in Nat /\ Due(e) <= Waiting(e)
  BY <1>1, TypeParts, CountType DEF ClaimedInv
<1>6. ASSUME Due(e) >= 1 PROVE call[d].evt = e
  <2>1. Waiting(e) # 0
    BY <1>4, <1>5, <1>6
  <2>2. Having(Client, call, e) # {}
    BY <2>1, FS_EmptySet DEF Waiting
  <2>3. PICK c \in Client : call[c].evt = e
    BY <2>2 DEF Having
  <2> QED BY <1>2, <2>3
<1> QED BY <1>4, <1>5, <1>6

\* Messages and answers as members of the sum.
LEMMA SumFacts ==
  ASSUME TypeOK, NEW e
  PROVE  /\ Due(e) \in Nat
         /\ \A m \in SeqRange(api_queue) : m.evt = e => Due(e) >= 1
         /\ \A r \in SeqRange(results) : r.evt = e => Due(e) >= 1
         /\ cur.evt = e => Due(e) >= 1
         /\ \A m \in SeqRange(api_queue) : m.evt = e /\ cur.evt = e => Due(e) >= 2
         /\ \A m \in SeqRange(api_queue), r \in SeqRange(results) : m.evt = e /\ r.evt = e => Due(e) >= 2
         /\ \A r \in SeqRange(results) : r.evt = e /\ cur.evt = e => Due(e) >= 2
         /\ e = "prepare_snapshot" /\ m_state = "PREPARE_SNAPSHOT" => Due(e) >= 1
<1>1. QueueOK /\ AnswerOK /\ api_queue \in Seq(Message) /\ results \in Seq(Result)
  BY TypeParts DEF QueueOK, AnswerOK
<1> DEFINE a == Tally(api_queue, Messages(e))
           r == Tally(results, Answers(e))
           u == Same(cur.evt, e)
           h == Held(e)
<1>2. a \in Nat /\ r \in Nat /\ u \in Nat /\ h \in Nat /\ Due(e) = a + r + u + h
  BY <1>1, DueParts
<1>3. ASSUME NEW m \in SeqRange(api_queue), m.evt = e PROVE a # 0
  <2>1. PICK i \in 1 .. Len(api_queue) : m = api_queue[i]
    BY <1>1 DEF SeqRange
  <2>2. m \in Messages(e)
    BY <1>1, <1>3, <2>1 DEF Messages
  <2>3. a = 0 <=> \A j \in 1 .. Len(api_queue) : api_queue[j] \notin Messages(e)
    BY <1>1, TallyType
  <2> QED BY <2>1, <2>2, <2>3
<1>4. ASSUME NEW x \in SeqRange(results), x.evt = e PROVE r # 0
  <2>1. PICK i \in 1 .. Len(results) : x = results[i]
    BY <1>1 DEF SeqRange
  <2>2. x \in Answers(e)
    BY <1>1, <1>4, <2>1 DEF Answers
  <2>3. r = 0 <=> \A j \in 1 .. Len(results) : results[j] \notin Answers(e)
    BY <1>1, TallyType
  <2> QED BY <2>1, <2>2, <2>3
<1>5. (cur.evt = e => u = 1) /\ (e = "prepare_snapshot" /\ m_state = "PREPARE_SNAPSHOT" => h = 1)
  BY DEF Same, Held
<1> HIDE DEF a, r, u, h
<1> DEFINE A == \E m \in SeqRange(api_queue) : m.evt = e
           R == \E x \in SeqRange(results) : x.evt = e
<1>6. /\ A => a # 0
      /\ R => r # 0
  BY <1>3, <1>4
<1> HIDE DEF A, R
<1>7. /\ (A => Due(e) >= 1) /\ (R => Due(e) >= 1) /\ (A /\ R => Due(e) >= 2)
      /\ (cur.evt = e => Due(e) >= 1) /\ (cur.evt = e /\ A => Due(e) >= 2)
      /\ (cur.evt = e /\ R => Due(e) >= 2)
      /\ (e = "prepare_snapshot" /\ m_state = "PREPARE_SNAPSHOT" => Due(e) >= 1)
  BY <1>2, <1>5, <1>6
<1>8. Due(e) \in Nat
  BY <1>2
<1> QED BY <1>7, <1>8, Zenon DEF A, R

\* What the driver waits for is all there is of driving messages and answers.
LEMMA DrivenFacts ==
  ASSUME TypeOK, CallInv, ClaimedInv, NEW d \in Client, Led(d)
  PROVE  /\ \A m \in Submitted : m.evt \in Driving => call[d].evt = m.evt
         /\ \A r \in SeqRange(results) : r.evt \in Driving => call[d].evt = r.evt
         /\ \A r \in SeqRange(results), m \in Submitted : ~(r.evt \in Driving /\ m.evt \in Driving)
         /\ cur.evt \in Driving => \A m \in SeqRange(api_queue) : m.evt \notin Driving
         /\ m_state = "PREPARE_SNAPSHOT" => call[d].evt = "prepare_snapshot"
<1>1. ASSUME NEW e \in Driving, Due(e) >= 2 PROVE FALSE
  BY <1>1, DrivenOnce
<1>2. ASSUME NEW m \in Submitted, m.evt \in Driving PROVE call[d].evt = m.evt
  <2>1. Due(m.evt) >= 1
    BY SumFacts DEF Submitted
  <2> QED BY <1>2, <2>1, DrivenOnce
<1>3. ASSUME NEW r \in SeqRange(results), r.evt \in Driving PROVE call[d].evt = r.evt
  <2>1. Due(r.evt) >= 1
    BY SumFacts
  <2> QED BY <1>3, <2>1, DrivenOnce
<1>4. ASSUME NEW r \in SeqRange(results), NEW m \in Submitted, r.evt \in Driving, m.evt \in Driving
      PROVE  FALSE
  <2>1. m.evt = r.evt
    BY <1>2, <1>3, <1>4
  <2>2. Due(r.evt) >= 2
    <3>1. CASE m = cur
      BY <2>1, <3>1, SumFacts
    <3>2. CASE m \in SeqRange(api_queue)
      BY <2>1, <3>2, SumFacts
    <3> QED BY <3>1, <3>2 DEF Submitted
  <2> QED BY <1>1, <1>4, <2>2
<1>5. ASSUME cur.evt \in Driving, NEW m \in SeqRange(api_queue), m.evt \in Driving PROVE FALSE
  <2>1. cur \in Submitted /\ m \in Submitted
    BY DEF Submitted
  <2>2. m.evt = cur.evt
    BY <1>2, <1>5, <2>1
  <2>3. Due(cur.evt) >= 2
    BY <2>2, SumFacts
  <2> QED BY <1>1, <1>5, <2>3
<1>6. m_state = "PREPARE_SNAPSHOT" => call[d].evt = "prepare_snapshot"
  <2>1. "prepare_snapshot" \in Driving
    BY DEF Driving, ApiEvt, Gentle
  <2>2. m_state = "PREPARE_SNAPSHOT" => Due("prepare_snapshot") >= 1
    BY SumFacts
  <2> QED BY <2>1, <2>2, DrivenOnce
<1> QED BY <1>2, <1>3, <1>4, <1>5, <1>6

-----------------------------------------------------------------------------
(* A change of parameters, and the restart of preview it may ask for.          *)

Restartable == {"STOPPED", "READY", "PREVIEWING"}

\* While a restart is due the driver is on its way to it: nothing has failed, nothing
\* runs once the stop was answered, and nobody sets parameters anew. Its two
\* messages are sent only while it is due.
RestInv(d) ==
  /\ params.needRestart =>
       /\ m_state \in Restartable /\ call[d].evt \in ParamEvts
       /\ \A m \in Submitted : m.evt # "set_params"
       /\ \A r \in SeqRange(results) : r.evt \in ParamEvts =>
            r.ok /\ r.evt # "params_restart" /\ (r.evt = "params_stop" => Dark(m_channels))
       /\ call[d].evt \in {"params_commit", "params_restart"} => Dark(m_channels)
  /\ \A m \in Submitted : m.evt \in {"params_stop", "params_restart"} => params.needRestart

\* A picture is taken in the mode of its state, and nobody changes it meanwhile.
ModeInv(d) ==
  /\ ModeFits(m_state, params)
  /\ m_state \in {"PIC_TAKING", "PREVIEW_PIC"} => call[d].evt \notin ParamEvts

\* The channels fit the state, but for a preview about to be restarted.
ChanInv(d) ==
  \/ Fits(m_state, m_channels)
  \/ /\ Bare(m_state, m_channels) /\ params.needRestart
     /\ call[d].evt \in {"params_stop", "params_commit", "params_restart"}

\* Messages about parameters are driving ones.
LEMMA ParamDriving == ParamEvts \subseteq Driving /\ "none" \notin Driving /\ "prepare_snapshot" \notin ParamEvts
  BY DEF ParamEvts, Driving, ApiEvt, Gentle

\* Which handlers of a state they reach.
LEMMA StoppedParams ==
  ASSUME StoppedState, cur.evt \in ParamEvts
  PROVE  \/ cur.evt = "params_stop" /\ Reply(TRUE)
         \/ SetParams \/ CommitParams \/ DropRestart
<1>1. /\ ~On({"pre_start", "start_recording", "stop_recording", "prepare_snapshot", "pre_take", "take"})
      /\ ~On({"set_window", "clear_window"}) /\ ~On({"prepare_preview"}) /\ ~On({"start_preview"})
      /\ ~On({"release"}) /\ ~On({"enable", "disable"}) /\ ~On({"release_frame"})
      /\ ~On({"snapshot_done"}) /\ ~On({"prep_done", "stop_capture"})
      /\ On({"query", "stop_preview", "preview_enabled", "cancel", "params_stop"}) => cur.evt = "params_stop"
  BY DEF On, ParamEvts
<1> QED BY <1>1, Zenon DEF StoppedState, StoppedReplies, SetPreviewWindow, StoppedPreview, MsgType,
       CloseFrame, NothingToDo, Ignore

\* In the ready state.
LEMMA ReadyParams ==
  ASSUME ReadyState, cur.evt \in ParamEvts
  PROVE  ReadyRestart \/ SetParams \/ CommitParams
<1>1. /\ ~On({"query", "prepare_preview", "preview_enabled"})
      /\ ~On({"pre_start", "start_recording", "stop_recording", "prepare_snapshot",
              "pre_take", "take", "cancel", "release"})
      /\ ~On({"set_window", "start_preview"}) /\ ~On({"start_preview"}) /\ ~On({"clear_window"})
      /\ ~On({"stop_preview"}) /\ ~On({"enable", "disable"}) /\ ~On({"release_frame"})
      /\ ~On({"snapshot_done"}) /\ ~On({"prep_done", "stop_capture"})
  BY DEF On, ParamEvts
<1> QED BY <1>1, Zenon DEF ReadyState, ReadyReplies, ReadyPreview, MsgType, CloseFrame, NothingToDo, Ignore

\* While previewing.
LEMMA PreviewingParams ==
  ASSUME PreviewingState, cur.evt \in ParamEvts
  PROVE  PreviewingRestart \/ SetParams \/ CommitParams
<1>1. /\ ~On({"query", "prepare_preview", "cancel", "stop_recording"})
      /\ ~On({"set_window", "clear_window", "release"}) /\ ~On({"enable"}) /\ ~On({"disable"})
      /\ ~On({"start_preview", "preview_enabled"}) /\ ~On({"stop_preview"})
      /\ ~On({"pre_start"}) /\ ~On({"start_recording"}) /\ ~On({"prepare_snapshot"})
      /\ ~On({"pre_take"}) /\ ~On({"take"}) /\ ~On({"release_frame"})
      /\ ~On({"snapshot_done"}) /\ ~On({"prep_done", "stop_capture"})
  BY DEF On, ParamEvts
<1> QED BY <1>1, Zenon DEF PreviewingState, PreviewingReplies, PreviewingMsgType, PreviewingPreview,
       PreviewingRecord, PreviewingPrepareSnapshot, PreviewingPreTake, PreviewingTake,
       CloseFrame, NothingToDo, Ignore

\* While recording nothing restarts.
LEMMA RecordingParams ==
  ASSUME RecordingState \/ VideoPicState, cur.evt \in {"set_params", "params_commit"}
  PROVE  SetParamsRecording \/ CommitParams
<1>1. /\ ~On({"query", "prepare_preview", "start_preview", "set_window", "clear_window", "pre_take",
              "pre_start", "start_recording", "prepare_snapshot", "preview_enabled",
              "release_frame"})
      /\ ~On({"params_stop", "params_restart", "cancel", "release"}) /\ ~On({"take"})
      /\ ~On({"stop_recording"}) /\ ~On({"stop_preview"}) /\ ~On({"enable", "disable"})
      /\ ~On({"snapshot_done"}) /\ ~On({"prep_done", "stop_capture"})
      /\ ~On({"query", "preview_enabled", "release_frame"}) /\ ~On({"cancel"})
      /\ ~On({"set_window", "clear_window", "params_stop", "params_restart", "pre_start",
              "start_recording", "prepare_preview", "start_preview", "prepare_snapshot", "pre_take",
              "take", "release"})
  BY DEF On
<1> QED BY <1>1, Zenon DEF RecordingState, VideoPicState, RecordingReplies, VideoPicReplies, RecordingTake,
       RecordingStop, VideoPicEnd, MsgType, NothingToDo, Ignore

\* Setting parameters asks for a restart only where one is possible.
LEMMA SetOutcome ==
  ASSUME CamOK, cur.arg \in Setting, Handle, cur.evt = "set_params",
         m_state \in Restartable \cup {"RECORDING", "VIDEO_PIC"}
  PROVE  /\ m_state' = m_state /\ m_channels' = m_channels
         /\ ~params'.needRestart \/ (m_state \in Restartable /\ Answer(TRUE))
<1>1. cur.evt \in ParamEvts /\ params \in Params
      /\ ~On({"params_commit"}) /\ ~On({"params_restart"}) /\ ~On({"params_stop"})
      /\ cur.evt # "params_stop"
  BY DEF ParamEvts, On, CamOK
<1>2. CASE m_state \in Restartable
  <2>1. SetParams
    BY <1>1, <1>2, StoppedParams, ReadyParams, PreviewingParams, Zenon
       DEF Handle, PrepareSnapshotState, PicTakingState, RecordingState, VideoPicState, PreviewPicState,
           Restartable, CommitParams, DropRestart, ReadyRestart, PreviewingRestart
  <2>2. Answer(TRUE) /\ Settle(m_state, m_channels, UpdateParameters(params, cur.arg))
    BY <2>1, Zenon DEF SetParams
  <2>3. Moved(m_state, m_channels, UpdateParameters(params, cur.arg))
    BY <2>2, MovedFacts
  <2> QED BY <1>2, <2>2, <2>3 DEF Moved
<1>3. CASE m_state \in {"RECORDING", "VIDEO_PIC"}
  <2>1. RecordingState \/ VideoPicState
    BY <1>3 DEF Handle, StoppedState, ReadyState, PreviewingState, PrepareSnapshotState, PicTakingState,
       PreviewPicState
  <2>2. SetParamsRecording
    BY <1>1, <2>1, RecordingParams DEF CommitParams
  <2>3. Settle(m_state, m_channels, NoRestart(UpdateParameters(params, cur.arg)))
    BY <2>2, Zenon DEF SetParamsRecording
  <2>4. Moved(m_state, m_channels, NoRestart(UpdateParameters(params, cur.arg)))
    BY <2>3, MovedFacts
  <2>5. ~NoRestart(UpdateParameters(params, cur.arg)).needRestart
    BY <1>1, ParamFacts
  <2> QED BY <2>4, <2>5 DEF Moved
<1> QED BY <1>2, <1>3

\* What was set becomes effective.
LEMMA CommitOutcome ==
  ASSUME CamOK, Handle, cur.evt = "params_commit",
         m_state \in Restartable \cup {"RECORDING", "VIDEO_PIC"}
  PROVE  /\ m_state' = m_state /\ m_channels' = m_channels /\ Answer(TRUE)
         /\ params'.needRestart = params.needRestart
<1>1. cur.evt \in ParamEvts /\ params \in Params
      /\ ~On({"set_params"}) /\ ~On({"params_restart"}) /\ ~On({"params_stop"})
      /\ cur.evt # "params_stop"
  BY DEF ParamEvts, On, CamOK
<1>2. CommitParams
  <2>1. CASE m_state \in Restartable
    BY <1>1, <2>1, StoppedParams, ReadyParams, PreviewingParams, Zenon
       DEF Handle, PrepareSnapshotState, PicTakingState, RecordingState, VideoPicState, PreviewPicState,
           Restartable, SetParams, DropRestart, ReadyRestart, PreviewingRestart
  <2>2. CASE m_state \in {"RECORDING", "VIDEO_PIC"}
    <3>1. RecordingState \/ VideoPicState
      BY <2>2 DEF Handle, StoppedState, ReadyState, PreviewingState, PrepareSnapshotState, PicTakingState,
         PreviewPicState
    <3> QED BY <1>1, <3>1, RecordingParams DEF SetParamsRecording
  <2> QED BY <2>1, <2>2
<1>3. Answer(TRUE) /\ Moved(m_state, m_channels, CommitParamChanges(params))
  BY <1>2, MovedFacts, Zenon DEF CommitParams
<1>4. CommitParamChanges(params).needRestart = params.needRestart
  BY <1>1, ParamFacts
<1> QED BY <1>3, <1>4 DEF Moved

\* Preview makes way for a restart.
LEMMA StopOutcome ==
  ASSUME CamOK, Handle, cur.evt = "params_stop", m_state \in Restartable,
         Fits(m_state, m_channels) \/ Bare(m_state, m_channels)
  PROVE  /\ m_state' = m_state /\ params'.needRestart = params.needRestart
         /\ Answer(TRUE) /\ Dark(m_channels')
         /\ Fits(m_state', m_channels') \/ Bare(m_state', m_channels')
<1>1. /\ cur.evt \in ParamEvts /\ m_channels \in Channels
      /\ ~On({"set_params"}) /\ ~On({"params_commit"}) /\ ~On({"params_restart"})
  BY DEF ParamEvts, On, CamOK
<1>2. /\ Plain(m_channels) /\ (m_state \in {"STOPPED", "READY"} => Dark(m_channels))
      /\ m_state \in {"STOPPED", "READY", "PREVIEWING"} /\ m_state \in State
  BY DEF Restartable, Fits, Bare, Plain, State
<1>3. /\ Dark(UnpreparePreview(m_channels)) /\ Plain(UnpreparePreview(m_channels))
      /\ StopPreview(m_channels) = UnpreparePreview(m_channels)
  BY <1>1, <1>2, DarkFacts DEF Plain
<1>4. \A c : Dark(c) /\ Plain(c) => Fits(m_state, c) \/ Bare(m_state, c)
  BY <1>2 DEF Fits, Bare, Plain
<1>5. /\ Answer(TRUE)
      /\ \/ m_state = "STOPPED" /\ Unmoved
         \/ Moved(m_state, UnpreparePreview(m_channels), params)
  <2>1. CASE m_state = "STOPPED"
    <3>1. Reply(TRUE)
      BY <1>1, <2>1, StoppedParams, Zenon
         DEF Handle, ReadyState, PreviewingState, PrepareSnapshotState, PicTakingState, RecordingState,
             VideoPicState, PreviewPicState, SetParams, CommitParams, DropRestart
    <3> QED BY <2>1, <3>1, MovedFacts, Zenon DEF Reply
  <2>2. CASE m_state = "READY"
    <3>1. ReadyRestart
      BY <1>1, <2>2, ReadyParams, Zenon
         DEF Handle, StoppedState, PreviewingState, PrepareSnapshotState, PicTakingState, RecordingState,
             VideoPicState, PreviewPicState, SetParams, CommitParams
    <3> QED BY <1>1, <3>1, MovedFacts, Zenon DEF ReadyRestart
  <2>3. CASE m_state = "PREVIEWING"
    <3>1. PreviewingRestart
      BY <1>1, <2>3, PreviewingParams, Zenon
         DEF Handle, StoppedState, ReadyState, PrepareSnapshotState, PicTakingState, RecordingState,
             VideoPicState, PreviewPicState, SetParams, CommitParams
    <3> QED BY <1>1, <1>3, <3>1, MovedFacts, Zenon DEF PreviewingRestart
  <2> QED BY <1>2, <2>1, <2>2, <2>3
<1>6. CASE m_state = "STOPPED" /\ Unmoved
  BY <1>2, <1>4, <1>5, <1>6 DEF Unmoved
<1>7. CASE Moved(m_state, UnpreparePreview(m_channels), params)
  BY <1>3, <1>4, <1>5, <1>7 DEF Moved
<1> QED BY <1>5, <1>6, <1>7

\* Preview comes back, when nothing fails to be prepared or started.
LEMMA RestartOutcome ==
  ASSUME CamOK, Handle, cur.evt = "params_restart", m_state \in Restartable,
         Failing \cap {"prepare", "start"} = {}, Dark(m_channels), Plain(m_channels)
  PROVE  m_state' = m_state /\ ~params'.needRestart /\ Fits(m_state', m_channels')
<1>1. /\ cur.evt \in ParamEvts /\ m_channels \in Channels /\ params \in Params
      /\ ~On({"set_params"}) /\ ~On({"params_commit"}) /\ ~On({"params_stop"})
      /\ cur.evt # "params_stop"
  BY DEF ParamEvts, On, CamOK
<1>2. m_state \in {"STOPPED", "READY", "PREVIEWING"} /\ m_state \in State
  BY DEF Restartable, State
<1>3. ~NoRestart(params).needRestart
  BY <1>1, ParamFacts
<1>4. ASSUME NEW c, Moved(m_state, c, NoRestart(params)), Fits(m_state, c)
      PROVE  m_state' = m_state /\ ~params'.needRestart /\ Fits(m_state', m_channels')
  BY <1>3, <1>4 DEF Moved
<1>5. CASE m_state = "STOPPED"
  <2>1. DropRestart
    BY <1>1, <1>5, StoppedParams, Zenon
       DEF Handle, ReadyState, PreviewingState, PrepareSnapshotState, PicTakingState, RecordingState,
           VideoPicState, PreviewPicState, SetParams, CommitParams
  <2>2. Moved(m_state, m_channels, NoRestart(params))
    BY <2>1, MovedFacts, Zenon DEF DropRestart
  <2> QED BY <1>2, <1>4, <1>5, <2>2, FitsFacts
<1>6. CASE m_state = "READY"
  <2>1. ReadyRestart
    BY <1>1, <1>6, ReadyParams, Zenon
       DEF Handle, StoppedState, PreviewingState, PrepareSnapshotState, PicTakingState, RecordingState,
           VideoPicState, PreviewPicState, SetParams, CommitParams
  <2>2. PICK o \in PreparePreview(m_channels, params) :
          Settle(IF o.ok THEN m_state ELSE "STOPPED", o.ch, NoRestart(params))
    BY <1>1, <2>1, Zenon DEF ReadyRestart
  <2>3. o.ok /\ o.ch = Prepared(m_channels, params)
    BY <1>1, PrepareFacts
  <2>4. Moved(m_state, o.ch, NoRestart(params))
    BY <2>2, <2>3, MovedFacts
  <2>5. Dark(o.ch) /\ Plain(o.ch)
    BY <1>1, <2>3, DarkFacts DEF Plain
  <2> QED BY <1>2, <1>4, <1>6, <2>4, <2>5, FitsFacts
<1>7. CASE m_state = "PREVIEWING"
  <2>1. PreviewingRestart
    BY <1>1, <1>7, PreviewingParams, Zenon
       DEF Handle, StoppedState, ReadyState, PrepareSnapshotState, PicTakingState, RecordingState,
           VideoPicState, PreviewPicState, SetParams, CommitParams
  <2>2. PICK o \in PrepareAndStart(m_channels, params) :
          Settle(IF o.prepared /\ ~o.ok THEN "STOPPED" ELSE m_state, o.ch, NoRestart(params))
    BY <1>1, <2>1, Zenon DEF PreviewingRestart
  <2>3. o.ok /\ o.ch = Started(m_channels, params)
    BY <1>1, BothFacts
  <2>4. Moved(m_state, o.ch, NoRestart(params))
    BY <2>2, <2>3, MovedFacts
  <2>5. Lit(o.ch) /\ Plain(o.ch)
    BY <1>1, <2>3, DarkFacts DEF Plain
  <2> QED BY <1>2, <1>4, <1>7, <2>4, <2>5, FitsFacts
<1> QED BY <1>2, <1>5, <1>6, <1>7

\* What sequences hold that grow and shrink.
LEMMA RangeFacts ==
  ASSUME NEW T, NEW q \in Seq(T)
  PROVE  /\ \A m \in T : SeqRange(Append(q, m)) = SeqRange(q) \cup {m}
         /\ q # <<>> => Head(q) \in SeqRange(q) /\ SeqRange(Tail(q)) \subseteq SeqRange(q)
         /\ \A i \in 1 .. Len(q) : SeqRange(DropAt(q, i)) \subseteq SeqRange(q)
         /\ SeqRange(q) \subseteq T /\ (\A i \in 1 .. Len(q) : q[i] \in SeqRange(q))
<1>1. DOMAIN q = 1 .. Len(q) /\ Len(q) \in Nat
  OBVIOUS
<1>2. SeqRange(q) \subseteq T /\ \A i \in 1 .. Len(q) : q[i] \in SeqRange(q)
  BY <1>1 DEF SeqRange
<1>3. ASSUME NEW m \in T PROVE SeqRange(Append(q, m)) = SeqRange(q) \cup {m}
  <2>1. /\ DOMAIN Append(q, m) = 1 .. Len(q) + 1
        /\ \A i \in 1 .. Len(q) : Append(q, m)[i] = q[i]
        /\ Append(q, m)[Len(q) + 1] = m
    BY <1>3
  <2>2. \A i \in 1 .. Len(q) + 1 : i \in 1 .. Len(q) \/ i = Len(q) + 1
    BY <1>1
  <2>3. Len(q) + 1 \in 1 .. Len(q) + 1 /\ \A i \in 1 .. Len(q) : i \in 1 .. Len(q) + 1
    BY <1>1
  <2> QED BY <1>1, <2>1, <2>2, <2>3 DEF SeqRange
<1>4. ASSUME q # <<>> PROVE Head(q) \in SeqRange(q) /\ SeqRange(Tail(q)) \subseteq SeqRange(q)
  <2>1. 1 \in 1 .. Len(q) /\ Head(q) = q[1]
    BY <1>4
  <2>2. /\ DOMAIN Tail(q) = 1 .. Len(q) - 1
        /\ \A i \in 1 .. Len(q) - 1 : Tail(q)[i] = q[i + 1] /\ i + 1 \in 1 .. Len(q)
    BY <1>4
  <2> QED BY <1>2, <2>1, <2>2 DEF SeqRange
<1>5. ASSUME NEW i \in 1 .. Len(q) PROVE SeqRange(DropAt(q, i)) \subseteq SeqRange(q)
  <2>1. DropAt(q, i) \in Seq(T)
        /\ \A j \in 1 .. Len(DropAt(q, i)) : \E k \in 1 .. Len(q) : DropAt(q, i)[j] = q[k]
    BY DropAtFacts
  <2>2. DOMAIN DropAt(q, i) = 1 .. Len(DropAt(q, i))
    BY <2>1
  <2> QED BY <1>2, <2>1, <2>2 DEF SeqRange
<1> QED BY <1>2, <1>3, <1>4, <1>5

\* The invariant of the driver d.
CarInv(d) == RestInv(d) /\ ModeInv(d) /\ ChanInv(d)

\* A step that leaves alone what runs, the mode, the driver's call, and what is said
\* about parameters.
Quiet(d) ==
  /\ m_state' = m_state /\ params' = params /\ AlikeOn(m_channels, m_channels')
  /\ call'[d].evt = call[d].evt
  /\ \A r \in SeqRange(results') : r \in SeqRange(results) \/ r.evt \notin ParamEvts
  /\ \A m \in SeqRange(api_queue') \cup {cur'} : m \in Submitted \/ m.evt \notin ParamEvts

\* It keeps the invariant.
LEMMA QuietKept == ASSUME NEW d, CarInv(d), Quiet(d) PROVE CarInv(d)'
<1>1. RestInv(d) /\ ModeInv(d) /\ ChanInv(d)
  BY DEF CarInv
<1>2. /\ m_state' = m_state /\ params' = params /\ call'[d].evt = call[d].evt
      /\ Dark(m_channels) => Dark(m_channels')
      /\ Fits(m_state, m_channels) => Fits(m_state', m_channels')
      /\ Bare(m_state, m_channels) => Bare(m_state', m_channels')
  BY AlikeFits DEF Quiet
<1>3. \A m \in Submitted' : m \in Submitted \/ m.evt \notin ParamEvts
  BY DEF Quiet, Submitted
<1>4. /\ "set_params" \in ParamEvts /\ "params_stop" \in ParamEvts /\ "params_restart" \in ParamEvts
      /\ \A r \in SeqRange(results') : r \in SeqRange(results) \/ r.evt \notin ParamEvts
  BY DEF ParamEvts, Quiet
<1>5. RestInv(d)'
  <2>1. ASSUME params'.needRestart
        PROVE  /\ m_state' \in Restartable /\ call'[d].evt \in ParamEvts
               /\ \A m \in Submitted' : m.evt # "set_params"
               /\ \A r \in SeqRange(results') : r.evt \in ParamEvts =>
                    r.ok /\ r.evt # "params_restart" /\ (r.evt = "params_stop" => Dark(m_channels'))
               /\ call'[d].evt \in {"params_commit", "params_restart"} => Dark(m_channels')
    BY <1>1, <1>2, <1>3, <1>4, <2>1 DEF RestInv
  <2>2. \A m \in Submitted' : m.evt \in {"params_stop", "params_restart"} => params'.needRestart
    BY <1>1, <1>2, <1>3, <1>4 DEF RestInv
  <2> QED BY <2>1, <2>2 DEF RestInv
<1>6. ModeInv(d)'
  BY <1>1, <1>2 DEF ModeInv
<1>7. ChanInv(d)'
  BY <1>1, <1>2 DEF ChanInv
<1> QED BY <1>5, <1>6, <1>7 DEF CarInv

\* After a message is handled the queue is what is left, and one answer is new at most.
LEMMA HandledRange ==
  ASSUME TypeOK, FlowStep, NEW d \in Client
  PROVE  /\ call'[d].evt = call[d].evt
         /\ \A m \in Submitted' : m \in SeqRange(api_queue) \/ m.evt = "none"
         /\ \A r \in SeqRange(results') :
              \/ r \in SeqRange(results)
              \/ r.evt = cur.evt /\ r.evt \in ApiEvt /\ Answer(r.ok)
              \/ r.evt = "prepare_snapshot"
<1>1. call'[d].evt = call[d].evt /\ cur' = NoMessage /\ api_queue' = api_queue
  BY HandleCall
<1>2. NoMessage.evt = "none"
  BY MessageFacts
<1>3. \A m \in Submitted' : m \in SeqRange(api_queue) \/ m.evt = "none"
  BY <1>1, <1>2 DEF Submitted
<1>4. results \in Seq(Result)
  BY TypeParts DEF AnswerOK
<1>5. ASSUME NEW e \in ApiEvt, NEW ok \in BOOLEAN, SignalAPIResult(e, ok), NEW r \in SeqRange(results')
      PROVE  r \in SeqRange(results) \/ (r.evt = e /\ r.ok = ok)
  <2> DEFINE x == [evt |-> e, ok |-> ok]
  <2>1. x \in Result /\ x.evt = e /\ x.ok = ok
    BY DEF Result
  <2>2. results' = Append(results, x)
    BY <1>5 DEF SignalAPIResult
  <2> HIDE DEF x
  <2>3. SeqRange(results') = SeqRange(results) \cup {x}
    BY <1>4, <2>1, <2>2, RangeFacts
  <2> QED BY <1>5, <2>1, <2>3
<1>6. ASSUME NEW r \in SeqRange(results')
      PROVE  \/ r \in SeqRange(results)
             \/ r.evt = cur.evt /\ r.evt \in ApiEvt /\ Answer(r.ok)
             \/ r.evt = "prepare_snapshot"
  <2>1. CASE Answered
    <3>1. PICK ok \in BOOLEAN : Answer(ok) /\ cur.evt \in ApiEvt
      BY <2>1, Zenon DEF Answered
    <3>2. SignalAPIResult(cur.evt, ok)
      BY <3>1, Zenon DEF Answer
    <3> QED BY <1>5, <1>6, <3>1, <3>2
  <2>2. CASE Ended
    <3>1. SignalAPIResult("prepare_snapshot", TRUE) /\ "prepare_snapshot" \in ApiEvt
      BY <2>2 DEF Ended, ApiEvt
    <3> QED BY <1>5, <1>6, <3>1
  <2>3. CASE Noted \/ Dropped \/ Ignored \/ Begun
    <3>1. results' = results
      BY <2>3 DEF Noted, Dropped, Ignored, Begun, Silent, SignalEvtResult
    <3> QED BY <1>6, <3>1
  <2> QED BY <2>1, <2>2, <2>3, Zenon DEF FlowStep
<1> QED BY <1>1, <1>3, <1>6

\* Handling a message about parameters.
LEMMA ParamsKept ==
  ASSUME Failing \cap {"prepare", "start"} = {}, TypeOK, CallInv, ClaimedInv, NEW d \in Client, Led(d),
         CarInv(d), Handle, cur.evt \in ParamEvts
  PROVE  CarInv(d)'
<1>1. RestInv(d) /\ ModeInv(d) /\ ChanInv(d) /\ CamOK /\ cur.arg \in Setting
  BY TypeParts, CurFacts DEF CarInv
<1>2. FlowStep
  BY HandleFlow
<1>3. cur.evt \in Driving /\ cur \in Submitted /\ "none" \notin Driving
  BY ParamDriving DEF Submitted
<1>4. call[d].evt = cur.evt /\ (\A r \in SeqRange(results) : r.evt \notin ParamEvts)
      /\ (\A m \in SeqRange(api_queue) : m.evt \notin ParamEvts) /\ m_state # "PREPARE_SNAPSHOT"
  BY <1>3, DrivenFacts, ParamDriving
<1>5. call'[d].evt = cur.evt /\ (\A m \in Submitted' : m.evt \notin ParamEvts)
  <2>1. "none" \notin ParamEvts
    BY DEF ParamEvts
  <2> QED BY <1>2, <1>4, <2>1, HandledRange
<1>6. \A r \in SeqRange(results') : r.evt \in ParamEvts => r.evt = cur.evt /\ Answer(r.ok)
  BY <1>2, <1>4, HandledRange, ParamDriving
<1>7. m_state \in Restartable \cup {"RECORDING", "VIDEO_PIC"}
  BY <1>1, <1>4 DEF ModeInv, CamOK, State, Restartable
<1>8. Answer(TRUE) => \A r \in SeqRange(results') : r.evt \in ParamEvts => r.ok
  <2> SUFFICES ASSUME Answer(TRUE), NEW r \in SeqRange(results'), r.evt \in ParamEvts PROVE r.ok
    OBVIOUS
  <2>1. Answer(r.ok) /\ results \in Seq(Result)
    BY <1>6, TypeParts DEF AnswerOK
  <2>2. /\ results' = Append(results, [evt |-> cur.evt, ok |-> r.ok])
        /\ results' = Append(results, [evt |-> cur.evt, ok |-> TRUE])
    BY <2>1, Zenon DEF Answer, SignalAPIResult
  <2>3. [evt |-> cur.evt, ok |-> r.ok] = [evt |-> cur.evt, ok |-> TRUE]
    <3>1. ASSUME NEW x, NEW y, Append(results, x) = Append(results, y) PROVE x = y
      <4>1. Append(results, x)[Len(results) + 1] = x /\ Append(results, y)[Len(results) + 1] = y
        BY <2>1
      <4> QED BY <3>1, <4>1
    <3> QED BY <2>2, <3>1
  <2> QED BY <2>3
<1>9. ASSUME m_state' \notin {"PIC_TAKING", "PREVIEW_PIC"} PROVE ModeInv(d)'
  BY <1>9 DEF ModeInv, ModeFits
<1>10. CASE cur.evt = "set_params"
  <2>1. /\ m_state' = m_state /\ m_channels' = m_channels
        /\ ~params'.needRestart \/ (m_state \in Restartable /\ Answer(TRUE))
    BY <1>1, <1>7, <1>10, SetOutcome
  <2>2. ~params.needRestart
    BY <1>1, <1>3, <1>10 DEF RestInv
  <2>3. Fits(m_state, m_channels)
    BY <1>1, <2>2 DEF ChanInv
  <2>4. ChanInv(d)'
    BY <2>1, <2>3 DEF ChanInv
  <2>5. RestInv(d)'
    BY <1>5, <1>6, <1>8, <1>10, <2>1 DEF RestInv, ParamEvts
  <2>6. m_state' \notin {"PIC_TAKING", "PREVIEW_PIC"}
    BY <1>7, <2>1 DEF Restartable
  <2> QED BY <1>9, <2>4, <2>5, <2>6 DEF CarInv
<1>11. CASE cur.evt = "params_commit"
  <2>1. /\ m_state' = m_state /\ m_channels' = m_channels /\ Answer(TRUE)
        /\ params'.needRestart = params.needRestart
    BY <1>1, <1>7, <1>11, CommitOutcome
  <2>2. ChanInv(d)'
    BY <1>1, <1>4, <1>5, <2>1 DEF ChanInv
  <2>3. RestInv(d)'
    <3>1. params.needRestart => m_state \in Restartable /\ Dark(m_channels)
      BY <1>1, <1>4, <1>11 DEF RestInv
    <3> QED BY <1>5, <1>6, <1>8, <1>11, <2>1, <3>1 DEF RestInv, ParamEvts
  <2>4. m_state' \notin {"PIC_TAKING", "PREVIEW_PIC"}
    BY <1>7, <2>1 DEF Restartable
  <2> QED BY <1>9, <2>2, <2>3, <2>4 DEF CarInv
<1>12. CASE cur.evt = "params_stop"
  <2>1. params.needRestart /\ m_state \in Restartable
    BY <1>1, <1>3, <1>12 DEF RestInv
  <2>2. /\ m_state' = m_state /\ params'.needRestart = params.needRestart
        /\ Answer(TRUE) /\ Dark(m_channels')
        /\ Fits(m_state', m_channels') \/ Bare(m_state', m_channels')
    BY <1>1, <1>12, <2>1, StopOutcome DEF ChanInv
  <2>3. ChanInv(d)'
    BY <1>5, <1>12, <2>1, <2>2 DEF ChanInv
  <2>4. RestInv(d)'
    BY <1>5, <1>6, <1>8, <1>12, <2>1, <2>2 DEF RestInv, ParamEvts
  <2>5. m_state' \notin {"PIC_TAKING", "PREVIEW_PIC"}
    BY <2>1, <2>2 DEF Restartable
  <2> QED BY <1>9, <2>3, <2>4, <2>5 DEF CarInv
<1>13. CASE cur.evt = "params_restart"
  <2>1. params.needRestart /\ m_state \in Restartable /\ Dark(m_channels)
    BY <1>1, <1>3, <1>4, <1>13 DEF RestInv
  <2>2. Plain(m_channels)
    BY <1>1, <2>1 DEF ChanInv, Fits, Bare, Plain, Restartable
  <2>3. m_state' = m_state /\ ~params'.needRestart /\ Fits(m_state', m_channels')
    BY <1>1, <1>13, <2>1, <2>2, RestartOutcome
  <2>4. ChanInv(d)'
    BY <2>3 DEF ChanInv
  <2>5. RestInv(d)'
    BY <1>5, <2>3 DEF RestInv, ParamEvts
  <2>6. m_state' \notin {"PIC_TAKING", "PREVIEW_PIC"}
    BY <2>1, <2>3 DEF Restartable
  <2> QED BY <1>9, <2>4, <2>5, <2>6 DEF CarInv
<1> QED BY <1>10, <1>11, <1>12, <1>13 DEF ParamEvts

\* Handling any other message.
LEMMA OthersKept ==
  ASSUME Failing \cap {"prepare", "start"} = {}, TypeOK, CallInv, ClaimedInv, NEW d \in Client, Led(d),
         CarInv(d), Handle, cur.evt \notin ParamEvts
  PROVE  CarInv(d)'
<1>1. RestInv(d) /\ ModeInv(d) /\ ChanInv(d) /\ CamOK
  BY TypeParts DEF CarInv
<1>2. FlowStep
  BY HandleFlow
<1>3. "none" \notin ParamEvts /\ "prepare_snapshot" \notin ParamEvts
  BY DEF ParamEvts
<1>4. /\ call'[d].evt = call[d].evt
      /\ \A m \in Submitted' : m \in Submitted \/ m.evt \notin ParamEvts
      /\ \A r \in SeqRange(results') : r \in SeqRange(results) \/ r.evt \notin ParamEvts
  BY <1>2, <1>3, HandledRange DEF Submitted
<1>5. cur \in Submitted
  BY DEF Submitted
<1>6. CASE params.needRestart
  <2>1. m_state \in {"STOPPED", "READY", "PREVIEWING"} /\ call[d].evt \in ParamEvts
    BY <1>1, <1>6 DEF RestInv, Restartable
  <2>2. cur.evt \notin Driving
    BY <1>5, <2>1, DrivenFacts
  <2>3. Unmoved
    BY <2>1, <2>2, GentleStill
  <2>4. Quiet(d)
    <3>1. m_state' = m_state /\ params' = params /\ AlikeOn(m_channels, m_channels')
      BY <2>3 DEF Unmoved, AlikeOn
    <3> QED BY <1>4, <3>1 DEF Quiet, Submitted
  <2> QED BY <2>4, QuietKept
<1>7. CASE ~params.needRestart
  <2>1. Fits(m_state, m_channels)
    BY <1>1, <1>7 DEF ChanInv
  <2>2. Placed
    BY <1>1, <2>1 DEF Placed, ModeInv
  <2>3. Moves
    BY <2>2, HandleMoves
  <2>4. ~params'.needRestart /\ ChanInv(d)'
    BY <1>7, <2>3 DEF Moves, ChanInv
  <2>5. RestInv(d)'
    <3>1. "params_stop" \in ParamEvts /\ "params_restart" \in ParamEvts
      BY DEF ParamEvts
    <3> QED BY <1>1, <1>4, <1>7, <2>4, <3>1 DEF RestInv
  <2>6. ModeInv(d)'
    <3>1. cur.evt = "take" => call[d].evt \notin ParamEvts
      <4>1. "take" \in Driving /\ "take" \notin ParamEvts
        BY DEF Driving, ApiEvt, Gentle, ParamEvts
      <4> QED BY <1>5, <4>1, DrivenFacts
    <3> QED BY <1>1, <1>4, <2>3, <3>1 DEF Moves, ModeInv
  <2> QED BY <2>4, <2>5, <2>6 DEF CarInv
<1> QED BY <1>6, <1>7

\* What is submitted after a step of a caller.
LEMMA CallerSubmits ==
  ASSUME QueueOK, cur' = cur, NEW c \in Client, NEW e \in ApiEvt, NEW s \in Setting, NEW p, Sent(c, e, s, p)
  PROVE  \A m \in Submitted' : m \in Submitted \/ m.evt = e
<1> DEFINE x == [evt |-> e, arg |-> s, from |-> c]
<1>1. x \in Message /\ x.evt = e
  BY DEF Message
<1>2. api_queue' = Append(api_queue, x) /\ api_queue \in Seq(Message)
  BY DEF Sent, QueueOK
<1> HIDE DEF x
<1>3. SeqRange(api_queue') = SeqRange(api_queue) \cup {x}
  BY <1>1, <1>2, RangeFacts
<1> QED BY <1>1, <1>3 DEF Submitted

\* The callers who do not drive submit what is gentle, and nothing follows it.
LEMMA GentleFacts ==
  ASSUME CallInv, NEW d \in Client, Led(d), NEW c \in Client \ {d}
  PROVE  /\ \A k \in Calls[c] : \A e : Part(k, e) => e \notin ParamEvts
         /\ \A h : ~Follows(call[c].evt, h)
<1>1. ASSUME NEW k \in Calls[c], NEW e, Part(k, e) PROVE e \in Gentle
  BY <1>1 DEF Led, Part, Gentle
<1>2. Gentle \cap ParamEvts = {} /\ (\A e \in Gentle \cup {"none"} : \A h : ~Follows(e, h))
  BY DEF Gentle, ParamEvts, Follows
<1>3. call[c].evt \in Gentle \cup {"none"}
  BY <1>1 DEF CallInv
<1> QED BY <1>1, <1>2, <1>3

\* A step of another caller.
LEMMA OtherCallerKept ==
  ASSUME TypeOK, CallInv, NEW d \in Client, Led(d), CarInv(d), NEW c \in Client \ {d},
         BeginCall(c) \/ WaitAgain(c) \/ TakeAnswer(c)
  PROVE  CarInv(d)'
<1>1. QueueOK /\ AnswerOK /\ results \in Seq(Result) /\ call \in [Client -> Caller]
  BY TypeParts DEF AnswerOK
<1>2. UNCHANGED <<m_state, m_channels, params, cur>>
  BY Zenon DEF BeginCall, WaitAgain, TakeAnswer, cameraVars
<1>3. m_state' = m_state /\ params' = params /\ AlikeOn(m_channels, m_channels') /\ cur' = cur
  BY <1>2 DEF AlikeOn
<1>4. ASSUME call'[d] = call[d], SeqRange(results') \subseteq SeqRange(results),
             \A m \in Submitted' : m \in Submitted \/ m.evt \notin ParamEvts
      PROVE  Quiet(d)
  BY <1>3, <1>4 DEF Quiet, Submitted
<1>5. api_queue' = api_queue => \A m \in Submitted' : m \in Submitted
  BY <1>3 DEF Submitted
<1>6. CASE BeginCall(c)
  <2>1. PICK k \in Calls[c], e \in ApiEvt, s \in Setting : Part(k, e) /\ Sent(c, e, s, Then(e))
    BY <1>6, BeginFacts
  <2>2. call'[d] = call[d]
    BY <1>1, <2>1, ThenFacts, SentFacts
  <2>3. \A m \in Submitted' : m \in Submitted \/ m.evt \notin ParamEvts
    BY <1>1, <1>3, <2>1, CallerSubmits, GentleFacts
  <2>4. results' = results
    BY <1>6, Zenon DEF BeginCall
  <2> QED BY <1>4, <2>2, <2>3, <2>4, QuietKept
<1>7. CASE WaitAgain(c)
  <2>1. results' = results /\ api_queue' = api_queue /\ call' = [call EXCEPT ![c].woken = FALSE]
    BY <1>7, Zenon DEF WaitAgain, queueVars
  <2>2. call'[d] = call[d]
    BY <1>1, <2>1
  <2> QED BY <1>4, <1>5, <2>1, <2>2, QuietKept
<1>8. CASE TakeAnswer(c)
  <2>1. PICK i \in 1 .. Len(results) :
          /\ results' = DropAt(results, i)
          /\ \/ Remaining(call[c].plan) # <<>>
             \/ call' = [call EXCEPT ![c] = Idle] /\ UNCHANGED api_queue
    BY <1>1, <1>8, AnswerFacts, Zenon
  <2>2. Remaining(call[c].plan) = <<>>
    <3>1. call[c].plan = Then(call[c].evt)
      BY DEF CallInv
    <3> QED BY <3>1, MoreFacts, GentleFacts
  <2>3. SeqRange(results') \subseteq SeqRange(results)
    BY <1>1, <2>1, RangeFacts
  <2>4. call'[d] = call[d]
    BY <1>1, <2>1, <2>2
  <2> QED BY <1>4, <1>5, <2>1, <2>2, <2>3, <2>4, QuietKept
<1> QED BY <1>6, <1>7, <1>8

\* A step of the driver.
LEMMA DriverKept ==
  ASSUME QuietParams, TypeOK, CallInv, NEW d \in Client, CarInv(d),
         BeginCall(d) \/ WaitAgain(d) \/ TakeAnswer(d)
  PROVE  CarInv(d)'
<1>1. /\ QueueOK /\ AnswerOK /\ results \in Seq(Result) /\ call \in [Client -> Caller]
      /\ RestInv(d) /\ ModeInv(d) /\ ChanInv(d) /\ "none" \notin ParamEvts
  BY TypeParts DEF AnswerOK, CarInv, ParamEvts
<1>2. UNCHANGED <<m_state, m_channels, params, cur>>
  BY Zenon DEF BeginCall, WaitAgain, TakeAnswer, cameraVars
<1>3. CASE BeginCall(d)
  <2>1. PICK k \in Calls[d], e \in ApiEvt, s \in Setting :
          /\ Part(k, e) /\ MayCall(k) /\ Sent(d, e, s, Then(e))
          /\ e \notin {"params_stop", "params_commit", "params_restart"}
    BY <1>3, BeginFacts
  <2>2. call'[d].evt = e
    <3>1. call'[d] = [evt |-> e, plan |-> Then(e), woken |-> FALSE]
      BY <1>1, <2>1, ThenFacts, SentFacts
    <3> QED BY <3>1
  <2>3. \A m \in Submitted' : m \in Submitted \/ m.evt = e
    BY <1>1, <1>2, <2>1, CallerSubmits
  <2>4. ~params.needRestart
    <3>1. call[d] = Idle
      BY <1>3, Zenon DEF BeginCall
    <3> QED BY <1>1, <3>1, MessageFacts DEF RestInv
  <2>5. e \in ParamEvts => m_state \notin {"PIC_TAKING", "PREVIEW_PIC"}
    <3>1. e \in ParamEvts => k = "set_params"
      BY <2>1 DEF ParamEvts, Part
    <3> QED BY <2>1, <3>1 DEF MayCall
  <2>6. RestInv(d)'
    BY <1>1, <1>2, <2>1, <2>3, <2>4 DEF RestInv
  <2>7. ModeInv(d)'
    BY <1>1, <1>2, <2>2, <2>5 DEF ModeInv
  <2>8. ChanInv(d)'
    BY <1>1, <1>2, <2>4 DEF ChanInv
  <2> QED BY <2>6, <2>7, <2>8 DEF CarInv
<1>4. CASE WaitAgain(d)
  <2>1. results' = results /\ api_queue' = api_queue /\ call' = [call EXCEPT ![d].woken = FALSE]
    BY <1>4, Zenon DEF WaitAgain, queueVars
  <2>2. call'[d].evt = call[d].evt
    BY <1>1, <2>1 DEF Caller
  <2>3. Quiet(d)
    BY <1>2, <2>1, <2>2 DEF Quiet, AlikeOn, Submitted
  <2> QED BY <2>3, QuietKept
<1>5. CASE TakeAnswer(d)
  <2> DEFINE more == Remaining(call[d].plan)
  <2>1. PICK i \in 1 .. Len(results) :
          /\ results[i].evt = call[d].evt /\ results' = DropAt(results, i)
          /\ more \in Seq(ApiEvt)
          /\ \/ /\ more # <<>> /\ Sent(d, Head(more), NoSetting, Tail(more))
             \/ /\ more = <<>> \/ ~results[i].ok
                /\ call' = [call EXCEPT ![d] = Idle] /\ UNCHANGED api_queue
    BY <1>1, <1>5, AnswerFacts, Zenon
  <2>2. SeqRange(results') \subseteq SeqRange(results) /\ results[i] \in SeqRange(results)
    BY <1>1, <2>1, RangeFacts
  <2>3. call[d].plan = Then(call[d].evt)
    BY DEF CallInv
  <2>4. CASE more # <<>> /\ Sent(d, Head(more), NoSetting, Tail(more))
    <3> DEFINE h == Head(more)
    <3>1. Follows(call[d].evt, h) /\ h \in ApiEvt /\ Tail(more) \in Seq(ApiEvt) /\ NoSetting \in Setting
      BY <2>1, <2>3, <2>4, MoreFacts, MessageFacts
    <3>2. call'[d].evt = h
      <4>1. call'[d] = [evt |-> h, plan |-> Tail(more), woken |-> FALSE]
        BY <1>1, <2>4, <3>1, SentFacts
      <4> QED BY <4>1
    <3>3. \A m \in Submitted' : m \in Submitted \/ m.evt = h
      BY <1>1, <1>2, <2>4, <3>1, CallerSubmits
    <3> HIDE DEF h, more
    <3>4. h # "set_params" /\ (h \in ParamEvts => call[d].evt \in ParamEvts)
          /\ (h \in {"params_stop", "params_restart"} => params.needRestart)
      <4>1. h \in {"params_stop", "params_restart"} /\ ~params.needRestart => h = "params_stop"
        BY <3>1 DEF Follows
      <4> QED BY <3>1 DEF Follows, ParamEvts
    <3>5. params.needRestart =>
            /\ h \in ParamEvts
            /\ h \in {"params_commit", "params_restart"} => Dark(m_channels)
            /\ call[d].evt \in {"params_stop", "params_commit"} => h \in {"params_commit", "params_restart"}
      BY <1>1, <2>1, <2>2, <3>1 DEF RestInv, Follows, ParamEvts
    <3>6. RestInv(d)'
      BY <1>1, <1>2, <2>2, <3>2, <3>3, <3>4, <3>5 DEF RestInv
    <3>7. ModeInv(d)'
      BY <1>1, <1>2, <3>2, <3>4 DEF ModeInv
    <3>8. ChanInv(d)'
      <4>1. call[d].evt # "params_restart"
        BY <3>1 DEF Follows
      <4> QED BY <1>1, <1>2, <3>2, <3>5, <4>1 DEF ChanInv
    <3> QED BY <3>6, <3>7, <3>8 DEF CarInv
  <2>5. CASE (more = <<>> \/ ~results[i].ok) /\ call' = [call EXCEPT ![d] = Idle] /\ UNCHANGED api_queue
    <3>1. ~params.needRestart
      <4> SUFFICES ASSUME params.needRestart PROVE FALSE
        OBVIOUS
      <4>1. call[d].evt \in {"set_params", "params_stop", "params_commit"} /\ results[i].ok
        BY <1>1, <2>1, <2>2 DEF RestInv, ParamEvts
      <4>2. Then(call[d].evt) # <<>>
        BY <4>1, ThenValues
      <4>3. more = Then(call[d].evt)
        BY <2>3 DEF Remaining
      <4> QED BY <2>5, <4>1, <4>2, <4>3
    <3>2. call'[d].evt = "none"
      BY <1>1, <2>5, MessageFacts
    <3>3. Submitted' = Submitted
      BY <1>2, <2>5 DEF Submitted
    <3>4. RestInv(d)'
      BY <1>1, <1>2, <3>1, <3>3 DEF RestInv
    <3>5. ModeInv(d)'
      BY <1>1, <1>2, <3>2 DEF ModeInv
    <3>6. ChanInv(d)'
      BY <1>1, <1>2, <3>1 DEF ChanInv
    <3> QED BY <3>4, <3>5, <3>6 DEF CarInv
  <2> QED BY <2>1, <2>4, <2>5
<1> QED BY <1>3, <1>4, <1>5

\* A step of the threads behind the machine, or of its queues.
LEMMA BehindKept ==
  ASSUME TypeOK, KindInv, NEW d \in Client, CarInv(d), Behind \/ Dequeue \/ UNCHANGED vars
  PROVE  CarInv(d)'
<1>1. /\ api_queue \in Seq(Message) /\ evt_queue \in Seq(EvtMsg) /\ m_channels \in Channels
      /\ NoSetting \in Setting
  BY TypeParts, MessageFacts DEF QueueOK, CamOK, KindInv
<1>2. UNCHANGED <<m_state, params, results, call>>
  BY BehindFacts, Zenon DEF Dequeue, vars, cameraVars, callVars
<1>3. \A m \in EvtMsg : m.evt \notin ParamEvts
  BY DEF EvtMsg, Evt, ParamEvts
<1>4. ASSUME AlikeOn(m_channels, m_channels'), \A m \in Submitted' : m \in Submitted \/ m.evt \notin ParamEvts
      PROVE  CarInv(d)'
  <2>1. Quiet(d)
    BY <1>2, <1>4 DEF Quiet, Submitted
  <2> QED BY <2>1, QuietKept
<1>5. CASE Behind
  <2>1. AlikeOn(m_channels, m_channels')
    <3>1. "snapshot" \in Chan /\ \A x \in {"zsl", "preview", "video", "capture"} : x \in Chan \ {"snapshot"}
      BY DEF Chan
    <3>2. CASE TakeLiveSnapshot
      <4>1. PICK o \in StartChannel(m_channels, "snapshot", "live") : m_channels' = o.ch
        BY <3>2, Zenon DEF TakeLiveSnapshot
      <4>2. o.ch = SetChannels(m_channels, {"snapshot"}, "on") \/ o.ch = m_channels
        BY <1>1, <3>1, StartFacts
      <4>3. \A x \in Chan : SetChannels(m_channels, {"snapshot"}, "on")[x]
                              = IF x \in {"snapshot"} THEN "on" ELSE m_channels[x]
        BY <1>1, SetFacts
      <4> QED BY <3>1, <4>1, <4>2, <4>3 DEF AlikeOn
    <3>3. CASE CancelLiveSnapshot
      <4>1. m_channels' = StopChannel(m_channels, "snapshot")
        BY <3>3, Zenon DEF CancelLiveSnapshot
      <4> QED BY <1>1, <3>1, <4>1, StopFacts DEF AlikeOn
    <3>4. CASE FramesArrive \/ SnapshotDone \/ PrepSnapshotDone \/ VideoFrame \/ DaemonDies
      <4>1. m_channels' = m_channels
        BY <3>4, Zenon DEF FramesArrive, SnapshotDone, PrepSnapshotDone, VideoFrame, DaemonDies, cameraVars
      <4> QED BY <4>1 DEF AlikeOn
    <3> QED BY <1>5, <3>2, <3>3, <3>4, Zenon DEF Behind
  <2>2. cur' = cur /\ OwnPosts({"cancel", "stop_capture"}, {"prep_done", "snapshot_done"})
    BY <1>5, BehindFacts
  <2>3. ASSUME NEW e \in {"cancel", "stop_capture"},
               api_queue' = Append(api_queue, [evt |-> e, arg |-> NoSetting, from |-> Nobody])
        PROVE  \A m \in Submitted' : m \in Submitted \/ m.evt \notin ParamEvts
    <3> DEFINE x == [evt |-> e, arg |-> NoSetting, from |-> Nobody]
    <3>1. x \in Message /\ x.evt \notin ParamEvts
      BY <1>1 DEF Message, ApiEvt, ParamEvts
    <3>2. api_queue' = Append(api_queue, x)
      BY <2>3
    <3> HIDE DEF x
    <3>3. SeqRange(api_queue') = SeqRange(api_queue) \cup {x}
      BY <1>1, <3>1, <3>2, RangeFacts
    <3> QED BY <2>2, <3>1, <3>3 DEF Submitted
  <2>4. api_queue' = api_queue => \A m \in Submitted' : m \in Submitted
    BY <2>2 DEF Submitted
  <2>5. \A m \in Submitted' : m \in Submitted \/ m.evt \notin ParamEvts
    BY <2>2, <2>3, <2>4, Zenon DEF OwnPosts
  <2> QED BY <1>4, <2>1, <2>5
<1>6. CASE Dequeue
  <2>1. AlikeOn(m_channels, m_channels')
    <3>1. m_channels' = m_channels
      BY <1>6, Zenon DEF Dequeue, cameraVars
    <3> QED BY <3>1 DEF AlikeOn
  <2>2. CASE api_queue # <<>> /\ cur' = Head(api_queue) /\ api_queue' = Tail(api_queue)
    BY <1>1, <1>4, <2>1, <2>2, RangeFacts DEF Submitted
  <2>3. CASE evt_queue # <<>> /\ cur' = Head(evt_queue) /\ api_queue' = api_queue
    <3>1. cur' \in EvtMsg
      BY <1>1, <2>3, HeadTailProperties
    <3> QED BY <1>3, <1>4, <2>1, <2>3, <3>1 DEF Submitted
  <2> QED BY <1>6, <2>2, <2>3, Zenon DEF Dequeue
<1>7. CASE UNCHANGED vars
  <2>1. UNCHANGED <<m_channels, api_queue, cur>>
    BY <1>7, Zenon DEF vars, cameraVars, queueVars
  <2> QED BY <1>4, <2>1 DEF AlikeOn, Submitted
<1> QED BY <1>5, <1>6, <1>7

\* At first nothing runs and nothing is to be restarted.
LEMMA CarInit == ASSUME Init, NEW d \in Client PROVE CarInv(d)
<1>1. /\ m_state = "STOPPED" /\ m_channels = [x \in Chan |-> "none"] /\ ~params.needRestart
      /\ api_queue = <<>> /\ cur = NoMessage
  BY DEF Init
<1>2. RestInv(d)
  BY <1>1, MessageFacts DEF RestInv, Submitted, SeqRange
<1>3. ModeInv(d)
  BY <1>1 DEF ModeInv, ModeFits
<1>4. ChanInv(d)
  BY <1>1 DEF ChanInv, Fits, Dark, Chan
<1> QED BY <1>2, <1>3, <1>4 DEF CarInv

\* The states stand for what runs (preview, video, a capture), in every run with one
\* thread that drives the camera beside any number of others that ask, switch messages,
\* give frames back and cancel, and parameters set outside pictures, as long as
\* preview can be prepared and started: whatever else fails, and whatever is restarted.
THEOREM StatesCorrect ==
  ASSUME Failing \cap {"prepare", "start"} = {}, QuietParams, NEW d \in Client,
         \A c \in Client \ {d} : Calls[c] \subseteq Gentle
  PROVE  Spec => []StateMatchesChannels
<1> DEFINE Inv == KindInv /\ CallInv /\ ClaimedInv /\ CarInv(d)
<1>1. Init => Inv
  BY InitCounts, CarInit DEF ClaimedInv
<1>2. TypeOK /\ TypeOK' /\ Inv /\ [Next]_vars => Inv'
  <2> SUFFICES ASSUME TypeOK, TypeOK', Inv, [Next]_vars PROVE Inv'
    OBVIOUS
  <2>1. KindInv' /\ CallInv'
    BY CallsKept
  <2>2. ClaimedInv'
    BY ClaimedKept
  <2>3. Led(d)
    BY DEF Led
  <2>4. ASSUME \E c \in Client : BeginCall(c) \/ WaitAgain(c) \/ TakeAnswer(c) PROVE CarInv(d)'
    <3>1. PICK c \in Client : BeginCall(c) \/ WaitAgain(c) \/ TakeAnswer(c)
      BY <2>4
    <3>2. CASE c = d
      BY <3>1, <3>2, DriverKept
    <3>3. CASE c # d
      BY <2>3, <3>1, <3>3, OtherCallerKept
    <3> QED BY <3>2, <3>3
  <2>5. ASSUME Handle PROVE CarInv(d)'
    <3>1. cur.evt \in ParamEvts => CarInv(d)'
      BY <2>3, <2>5, ParamsKept
    <3>2. cur.evt \notin ParamEvts => CarInv(d)'
      BY <2>3, <2>5, OthersKept
    <3> QED BY <3>1, <3>2
  <2>6. ASSUME Behind \/ Dequeue \/ UNCHANGED vars PROVE CarInv(d)'
    BY <2>6, BehindKept
  <2>7. CarInv(d)'
    BY <2>4, <2>5, <2>6, Zenon DEF Next, Behind
  <2> QED BY <2>1, <2>2, <2>7
<1>3. TypeOK /\ Inv => StateMatchesChannels
  <2> SUFFICES ASSUME TypeOK, ChanInv(d) PROVE StateMatchesChannels
    BY DEF CarInv
  <2>1. m_state \in State
    BY TypeParts DEF CamOK
  <2>2. CASE Fits(m_state, m_channels)
    BY <2>1, <2>2 DEF StateMatchesChannels, PreviewOn, Fits, Lit, Dark
  <2>3. CASE Bare(m_state, m_channels) /\ Restarting
    BY <2>3 DEF StateMatchesChannels, PreviewOn, Bare, Dark
  <2>4. params.needRestart /\ call[d].evt \in {"params_stop", "params_commit", "params_restart"} => Restarting
    BY DEF Restarting
  <2> QED BY <2>2, <2>3, <2>4 DEF ChanInv
<1> QED BY <1>1, <1>2, <1>3, TypeCorrect, PTL DEF Spec
=============================================================================
