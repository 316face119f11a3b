------------------------- MODULE QCameraStateMachine -------------------------
(* The HAL1 camera: the state machine thread of QCameraStateMachine.cpp, the   *)
(* threads of the framework that call it through the API lock and the answer   *)
(* list of QCamera2HWI.cpp, and what works behind it: the notifier that tells  *)
(* of a finished picture, the post-processor, the live snapshot thread and the *)
(* hardware. A handler of the state machine is one action. An API call is the  *)
(* sequence of messages HWI submits for it, each answered before the next.     *)
(*                                                                             *)
(* Pictures are single JPEGs; long shot, retro-active frames, RAW, the preview *)
(* restart property and the second camera of a dual set are left out. Nodes of *)
(* the queues and of the answer list are always allocated: signalAPIResult     *)
(* without memory only logs it, and its waiter waits for ever.                 *)
EXTENDS Naturals, Sequences, FiniteSets

CONSTANTS
  Client,        \* threads of the framework that call the HAL
  Nobody,        \* the sender of a message nobody waits for
  Calls,         \* Calls[c]: the calls thread c makes
  Settings,      \* the settings set_parameters is called with
  Flash,         \* the values of mFlashNeeded at take_picture
  Failing,       \* which operations of the hardware may fail
  LateRelease,   \* the framework may give a video frame back after recording
  QuietParams,   \* no set_parameters while a picture is being taken
  DaemonMayDie,  \* the camera daemon may die
  MaxCalls       \* bound: calls made in a run

State == {"STOPPED", "READY", "PREVIEWING", "PREPARE_SNAPSHOT", "PIC_TAKING",
          "RECORDING", "VIDEO_PIC", "PREVIEW_PIC"}
Setting == [zsl : BOOLEAN, hint : BOOLEAN, restart : BOOLEAN]
NoSetting == [zsl |-> FALSE, hint |-> FALSE, restart |-> FALSE]
ApiEvt == {"query", "set_window", "clear_window", "enable", "disable", "set_params",
           "params_stop", "params_commit", "params_restart", "prepare_preview",
           "start_preview", "stop_preview", "preview_enabled", "pre_start",
           "start_recording", "stop_recording", "release_frame", "prepare_snapshot",
           "pre_take", "take", "cancel", "stop_capture", "release"}
Evt == {"prep_done", "snapshot_done"}
Call == ApiEvt \ {"params_stop", "params_commit", "params_restart", "pre_start",
                  "prepare_snapshot", "pre_take", "stop_capture"}

ASSUME StateMachineAssumption ==
  /\ IsFiniteSet(Client) /\ Nobody \notin Client
  /\ Calls \in [Client -> SUBSET Call]
  /\ Settings \subseteq Setting /\ Flash \subseteq BOOLEAN
  /\ Failing \subseteq {"prepare", "start", "record", "take", "live", "thread", "hw"}
  /\ {LateRelease, QuietParams, DaemonMayDie} \subseteq BOOLEAN
  /\ MaxCalls \in Nat

VARIABLES
  m_state,
  m_channels,    \* whether a channel exists, and whether it is started
  params,        \* effective, new and textual ZSL mode and recording hint
  mPreviewWindow,
  msgs,          \* the PREVIEW_FRAME message: m_bDelayPreviewMsgs, m_DelayedMsgs,
                 \* mMsgEnabled, and what the framework last asked for
  shot,          \* the picture in flight: the channel it comes from, or "jpeg"
  prep,          \* the hardware is preparing a snapshot
  live,          \* what the live snapshot thread has to do
  notifier,      \* the notifier: idle, or waiting for its event's answer
  daemon,        \* the camera daemon is alive
  frame,         \* the framework holds a video frame
  api_queue, evt_queue,
  cur,           \* the message the state machine thread has taken
  results,       \* m_apiResultList
  call,          \* each caller: the message it waits for and those to follow
  calls          \* calls made so far

cameraVars == <<m_channels, params, mPreviewWindow, prep, live>>
queueVars  == <<api_queue, evt_queue>>
callVars   == <<results, call, calls>>
envVars    == <<notifier, daemon, frame>>
vars == <<m_state, cameraVars, msgs, shot, queueVars, cur, callVars, envVars>>

Chan == {"zsl", "preview", "video", "snapshot", "capture"}
Channels == [Chan -> {"none", "added", "on"}]
Params == [zsl : BOOLEAN, zslNew : BOOLEAN, hint : BOOLEAN, hintNew : BOOLEAN,
           hintKey : BOOLEAN, hintTmp : BOOLEAN, needRestart : BOOLEAN]
Message == [evt : ApiEvt \cup Evt, arg : Setting, from : Client \cup {Nobody}]
NoMessage == [evt |-> "none", arg |-> NoSetting, from |-> Nobody]
Idle == [evt |-> "none", plan |-> <<>>, woken |-> FALSE]

TypeOK ==
  /\ m_state \in State /\ m_channels \in Channels /\ params \in Params
  /\ mPreviewWindow \in BOOLEAN /\ prep \in BOOLEAN /\ daemon \in BOOLEAN
  /\ frame \in BOOLEAN
  /\ msgs \in [delaying : BOOLEAN, delayed : BOOLEAN, enabled : BOOLEAN, wanted : BOOLEAN]
  /\ shot \in Chan \cup {"none", "jpeg"} /\ live \in {"none", "take", "cancel"}
  /\ notifier \in {"idle", "wait"}
  /\ api_queue \in Seq(Message) /\ evt_queue \in Seq(Message)
  /\ cur \in Message \cup {NoMessage}
  /\ results \in Seq([evt : ApiEvt, ok : BOOLEAN])
  /\ call \in [Client -> [evt : ApiEvt \cup {"none"}, plan : Seq(ApiEvt), woken : BOOLEAN]]
  /\ calls \in 0 .. MaxCalls

Init ==
  /\ m_state = "STOPPED" /\ m_channels = [x \in Chan |-> "none"]
  /\ \E z \in BOOLEAN :
       params = [zsl |-> z, zslNew |-> z, hint |-> FALSE, hintNew |-> FALSE,
                 hintKey |-> FALSE, hintTmp |-> FALSE, needRestart |-> FALSE]
  /\ mPreviewWindow = FALSE
  /\ msgs = [delaying |-> FALSE, delayed |-> FALSE, enabled |-> FALSE, wanted |-> FALSE]
  /\ shot = "none" /\ prep = FALSE /\ live = "none"
  /\ notifier = "idle" /\ daemon = TRUE /\ frame = FALSE
  /\ api_queue = <<>> /\ evt_queue = <<>> /\ cur = NoMessage
  /\ results = <<>> /\ call = [c \in Client |-> Idle] /\ calls = 0

May(op) == IF op \in Failing THEN BOOLEAN ELSE {TRUE}

------------------------------------------------------------------------------
(* Parameters.                                                                 *)

\* updateParameters: the new values are remembered, what differs asks for a restart.
UpdateParameters(p, s) ==
  LET hintSet == s.hint # p.hintKey
  IN [p EXCEPT !.zslNew = s.zsl,
               !.hintTmp = s.hint,
               !.hintNew = IF hintSet THEN s.hint ELSE @,
               !.needRestart = s.restart \/ s.zsl # p.zslNew \/ (hintSet /\ s.hint # p.hint)]

\* commitParamChanges: the text and the new values become effective.
CommitParamChanges(p) ==
  [p EXCEPT !.zsl = p.zslNew, !.hint = p.hintNew, !.hintKey = p.hintTmp]

\* updateRecordingHintValue: a batch of its own, committed at once.
UpdateRecordingHintValue(p, v) ==
  CommitParamChanges([p EXCEPT !.hintTmp = p.hintKey, !.hintNew = v])

NoRestart(p) == [p EXCEPT !.needRestart = FALSE]

------------------------------------------------------------------------------
(* Channels. An operation that can fail is the set of its outcomes.            *)

SetChannels(c, S, v) == [x \in Chan |-> IF x \in S THEN v ELSE c[x]]
UnpreparePreview(c) == SetChannels(c, Chan \ {"capture"}, "none")
StopPreview(c) == UnpreparePreview(c)
StopChannel(c, x) == IF c[x] = "on" THEN SetChannels(c, {x}, "added") ELSE c

\* The channels preparePreview adds in the mode of p.
ModeChannels(p) ==
  IF p.zsl /\ ~p.hint THEN {"zsl"}
  ELSE {"preview"} \cup (IF p.hint THEN {"video", "snapshot"} ELSE {})

PreparePreview(c, p) ==
  {[ok |-> k, ch |-> SetChannels(c, ModeChannels(p), IF k THEN "added" ELSE "none")]
     : k \in May("prepare")}

\* startChannel fails when the channel does not exist.
StartChannel(c, x, op) ==
  {[ok |-> k, ch |-> IF k THEN SetChannels(c, {x}, "on") ELSE c]
     : k \in IF c[x] = "none" THEN {FALSE} ELSE May(op)}

StartPreview(c, p) ==
  StartChannel(c, IF p.zsl /\ ~p.hint THEN "zsl" ELSE "preview", "start")

StartOrUnprepare(c, p) ==
  {[o EXCEPT !.ch = IF o.ok THEN @ ELSE UnpreparePreview(@)] : o \in StartPreview(c, p)}

\* preparePreview, then startPreview; what was prepared is deleted if that fails.
PrepareAndStart(c, p) ==
  UNION {{[ok |-> o.ok, prepared |-> q.ok, ch |-> o.ch]
            : o \in IF q.ok THEN StartOrUnprepare(q.ch, p) ELSE {q}}
          : q \in PreparePreview(c, p)}

\* preStartRecording: preview is restarted for video, without undoing a failure.
PreStartRecording(c, p) ==
  IF p.hint THEN {[ok |-> TRUE, ch |-> c, par |-> p]}
  ELSE LET p2 == UpdateRecordingHintValue(p, TRUE)
       IN UNION {{[ok |-> o.ok, ch |-> o.ch, par |-> p2]
                    : o \in IF q.ok THEN StartPreview(q.ch, p2) ELSE {q}}
                  : q \in PreparePreview(StopPreview(c), p2)}

\* Preview is restarted for pictures, in preTakePicture and before takePicture.
ClearRecordingHint(c, p) ==
  IF ~p.hint THEN {[ok |-> TRUE, ch |-> c, par |-> p]}
  ELSE LET p2 == UpdateRecordingHintValue(p, FALSE)
       IN {[ok |-> o.ok, ch |-> o.ch, par |-> p2] : o \in PrepareAndStart(StopPreview(c), p2)}

\* takePicture: a request to the ZSL channel, or a capture after preview stopped.
TakePicture(c, p) ==
  IF p.zsl THEN {[ok |-> k, ch |-> c] : k \in IF c["zsl"] = "none" THEN {FALSE} ELSE May("take")}
  ELSE {[ok |-> TRUE, ch |-> SetChannels(StopPreview(c), {"capture"}, "on")]} \cup
       (IF "take" \in Failing
        THEN {[ok |-> FALSE, ch |-> d]
                : d \in {c} \cup {SetChannels(StopPreview(c), {"capture"}, v) : v \in {"none", "added"}}}
        ELSE {})

\* Variant for a mutation: the capture channel is left.
CancelPictureLeaves(c, p) == c

\* cancelPicture acts on the channel of the mode that is effective now.
CancelPicture(c, p) == IF p.zsl THEN c ELSE SetChannels(c, {"capture"}, "none")

------------------------------------------------------------------------------
(* The API lock, the answer list and the callers. A caller holds m_lock except *)
(* while it waits, so what it does from one wait to the next is one action.    *)

\* The messages of a call; set_params decides on the others as it goes.
Plans(k) ==
  CASE k = "set_params"      -> {<<"set_params", "params_stop", "params_commit", "params_restart">>}
    [] k = "start_recording" -> {<<"pre_start", "start_recording">>}
    [] k = "take"            -> {(IF f THEN <<"prepare_snapshot">> ELSE <<>>) \o <<"pre_take", "take">>
                                   : f \in Flash}
    [] OTHER                 -> {<<k>>}

\* SET_PARAMS_STOP and SET_PARAMS_RESTART are submitted only for a restart.
Remaining(plan) ==
  IF plan # <<>> /\ Head(plan) \in {"params_stop", "params_restart"} /\ ~params.needRestart
  THEN Tail(plan) ELSE plan

\* processAPI, then waitAPIResult: the message is queued and the caller waits.
Submit(c, plan, s) ==
  /\ api_queue' = Append(api_queue, [evt |-> Head(plan), arg |-> s, from |-> c])
  /\ call' = [call EXCEPT ![c] = [evt |-> Head(plan), plan |-> Tail(plan), woken |-> FALSE]]

\* A frame is given back once, and unless LateRelease before recording ends.
MayCall(k) ==
  /\ k = "release_frame" => frame
  /\ k = "release_frame" /\ ~LateRelease =>
       m_state \in {"RECORDING", "VIDEO_PIC"} /\ api_queue = <<>> /\ cur = NoMessage
  /\ k = "set_params" /\ QuietParams => m_state \notin {"PIC_TAKING", "PREVIEW_PIC"}

BeginCall(c) ==
  /\ call[c] = Idle /\ calls < MaxCalls
  /\ \E k \in Calls[c] : \E s \in IF k = "set_params" THEN Settings ELSE {NoSetting} :
       /\ MayCall(k)
       /\ \E plan \in Plans(k) : Submit(c, plan, s)
       /\ frame' = (frame /\ k # "release_frame")
  /\ calls' = calls + 1
  /\ UNCHANGED <<m_state, cameraVars, msgs, shot, evt_queue, cur, results, notifier, daemon>>

\* A waiter woken before its answer is there waits again.
WaitAgain(c) ==
  /\ call[c].woken
  /\ \A i \in DOMAIN results : results[i].evt # call[c].evt
  /\ call' = [call EXCEPT ![c].woken = FALSE]
  /\ UNCHANGED <<m_state, cameraVars, msgs, shot, queueVars, cur, results, calls, envVars>>

\* Variant for a mutation: the first answer is taken for one's own.
TakeAnyAnswer(c) ==
  /\ call[c].woken /\ results # <<>> /\ results' = Tail(results)
  /\ LET more == Remaining(call[c].plan)
     IN IF more # <<>> /\ Head(results).ok THEN Submit(c, more, NoSetting)
        ELSE call' = [call EXCEPT ![c] = Idle] /\ UNCHANGED api_queue
  /\ UNCHANGED <<m_state, cameraVars, msgs, shot, evt_queue, cur, calls, envVars>>

\* It takes the oldest answer of its event type, whoever it was meant for, and
\* goes on; the status of prepare_snapshot is ignored.
TakeAnswer(c) ==
  /\ call[c].woken
  /\ \E i \in DOMAIN results :
       /\ results[i].evt = call[c].evt
       /\ \A j \in 1 .. i - 1 : results[j].evt # call[c].evt
       /\ results' = SubSeq(results, 1, i - 1) \o SubSeq(results, i + 1, Len(results))
       /\ LET more == Remaining(call[c].plan)
          IN IF more # <<>> /\ (results[i].ok \/ call[c].evt = "prepare_snapshot")
             THEN Submit(c, more, NoSetting)
             ELSE call' = [call EXCEPT ![c] = Idle] /\ UNCHANGED api_queue
  /\ UNCHANGED <<m_state, cameraVars, msgs, shot, evt_queue, cur, calls, envVars>>

------------------------------------------------------------------------------
(* Handling a message: what becomes of the camera, and of whoever waits.       *)

\* Variant for a mutation: one waiter is woken, whichever it is.
SignalOne(e, ok) ==
  /\ results' = Append(results, [evt |-> e, ok |-> ok])
  /\ IF \A c \in Client : call[c] = Idle THEN UNCHANGED call
     ELSE \E c \in Client : call[c] # Idle /\ call' = [call EXCEPT ![c].woken = TRUE]

\* signalAPIResult: the answer is listed and every waiter woken.
SignalAPIResult(e, ok) ==
  /\ results' = Append(results, [evt |-> e, ok |-> ok])
  /\ call' = [c \in Client |-> [call[c] EXCEPT !.woken = call[c] # Idle]]

Handled == cur' = NoMessage /\ UNCHANGED <<queueVars, calls, daemon, frame>>
Answer(ok) == SignalAPIResult(cur.evt, ok) /\ Handled /\ UNCHANGED notifier
Silent == Handled /\ UNCHANGED <<results, call, notifier>>

\* Variant for a mutation: an event is answered in the list of the calls.
SignalEvtAsApi ==
  SignalAPIResult(cur.evt, TRUE) /\ Handled /\ notifier' = "idle"

\* signalEvtResult: the notifier goes on.
SignalEvtResult == Handled /\ notifier' = "idle" /\ UNCHANGED <<results, call>>

On(S) == cur.evt \in S

\* A picture is lost with the channel it was to come from.
Kept(c) == IF shot \in Chan /\ c[shot] # "on" THEN "none" ELSE shot

\* The new state, channels and parameters; the rest is said by each handler.
Become(s, c, p) ==
  m_state' = s /\ m_channels' = c /\ params' = p /\ UNCHANGED <<mPreviewWindow, prep>>
Remain == UNCHANGED <<m_state, cameraVars, msgs, shot>>
Settle(s, c, p) == Become(s, c, p) /\ shot' = Kept(c) /\ UNCHANGED live
Reply(ok) == Remain /\ Answer(ok)

\* Variant for a mutation: the flag is cleared before it is looked at.
ApplyDelayedLate == msgs' = [msgs EXCEPT !.delayed = FALSE, !.delaying = FALSE]

\* applyDelayedMsgs
ApplyDelayedMsgs ==
  msgs' = [msgs EXCEPT !.enabled = @ \/ (msgs.delaying /\ msgs.delayed),
                       !.delayed = @ /\ ~msgs.delaying,
                       !.delaying = FALSE]
KeepMsgs == UNCHANGED msgs

\* Variant for a mutation: the thread that cancels is not started.
StartLiveOnce(job, ok) ==
  /\ live = "none" /\ ok \in May("thread")
  /\ live' = IF ok /\ job = "take" THEN job ELSE "none"

\* takeLiveSnapshot and cancelLiveSnapshot join the live snapshot thread of the
\* picture before, then start another; the handler cannot run until it is gone.
StartLive(job, ok) ==
  /\ live = "none" /\ ok \in May("thread")
  /\ live' = IF ok THEN job ELSE "none"

\* Messages are enabled and disabled at once in most states.
MsgType ==
  /\ On({"enable", "disable"})
  /\ msgs' = [msgs EXCEPT !.enabled = On({"enable"}), !.wanted = On({"enable"})]
  /\ UNCHANGED <<m_state, cameraVars, shot>> /\ Answer(TRUE)

SetParams ==
  /\ On({"set_params"})
  /\ Settle(m_state, m_channels, UpdateParameters(params, cur.arg)) /\ KeepMsgs
  /\ Answer(TRUE)

\* While recording, what needs a restart is refused after it was remembered.
SetParamsRecording ==
  /\ On({"set_params"})
  /\ LET p == UpdateParameters(params, cur.arg)
     IN Settle(m_state, m_channels, NoRestart(p)) /\ Answer(~p.needRestart)
  /\ KeepMsgs

CommitParams ==
  /\ On({"params_commit"})
  /\ Settle(m_state, m_channels, CommitParamChanges(params)) /\ KeepMsgs /\ Answer(TRUE)

DropRestart ==
  On({"params_restart"}) /\ Settle(m_state, m_channels, NoRestart(params)) /\ KeepMsgs /\ Answer(TRUE)

NothingToDo == On({"snapshot_done"}) /\ Remain /\ SignalEvtResult
Ignore == On({"prep_done", "stop_capture"}) /\ Remain /\ Silent
CloseFrame == On({"release_frame"}) /\ Remain /\ Silent

------------------------------------------------------------------------------
(* QCAMERA_SM_STATE_PREVIEW_STOPPED                                            *)

StoppedReplies ==
  \/ On({"query", "stop_preview", "preview_enabled", "cancel", "params_stop"}) /\ Reply(TRUE)
  \/ On({"pre_start", "start_recording", "stop_recording", "prepare_snapshot",
         "pre_take", "take"}) /\ Reply(FALSE)

SetPreviewWindow ==
  /\ On({"set_window", "clear_window"})
  /\ mPreviewWindow' = On({"set_window"})
  /\ UNCHANGED <<m_state, m_channels, params, prep, live, msgs, shot>> /\ Answer(TRUE)

\* Without a window preview is only prepared.
StoppedPreview ==
  \/ /\ On({"prepare_preview"}) \/ (On({"start_preview"}) /\ ~mPreviewWindow)
     /\ \E o \in PreparePreview(m_channels, params) :
          Settle(IF o.ok THEN "READY" ELSE m_state, o.ch, params) /\ Answer(o.ok)
     /\ KeepMsgs
  \/ /\ On({"start_preview"}) /\ mPreviewWindow
     /\ \E o \in PrepareAndStart(m_channels, params) :
          /\ Settle(IF o.ok THEN "PREVIEWING" ELSE m_state, o.ch, params) /\ Answer(o.ok)
          /\ IF o.prepared THEN ApplyDelayedMsgs ELSE KeepMsgs
  \/ /\ On({"release"})
     /\ Settle(m_state, [x \in Chan |-> "none"], params) /\ KeepMsgs /\ Answer(TRUE)

StoppedState ==
  /\ m_state = "STOPPED"
  /\ \/ StoppedReplies \/ SetPreviewWindow \/ StoppedPreview
     \/ MsgType \/ SetParams \/ CommitParams \/ DropRestart
     \/ CloseFrame \/ NothingToDo \/ Ignore

------------------------------------------------------------------------------
(* QCAMERA_SM_STATE_PREVIEW_READY                                              *)

ReadyReplies ==
  \/ On({"query", "prepare_preview", "preview_enabled"}) /\ Reply(TRUE)
  \/ On({"pre_start", "start_recording", "stop_recording", "prepare_snapshot",
         "pre_take", "take", "cancel", "release"}) /\ Reply(FALSE)

\* Preview starts once a window is there; a failure unprepares it, which
\* start_preview does not report.
ReadyPreview ==
  \/ /\ On({"set_window", "start_preview"}) /\ (On({"set_window"}) \/ mPreviewWindow)
     /\ \E o \in StartOrUnprepare(m_channels, params) :
          /\ m_state' = IF o.ok THEN "PREVIEWING" ELSE "STOPPED"
          /\ m_channels' = o.ch /\ shot' = Kept(o.ch)
          /\ Answer(o.ok \/ On({"start_preview"}))
     /\ mPreviewWindow' = TRUE
     /\ IF On({"set_window"}) THEN ApplyDelayedMsgs ELSE KeepMsgs
     /\ UNCHANGED <<params, prep, live>>
  \/ On({"start_preview"}) /\ ~mPreviewWindow /\ Reply(TRUE)
  \/ On({"clear_window"}) /\ SetPreviewWindow
  \/ /\ On({"stop_preview"})
     /\ Settle("STOPPED", UnpreparePreview(m_channels), params) /\ KeepMsgs /\ Answer(TRUE)

ReadyRestart ==
  \/ /\ On({"params_stop"})
     /\ Settle(m_state, UnpreparePreview(m_channels), params) /\ KeepMsgs /\ Answer(TRUE)
  \/ /\ On({"params_restart"})
     /\ \E o \in PreparePreview(m_channels, params) :
          Settle(IF o.ok THEN m_state ELSE "STOPPED", o.ch, NoRestart(params)) /\ Answer(o.ok)
     /\ KeepMsgs

ReadyState ==
  /\ m_state = "READY"
  /\ \/ ReadyReplies \/ ReadyPreview \/ ReadyRestart \/ MsgType \/ SetParams \/ CommitParams
     \/ CloseFrame \/ NothingToDo \/ Ignore

------------------------------------------------------------------------------
(* QCAMERA_SM_STATE_PREVIEWING                                                 *)

PreviewingReplies ==
  \/ On({"query", "prepare_preview", "cancel", "stop_recording"}) /\ Reply(TRUE)
  \/ On({"set_window", "clear_window", "release"}) /\ Reply(FALSE)

\* PREVIEW_FRAME waits in m_DelayedMsgs until the framework is seen to be ready.
PreviewingMsgType ==
  \/ /\ On({"enable"})
     /\ msgs' = IF msgs.delaying THEN [msgs EXCEPT !.delayed = TRUE, !.wanted = TRUE]
                ELSE [msgs EXCEPT !.enabled = TRUE, !.wanted = TRUE]
     /\ UNCHANGED <<m_state, cameraVars, shot>> /\ Answer(TRUE)
  \/ /\ On({"disable"})
     /\ msgs' = [delaying |-> msgs.delaying /\ ~msgs.delayed,
                 delayed |-> msgs.delayed /\ ~msgs.delaying,
                 enabled |-> FALSE, wanted |-> FALSE]
     /\ UNCHANGED <<m_state, cameraVars, shot>> /\ Answer(TRUE)

PreviewingRestart ==
  \/ /\ On({"params_stop"})
     /\ Settle(m_state, StopPreview(m_channels), params) /\ KeepMsgs /\ Answer(TRUE)
  \/ /\ On({"params_restart"})
     /\ \E o \in PrepareAndStart(m_channels, params) :
          /\ Settle(IF o.prepared /\ ~o.ok THEN "STOPPED" ELSE m_state, o.ch, NoRestart(params))
          /\ IF o.prepared THEN ApplyDelayedMsgs ELSE KeepMsgs
          /\ Answer(o.ok)

PreviewingPreview ==
  \/ /\ On({"start_preview", "preview_enabled"}) /\ ApplyDelayedMsgs
     /\ UNCHANGED <<m_state, cameraVars, shot>> /\ Answer(TRUE)
  \/ /\ On({"stop_preview"})
     /\ Settle("STOPPED", StopPreview(m_channels), params) /\ ApplyDelayedMsgs /\ Answer(TRUE)

PreviewingRecord ==
  \/ /\ On({"pre_start"})
     /\ \E o \in PreStartRecording(m_channels, params) :
          Settle(m_state, o.ch, o.par) /\ Answer(o.ok)
     /\ KeepMsgs
  \/ /\ On({"start_recording"})
     /\ \E o \in StartChannel(m_channels, "video", "record") :
          /\ Settle(IF o.ok THEN "RECORDING" ELSE m_state, o.ch, params) /\ Answer(o.ok)
          /\ IF o.ok THEN ApplyDelayedMsgs ELSE KeepMsgs

\* Variant for a mutation: the state does not wait for the hardware.
PrepareSnapshotStays ==
  /\ On({"prepare_snapshot"}) /\ prep' = TRUE /\ Silent
  /\ UNCHANGED <<m_state, m_channels, params, mPreviewWindow, live, msgs, shot>>

\* The answer of a prepare_snapshot the hardware accepts comes when it is done.
PreviewingPrepareSnapshot ==
  /\ On({"prepare_snapshot"})
  /\ \E ok \in May("hw") :
       IF ok THEN /\ m_state' = "PREPARE_SNAPSHOT" /\ prep' = TRUE
                  /\ ApplyDelayedMsgs /\ Silent
                  /\ UNCHANGED <<m_channels, params, mPreviewWindow, live, shot>>
       ELSE Reply(FALSE)

PreviewingPreTake ==
  /\ On({"pre_take"})
  /\ \E o \in ClearRecordingHint(m_channels, params) :
       Settle(m_state, o.ch, o.par) /\ Answer(o.ok)
  /\ KeepMsgs

\* A ZSL picture is requested while preview goes on.
TakeZsl(o) ==
  \E t \in TakePicture(o.ch, o.par) :
    /\ Become(IF t.ok THEN "PREVIEW_PIC" ELSE "PREVIEWING", t.ch, o.par) /\ UNCHANGED live
    /\ shot' = IF t.ok /\ t.ch["zsl"] = "on" THEN "zsl" ELSE Kept(t.ch)
    /\ msgs' = [msgs EXCEPT !.delaying = TRUE] /\ Answer(t.ok)

\* A capture stops preview; when it fails preview is started again.
TakeCapture(o) ==
  \E t \in TakePicture(o.ch, o.par) :
    /\ IF t.ok THEN Become("PIC_TAKING", t.ch, o.par) /\ shot' = "capture"
       ELSE \E r \in PrepareAndStart(StopPreview(t.ch), o.par) :
              Become(IF r.ok THEN "PREVIEWING" ELSE "STOPPED", r.ch, o.par) /\ shot' = Kept(r.ch)
    /\ UNCHANGED live /\ KeepMsgs /\ Answer(t.ok)

PreviewingTake ==
  /\ On({"take"})
  /\ \E o \in ClearRecordingHint(m_channels, params) :
       IF o.par.zsl THEN TakeZsl(o) ELSE TakeCapture(o)

PreviewingState ==
  /\ m_state = "PREVIEWING"
  /\ \/ PreviewingReplies \/ PreviewingMsgType \/ PreviewingRestart \/ PreviewingPreview
     \/ PreviewingRecord \/ PreviewingPrepareSnapshot \/ PreviewingPreTake \/ PreviewingTake
     \/ SetParams \/ CommitParams \/ CloseFrame \/ NothingToDo \/ Ignore

------------------------------------------------------------------------------
(* QCAMERA_SM_STATE_PREPARE_SNAPSHOT: every call is refused until the hardware *)
(* is done, and prepare_snapshot is answered then.                             *)

PrepareSnapshotState ==
  /\ m_state = "PREPARE_SNAPSHOT"
  /\ \/ On(ApiEvt \ {"stop_capture"}) /\ Reply(FALSE)
     \/ /\ On({"prep_done"})
        /\ Settle("PREVIEWING", m_channels, params) /\ KeepMsgs
        /\ SignalAPIResult("prepare_snapshot", TRUE) /\ Handled /\ UNCHANGED notifier
     \/ NothingToDo
     \/ On({"stop_capture"}) /\ Remain /\ Silent

------------------------------------------------------------------------------
(* QCAMERA_SM_STATE_PIC_TAKING: a capture, preview stopped.                    *)

PicTakingReplies ==
  \/ On({"query", "preview_enabled", "params_stop"}) /\ Reply(TRUE)
  \/ On({"set_window", "clear_window", "prepare_snapshot", "pre_start", "start_recording",
         "stop_recording", "release_frame", "prepare_preview", "start_preview", "release",
         "pre_take", "take"}) /\ Reply(FALSE)

EndCapture(s) ==
  /\ Become(s, CancelPicture(m_channels, params), params)
  /\ shot' = "none" /\ UNCHANGED live

\* Variant for a mutation: a finished picture does not leave the state.
PicTakingStays ==
  \/ On({"stop_preview", "cancel"}) /\ EndCapture("STOPPED") /\ KeepMsgs /\ Answer(TRUE)
  \/ On({"snapshot_done"}) /\ EndCapture(m_state) /\ KeepMsgs /\ SignalEvtResult

PicTakingEnd ==
  \/ On({"stop_preview", "cancel"}) /\ EndCapture("STOPPED") /\ KeepMsgs /\ Answer(TRUE)
  \/ On({"snapshot_done"}) /\ EndCapture("STOPPED") /\ KeepMsgs /\ SignalEvtResult

\* The frames are in: the channel stops. Nobody waits for the answer.
StopCaptureChannel ==
  /\ On({"stop_capture"})
  /\ Settle(m_state, StopChannel(m_channels, "capture"), params) /\ KeepMsgs
  /\ Answer(m_channels["capture"] # "none")

PicTakingState ==
  /\ m_state = "PIC_TAKING"
  /\ \/ PicTakingReplies \/ PicTakingEnd \/ StopCaptureChannel
     \/ MsgType \/ SetParams \/ CommitParams \/ DropRestart
     \/ On({"prep_done"}) /\ Remain /\ Silent

------------------------------------------------------------------------------
(* QCAMERA_SM_STATE_RECORDING                                                  *)

RecordingReplies ==
  \/ On({"query", "prepare_preview", "start_preview", "set_window", "clear_window", "pre_take",
         "pre_start", "start_recording", "prepare_snapshot", "preview_enabled",
         "release_frame"}) /\ Reply(TRUE)
  \/ On({"params_stop", "params_restart", "cancel", "release"}) /\ Reply(FALSE)

RecordingTake ==
  /\ On({"take"})
  /\ \E ok \in BOOLEAN :
       /\ StartLive("take", ok)
       /\ Become(IF ok THEN "VIDEO_PIC" ELSE "RECORDING", m_channels, params)
       /\ Answer(ok)
  /\ UNCHANGED <<msgs, shot>>

RecordingStop ==
  \/ /\ On({"stop_recording"})
     /\ Settle("PREVIEWING", StopChannel(m_channels, "video"), params) /\ KeepMsgs /\ Answer(TRUE)
  \/ /\ On({"stop_preview"})
     /\ Settle("STOPPED", StopPreview(m_channels), params) /\ KeepMsgs /\ Answer(TRUE)

RecordingState ==
  /\ m_state = "RECORDING"
  /\ \/ RecordingReplies \/ RecordingTake \/ RecordingStop
     \/ MsgType \/ SetParamsRecording \/ CommitParams \/ NothingToDo \/ Ignore

------------------------------------------------------------------------------
(* QCAMERA_SM_STATE_VIDEO_PIC_TAKING: a live snapshot while recording.         *)

VideoPicReplies ==
  \/ On({"query", "preview_enabled", "release_frame"}) /\ Reply(TRUE)
  \/ On({"set_window", "clear_window", "params_stop", "params_restart", "pre_start",
         "start_recording", "prepare_preview", "start_preview", "prepare_snapshot", "pre_take",
         "take", "release"}) /\ Reply(FALSE)

VideoPicEnd ==
  \E ok \in BOOLEAN :
    /\ StartLive("cancel", ok) /\ KeepMsgs
    /\ \/ /\ On({"stop_recording"}) /\ Answer(TRUE)
          /\ Become("PREVIEWING", StopChannel(m_channels, "video"), params) /\ UNCHANGED shot
       \/ /\ On({"stop_preview"}) /\ Answer(TRUE)
          /\ Become("STOPPED", StopPreview(m_channels), params) /\ shot' = Kept(StopPreview(m_channels))
       \/ /\ On({"cancel"}) /\ Answer(ok)
          /\ Become("RECORDING", m_channels, params) /\ UNCHANGED shot
       \/ /\ On({"snapshot_done"}) /\ SignalEvtResult
          /\ Become("RECORDING", m_channels, params) /\ UNCHANGED shot

VideoPicState ==
  /\ m_state = "VIDEO_PIC"
  /\ \/ VideoPicReplies \/ VideoPicEnd
     \/ MsgType \/ SetParamsRecording \/ CommitParams \/ Ignore

------------------------------------------------------------------------------
(* QCAMERA_SM_STATE_PREVIEW_PIC_TAKING: a ZSL picture while preview runs.      *)

PreviewPicReplies ==
  \/ On({"query", "preview_enabled", "release_frame"}) /\ Reply(TRUE)
  \/ On({"prepare_snapshot", "pre_take", "take", "stop_recording", "prepare_preview",
         "start_preview", "set_window", "clear_window", "release"}) /\ Reply(FALSE)

PreviewPicRestart ==
  \/ /\ On({"params_stop"})
     /\ Settle(m_state, StopPreview(m_channels), params) /\ KeepMsgs /\ Answer(TRUE)
  \/ /\ On({"params_restart"})
     /\ \E o \in PrepareAndStart(m_channels, params) :
          /\ Settle(IF o.ok THEN m_state ELSE "PIC_TAKING", o.ch, NoRestart(params))
          /\ IF o.prepared THEN ApplyDelayedMsgs ELSE KeepMsgs
          /\ Answer(o.ok)

\* Recording may only begin once the mode has changed under the picture.
PreviewPicRecord ==
  \/ On({"pre_start", "start_recording"}) /\ params.zsl /\ Reply(FALSE)
  \/ /\ On({"pre_start"}) /\ ~params.zsl
     /\ \E o \in PreStartRecording(m_channels, params) :
          Settle(m_state, o.ch, o.par) /\ Answer(o.ok)
     /\ KeepMsgs
  \/ /\ On({"start_recording"}) /\ ~params.zsl
     /\ \E o \in StartChannel(m_channels, "video", "record") :
          Settle(IF o.ok THEN "VIDEO_PIC" ELSE m_state, o.ch, params) /\ Answer(o.ok)
     /\ KeepMsgs

\* The picture ends, the way the mode in force says.
PreviewPicEnd ==
  /\ On({"cancel", "stop_preview", "snapshot_done"})
  /\ LET c == IF On({"stop_preview"}) THEN StopPreview(m_channels) ELSE m_channels
     IN \E ok \in BOOLEAN :
          /\ Become(IF On({"stop_preview"}) THEN "STOPPED" ELSE "PREVIEWING", c, params)
          /\ IF params.zsl THEN ok /\ shot' = "none" /\ UNCHANGED live
             ELSE StartLive("cancel", ok) /\ shot' = Kept(c)
          /\ IF On({"snapshot_done"}) THEN SignalEvtResult ELSE Answer(ok)
  /\ KeepMsgs

PreviewPicState ==
  /\ m_state = "PREVIEW_PIC"
  /\ \/ PreviewPicReplies \/ PreviewPicRestart \/ PreviewPicRecord \/ PreviewPicEnd
     \/ MsgType \/ SetParams \/ CommitParams \/ Ignore

------------------------------------------------------------------------------
(* The state machine thread takes calls before events, and handles them whole. *)

Dequeue ==
  /\ cur = NoMessage
  /\ \/ /\ api_queue # <<>>
        /\ cur' = Head(api_queue) /\ api_queue' = Tail(api_queue) /\ UNCHANGED evt_queue
     \/ /\ api_queue = <<>> /\ evt_queue # <<>>
        /\ cur' = Head(evt_queue) /\ evt_queue' = Tail(evt_queue) /\ UNCHANGED api_queue
  /\ UNCHANGED <<m_state, cameraVars, msgs, shot, callVars, envVars>>

Handle ==
  \/ StoppedState \/ ReadyState \/ PreviewingState \/ PrepareSnapshotState
  \/ PicTakingState \/ RecordingState \/ VideoPicState \/ PreviewPicState

------------------------------------------------------------------------------
(* Behind the state machine.                                                   *)

PostApi(e) == api_queue' = Append(api_queue, [evt |-> e, arg |-> NoSetting, from |-> Nobody])
PostEvt(e) == evt_queue' = Append(evt_queue, [evt |-> e, arg |-> NoSetting, from |-> Nobody])

\* The post-processor has the frames; after a regular capture it has the
\* channel stopped (stopCapture), and waits for no answer.
FramesArrive ==
  /\ shot \in Chan /\ daemon /\ shot' = "jpeg"
  /\ IF shot = "capture" /\ ~params.hint /\ ~params.zsl
     THEN PostApi("stop_capture") ELSE UNCHANGED api_queue
  /\ UNCHANGED <<m_state, cameraVars, msgs, evt_queue, cur, callVars, envVars>>

\* The notifier delivered the last JPEG: processSyncEvt posts and waits.
SnapshotDone ==
  /\ shot = "jpeg" /\ notifier = "idle"
  /\ shot' = "none" /\ notifier' = "wait" /\ PostEvt("snapshot_done")
  /\ UNCHANGED <<m_state, cameraVars, msgs, api_queue, cur, callVars, daemon, frame>>

PreviewOn == m_channels["zsl"] = "on" \/ m_channels["preview"] = "on"

\* A frame's metadata tells that the snapshot is prepared.
PrepSnapshotDone ==
  /\ prep /\ daemon /\ PreviewOn
  /\ prep' = FALSE /\ PostEvt("prep_done")
  /\ UNCHANGED <<m_state, m_channels, params, mPreviewWindow, live, msgs, shot, api_queue,
                 cur, callVars, envVars>>

\* takeLiveSnapshot_internal starts the snapshot channel; when it fails it
\* cancels the picture by a message nobody waits for.
TakeLiveSnapshot ==
  /\ live = "take" /\ live' = "none"
  /\ \E o \in StartChannel(m_channels, "snapshot", "live") :
       /\ m_channels' = o.ch
       /\ shot' = IF o.ok THEN "snapshot" ELSE shot
       /\ IF o.ok THEN UNCHANGED api_queue ELSE PostApi("cancel")
  /\ UNCHANGED <<m_state, params, mPreviewWindow, prep, msgs, evt_queue, cur, callVars, envVars>>

\* cancelLiveSnapshot_internal stops the post-processor, then the channel.
CancelLiveSnapshot ==
  /\ live = "cancel" /\ live' = "none"
  /\ m_channels' = StopChannel(m_channels, "snapshot") /\ shot' = "none"
  /\ UNCHANGED <<m_state, params, mPreviewWindow, prep, msgs, queueVars, cur, callVars, envVars>>

\* A video frame goes up to the framework.
VideoFrame ==
  /\ m_channels["video"] = "on" /\ daemon /\ ~frame /\ frame' = TRUE
  /\ UNCHANGED <<m_state, cameraVars, msgs, shot, queueVars, cur, callVars, notifier, daemon>>

\* camEvtHandle keeps the death of the daemon to itself: it wakes the deferred
\* work and posts nothing, so that no state ever handles the event.
DaemonDies ==
  /\ DaemonMayDie /\ daemon /\ daemon' = FALSE
  /\ UNCHANGED <<m_state, cameraVars, msgs, shot, queueVars, cur, callVars, notifier, frame>>

Next ==
  \/ \E c \in Client : BeginCall(c) \/ WaitAgain(c) \/ TakeAnswer(c)
  \/ Dequeue \/ Handle
  \/ FramesArrive \/ SnapshotDone \/ PrepSnapshotDone
  \/ TakeLiveSnapshot \/ CancelLiveSnapshot \/ VideoFrame \/ DaemonDies

Spec == Init /\ [][Next]_vars

\* Every thread is scheduled, and a live daemon delivers what was asked of it.
Fairness ==
  /\ WF_vars(Dequeue) /\ WF_vars(Handle)
  /\ \A c \in Client : WF_vars(WaitAgain(c)) /\ WF_vars(TakeAnswer(c))
  /\ WF_vars(FramesArrive) /\ WF_vars(SnapshotDone) /\ WF_vars(PrepSnapshotDone)
  /\ WF_vars(TakeLiveSnapshot) /\ WF_vars(CancelLiveSnapshot)

FairSpec == Spec /\ Fairness

------------------------------------------------------------------------------
(* Properties.                                                                 *)

SeqRange(s) == {s[i] : i \in DOMAIN s}
Submitted == SeqRange(api_queue) \cup {cur}

\* How many answers of event type e are there or on their way. The answer of
\* prepare_snapshot is owed by the state until the hardware is done.
Owed(e) ==
  Cardinality({i \in DOMAIN api_queue : api_queue[i].evt = e})
  + Cardinality({i \in DOMAIN results : results[i].evt = e})
  + (IF cur.evt = e THEN 1 ELSE 0)
  + (IF e = "prepare_snapshot" /\ m_state = "PREPARE_SNAPSHOT"
        /\ (prep \/ "prep_done" \in {m.evt : m \in SeqRange(evt_queue) \cup {cur}}) THEN 1 ELSE 0)

\* "This is a blocking call, it will return only cerntain API event type arrives"
\* (waitAPIResult), and it has no timeout: for every thread that waits there is a message,
\* an answer or a state of the machine that will bring it one.
EveryWaiterServed ==
  \A e \in ApiEvt : Cardinality({c \in Client : call[c].evt = e}) <= Owed(e)

\* The machine is handed a pointer to the caller's argument (processAPI): until
\* the message is handled the caller is still inside the call it belongs to,
\* whatever answers nobody waited for have been left in the list. (Two threads
\* inside the same call may take each other's answer and break it.)
PayloadAlive ==
  \A m \in Submitted :
    m.evt \in {"set_window", "enable", "disable", "set_params", "release_frame"} =>
      call[m.from].evt = m.evt

\* Between SET_PARAMS_STOP and SET_PARAMS_RESTART the state says nothing.
Restarting ==
  /\ params.needRestart
  /\ \E c \in Client : call[c].evt \in {"params_stop", "params_commit", "params_restart"}

\* What the states stand for (QCameraStateMachine.h): preview runs exactly in the
\* states that say so and on one channel only, video exactly while recording, and
\* a capture channel only while a picture is taken.
StateMatchesChannels ==
  /\ m_state \in {"STOPPED", "READY", "PIC_TAKING"} => ~PreviewOn
  /\ m_state \notin {"STOPPED", "READY", "PIC_TAKING"} => PreviewOn \/ Restarting
  /\ ~(m_channels["zsl"] = "on" /\ m_channels["preview"] = "on")
  /\ m_channels["video"] = "on" <=> m_state \in {"RECORDING", "VIDEO_PIC"}
  /\ m_channels["capture"] = "on" => m_state = "PIC_TAKING"

\* No picture is in flight when no state waits for it: it was delivered,
\* cancelled, or the live snapshot thread is about to cancel it.
PictureHasState ==
  shot # "none" => m_state \in {"PIC_TAKING", "PREVIEW_PIC", "VIDEO_PIC"} \/ live = "cancel"

\* PREVIEW_FRAME, asked for while the messages are held back, is enabled or
\* still remembered: no transition drops it.
EnableKept == msgs.wanted => msgs.enabled \/ (msgs.delaying /\ msgs.delayed)

\* Every call returns, the notifier's included.
CallsReturn ==
  /\ \A c \in Client : call[c] # Idle ~> call[c] = Idle
  /\ notifier = "wait" ~> notifier = "idle"

\* Every picture ends: the machine does not stay in the state that takes it.
PicturesEnd ==
  m_state \in {"PIC_TAKING", "PREVIEW_PIC", "VIDEO_PIC"} ~>
    m_state \notin {"PIC_TAKING", "PREVIEW_PIC", "VIDEO_PIC"}

=============================================================================
