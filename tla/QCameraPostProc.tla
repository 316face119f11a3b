--------------------------- MODULE QCameraPostProc ---------------------------
(***************************************************************************)
(* The HAL1 post-processor, QCamera2/HAL/QCameraPostProc.cpp, on top of    *)
(* the JPEG job manager (MmJpeg).                                          *)
(*                                                                         *)
(* A picture's frames arrive on the channel's thread (processData), go     *)
(* through the reprocess channel if the picture needs it (doReprocess,     *)
(* processPPData on that channel's thread) and are encoded, one job each.  *)
(* The data thread (dataProcessRoutine) carries frames from queue to queue *)
(* on commands; the state machine's thread handles the encoder's answers   *)
(* (processJpegEvt) and, when the picture ends, stops the post-processor.  *)
(* The deferred-work thread starts it and makes the encoding session.      *)
(*                                                                         *)
(* Left out: raw pictures and the thread that saves JPEGs, a second pass   *)
(* of reprocessing, offline input buffers; see the README.                 *)
(***************************************************************************)
EXTENDS MmJpeg, SequencePick

CONSTANTS
    Modes,                \* what needReprocess may say of a picture
    MaxFrames,            \* bound: the frames of a behaviour
    MaxPictures           \* bound: the pictures of a behaviour

ASSUME PostProcAssumption ==
    /\ Modes \subseteq BOOLEAN
    /\ MaxFrames \in Nat /\ MaxPictures \in Nat

VARIABLES
    picture, pictures,    \* "none", "taking" or "stopping"; how many so far
    needReprocess,        \* of the picture being taken
    deferred,             \* what the deferred-work thread has left to do
    cmd_queue, sync_sem,  \* of m_dataProcTh
    is_active, data,      \* the data thread: where it is, with which frame
    mNewJpegSessionNeeded,
    m_inputPPQ, m_ongoingPPQ, m_inputJpegQ,
    m_ongoingJpegQ,       \* frames with their job, 0 until start_job returned
    m_active,             \* which of the first three queues take data
    reprocessing,         \* frames in the reprocess channel
    ppHand,               \* the frame processPPData has in its hands
    released              \* frame -> how often it went back to its channel

ppQueues == <<m_inputPPQ, m_ongoingPPQ, m_inputJpegQ, m_active>>
camera   == <<picture, pictures, needReprocess, deferred>>
worker   == <<is_active, data, mNewJpegSessionNeeded>>
ppVars   == <<camera, cmd_queue, sync_sem, worker, ppQueues, m_ongoingJpegQ,
              reprocessing, ppHand, released>>
vars     == <<jpegVars, ppVars>>

Frames  == 1 .. Len(released)
NoFrame == 0
QueueNames == {"inputPP", "ongoingPP", "inputJpeg"}

Release(fs) == released' = [f \in Frames |-> released[f] + IF f \in fs THEN 1 ELSE 0]
Elements(q) == { q[i] : i \in 1 .. Len(q) }
SendNext    == cmd_queue' = Append(cmd_queue, "NEXT")

\* sendCmd with sync_cmd: the caller waits until the command is carried out.
WaitSyncForgets == sync_sem > 0 /\ sync_sem' = sync_sem
WaitSync == sync_sem > 0 /\ sync_sem' = sync_sem - 1

Init ==
    /\ JpegInit
    /\ picture = "none" /\ pictures = 0 /\ needReprocess = FALSE /\ deferred = "none"
    /\ cmd_queue = <<>> /\ sync_sem = 0
    /\ is_active = FALSE /\ data = [pc |-> "wait", frame |-> NoFrame]
    /\ mNewJpegSessionNeeded = TRUE
    /\ m_inputPPQ = <<>> /\ m_ongoingPPQ = <<>> /\ m_inputJpegQ = <<>>
    /\ m_ongoingJpegQ = <<>> /\ m_active = QueueNames
    /\ reprocessing = {} /\ ppHand = NoFrame /\ released = <<>>

-----------------------------------------------------------------------------
(* The picture's course, on the state machine's and deferred-work threads.  *)

\* takePicture queues CMD_DEF_PPROC_START and CMD_DEF_CREATE_JPEG_SESSION.
TakePicture ==
    /\ picture = "none" /\ pictures < MaxPictures
    /\ picture' = "taking" /\ pictures' = pictures + 1
    /\ needReprocess' \in Modes
    /\ deferred' = "start"
    /\ UNCHANGED <<jpegVars, cmd_queue, sync_sem, worker, ppQueues,
                   m_ongoingJpegQ, reprocessing, ppHand, released>>

\* start: the data thread is told, and waited for.
Start ==
    /\ deferred = "start"
    /\ cmd_queue' = Append(cmd_queue, "START")
    /\ deferred' = "sync"
    /\ UNCHANGED <<jpegVars, picture, pictures, needReprocess, sync_sem, worker,
                   ppQueues, m_ongoingJpegQ, reprocessing, ppHand, released>>

Started ==
    /\ deferred = "sync" /\ WaitSync
    /\ deferred' = "create"
    /\ UNCHANGED <<jpegVars, picture, pictures, needReprocess, cmd_queue, worker,
                   ppQueues, m_ongoingJpegQ, reprocessing, ppHand, released>>

\* createJpegSession does something if there are reprocess channels; if it
\* fails, encodeData tries again.
CreateJpegSession ==
    /\ deferred = "create"
    /\ deferred' = "none"
    /\ \/ /\ needReprocess
          /\ CreateSession
          /\ mNewJpegSessionNeeded' = FALSE
       \/ UNCHANGED <<jpegVars, mNewJpegSessionNeeded>>
    /\ UNCHANGED <<picture, pictures, needReprocess, cmd_queue, sync_sem,
                   is_active, data, ppQueues, m_ongoingJpegQ, reprocessing,
                   ppHand, released>>

\* cancelPicture, and the end of a picture: the deferred work is waited for,
\* then stop sends its command ahead of all others.
CancelPicture ==
    /\ picture = "taking" /\ deferred = "none"
    /\ picture' = "stopping"
    /\ cmd_queue' = <<"STOP">> \o cmd_queue
    /\ UNCHANGED <<jpegVars, pictures, needReprocess, deferred, sync_sem, worker,
                   ppQueues, m_ongoingJpegQ, reprocessing, ppHand, released>>

\* stop goes on to stop the reprocess channels and their threads.
Stopped ==
    /\ picture = "stopping" /\ ppHand = NoFrame
    /\ WaitSync
    /\ picture' = "none"
    /\ reprocessing' = {}
    /\ UNCHANGED <<jpegVars, pictures, needReprocess, deferred, cmd_queue, worker,
                   ppQueues, m_ongoingJpegQ, ppHand, released>>

\* processJpegEvt; a state that takes no picture drops the event.
ProcessJpegEvt ==
    /\ events # <<>> /\ picture # "stopping"
    /\ events' = Tail(events)
    /\ IF picture = "taking"
       THEN LET all  == 1 .. Len(m_ongoingJpegQ)
                done == { i \in all : m_ongoingJpegQ[i].job = Head(events).job }
            IN  /\ Release({ m_ongoingJpegQ[i].frame : i \in done })
                /\ m_ongoingJpegQ' = Pick(m_ongoingJpegQ, all \ done)
                /\ cmd_queue' = cmd_queue \o IF m_inputPPQ = <<>> THEN <<"NEXT">>
                                             ELSE <<"NEXT", "NEXT">>
       ELSE UNCHANGED <<released, m_ongoingJpegQ, cmd_queue>>
    /\ UNCHANGED <<active, queues, job_sem, job_lock, mgr, api, session, woken, lock,
                   device, answers, quiet, camera, sync_sem, worker, ppQueues,
                   reprocessing, ppHand>>

-----------------------------------------------------------------------------
(* The channels' threads.                                                   *)

\* processData: the callback waits for mReprocJob first.  A queue that takes no
\* data sends the frame back.
ProcessData ==
    /\ pictures > 0 /\ deferred \in {"create", "none"}
    /\ Len(released) < MaxFrames
    /\ LET f == Len(released) + 1
           to == IF needReprocess THEN "inputPP" ELSE "inputJpeg"
       IN  IF to \in m_active
           THEN /\ m_inputPPQ' = IF needReprocess THEN Append(m_inputPPQ, f)
                                 ELSE m_inputPPQ
                /\ m_inputJpegQ' = IF needReprocess THEN m_inputJpegQ
                                   ELSE Append(m_inputJpegQ, f)
                /\ released' = Append(released, 0)
                /\ SendNext
           ELSE /\ released' = Append(released, 1)
                /\ UNCHANGED <<m_inputPPQ, m_inputJpegQ, cmd_queue>>
    /\ UNCHANGED <<jpegVars, camera, sync_sem, worker, m_ongoingPPQ, m_active,
                   m_ongoingJpegQ, reprocessing, ppHand>>

\* A frame comes back from the reprocess channel; its callback has waited for
\* mJpegJob.  processPPData takes the first job of m_ongoingPPQ for it ...
ProcessPPData ==
    /\ reprocessing # {} /\ ppHand = NoFrame /\ deferred = "none"
    /\ IF m_ongoingPPQ # <<>> /\ "ongoingPP" \in m_active
       THEN /\ ppHand' = Head(m_ongoingPPQ)
            /\ m_ongoingPPQ' = Tail(m_ongoingPPQ)
            /\ reprocessing' = reprocessing \ {Head(m_ongoingPPQ)}
       ELSE /\ \E f \in reprocessing : reprocessing' = reprocessing \ {f}
            /\ UNCHANGED <<ppHand, m_ongoingPPQ>>
    /\ UNCHANGED <<jpegVars, camera, cmd_queue, sync_sem, worker, m_inputPPQ,
                   m_inputJpegQ, m_active, m_ongoingJpegQ, released>>

\* ... and sends it on to be encoded.
PPDataToJpeg ==
    /\ ppHand # NoFrame
    /\ IF "inputJpeg" \in m_active
       THEN /\ m_inputJpegQ' = Append(m_inputJpegQ, ppHand)
            /\ SendNext
            /\ UNCHANGED released
       ELSE /\ Release({ppHand})
            /\ UNCHANGED <<m_inputJpegQ, cmd_queue>>
    /\ ppHand' = NoFrame
    /\ UNCHANGED <<jpegVars, camera, sync_sem, worker, m_inputPPQ, m_ongoingPPQ,
                   m_active, m_ongoingJpegQ, reprocessing>>

-----------------------------------------------------------------------------
(* The data thread.                                                         *)

GoTo(pc) == data' = [data EXCEPT !.pc = pc]

\* The queues after a flush of those in names: empty, and closed to data.
Flush(names) ==
    /\ m_inputPPQ'   = IF "inputPP" \in names THEN <<>> ELSE m_inputPPQ
    /\ m_ongoingPPQ' = IF "ongoingPP" \in names THEN <<>> ELSE m_ongoingPPQ
    /\ m_active' = m_active \ names

\* START, STOP, or DO_NEXT_JOB while the thread is active.
TakeCommand ==
    /\ data.pc = "wait" /\ cmd_queue # <<>>
    /\ cmd_queue' = Tail(cmd_queue)
    /\ \/ /\ Head(cmd_queue) = "START"
          /\ is_active' = TRUE /\ m_active' = QueueNames /\ sync_sem' = sync_sem + 1
          /\ UNCHANGED <<data, m_inputPPQ, m_ongoingPPQ, m_inputJpegQ, released>>
       \/ /\ Head(cmd_queue) = "STOP"
          /\ is_active' = FALSE /\ GoTo("abort")
          /\ UNCHANGED <<ppQueues, sync_sem, released>>
       \/ /\ Head(cmd_queue) = "NEXT" /\ is_active
          /\ GoTo("jpeg")
          /\ UNCHANGED <<is_active, ppQueues, sync_sem, released>>
       \/ /\ Head(cmd_queue) = "NEXT" /\ ~ is_active
          /\ LET first == IF m_inputJpegQ = <<>> \/ "inputJpeg" \notin m_active THEN {}
                          ELSE {Head(m_inputJpegQ)}
             IN  /\ m_inputJpegQ' = IF first = {} THEN m_inputJpegQ ELSE Tail(m_inputJpegQ)
                 /\ Release(first \cup Elements(m_inputPPQ))
          /\ Flush({"inputPP"})
          /\ UNCHANGED <<data, is_active, sync_sem>>
    /\ UNCHANGED <<jpegVars, camera, mNewJpegSessionNeeded, m_ongoingJpegQ,
                   reprocessing, ppHand>>

\* DO_NEXT_JOB: the first frame becomes an ongoing job, not numbered yet.
NextJpeg ==
    /\ data.pc = "jpeg"
    /\ IF m_inputJpegQ = <<>>
       THEN GoTo("reprocess") /\ UNCHANGED <<m_inputJpegQ, m_ongoingJpegQ>>
       ELSE /\ data' = [pc |-> "encode", frame |-> Head(m_inputJpegQ)]
            /\ m_inputJpegQ' = Tail(m_inputJpegQ)
            /\ m_ongoingJpegQ' = Append(m_ongoingJpegQ,
                                    [frame |-> Head(m_inputJpegQ), job |-> NoJob])
    /\ UNCHANGED <<jpegVars, camera, cmd_queue, sync_sem, is_active,
                   mNewJpegSessionNeeded, m_inputPPQ, m_ongoingPPQ, m_active,
                   reprocessing, ppHand, released>>

\* encodeData makes a session if there is none ...
EncodeNewSession ==
    /\ data.pc = "encode" /\ mNewJpegSessionNeeded
    /\ CreateSession
    /\ mNewJpegSessionNeeded' = FALSE
    /\ UNCHANGED <<camera, cmd_queue, sync_sem, is_active, data, ppQueues,
                   m_ongoingJpegQ, reprocessing, ppHand, released>>

\* ... and starts the job.
EncodeData ==
    /\ data.pc = "encode" /\ ~ mNewJpegSessionNeeded
    /\ StartJob
    /\ GoTo("number")
    /\ UNCHANGED <<camera, cmd_queue, sync_sem, is_active, mNewJpegSessionNeeded,
                   ppQueues, m_ongoingJpegQ, reprocessing, ppHand, released>>

\* start_job has returned: the job's number is noted, for processJpegEvt.
Numbered(q, j) == [q EXCEPT ![Len(q)].job = j]
NumberJob ==
    /\ data.pc = "number" /\ ApiIdle
    /\ m_ongoingJpegQ' = Numbered(m_ongoingJpegQ, Len(answers))
    /\ data' = [pc |-> "reprocess", frame |-> NoFrame]
    /\ UNCHANGED <<jpegVars, camera, cmd_queue, sync_sem, is_active,
                   mNewJpegSessionNeeded, ppQueues, reprocessing, ppHand, released>>

\* encodeData fails: the job, the last of the queue, goes and its frame returns.
ForgetFirst(q) == Tail(q)
Forget(q) == SubSeq(q, 1, Len(q) - 1)
EncodeDataFails ==
    /\ data.pc = "encode"
    /\ m_ongoingJpegQ' = Forget(m_ongoingJpegQ)
    /\ Release({data.frame})
    /\ data' = [pc |-> "reprocess", frame |-> NoFrame]
    /\ UNCHANGED <<jpegVars, camera, cmd_queue, sync_sem, is_active,
                   mNewJpegSessionNeeded, ppQueues, reprocessing, ppHand>>

\* doReprocess: the first frame goes to the reprocess channel, stays where it is
\* when the channel has no buffer left, or goes back if the channel refuses it. A
\* frame taken off the queue has both its super-buffers, and one channel is in use.
DoReprocess ==
    /\ data.pc = "reprocess"
    /\ GoTo("wait")
    /\ \/ /\ m_inputPPQ # <<>>
          /\ m_inputPPQ' = Tail(m_inputPPQ)
          /\ \/ /\ m_ongoingPPQ' = Append(m_ongoingPPQ, Head(m_inputPPQ))
                /\ reprocessing' = reprocessing \cup {Head(m_inputPPQ)}
                /\ UNCHANGED released
             \/ /\ Release({Head(m_inputPPQ)})
                /\ UNCHANGED <<m_ongoingPPQ, reprocessing>>
       \/ /\ m_inputPPQ = <<>> \/ m_ongoingPPQ # <<>>
          /\ UNCHANGED <<m_inputPPQ, m_ongoingPPQ, reprocessing, released>>
    /\ UNCHANGED <<jpegVars, camera, cmd_queue, sync_sem, is_active,
                   mNewJpegSessionNeeded, m_inputJpegQ, m_active, m_ongoingJpegQ,
                   ppHand>>

\* STOP: every ongoing job is taken off its queue and aborted ...
StopAborts ==
    /\ data.pc = "abort" /\ m_ongoingJpegQ # <<>>
    /\ AbortJob(Head(m_ongoingJpegQ).job)
    /\ data' = [pc |-> "aborting", frame |-> Head(m_ongoingJpegQ).frame]
    /\ m_ongoingJpegQ' = Tail(m_ongoingJpegQ)
    /\ UNCHANGED <<camera, cmd_queue, sync_sem, is_active, mNewJpegSessionNeeded,
                   ppQueues, reprocessing, ppHand, released>>

\* ... and, once abort_job has returned, its frame is released ...
StopReleases ==
    /\ data.pc = "aborting" /\ ApiIdle
    /\ Release({data.frame})
    /\ data' = [pc |-> "abort", frame |-> NoFrame]
    /\ UNCHANGED <<jpegVars, camera, cmd_queue, sync_sem, is_active,
                   mNewJpegSessionNeeded, ppQueues, m_ongoingJpegQ, reprocessing,
                   ppHand>>

\* ... then the session goes, if there is one ...
StopDestroys ==
    /\ data.pc = "abort" /\ m_ongoingJpegQ = <<>>
    /\ IF active THEN DestroySession ELSE UNCHANGED jpegVars
    /\ GoTo("destroying")
    /\ UNCHANGED <<camera, cmd_queue, sync_sem, is_active, mNewJpegSessionNeeded,
                   ppQueues, m_ongoingJpegQ, reprocessing, ppHand, released>>

StopDestroyed ==
    /\ data.pc = "destroying" /\ ApiIdle
    /\ GoTo("flushPP")
    /\ UNCHANGED <<jpegVars, camera, cmd_queue, sync_sem, is_active,
                   mNewJpegSessionNeeded, ppQueues, m_ongoingJpegQ, reprocessing,
                   ppHand, released>>

\* ... and the queues are flushed one after the other.
StopFlushesOngoing ==
    /\ data.pc = "flushPP"
    /\ Flush({"ongoingPP"}) /\ Release(Elements(m_ongoingPPQ))
    /\ GoTo("flushJpeg")
    /\ UNCHANGED <<jpegVars, camera, cmd_queue, sync_sem, is_active,
                   mNewJpegSessionNeeded, m_inputJpegQ, m_ongoingJpegQ,
                   reprocessing, ppHand>>

StopFlushesInput ==
    /\ data.pc = "flushJpeg"
    /\ m_inputJpegQ' = <<>> /\ Release(Elements(m_inputJpegQ))
    /\ m_active' = m_active \ {"inputJpeg"}
    /\ GoTo("flushInput")
    /\ UNCHANGED <<jpegVars, camera, cmd_queue, sync_sem, is_active,
                   mNewJpegSessionNeeded, m_inputPPQ, m_ongoingPPQ, m_ongoingJpegQ,
                   reprocessing, ppHand>>

StopFlushesPP ==
    /\ data.pc = "flushInput"
    /\ Flush({"inputPP"}) /\ Release(Elements(m_inputPPQ))
    /\ GoTo("synced")
    /\ sync_sem' = sync_sem + 1
    /\ UNCHANGED <<jpegVars, camera, cmd_queue, is_active, mNewJpegSessionNeeded,
                   m_inputJpegQ, m_ongoingJpegQ, reprocessing, ppHand>>

\* The waiter is woken before the flag is set.
StopEnds ==
    /\ data.pc = "synced"
    /\ mNewJpegSessionNeeded' = TRUE
    /\ GoTo("wait")
    /\ UNCHANGED <<jpegVars, camera, cmd_queue, sync_sem, is_active, ppQueues,
                   m_ongoingJpegQ, reprocessing, ppHand, released>>

-----------------------------------------------------------------------------
JpegSteps == (InCall \/ JobMgr \/ Codec) /\ UNCHANGED ppVars

DataThread ==
    \/ TakeCommand \/ NextJpeg \/ EncodeNewSession \/ EncodeData \/ NumberJob
    \/ EncodeDataFails \/ DoReprocess \/ StopAborts \/ StopReleases
    \/ StopDestroys \/ StopDestroyed \/ StopFlushesOngoing \/ StopFlushesInput
    \/ StopFlushesPP \/ StopEnds

Next ==
    \/ TakePicture \/ Start \/ Started \/ CreateJpegSession \/ CancelPicture
    \/ Stopped \/ ProcessJpegEvt \/ ProcessData \/ ProcessPPData \/ PPDataToJpeg
    \/ DataThread \/ JpegSteps

Spec == Init /\ [][Next]_vars


\* The threads run; the codec answers and carries out its commands; the state
\* machine comes to its events, and the reprocess channel's thread finishes.
Fairness ==
    /\ WF_vars(DataThread)
    /\ WF_vars(InCall /\ UNCHANGED ppVars) /\ WF_vars(JobMgr /\ UNCHANGED ppVars)
    /\ WF_vars(Answers /\ UNCHANGED ppVars) /\ WF_vars(Callbacks /\ UNCHANGED ppVars)
    /\ WF_vars(EventCmdComplete /\ UNCHANGED ppVars)
    /\ WF_vars(PPDataToJpeg) /\ WF_vars(Stopped)

FairSpec == Spec /\ Fairness

-----------------------------------------------------------------------------
(* What makes the post-processor correct.                                   *)

\* Every variable has its type.
TypeOK ==
    /\ JpegTypeOK
    /\ picture \in {"none", "taking", "stopping"} /\ pictures \in Nat
    /\ needReprocess \in BOOLEAN
    /\ deferred \in {"none", "start", "sync", "create"}
    /\ cmd_queue \in Seq({"START", "STOP", "NEXT"}) /\ sync_sem \in 0 .. 1
    /\ is_active \in BOOLEAN /\ mNewJpegSessionNeeded \in BOOLEAN
    /\ data \in [pc : {"wait", "jpeg", "encode", "number", "reprocess", "abort",
                      "aborting", "destroying", "flushPP", "flushJpeg",
                      "flushInput", "synced"},
                frame : 0 .. Len(released)]
    /\ m_inputPPQ \in Seq(Frames) /\ m_ongoingPPQ \in Seq(Frames)
    /\ m_inputJpegQ \in Seq(Frames)
    /\ m_ongoingJpegQ \in Seq([frame : Frames, job : 0 .. Len(answers)])
    /\ m_active \subseteq QueueNames
    /\ reprocessing \subseteq Frames /\ ppHand \in 0 .. Len(released)
    /\ released \in Seq(Nat)

Occurrences(q, f) == Cardinality({ i \in 1 .. Len(q) : q[i] = f })
InHand(f) == IF f = ppHand \/ (data.pc = "aborting" /\ f = data.frame) THEN 1 ELSE 0
Held(f) ==
    Occurrences(m_inputPPQ, f) + Occurrences(m_ongoingPPQ, f)
    + Occurrences(m_inputJpegQ, f)
    + Cardinality({ i \in 1 .. Len(m_ongoingJpegQ) : m_ongoingJpegQ[i].frame = f })
    + InHand(f)

\* Every frame given to the post-processor is in one of its queues or in a
\* thread's hands, or went back to its channel once, whichever of the four
\* threads that release frames did it; when stop has returned all went back.
FramesAccounted ==
    \A f \in Frames :
        /\ Held(f) + released[f] = 1
        /\ picture = "none" => released[f] = 1

\* stop returns: the data thread's abort of every job and its wait for the codec
\* come to an end, whatever the codec was doing.
StopReturns == (picture = "stopping") ~> (picture = "none")

=============================================================================
