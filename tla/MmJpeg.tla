------------------------------- MODULE MmJpeg -------------------------------
(***************************************************************************)
(* The JPEG job manager, mm-jpeg-interface/src/mm_jpeg.c, for one client   *)
(* with one encoding session at a time, as HAL1 uses it.                   *)
(*                                                                         *)
(* Three threads meet here.  A client starts and aborts jobs and destroys  *)
(* the session; the job manager (mm_jpeg_jobmgr_thread) hands a waiting    *)
(* job to the codec when no other is under way; the codec, an OMX          *)
(* component outside this repository, calls mm_jpeg_fbd and                *)
(* mm_jpeg_event_handler on a thread of its own.  job_lock orders client   *)
(* and manager, the session's lock orders the codec with both; the job     *)
(* queues have locks of their own and are read by all.                     *)
(*                                                                         *)
(* What is assumed of the codec: it answers a job once, with a full buffer *)
(* or an error, and after an error only gives the buffer back; it carries  *)
(* out every state command it accepts. To Idle and then to Loaded, each    *)
(* with its wait, is one command here, and configuring it never fails.     *)
(***************************************************************************)
EXTENDS Integers, Sequences

CONSTANT MaxJobs                      \* bound: the jobs of a behaviour
ASSUME JpegAssumption == MaxJobs \in Nat

VARIABLES
    active,               \* is there a session?
    job_queue,            \* the jobs that wait, first to last
    ongoing_job_q,        \* the set of jobs under way
    job_sem,
    job_lock,             \* who holds it: "none", "mgr" or "client"
    mgr,                  \* the manager: where it is, with which job
    api,                  \* the client: which call it is in, for which job
    \* the session
    session_handle_q,     \* how often the session is in it
    abort_state, encoding, jobId, config, error_flag,
    state_change_pending,
    woken,                \* cond was signalled under the client
    lock,                 \* who holds it between two steps: "none" or "codec"
    \* the codec
    codec, commands,      \* what it does; state commands not carried out
    cb,                   \* what its thread is about to do in mm_jpegenc_job_done
    \* history
    answers,              \* job -> how often the client was called for it
    events,               \* the calls the client has not looked at
    quiet                 \* jobs whose abort has returned

session == <<session_handle_q, abort_state, encoding, jobId, config,
             error_flag, state_change_pending>>
queues  == <<job_queue, ongoing_job_q>>
device  == <<codec, commands, cb>>
history == <<answers, events, quiet>>
jpegVars == <<active, queues, job_sem, job_lock, mgr, api, session, woken,
              lock, device, history>>

Jobs  == 1 .. Len(answers)
NoJob == 0

JpegInit ==
    /\ active = FALSE
    /\ job_queue = <<>> /\ ongoing_job_q = {} /\ job_sem = 0
    /\ job_lock = "none" /\ lock = "none"
    /\ mgr = [pc |-> "wait", job |-> NoJob, empty |-> FALSE]
    /\ api = [call |-> "none", pc |-> "idle", job |-> NoJob]
    /\ session_handle_q = 0 /\ abort_state = "NONE" /\ encoding = FALSE
    /\ jobId = NoJob /\ config = FALSE /\ error_flag = FALSE
    /\ state_change_pending = FALSE /\ woken = FALSE
    /\ codec = "none" /\ commands = 0 /\ cb = "idle"
    /\ answers = <<>> /\ events = <<>> /\ quiet = {}

\* The client's jpeg_encode_callback_t.
JpegCb(j, status) ==
    /\ answers' = [answers EXCEPT ![j] = @ + 1]
    /\ events' = Append(events, [job |-> j, status |-> status])

\* The queue after mm_jpeg_queue_remove_job_by_job_id; a job is in it once.
Place(q, j)   == CHOOSE i \in 1 .. Len(q) : q[i] = j
Without(q, j) == IF \E i \in 1 .. Len(q) : q[i] = j
                 THEN SubSeq(q, 1, Place(q, j) - 1)
                          \o SubSeq(q, Place(q, j) + 1, Len(q))
                 ELSE q

-----------------------------------------------------------------------------
(* The client's calls.                                                      *)

ApiIdle == api.pc = "idle"
Returns == api' = [call |-> "none", pc |-> "idle", job |-> NoJob]

\* mm_jpeg_create_session configures the codec when no other session holds it, and
\* destroying the session before has let it go.
CreateSession ==
    /\ ApiIdle /\ ~ active
    /\ active' = TRUE /\ session_handle_q' = 1
    /\ abort_state' = "NONE" /\ encoding' = FALSE /\ jobId' = NoJob
    /\ config' = TRUE /\ error_flag' = FALSE /\ state_change_pending' = FALSE
    /\ codec' = "ready"
    /\ UNCHANGED <<queues, job_sem, job_lock, mgr, api, woken, lock, commands,
                   cb, history>>

\* mm_jpeg_start_job: the job is queued, then the manager is woken.
StartJob ==
    /\ ApiIdle /\ active /\ Len(answers) < MaxJobs
    /\ job_queue' = Append(job_queue, Len(answers) + 1)
    /\ answers' = Append(answers, 0)
    /\ api' = [call |-> "start", pc |-> "post", job |-> Len(answers) + 1]
    /\ UNCHANGED <<active, ongoing_job_q, job_sem, job_lock, mgr, session, woken,
                   lock, device, events, quiet>>

PostJob ==
    /\ api.pc = "post"
    /\ job_sem' = job_sem + 1
    /\ Returns
    /\ UNCHANGED <<active, queues, job_lock, mgr, session, woken, lock, device,
                   history>>

\* mm_jpeg_abort_job, as far as the queues: a job that waits is dropped, one
\* under way has its session aborted, with job_lock held.
AbortJob(j) ==
    /\ ApiIdle /\ job_lock = "none"
    /\ job_queue' = Without(job_queue, j)
    /\ ongoing_job_q' = ongoing_job_q \ {j}
    /\ IF j \in ongoing_job_q
       THEN /\ api' = [call |-> "abort", pc |-> "abort", job |-> j]
            /\ job_lock' = "client"
            /\ quiet' = quiet
       ELSE /\ quiet' = quiet \cup ({j} \cap Jobs)
            /\ UNCHANGED <<api, job_lock>>
    /\ UNCHANGED <<active, job_sem, mgr, session, woken, lock, device, answers,
                   events>>

\* mm_jpeg_destroy_session, as far as the queues.
DestroySession ==
    /\ ApiIdle /\ active /\ job_lock = "none"
    /\ job_lock' = "client"
    /\ job_queue' = <<>> /\ ongoing_job_q' = {}
    /\ api' = [call |-> "destroy", pc |-> "abort", job |-> NoJob]
    /\ UNCHANGED <<active, job_sem, mgr, session, woken, lock, device, history>>

\* The abort is over: abort_job returns, destroy_session goes on.
Aborted ==
    IF api.call = "abort"
    THEN Returns /\ job_lock' = "none" /\ quiet' = quiet \cup {api.job}
    ELSE api' = [api EXCEPT !.pc = "destroy"] /\ UNCHANGED <<job_lock, quiet>>

\* mm_jpeg_session_abort up to the unlock before OMX_SendCommand.
SessionAbort ==
    /\ api.pc = "abort" /\ lock = "none"
    /\ IF abort_state # "NONE"
       THEN Aborted /\ UNCHANGED <<abort_state, state_change_pending>>
       ELSE IF encoding
       THEN /\ abort_state' = "INIT" /\ state_change_pending' = TRUE
            /\ api' = [api EXCEPT !.pc = "send"]
            /\ UNCHANGED <<job_lock, quiet>>
       ELSE /\ abort_state' = "DONE"
            /\ Aborted /\ UNCHANGED state_change_pending
    /\ UNCHANGED <<active, queues, job_sem, mgr, session_handle_q, encoding,
                   jobId, config, error_flag, woken, lock, device, answers, events>>

SendIdle ==
    /\ api.pc = "send"
    /\ commands' = commands + 1
    /\ api' = [api EXCEPT !.pc = "check"]
    /\ UNCHANGED <<active, queues, job_sem, job_lock, mgr, session, woken, lock,
                   codec, cb, history>>

\* The lock is taken again: wait for the codec's next event, if none came yet.
AbortCheck ==
    /\ api.pc = "check" /\ lock = "none"
    /\ IF abort_state = "INIT"
       THEN /\ api' = [api EXCEPT !.pc = "aborting"]
            /\ woken' = FALSE
            /\ UNCHANGED <<abort_state, job_lock, quiet>>
       ELSE /\ abort_state' = "DONE" /\ Aborted
            /\ UNCHANGED woken
    /\ UNCHANGED <<active, queues, job_sem, mgr, session_handle_q, encoding,
                   jobId, config, error_flag, state_change_pending, lock, device,
                   answers, events>>

AbortWake ==
    /\ api.pc = "aborting" /\ woken /\ lock = "none"
    /\ abort_state' = "DONE"
    /\ Aborted
    /\ UNCHANGED <<active, queues, job_sem, mgr, session_handle_q, encoding,
                   jobId, config, error_flag, state_change_pending, woken, lock,
                   device, answers, events>>

\* mm_jpeg_session_destroy: a codec that was configured is taken to Loaded.
\* After an error mm_jpeg_session_change_state does not wait for it.
SessionDestroy ==
    /\ api.pc = "destroy" /\ lock = "none"
    /\ IF config
       THEN /\ state_change_pending' = TRUE /\ commands' = commands + 1
            /\ api' = [api EXCEPT !.pc = IF error_flag THEN "free" ELSE "unload"]
       ELSE /\ api' = [api EXCEPT !.pc = "free"]
            /\ UNCHANGED <<state_change_pending, commands>>
    /\ woken' = FALSE
    /\ UNCHANGED <<active, queues, job_sem, job_lock, mgr, session_handle_q,
                   abort_state, encoding, jobId, config, error_flag, lock, codec,
                   cb, history>>

Unloaded ==
    /\ api.pc = "unload" /\ lock = "none"
    /\ ~ state_change_pending \/ woken \/ error_flag
    /\ api' = [api EXCEPT !.pc = "free"]
    /\ UNCHANGED <<active, queues, job_sem, job_lock, mgr, session, woken, lock,
                   device, history>>

\* OMX_FreeHandle ends the codec's callbacks; the handle queue is freed and the
\* manager woken.
FreeSession ==
    /\ api.pc = "free" /\ lock = "none"
    /\ active' = FALSE /\ codec' = "none" /\ commands' = 0
    /\ session_handle_q' = 0 /\ config' = FALSE
    /\ job_lock' = "none"
    /\ job_sem' = job_sem + 1
    /\ quiet' = Jobs
    /\ Returns
    /\ UNCHANGED <<queues, mgr, abort_state, encoding, jobId, error_flag,
                   state_change_pending, woken, lock, cb, answers, events>>

-----------------------------------------------------------------------------
(* The job manager.                                                         *)

\* A wake-up is lost on a manager that finds a job under way.
JobMgrWakes ==
    /\ mgr.pc = "wait" /\ job_sem > 0
    /\ job_sem' = job_sem - 1
    /\ mgr' = [mgr EXCEPT !.pc = IF ongoing_job_q = {} THEN "take" ELSE "wait"]
    /\ UNCHANGED <<active, queues, job_lock, api, session, woken, lock, device,
                   history>>

\* It takes the first job and, in mm_jpeg_process_encoding_job, the session's
\* handle; mm_jpeg_fbd may not have given that back yet.
JobMgrTakes ==
    /\ mgr.pc = "take" /\ job_lock = "none"
    /\ IF job_queue = <<>>
       THEN /\ mgr' = [mgr EXCEPT !.pc = "wait"]
            /\ UNCHANGED <<job_queue, job_lock, session_handle_q>>
       ELSE /\ job_queue' = Tail(job_queue)
            /\ job_lock' = "mgr"
            /\ mgr' = [pc |-> IF session_handle_q = 0 THEN "putback" ELSE "begin",
                       job |-> Head(job_queue), empty |-> Tail(job_queue) = <<>>]
            /\ session_handle_q' = IF session_handle_q = 0 THEN 0
                                   ELSE session_handle_q - 1
    /\ UNCHANGED <<active, ongoing_job_q, job_sem, api, abort_state, encoding,
                   jobId, config, error_flag, state_change_pending, woken, lock,
                   device, history>>

\* mm_jpeg_queue_enq_head reads the head of the queue before it has its lock:
\* the job that found an empty queue may go behind one that came since.
JobMgrPutsBack ==
    /\ mgr.pc = "putback"
    /\ \/ job_queue' = <<mgr.job>> \o job_queue
       \/ mgr.empty /\ job_queue' = Append(job_queue, mgr.job)
    /\ job_lock' = "none"
    /\ mgr' = [mgr EXCEPT !.pc = "wait", !.job = NoJob]
    /\ UNCHANGED <<active, ongoing_job_q, job_sem, api, session, woken, lock,
                   device, history>>

\* The job is under way; mm_jpeg_session_encode resets the session's flags.
EncodeBegins ==
    /\ mgr.pc = "begin" /\ lock = "none"
    /\ ongoing_job_q' = ongoing_job_q \cup {mgr.job}
    /\ jobId' = mgr.job
    /\ abort_state' = "NONE" /\ encoding' = FALSE
    /\ mgr' = [mgr EXCEPT !.pc = "encode"]
    /\ UNCHANGED <<active, job_queue, job_sem, job_lock, api, session_handle_q,
                   config, error_flag, state_change_pending, woken, lock, device,
                   history>>

\* The codec is configured for the job, and for the session if it is not yet.
Encodes ==
    /\ mgr.pc = "encode" /\ lock = "none"
    /\ config' = TRUE /\ encoding' = TRUE
    /\ mgr' = [mgr EXCEPT !.pc = "submit"]
    /\ UNCHANGED <<active, queues, job_sem, job_lock, api, session_handle_q,
                   abort_state, jobId, error_flag, state_change_pending, woken,
                   lock, device, history>>

\* The codec gets the buffers; from now on it may call back.
Submits ==
    /\ mgr.pc = "submit"
    /\ codec' = "busy"
    /\ job_lock' = "none"
    /\ mgr' = [mgr EXCEPT !.pc = "wait", !.job = NoJob]
    /\ UNCHANGED <<active, queues, job_sem, api, session, woken, lock, commands,
                   cb, history>>

\* A call to the codec fails: the client is told, before the job goes away.
EncodeFails ==
    /\ mgr.pc \in {"encode", "submit"}
    /\ JpegCb(jobId, "ERROR")
    /\ mgr' = [mgr EXCEPT !.pc = "failed"]
    /\ UNCHANGED <<active, queues, job_sem, job_lock, api, session, woken, lock,
                   device, quiet>>

\* mm_jpegenc_job_done on the manager's thread.
FailedJobDone ==
    /\ mgr.pc = "failed"
    /\ ongoing_job_q' = ongoing_job_q \ {jobId}
    /\ encoding' = FALSE
    /\ session_handle_q' = session_handle_q + 1
    /\ job_sem' = job_sem + 1
    /\ job_lock' = "none"
    /\ mgr' = [mgr EXCEPT !.pc = "wait", !.job = NoJob]
    /\ UNCHANGED <<active, job_queue, api, abort_state, jobId, config, error_flag,
                   state_change_pending, woken, lock, device, history>>

-----------------------------------------------------------------------------
(* The codec and the callbacks on its thread.                               *)

\* Does mm_jpeg_fbd tell the client?
DeliversAlways == TRUE
Delivers == abort_state = "NONE"

\* mm_jpeg_fbd: an output buffer comes back, full, or empty because the codec
\* was told to stop after an error.
FillBufferDone ==
    /\ codec = "busy" \/ (codec = "failed" /\ commands > 0)
    /\ lock = "none"
    /\ codec' = "ready"
    /\ IF Delivers
       THEN /\ JpegCb(jobId, "DONE")
            /\ lock' = "codec" /\ cb' = "remove"
       ELSE UNCHANGED <<answers, events, lock, cb>>
    /\ UNCHANGED <<active, queues, job_sem, job_lock, mgr, api, session, woken,
                   commands, quiet>>

\* mm_jpegenc_job_done on the codec's thread, under the session's lock: the job
\* goes, the handle comes back, the manager is woken.
JobDoneRemoves ==
    /\ cb = "remove"
    /\ ongoing_job_q' = ongoing_job_q \ {jobId}
    /\ cb' = "requeue"
    /\ UNCHANGED <<active, job_queue, job_sem, job_lock, mgr, api, session, woken,
                   lock, codec, commands, history>>

JobDoneRequeues ==
    /\ cb = "requeue"
    /\ encoding' = FALSE
    /\ session_handle_q' = session_handle_q + 1
    /\ cb' = "post"
    /\ UNCHANGED <<active, queues, job_sem, job_lock, mgr, api, abort_state, jobId,
                   config, error_flag, state_change_pending, woken, lock, codec,
                   commands, history>>

JobDonePostsNothing ==
    /\ cb = "post"
    /\ cb' = "idle" /\ lock' = "none"
    /\ UNCHANGED <<active, queues, job_sem, job_lock, mgr, api, session, woken, codec,
                   commands, history>>
JobDonePosts ==
    /\ cb = "post"
    /\ job_sem' = job_sem + 1
    /\ cb' = "idle" /\ lock' = "none"
    /\ UNCHANGED <<active, queues, job_lock, mgr, api, session, woken, codec,
                   commands, history>>

\* Any event ends an abort that waits.
EndsAbortSilently ==
    /\ abort_state' = "DONE"
    /\ UNCHANGED <<woken, error_flag, state_change_pending, answers, events, lock, cb>>
EndsAbort ==
    /\ abort_state' = "DONE" /\ woken' = TRUE
    /\ UNCHANGED <<error_flag, state_change_pending, answers, events, lock, cb>>

\* mm_jpeg_event_handler, OMX_EventError.
EventError ==
    /\ codec = "busy" /\ lock = "none"
    /\ codec' = "failed"
    /\ IF abort_state = "INIT" THEN EndsAbort
       ELSE /\ error_flag' = TRUE /\ woken' = TRUE
            /\ IF encoding
               THEN /\ JpegCb(jobId, "ERROR")
                    /\ lock' = "codec" /\ cb' = "remove"
               ELSE UNCHANGED <<answers, events, lock, cb>>
            /\ UNCHANGED <<abort_state, state_change_pending>>
    /\ UNCHANGED <<active, queues, job_sem, job_lock, mgr, api, session_handle_q,
                   encoding, jobId, config, commands, quiet>>

\* mm_jpeg_event_handler, OMX_EventCmdComplete.
EventCmdComplete ==
    /\ commands > 0 /\ lock = "none"
    /\ commands' = commands - 1 /\ codec' = "ready"
    /\ IF abort_state = "INIT" THEN EndsAbort
       ELSE /\ state_change_pending' = FALSE
            /\ woken' = (woken \/ state_change_pending)
            /\ UNCHANGED <<abort_state, error_flag, answers, events, lock, cb>>
    /\ UNCHANGED <<active, queues, job_sem, job_lock, mgr, api, session_handle_q,
                   encoding, jobId, config, quiet>>

-----------------------------------------------------------------------------
\* What goes on without a new call of the client.
InCall == \/ PostJob \/ SessionAbort \/ SendIdle \/ AbortCheck \/ AbortWake
          \/ SessionDestroy \/ Unloaded \/ FreeSession
JobMgr == \/ JobMgrWakes \/ JobMgrTakes \/ JobMgrPutsBack \/ EncodeBegins
          \/ Encodes \/ Submits \/ EncodeFails \/ FailedJobDone
Callbacks == JobDoneRemoves \/ JobDoneRequeues \/ JobDonePosts
Answers   == FillBufferDone \/ EventError
Codec     == Answers \/ EventCmdComplete \/ Callbacks


-----------------------------------------------------------------------------
(* What makes the job manager correct.                                      *)

JpegTypeOK ==
    /\ active \in BOOLEAN
    /\ job_queue \in Seq(Jobs) /\ ongoing_job_q \subseteq Jobs
    /\ job_sem \in Nat
    /\ job_lock \in {"none", "mgr", "client"} /\ lock \in {"none", "codec"}
    /\ mgr \in [pc : {"wait", "take", "putback", "begin", "encode", "submit", "failed"},
               job : 0 .. Len(answers), empty : BOOLEAN]
    /\ api \in [call : {"none", "start", "abort", "destroy"},
               pc : {"idle", "post", "abort", "send", "check", "aborting",
                     "destroy", "unload", "free"},
               job : 0 .. Len(answers)]
    /\ session_handle_q \in Nat /\ abort_state \in {"NONE", "INIT", "DONE"}
    /\ encoding \in BOOLEAN /\ jobId \in 0 .. Len(answers)
    /\ config \in BOOLEAN /\ error_flag \in BOOLEAN
    /\ state_change_pending \in BOOLEAN /\ woken \in BOOLEAN
    /\ codec \in {"none", "ready", "busy", "failed"} /\ commands \in Nat
    /\ cb \in {"idle", "remove", "requeue", "post"}
    /\ answers \in Seq(Nat)
    /\ events \in Seq([job : Jobs, status : {"DONE", "ERROR"}])
    /\ quiet \subseteq Jobs

\* Once mm_jpeg_abort_job has returned, or the session is destroyed, the client
\* hears no more of a job: the post-processor frees the job's buffers then.
NoAnswerAfterAbort ==
    [][\A j \in quiet : answers'[j] = answers[j]]_<<answers, quiet>>

\* A job that was started is answered, or aborted: no wake-up of the manager is
\* lost for good, though it drops those that come while a job is under way and
\* may find the session's handle not given back yet.
JobsAnswered ==
    \A j \in 1 .. MaxJobs :
        (j \in Jobs) ~> (j \in quiet \/ (j \in Jobs /\ answers[j] > 0))
=============================================================================
