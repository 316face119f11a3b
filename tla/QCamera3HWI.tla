---------------------------- MODULE QCamera3HWI ----------------------------
(***************************************************************************)
(* The HAL3 hardware interface of one camera session, from                 *)
(* camera/mi8937/camera/QCamera2/HAL3/QCamera3HWI.cpp: capture requests    *)
(* come in on the framework's request thread, metadata and image buffers   *)
(* come back on the callback threads of the channels, a second framework   *)
(* thread may flush, and the camera daemon may die.  All of them meet on   *)
(* mMutex; every action below is one critical section of it, or one        *)
(* stretch of code that runs without it (stopAllChannels).                 *)
(*                                                                         *)
(* Frames are numbered by the order in which processCaptureRequest takes   *)
(* them, which is the order of the internal frame numbers.  What the       *)
(* framework has been told of a frame is kept in `answers'.                *)
(*                                                                         *)
(* Left out: constrained high-speed sessions (mBatchSize, the restart of   *)
(* the sensor), frame-drop reports, urgent metadata, failures to stop or   *)
(* start the channels in flush, and what is inside the channels; see the   *)
(* README.                                                                 *)
(***************************************************************************)
EXTENDS Integers, Sequences, FiniteSets

CONSTANTS
    Streams,              \* the configured output streams
    NeedsMeta,            \* those whose frames wait for their metadata (BLOB)
    LiveRequests,         \* the sets of streams a live request may ask for
    InputRequests,        \* the same for a request with an input buffer
    HdrRequests,          \* the same for an HDR snapshot
    Mixed,                \* may live and reprocess requests be pending together?
    MayFlush,             \* does the framework call flush?
    MinInFlight,          \* mMinInFlightRequests
    MaxInFlight,          \* mMaxInFlightRequests
    CountWidth,           \* mPendingLiveRequest counts modulo this (2^32)
    MaxPlain,             \* bound: the frames at which other than HDR may be asked
    MaxRefused,           \* bound: the requests a channel refuses
    MaxFrame              \* bound: the frames of a behaviour

ASSUME HWIAssumption ==
    /\ NeedsMeta \subseteq Streams
    /\ LiveRequests \cup InputRequests \cup HdrRequests
            \subseteq (SUBSET Streams) \ {{}}
    /\ Mixed \in BOOLEAN /\ MayFlush \in BOOLEAN
    /\ {MaxFrame, MaxRefused} \subseteq Nat /\ MaxPlain \in 0 .. MaxFrame
    /\ MinInFlight \in Nat \ {0} /\ MaxInFlight \in Nat
    /\ CountWidth \in Nat /\ CountWidth > MaxFrame

VARIABLES
    mState, mFlush, mPendingLiveRequest, mWokenUpByDaemon,
    req,                  \* the requests taken so far, by frame
    mPendingRequestsList, \* the frames whose metadata is owed
    mPendingBuffersMap,   \* frame -> the streams whose buffer is owed
    cached,               \* frame -> buffers back before their metadata
    metadata,             \* frames whose metadata the daemon will send
    images,               \* stream -> frames queued to the driver
    post,                 \* frame -> what its post-processor job has so far
    reproc,               \* frame -> the callbacks a reprocess job still owes
    pc, restart, plan,    \* the two framework threads
    signalled,            \* mRequestCond was signalled under the waiter
    answers, owed, deviceError, miscounted    \* what the framework has seen

lists   == <<req, mPendingRequestsList, mPendingBuffersMap, cached>>
backend == <<metadata, images, post, reproc>>
threads == <<pc, restart, plan, signalled>>
history == <<owed, deviceError, miscounted>>
vars == <<mState, mFlush, mPendingLiveRequest, mWokenUpByDaemon, lists,
          backend, threads, answers, history>>

Frames  == 1 .. Len(req)
Threads == {"request", "flush"}

Live(S)     == [kind |-> "live", streams |-> S, refused |-> FALSE]
Input(S)    == [kind |-> "input", streams |-> S, refused |-> FALSE]
Internal    == [kind |-> "internal", streams |-> {}, refused |-> FALSE]

\* What orchestrateRequest makes of an HDR snapshot: a settling frame and the
\* framework's own at -2EV, then a settling and a captured frame at 0 and +2EV.
HdrPlan(S) == <<Internal, Live(S), Internal, Internal, Internal, Internal>>

Plans == { <<Live(S)>> : S \in LiveRequests }
         \cup { <<Input(S)>> : S \in InputRequests }
         \cup { HdrPlan(S) : S \in HdrRequests }

IsInput(f)  == req[f].kind = "input"
\* orchestrateResult and orchestrateNotify drop what is about such a frame.
Hidden(f)   == req[f].kind = "internal"
Accepted(f) == ~ Hidden(f) /\ ~ req[f].refused

INTERNAL_FRAME_STARTING_NUMBER == 800
\* getFrameworkFrameNumber finds the numbers that requests were stored under.
Registered(number) == number - INTERNAL_FRAME_STARTING_NUMBER \in 0 .. Len(req) - 1

NoAnswer == [shutter |-> 0, finals |-> <<>>, bufs |-> [s \in Streams |-> 0]]
\* A result or notification that also returns the buffers of streams S.
Returned(a, S) == [a EXCEPT !.bufs = [s \in Streams |-> @[s] + IF s \in S THEN 1 ELSE 0]]
Final(a, what) == [a EXCEPT !.finals = Append(@, what)]
Shutter(a)     == [a EXCEPT !.shutter = @ + 1]

\* PendingBuffersMap::removeBuf, for the buffers in back[f] of each f in F: an
\* entry whose list becomes empty goes away, one that was empty stays.
RemoveBufs(F, back) ==
    LET emptied == { f \in F \cap DOMAIN mPendingBuffersMap :
                        back[f] # {} /\ mPendingBuffersMap[f] \subseteq back[f] }
    IN  [f \in DOMAIN mPendingBuffersMap \ emptied |->
            IF f \in F THEN mPendingBuffersMap[f] \ back[f] ELSE mPendingBuffersMap[f]]

Init ==
    /\ mState = "CONFIGURED" /\ mFlush = FALSE
    /\ mPendingLiveRequest = 0 /\ mWokenUpByDaemon = FALSE
    /\ req = <<>> /\ mPendingRequestsList = {} /\ mPendingBuffersMap = <<>>
    /\ cached = <<>>
    /\ metadata = {} /\ images = [s \in Streams |-> {}]
    /\ post = <<>> /\ reproc = <<>>
    /\ pc = [t \in Threads |-> "idle"] /\ restart = FALSE /\ plan = <<>>
    /\ signalled = FALSE
    /\ answers = <<>> /\ owed = 0 /\ deviceError = FALSE /\ miscounted = FALSE

-----------------------------------------------------------------------------
(* The request thread.                                                      *)

\* A call that returns: HDR goes on with its next request whatever came back.
Return(t, rest) == IF t = "request" /\ rest # <<>> THEN "call" ELSE "idle"

\* orchestrateRequest: the framework calls process_capture_request.
OrchestrateRequest ==
    /\ pc["request"] = "idle"
    /\ \E p \in Plans :
          /\ Len(req) + Len(p) <= IF Len(p) = 1 THEN MaxPlain ELSE MaxFrame
          /\ Mixed \/ IF p[1].kind = "input" THEN mPendingRequestsList = {}
                      ELSE \A f \in mPendingRequestsList : ~ IsInput(f)
          /\ plan' = p
    /\ pc' = [pc EXCEPT !["request"] = "call"]
    /\ UNCHANGED <<mState, mFlush, mPendingLiveRequest, mWokenUpByDaemon, lists,
                   backend, restart, signalled, answers, history>>

\* The request enters mPendingRequestsList and mPendingBuffersMap.
Enlist(r) ==
    LET f == Len(req) + 1
    IN  /\ req' = Append(req, r)
        /\ mPendingRequestsList' = mPendingRequestsList \cup {f}
        /\ mPendingBuffersMap' = [g \in DOMAIN mPendingBuffersMap \cup {f} |->
                                    IF g = f THEN r.streams ELSE mPendingBuffersMap[g]]
        /\ cached' = Append(cached, {})
        /\ answers' = Append(answers, NoAnswer)

\* The first request after configure_streams starts the channels and the count.
Starting == mState = "CONFIGURED"
CountAtStart == IF Starting THEN 0 ELSE mPendingLiveRequest
StartCounting ==
    /\ mWokenUpByDaemon' = (mWokenUpByDaemon /\ ~ Starting)
    /\ miscounted' = (miscounted /\ ~ (Starting /\ mPendingRequestsList = {}))

\* Its buffers go to the channels and its settings to the daemon.
Issue(r) ==
    LET f == Len(req) + 1
        k == r.kind
    IN  /\ metadata' = IF k = "input" THEN metadata ELSE metadata \cup {f}
        /\ images' = [s \in Streams |->
              IF k = "live" /\ s \in r.streams THEN images[s] \cup {f} ELSE images[s]]
        /\ reproc' = IF k = "input"
              THEN [g \in DOMAIN reproc \cup {f} |-> IF g = f THEN <<"input", "output">> ELSE reproc[g]]
              ELSE reproc
        /\ UNCHANGED post

\* The states in which processCaptureRequest goes on.
TakesInError == mState # "DEINIT"
TakesRequests == mState \in {"CONFIGURED", "STARTED"}

\* During a flush a request stays in the lists.
NeverWithheld == FALSE
Withheld == mFlush

\* processCaptureRequest that takes the request.  While mFlush is set it stops
\* at the lists, and the flush reports the request.
TakeRequest ==
    /\ pc["request"] = "call" /\ TakesRequests
    /\ LET r == Head(plan)
           count == IF Withheld \/ r.kind = "input" THEN CountAtStart
                    ELSE (CountAtStart + 1) % CountWidth
           blocks == ~ Withheld /\ r.kind # "input" /\ count >= MinInFlight
       IN  /\ Enlist(r) /\ StartCounting
           /\ IF Withheld THEN UNCHANGED <<backend, mState>>
              ELSE Issue(r) /\ mState' = "STARTED"
           /\ mPendingLiveRequest' = count
           /\ plan' = Tail(plan)
           /\ pc' = [pc EXCEPT !["request"] =
                        IF blocks THEN "wait" ELSE Return("request", Tail(plan))]
    /\ UNCHANGED <<mFlush, restart, signalled, owed, deviceError>>

\* A channel refuses its buffer: the error goes to the framework, or for one of
\* HDR's own requests to nobody; the request stays in both lists, uncounted, and
\* set_parms never names it.
RefuseRequest ==
    /\ pc["request"] = "call" /\ TakesRequests /\ ~ Withheld
    /\ Cardinality({f \in Frames : req[f].refused}) < MaxRefused
    /\ Enlist([Head(plan) EXCEPT !.refused = TRUE])
    /\ mWokenUpByDaemon' = (mWokenUpByDaemon /\ ~ Starting)
    /\ mPendingLiveRequest' = CountAtStart
    /\ miscounted' = TRUE
    /\ plan' = Tail(plan)
    /\ pc' = [pc EXCEPT !["request"] = Return("request", Tail(plan))]
    /\ UNCHANGED <<mState, mFlush, backend, restart, signalled, owed, deviceError>>

\* processCaptureRequest in a state that takes no request: -ENODEV.
RejectRequest ==
    /\ pc["request"] = "call" /\ ~ TakesRequests
    /\ plan' = Tail(plan)
    /\ pc' = [pc EXCEPT !["request"] =
                 IF mState = "ERROR" THEN "check" ELSE Return("request", Tail(plan))]
    /\ UNCHANGED <<mState, mFlush, mPendingLiveRequest, mWokenUpByDaemon, lists,
                   backend, restart, signalled, answers, history>>

\* The waiting request wakes up on mRequestCond and looks again.
WakeUp ==
    /\ pc["request"] = "wait" /\ signalled
    /\ signalled' = FALSE /\ mWokenUpByDaemon' = FALSE
    /\ LET released == \/ mWokenUpByDaemon /\ mPendingLiveRequest < MaxInFlight
                       \/ mPendingLiveRequest < MinInFlight
                       \/ mState \in {"ERROR", "DEINIT"}
       IN  pc' = IF released THEN [pc EXCEPT !["request"] = Return("request", plan)] ELSE pc
    /\ UNCHANGED <<mState, mFlush, mPendingLiveRequest, lists, backend, restart,
                   plan, answers, history>>

\* Five seconds pass: the call returns -ENODEV, its request stays pending.
WaitTimesOut ==
    /\ pc["request"] = "wait"
    /\ signalled' = FALSE
    /\ pc' = [pc EXCEPT !["request"] = Return("request", plan)]
    /\ UNCHANGED <<mState, mFlush, mPendingLiveRequest, mWokenUpByDaemon, lists,
                   backend, restart, plan, answers, history>>

\* unblockRequestIfNecessary: a signal is lost unless the thread waits.
NoSignal == UNCHANGED signalled
Signal == signalled' = (pc["request"] = "wait")

-----------------------------------------------------------------------------
(* The flush, called by the framework's second thread or, after the daemon  *)
(* died, from handleCameraDeviceError on either thread.                     *)

Flush ==
    /\ MayFlush /\ pc["flush"] = "idle" /\ mState \in {"STARTED", "ERROR"}
    /\ pc' = [pc EXCEPT !["flush"] = IF mState = "STARTED" THEN "flag" ELSE "check"]
    /\ restart' = (mState = "STARTED")
    /\ owed' = Len(req)
    /\ UNCHANGED <<mState, mFlush, mPendingLiveRequest, mWokenUpByDaemon, lists,
                   backend, plan, signalled, answers, deviceError, miscounted>>

\* handleCameraDeviceError looks at the state again, in a section of its own.
CheckError(t) ==
    /\ pc[t] = "check"
    /\ pc' = [pc EXCEPT ![t] = IF mState = "ERROR" THEN "flag" ELSE Return(t, plan)]
    /\ UNCHANGED <<mState, mFlush, mPendingLiveRequest, mWokenUpByDaemon, lists,
                   backend, restart, plan, signalled, answers, history>>

SetFlush(t) ==
    /\ pc[t] = "flag"
    /\ mFlush' = TRUE
    /\ pc' = [pc EXCEPT ![t] = "stop"]
    /\ UNCHANGED <<mState, mPendingLiveRequest, mWokenUpByDaemon, lists, backend,
                   restart, plan, signalled, answers, history>>

\* stopAllChannels, without mMutex: callbacks are served until the channels
\* have stopped; what they hold then never comes back through them.
StopAllChannels(t) ==
    /\ pc[t] = "stop"
    /\ metadata' = {} /\ images' = [s \in Streams |-> {}]
    /\ post' = <<>> /\ reproc' = <<>>
    /\ pc' = [pc EXCEPT ![t] = "notify"]
    /\ UNCHANGED <<mState, mFlush, mPendingLiveRequest, mWokenUpByDaemon, lists,
                   restart, plan, signalled, answers, history>>

\* notifyErrorForPendingRequests.  Entries of the map below the oldest pending
\* frame return their buffers; each other entry is reported ERROR_REQUEST and
\* takes the then first pending request with it, whichever that is.
YoungEntries == { f \in DOMAIN mPendingBuffersMap : \E p \in mPendingRequestsList : p <= f }
OwedEntries == DOMAIN mPendingBuffersMap
NotifyErrorForPendingRequests ==
    LET pending == mPendingRequestsList
        young == YoungEntries
        older(f) == { q \in pending : q < f }
    IN  /\ answers' = [f \in Frames |->
              IF f \notin OwedEntries \/ Hidden(f) THEN answers[f]
              ELSE IF f \in young
              THEN Returned(Final(answers[f], "error_request"), mPendingBuffersMap[f])
              ELSE Returned(answers[f], mPendingBuffersMap[f])]
        /\ mPendingRequestsList' =
              { f \in pending : Cardinality(older(f)) >= Cardinality(young) }
        /\ mPendingBuffersMap' = <<>>
        /\ cached' = [f \in Frames |->
              IF f \in mPendingRequestsList' THEN cached[f] ELSE {}]
        /\ UNCHANGED req

FlushPending(t) ==
    LET restarts == t = "flush" /\ restart
    IN  /\ pc[t] = "notify"
        /\ mPendingLiveRequest' = 0
        /\ NotifyErrorForPendingRequests
        /\ mFlush' = FALSE
        /\ signalled' = (signalled \/ pc["request"] = "wait")
        /\ miscounted' = FALSE
        /\ pc' = [pc EXCEPT ![t] = IF restarts THEN Return(t, plan) ELSE "deinit"]
        /\ UNCHANGED <<mState, mWokenUpByDaemon, backend, restart, plan, owed, deviceError>>

\* The end of handleCameraDeviceError; the notification carries frame number 0.
Deinit(t) ==
    /\ pc[t] = "deinit"
    /\ mState' = "DEINIT"
    /\ deviceError' = (deviceError \/ Registered(0))
    /\ pc' = [pc EXCEPT ![t] = Return(t, plan)]
    /\ UNCHANGED <<mFlush, mPendingLiveRequest, mWokenUpByDaemon, lists, backend,
                   restart, plan, signalled, answers, owed, miscounted>>

\* configure_streams: the framework calls it when it waits for nothing.
Answered(f) == answers[f].finals # <<>> /\ \A s \in req[f].streams : answers[f].bufs[s] > 0
ConfigureStreams ==
    /\ pc = [t \in Threads |-> "idle"] /\ mState \in {"CONFIGURED", "STARTED"}
    /\ req # <<>> /\ \A f \in Frames : Accepted(f) => Answered(f)
    /\ metadata' = {} /\ images' = [s \in Streams |-> {}] /\ post' = <<>> /\ reproc' = <<>>
    /\ mPendingRequestsList' = {} /\ mPendingBuffersMap' = <<>>
    /\ cached' = [f \in Frames |-> {}]
    /\ mState' = "CONFIGURED"
    /\ UNCHANGED <<mFlush, mPendingLiveRequest, mWokenUpByDaemon, req, threads,
                   answers, history>>

-----------------------------------------------------------------------------
(* The callbacks of the channels and of the camera daemon.                  *)

CallbacksOff == mState \in {"ERROR", "DEINIT"}

\* processData and processPPMetadata of the post-processor: a picture is encoded
\* once it has both its image and its metadata, whichever comes first.
GatherLast(f, what) ==
    [g \in DOMAIN post \cup {f} |-> IF g # f THEN post[g] ELSE {what}]
Gather(f, what) ==
    [g \in DOMAIN post \cup {f} |->
        IF g # f THEN post[g] ELSE IF f \in DOMAIN post THEN post[f] \cup {what} ELSE {what}]

\* The requests that metadata of frame m ends, and the count without them.
DoneOnly(m) == { f \in mPendingRequestsList : f = m }
Done(m) == { f \in mPendingRequestsList : f <= m /\ ~ IsInput(f) }
UncountOne(F) == (mPendingLiveRequest - 1) % CountWidth
Uncount(F) == (mPendingLiveRequest - Cardinality(F)) % CountWidth

\* handleMetadataWithLock for the metadata of frame m.  Live requests before m
\* have missed theirs: they end with an error result, m with its result.
HandleMetadata(m) ==
    /\ m \in metadata
    /\ metadata' = { f \in metadata : f > m }
    /\ IF CallbacksOff
       THEN UNCHANGED <<mPendingLiveRequest, lists, post, answers, signalled>>
       ELSE LET done == Done(m)
            IN  /\ mPendingRequestsList' = mPendingRequestsList \ done
                /\ mPendingLiveRequest' = Uncount(done)
                /\ answers' = [f \in Frames |->
                      IF f \notin done \/ Hidden(f) THEN answers[f]
                      ELSE Returned(IF f = m THEN Final(Shutter(answers[f]), "result")
                                    ELSE Final(answers[f], "error_result"), cached[f])]
                /\ mPendingBuffersMap' = RemoveBufs(done, cached)
                /\ cached' = [f \in Frames |-> IF f \in done THEN {} ELSE cached[f]]
                /\ post' = IF m \in done /\ req[m].streams \cap NeedsMeta # {}
                           THEN Gather(m, "metadata") ELSE post
                /\ Signal
                /\ UNCHANGED req
    /\ UNCHANGED <<mState, mFlush, mWokenUpByDaemon, images, reproc, pc, restart, plan, history>>

\* The buffers that handleBufferWithLock keeps when that of stream s is back.
KeepAll(f, s) == Streams
Keep(f, s) == cached[f] \cup {s}

\* handleBufferWithLock: the buffer of stream s for frame f has come back.
HandleBuffer(f, s) ==
    IF CallbacksOff THEN UNCHANGED <<lists, answers>>
    ELSE IF f \notin mPendingRequestsList \/ IsInput(f)
    THEN /\ mPendingBuffersMap' = RemoveBufs({f}, [g \in {f} |-> {s}])
         /\ mPendingRequestsList' = mPendingRequestsList \ {f}
         /\ answers' = [answers EXCEPT ![f] =
               Returned(IF f \in mPendingRequestsList THEN Final(Shutter(@), "result") ELSE @, {s})]
         /\ UNCHANGED <<req, cached>>
    ELSE /\ cached' = [cached EXCEPT ![f] = Keep(f, s)]
         /\ UNCHANGED <<req, mPendingRequestsList, mPendingBuffersMap, answers>>

\* A stream returns its frames in their order (streamCbRoutine keeps them so).
First(s) == CHOOSE f \in images[s] : \A g \in images[s] : f <= g

ImageArrives(s) ==
    /\ images[s] # {} /\ s \notin NeedsMeta
    /\ images' = [images EXCEPT ![s] = @ \ {First(s)}]
    /\ HandleBuffer(First(s), s)
    /\ UNCHANGED <<mState, mFlush, mPendingLiveRequest, mWokenUpByDaemon, metadata,
                   post, reproc, threads, history>>

\* processData: an image that needs its metadata goes to the post-processor.
ImageToPostProc(s) ==
    /\ images[s] # {} /\ s \in NeedsMeta
    /\ images' = [images EXCEPT ![s] = @ \ {First(s)}]
    /\ post' = Gather(First(s), "image")
    /\ UNCHANGED <<mState, mFlush, mPendingLiveRequest, mWokenUpByDaemon, lists,
                   metadata, reproc, threads, answers, history>>

\* The post-processor's job for frame f is done: jpegEvtHandle.
PostProcDone(f, s) ==
    /\ f \in DOMAIN post /\ post[f] = {"image", "metadata"}
    /\ s \in NeedsMeta \cap req[f].streams
    /\ post' = [g \in DOMAIN post \ {f} |-> post[g]]
    /\ HandleBuffer(f, s)
    /\ UNCHANGED <<mState, mFlush, mPendingLiveRequest, mWokenUpByDaemon, metadata,
                   images, reproc, threads, history>>

\* A reprocess job first gives the input buffer back (handleInputBufferWithLock,
\* which looks at no state), then the output buffer.
ReprocessInputDone(f) ==
    /\ f \in DOMAIN reproc /\ Head(reproc[f]) = "input"
    /\ reproc' = [reproc EXCEPT ![f] = Tail(@)]
    /\ IF f \in mPendingRequestsList
       THEN /\ answers' = [answers EXCEPT ![f] = Final(Shutter(@), "result")]
            /\ mPendingRequestsList' = mPendingRequestsList \ {f}
       ELSE UNCHANGED <<answers, mPendingRequestsList>>
    /\ UNCHANGED <<mState, mFlush, mPendingLiveRequest, mWokenUpByDaemon, req,
                   mPendingBuffersMap, cached, metadata, images, post, threads, history>>

ReprocessOutputDone(f, s) ==
    /\ f \in DOMAIN reproc /\ reproc[f] = <<"output">> /\ s \in req[f].streams
    /\ reproc' = [g \in DOMAIN reproc \ {f} |-> reproc[g]]
    /\ HandleBuffer(f, s)
    /\ UNCHANGED <<mState, mFlush, mPendingLiveRequest, mWokenUpByDaemon, metadata,
                   images, post, threads, history>>

\* camEvtHandle: the daemon died (nobody is woken up), or wants a request.
DaemonDied ==
    /\ mState' = "ERROR"
    /\ UNCHANGED <<mFlush, mPendingLiveRequest, mWokenUpByDaemon, lists, backend,
                   threads, answers, history>>
PullRequest ==
    /\ mWokenUpByDaemon' = TRUE /\ Signal
    /\ UNCHANGED <<mState, mFlush, mPendingLiveRequest, lists, backend, pc, restart,
                   plan, answers, history>>

HandleError(t) == CheckError(t) \/ Deinit(t)
FlushSteps(t) == SetFlush(t) \/ StopAllChannels(t) \/ FlushPending(t)

RequestThread == TakeRequest \/ RefuseRequest \/ RejectRequest \/ WakeUp
Callbacks ==
    \/ \E m \in Frames : HandleMetadata(m)
    \/ \E s \in Streams : ImageArrives(s) \/ ImageToPostProc(s)
    \/ \E f \in Frames, s \in Streams : PostProcDone(f, s) \/ ReprocessOutputDone(f, s)
    \/ \E f \in Frames : ReprocessInputDone(f)

Next ==
    \/ OrchestrateRequest \/ RequestThread \/ WaitTimesOut
    \/ Flush \/ ConfigureStreams
    \/ \E t \in Threads : HandleError(t) \/ FlushSteps(t)
    \/ Callbacks
    \/ DaemonDied \/ PullRequest

Spec == Init /\ [][Next]_vars

\* The threads run, mMutex is fair enough, stop and notify return; the daemon
\* answers what it was asked.  The five seconds are never assumed to pass, and
\* the framework need not call.
Running ==
    /\ WF_vars(RequestThread)
    /\ \A t \in Threads : WF_vars(HandleError(t) \/ FlushSteps(t))
Answering ==
    /\ WF_vars(\E m \in Frames : HandleMetadata(m))
    /\ \A s \in Streams : WF_vars(ImageArrives(s) \/ ImageToPostProc(s))
    /\ WF_vars(\E f \in Frames, s \in Streams : PostProcDone(f, s))
    /\ WF_vars(\E f \in Frames, s \in Streams : ReprocessInputDone(f) \/ ReprocessOutputDone(f, s))
FairSpec == Spec /\ Running /\ Answering

-----------------------------------------------------------------------------
(* Properties.                                                              *)

Counts == 0 .. 2

\* Every variable has its type.
TypeOK ==
    /\ mState \in {"CONFIGURED", "STARTED", "ERROR", "DEINIT"}
    /\ mFlush \in BOOLEAN /\ mWokenUpByDaemon \in BOOLEAN
    /\ mPendingLiveRequest \in 0 .. CountWidth - 1
    /\ req \in Seq([kind : {"live", "input", "internal"}, streams : SUBSET Streams,
                     refused : BOOLEAN])
    /\ mPendingRequestsList \subseteq Frames
    /\ DOMAIN mPendingBuffersMap \subseteq Frames
    /\ \A f \in DOMAIN mPendingBuffersMap : mPendingBuffersMap[f] \subseteq req[f].streams
    /\ DOMAIN cached = Frames /\ DOMAIN answers = Frames
    /\ \A f \in Frames : cached[f] \subseteq req[f].streams
    /\ metadata \subseteq Frames /\ images \in [Streams -> SUBSET Frames]
    /\ DOMAIN post \subseteq Frames /\ DOMAIN reproc \subseteq Frames
    /\ pc \in [Threads -> {"idle", "call", "wait", "check", "flag", "stop", "notify", "deinit"}]
    /\ restart \in BOOLEAN /\ signalled \in BOOLEAN
    /\ owed \in 0 .. Len(req) /\ deviceError \in BOOLEAN /\ miscounted \in BOOLEAN

\* The framework gets exactly one final answer for every request the HAL took
\* (a result, an error result or a request error) and each of its buffers
\* exactly once: what it has not got is in mPendingRequestsList and in
\* mPendingBuffersMap, so that a flush can still send it, and what it has got is
\* in neither.  A shutter comes with a result and with nothing else.
AnsweredOnce ==
    \A f \in Frames : Accepted(f) =>
        /\ Len(answers[f].finals) = IF f \in mPendingRequestsList THEN 0 ELSE 1
        /\ \A s \in req[f].streams : answers[f].bufs[s] =
              IF f \in DOMAIN mPendingBuffersMap /\ s \in mPendingBuffersMap[f] THEN 0 ELSE 1
        /\ answers[f].shutter = Cardinality({ i \in DOMAIN answers[f].finals :
                                                answers[f].finals[i] = "result" })

\* Results leave in the order of the requests: when a live request is answered
\* every older live request is, although metadata may be missed, a flush may
\* come between and reprocess requests overtake.
LiveInOrder ==
    \A f, g \in Frames :
        ( /\ f < g /\ Accepted(f) /\ Accepted(g) /\ ~ IsInput(f) /\ ~ IsInput(g)
          /\ answers[g].finals # <<>> ) => answers[f].finals # <<>>

\* mPendingLiveRequest, which holds process_capture_request back, is the number
\* of live requests whose metadata is owed, unless a channel refused a request
\* (the error path forgets to count what the metadata will uncount) or a flush
\* is on its way to zero it.
CountMatches ==
    (mState = "STARTED" /\ ~ mFlush /\ ~ miscounted) =>
        mPendingLiveRequest = Cardinality({ f \in mPendingRequestsList : ~ IsInput(f) })

\* A buffer the framework waits for is somewhere it comes back from without a
\* flush: with a channel, with a post-processor or kept for its metadata.  The
\* exceptions: a flush is on its way; the daemon died; a channel refused the
\* request; or the request's metadata was missed, and its picture waits in the
\* post-processor for it.
BufferComesBack ==
    (mState = "STARTED" /\ ~ mFlush) =>
        \A f \in DOMAIN mPendingBuffersMap : \A s \in mPendingBuffersMap[f] :
            \/ f \in images[s] \/ s \in cached[f] \/ f \in DOMAIN reproc
            \/ /\ s \in NeedsMeta /\ f \in DOMAIN post
               /\ \/ post[f] = {"image", "metadata"} \/ f \in metadata
                  \/ answers[f].finals = <<"error_result">>
            \/ req[f].refused

\* Once the device is given up (DEINIT), nothing the framework waits for is left
\* behind, whatever the callbacks, the request thread and a second flush did
\* while the error was handled.
DeinitAnswered ==
    mState = "DEINIT" => mPendingRequestsList = {} /\ mPendingBuffersMap = <<>>

\* When flush returns, every request the HAL had taken when flush was called has
\* been answered in full.
FlushReturns == pc["flush"] # "idle" /\ pc'["flush"] = "idle"
FlushAnswersAll ==
    [][ FlushReturns => \A f \in 1 .. owed : Accepted(f) => Answered(f)' ]_vars

\* A process_capture_request that blocks for want of results is released by the
\* results alone, without the five seconds, unless the daemon died (nobody wakes
\* it up then) or a channel's refusal spoilt the count.
WaiterReleased ==
    pc["request"] = "wait" ~>
        (pc["request"] # "wait" \/ mState \in {"ERROR", "DEINIT"} \/ miscounted)

\* Every request gets its final answer and every buffer comes back without a
\* flush: metadata that was missed is made up for by a later one.  Not so when
\* the daemon dies, when a channel refused the request, and for a picture whose
\* metadata was missed.
MissedPicture(f) == answers[f].finals = <<"error_result">> /\ req[f].streams \cap NeedsMeta # {}
Outstanding(f) ==
    /\ f \in Frames /\ mState \notin {"ERROR", "DEINIT"}
    /\ Accepted(f) /\ ~ Answered(f) /\ ~ MissedPicture(f)
RequestsAnswered == \A f \in 1 .. MaxFrame : Outstanding(f) ~> ~ Outstanding(f)

\* handleCameraDeviceError "notifies the error to framework": once the device
\* is given up the framework has been told so.
DeviceErrorReported ==
    (mState = "DEINIT" /\ \A t \in Threads : pc[t] = "idle") => deviceError
=============================================================================
