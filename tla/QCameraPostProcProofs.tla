------------------------ MODULE QCameraPostProcProofs ------------------------
(* Proofs about the post-processor on top of the job manager: that it hears no *)
(* more of a job once the abort has returned, that its variables have their    *)
(* types, and that every frame given to it goes back to its channel once.      *)
EXTENDS QCameraPostProc, MmJpegProofs, SequencePickProofs

\* Each step of the post-processor is a step of the job manager or leaves it
\* alone, but for the answers it reads.
LEMMA StepOfJpeg ==
  Next => \/ JpegStep
          \/ UNCHANGED <<active, queues, job_lock, mgr, api, session, woken, lock,
                         device, answers, quiet>>
<1> SUFFICES ASSUME Next
             PROVE  \/ JpegStep
                    \/ UNCHANGED <<active, queues, job_lock, mgr, api, session, woken,
                                   lock, device, answers, quiet>>
  OBVIOUS
<1>1. CASE \/ TakePicture \/ Start \/ Started \/ CancelPicture \/ Stopped
           \/ ProcessData \/ ProcessPPData \/ PPDataToJpeg
  BY <1>1, Zenon DEF TakePicture, Start, Started, CancelPicture, Stopped,
     ProcessData, ProcessPPData, PPDataToJpeg, jpegVars, history
<1>2. CASE CreateJpegSession
  BY <1>2, Zenon DEF CreateJpegSession, JpegStep, jpegVars, history
<1>3. CASE ProcessJpegEvt
  BY <1>3, Zenon DEF ProcessJpegEvt
<1>4. CASE DataThread
  BY <1>4, Zenon DEF DataThread, TakeCommand, NextJpeg, EncodeNewSession, EncodeData,
     NumberJob, EncodeDataFails, DoReprocess, StopAborts, StopReleases, StopDestroys,
     StopDestroyed, StopFlushesOngoing, StopFlushesInput, StopFlushesPP, StopEnds,
     JpegStep, jpegVars, history
<1>5. CASE JpegSteps
  BY <1>5, Zenon DEF JpegSteps, JpegStep
<1> QED BY <1>1, <1>2, <1>3, <1>4, <1>5, Zenon DEF Next

\* Once mm_jpeg_abort_job has returned, or mm_jpeg_destroy_session has, the
\* post-processor hears no more of a job, however long it runs and however the
\* codec, the manager's thread and the picture's end interleave.
THEOREM QuietAfterAbort == Spec => NoAnswerAfterAbort
<1>1. Init => JpegInv
  BY JpegInvInit, Zenon DEF Init
<1>2. JpegInv /\ [Next]_vars => JpegInv' /\ [\A j \in quiet : answers'[j] = answers[j]]_<<answers, quiet>>
  <2> SUFFICES ASSUME JpegInv, [Next]_vars
               PROVE  JpegInv' /\ [\A j \in quiet : answers'[j] = answers[j]]_<<answers, quiet>>
    OBVIOUS
  <2>1. CASE JpegStep
    BY <2>1, JpegInvKept, QuietUnanswered, Zenon
  <2>2. CASE UNCHANGED <<active, queues, job_lock, mgr, api, session, woken, lock,
                         device, answers, quiet>>
    BY <2>2, JpegInvApart, Zenon
  <2>3. CASE UNCHANGED vars
    BY <2>3, <2>2, Zenon DEF vars, jpegVars, history
  <2> QED BY <2>1, <2>2, <2>3, StepOfJpeg, Zenon
<1> QED BY <1>1, <1>2, PTL DEF Spec, NoAnswerAfterAbort

-----------------------------------------------------------------------------
(* The invariant behind the type invariant and behind the course of a frame.   *)

Fl(b) == IF b THEN 1 ELSE 0
Stopping == {"abort", "aborting", "destroying", "flushPP", "flushJpeg", "flushInput"}
Job      == [frame : Frames, job : Nat]

ScalarTypes ==
    /\ picture \in {"none", "taking", "stopping"} /\ pictures \in Nat
    /\ needReprocess \in BOOLEAN
    /\ deferred \in {"none", "start", "sync", "create"}
    /\ cmd_queue \in Seq({"START", "STOP", "NEXT"}) /\ sync_sem \in Nat
    /\ is_active \in BOOLEAN /\ mNewJpegSessionNeeded \in BOOLEAN
    /\ data.pc \in {"wait", "jpeg", "encode", "number", "reprocess", "synced"} \cup Stopping
    /\ data = [pc |-> data.pc, frame |-> data.frame]
    /\ m_active \subseteq QueueNames
FrameTypes ==
    /\ released \in Seq(Nat)
    /\ m_inputPPQ \in Seq(Frames) /\ m_ongoingPPQ \in Seq(Frames)
    /\ m_inputJpegQ \in Seq(Frames) /\ m_ongoingJpegQ \in Seq(Job)
    /\ reprocessing \subseteq Frames
    /\ ppHand \in 0 .. Len(released) /\ data.frame \in 0 .. Len(released)
Upto(n)  == [frame : Nat, job : 0 .. n]
JobBound == m_ongoingJpegQ \in Seq(Upto(Len(answers)))

\* Whoever waits for sync_sem has one command on its way, or its answer.
Starts == Tally(cmd_queue, {"START"})
Stops  == Tally(cmd_queue, {"STOP"})
SyncInv ==
    /\ deferred # "none" => picture = "taking"
    /\ Starts # 0 => deferred = "sync"
    /\ Stops # 0 \/ data.pc \in Stopping => picture = "stopping"
    /\ Starts + Stops + Fl(data.pc \in Stopping) + sync_sem
          = Fl(deferred = "sync") + Fl(picture = "stopping")

\* A frame is in one place.
AtPP(f)      == Tally(m_inputPPQ, {f})
AtOngoing(f) == Tally(m_ongoingPPQ, {f})
AtJpeg(f)    == Tally(m_inputJpegQ, {f})
AtJob(f)     == Tally(m_ongoingJpegQ, [frame : {f}, job : Nat])
AtHand(f)    == Fl(f = ppHand)
AtAbort(f)   == Fl(data.pc = "aborting" /\ f = data.frame)
Places(f)    == AtPP(f) + AtOngoing(f) + AtJpeg(f) + AtJob(f) + AtHand(f) + AtAbort(f)
FrameInv     == \A f \in Frames : Places(f) + released[f] = 1

\* The job being encoded is the last one, and has no number yet.
EncodeInv ==
    data.pc \in {"encode", "number"} =>
       /\ m_ongoingJpegQ # <<>>
       /\ m_ongoingJpegQ[Len(m_ongoingJpegQ)] = [frame |-> data.frame, job |-> NoJob]

\* What a stop has flushed stays empty.
FlushInv ==
    /\ data.pc \in Stopping \cup {"synced"} => ~ is_active
    /\ data.pc \in {"destroying", "flushPP", "flushJpeg", "flushInput", "synced"}
          => m_ongoingJpegQ = <<>>
    /\ data.pc \in {"flushJpeg", "flushInput", "synced"}
          => "ongoingPP" \notin m_active /\ m_ongoingPPQ = <<>>
    /\ data.pc \in {"flushInput", "synced"}
          => "inputJpeg" \notin m_active /\ m_inputJpegQ = <<>>
    /\ data.pc = "synced" => "inputPP" \notin m_active /\ m_inputPPQ = <<>>

\* After a stop, and until the next start is carried out, nothing is there.
Unstarted  == picture = "none" \/ deferred = "start" \/ Starts # 0
HasStopped == picture = "stopping" /\ sync_sem # 0
Empty == /\ data.pc \in {"wait", "synced"} /\ ~ is_active
         /\ m_inputPPQ = <<>> /\ m_ongoingPPQ = <<>> /\ m_inputJpegQ = <<>>
         /\ m_ongoingJpegQ = <<>>
RestInv ==
    /\ Unstarted \/ HasStopped => Empty
    /\ Unstarted => ppHand = NoFrame /\ reprocessing = {}
    /\ HasStopped \/ (picture = "none" /\ pictures > 0) => m_active = {}

PostInv == /\ JpegInv /\ JpegTypeOK /\ ScalarTypes /\ FrameTypes /\ JobBound
           /\ SyncInv /\ FrameInv /\ EncodeInv /\ FlushInv /\ RestInv

-----------------------------------------------------------------------------
(* Frames and their queues.                                                    *)

\* A condition counts 1 or 0.
LEMMA FlFacts == ASSUME NEW b PROVE Fl(b) \in {0, 1} /\ (Fl(b) = 1 <=> b) /\ (Fl(b) = 0 <=> ~b)
  BY DEF Fl

\* Release gives each frame of a set back once.
LEMMA ReleaseFacts ==
  ASSUME released \in Seq(Nat), NEW fs, Release(fs)
  PROVE  /\ released' \in Seq(Nat) /\ Len(released') = Len(released) /\ Frames' = Frames
         /\ \A f \in Frames : released'[f] = released[f] + Fl(f \in fs)
<1>1. Len(released) \in Nat /\ \A f \in Frames : released[f] \in Nat
  BY DEF Frames
<1>2. released' = [f \in 1 .. Len(released) |-> released[f] + Fl(f \in fs)]
  BY Zenon DEF Release, Frames, Fl
<1>3. \A f \in 1 .. Len(released) : released[f] + Fl(f \in fs) \in Nat
  BY <1>1, FlFacts DEF Frames
<1>4. released' \in Seq(Nat) /\ Len(released') = Len(released)
  BY <1>1, <1>2, <1>3
<1> QED BY <1>2, <1>4 DEF Frames

\* How often a frame is at each place is a number.
LEMMA PlaceTypes ==
  ASSUME FrameTypes, NEW f \in Frames
  PROVE  /\ AtPP(f) \in Nat /\ AtOngoing(f) \in Nat /\ AtJpeg(f) \in Nat /\ AtJob(f) \in Nat
         /\ AtHand(f) \in {0, 1} /\ AtAbort(f) \in {0, 1} /\ released[f] \in Nat
<1>1. released[f] \in Nat
  BY DEF FrameTypes, Frames
<1>2. AtPP(f) \in Nat /\ AtOngoing(f) \in Nat /\ AtJpeg(f) \in Nat
  BY TallyType DEF FrameTypes, AtPP, AtOngoing, AtJpeg
<1>3. AtJob(f) \in Nat
  BY TallyType DEF FrameTypes, AtJob
<1> QED BY <1>1, <1>2, <1>3, FlFacts DEF AtHand, AtAbort

\* A queue that holds a frame at most once holds it as often as it has it.
LEMMA ElementsTally ==
  ASSUME NEW S, NEW q \in Seq(S), NEW f, Tally(q, {f}) <= 1
  PROVE  Fl(f \in Elements(q)) = Tally(q, {f})
<1>1. Tally(q, {f}) \in Nat /\ (Tally(q, {f}) = 0 <=> \A i \in 1 .. Len(q) : q[i] \notin {f})
  BY TallyType
<1>2. f \in Elements(q) <=> ~ \A i \in 1 .. Len(q) : q[i] \notin {f}
  BY Zenon DEF Elements
<1> QED BY <1>1, <1>2 DEF Fl

\* A frame that is not given yet is nowhere.
LEMMA NewFrame ==
  ASSUME NEW n \in Nat, NEW q \in Seq(1 .. n)
  PROVE  q \in Seq(1 .. n + 1) /\ Tally(q, {n + 1}) = 0
<1>1. \A i \in 1 .. Len(q) : q[i] \in 1 .. n
  OBVIOUS
<1>2. \A i \in 1 .. Len(q) : q[i] \notin {n + 1}
  BY <1>1
<1>3. Tally(q, {n + 1}) = 0
  BY <1>2, TallyType
<1>4. (1 .. n) \subseteq 1 .. n + 1
  OBVIOUS
<1> QED BY <1>3, <1>4

\* So it has no job either.
LEMMA NewFrameJob ==
  ASSUME NEW n \in Nat, NEW q \in Seq([frame : 1 .. n, job : Nat])
  PROVE  /\ q \in Seq([frame : 1 .. n + 1, job : Nat])
         /\ Tally(q, [frame : {n + 1}, job : Nat]) = 0
<1> DEFINE J == [frame : 1 .. n, job : Nat]
           K == [frame : 1 .. n + 1, job : Nat]
           V == [frame : {n + 1}, job : Nat]
<1>1. J \subseteq K /\ \A e \in J : e \notin V
  OBVIOUS
<1> HIDE DEF J, K, V
<1>2. q \in Seq(J)
  BY DEF J
<1>3. q \in Seq(K) /\ \A i \in 1 .. Len(q) : q[i] \in J
  BY <1>1, <1>2
<1>4. \A i \in 1 .. Len(q) : q[i] \notin V
  BY <1>1, <1>3
<1>5. Tally(q, V) = 0
  BY <1>2, <1>4, TallyType
<1> QED BY <1>3, <1>5 DEF K, V
-----------------------------------------------------------------------------
(* Scalars, and who waits for whom.                                            *)

Cmd == {"START", "STOP", "NEXT"}

\* What the operations on the data thread's queue do to the commands in it.
LEMMA CmdFacts ==
  ASSUME NEW q \in Seq(Cmd)
  PROVE  /\ Tally(q, {"START"}) \in Nat /\ Tally(q, {"STOP"}) \in Nat
         /\ \A c \in Cmd : /\ Append(q, c) \in Seq(Cmd)
                           /\ Tally(Append(q, c), {"START"}) = Tally(q, {"START"}) + Fl(c = "START")
                           /\ Tally(Append(q, c), {"STOP"}) = Tally(q, {"STOP"}) + Fl(c = "STOP")
         /\ <<"STOP">> \o q \in Seq(Cmd)
         /\ Tally(<<"STOP">> \o q, {"START"}) = Tally(q, {"START"})
         /\ Tally(<<"STOP">> \o q, {"STOP"}) = Tally(q, {"STOP"}) + 1
         /\ q # <<>> =>
              /\ Head(q) \in Cmd /\ Tail(q) \in Seq(Cmd)
              /\ Tally(q, {"START"}) = Tally(Tail(q), {"START"}) + Fl(Head(q) = "START")
              /\ Tally(q, {"STOP"}) = Tally(Tail(q), {"STOP"}) + Fl(Head(q) = "STOP")
<1>1. Tally(q, {"START"}) \in Nat /\ Tally(q, {"STOP"}) \in Nat
  BY TallyType
<1>2. ASSUME NEW c \in Cmd
      PROVE  /\ Append(q, c) \in Seq(Cmd)
             /\ Tally(Append(q, c), {"START"}) = Tally(q, {"START"}) + Fl(c = "START")
             /\ Tally(Append(q, c), {"STOP"}) = Tally(q, {"STOP"}) + Fl(c = "STOP")
  BY AppendTally DEF Fl
<1>3. /\ <<"STOP">> \o q \in Seq(Cmd)
      /\ Tally(<<"STOP">> \o q, {"START"}) = Tally(q, {"START"})
      /\ Tally(<<"STOP">> \o q, {"STOP"}) = Tally(q, {"STOP"}) + 1
  <2> DEFINE o == <<"STOP">>
  <2>1. o \in Seq(Cmd) /\ Tally(o, {"START"}) = 0 /\ Tally(o, {"STOP"}) = 1
    BY OneTally DEF Cmd
  <2> HIDE DEF o
  <2>2. /\ o \o q \in Seq(Cmd)
        /\ Tally(o \o q, {"START"}) = Tally(o, {"START"}) + Tally(q, {"START"})
        /\ Tally(o \o q, {"STOP"}) = Tally(o, {"STOP"}) + Tally(q, {"STOP"})
    BY <2>1, ConcatTally
  <2>3. o \o q \in Seq(Cmd) /\ Tally(o \o q, {"START"}) = Tally(q, {"START"})
        /\ Tally(o \o q, {"STOP"}) = Tally(q, {"STOP"}) + 1
    BY <1>1, <2>1, <2>2
  <2> QED BY <2>3 DEF o
<1>4. ASSUME q # <<>>
      PROVE  /\ Head(q) \in Cmd /\ Tail(q) \in Seq(Cmd)
             /\ Tally(q, {"START"}) = Tally(Tail(q), {"START"}) + Fl(Head(q) = "START")
             /\ Tally(q, {"STOP"}) = Tally(Tail(q), {"STOP"}) + Fl(Head(q) = "STOP")
  BY <1>4, TailTally DEF Fl
<1> QED BY <1>1, <1>2, <1>3, <1>4

\* A command to do the next job makes nobody wait.
LEMMA NextWaitsForNobody ==
  ASSUME NEW q \in Seq(Cmd), NEW r, r \in {Append(q, "NEXT"), q \o <<"NEXT">>, q \o <<"NEXT", "NEXT">>}
  PROVE  /\ r \in Seq(Cmd) /\ Tally(r, {"START"}) = Tally(q, {"START"})
         /\ Tally(r, {"STOP"}) = Tally(q, {"STOP"})
<1> DEFINE a == Append(q, "NEXT")
           b == Append(a, "NEXT")
<1>1. q \o <<"NEXT">> = a /\ q \o <<"NEXT", "NEXT">> = b /\ "NEXT" \in Cmd
  BY DEF Cmd
<1>2. /\ Tally(q, {"START"}) \in Nat /\ Tally(q, {"STOP"}) \in Nat
      /\ Fl("NEXT" = "START") = 0 /\ Fl("NEXT" = "STOP") = 0
  BY CmdFacts DEF Fl
<1>3. /\ a \in Seq(Cmd) /\ Tally(a, {"START"}) = Tally(q, {"START"})
      /\ Tally(a, {"STOP"}) = Tally(q, {"STOP"})
  BY <1>1, <1>2, CmdFacts
<1> HIDE DEF a
<1>4. /\ b \in Seq(Cmd) /\ Tally(b, {"START"}) = Tally(q, {"START"})
      /\ Tally(b, {"STOP"}) = Tally(q, {"STOP"})
  <2>1. \A c \in Cmd : /\ Append(a, c) \in Seq(Cmd)
                       /\ Tally(Append(a, c), {"START"}) = Tally(a, {"START"}) + Fl(c = "START")
                       /\ Tally(Append(a, c), {"STOP"}) = Tally(a, {"STOP"}) + Fl(c = "STOP")
    BY <1>3, CmdFacts
  <2>2. /\ b \in Seq(Cmd)
        /\ Tally(b, {"START"}) = Tally(a, {"START"}) + Fl("NEXT" = "START")
        /\ Tally(b, {"STOP"}) = Tally(a, {"STOP"}) + Fl("NEXT" = "STOP")
    BY <1>1, <2>1, Zenon
  <2> HIDE DEF b
  <2> QED BY <1>2, <1>3, <2>2
<1> HIDE DEF b
<1>5. r = a \/ r = b
  BY <1>1 DEF a
<1> QED BY <1>3, <1>4, <1>5

\* The scalars and the waiting do not depend on the rest.
SyncState == <<picture, pictures, needReprocess, deferred, cmd_queue, sync_sem, is_active,
               data, mNewJpegSessionNeeded, m_active>>

\* Every step keeps the types of the scalars and who waits for sync_sem.
LEMMA SyncKept ==
  ASSUME ScalarTypes, SyncInv, [Next]_vars
  PROVE  ScalarTypes' /\ SyncInv'
<1> USE DEF ScalarTypes
<1>1. cmd_queue \in Seq(Cmd) /\ Starts \in Nat /\ Stops \in Nat /\ sync_sem \in Nat
  BY CmdFacts DEF Cmd, Starts, Stops
<1>2. /\ Fl(data.pc \in Stopping) \in {0, 1} /\ Fl(deferred = "sync") \in {0, 1}
      /\ Fl(picture = "stopping") \in {0, 1}
  BY FlFacts
<1>3. SUFFICES ScalarTypes' /\ SyncInv'
  OBVIOUS
<1>4. UNCHANGED SyncState => ScalarTypes' /\ SyncInv'
  BY DEF SyncState, SyncInv, Starts, Stops
<1>5. CASE TakePicture
  <2>1. /\ picture = "none" /\ picture' = "taking" /\ pictures' = pictures + 1
        /\ needReprocess' \in BOOLEAN /\ deferred' = "start"
        /\ UNCHANGED <<cmd_queue, sync_sem, is_active, data, mNewJpegSessionNeeded, m_active>>
    BY <1>5, PostProcAssumption DEF TakePicture, worker, ppQueues
  <2>2. ScalarTypes'
    BY <2>1
  <2>3. UNCHANGED <<Starts, Stops>>
    BY <2>1 DEF Starts, Stops
  <2>4. /\ deferred = "none" /\ Fl(deferred = "sync") = 0 /\ Fl(picture = "stopping") = 0
        /\ Fl(deferred' = "sync") = 0 /\ Fl(picture' = "stopping") = 0
    BY <2>1 DEF SyncInv, Fl
  <2> HIDE DEF Fl, Starts, Stops, ScalarTypes
  <2>5. SyncInv'
    BY <1>1, <1>2, <2>1, <2>3, <2>4 DEF SyncInv
  <2> QED BY <2>2, <2>5
<1>6. CASE Start
  <2>1. /\ cmd_queue' \in Seq(Cmd) /\ Starts' = Starts + 1 /\ Stops' = Stops
    BY <1>1, <1>6, CmdFacts DEF Start, Starts, Stops, Fl, Cmd
  <2>2. /\ deferred = "start" /\ deferred' = "sync"
        /\ UNCHANGED <<picture, pictures, needReprocess, sync_sem, is_active, data,
                       mNewJpegSessionNeeded, m_active>>
    BY <1>6 DEF Start, worker, ppQueues
  <2>3. Fl(deferred = "sync") = 0 /\ Fl(deferred' = "sync") = 1
    BY <2>2 DEF Fl
  <2>4. ScalarTypes'
    BY <2>1, <2>2 DEF Cmd
  <2> HIDE DEF Fl, Starts, Stops, ScalarTypes
  <2>5. SyncInv'
    BY <1>1, <1>2, <2>1, <2>2, <2>3 DEF SyncInv
  <2> QED BY <2>4, <2>5
<1>7. CASE Started
  <2>1. /\ sync_sem > 0 /\ sync_sem' = sync_sem - 1 /\ deferred = "sync" /\ deferred' = "create"
        /\ UNCHANGED <<picture, pictures, needReprocess, cmd_queue, is_active, data,
                       mNewJpegSessionNeeded, m_active>>
    BY <1>7 DEF Started, WaitSync, worker, ppQueues
  <2>2. Fl(deferred = "sync") = 1 /\ Fl(deferred' = "sync") = 0
    BY <2>1 DEF Fl
  <2>3. UNCHANGED <<Starts, Stops>>
    BY <2>1 DEF Starts, Stops
  <2>4. ScalarTypes'
    BY <2>1
  <2>5. picture = "taking" /\ Fl(picture = "stopping") = 0
    BY <2>1 DEF SyncInv, Fl
  <2> HIDE DEF Fl, Starts, Stops, ScalarTypes
  <2>6. SyncInv'
    BY <1>1, <1>2, <2>1, <2>2, <2>3, <2>5 DEF SyncInv
  <2> QED BY <2>4, <2>6
<1>8. CASE CreateJpegSession
  <2>1. /\ deferred = "create" /\ deferred' = "none" /\ mNewJpegSessionNeeded' \in BOOLEAN
        /\ UNCHANGED <<picture, pictures, needReprocess, cmd_queue, is_active, data,
                       sync_sem, m_active>>
    BY <1>8 DEF CreateJpegSession, ppQueues
  <2> QED BY <1>1, <2>1 DEF SyncInv, Starts, Stops, Fl
<1>9. CASE CancelPicture
  <2>1. /\ cmd_queue' \in Seq(Cmd) /\ Starts' = Starts /\ Stops' = Stops + 1
    BY <1>1, <1>9, CmdFacts DEF CancelPicture, Starts, Stops
  <2>2. /\ picture = "taking" /\ picture' = "stopping" /\ deferred = "none"
        /\ UNCHANGED <<pictures, needReprocess, deferred, sync_sem, is_active, data,
                       mNewJpegSessionNeeded, m_active>>
    BY <1>9 DEF CancelPicture, worker, ppQueues
  <2>3. /\ Fl(picture = "stopping") = 0 /\ Fl(picture' = "stopping") = 1
        /\ Fl(deferred = "sync") = 0 /\ Fl(deferred' = "sync") = 0
    BY <2>2 DEF Fl
  <2>4. ScalarTypes'
    BY <2>1, <2>2 DEF Cmd
  <2> HIDE DEF Fl, Starts, Stops, ScalarTypes
  <2>5. SyncInv'
    BY <1>1, <1>2, <2>1, <2>2, <2>3 DEF SyncInv
  <2> QED BY <2>4, <2>5
<1>10. CASE Stopped
  <2>1. /\ sync_sem > 0 /\ sync_sem' = sync_sem - 1 /\ picture = "stopping" /\ picture' = "none"
        /\ UNCHANGED <<deferred, pictures, needReprocess, cmd_queue, is_active, data,
                       mNewJpegSessionNeeded, m_active>>
    BY <1>10 DEF Stopped, WaitSync, worker, ppQueues
  <2>2. /\ Fl(picture = "stopping") = 1 /\ Fl(picture' = "stopping") = 0
        /\ (Fl(data.pc \in Stopping) = 0 <=> data.pc \notin Stopping)
    BY <2>1 DEF Fl
  <2>3. UNCHANGED <<Starts, Stops>>
    BY <2>1 DEF Starts, Stops
  <2>4. ScalarTypes'
    BY <2>1
  <2>5. deferred = "none" /\ Fl(deferred = "sync") = 0
    BY <2>1 DEF SyncInv, Fl
  <2> HIDE DEF Fl, Starts, Stops, ScalarTypes
  <2>6. Starts = 0 /\ Stops = 0 /\ data.pc \notin Stopping /\ sync_sem' = 0
    BY <1>1, <1>2, <2>1, <2>2, <2>5 DEF SyncInv
  <2>7. SyncInv'
    BY <1>1, <1>2, <2>1, <2>2, <2>3, <2>5, <2>6 DEF SyncInv
  <2> QED BY <2>4, <2>7
<1>11. ASSUME cmd_queue' \in {cmd_queue, Append(cmd_queue, "NEXT"), cmd_queue \o <<"NEXT">>,
                              cmd_queue \o <<"NEXT", "NEXT">>},
              UNCHANGED <<picture, pictures, needReprocess, deferred, sync_sem, is_active,
                          data, mNewJpegSessionNeeded, m_active>>
       PROVE  ScalarTypes' /\ SyncInv'
  <2>1. cmd_queue' \in Seq(Cmd) /\ Starts' = Starts /\ Stops' = Stops
    BY <1>1, <1>11, NextWaitsForNobody, Zenon DEF Starts, Stops
  <2>2. ScalarTypes'
    BY <1>11, <2>1 DEF Cmd
  <2> QED BY <1>11, <2>1, <2>2 DEF SyncInv
<1>12. CASE ProcessJpegEvt
  <2>1. /\ cmd_queue' \in {cmd_queue, cmd_queue \o <<"NEXT">>, cmd_queue \o <<"NEXT", "NEXT">>}
        /\ UNCHANGED <<picture, pictures, needReprocess, deferred, sync_sem, is_active,
                       data, mNewJpegSessionNeeded, m_active>>
    BY <1>12 DEF ProcessJpegEvt, worker, ppQueues, camera
  <2> QED BY <2>1, <1>11, Zenon
<1>13. CASE ProcessData
  BY <1>11, <1>13 DEF ProcessData, SendNext, worker, camera
<1>14. CASE ProcessPPData
  BY <1>11, <1>14 DEF ProcessPPData, worker, camera
<1>15. CASE PPDataToJpeg
  BY <1>11, <1>15 DEF PPDataToJpeg, SendNext, worker, camera
<1>16. CASE JpegSteps \/ UNCHANGED vars
  BY <1>4, <1>16 DEF JpegSteps, vars, ppVars, worker, camera, ppQueues, SyncState
<1>17. ASSUME data' = [pc |-> data'.pc, frame |-> data'.frame],
              data'.pc \in {"wait", "jpeg", "encode", "number", "reprocess", "synced"} \cup Stopping,
              data.pc \in Stopping <=> data'.pc \in Stopping,
              mNewJpegSessionNeeded' \in BOOLEAN, m_active' \subseteq m_active,
              UNCHANGED <<picture, pictures, needReprocess, deferred, cmd_queue, sync_sem, is_active>>
       PROVE  ScalarTypes' /\ SyncInv'
  <2>1. ScalarTypes'
    BY <1>17
  <2>2. Fl(data'.pc \in Stopping) = Fl(data.pc \in Stopping)
    BY <1>17 DEF Fl
  <2> QED BY <1>17, <2>1, <2>2 DEF SyncInv, Starts, Stops
<1>18. \A p : GoTo(p) => data' = [pc |-> p, frame |-> data.frame]
  BY DEF GoTo
<1>19. CASE NextJpeg
  <2>1. data.pc = "jpeg" /\ UNCHANGED <<mNewJpegSessionNeeded, m_active, picture, pictures,
           needReprocess, deferred, cmd_queue, sync_sem, is_active>>
    BY <1>19 DEF NextJpeg, camera
  <2>2. data' = [pc |-> data'.pc, frame |-> data'.frame] /\ data'.pc \in {"encode", "reprocess"}
    BY <1>18, <1>19 DEF NextJpeg
  <2> QED BY <2>1, <2>2, <1>17 DEF Stopping
<1>20. CASE EncodeNewSession
  BY <1>17, <1>20 DEF EncodeNewSession, camera, ppQueues
<1>21. CASE EncodeData
  BY <1>17, <1>18, <1>21 DEF EncodeData, camera, ppQueues, Stopping
<1>22. CASE NumberJob \/ EncodeDataFails
  <2>1. /\ data.pc \in {"number", "encode"} /\ data' = [pc |-> "reprocess", frame |-> NoFrame]
        /\ UNCHANGED <<mNewJpegSessionNeeded, m_active, picture, pictures,
              needReprocess, deferred, cmd_queue, sync_sem, is_active>>
    BY <1>22 DEF NumberJob, EncodeDataFails, camera, ppQueues
  <2> QED BY <2>1, <1>17 DEF Stopping
<1>23. CASE DoReprocess
  BY <1>17, <1>18, <1>23 DEF DoReprocess, camera, Stopping
<1>24. CASE StopAborts \/ StopReleases
  <2>1. /\ data.pc \in {"abort", "aborting"}
        /\ data' = [pc |-> data'.pc, frame |-> data'.frame] /\ data'.pc \in {"abort", "aborting"}
        /\ UNCHANGED <<mNewJpegSessionNeeded, m_active, picture, pictures,
              needReprocess, deferred, cmd_queue, sync_sem, is_active>>
    BY <1>24 DEF StopAborts, StopReleases, camera, ppQueues
  <2> QED BY <2>1, <1>17 DEF Stopping
<1>25. CASE StopDestroys \/ StopDestroyed
  <2>1. /\ data.pc \in {"abort", "destroying"}
        /\ data' = [pc |-> data'.pc, frame |-> data'.frame] /\ data'.pc \in {"destroying", "flushPP"}
        /\ UNCHANGED <<mNewJpegSessionNeeded, m_active, picture, pictures,
              needReprocess, deferred, cmd_queue, sync_sem, is_active>>
    BY <1>18, <1>25 DEF StopDestroys, StopDestroyed, camera, ppQueues
  <2> QED BY <2>1, <1>17 DEF Stopping
<1>26. CASE StopFlushesOngoing \/ StopFlushesInput
  <2>1. /\ data.pc \in {"flushPP", "flushJpeg"}
        /\ data' = [pc |-> data'.pc, frame |-> data'.frame] /\ data'.pc \in {"flushJpeg", "flushInput"}
        /\ UNCHANGED <<mNewJpegSessionNeeded, picture, pictures,
              needReprocess, deferred, cmd_queue, sync_sem, is_active>>
    BY <1>18, <1>26 DEF StopFlushesOngoing, StopFlushesInput, camera
  <2>2. m_active' \subseteq m_active
    BY <1>26 DEF StopFlushesOngoing, StopFlushesInput, Flush
  <2> QED BY <2>1, <2>2, <1>17 DEF Stopping
<1>27. CASE StopFlushesPP
  <2>1. /\ data.pc = "flushInput" /\ data' = [pc |-> "synced", frame |-> data.frame]
        /\ m_active' \subseteq m_active /\ sync_sem' = sync_sem + 1
        /\ UNCHANGED <<mNewJpegSessionNeeded, picture, pictures,
              needReprocess, deferred, cmd_queue, is_active>>
    BY <1>18, <1>27 DEF StopFlushesPP, Flush, camera
  <2>2. Fl(data.pc \in Stopping) = 1 /\ Fl(data'.pc \in Stopping) = 0
    BY <2>1 DEF Fl, Stopping
  <2>3. UNCHANGED <<Starts, Stops>>
    BY <2>1 DEF Starts, Stops
  <2>4. ScalarTypes'
    BY <2>1 DEF Stopping
  <2>5. data'.pc \notin Stopping
    BY <2>1 DEF Stopping
  <2>6. data.pc \in Stopping
    BY <2>1 DEF Stopping
  <2> HIDE DEF Fl, Starts, Stops, ScalarTypes
  <2>7. SyncInv'
    BY <1>1, <1>2, <2>1, <2>2, <2>3, <2>5, <2>6 DEF SyncInv
  <2> QED BY <2>4, <2>7
<1>28. CASE StopEnds
  BY <1>17, <1>18, <1>28 DEF StopEnds, camera, ppQueues, Stopping
<1>29. CASE TakeCommand
  <2>1. /\ cmd_queue # <<>> /\ Head(cmd_queue) \in Cmd /\ cmd_queue' \in Seq(Cmd)
        /\ Starts = Starts' + Fl(Head(cmd_queue) = "START")
        /\ Stops = Stops' + Fl(Head(cmd_queue) = "STOP")
    BY <1>1, <1>29, CmdFacts DEF TakeCommand, Starts, Stops
  <2>2. /\ data.pc = "wait" /\ Fl(data.pc \in Stopping) = 0 /\ data.pc \notin Stopping
        /\ UNCHANGED <<picture, pictures, needReprocess, deferred, mNewJpegSessionNeeded>>
    BY <1>29 DEF TakeCommand, camera, Fl, Stopping
  <2>3. Starts' \in Nat /\ Stops' \in Nat
    BY <2>1, CmdFacts DEF Starts, Stops
  <2>4. CASE Head(cmd_queue) = "START"
    <3>1. /\ is_active' = TRUE /\ m_active' = QueueNames /\ sync_sem' = sync_sem + 1 /\ data' = data
      BY <1>29, <2>4 DEF TakeCommand
    <3>2. Fl(Head(cmd_queue) = "START") = 1 /\ Fl(Head(cmd_queue) = "STOP") = 0
      BY <2>4 DEF Fl
    <3>3. ScalarTypes'
      BY <2>1, <2>2, <3>1 DEF Cmd
    <3> HIDE DEF Fl, Starts, Stops, ScalarTypes
    <3>4. /\ Starts = Starts' + 1 /\ Stops' = Stops /\ Starts # 0
      BY <1>1, <2>1, <2>3, <3>2
    <3>5. deferred = "sync" /\ picture = "taking"
      BY <3>4 DEF SyncInv
    <3>6. data'.pc \notin Stopping /\ Fl(data'.pc \in Stopping) = 0
      BY <2>2, <3>1
    <3>7. SyncInv'
      BY <1>1, <1>2, <2>2, <2>3, <3>1, <3>4, <3>5, <3>6 DEF SyncInv
    <3> QED BY <3>3, <3>7
  <2>5. CASE Head(cmd_queue) = "STOP"
    <3>1. /\ is_active' = FALSE /\ data' = [pc |-> "abort", frame |-> data.frame]
          /\ UNCHANGED <<m_active, sync_sem>>
      BY <1>18, <1>29, <2>5 DEF TakeCommand, ppQueues
    <3>2. /\ Fl(Head(cmd_queue) = "START") = 0 /\ Fl(Head(cmd_queue) = "STOP") = 1
          /\ Fl(data'.pc \in Stopping) = 1 /\ data'.pc \in Stopping
      BY <2>5, <3>1 DEF Fl, Stopping
    <3>3. ScalarTypes'
      BY <2>1, <2>2, <3>1 DEF Cmd, Stopping
    <3> HIDE DEF Fl, Starts, Stops, ScalarTypes
    <3>4. /\ Starts = Starts' /\ Stops = Stops' + 1 /\ Stops # 0
      BY <1>1, <2>1, <2>3, <3>2
    <3>5. picture = "stopping"
      BY <3>4 DEF SyncInv
    <3>6. SyncInv'
      BY <1>1, <1>2, <2>2, <2>3, <3>1, <3>2, <3>4, <3>5 DEF SyncInv
    <3> QED BY <3>3, <3>6
  <2>6. CASE Head(cmd_queue) = "NEXT"
    <3>1. /\ data'.pc \in {"wait", "jpeg"} /\ data' = [pc |-> data'.pc, frame |-> data.frame]
          /\ m_active' \subseteq m_active /\ UNCHANGED <<is_active, sync_sem>>
      BY <1>18, <1>29, <2>2, <2>6 DEF TakeCommand, ppQueues, Flush
    <3>2. /\ Fl(Head(cmd_queue) = "START") = 0 /\ Fl(Head(cmd_queue) = "STOP") = 0
          /\ Fl(data'.pc \in Stopping) = 0 /\ data'.pc \notin Stopping
      BY <2>6, <3>1 DEF Fl, Stopping
    <3>3. ScalarTypes'
      BY <2>1, <2>2, <3>1 DEF Cmd
    <3> HIDE DEF Fl, Starts, Stops, ScalarTypes
    <3>4. SyncInv'
      BY <1>1, <1>2, <2>1, <2>2, <2>3, <3>1, <3>2 DEF SyncInv
    <3> QED BY <3>3, <3>4
  <2> QED BY <2>1, <2>4, <2>5, <2>6 DEF Cmd
<1> QED BY <1>5, <1>6, <1>7, <1>8, <1>9, <1>10, <1>12, <1>13, <1>14, <1>15, <1>16, <1>19,
           <1>20, <1>21, <1>22, <1>23, <1>24, <1>25, <1>26, <1>27, <1>28, <1>29, Zenon
        DEF Next, DataThread
-----------------------------------------------------------------------------
(* Where the frames go.                                                        *)

\* Steps that touch neither the frames' queues nor the hands they are in.
LEMMA FramesStill ==
  ASSUME FrameTypes, FrameInv,
         UNCHANGED <<released, m_inputPPQ, m_ongoingPPQ, m_inputJpegQ, m_ongoingJpegQ, ppHand>>,
         reprocessing' \subseteq reprocessing, data'.frame \in 0 .. Len(released),
         data.pc = "aborting" <=> data'.pc = "aborting",
         data.pc = "aborting" => data'.frame = data.frame
  PROVE  FrameTypes' /\ FrameInv'
<1>1. FrameTypes' /\ Frames' = Frames
  BY DEF FrameTypes, Frames, Job
<1>2. ASSUME NEW f \in Frames PROVE Places(f)' + released'[f] = 1
  <2>1. /\ AtPP(f)' = AtPP(f) /\ AtOngoing(f)' = AtOngoing(f) /\ AtJpeg(f)' = AtJpeg(f)
        /\ AtJob(f)' = AtJob(f) /\ AtHand(f)' = AtHand(f)
    BY DEF AtPP, AtOngoing, AtJpeg, AtJob, AtHand
  <2>2. AtAbort(f)' = AtAbort(f)
    BY DEF AtAbort, Fl
  <2> QED BY <2>1, <2>2, <1>2 DEF FrameInv, Places
<1> QED BY <1>1, <1>2 DEF FrameInv

\* The frames of the jobs that are done leave the ongoing jobs (flushNodes).
LEMMA DoneLeave ==
  ASSUME NEW n \in Nat, NEW q \in Seq([frame : 1 .. n, job : Nat]), NEW D \in SUBSET (1 .. Len(q)),
         NEW f, Tally(q, [frame : {f}, job : Nat]) <= 1
  PROVE  /\ Pick(q, (1 .. Len(q)) \ D) \in Seq([frame : 1 .. n, job : Nat])
         /\ Tally(q, [frame : {f}, job : Nat])
               = Tally(Pick(q, (1 .. Len(q)) \ D), [frame : {f}, job : Nat])
                 + Fl(f \in { q[i].frame : i \in D })
<1> DEFINE J == [frame : 1 .. n, job : Nat]
           V == [frame : {f}, job : Nat]
           K == (1 .. Len(q)) \ D
           d == { k \in D : q[k] \in V }
<1>1. Len(q) \in Nat /\ q \in Seq(J) /\ K \in SUBSET (1 .. Len(q)) /\ \A i \in D : q[i] \in J
  <2>1. Len(q) \in Nat /\ q \in Seq(J)
    OBVIOUS
  <2> HIDE DEF J
  <2>2. \A i \in 1 .. Len(q) : q[i] \in J
    BY <2>1
  <2> QED BY <2>1, <2>2, Zenon
<1>2. \A e \in J : e \in V <=> e.frame = f
  OBVIOUS
<1>3. f \in { q[i].frame : i \in D } <=> d # {}
  <2> HIDE DEF J, V
  <2> QED BY <1>1, <1>2
<1>4. (1 .. Len(q)) \ K = D
  OBVIOUS
<1>5. d \in SUBSET (1 .. Len(q))
  OBVIOUS
<1> HIDE DEF J, V, K, d
<1>6. /\ Cardinality(d) \in Nat /\ (Cardinality(d) = 0 <=> d = {})
  BY <1>1, <1>5, PositionsFinite
<1>7. Pick(q, K) \in Seq(J)
  BY <1>1, PickFacts
<1>8. Tally(Pick(q, K), V) \in Nat
  BY <1>7, TallyType
<1>9. Tally(q, V) = Tally(Pick(q, K), V) + Cardinality({ k \in (1 .. Len(q)) \ K : q[k] \in V })
  BY <1>1, PickSplits
<1>10. Tally(q, V) = Tally(Pick(q, K), V) + Cardinality(d)
  BY <1>4, <1>9, Zenon DEF d
<1>11. Tally(q, V) <= 1
  BY DEF V
<1>12. Fl(d # {}) = Cardinality(d)
  BY <1>6, <1>8, <1>10, <1>11 DEF Fl
<1>13. Fl(f \in { q[i].frame : i \in D }) = Cardinality(d)
  BY <1>3, <1>12, Zenon DEF Fl
<1> QED BY <1>7, <1>10, <1>13 DEF J, V, K

\* The encoder's answer sends the frame of the job back (processJpegEvt).
LEMMA EventFrames ==
  ASSUME FrameTypes, FrameInv, ProcessJpegEvt
  PROVE  FrameTypes' /\ FrameInv'
<1> DEFINE all  == 1 .. Len(m_ongoingJpegQ)
           done == { i \in all : m_ongoingJpegQ[i].job = Head(events).job }
           fs   == { m_ongoingJpegQ[i].frame : i \in done }
<1>1. CASE picture # "taking"
  BY <1>1, FramesStill DEF ProcessJpegEvt, ppQueues, worker, FrameTypes
<1>2. CASE picture = "taking"
  <2>1. /\ Release(fs) /\ m_ongoingJpegQ' = Pick(m_ongoingJpegQ, all \ done)
        /\ UNCHANGED <<m_inputPPQ, m_ongoingPPQ, m_inputJpegQ, ppHand, reprocessing, data>>
    BY <1>2 DEF ProcessJpegEvt, ppQueues, worker
  <2>2. done \in SUBSET all
    OBVIOUS
  <2>3. /\ released' \in Seq(Nat) /\ Len(released') = Len(released) /\ Frames' = Frames
        /\ \A f \in Frames : released'[f] = released[f] + Fl(f \in fs)
    BY <2>1, ReleaseFacts DEF FrameTypes
  <2>4. m_ongoingJpegQ \in Seq([frame : 1 .. Len(released), job : Nat]) /\ Len(released) \in Nat
    BY DEF FrameTypes, Job, Frames
  <2> HIDE DEF done
  <2>5. \A f : Tally(m_ongoingJpegQ, [frame : {f}, job : Nat]) <= 1 =>
          /\ m_ongoingJpegQ' \in Seq([frame : 1 .. Len(released), job : Nat])
          /\ Tally(m_ongoingJpegQ, [frame : {f}, job : Nat])
               = Tally(m_ongoingJpegQ', [frame : {f}, job : Nat]) + Fl(f \in fs)
    BY <2>1, <2>2, <2>4, DoneLeave, Zenon
  <2> HIDE DEF fs, all
  <2>6. ASSUME NEW f \in Frames PROVE Places(f)' + released'[f] = 1
    <3>1. /\ AtPP(f)' = AtPP(f) /\ AtOngoing(f)' = AtOngoing(f) /\ AtJpeg(f)' = AtJpeg(f)
          /\ AtHand(f)' = AtHand(f) /\ AtAbort(f)' = AtAbort(f)
      BY <2>1 DEF AtPP, AtOngoing, AtJpeg, AtHand, AtAbort
    <3>2. /\ AtPP(f) \in Nat /\ AtOngoing(f) \in Nat /\ AtJpeg(f) \in Nat /\ AtJob(f) \in Nat
          /\ AtHand(f) \in {0, 1} /\ AtAbort(f) \in {0, 1} /\ released[f] \in Nat
      BY <2>6, PlaceTypes
    <3>3. Places(f) + released[f] = 1
      BY <2>6 DEF FrameInv
    <3>4. AtJob(f) <= 1
      BY <3>2, <3>3 DEF Places
    <3>5. AtJob(f) = AtJob(f)' + Fl(f \in fs)
      BY <2>5, <3>4 DEF AtJob
    <3>6. Fl(f \in fs) \in {0, 1}
      BY FlFacts
    <3>7. released'[f] = released[f] + Fl(f \in fs)
      BY <2>3, <2>6
    <3>8. m_ongoingJpegQ' \in Seq([frame : 1 .. Len(released), job : Nat])
      BY <2>5, <3>4 DEF AtJob
    <3>9. AtJob(f)' \in Nat
      BY <3>8, TallyType DEF AtJob
    <3> QED BY <3>1, <3>2, <3>3, <3>5, <3>6, <3>7, <3>9 DEF Places
  <2>7. m_ongoingJpegQ' \in Seq([frame : 1 .. Len(released), job : Nat])
    <3>1. Pick(m_ongoingJpegQ, all \ done) \in Seq([frame : 1 .. Len(released), job : Nat])
      <4>1. (all \ done) \in SUBSET (1 .. Len(m_ongoingJpegQ))
        BY DEF all
      <4> HIDE DEF all
      <4> QED BY <4>1, <2>4, PickFacts
    <3> QED BY <3>1, <2>1
  <2>8. FrameTypes'
    BY <2>1, <2>3, <2>7 DEF FrameTypes, Job, Frames
  <2> QED BY <2>3, <2>6, <2>8 DEF FrameInv
<1> QED BY <1>1, <1>2
\* A frame given to the post-processor goes to a queue, or back at once.
LEMMA DataFrames ==
  ASSUME FrameTypes, FrameInv, ProcessData
  PROVE  FrameTypes' /\ FrameInv'
<1> DEFINE n == Len(released)
           f0 == n + 1
<1>1. /\ n \in Nat /\ Frames = 1 .. n /\ released \in Seq(Nat)
      /\ UNCHANGED <<m_ongoingPPQ, m_ongoingJpegQ, reprocessing, ppHand, data>>
  BY DEF FrameTypes, Frames, ProcessData, worker
<1>2. PICK r \in {0, 1} : /\ released' = Append(released, r)
                          /\ r = 1 => UNCHANGED <<m_inputPPQ, m_inputJpegQ>>
                          /\ r = 0 => \/ /\ m_inputPPQ' = Append(m_inputPPQ, f0)
                                         /\ m_inputJpegQ' = m_inputJpegQ
                                      \/ /\ m_inputJpegQ' = Append(m_inputJpegQ, f0)
                                         /\ m_inputPPQ' = m_inputPPQ
  <2> DEFINE to == IF needReprocess THEN "inputPP" ELSE "inputJpeg"
  <2>1. CASE to \in m_active
    <3>1. released' = Append(released, 0)
      BY <2>1 DEF ProcessData
    <3>2. \/ m_inputPPQ' = Append(m_inputPPQ, f0) /\ m_inputJpegQ' = m_inputJpegQ
          \/ m_inputJpegQ' = Append(m_inputJpegQ, f0) /\ m_inputPPQ' = m_inputPPQ
      BY <2>1, Zenon DEF ProcessData
    <3> QED BY <3>1, <3>2
  <2>2. CASE to \notin m_active
    <3>1. released' = Append(released, 1) /\ UNCHANGED <<m_inputPPQ, m_inputJpegQ>>
      BY <2>2 DEF ProcessData
    <3> QED BY <3>1
  <2> QED BY <2>1, <2>2
<1>3. /\ released' \in Seq(Nat) /\ Len(released') = n + 1 /\ Frames' = 1 .. n + 1
      /\ released'[n + 1] = r /\ \A f \in 1 .. n : released'[f] = released[f]
  BY <1>1, <1>2 DEF Frames
<1>4. /\ m_inputPPQ \in Seq(1 .. n) /\ m_ongoingPPQ \in Seq(1 .. n) /\ m_inputJpegQ \in Seq(1 .. n)
      /\ m_ongoingJpegQ \in Seq([frame : 1 .. n, job : Nat])
      /\ reprocessing \subseteq 1 .. n /\ ppHand \in 0 .. n /\ data.frame \in 0 .. n
  BY DEF FrameTypes, Frames, Job
<1> HIDE DEF n
<1>5. /\ m_inputPPQ \in Seq(1 .. n + 1) /\ m_ongoingPPQ \in Seq(1 .. n + 1)
      /\ m_inputJpegQ \in Seq(1 .. n + 1) /\ m_ongoingJpegQ \in Seq([frame : 1 .. n + 1, job : Nat])
      /\ Tally(m_inputPPQ, {n + 1}) = 0 /\ Tally(m_ongoingPPQ, {n + 1}) = 0
      /\ Tally(m_inputJpegQ, {n + 1}) = 0
      /\ Tally(m_ongoingJpegQ, [frame : {n + 1}, job : Nat]) = 0
  BY <1>1, <1>4, NewFrame, NewFrameJob
<1>6. n + 1 \in 1 .. n + 1 /\ n + 1 # ppHand /\ n + 1 # data.frame
      /\ ppHand \in 0 .. n + 1 /\ data.frame \in 0 .. n + 1 /\ reprocessing \subseteq 1 .. n + 1
      /\ n + 1 \notin 1 .. n /\ \A f \in 1 .. n + 1 : f \in 1 .. n \/ f = n + 1
  BY <1>1, <1>4
<1>7. ASSUME NEW q \in Seq(1 .. n + 1), NEW f \in 1 .. n + 1
      PROVE  /\ Append(q, f0) \in Seq(1 .. n + 1) /\ Tally(q, {f}) \in Nat
             /\ Tally(Append(q, f0), {f}) = Tally(q, {f}) + IF f = n + 1 THEN 1 ELSE 0
  <2> DEFINE F == 1 .. n + 1
  <2>1. f0 \in F /\ q \in Seq(F) /\ (f0 \in {f} <=> f = n + 1)
    BY <1>6, <1>7
  <2> HIDE DEF F, f0
  <2>2. /\ Append(q, f0) \in Seq(F) /\ Tally(q, {f}) \in Nat
        /\ Tally(Append(q, f0), {f}) = Tally(q, {f}) + IF f0 \in {f} THEN 1 ELSE 0
    BY <2>1, AppendTally, TallyType
  <2> QED BY <2>1, <2>2 DEF F
<1> HIDE DEF f0
<1>8. m_inputPPQ' \in Seq(1 .. n + 1) /\ m_inputJpegQ' \in Seq(1 .. n + 1)
  BY <1>2, <1>5, <1>6, <1>7
<1>9. FrameTypes'
  BY <1>1, <1>3, <1>5, <1>6, <1>8 DEF FrameTypes, Job
<1>10. ASSUME NEW f \in 1 .. n + 1 PROVE Places(f)' + released'[f] = 1
  <2>1. /\ AtOngoing(f)' = AtOngoing(f) /\ AtJob(f)' = AtJob(f)
        /\ AtHand(f)' = AtHand(f) /\ AtAbort(f)' = AtAbort(f)
    BY <1>1 DEF AtOngoing, AtJob, AtHand, AtAbort
  <2>2. AtPP(f) \in Nat /\ AtJpeg(f) \in Nat
    BY <1>5, <1>7, <1>10 DEF AtPP, AtJpeg
  <2>3. AtPP(f)' + AtJpeg(f)' = AtPP(f) + AtJpeg(f) + IF f = n + 1 THEN 1 - r ELSE 0
    <3>1. CASE r = 1
      BY <1>2, <2>2, <3>1 DEF AtPP, AtJpeg
    <3>2. CASE r = 0 /\ m_inputPPQ' = Append(m_inputPPQ, f0) /\ m_inputJpegQ' = m_inputJpegQ
      <4>1. AtPP(f)' = AtPP(f) + IF f = n + 1 THEN 1 ELSE 0
        BY <1>5, <1>7, <1>10, <3>2 DEF AtPP
      <4>2. AtJpeg(f)' = AtJpeg(f)
        BY <3>2 DEF AtJpeg
      <4> QED BY <2>2, <3>2, <4>1, <4>2
    <3>3. CASE r = 0 /\ m_inputJpegQ' = Append(m_inputJpegQ, f0) /\ m_inputPPQ' = m_inputPPQ
      <4>1. AtJpeg(f)' = AtJpeg(f) + IF f = n + 1 THEN 1 ELSE 0
        BY <1>5, <1>7, <1>10, <3>3 DEF AtJpeg
      <4>2. AtPP(f)' = AtPP(f)
        BY <3>3 DEF AtPP
      <4> QED BY <2>2, <3>3, <4>1, <4>2
    <3> QED BY <1>2, <3>1, <3>2, <3>3
  <2>4. CASE f \in 1 .. n
    <3>1. /\ Places(f) + released[f] = 1 /\ released'[f] = released[f] /\ f # n + 1
      BY <1>1, <1>3, <1>6, <2>4 DEF FrameInv
    <3>2. /\ AtOngoing(f) \in Nat /\ AtJob(f) \in Nat /\ AtHand(f) \in {0, 1}
          /\ AtAbort(f) \in {0, 1} /\ released[f] \in Nat
      BY <1>1, <2>4, PlaceTypes
    <3>3. AtPP(f)' + AtJpeg(f)' = AtPP(f) + AtJpeg(f)
      BY <2>2, <2>3, <3>1
    <3>4. AtPP(f)' \in Nat /\ AtJpeg(f)' \in Nat
      BY <1>8, TallyType DEF AtPP, AtJpeg
    <3> QED BY <2>1, <2>2, <3>1, <3>2, <3>3, <3>4 DEF Places
  <2>5. CASE f = n + 1
    <3>1. /\ AtOngoing(f) = 0 /\ AtJob(f) = 0 /\ AtHand(f) = 0 /\ AtAbort(f) = 0
          /\ AtPP(f) = 0 /\ AtJpeg(f) = 0
      BY <1>5, <1>6, <2>5 DEF AtOngoing, AtJob, AtHand, AtAbort, AtPP, AtJpeg, Fl
    <3>2. AtPP(f)' + AtJpeg(f)' = 1 - r /\ released'[f] = r
      BY <1>3, <2>2, <2>3, <2>5, <3>1
    <3>3. AtPP(f)' \in Nat /\ AtJpeg(f)' \in Nat
      BY <1>8, TallyType DEF AtPP, AtJpeg
    <3> QED BY <2>1, <3>1, <3>2, <3>3, <1>2 DEF Places
  <2> QED BY <1>6, <1>10, <2>4, <2>5
<1> QED BY <1>3, <1>9, <1>10 DEF FrameInv
\* How often a frame is in a queue of frames, and in one of jobs.
Count(q, f)    == Tally(q, {f})
JobCount(q, f) == Tally(q, [frame : {f}, job : Nat])

\* A frame at the end of a queue, and the frame at its head.
LEMMA QueueOps ==
  ASSUME NEW S, NEW q \in Seq(S), NEW f
  PROVE  /\ Count(q, f) \in Nat /\ Count(<<>>, f) = 0
         /\ Count(q, f) <= 1 => Fl(f \in Elements(q)) = Count(q, f)
         /\ \A e \in S : /\ Append(q, e) \in Seq(S)
                         /\ Count(Append(q, e), f) = Count(q, f) + Fl(f = e)
         /\ q # <<>> => /\ Head(q) \in S /\ Tail(q) \in Seq(S)
                        /\ Count(q, f) = Count(Tail(q), f) + Fl(f = Head(q))
<1> DEFINE V == {f}
<1>1. \A e : Fl(f = e) = IF e \in V THEN 1 ELSE 0
  BY DEF Fl
<1>2. Tally(q, {f}) <= 1 => Fl(f \in Elements(q)) = Tally(q, {f})
  BY ElementsTally
<1> HIDE DEF V
<1>3. Tally(q, V) \in Nat /\ Tally(<<>>, V) = 0
  BY TallyType, NoTally
<1>4. ASSUME NEW e \in S
      PROVE  Append(q, e) \in Seq(S) /\ Tally(Append(q, e), V) = Tally(q, V) + Fl(f = e)
  BY <1>1, AppendTally
<1>5. ASSUME q # <<>>
      PROVE  /\ Head(q) \in S /\ Tail(q) \in Seq(S)
             /\ Tally(q, V) = Tally(Tail(q), V) + Fl(f = Head(q))
  BY <1>1, <1>5, TailTally
<1> QED BY <1>2, <1>3, <1>4, <1>5 DEF V, Count

\* The same for the jobs of a frame, and the job at the end of the queue.
LEMMA JobOps ==
  ASSUME NEW q \in Seq(Job), NEW f
  PROVE  /\ JobCount(q, f) \in Nat /\ JobCount(<<>>, f) = 0
         /\ \A e \in Job : /\ Append(q, e) \in Seq(Job)
                           /\ JobCount(Append(q, e), f) = JobCount(q, f) + Fl(f = e.frame)
         /\ q # <<>> =>
              /\ Head(q) \in Job /\ Tail(q) \in Seq(Job)
              /\ JobCount(q, f) = JobCount(Tail(q), f) + Fl(f = Head(q).frame)
              /\ q[Len(q)] \in Job /\ Forget(q) \in Seq(Job)
              /\ JobCount(q, f) = JobCount(Forget(q), f) + Fl(f = q[Len(q)].frame)
              /\ \A j \in Nat : /\ Numbered(q, j) \in Seq(Job)
                                /\ JobCount(Numbered(q, j), f) = JobCount(q, f)
<1> DEFINE J == Job
           V == [frame : {f}, job : Nat]
<1>1. \A e \in J : Fl(f = e.frame) = IF e \in V THEN 1 ELSE 0
  BY DEF Fl, Job
<1>2. q \in Seq(J)
  OBVIOUS
<1>3. \A e \in J, j \in Nat : /\ [e EXCEPT !.job = j] \in J
                              /\ [e EXCEPT !.job = j] \in V <=> e \in V
  BY DEF Job
<1> HIDE DEF J, V
<1>4. Tally(q, V) \in Nat /\ Tally(<<>>, V) = 0
  BY <1>2, TallyType, NoTally
<1>5. ASSUME NEW e \in J
      PROVE  Append(q, e) \in Seq(J) /\ Tally(Append(q, e), V) = Tally(q, V) + Fl(f = e.frame)
  BY <1>1, <1>2, AppendTally
<1>6. ASSUME q # <<>>
      PROVE  /\ Head(q) \in J /\ Tail(q) \in Seq(J)
             /\ Tally(q, V) = Tally(Tail(q), V) + Fl(f = Head(q).frame)
  BY <1>1, <1>2, <1>6, TailTally
<1>7. ASSUME q # <<>>
      PROVE  /\ q[Len(q)] \in J /\ Forget(q) \in Seq(J)
             /\ Tally(q, V) = Tally(Forget(q), V) + Fl(f = q[Len(q)].frame)
  BY <1>1, <1>2, <1>7, FrontTally DEF Forget
<1>8. ASSUME q # <<>>, NEW j \in Nat
      PROVE  Numbered(q, j) \in Seq(J) /\ Tally(Numbered(q, j), V) = Tally(q, V)
  <2> DEFINE n == Len(q)
             e == [q[n] EXCEPT !.job = j]
  <2>1. n \in 1 .. Len(q) /\ q[n] \in J
    BY <1>2, <1>8
  <2>2. e \in J /\ (e \in V <=> q[n] \in V)
    BY <1>3, <2>1
  <2>3. Numbered(q, j) = [q EXCEPT ![n] = e]
    BY DEF Numbered
  <2> HIDE DEF n, e
  <2>4. /\ [q EXCEPT ![n] = e] \in Seq(J)
        /\ Tally([q EXCEPT ![n] = e], V)
              = Tally(q, V) - (IF q[n] \in V THEN 1 ELSE 0) + IF e \in V THEN 1 ELSE 0
    BY <1>2, <2>1, <2>2, ExceptTally
  <2>5. (IF q[n] \in V THEN 1 ELSE 0) = (IF e \in V THEN 1 ELSE 0)
    BY <2>2
  <2> DEFINE x == IF e \in V THEN 1 ELSE 0
  <2>6. x \in {0, 1}
    OBVIOUS
  <2>7. Tally([q EXCEPT ![n] = e], V) = Tally(q, V) - x + x
    BY <2>4, <2>5
  <2> HIDE DEF x
  <2>8. Tally([q EXCEPT ![n] = e], V) = Tally(q, V)
    BY <1>4, <2>6, <2>7
  <2> QED BY <2>3, <2>4, <2>8, Zenon
<1> QED BY <1>4, <1>5, <1>6, <1>7, <1>8 DEF J, V, JobCount

\* What leaves one place of a frame comes to another.
LEMMA SumKept ==
  ASSUME FrameInv, Frames' = Frames,
         \A f \in Frames : Places(f)' + released'[f] = Places(f) + released[f]
  PROVE  FrameInv'
BY DEF FrameInv

\* processPPData takes the first frame that was sent to the reprocess channel ...
LEMMA PPDataFrames ==
  ASSUME FrameTypes, FrameInv, ProcessPPData
  PROVE  FrameTypes' /\ FrameInv'
<1>1. CASE ~ (m_ongoingPPQ # <<>> /\ "ongoingPP" \in m_active)
  <2>1. /\ UNCHANGED <<released, m_inputPPQ, m_ongoingPPQ, m_inputJpegQ, m_ongoingJpegQ, ppHand, data>>
        /\ reprocessing' \subseteq reprocessing
    BY <1>1 DEF ProcessPPData, worker
  <2>2. data.frame \in 0 .. Len(released)
    BY DEF FrameTypes
  <2> QED BY <2>1, <2>2, FramesStill, Zenon
<1>2. CASE m_ongoingPPQ # <<>> /\ "ongoingPP" \in m_active
  <2>1. /\ ppHand = NoFrame /\ ppHand' = Head(m_ongoingPPQ) /\ m_ongoingPPQ' = Tail(m_ongoingPPQ)
        /\ UNCHANGED <<released, m_inputPPQ, m_inputJpegQ, m_ongoingJpegQ, data>>
        /\ reprocessing' \subseteq reprocessing
    BY <1>2 DEF ProcessPPData, worker
  <2>2. m_ongoingPPQ \in Seq(Frames)
    BY DEF FrameTypes
  <2>3. /\ Head(m_ongoingPPQ) \in Frames /\ m_ongoingPPQ' \in Seq(Frames)
        /\ \A f : Count(m_ongoingPPQ, f) = Count(m_ongoingPPQ', f) + Fl(f = Head(m_ongoingPPQ))
        /\ \A f : Count(m_ongoingPPQ', f) \in Nat
    <3>1. ASSUME NEW f
          PROVE  /\ Head(m_ongoingPPQ) \in Frames /\ Tail(m_ongoingPPQ) \in Seq(Frames)
                 /\ Count(m_ongoingPPQ, f)
                       = Count(Tail(m_ongoingPPQ), f) + Fl(f = Head(m_ongoingPPQ))
                 /\ Count(Tail(m_ongoingPPQ), f) \in Nat
      <4>1. /\ Head(m_ongoingPPQ) \in Frames /\ Tail(m_ongoingPPQ) \in Seq(Frames)
            /\ Count(m_ongoingPPQ, f)
                  = Count(Tail(m_ongoingPPQ), f) + Fl(f = Head(m_ongoingPPQ))
        BY <1>2, <2>2, QueueOps
      <4>2. Count(Tail(m_ongoingPPQ), f) \in Nat
        BY <4>1, QueueOps
      <4> QED BY <4>1, <4>2
    <3> QED BY <2>1, <3>1, Zenon
  <2>4. FrameTypes' /\ Frames' = Frames
    BY <2>1, <2>3 DEF FrameTypes, Frames, Job
  <2>5. ASSUME NEW f \in Frames PROVE Places(f)' + released'[f] = Places(f) + released[f]
    <3>1. /\ AtPP(f)' = AtPP(f) /\ AtJpeg(f)' = AtJpeg(f) /\ AtJob(f)' = AtJob(f)
          /\ AtAbort(f)' = AtAbort(f) /\ released'[f] = released[f]
      BY <2>1 DEF AtPP, AtJpeg, AtJob, AtAbort
    <3>2. AtHand(f) = 0
      BY <2>1, <2>5 DEF AtHand, Fl, NoFrame, Frames
    <3>3. AtOngoing(f) = AtOngoing(f)' + AtHand(f)' /\ AtOngoing(f)' \in Nat
      BY <2>1, <2>3 DEF AtOngoing, AtHand, Count
    <3>4. AtHand(f)' \in {0, 1}
      BY FlFacts DEF AtHand
    <3>5. /\ AtPP(f) \in Nat /\ AtJpeg(f) \in Nat /\ AtJob(f) \in Nat /\ AtAbort(f) \in {0, 1}
          /\ released[f] \in Nat
      BY <2>5, PlaceTypes
    <3> QED BY <3>1, <3>2, <3>3, <3>4, <3>5 DEF Places
  <2> QED BY <2>4, <2>5, SumKept
<1> QED BY <1>1, <1>2

\* ... and hands it on.
LEMMA HandFrames ==
  ASSUME FrameTypes, FrameInv, PPDataToJpeg
  PROVE  FrameTypes' /\ FrameInv'
<1>1. /\ ppHand' = NoFrame /\ ppHand \in Frames /\ Len(released) \in Nat /\ released \in Seq(Nat)
      /\ UNCHANGED <<m_inputPPQ, m_ongoingPPQ, m_ongoingJpegQ, reprocessing, data>>
  BY DEF PPDataToJpeg, worker, FrameTypes, Frames, NoFrame
<1>2. ASSUME NEW f \in Frames
      PROVE  /\ AtPP(f)' = AtPP(f) /\ AtOngoing(f)' = AtOngoing(f) /\ AtJob(f)' = AtJob(f)
             /\ AtAbort(f)' = AtAbort(f) /\ AtHand(f)' = 0 /\ AtHand(f) = Fl(f = ppHand)
             /\ AtHand(f) \in {0, 1}
             /\ AtPP(f) \in Nat /\ AtJpeg(f) \in Nat /\ AtJob(f) \in Nat /\ AtAbort(f) \in {0, 1}
             /\ AtOngoing(f) \in Nat /\ released[f] \in Nat
  <2>1. /\ AtPP(f)' = AtPP(f) /\ AtOngoing(f)' = AtOngoing(f) /\ AtJob(f)' = AtJob(f)
        /\ AtAbort(f)' = AtAbort(f)
    BY <1>1 DEF AtPP, AtOngoing, AtJob, AtAbort
  <2>2. AtHand(f)' = 0
    BY <1>1, <1>2 DEF AtHand, Fl, NoFrame, Frames
  <2> QED BY <2>1, <2>2, <1>2, PlaceTypes DEF AtHand
<1>3. CASE "inputJpeg" \in m_active
  <2>1. m_inputJpegQ' = Append(m_inputJpegQ, ppHand) /\ released' = released
    BY <1>3 DEF PPDataToJpeg
  <2>2. m_inputJpegQ \in Seq(Frames)
    BY DEF FrameTypes
  <2>3. /\ m_inputJpegQ' \in Seq(Frames)
        /\ \A f : Count(m_inputJpegQ', f) = Count(m_inputJpegQ, f) + Fl(f = ppHand)
    <3>1. ASSUME NEW f
          PROVE  /\ Append(m_inputJpegQ, ppHand) \in Seq(Frames)
                 /\ Count(Append(m_inputJpegQ, ppHand), f)
                       = Count(m_inputJpegQ, f) + Fl(f = ppHand)
      BY <1>1, <2>2, QueueOps
    <3> QED BY <2>1, <3>1, Zenon
  <2>4. FrameTypes' /\ Frames' = Frames
    BY <1>1, <2>1, <2>3 DEF FrameTypes, Frames, Job, NoFrame
  <2>5. ASSUME NEW f \in Frames PROVE Places(f)' + released'[f] = Places(f) + released[f]
    <3>1. AtJpeg(f)' = AtJpeg(f) + AtHand(f) /\ released'[f] = released[f]
      BY <2>1, <2>3 DEF AtJpeg, AtHand, Count
    <3> QED BY <1>2, <2>5, <3>1 DEF Places
  <2> QED BY <2>4, <2>5, SumKept
<1>4. CASE "inputJpeg" \notin m_active
  <2>1. m_inputJpegQ' = m_inputJpegQ /\ Release({ppHand})
    BY <1>4 DEF PPDataToJpeg
  <2>2. /\ released' \in Seq(Nat) /\ Len(released') = Len(released) /\ Frames' = Frames
        /\ \A f \in Frames : released'[f] = released[f] + Fl(f \in {ppHand})
    BY <1>1, <2>1, ReleaseFacts
  <2>3. FrameTypes'
    BY <1>1, <2>1, <2>2 DEF FrameTypes, Job, NoFrame
  <2>4. ASSUME NEW f \in Frames PROVE Places(f)' + released'[f] = Places(f) + released[f]
    <3>1. AtJpeg(f)' = AtJpeg(f) /\ released'[f] = released[f] + AtHand(f)
      BY <2>1, <2>2, <2>4 DEF AtJpeg, AtHand, Fl
    <3> QED BY <1>2, <2>4, <3>1 DEF Places
  <2> QED BY <2>2, <2>3, <2>4, SumKept
<1> QED BY <1>3, <1>4
\* A frame is in at most one place.
LEMMA OnePlace ==
  ASSUME FrameTypes, FrameInv, NEW f \in Frames
  PROVE  /\ AtPP(f) \in {0, 1} /\ AtOngoing(f) \in {0, 1} /\ AtJpeg(f) \in {0, 1}
         /\ AtJob(f) \in {0, 1} /\ AtHand(f) \in {0, 1} /\ AtAbort(f) \in {0, 1}
         /\ Places(f) \in {0, 1} /\ released[f] \in {0, 1} /\ Places(f) + released[f] = 1
<1>1. /\ AtPP(f) \in Nat /\ AtOngoing(f) \in Nat /\ AtJpeg(f) \in Nat /\ AtJob(f) \in Nat
      /\ AtHand(f) \in {0, 1} /\ AtAbort(f) \in {0, 1} /\ released[f] \in Nat
  BY PlaceTypes
<1>2. Places(f) + released[f] = 1
  BY DEF FrameInv
<1> QED BY <1>1, <1>2 DEF Places

\* What leaves its place goes back once.
LEMMA GiveBack ==
  ASSUME FrameTypes, FrameInv, NEW fs, Release(fs),
         \A f \in Frames : Places(f) = Places(f)' + Fl(f \in fs) /\ Places(f)' \in Nat
  PROVE  /\ FrameInv' /\ Frames' = Frames
         /\ released' \in Seq(Nat) /\ Len(released') = Len(released)
<1>1. /\ released' \in Seq(Nat) /\ Len(released') = Len(released) /\ Frames' = Frames
      /\ \A f \in Frames : released'[f] = released[f] + Fl(f \in fs)
  BY ReleaseFacts DEF FrameTypes
<1>2. ASSUME NEW f \in Frames PROVE Places(f)' + released'[f] = 1
  <2>1. Places(f) \in {0, 1} /\ released[f] \in {0, 1} /\ Places(f) + released[f] = 1
    BY OnePlace
  <2>2. Fl(f \in fs) \in {0, 1}
    BY FlFacts
  <2>3. Places(f) = Places(f)' + Fl(f \in fs) /\ Places(f)' \in Nat
        /\ released'[f] = released[f] + Fl(f \in fs)
    BY <1>1
  <2> QED BY <2>1, <2>2, <2>3
<1> QED BY <1>1, <1>2 DEF FrameInv

\* A queue that is flushed gives back what it holds.
LEMMA FlushedQueues ==
  ASSUME FrameTypes, FrameInv, NEW f \in Frames
  PROVE  /\ Count(<<>>, f) = 0
         /\ AtPP(f) = Fl(f \in Elements(m_inputPPQ))
         /\ AtOngoing(f) = Fl(f \in Elements(m_ongoingPPQ))
         /\ AtJpeg(f) = Fl(f \in Elements(m_inputJpegQ))
<1>1. AtPP(f) \in {0, 1} /\ AtOngoing(f) \in {0, 1} /\ AtJpeg(f) \in {0, 1}
  BY OnePlace
<1>2. /\ AtPP(f) = Count(m_inputPPQ, f) /\ AtOngoing(f) = Count(m_ongoingPPQ, f)
      /\ AtJpeg(f) = Count(m_inputJpegQ, f)
  BY DEF AtPP, AtOngoing, AtJpeg, Count
<1>3. m_inputPPQ \in Seq(Frames) /\ m_ongoingPPQ \in Seq(Frames) /\ m_inputJpegQ \in Seq(Frames)
  BY DEF FrameTypes
<1>4. /\ Count(<<>>, f) = 0
      /\ Count(m_inputPPQ, f) <= 1 => Fl(f \in Elements(m_inputPPQ)) = Count(m_inputPPQ, f)
  BY <1>3, QueueOps
<1>5. Count(m_ongoingPPQ, f) <= 1 => Fl(f \in Elements(m_ongoingPPQ)) = Count(m_ongoingPPQ, f)
  BY <1>3, QueueOps
<1>6. Count(m_inputJpegQ, f) <= 1 => Fl(f \in Elements(m_inputJpegQ)) = Count(m_inputJpegQ, f)
  BY <1>3, QueueOps
<1> QED BY <1>1, <1>2, <1>4, <1>5, <1>6

\* A command to do the next job, with the thread stopped, sends back the first
\* frame to be encoded and all that wait to be reprocessed.
LEMMA IdleFrames ==
  ASSUME FrameTypes, FrameInv, TakeCommand, Head(cmd_queue) = "NEXT", ~ is_active
  PROVE  FrameTypes' /\ FrameInv'
<1> DEFINE first == IF m_inputJpegQ = <<>> \/ "inputJpeg" \notin m_active THEN {}
                    ELSE {Head(m_inputJpegQ)}
           fs == first \cup Elements(m_inputPPQ)
<1>1. /\ m_inputJpegQ' = IF first = {} THEN m_inputJpegQ ELSE Tail(m_inputJpegQ)
      /\ Release(fs) /\ m_inputPPQ' = <<>>
      /\ UNCHANGED <<m_ongoingPPQ, m_ongoingJpegQ, reprocessing, ppHand, data>>
  BY Zenon DEF TakeCommand, Flush
<1>2. m_inputJpegQ \in Seq(Frames) /\ m_inputPPQ \in Seq(Frames)
  BY DEF FrameTypes
<1>3. ASSUME NEW f \in Frames
      PROVE  /\ m_inputJpegQ' \in Seq(Frames) /\ Count(m_inputJpegQ', f) \in Nat
             /\ Count(m_inputJpegQ, f) = Count(m_inputJpegQ', f) + Fl(f \in first)
  <2>1. CASE first = {}
    <3>1. m_inputJpegQ' = m_inputJpegQ /\ Fl(f \in first) = 0
      BY <1>1, <2>1 DEF Fl
    <3>2. Count(m_inputJpegQ, f) \in Nat
      BY <1>2, QueueOps
    <3> HIDE DEF first
    <3> QED BY <1>2, <3>1, <3>2
  <2>2. CASE first # {}
    <3>1. m_inputJpegQ # <<>> /\ m_inputJpegQ' = Tail(m_inputJpegQ) /\ first = {Head(m_inputJpegQ)}
      BY <1>1, <2>2
    <3>2. Fl(f \in first) = Fl(f = Head(m_inputJpegQ))
      BY <3>1 DEF Fl
    <3>3. /\ Tail(m_inputJpegQ) \in Seq(Frames)
          /\ Count(m_inputJpegQ, f) = Count(Tail(m_inputJpegQ), f) + Fl(f = Head(m_inputJpegQ))
      BY <1>2, <3>1, QueueOps
    <3>4. Count(Tail(m_inputJpegQ), f) \in Nat
      BY <3>3, QueueOps
    <3> HIDE DEF first
    <3> QED BY <3>1, <3>2, <3>3, <3>4
  <2> QED BY <2>1, <2>2
<1> HIDE DEF first
<1>4. ASSUME NEW f \in Frames
      PROVE  Places(f) = Places(f)' + Fl(f \in fs) /\ Places(f)' \in Nat
  <2>1. /\ AtOngoing(f)' = AtOngoing(f) /\ AtJob(f)' = AtJob(f) /\ AtHand(f)' = AtHand(f)
        /\ AtAbort(f)' = AtAbort(f)
    BY <1>1 DEF AtOngoing, AtJob, AtHand, AtAbort
  <2>2. /\ AtPP(f) \in {0, 1} /\ AtOngoing(f) \in {0, 1} /\ AtJpeg(f) \in {0, 1}
        /\ AtJob(f) \in {0, 1} /\ AtHand(f) \in {0, 1} /\ AtAbort(f) \in {0, 1}
        /\ Places(f) \in {0, 1}
    BY OnePlace
  <2>3. AtPP(f)' = 0 /\ AtPP(f) = Fl(f \in Elements(m_inputPPQ))
    BY <1>1, FlushedQueues DEF AtPP, Count
  <2>4. AtJpeg(f) = AtJpeg(f)' + Fl(f \in first) /\ AtJpeg(f)' \in Nat
    BY <1>3 DEF AtJpeg, Count
  <2>5. Fl(f \in first) \in {0, 1} /\ Fl(f \in Elements(m_inputPPQ)) \in {0, 1}
    BY FlFacts
  <2>6. Fl(f \in first) = 0 \/ Fl(f \in Elements(m_inputPPQ)) = 0
    BY <2>2, <2>3, <2>4, <2>5 DEF Places
  <2>7. Fl(f \in fs) = Fl(f \in first) + Fl(f \in Elements(m_inputPPQ))
    BY <2>6 DEF Fl
  <2> QED BY <2>1, <2>2, <2>3, <2>4, <2>5, <2>7 DEF Places
<1> HIDE DEF fs
<1>5. /\ FrameInv' /\ Frames' = Frames /\ released' \in Seq(Nat) /\ Len(released') = Len(released)
  BY <1>1, <1>4, GiveBack
<1>6. m_inputJpegQ' \in Seq(Frames)
  <2>1. CASE m_inputJpegQ' = m_inputJpegQ
    BY <1>2, <2>1
  <2>2. CASE m_inputJpegQ # <<>> /\ m_inputJpegQ' = Tail(m_inputJpegQ)
    BY <1>2, <2>2, QueueOps
  <2> QED BY <1>1, <2>1, <2>2 DEF first
<1>7. FrameTypes'
  BY <1>1, <1>5, <1>6 DEF FrameTypes, Job
<1> QED BY <1>5, <1>7
\* The first frame to be encoded becomes a job.
LEMMA NextJpegFrames ==
  ASSUME FrameTypes, FrameInv, NextJpeg
  PROVE  FrameTypes' /\ FrameInv'
<1>1. data.pc = "jpeg" /\ data.frame \in 0 .. Len(released)
  BY DEF NextJpeg, FrameTypes
<1>2. CASE m_inputJpegQ = <<>>
  <2>1. /\ data' = [data EXCEPT !.pc = "reprocess"]
        /\ UNCHANGED <<released, m_inputPPQ, m_ongoingPPQ, m_inputJpegQ, m_ongoingJpegQ,
                       ppHand, reprocessing>>
    BY <1>2 DEF NextJpeg, GoTo
  <2>2. data'.frame \in 0 .. Len(released) /\ data'.pc # "aborting"
    BY <1>1, <2>1 DEF NextJpeg
  <2> QED BY <1>1, <2>1, <2>2, FramesStill
<1>3. CASE m_inputJpegQ # <<>>
  <2> DEFINE h == Head(m_inputJpegQ)
             e == [frame |-> h, job |-> NoJob]
  <2>1. /\ data' = [pc |-> "encode", frame |-> h] /\ m_inputJpegQ' = Tail(m_inputJpegQ)
        /\ m_ongoingJpegQ' = Append(m_ongoingJpegQ, e)
        /\ UNCHANGED <<released, m_inputPPQ, m_ongoingPPQ, ppHand, reprocessing>>
    BY <1>3 DEF NextJpeg
  <2>2. m_inputJpegQ \in Seq(Frames) /\ m_ongoingJpegQ \in Seq(Job)
    BY DEF FrameTypes
  <2>3. h \in Frames /\ Tail(m_inputJpegQ) \in Seq(Frames)
    BY <1>3, <2>2, QueueOps
  <2>4. e \in Job /\ e.frame = h
    BY <2>3 DEF NoJob, Job
  <2>5. data'.frame = h /\ data'.pc # "aborting"
    BY <2>1
  <2> HIDE DEF h, e
  <2>6. Append(m_ongoingJpegQ, e) \in Seq(Job)
    BY <2>2, <2>4, JobOps
  <2>7. FrameTypes' /\ Frames' = Frames
    BY <2>1, <2>3, <2>5, <2>6 DEF FrameTypes, Frames, Job
  <2>8. ASSUME NEW f \in Frames PROVE Places(f)' + released'[f] = Places(f) + released[f]
    <3>1. Count(m_inputJpegQ, f) = Count(Tail(m_inputJpegQ), f) + Fl(f = h)
      BY <1>3, <2>2, QueueOps DEF h
    <3>2. Count(Tail(m_inputJpegQ), f) \in Nat
      BY <2>3, QueueOps
    <3>3. JobCount(Append(m_ongoingJpegQ, e), f) = JobCount(m_ongoingJpegQ, f) + Fl(f = e.frame)
          /\ JobCount(m_ongoingJpegQ, f) \in Nat
      BY <2>2, <2>4, JobOps
    <3>4. /\ AtJpeg(f) = AtJpeg(f)' + Fl(f = h) /\ AtJpeg(f)' \in Nat
          /\ AtJob(f)' = AtJob(f) + Fl(f = h)
      BY <2>1, <2>4, <3>1, <3>2, <3>3 DEF AtJpeg, AtJob, Count, JobCount
    <3>5. /\ AtPP(f)' = AtPP(f) /\ AtOngoing(f)' = AtOngoing(f) /\ AtHand(f)' = AtHand(f)
          /\ AtAbort(f)' = AtAbort(f) /\ released'[f] = released[f]
      BY <1>1, <2>1, <2>5 DEF AtPP, AtOngoing, AtHand, AtAbort, Fl
    <3>6. /\ AtPP(f) \in {0, 1} /\ AtOngoing(f) \in {0, 1} /\ AtJpeg(f) \in {0, 1}
          /\ AtJob(f) \in {0, 1} /\ AtHand(f) \in {0, 1} /\ AtAbort(f) \in {0, 1}
          /\ released[f] \in {0, 1}
      BY <2>8, OnePlace
    <3>7. Fl(f = h) \in {0, 1}
      BY FlFacts
    <3> QED BY <3>4, <3>5, <3>6, <3>7 DEF Places
  <2> QED BY <2>7, <2>8, SumKept
<1> QED BY <1>2, <1>3

\* The job's number does not move its frame.
LEMMA NumberJobFrames ==
  ASSUME FrameTypes, FrameInv, EncodeInv, NumberJob, Len(answers) \in Nat
  PROVE  FrameTypes' /\ FrameInv'
<1>1. /\ m_ongoingJpegQ # <<>> /\ data.pc = "number"
      /\ m_ongoingJpegQ' = Numbered(m_ongoingJpegQ, Len(answers))
      /\ data'.pc = "reprocess" /\ data'.frame = 0
      /\ UNCHANGED <<released, m_inputPPQ, m_ongoingPPQ, m_inputJpegQ, ppHand, reprocessing>>
  BY DEF NumberJob, EncodeInv, ppQueues, NoFrame
<1>2. m_ongoingJpegQ \in Seq(Job) /\ Len(released) \in Nat
  BY DEF FrameTypes
<1> DEFINE n == Len(answers)
<1>3. n \in Nat /\ m_ongoingJpegQ' = Numbered(m_ongoingJpegQ, n)
  BY <1>1
<1> HIDE DEF n
<1>4. ASSUME NEW f PROVE JobCount(m_ongoingJpegQ', f) = JobCount(m_ongoingJpegQ, f)
  BY <1>1, <1>2, <1>3, JobOps
<1>5. FrameTypes' /\ Frames' = Frames
  <2>1. m_ongoingJpegQ' \in Seq(Job)
    BY <1>1, <1>2, <1>3, JobOps
  <2> QED BY <1>1, <1>2, <2>1 DEF FrameTypes, Frames, Job
<1>6. ASSUME NEW f \in Frames PROVE Places(f)' + released'[f] = Places(f) + released[f]
  BY <1>1, <1>4 DEF Places, AtPP, AtOngoing, AtJpeg, AtJob, AtHand, AtAbort, JobCount, Fl
<1> QED BY <1>5, <1>6, SumKept

\* A job that cannot be encoded is the last one; its frame goes back.
LEMMA EncodeFailsFrames ==
  ASSUME FrameTypes, FrameInv, EncodeInv, EncodeDataFails
  PROVE  FrameTypes' /\ FrameInv'
<1> DEFINE l == m_ongoingJpegQ[Len(m_ongoingJpegQ)]
<1>1. /\ m_ongoingJpegQ # <<>> /\ l.frame = data.frame /\ data.pc = "encode"
      /\ m_ongoingJpegQ' = Forget(m_ongoingJpegQ) /\ Release({data.frame})
      /\ data'.pc = "reprocess" /\ data'.frame = 0
      /\ UNCHANGED <<m_inputPPQ, m_ongoingPPQ, m_inputJpegQ, ppHand, reprocessing>>
  BY DEF EncodeDataFails, EncodeInv, ppQueues, NoFrame
<1> HIDE DEF l
<1>2. m_ongoingJpegQ \in Seq(Job) /\ Len(released) \in Nat
  BY DEF FrameTypes
<1>3. /\ Forget(m_ongoingJpegQ) \in Seq(Job)
      /\ \A f : JobCount(m_ongoingJpegQ, f)
                   = JobCount(Forget(m_ongoingJpegQ), f) + Fl(f = data.frame)
  <2>1. ASSUME NEW f
        PROVE  /\ Forget(m_ongoingJpegQ) \in Seq(Job)
               /\ JobCount(m_ongoingJpegQ, f) = JobCount(Forget(m_ongoingJpegQ), f) + Fl(f = l.frame)
    <3>1. /\ Forget(m_ongoingJpegQ) \in Seq(Job)
          /\ JobCount(m_ongoingJpegQ, f)
                = JobCount(Forget(m_ongoingJpegQ), f)
                  + Fl(f = m_ongoingJpegQ[Len(m_ongoingJpegQ)].frame)
      <4>1. m_ongoingJpegQ # <<>>
        BY <1>1
      <4> QED BY <4>1, <1>2, JobOps
    <3> QED BY <3>1 DEF l
  <2> QED BY <1>1, <2>1
<1>4. ASSUME NEW f \in Frames
      PROVE  Places(f) = Places(f)' + Fl(f \in {data.frame}) /\ Places(f)' \in Nat
  <2>1. Fl(f \in {data.frame}) = Fl(f = data.frame) /\ Fl(f = data.frame) \in {0, 1}
    BY DEF Fl
  <2>2. JobCount(Forget(m_ongoingJpegQ), f) \in Nat
    BY <1>3, JobOps
  <2>3. AtJob(f) = AtJob(f)' + Fl(f = data.frame) /\ AtJob(f)' \in Nat
    BY <1>1, <1>3, <2>2 DEF AtJob, JobCount
  <2>4. /\ AtPP(f)' = AtPP(f) /\ AtOngoing(f)' = AtOngoing(f) /\ AtHand(f)' = AtHand(f)
        /\ AtAbort(f)' = AtAbort(f) /\ AtJpeg(f)' = AtJpeg(f)
    BY <1>1 DEF AtPP, AtOngoing, AtHand, AtAbort, AtJpeg, Fl
  <2>5. /\ AtPP(f) \in {0, 1} /\ AtOngoing(f) \in {0, 1} /\ AtJpeg(f) \in {0, 1}
        /\ AtHand(f) \in {0, 1} /\ AtAbort(f) \in {0, 1}
    BY <1>4, OnePlace
  <2> QED BY <2>1, <2>3, <2>4, <2>5 DEF Places
<1>5. /\ FrameInv' /\ Frames' = Frames /\ released' \in Seq(Nat) /\ Len(released') = Len(released)
  BY <1>1, <1>4, GiveBack
<1>6. FrameTypes'
  BY <1>1, <1>2, <1>3, <1>5 DEF FrameTypes, Job
<1> QED BY <1>5, <1>6

\* The first frame to be reprocessed goes on, stays, or goes back.
LEMMA ReprocessFrames ==
  ASSUME ScalarTypes, FrameTypes, FrameInv, DoReprocess
  PROVE  FrameTypes' /\ FrameInv'
<1> DEFINE h == Head(m_inputPPQ)
<1>1. /\ data.pc = "reprocess" /\ data' = [data EXCEPT !.pc = "wait"]
      /\ UNCHANGED <<m_inputJpegQ, m_ongoingJpegQ, ppHand>>
  BY DEF DoReprocess, GoTo
<1>2. data'.frame \in 0 .. Len(released) /\ data'.pc # "aborting" /\ data.pc # "aborting"
  <2>1. data'.frame = data.frame /\ data'.pc = "wait"
    BY <1>1 DEF ScalarTypes
  <2> QED BY <1>1, <2>1 DEF FrameTypes
<1>3. CASE UNCHANGED <<m_inputPPQ, m_ongoingPPQ, reprocessing, released>>
  BY <1>1, <1>2, <1>3, FramesStill
<1>4. CASE m_inputPPQ # <<>> /\ m_inputPPQ' = Tail(m_inputPPQ)
  <2>1. m_inputPPQ \in Seq(Frames) /\ m_ongoingPPQ \in Seq(Frames)
    BY DEF FrameTypes
  <2>2. h \in Frames /\ m_inputPPQ' \in Seq(Frames)
    BY <1>4, <2>1, QueueOps
  <2>3. ASSUME NEW f \in Frames
        PROVE  /\ AtPP(f) = AtPP(f)' + Fl(f = h) /\ AtPP(f)' \in Nat /\ Fl(f = h) \in {0, 1}
               /\ AtHand(f)' = AtHand(f) /\ AtAbort(f)' = AtAbort(f) /\ AtJpeg(f)' = AtJpeg(f)
               /\ AtJob(f)' = AtJob(f)
               /\ AtOngoing(f) \in {0, 1} /\ AtJpeg(f) \in {0, 1} /\ AtJob(f) \in {0, 1}
               /\ AtHand(f) \in {0, 1} /\ AtAbort(f) \in {0, 1} /\ released[f] \in {0, 1}
    <3>1. Count(m_inputPPQ, f) = Count(Tail(m_inputPPQ), f) + Fl(f = Head(m_inputPPQ))
      BY <1>4, <2>1, QueueOps
    <3>2. Count(m_inputPPQ', f) \in Nat
      BY <2>2, QueueOps
    <3>3. AtPP(f) = AtPP(f)' + Fl(f = h) /\ AtPP(f)' \in Nat
      BY <1>4, <3>1, <3>2 DEF AtPP, Count
    <3>4. Fl(f = h) \in {0, 1}
      BY FlFacts
    <3>5. /\ AtHand(f)' = AtHand(f) /\ AtAbort(f)' = AtAbort(f) /\ AtJpeg(f)' = AtJpeg(f)
          /\ AtJob(f)' = AtJob(f)
      BY <1>1, <1>2 DEF AtHand, AtAbort, AtJpeg, AtJob, Fl
    <3> QED BY <2>3, <3>3, <3>4, <3>5, OnePlace
  <2> HIDE DEF h
  <2>4. CASE /\ m_ongoingPPQ' = Append(m_ongoingPPQ, h)
             /\ reprocessing' = reprocessing \cup {h} /\ released' = released
    <3>1. m_ongoingPPQ' \in Seq(Frames)
      BY <2>1, <2>2, <2>4, QueueOps
    <3>2. FrameTypes' /\ Frames' = Frames
      BY <1>1, <1>2, <2>2, <2>4, <3>1 DEF FrameTypes, Frames, Job
    <3>3. ASSUME NEW f \in Frames PROVE Places(f)' + released'[f] = Places(f) + released[f]
      <4>1. Count(Append(m_ongoingPPQ, h), f) = Count(m_ongoingPPQ, f) + Fl(f = h)
        BY <2>1, <2>2, QueueOps
      <4>2. AtOngoing(f)' = AtOngoing(f) + Fl(f = h)
        BY <2>4, <4>1 DEF AtOngoing, Count
      <4> QED BY <2>3, <2>4, <3>3, <4>2 DEF Places
    <3> QED BY <3>2, <3>3, SumKept
  <2>5. CASE Release({h}) /\ UNCHANGED <<m_ongoingPPQ, reprocessing>>
    <3>1. ASSUME NEW f \in Frames
          PROVE  Places(f) = Places(f)' + Fl(f \in {h}) /\ Places(f)' \in Nat
      <4>1. Fl(f \in {h}) = Fl(f = h) /\ AtOngoing(f)' = AtOngoing(f)
        BY <2>5 DEF Fl, AtOngoing
      <4> QED BY <2>3, <3>1, <4>1 DEF Places
    <3>2. /\ FrameInv' /\ Frames' = Frames /\ released' \in Seq(Nat)
          /\ Len(released') = Len(released)
      BY <2>5, <3>1, GiveBack
    <3>3. FrameTypes'
      BY <1>1, <1>2, <2>2, <2>5, <3>2 DEF FrameTypes, Job
    <3> QED BY <3>2, <3>3
  <2> QED BY <1>4, <2>4, <2>5 DEF DoReprocess, h
<1> QED BY <1>3, <1>4 DEF DoReprocess
\* The stop takes a job off its queue to abort it ...
LEMMA AbortFrames ==
  ASSUME FrameTypes, FrameInv, StopAborts
  PROVE  FrameTypes' /\ FrameInv'
<1> DEFINE h == Head(m_ongoingJpegQ)
<1>1. /\ m_ongoingJpegQ # <<>> /\ data.pc = "abort" /\ data'.pc = "aborting"
      /\ data'.frame = h.frame /\ m_ongoingJpegQ' = Tail(m_ongoingJpegQ)
      /\ UNCHANGED <<released, m_inputPPQ, m_ongoingPPQ, m_inputJpegQ, ppHand, reprocessing>>
  BY DEF StopAborts, ppQueues
<1>2. m_ongoingJpegQ \in Seq(Job) /\ Len(released) \in Nat
  BY DEF FrameTypes
<1>3. h \in Job /\ m_ongoingJpegQ' \in Seq(Job)
  BY <1>1, <1>2, JobOps
<1>4. h.frame \in Frames /\ data'.frame \in 0 .. Len(released)
  BY <1>1, <1>2, <1>3 DEF Job, Frames
<1>5. FrameTypes' /\ Frames' = Frames
  BY <1>1, <1>3, <1>4 DEF FrameTypes, Frames, Job
<1>6. ASSUME NEW f \in Frames PROVE Places(f)' + released'[f] = Places(f) + released[f]
  <2>1. JobCount(m_ongoingJpegQ, f) = JobCount(m_ongoingJpegQ', f) + Fl(f = h.frame)
    BY <1>1, <1>2, JobOps
  <2>2. JobCount(m_ongoingJpegQ', f) \in Nat
    BY <1>3, JobOps
  <2> HIDE DEF h
  <2>3. /\ AtJob(f) = AtJob(f)' + Fl(f = h.frame) /\ AtJob(f)' \in Nat
        /\ AtAbort(f) = 0 /\ AtAbort(f)' = Fl(f = h.frame)
    BY <1>1, <2>1, <2>2 DEF AtJob, JobCount, AtAbort, Fl
  <2>4. Fl(f = h.frame) \in {0, 1}
    BY FlFacts
  <2>5. /\ AtPP(f)' = AtPP(f) /\ AtOngoing(f)' = AtOngoing(f) /\ AtHand(f)' = AtHand(f)
        /\ AtJpeg(f)' = AtJpeg(f) /\ released'[f] = released[f]
    BY <1>1 DEF AtPP, AtOngoing, AtHand, AtJpeg
  <2>6. /\ AtPP(f) \in {0, 1} /\ AtOngoing(f) \in {0, 1} /\ AtJpeg(f) \in {0, 1}
        /\ AtHand(f) \in {0, 1} /\ released[f] \in {0, 1}
    BY <1>6, OnePlace
  <2> QED BY <2>3, <2>4, <2>5, <2>6 DEF Places
<1> QED BY <1>5, <1>6, SumKept

\* ... gives its frame back when the abort has returned ...
LEMMA AbortedFrames ==
  ASSUME FrameTypes, FrameInv, StopReleases
  PROVE  FrameTypes' /\ FrameInv'
<1>1. /\ data.pc = "aborting" /\ data'.pc = "abort" /\ data'.frame = 0 /\ Release({data.frame})
      /\ UNCHANGED <<m_inputPPQ, m_ongoingPPQ, m_inputJpegQ, m_ongoingJpegQ, ppHand, reprocessing>>
  BY DEF StopReleases, ppQueues, NoFrame
<1>2. ASSUME NEW f \in Frames
      PROVE  Places(f) = Places(f)' + Fl(f \in {data.frame}) /\ Places(f)' \in Nat
  <2>1. /\ AtPP(f)' = AtPP(f) /\ AtOngoing(f)' = AtOngoing(f) /\ AtHand(f)' = AtHand(f)
        /\ AtJpeg(f)' = AtJpeg(f) /\ AtJob(f)' = AtJob(f)
    BY <1>1 DEF AtPP, AtOngoing, AtHand, AtJpeg, AtJob
  <2>2. AtAbort(f) = Fl(f \in {data.frame}) /\ AtAbort(f)' = 0
    BY <1>1 DEF AtAbort, Fl
  <2>3. /\ AtPP(f) \in {0, 1} /\ AtOngoing(f) \in {0, 1} /\ AtJpeg(f) \in {0, 1}
        /\ AtHand(f) \in {0, 1} /\ AtAbort(f) \in {0, 1} /\ AtJob(f) \in {0, 1}
    BY <1>2, OnePlace
  <2> QED BY <2>1, <2>2, <2>3 DEF Places
<1>3. /\ FrameInv' /\ Frames' = Frames /\ released' \in Seq(Nat) /\ Len(released') = Len(released)
  BY <1>1, <1>2, GiveBack
<1>4. FrameTypes'
  BY <1>1, <1>3 DEF FrameTypes, Job
<1> QED BY <1>3, <1>4

\* ... and flushes the queues.
LEMMA FlushFrames ==
  ASSUME ScalarTypes, FrameTypes, FrameInv,
         StopFlushesOngoing \/ StopFlushesInput \/ StopFlushesPP
  PROVE  FrameTypes' /\ FrameInv'
<1>1. PICK fs : Release(fs)
        /\ \/ /\ fs = Elements(m_ongoingPPQ) /\ m_ongoingPPQ' = <<>>
              /\ UNCHANGED <<m_inputPPQ, m_inputJpegQ>>
           \/ /\ fs = Elements(m_inputJpegQ) /\ m_inputJpegQ' = <<>>
              /\ UNCHANGED <<m_inputPPQ, m_ongoingPPQ>>
           \/ /\ fs = Elements(m_inputPPQ) /\ m_inputPPQ' = <<>>
              /\ UNCHANGED <<m_inputJpegQ, m_ongoingPPQ>>
  <2>1. ASSUME StopFlushesOngoing
        PROVE  /\ Release(Elements(m_ongoingPPQ)) /\ m_ongoingPPQ' = <<>>
               /\ UNCHANGED <<m_inputPPQ, m_inputJpegQ>>
    BY <2>1 DEF StopFlushesOngoing, Flush
  <2>2. ASSUME StopFlushesInput
        PROVE  /\ Release(Elements(m_inputJpegQ)) /\ m_inputJpegQ' = <<>>
               /\ UNCHANGED <<m_inputPPQ, m_ongoingPPQ>>
    BY <2>2 DEF StopFlushesInput
  <2>3. ASSUME StopFlushesPP
        PROVE  /\ Release(Elements(m_inputPPQ)) /\ m_inputPPQ' = <<>>
               /\ UNCHANGED <<m_inputJpegQ, m_ongoingPPQ>>
    BY <2>3 DEF StopFlushesPP, Flush
  <2> QED BY <2>1, <2>2, <2>3
<1>2. /\ data.pc # "aborting" /\ data'.pc # "aborting" /\ data'.frame = data.frame
      /\ UNCHANGED <<m_ongoingJpegQ, ppHand, reprocessing>>
  BY DEF StopFlushesOngoing, StopFlushesInput, StopFlushesPP, GoTo, ScalarTypes
<1>3. ASSUME NEW f \in Frames
      PROVE  Places(f) = Places(f)' + Fl(f \in fs) /\ Places(f)' \in Nat
  <2>1. /\ AtHand(f)' = AtHand(f) /\ AtJob(f)' = AtJob(f) /\ AtAbort(f)' = AtAbort(f)
    BY <1>2 DEF AtHand, AtJob, AtAbort, Fl
  <2>2. /\ AtPP(f) \in {0, 1} /\ AtOngoing(f) \in {0, 1} /\ AtJpeg(f) \in {0, 1}
        /\ AtHand(f) \in {0, 1} /\ AtAbort(f) \in {0, 1} /\ AtJob(f) \in {0, 1}
    BY <1>3, OnePlace
  <2>3. \/ AtOngoing(f) = Fl(f \in fs) /\ AtOngoing(f)' = 0 /\ AtPP(f)' = AtPP(f)
           /\ AtJpeg(f)' = AtJpeg(f)
        \/ AtJpeg(f) = Fl(f \in fs) /\ AtJpeg(f)' = 0 /\ AtPP(f)' = AtPP(f)
           /\ AtOngoing(f)' = AtOngoing(f)
        \/ AtPP(f) = Fl(f \in fs) /\ AtPP(f)' = 0 /\ AtJpeg(f)' = AtJpeg(f)
           /\ AtOngoing(f)' = AtOngoing(f)
    BY <1>1, FlushedQueues DEF AtPP, AtOngoing, AtJpeg, Count
  <2> QED BY <2>1, <2>2, <2>3 DEF Places
<1>4. /\ FrameInv' /\ Frames' = Frames /\ released' \in Seq(Nat) /\ Len(released') = Len(released)
  BY <1>1, <1>3, GiveBack
<1>5. /\ m_inputPPQ' \in Seq(Frames) /\ m_ongoingPPQ' \in Seq(Frames)
      /\ m_inputJpegQ' \in Seq(Frames)
  <2>1. <<>> \in Seq(Frames)
    OBVIOUS
  <2>2. m_inputPPQ \in Seq(Frames) /\ m_ongoingPPQ \in Seq(Frames) /\ m_inputJpegQ \in Seq(Frames)
    BY DEF FrameTypes
  <2> QED BY <1>1, <2>1, <2>2, Zenon
<1>6. FrameTypes'
  BY <1>2, <1>4, <1>5 DEF FrameTypes, Job
<1> QED BY <1>4, <1>6

\* Every step keeps each frame in one place, or sends it back once.
LEMMA FramesKept ==
  ASSUME ScalarTypes, FrameTypes, FrameInv, EncodeInv, Len(answers) \in Nat, [Next]_vars
  PROVE  FrameTypes' /\ FrameInv'
<1> DEFINE still == UNCHANGED <<released, m_inputPPQ, m_ongoingPPQ, m_inputJpegQ,
                                m_ongoingJpegQ, ppHand>>
<1>1. data.frame \in 0 .. Len(released)
  BY DEF FrameTypes
<1>2. ASSUME still, reprocessing' \subseteq reprocessing, data' = data
      PROVE  FrameTypes' /\ FrameInv'
  BY <1>1, <1>2, FramesStill, Zenon
<1>3. ASSUME still, reprocessing' = reprocessing, NEW pc, GoTo(pc), pc # "aborting",
             data.pc # "aborting"
      PROVE  FrameTypes' /\ FrameInv'
  <2>1. data'.pc # "aborting" /\ data'.frame = data.frame
    BY <1>3 DEF GoTo, ScalarTypes
  <2> QED BY <1>1, <1>3, <2>1, FramesStill, Zenon
<1>4. CASE TakePicture
  BY <1>2, <1>4 DEF TakePicture, worker, ppQueues
<1>5. CASE Start
  BY <1>2, <1>5 DEF Start, worker, ppQueues
<1>6. CASE Started
  BY <1>2, <1>6 DEF Started, worker, ppQueues
<1>7. CASE CreateJpegSession
  BY <1>2, <1>7 DEF CreateJpegSession, ppQueues
<1>8. CASE CancelPicture
  BY <1>2, <1>8 DEF CancelPicture, worker, ppQueues
<1>9. CASE Stopped
  BY <1>2, <1>9 DEF Stopped, worker, ppQueues
<1>10. CASE ProcessJpegEvt
  BY <1>10, EventFrames
<1>11. CASE ProcessData
  BY <1>11, DataFrames
<1>12. CASE ProcessPPData
  BY <1>12, PPDataFrames
<1>13. CASE PPDataToJpeg
  BY <1>13, HandFrames
<1>14. CASE TakeCommand
  <2>1. CASE Head(cmd_queue) = "NEXT" /\ ~ is_active
    BY <1>14, <2>1, IdleFrames
  <2>2. CASE ~ (Head(cmd_queue) = "NEXT" /\ ~ is_active)
    <3>1. /\ still /\ reprocessing' = reprocessing /\ data.pc = "wait"
          /\ data' = data \/ GoTo("abort") \/ GoTo("jpeg")
      BY <1>14, <2>2, Zenon DEF TakeCommand, ppQueues
    <3>2. CASE data' = data
      BY <1>2, <3>1, <3>2
    <3>3. CASE GoTo("abort")
      BY <1>3, <3>1, <3>3
    <3>4. CASE GoTo("jpeg")
      BY <1>3, <3>1, <3>4
    <3> QED BY <3>1, <3>2, <3>3, <3>4
  <2> QED BY <2>1, <2>2
<1>15. CASE NextJpeg
  BY <1>15, NextJpegFrames
<1>16. CASE EncodeNewSession
  BY <1>2, <1>16 DEF EncodeNewSession, ppQueues
<1>17. CASE EncodeData
  <2>1. still /\ reprocessing' = reprocessing /\ GoTo("number") /\ data.pc # "aborting"
    BY <1>17 DEF EncodeData, ppQueues
  <2> QED BY <1>3, <2>1
<1>18. CASE NumberJob
  BY <1>18, NumberJobFrames
<1>19. CASE EncodeDataFails
  BY <1>19, EncodeFailsFrames
<1>20. CASE DoReprocess
  BY <1>20, ReprocessFrames
<1>21. CASE StopAborts
  BY <1>21, AbortFrames
<1>22. CASE StopReleases
  BY <1>22, AbortedFrames
<1>23. CASE StopDestroys
  <2>1. still /\ reprocessing' = reprocessing /\ GoTo("destroying") /\ data.pc # "aborting"
    BY <1>23 DEF StopDestroys, ppQueues
  <2> QED BY <1>3, <2>1
<1>24. CASE StopDestroyed
  <2>1. still /\ reprocessing' = reprocessing /\ GoTo("flushPP") /\ data.pc # "aborting"
    BY <1>24 DEF StopDestroyed, ppQueues
  <2> QED BY <1>3, <2>1
<1>25. CASE StopFlushesOngoing \/ StopFlushesInput \/ StopFlushesPP
  BY <1>25, FlushFrames
<1>26. CASE StopEnds
  <2>1. still /\ reprocessing' = reprocessing /\ GoTo("wait") /\ data.pc # "aborting"
    BY <1>26 DEF StopEnds, ppQueues
  <2> QED BY <1>3, <2>1
<1>27. CASE JpegSteps
  BY <1>2, <1>27 DEF JpegSteps, ppVars, worker, ppQueues
<1>28. CASE UNCHANGED vars
  BY <1>2, <1>28 DEF vars, ppVars, worker, ppQueues
<1> QED BY <1>4, <1>5, <1>6, <1>7, <1>8, <1>9, <1>10, <1>11, <1>12, <1>13, <1>14, <1>15, <1>16,
           <1>17, <1>18, <1>19, <1>20, <1>21, <1>22, <1>23, <1>24, <1>25, <1>26, <1>27, <1>28,
           Zenon DEF Next, DataThread-----------------------------------------------------------------------------
(* The job manager below, the jobs' numbers, and the job being encoded.        *)

\* Every step of the post-processor keeps the job manager's invariant and types.
LEMMA JpegKept ==
  ASSUME JpegInv, JpegTypeOK, [Next]_vars
  PROVE  /\ JpegInv' /\ JpegTypeOK'
         /\ Len(answers) \in Nat /\ Len(answers') \in Nat /\ Len(answers) <= Len(answers')
<1>1. Len(answers) \in Nat
  BY DEF JpegTypeOK
<1>2. ASSUME UNCHANGED <<active, queues, job_sem, job_lock, mgr, api, session, woken, lock,
                         device, answers, quiet>>,
             events' = events \/ (events' = Tail(events) /\ events # <<>>)
      PROVE  JpegInv' /\ JpegTypeOK' /\ answers' = answers
  <2>1. JpegInv'
    BY <1>2, JpegInvApart, Zenon
  <2>2. events' \in Seq([job : Jobs, status : {"DONE", "ERROR"}])
    <3> DEFINE E == [job : Jobs, status : {"DONE", "ERROR"}]
    <3>1. events \in Seq(E)
      BY DEF JpegTypeOK
    <3> HIDE DEF E
    <3>2. events' \in Seq(E)
      BY <1>2, <3>1
    <3> QED BY <3>2 DEF E
  <2>3. /\ Jobs' = Jobs /\ answers' = answers
        /\ UNCHANGED <<active, job_queue, ongoing_job_q, job_sem, job_lock, mgr, api,
                       session_handle_q, abort_state, encoding, jobId, config, error_flag,
                       state_change_pending, woken, lock, codec, commands, cb, quiet>>
    BY <1>2 DEF Jobs, queues, session, device
  <2>4. JpegTypeOK'
    <3>1. JpegRest /\ JpegHistory
      BY JpegTypesOf
    <3>2. JpegRest'
      BY <2>3, <3>1 DEF JpegRest
    <3>3. JpegHistory'
      BY <2>2, <2>3, <3>1, Zenon DEF JpegHistory
    <3>4. (JpegTypeOK <=> JpegRest /\ JpegHistory)'
      BY <2>1, JpegTypesOf, PTL
    <3> QED BY <3>2, <3>3, <3>4
  <2> QED BY <1>2, <2>1, <2>4
<1>3. CASE JpegStep
  BY <1>3, JpegInvKept, JpegTypesKept, JobsGrow
<1>4. CASE ~ JpegStep
  <2>1. UNCHANGED jpegVars \/ ProcessJpegEvt
    <3>1. CASE \/ TakePicture \/ Start \/ Started \/ CancelPicture \/ Stopped
               \/ ProcessData \/ ProcessPPData \/ PPDataToJpeg \/ UNCHANGED vars
      BY <3>1, Zenon DEF TakePicture, Start, Started, CancelPicture, Stopped,
         ProcessData, ProcessPPData, PPDataToJpeg, vars
    <3>2. CASE CreateJpegSession
      BY <1>4, <3>2, Zenon DEF CreateJpegSession, JpegStep
    <3>3. CASE ProcessJpegEvt
      BY <3>3
    <3>4. CASE DataThread
      BY <1>4, <3>4, Zenon DEF DataThread, TakeCommand, NextJpeg, EncodeNewSession, EncodeData,
         NumberJob, EncodeDataFails, DoReprocess, StopAborts, StopReleases, StopDestroys,
         StopDestroyed, StopFlushesOngoing, StopFlushesInput, StopFlushesPP, StopEnds,
         JpegStep
    <3>5. CASE JpegSteps
      BY <1>4, <3>5, Zenon DEF JpegSteps, JpegStep
    <3> QED BY <3>1, <3>2, <3>3, <3>4, <3>5, Zenon DEF Next
  <2>2. /\ UNCHANGED <<active, queues, job_sem, job_lock, mgr, api, session, woken, lock,
                       device, answers, quiet>>
        /\ events' = events \/ (events' = Tail(events) /\ events # <<>>)
    <3>1. CASE UNCHANGED jpegVars
      <4>1. /\ UNCHANGED <<active, queues, job_sem, job_lock, mgr, api, session>>
            /\ UNCHANGED <<woken, lock, device, history>>
        BY <3>1, Zenon DEF jpegVars
      <4>2. UNCHANGED <<answers, events, quiet>>
        BY <4>1, Zenon DEF history
      <4> QED BY <4>1, <4>2, Zenon
    <3>2. CASE ProcessJpegEvt
      BY <3>2, Zenon DEF ProcessJpegEvt
    <3> QED BY <2>1, <3>1, <3>2
  <2>3. JpegInv' /\ JpegTypeOK' /\ answers' = answers
    BY <1>2, <2>2, Zenon
  <2> QED BY <1>1, <2>3
<1> QED BY <1>3, <1>4

\* The operations on the ongoing jobs keep their numbers in bounds.
LEMMA UptoOps ==
  ASSUME NEW n \in Nat, NEW m \in Nat, n <= m, NEW q \in Seq(Upto(n))
  PROVE  /\ q \in Seq(Upto(m))
         /\ q # <<>> => /\ Tail(q) \in Seq(Upto(m)) /\ Forget(q) \in Seq(Upto(m))
                        /\ Numbered(q, n) \in Seq(Upto(m))
         /\ \A f \in Nat : Append(q, [frame |-> f, job |-> NoJob]) \in Seq(Upto(m))
         /\ \A K \in SUBSET (1 .. Len(q)) : Pick(q, K) \in Seq(Upto(m))
<1> DEFINE U == Upto(m)
<1>1. Upto(n) \subseteq U /\ \A f \in Nat : [frame |-> f, job |-> NoJob] \in U
  BY DEF Upto, NoJob
<1>2. \A e \in U : [e EXCEPT !.job = n] \in U
  BY DEF Upto
<1> HIDE DEF U
<1>3. q \in Seq(U)
  BY <1>1
<1>4. ASSUME q # <<>> PROVE Tail(q) \in Seq(U) /\ Forget(q) \in Seq(U) /\ Numbered(q, n) \in Seq(U)
  <2>1. Tail(q) \in Seq(U)
    BY <1>3, <1>4
  <2>2. Forget(q) \in Seq(U)
    BY <1>3, <1>4, FrontTally DEF Forget
  <2>3. Len(q) \in 1 .. Len(q)
    BY <1>3, <1>4
  <2> DEFINE i == Len(q)
             e == [q[i] EXCEPT !.job = n]
  <2>4. i \in 1 .. Len(q) /\ e \in U /\ Numbered(q, n) = [q EXCEPT ![i] = e]
    BY <1>2, <1>3, <2>3 DEF Numbered
  <2> HIDE DEF i, e
  <2>5. Numbered(q, n) \in Seq(U)
    BY <1>3, <2>4
  <2> QED BY <2>1, <2>2, <2>5
<1>5. \A f \in Nat : Append(q, [frame |-> f, job |-> NoJob]) \in Seq(U)
  BY <1>1, <1>3
<1>6. \A K \in SUBSET (1 .. Len(q)) : Pick(q, K) \in Seq(U)
  BY <1>3, PickFacts
<1> QED BY <1>3, <1>4, <1>5, <1>6 DEF U

\* A job has the number of a job that was started, or none.
LEMMA JobBoundKept ==
  ASSUME JpegInv, JpegTypeOK, FrameTypes, JobBound, EncodeInv, [Next]_vars
  PROVE  JobBound'
<1> DEFINE n == Len(answers)
           m == Len(answers')
<1>1. n \in Nat /\ m \in Nat /\ n <= m
  BY JpegKept
<1>2. m_ongoingJpegQ \in Seq(Upto(n))
  BY DEF JobBound
<1>3. SUFFICES m_ongoingJpegQ' \in Seq(Upto(m))
  BY DEF JobBound
<1>4. NumberJob => m_ongoingJpegQ' = Numbered(m_ongoingJpegQ, n)
  BY DEF NumberJob
<1> HIDE DEF n, m
<1>5. m_ongoingJpegQ' = m_ongoingJpegQ => m_ongoingJpegQ' \in Seq(Upto(m))
  BY <1>1, <1>2, UptoOps
<1>6. CASE ProcessJpegEvt
  <2> DEFINE all  == 1 .. Len(m_ongoingJpegQ)
             done == { i \in all : m_ongoingJpegQ[i].job = Head(events).job }
             K    == all \ done
  <2>1. K \in SUBSET (1 .. Len(m_ongoingJpegQ))
    OBVIOUS
  <2>2. m_ongoingJpegQ' = m_ongoingJpegQ \/ m_ongoingJpegQ' = Pick(m_ongoingJpegQ, K)
    BY <1>6, Zenon DEF ProcessJpegEvt
  <2> HIDE DEF K
  <2>3. Pick(m_ongoingJpegQ, K) \in Seq(Upto(m))
    BY <1>1, <1>2, <2>1, UptoOps
  <2> QED BY <1>5, <2>2, <2>3
<1>7. CASE NextJpeg
  <2>1. CASE m_inputJpegQ = <<>>
    BY <1>5, <1>7, <2>1 DEF NextJpeg
  <2>2. CASE m_inputJpegQ # <<>>
    <3> DEFINE h == Head(m_inputJpegQ)
    <3>1. m_ongoingJpegQ' = Append(m_ongoingJpegQ, [frame |-> h, job |-> NoJob])
      BY <1>7, <2>2 DEF NextJpeg
    <3>2. h \in Frames
      BY <2>2 DEF FrameTypes
    <3>3. h \in Nat
      BY <3>2 DEF Frames, FrameTypes
    <3> HIDE DEF h
    <3> QED BY <1>1, <1>2, <3>1, <3>3, UptoOps
  <2> QED BY <2>1, <2>2
<1>8. CASE NumberJob
  <2>1. m_ongoingJpegQ # <<>>
    BY <1>8 DEF NumberJob, EncodeInv
  <2> QED BY <1>1, <1>2, <1>4, <1>8, <2>1, UptoOps
<1>9. CASE EncodeDataFails
  <2>1. m_ongoingJpegQ # <<>> /\ m_ongoingJpegQ' = Forget(m_ongoingJpegQ)
    BY <1>9 DEF EncodeDataFails, EncodeInv
  <2> QED BY <1>1, <1>2, <2>1, UptoOps
<1>10. CASE StopAborts
  <2>1. m_ongoingJpegQ # <<>> /\ m_ongoingJpegQ' = Tail(m_ongoingJpegQ)
    BY <1>10 DEF StopAborts
  <2> QED BY <1>1, <1>2, <2>1, UptoOps
<1>11. CASE ~ (ProcessJpegEvt \/ NextJpeg \/ NumberJob \/ EncodeDataFails \/ StopAborts)
  <2>1. CASE \/ TakePicture \/ Start \/ Started \/ CreateJpegSession \/ CancelPicture \/ Stopped
             \/ ProcessData \/ ProcessPPData \/ PPDataToJpeg \/ JpegSteps \/ UNCHANGED vars
    BY <1>5, <2>1, Zenon DEF TakePicture, Start, Started, CreateJpegSession, CancelPicture,
       Stopped, ProcessData, ProcessPPData, PPDataToJpeg, JpegSteps, vars, ppVars
  <2>2. CASE \/ TakeCommand \/ EncodeNewSession \/ EncodeData \/ DoReprocess \/ StopReleases
             \/ StopDestroys \/ StopDestroyed \/ StopFlushesOngoing \/ StopFlushesInput
             \/ StopFlushesPP \/ StopEnds
    BY <1>5, <2>2, Zenon DEF TakeCommand, EncodeNewSession, EncodeData, DoReprocess,
       StopReleases, StopDestroys, StopDestroyed, StopFlushesOngoing, StopFlushesInput,
       StopFlushesPP, StopEnds
  <2> QED BY <1>11, <2>1, <2>2, Zenon DEF Next, DataThread
<1> QED BY <1>6, <1>7, <1>8, <1>9, <1>10, <1>11

\* The job being encoded stays the last one, without a number, though the
\* answers for other jobs take them out meanwhile.
LEMMA EncodeKept ==
  ASSUME JpegTypeOK, ScalarTypes, FrameTypes, EncodeInv, [Next]_vars
  PROVE  EncodeInv'
<1>1. UNCHANGED <<data, m_ongoingJpegQ>> => EncodeInv'
  BY Zenon DEF EncodeInv
<1>2. data'.pc \notin {"encode", "number"} => EncodeInv'
  BY DEF EncodeInv
<1>3. ASSUME NEW pc, GoTo(pc) PROVE data'.pc = pc /\ data'.frame = data.frame
  BY <1>3 DEF GoTo, ScalarTypes
<1>4. CASE ProcessJpegEvt
  <2> DEFINE all  == 1 .. Len(m_ongoingJpegQ)
             done == { i \in all : m_ongoingJpegQ[i].job = Head(events).job }
             K    == all \ done
             l    == m_ongoingJpegQ[Len(m_ongoingJpegQ)]
  <2>1. CASE m_ongoingJpegQ' = m_ongoingJpegQ
    BY <1>1, <1>4, <2>1, Zenon DEF ProcessJpegEvt, worker
  <2>2. CASE m_ongoingJpegQ' # m_ongoingJpegQ /\ data.pc \in {"encode", "number"}
    <3>1. /\ m_ongoingJpegQ' = Pick(m_ongoingJpegQ, K) /\ data' = data /\ events # <<>>
      BY <1>4, <2>2, Zenon DEF ProcessJpegEvt, worker
    <3>2. m_ongoingJpegQ # <<>> /\ l = [frame |-> data.frame, job |-> NoJob]
      BY <2>2 DEF EncodeInv
    <3>3. Head(events).job \in Jobs
      <4> DEFINE E == [job : Jobs, status : {"DONE", "ERROR"}]
      <4>1. events \in Seq(E) /\ \A e \in E : e.job \in Jobs
        BY DEF JpegTypeOK
      <4> HIDE DEF E
      <4>2. Head(events) \in E
        BY <3>1, <4>1
      <4> QED BY <4>1, <4>2
    <3>4. l.job # Head(events).job
      BY <3>2, <3>3 DEF NoJob, Jobs
    <3>5. m_ongoingJpegQ \in Seq(Job)
      BY DEF FrameTypes
    <3>6. Len(m_ongoingJpegQ) \in all
      BY <3>2, <3>5
    <3>7. K \in SUBSET (1 .. Len(m_ongoingJpegQ)) /\ Len(m_ongoingJpegQ) \in K
      BY <3>4, <3>6
    <3> HIDE DEF K
    <3>8. Pick(m_ongoingJpegQ, K) # <<>>
          /\ Pick(m_ongoingJpegQ, K)[Len(Pick(m_ongoingJpegQ, K))] = l
      BY <3>5, <3>7, PickLast
    <3> HIDE DEF l
    <3> QED BY <3>1, <3>2, <3>8, Zenon DEF EncodeInv
  <2>3. CASE data.pc \notin {"encode", "number"}
    BY <1>2, <1>4, <2>3 DEF ProcessJpegEvt, worker
  <2> QED BY <2>1, <2>2, <2>3
<1>5. CASE NextJpeg
  <2>1. CASE m_inputJpegQ = <<>>
    <3>1. data'.pc = "reprocess"
      BY <1>3, <1>5, <2>1 DEF NextJpeg
    <3> QED BY <1>2, <3>1
  <2>2. CASE m_inputJpegQ # <<>>
    <3> DEFINE e == [frame |-> Head(m_inputJpegQ), job |-> NoJob]
    <3>1. m_ongoingJpegQ' = Append(m_ongoingJpegQ, e) /\ data' = [pc |-> "encode", frame |-> Head(m_inputJpegQ)]
      BY <1>5, <2>2 DEF NextJpeg
    <3>2. m_ongoingJpegQ \in Seq(Job) /\ e = [frame |-> data'.frame, job |-> NoJob]
      BY <3>1 DEF FrameTypes
    <3> HIDE DEF e
    <3>3. m_ongoingJpegQ' # <<>> /\ m_ongoingJpegQ'[Len(m_ongoingJpegQ')] = e
      BY <3>1, <3>2
    <3> QED BY <3>2, <3>3, Zenon DEF EncodeInv
  <2> QED BY <2>1, <2>2
<1>6. CASE EncodeData
  <2>1. data.pc = "encode" /\ m_ongoingJpegQ' = m_ongoingJpegQ /\ data'.frame = data.frame
    BY <1>3, <1>6 DEF EncodeData
  <2> QED BY <2>1 DEF EncodeInv
<1>7. CASE NumberJob \/ EncodeDataFails \/ StopReleases
  <2>1. data'.pc \in {"reprocess", "abort"}
    BY <1>7 DEF NumberJob, EncodeDataFails, StopReleases
  <2> QED BY <1>2, <2>1
<1>8. CASE StopAborts
  BY <1>2, <1>8 DEF StopAborts
<1>9. CASE DoReprocess \/ StopDestroys \/ StopDestroyed \/ StopFlushesOngoing
           \/ StopFlushesInput \/ StopFlushesPP \/ StopEnds
  <2>1. \E pc \in {"wait", "destroying", "flushPP", "flushJpeg", "flushInput", "synced"} : GoTo(pc)
    BY <1>9 DEF DoReprocess, StopDestroys, StopDestroyed, StopFlushesOngoing,
       StopFlushesInput, StopFlushesPP, StopEnds
  <2>2. data'.pc \in {"wait", "destroying", "flushPP", "flushJpeg", "flushInput", "synced"}
    BY <1>3, <2>1, Zenon
  <2> QED BY <1>2, <2>2
<1>10. CASE TakeCommand
  <2>1. data'.pc \in {"wait", "abort", "jpeg"}
    BY <1>10, <1>3 DEF TakeCommand
  <2> QED BY <1>2, <2>1
<1>11. CASE EncodeNewSession
  BY <1>1, <1>11, Zenon DEF EncodeNewSession
<1>12. CASE \/ TakePicture \/ Start \/ Started \/ CreateJpegSession \/ CancelPicture \/ Stopped
            \/ ProcessData \/ ProcessPPData \/ PPDataToJpeg \/ JpegSteps \/ UNCHANGED vars
  BY <1>1, <1>12, Zenon DEF TakePicture, Start, Started, CreateJpegSession, CancelPicture,
     Stopped, ProcessData, ProcessPPData, PPDataToJpeg, JpegSteps, vars, ppVars, worker
<1> QED BY <1>4, <1>5, <1>6, <1>7, <1>8, <1>9, <1>10, <1>11, <1>12, Zenon DEF Next, DataThread-----------------------------------------------------------------------------
(* What a stop has flushed, and what is there while nothing is started.        *)

\* An empty queue of jobs has nothing to take out.
LEMMA PickNothing == ASSUME NEW K \in SUBSET (1 .. Len(<<>>)) PROVE Pick(<<>>, K) = <<>>
<1>1. <<>> \in Seq({}) /\ Len(<<>>) = 0 /\ K \in SUBSET (1 .. Len(<<>>))
  OBVIOUS
<1>2. /\ Cardinality(K) \in Nat /\ Cardinality(K) <= Len(<<>>) /\ Pick(<<>>, K) \in Seq({})
      /\ Len(Pick(<<>>, K)) = Cardinality(K)
  BY <1>1, PickFacts
<1> QED BY <1>1, <1>2

\* The encoder's answer leaves every other queue, and an empty one, alone.
LEMMA EventLeaves ==
  ASSUME ProcessJpegEvt
  PROVE  /\ UNCHANGED <<is_active, data, m_inputPPQ, m_ongoingPPQ, m_inputJpegQ, m_active,
                        picture, pictures, deferred, sync_sem, ppHand, reprocessing>>
         /\ m_ongoingJpegQ = <<>> => m_ongoingJpegQ' = <<>>
         /\ cmd_queue' # cmd_queue =>
               cmd_queue' \in {cmd_queue \o <<"NEXT">>, cmd_queue \o <<"NEXT", "NEXT">>}
<1> DEFINE all  == 1 .. Len(m_ongoingJpegQ)
           done == { i \in all : m_ongoingJpegQ[i].job = Head(events).job }
           K    == all \ done
<1>1. UNCHANGED <<is_active, data, m_inputPPQ, m_ongoingPPQ, m_inputJpegQ, m_active,
                  picture, pictures, deferred, sync_sem, ppHand, reprocessing>>
  BY DEF ProcessJpegEvt, worker, ppQueues, camera
<1>2. \/ m_ongoingJpegQ' = m_ongoingJpegQ /\ cmd_queue' = cmd_queue
      \/ /\ m_ongoingJpegQ' = Pick(m_ongoingJpegQ, K)
         /\ cmd_queue' \in {cmd_queue \o <<"NEXT">>, cmd_queue \o <<"NEXT", "NEXT">>}
  <2>1. CASE picture = "taking"
    BY <2>1 DEF ProcessJpegEvt
  <2>2. CASE picture # "taking"
    BY <2>2 DEF ProcessJpegEvt
  <2> QED BY <2>1, <2>2
<1>3. K \in SUBSET (1 .. Len(m_ongoingJpegQ))
  OBVIOUS
<1> HIDE DEF K
<1>4. m_ongoingJpegQ = <<>> => Pick(m_ongoingJpegQ, K) = <<>>
  BY <1>3, PickNothing
<1> QED BY <1>1, <1>2, <1>4

\* What a stop has flushed stays empty, though frames and answers still come.
LEMMA FlushKept ==
  ASSUME ScalarTypes, FlushInv, [Next]_vars
  PROVE  FlushInv'
<1> DEFINE ps == <<is_active, data, m_active, m_inputPPQ, m_ongoingPPQ, m_inputJpegQ,
                   m_ongoingJpegQ>>
<1>1. UNCHANGED ps => FlushInv'
  BY DEF FlushInv
<1>2. data'.pc \notin {"abort", "aborting", "destroying", "flushPP", "flushJpeg", "flushInput",
                       "synced"} => FlushInv'
  BY DEF FlushInv, Stopping
<1>3. ASSUME NEW pc, GoTo(pc) PROVE data'.pc = pc
  BY <1>3 DEF GoTo, ScalarTypes
<1>4. CASE ProcessJpegEvt
  BY <1>4, EventLeaves DEF FlushInv
<1>5. CASE ProcessData
  <2>1. /\ UNCHANGED <<is_active, data, m_active, m_ongoingPPQ, m_ongoingJpegQ>>
        /\ "inputPP" \in m_active \/ m_inputPPQ' = m_inputPPQ
        /\ "inputJpeg" \in m_active \/ m_inputJpegQ' = m_inputJpegQ
    BY <1>5 DEF ProcessData, worker
  <2> QED BY <2>1 DEF FlushInv
<1>6. CASE ProcessPPData
  <2>1. /\ UNCHANGED <<is_active, data, m_active, m_inputPPQ, m_inputJpegQ, m_ongoingJpegQ>>
        /\ "ongoingPP" \in m_active \/ m_ongoingPPQ' = m_ongoingPPQ
    BY <1>6 DEF ProcessPPData, worker
  <2> QED BY <2>1 DEF FlushInv
<1>7. CASE PPDataToJpeg
  <2>1. /\ UNCHANGED <<is_active, data, m_active, m_inputPPQ, m_ongoingPPQ, m_ongoingJpegQ>>
        /\ "inputJpeg" \in m_active \/ m_inputJpegQ' = m_inputJpegQ
    BY <1>7 DEF PPDataToJpeg, worker
  <2> QED BY <2>1 DEF FlushInv
<1>8. CASE TakeCommand
  <2>1. CASE Head(cmd_queue) = "STOP"
    <3>1. data'.pc = "abort" /\ is_active' = FALSE
      BY <1>3, <1>8, <2>1 DEF TakeCommand
    <3> QED BY <3>1 DEF FlushInv
  <2>2. CASE Head(cmd_queue) # "STOP"
    <3>1. data'.pc \in {"wait", "jpeg"}
      BY <1>3, <1>8, <2>2 DEF TakeCommand
    <3> QED BY <1>2, <3>1
  <2> QED BY <2>1, <2>2
<1>9. CASE NextJpeg
  <2>1. data'.pc \in {"reprocess", "encode"}
    BY <1>3, <1>9 DEF NextJpeg
  <2> QED BY <1>2, <2>1
<1>10. CASE EncodeData \/ NumberJob \/ EncodeDataFails \/ DoReprocess \/ StopEnds
  <2>1. data'.pc \in {"number", "reprocess", "wait"}
    BY <1>3, <1>10 DEF EncodeData, NumberJob, EncodeDataFails, DoReprocess, StopEnds
  <2> QED BY <1>2, <2>1
<1>11. CASE StopAborts
  <2>1. data'.pc = "aborting" /\ is_active' = is_active /\ data.pc = "abort"
    BY <1>11 DEF StopAborts
  <2> QED BY <2>1 DEF FlushInv, Stopping
<1>12. CASE StopReleases
  <2>1. data'.pc = "abort" /\ is_active' = is_active /\ data.pc = "aborting"
    BY <1>12 DEF StopReleases
  <2> QED BY <2>1 DEF FlushInv, Stopping
<1>13. CASE StopDestroys
  <2>1. /\ data'.pc = "destroying" /\ is_active' = is_active /\ data.pc = "abort"
        /\ m_ongoingJpegQ = <<>> /\ m_ongoingJpegQ' = <<>>
    BY <1>3, <1>13 DEF StopDestroys
  <2> QED BY <2>1 DEF FlushInv, Stopping
<1>14. CASE StopDestroyed
  <2>1. /\ data'.pc = "flushPP" /\ is_active' = is_active /\ data.pc = "destroying"
        /\ m_ongoingJpegQ' = m_ongoingJpegQ
    BY <1>3, <1>14 DEF StopDestroyed
  <2> QED BY <2>1 DEF FlushInv, Stopping
<1>15. CASE StopFlushesOngoing
  <2>1. /\ data'.pc = "flushJpeg" /\ is_active' = is_active /\ data.pc = "flushPP"
        /\ m_ongoingJpegQ' = m_ongoingJpegQ /\ m_ongoingPPQ' = <<>>
        /\ "ongoingPP" \notin m_active'
    BY <1>3, <1>15 DEF StopFlushesOngoing, Flush
  <2> QED BY <2>1 DEF FlushInv, Stopping
<1>16. CASE StopFlushesInput
  <2>1. /\ data'.pc = "flushInput" /\ is_active' = is_active /\ data.pc = "flushJpeg"
        /\ UNCHANGED <<m_ongoingJpegQ, m_ongoingPPQ>> /\ m_inputJpegQ' = <<>>
        /\ m_active' = m_active \ {"inputJpeg"}
    BY <1>3, <1>16 DEF StopFlushesInput
  <2> QED BY <2>1 DEF FlushInv, Stopping
<1>17. CASE StopFlushesPP
  <2>1. /\ data'.pc = "synced" /\ is_active' = is_active /\ data.pc = "flushInput"
        /\ UNCHANGED <<m_ongoingJpegQ, m_ongoingPPQ, m_inputJpegQ>> /\ m_inputPPQ' = <<>>
        /\ m_active' = m_active \ {"inputPP"}
    BY <1>3, <1>17 DEF StopFlushesPP, Flush
  <2> QED BY <2>1 DEF FlushInv, Stopping
<1>18. CASE EncodeNewSession
  BY <1>1, <1>18, Zenon DEF EncodeNewSession, ppQueues
<1>19. CASE \/ TakePicture \/ Start \/ Started \/ CreateJpegSession \/ CancelPicture \/ Stopped
            \/ JpegSteps \/ UNCHANGED vars
  <2>1. UNCHANGED ps
    BY <1>19 DEF TakePicture, Start, Started, CreateJpegSession, CancelPicture,
       Stopped, JpegSteps, vars, ppVars, worker, ppQueues
  <2> QED BY <1>1, <2>1
<1> QED BY <1>4, <1>5, <1>6, <1>7, <1>8, <1>9, <1>10, <1>11, <1>12, <1>13, <1>14, <1>15, <1>16,
           <1>17, <1>18, <1>19, Zenon DEF Next, DataThread
\* Who waits, and what it waits for.
WaitInv ==
    /\ Starts \in Nat /\ Stops \in Nat /\ sync_sem \in 0 .. 1
    /\ Starts # 0 => deferred = "sync" /\ picture = "taking" /\ sync_sem = 0
    /\ deferred # "none" => picture = "taking"
    /\ Starts <= 1
    /\ deferred # "sync" /\ picture # "stopping" => sync_sem = 0
    /\ Stops # 0 \/ data.pc \in Stopping => picture = "stopping" /\ sync_sem = 0

\* It follows from the invariant.
LEMMA WaitFacts == ScalarTypes /\ SyncInv => WaitInv
<1> SUFFICES ASSUME ScalarTypes, SyncInv PROVE WaitInv
  OBVIOUS
<1>1. Starts \in Nat /\ Stops \in Nat /\ sync_sem \in Nat
  BY CmdFacts DEF Cmd, Starts, Stops, ScalarTypes
<1>2. /\ Fl(data.pc \in Stopping) \in {0, 1} /\ Fl(deferred = "sync") \in {0, 1}
      /\ Fl(picture = "stopping") \in {0, 1}
      /\ Fl(data.pc \in Stopping) = 1 <=> data.pc \in Stopping
      /\ Fl(deferred = "sync") = 1 <=> deferred = "sync"
      /\ Fl(picture = "stopping") = 1 <=> picture = "stopping"
  BY DEF Fl
<1> HIDE DEF Starts, Stops, Fl
<1>3. Fl(deferred = "sync") = 0 \/ Fl(picture = "stopping") = 0
  BY <1>2 DEF SyncInv
<1> QED BY <1>1, <1>2, <1>3 DEF SyncInv, WaitInv

\* After a stop, and until the next start is carried out, nothing is there.
LEMMA RestKept ==
  ASSUME ScalarTypes, FrameTypes, SyncInv, FlushInv, RestInv, [Next]_vars
  PROVE  RestInv'
<1>1. /\ Starts \in Nat /\ Stops \in Nat /\ sync_sem \in 0 .. 1
      /\ Starts # 0 => deferred = "sync" /\ picture = "taking" /\ sync_sem = 0
      /\ deferred # "none" => picture = "taking"
      /\ Starts <= 1
      /\ deferred # "sync" /\ picture # "stopping" => sync_sem = 0
      /\ Stops # 0 \/ data.pc \in Stopping => picture = "stopping" /\ sync_sem = 0
  BY WaitFacts DEF WaitInv
<1>2. /\ Starts' \in Nat /\ Stops' \in Nat /\ sync_sem' \in 0 .. 1
      /\ Starts' # 0 => deferred' = "sync" /\ picture' = "taking" /\ sync_sem' = 0
      /\ deferred' # "none" => picture' = "taking"
      /\ deferred' # "sync" /\ picture' # "stopping" => sync_sem' = 0
  <2>1. ScalarTypes' /\ SyncInv'
    BY SyncKept
  <2>2. WaitInv'
    BY <2>1, WaitFacts, PTL
  <2> HIDE DEF Starts, Stops
  <2> QED BY <2>2 DEF WaitInv
<1>3. cmd_queue \in Seq(Cmd)
  BY DEF ScalarTypes, Cmd
<1>4. cmd_queue' = cmd_queue => Starts' = Starts
  BY DEF Starts
<1>5. ASSUME cmd_queue' \in {Append(cmd_queue, "NEXT"), cmd_queue \o <<"NEXT">>,
                             cmd_queue \o <<"NEXT", "NEXT">>}
      PROVE  Starts' = Starts
  BY <1>3, <1>5, NextWaitsForNobody DEF Starts
<1> HIDE DEF Starts, Stops
<1>6. ASSUME NEW pc, GoTo(pc) PROVE data'.pc = pc
  BY <1>6 DEF GoTo, ScalarTypes
<1>7. ASSUME ~ Unstarted', ~ HasStopped', picture' # "none" PROVE RestInv'
  BY <1>7 DEF RestInv
<1> DEFINE quiet0 == UNCHANGED <<picture, pictures, deferred, sync_sem>> /\ Starts' = Starts
<1>8. ASSUME quiet0, UNCHANGED <<data, is_active, m_inputPPQ, m_ongoingPPQ, m_inputJpegQ,
                                 m_ongoingJpegQ, m_active, ppHand, reprocessing>>
      PROVE  RestInv'
  BY <1>8 DEF RestInv, Unstarted, HasStopped, Empty
<1>9. ASSUME quiet0, ~ Empty PROVE RestInv'
  BY <1>9 DEF RestInv, Unstarted, HasStopped
<1>10. CASE TakePicture
  <2>1. /\ picture = "none" /\ picture' = "taking" /\ deferred' = "start"
        /\ UNCHANGED <<data, is_active, m_inputPPQ, m_ongoingPPQ, m_inputJpegQ,
                       m_ongoingJpegQ, ppHand, reprocessing>>
    BY <1>10 DEF TakePicture, worker, ppQueues
  <2> QED BY <2>1 DEF RestInv, Unstarted, HasStopped, Empty
<1>11. CASE Start
  <2>1. /\ deferred = "start" /\ picture' = picture
        /\ UNCHANGED <<data, is_active, m_inputPPQ, m_ongoingPPQ, m_inputJpegQ,
                       m_ongoingJpegQ, ppHand, reprocessing>>
    BY <1>11 DEF Start, worker, ppQueues
  <2> QED BY <1>1, <2>1 DEF RestInv, Unstarted, HasStopped, Empty
<1>12. CASE Started
  <2>1. deferred = "sync" /\ sync_sem > 0 /\ deferred' = "create" /\ UNCHANGED <<picture, cmd_queue>>
    BY <1>12 DEF Started, WaitSync
  <2> QED BY <1>1, <1>4, <1>7, <2>1 DEF Unstarted, HasStopped
<1>13. CASE CreateJpegSession
  <2>1. deferred = "create" /\ deferred' = "none" /\ UNCHANGED <<picture, cmd_queue>>
    BY <1>13 DEF CreateJpegSession
  <2> QED BY <1>1, <1>4, <1>7, <2>1 DEF Unstarted, HasStopped
<1>14. CASE CancelPicture
  <2>1. /\ picture = "taking" /\ deferred = "none" /\ picture' = "stopping" /\ deferred' = "none"
        /\ sync_sem' = sync_sem
    BY <1>14 DEF CancelPicture
  <2> QED BY <1>1, <1>2, <1>7, <2>1 DEF Unstarted, HasStopped
<1>15. CASE Stopped
  <2>1. /\ picture = "stopping" /\ ppHand = NoFrame /\ sync_sem > 0 /\ picture' = "none"
        /\ reprocessing' = {}
        /\ UNCHANGED <<data, is_active, m_inputPPQ, m_ongoingPPQ, m_inputJpegQ,
                       m_ongoingJpegQ, m_active, ppHand>>
    BY <1>15 DEF Stopped, WaitSync, worker, ppQueues
  <2> QED BY <2>1 DEF RestInv, Unstarted, HasStopped, Empty
<1>16. CASE ProcessJpegEvt
  <2>1. /\ UNCHANGED <<is_active, data, m_inputPPQ, m_ongoingPPQ, m_inputJpegQ, m_active,
                       picture, pictures, deferred, sync_sem, ppHand, reprocessing>>
        /\ m_ongoingJpegQ = <<>> => m_ongoingJpegQ' = <<>>
        /\ Starts' = Starts
    BY <1>4, <1>5, <1>16, EventLeaves
  <2> QED BY <2>1 DEF RestInv, Unstarted, HasStopped, Empty
<1>17. CASE ProcessData
  <2>1. /\ pictures > 0 /\ deferred \in {"create", "none"}
        /\ UNCHANGED <<is_active, data, m_active, m_ongoingPPQ, m_ongoingJpegQ, picture, pictures,
                       deferred, sync_sem, ppHand, reprocessing>>
        /\ m_active # {} \/ UNCHANGED <<m_inputPPQ, m_inputJpegQ, cmd_queue>>
        /\ cmd_queue' = cmd_queue \/ cmd_queue' = Append(cmd_queue, "NEXT")
    BY <1>17 DEF ProcessData, worker, camera, SendNext
  <2>2. Starts' = Starts /\ Starts = 0
    BY <1>1, <1>4, <1>5, <2>1
  <2>3. pictures # 0
    BY <2>1 DEF ScalarTypes
  <2> QED BY <2>1, <2>2, <2>3 DEF RestInv, Unstarted, HasStopped, Empty, ScalarTypes
<1>18. CASE ProcessPPData
  <2>1. /\ reprocessing # {} /\ ppHand = NoFrame
        /\ UNCHANGED <<is_active, data, m_active, m_inputPPQ, m_inputJpegQ, m_ongoingJpegQ, picture,
                       pictures, deferred, sync_sem, cmd_queue>>
        /\ m_ongoingPPQ = <<>> => m_ongoingPPQ' = m_ongoingPPQ
    BY <1>18 DEF ProcessPPData, worker, camera
  <2> QED BY <1>4, <2>1 DEF RestInv, Unstarted, HasStopped, Empty
<1>19. CASE PPDataToJpeg
  <2>1. /\ ppHand # NoFrame
        /\ UNCHANGED <<is_active, data, m_active, m_inputPPQ, m_ongoingPPQ, m_ongoingJpegQ, picture,
                       pictures, deferred, sync_sem>>
        /\ m_active # {} \/ UNCHANGED <<m_inputJpegQ, cmd_queue>>
        /\ cmd_queue' = cmd_queue \/ cmd_queue' = Append(cmd_queue, "NEXT")
    BY <1>19 DEF PPDataToJpeg, worker, camera, SendNext
  <2>2. Starts' = Starts
    BY <1>4, <1>5, <2>1
  <2> QED BY <2>1, <2>2 DEF RestInv, Unstarted, HasStopped, Empty
<1>20. CASE TakeCommand
  <2>1. /\ cmd_queue # <<>> /\ cmd_queue' = Tail(cmd_queue) /\ data.pc = "wait"
        /\ UNCHANGED <<picture, pictures, deferred, m_ongoingJpegQ, ppHand, reprocessing>>
    BY <1>20 DEF TakeCommand, camera
  <2>2. /\ Head(cmd_queue) \in Cmd
        /\ Starts = Starts' + Fl(Head(cmd_queue) = "START")
        /\ Stops = Stops' + Fl(Head(cmd_queue) = "STOP")
    BY <1>3, <2>1, CmdFacts DEF Starts, Stops
  <2>3. CASE Head(cmd_queue) = "START"
    <3>1. Starts = Starts' + 1
      BY <2>2, <2>3 DEF Fl
    <3>2. Starts' = 0 /\ deferred = "sync" /\ picture = "taking"
      <4> DEFINE s == Starts
                 t == Starts'
      <4>1. s \in Nat /\ t \in Nat /\ s = t + 1 /\ s <= 1
        BY <1>1, <1>2, <3>1
      <4> HIDE DEF s, t
      <4>2. t = 0 /\ s # 0
        BY <4>1
      <4> QED BY <1>1, <4>2 DEF s, t
    <3> QED BY <1>7, <2>1, <3>2 DEF Unstarted, HasStopped
  <2>4. CASE Head(cmd_queue) = "STOP"
    <3>1. Stops # 0 /\ sync_sem' = sync_sem
      <4>1. Stops = Stops' + 1
        BY <2>2, <2>4 DEF Fl
      <4>2. sync_sem' = sync_sem
        BY <1>20, <2>4 DEF TakeCommand
      <4> DEFINE s == Stops
                 t == Stops'
      <4>3. s \in Nat /\ t \in Nat /\ s = t + 1
        BY <1>1, <1>2, <4>1
      <4> HIDE DEF s, t
      <4>4. s # 0
        BY <4>3
      <4> QED BY <4>2, <4>4 DEF s
    <3>2. picture = "stopping" /\ sync_sem' = 0 /\ deferred = "none"
      BY <1>1, <3>1 DEF ScalarTypes
    <3> QED BY <1>2, <1>7, <2>1, <3>2 DEF Unstarted, HasStopped
  <2>5. CASE Head(cmd_queue) = "NEXT"
    <3>1. Starts' = Starts /\ sync_sem' = sync_sem
      <4>1. Fl(Head(cmd_queue) = "START") = 0
        BY <2>5 DEF Fl
      <4>2. sync_sem' = sync_sem
        BY <1>20, <2>5 DEF TakeCommand
      <4> QED BY <1>1, <1>2, <2>2, <4>1, <4>2
    <3>2. CASE ~ Empty
      BY <1>9, <2>1, <3>1, <3>2
    <3>3. CASE Empty
      <4>1. /\ UNCHANGED <<data, is_active, m_ongoingPPQ>> /\ m_inputPPQ' = <<>>
            /\ m_inputJpegQ' = m_inputJpegQ /\ m_active' \subseteq m_active
        BY <1>20, <2>5, <3>3 DEF TakeCommand, Flush, Empty
      <4>2. Empty'
        BY <2>1, <3>3, <4>1 DEF Empty
      <4>3. m_active = {} => m_active' = {}
        BY <4>1
      <4> QED BY <2>1, <3>1, <4>2, <4>3 DEF RestInv, Unstarted, HasStopped
    <3> QED BY <3>2, <3>3
  <2> QED BY <2>2, <2>3, <2>4, <2>5 DEF Cmd
<1>21. CASE NextJpeg \/ EncodeNewSession \/ EncodeData \/ NumberJob \/ EncodeDataFails \/ DoReprocess
            \/ StopAborts \/ StopReleases \/ StopDestroys \/ StopDestroyed \/ StopFlushesOngoing
            \/ StopFlushesInput
  <2>1. UNCHANGED <<camera, sync_sem, cmd_queue>> /\ data.pc \notin {"wait", "synced"}
    BY <1>21 DEF NextJpeg, EncodeNewSession, EncodeData, NumberJob, EncodeDataFails, DoReprocess,
       StopAborts, StopReleases, StopDestroys, StopDestroyed, StopFlushesOngoing, StopFlushesInput
  <2>2. UNCHANGED <<picture, pictures, deferred>> /\ ~ Empty
    BY <2>1 DEF camera, Empty
  <2> QED BY <1>4, <1>9, <2>1, <2>2
<1>22. CASE StopFlushesPP
  <2>1. /\ data.pc = "flushInput" /\ data'.pc = "synced" /\ m_inputPPQ' = <<>>
        /\ m_active' = m_active \ {"inputPP"}
        /\ UNCHANGED <<picture, pictures, deferred, cmd_queue, is_active, m_ongoingPPQ,
                       m_inputJpegQ, m_ongoingJpegQ, ppHand, reprocessing>>
    BY <1>6, <1>22 DEF StopFlushesPP, Flush, camera
  <2>2. picture = "stopping" /\ deferred = "none" /\ Starts' = 0
    BY <1>1, <1>4, <2>1 DEF Stopping, ScalarTypes
  <2>3. Empty' /\ m_active' = {}
    BY <2>1 DEF FlushInv, Stopping, Empty, ScalarTypes, QueueNames
  <2> QED BY <2>1, <2>2, <2>3 DEF RestInv, Unstarted, HasStopped
<1>23. CASE StopEnds
  <2>1. /\ data'.pc = "wait"
        /\ UNCHANGED <<picture, pictures, deferred, cmd_queue, sync_sem, is_active, m_inputPPQ,
                       m_ongoingPPQ, m_inputJpegQ, m_active, m_ongoingJpegQ, ppHand, reprocessing>>
    BY <1>6, <1>23 DEF StopEnds, camera, ppQueues
  <2> QED BY <1>4, <2>1 DEF RestInv, Unstarted, HasStopped, Empty
<1>24. CASE JpegSteps \/ UNCHANGED vars
  <2>1. UNCHANGED <<picture, pictures, deferred, sync_sem, cmd_queue, data, is_active, m_inputPPQ,
                    m_ongoingPPQ, m_inputJpegQ, m_ongoingJpegQ, m_active, ppHand, reprocessing>>
    BY <1>24 DEF JpegSteps, vars, ppVars, camera, worker, ppQueues
  <2> QED BY <1>4, <1>8, <2>1
<1> QED BY <1>10, <1>11, <1>12, <1>13, <1>14, <1>15, <1>16, <1>17, <1>18, <1>19, <1>20, <1>21,
           <1>22, <1>23, <1>24, Zenon DEF Next, DataThread-----------------------------------------------------------------------------
(* The theorems.                                                               *)

\* Nothing is given to the post-processor yet.
LEMMA PostInvInit == Init => PostInv
<1> SUFFICES ASSUME Init PROVE PostInv
  OBVIOUS
<1>1. JpegInv /\ JpegTypeOK
  BY JpegInvInit, JpegTypesInit DEF Init
<1>2. /\ picture = "none" /\ pictures = 0 /\ needReprocess = FALSE /\ deferred = "none"
      /\ cmd_queue = <<>> /\ sync_sem = 0 /\ is_active = FALSE
      /\ data = [pc |-> "wait", frame |-> 0] /\ mNewJpegSessionNeeded = TRUE
      /\ m_inputPPQ = <<>> /\ m_ongoingPPQ = <<>> /\ m_inputJpegQ = <<>> /\ m_ongoingJpegQ = <<>>
      /\ m_active = QueueNames /\ reprocessing = {} /\ ppHand = NoFrame /\ released = <<>>
  BY DEF Init, NoFrame
<1>3. ScalarTypes
  <2>1. data.pc = "wait" /\ data.frame = 0 /\ cmd_queue \in Seq({"START", "STOP", "NEXT"})
    BY <1>2
  <2>2. data = [pc |-> data.pc, frame |-> data.frame]
    BY <1>2, <2>1, Zenon
  <2> QED BY <1>2, <2>1, <2>2 DEF ScalarTypes
<1>4. FrameTypes
  BY <1>2 DEF FrameTypes, NoFrame
<1>5. JobBound /\ FrameInv
  BY <1>2 DEF JobBound, FrameInv, Frames
<1>6. Starts = 0 /\ Stops = 0
  BY <1>2, NoTally DEF Starts, Stops
<1>7. SyncInv
  BY <1>2, <1>6 DEF SyncInv, Stopping, Fl
<1>8. EncodeInv /\ FlushInv
  BY <1>2 DEF EncodeInv, FlushInv, Stopping
<1>9. RestInv
  BY <1>2, <1>6 DEF RestInv, Unstarted, HasStopped, Empty
<1> QED BY <1>1, <1>3, <1>4, <1>5, <1>7, <1>8, <1>9 DEF PostInv

\* Every step keeps the invariant.
LEMMA PostInvKept == PostInv /\ [Next]_vars => PostInv'
<1> SUFFICES ASSUME PostInv, [Next]_vars PROVE PostInv'
  OBVIOUS
<1>1. /\ JpegInv /\ JpegTypeOK /\ ScalarTypes /\ FrameTypes /\ JobBound
      /\ SyncInv /\ FrameInv /\ EncodeInv /\ FlushInv /\ RestInv
  BY DEF PostInv
<1>2. JpegInv' /\ JpegTypeOK' /\ Len(answers) \in Nat
  BY <1>1, JpegKept
<1>3. ScalarTypes' /\ SyncInv'
  BY <1>1, SyncKept
<1>4. FrameTypes' /\ FrameInv'
  BY <1>1, <1>2, FramesKept
<1>5. JobBound' /\ EncodeInv'
  BY <1>1, JobBoundKept, EncodeKept
<1>6. FlushInv' /\ RestInv'
  BY <1>1, FlushKept, RestKept
<1> QED BY <1>2, <1>3, <1>4, <1>5, <1>6 DEF PostInv

\* So it always holds.
LEMMA PostInvariant == Spec => []PostInv
BY PostInvInit, PostInvKept, PTL DEF Spec

\* The invariant gives the types.
LEMMA PostTypes == PostInv => TypeOK
<1> SUFFICES ASSUME PostInv PROVE TypeOK
  OBVIOUS
<1>1. JpegTypeOK /\ ScalarTypes /\ FrameTypes /\ JobBound /\ SyncInv
  BY DEF PostInv
<1>2. sync_sem \in 0 .. 1
  BY <1>1, WaitFacts DEF WaitInv
<1>3. m_ongoingJpegQ \in Seq([frame : Frames, job : 0 .. Len(answers)])
  <2> DEFINE n == Len(answers)
             J == [frame : Frames, job : 0 .. n]
  <2>1. m_ongoingJpegQ \in Seq(Job) /\ m_ongoingJpegQ \in Seq(Upto(n))
    BY <1>1 DEF FrameTypes, JobBound
  <2>2. \A e : e \in Job /\ e \in Upto(n) => e \in J
    BY DEF Job, Upto
  <2> HIDE DEF n, J
  <2>3. m_ongoingJpegQ \in Seq(J)
    BY <2>1, <2>2
  <2> QED BY <2>3 DEF J, n
<1>4. data \in [pc : {"wait", "jpeg", "encode", "number", "reprocess", "abort",
                      "aborting", "destroying", "flushPP", "flushJpeg",
                      "flushInput", "synced"},
                frame : 0 .. Len(released)]
  BY <1>1 DEF ScalarTypes, FrameTypes, Stopping
<1> QED BY <1>1, <1>2, <1>3, <1>4 DEF TypeOK, ScalarTypes, FrameTypes

\* The invariant gives the frames' account.
LEMMA PostFrames == PostInv => FramesAccounted
<1> SUFFICES ASSUME PostInv, NEW f \in Frames
             PROVE  Held(f) + released[f] = 1 /\ (picture = "none" => released[f] = 1)
  BY DEF FramesAccounted
<1>1. FrameTypes /\ FrameInv /\ RestInv
  BY DEF PostInv
<1>2. /\ AtPP(f) \in {0, 1} /\ AtOngoing(f) \in {0, 1} /\ AtJpeg(f) \in {0, 1}
      /\ AtJob(f) \in {0, 1} /\ AtHand(f) \in {0, 1} /\ AtAbort(f) \in {0, 1}
      /\ Places(f) \in {0, 1} /\ released[f] \in {0, 1} /\ Places(f) + released[f] = 1
  BY <1>1, OnePlace
<1>3. /\ Occurrences(m_inputPPQ, f) = AtPP(f) /\ Occurrences(m_ongoingPPQ, f) = AtOngoing(f)
      /\ Occurrences(m_inputJpegQ, f) = AtJpeg(f)
  <2>1. ASSUME NEW q PROVE Occurrences(q, f) = Tally(q, {f})
    <3>1. { i \in 1 .. Len(q) : q[i] = f } = { i \in 1 .. Len(q) : q[i] \in {f} }
      BY Zenon
    <3> QED BY <3>1, Zenon DEF Occurrences, Tally
  <2> QED BY <2>1, Zenon DEF AtPP, AtOngoing, AtJpeg
<1>4. Cardinality({ i \in 1 .. Len(m_ongoingJpegQ) : m_ongoingJpegQ[i].frame = f }) = AtJob(f)
  <2> DEFINE V == [frame : {f}, job : Nat]
             q == m_ongoingJpegQ
  <2>1. q \in Seq(Job)
    BY <1>1 DEF FrameTypes
  <2>2. \A e \in Job : e.frame = f <=> e \in V
    BY DEF Job
  <2> HIDE DEF V, q
  <2>3. \A i \in 1 .. Len(q) : q[i] \in Job
    BY <2>1
  <2>4. { i \in 1 .. Len(q) : q[i].frame = f } = { i \in 1 .. Len(q) : q[i] \in V }
    BY <2>2, <2>3, Zenon
  <2> QED BY <2>4, Zenon DEF AtJob, Tally, V, q
<1>5. InHand(f) = AtHand(f) + AtAbort(f)
  <2>1. AtHand(f) = 0 \/ AtAbort(f) = 0
    BY <1>2 DEF Places
  <2> QED BY <2>1 DEF InHand, AtHand, AtAbort, Fl
<1>6. Held(f) + released[f] = 1
  BY <1>2, <1>3, <1>4, <1>5 DEF Held, Places
<1>7. ASSUME picture = "none" PROVE released[f] = 1
  <2>1. /\ m_inputPPQ = <<>> /\ m_ongoingPPQ = <<>> /\ m_inputJpegQ = <<>>
        /\ m_ongoingJpegQ = <<>> /\ ppHand = NoFrame /\ data.pc \in {"wait", "synced"}
    BY <1>1, <1>7 DEF RestInv, Unstarted, Empty
  <2>2. AtHand(f) = 0 /\ AtAbort(f) = 0
    BY <2>1 DEF AtHand, AtAbort, Fl, NoFrame, Frames
  <2>3. AtPP(f) = 0 /\ AtOngoing(f) = 0 /\ AtJpeg(f) = 0 /\ AtJob(f) = 0
    BY <2>1, NoTally DEF AtPP, AtOngoing, AtJpeg, AtJob
  <2> QED BY <1>2, <2>2, <2>3 DEF Places
<1> QED BY <1>6, <1>7

\* The variables of the post-processor and of the job manager below have their
\* types; sync_sem never counts two answers, so no caller of sendCmd is let go by
\* the answer to another's command.
THEOREM TypeCorrect == Spec => []TypeOK
BY PostInvariant, PostTypes, PTL

\* Every frame given to the post-processor is in one of its queues or in a
\* thread's hands, or went back to its channel once, and when stop has returned
\* all went back: with any number of frames, pictures and jobs, whatever order
\* the channels', the data, the codec's and the state machine's threads run in.
THEOREM FramesCorrect == Spec => []FramesAccounted
BY PostInvariant, PostFrames, PTL
=============================================================================
