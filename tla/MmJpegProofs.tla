----------------------------- MODULE MmJpegProofs -----------------------------
(***************************************************************************)
(* Why the client hears no more of a job once mm_jpeg_abort_job has        *)
(* returned (mm_jpeg.c): the inductive invariant, and that every step of   *)
(* the client, the manager and the codec keeps it.                         *)
(***************************************************************************)
EXTENDS MmJpeg, SequenceTheorems, TLAPS

Processing == {"begin", "encode", "submit", "failed"}
Aborting   == {"abort", "send", "check", "aborting"}
Destroying == {"destroy", "unload", "free"}

Holds(q, j) == \E i \in 1 .. Len(q) : q[i] = j
Once(q)     == \A i, k \in 1 .. Len(q) : q[i] = q[k] => i = k

\* A job is in the queue once, or with the manager, or the client is done with it.
QueueInv ==
    /\ job_queue \in Seq(Jobs) /\ answers \in Seq(Nat) /\ quiet \subseteq Jobs
    /\ ongoing_job_q \subseteq Jobs
    /\ api.call = "abort" => /\ api.job \in Jobs
                             /\ ~ Holds(job_queue, api.job)
    /\ mgr.job \in Jobs \cup {NoJob} /\ mgr.job \notin quiet
    /\ Once(job_queue)
    /\ \A j \in quiet \cup {mgr.job} : ~ Holds(job_queue, j)

\* job_lock keeps client and manager apart.
LockInv ==
    /\ mgr \in [pc : {"wait", "take", "putback"} \cup Processing,
               job : Jobs \cup {NoJob}, empty : BOOLEAN]
    /\ api \in [call : {"none", "start", "abort", "destroy"},
               pc : {"idle", "post"} \cup Aborting \cup Destroying,
               job : Jobs \cup {NoJob}]
    /\ mgr.pc \in Processing \cup {"putback"} => job_lock = "mgr" /\ mgr.job # NoJob
    /\ mgr.pc \in {"wait", "take"} => job_lock # "mgr" /\ mgr.job = NoJob
    /\ api.pc \in Aborting \cup Destroying => job_lock = "client"
    /\ api.pc \in Aborting \cup Destroying <=> api.call \in {"abort", "destroy"}
    /\ api.pc \in Destroying \/ api.call = "destroy"
          => job_queue = <<>> /\ ongoing_job_q = {} /\ api.call = "destroy"
    /\ api.pc = "idle" <=> api.call = "none"

\* The session's handle is with the queue, the manager, or the codec.
HandleInv ==
    /\ session_handle_q \in {0, 1} /\ commands \in Nat
    /\ codec = "busy" \/ mgr.pc \in Processing \/ cb \in {"remove", "requeue"}
          => session_handle_q = 0 /\ active
    /\ encoding => session_handle_q = 0
    /\ session_handle_q = 1 => active
    /\ ongoing_job_q # {} \/ api.pc \in Aborting \cup Destroying => active
    /\ mgr.pc \in Processing => codec # "busy" /\ cb \notin {"remove", "requeue"}
    /\ mgr.pc \in {"encode", "submit", "failed"} => cb = "idle"
    /\ api.pc \in (Aborting \ {"abort"}) \cup Destroying => abort_state # "NONE" /\ cb = "idle"
    /\ api.pc \in Aborting \ {"abort"} => session_handle_q = 0
    /\ cb # "idle" <=> lock = "codec"
    /\ cb # "idle" => codec # "busy"
    /\ commands > 0 => /\ active /\ abort_state # "NONE"
                       /\ session_handle_q = 0 \/ api.pc \in Destroying
                       /\ mgr.pc \notin Processing /\ cb = "idle"

\* What the codec works at is under way, or its abort has not returned.
CodecInv ==
    /\ mgr.pc \in {"encode", "submit", "failed"}
          => jobId = mgr.job /\ jobId \in ongoing_job_q /\ abort_state = "NONE"
    /\ mgr.pc = "submit" => encoding
    /\ codec = "busy" => /\ encoding /\ jobId \notin quiet /\ jobId \in Jobs
                         /\ abort_state \in {"NONE", "INIT"}
                         /\ api.pc \notin Destroying
                         /\ jobId \in ongoing_job_q \/ api.pc \in Aborting
    /\ api.pc \in Aborting \ {"abort"} /\ codec = "busy" => abort_state = "INIT"
    /\ api.pc = "aborting" /\ woken => abort_state # "INIT"
    /\ abort_state = "INIT" => api.pc \in Aborting \ {"abort"}

JpegInv == QueueInv /\ LockInv /\ HandleInv /\ CodecInv

\* A step of the job manager, of its client or of the codec.
JpegStep == \/ CreateSession \/ StartJob \/ (\E j : AbortJob(j)) \/ DestroySession
            \/ InCall \/ JobMgr \/ Codec

-----------------------------------------------------------------------------
(* The queue of jobs.                                                          *)

\* A job is put at the end of the queue (mm_jpeg_start_job).
LEMMA AppendKeeps ==
  ASSUME NEW S, NEW q \in Seq(S), NEW e \in S, Once(q), ~ Holds(q, e)
  PROVE  /\ Append(q, e) \in Seq(S) /\ Once(Append(q, e))
         /\ \A j : Holds(Append(q, e), j) => Holds(q, j) \/ j = e
<1>1. /\ Append(q, e) \in Seq(S) /\ Len(q) \in Nat /\ Len(Append(q, e)) = Len(q) + 1
      /\ \A i \in 1 .. Len(q) : Append(q, e)[i] = q[i]
      /\ Append(q, e)[Len(q) + 1] = e
  OBVIOUS
<1> HIDE DEF Holds
<1>2. \A i \in 1 .. Len(q) + 1 : i \in 1 .. Len(q) \/ i = Len(q) + 1
  BY <1>1
<1> QED BY <1>1, <1>2 DEF Holds, Once

\* A job is put back at its head (mm_jpeg_queue_enq_head).
LEMMA ConsKeeps ==
  ASSUME NEW S, NEW q \in Seq(S), NEW e \in S, Once(q), ~ Holds(q, e)
  PROVE  /\ <<e>> \o q \in Seq(S) /\ Once(<<e>> \o q)
         /\ \A j : Holds(<<e>> \o q, j) => Holds(q, j) \/ j = e
<1>1. /\ <<e>> \o q \in Seq(S) /\ Len(q) \in Nat /\ Len(<<e>> \o q) = Len(q) + 1
      /\ \A i \in 1 .. Len(q) : (<<e>> \o q)[i + 1] = q[i]
      /\ (<<e>> \o q)[1] = e
  OBVIOUS
<1>2. \A i \in 1 .. Len(q) + 1 : i = 1 \/ (i - 1 \in 1 .. Len(q) /\ (<<e>> \o q)[i] = q[i - 1])
  BY <1>1
<1> QED BY <1>1, <1>2 DEF Holds, Once

\* The first job is taken out.
LEMMA TailKeeps ==
  ASSUME NEW S, NEW q \in Seq(S), q # <<>>, Once(q)
  PROVE  /\ Head(q) \in S /\ Holds(q, Head(q))
         /\ Tail(q) \in Seq(S) /\ Once(Tail(q)) /\ ~ Holds(Tail(q), Head(q))
         /\ \A j : Holds(Tail(q), j) => Holds(q, j)
<1>1. /\ Head(q) \in S /\ Tail(q) \in Seq(S) /\ Len(q) \in Nat \ {0} /\ Head(q) = q[1]
      /\ Len(Tail(q)) = Len(q) - 1
      /\ \A i \in 1 .. Len(q) - 1 : Tail(q)[i] = q[i + 1]
  OBVIOUS
<1> QED BY <1>1 DEF Holds, Once

\* A job is taken out wherever it is (mm_jpeg_queue_remove_job_by_job_id).
LEMMA WithoutKeeps ==
  ASSUME NEW S, NEW q \in Seq(S), NEW j, Once(q)
  PROVE  /\ Without(q, j) \in Seq(S) /\ Once(Without(q, j)) /\ ~ Holds(Without(q, j), j)
         /\ \A k : Holds(Without(q, j), k) => Holds(q, k)
<1>1. CASE ~ \E i \in 1 .. Len(q) : q[i] = j
  BY <1>1 DEF Without, Holds
<1>2. CASE \E i \in 1 .. Len(q) : q[i] = j
  <2> DEFINE p == Place(q, j)
             a == SubSeq(q, 1, p - 1)
             b == SubSeq(q, p + 1, Len(q))
             w == Without(q, j)
  <2>1. p \in 1 .. Len(q) /\ q[p] = j
    BY <1>2 DEF Place
  <2>2. w = a \o b
    BY <1>2, Zenon DEF Without
  <2>3. Len(q) \in Nat /\ p \in Nat
    BY <2>1
  <2>4. a \in Seq(S) /\ Len(a) = p - 1 /\ \A i \in 1 .. p - 1 : a[i] = q[i]
    BY <2>1, <2>3
  <2>5. b \in Seq(S) /\ Len(b) = Len(q) - p /\ \A i \in 1 .. Len(q) - p : b[i] = q[p + i]
    BY <2>1, <2>3
  <2> HIDE DEF p, a, b, w
  <2>6. /\ w \in Seq(S) /\ Len(w) = Len(a) + Len(b)
        /\ \A i \in 1 .. Len(a) + Len(b) : w[i] = IF i <= Len(a) THEN a[i] ELSE b[i - Len(a)]
    BY <2>2, <2>4, <2>5, ConcatProperties, Zenon
  <2>7. Len(w) = Len(q) - 1
    BY <2>1, <2>3, <2>4, <2>5, <2>6
  <2>8. \A i \in 1 .. Len(w) : \/ i < p /\ w[i] = q[i]
                               \/ i >= p /\ w[i] = q[i + 1]
    <3> TAKE i \in 1 .. Len(w)
    <3>1. CASE i < p
      <4>1. i \in 1 .. p - 1 /\ i <= Len(a) /\ i \in 1 .. Len(a) + Len(b)
        BY <3>1, <2>1, <2>3, <2>4, <2>6
      <4>2. w[i] = a[i]
        BY <4>1, <2>6
      <4>3. a[i] = q[i]
        BY <4>1, <2>4
      <4> QED BY <3>1, <4>2, <4>3
    <3>2. CASE i >= p
      <4> DEFINE x == i - (p - 1)
      <4>1. x \in 1 .. Len(q) - p /\ p + x = i + 1
        BY <3>2, <2>1, <2>3, <2>7
      <4>2. w[i] = b[x]
        BY <3>2, <2>1, <2>3, <2>4, <2>6
      <4> HIDE DEF x
      <4>3. b[x] = q[p + x]
        BY <4>1, <2>5
      <4> QED BY <3>2, <4>1, <4>2, <4>3
    <3> QED BY <3>1, <3>2, <2>3, <2>7
  <2>9. \A i \in 1 .. Len(w) : i \in 1 .. Len(q) /\ i + 1 \in 1 .. Len(q)
    BY <2>3, <2>7
  <2>10. Once(w)
    <3> SUFFICES ASSUME NEW i \in 1 .. Len(w), NEW k \in 1 .. Len(w), w[i] = w[k]
                 PROVE  i = k
      BY DEF Once
    <3> QED BY <2>3, <2>7, <2>8, <2>9 DEF Once
  <2>11. \A i \in 1 .. Len(w) : w[i] # j
    BY <2>1, <2>3, <2>7, <2>8, <2>9 DEF Once
  <2>12. \A i \in 1 .. Len(w) : Holds(q, w[i])
    BY <2>8, <2>9 DEF Holds
  <2> QED BY <2>6, <2>10, <2>11, <2>12 DEF w, Holds
<1> QED BY <1>1, <1>2

\* No job has the number 0.
LEMMA NoJobKept == QueueInv => ~ Holds(job_queue, NoJob) /\ NoJob \notin quiet
  BY DEF QueueInv, Holds, NoJob, Jobs

\* A callback of the client counts for one job only.
LEMMA JpegCbKeeps ==
  ASSUME QueueInv, NEW j \in Jobs, NEW status, JpegCb(j, status)
  PROVE  /\ answers' \in Seq(Nat) /\ Jobs' = Jobs
         /\ \A k \in Jobs : k # j => answers'[k] = answers[k]
<1>1. Len(answers) \in Nat /\ answers \in Seq(Nat) /\ j \in 1 .. Len(answers)
  BY DEF QueueInv, Jobs
<1>2. answers' = [answers EXCEPT ![j] = @ + 1]
  BY DEF JpegCb
<1>3. answers' \in Seq(Nat) /\ Len(answers') = Len(answers)
  BY <1>1, <1>2
<1> QED BY <1>1, <1>2, <1>3 DEF Jobs

-----------------------------------------------------------------------------
(* Every step keeps the invariant.                                             *)

\* Nothing is started yet.
LEMMA JpegInvInit == JpegInit => JpegInv
<1> SUFFICES ASSUME JpegInit PROVE JpegInv
  OBVIOUS
<1>1. Len(answers) = 0 /\ Jobs = {} /\ answers \in Seq(Nat)
  BY DEF JpegInit, Jobs
<1>2. job_queue \in Seq(Jobs) /\ Len(job_queue) = 0
  BY DEF JpegInit
<1>3. QueueInv
  BY <1>1, <1>2 DEF JpegInit, QueueInv, Holds, Once, NoJob
<1>4. /\ mgr \in [pc : {"wait", "take", "putback"} \cup Processing,
                  job : Jobs \cup {NoJob}, empty : BOOLEAN]
      /\ api \in [call : {"none", "start", "abort", "destroy"},
                  pc : {"idle", "post"} \cup Aborting \cup Destroying,
                  job : Jobs \cup {NoJob}]
  BY Zenon DEF JpegInit
<1>5. LockInv
  BY <1>4 DEF JpegInit, LockInv, Processing, Aborting, Destroying
<1>6. HandleInv
  BY DEF JpegInit, HandleInv, Processing, Aborting, Destroying
<1>7. CodecInv
  BY DEF JpegInit, CodecInv, Aborting, Destroying
<1> QED BY <1>3, <1>5, <1>6, <1>7 DEF JpegInv

\* Where a job is.
LEMMA QueueKept == JpegInv /\ JpegStep => QueueInv'
<1> SUFFICES ASSUME JpegInv, JpegStep PROVE QueueInv'
  OBVIOUS
<1> USE DEF JpegInv, QueueInv, LockInv, Jobs, NoJob, Processing, Aborting, Destroying, session, queues, device, history
<1>1. CASE CreateSession
  BY <1>1 DEF CreateSession, ApiIdle
<1>2. CASE StartJob
  <2> DEFINE n == Len(answers) + 1
  <2>1. /\ n \in Nat /\ answers' \in Seq(Nat) /\ Jobs' = 1 .. n
        /\ Jobs \subseteq Jobs' /\ n \in Jobs' /\ n \notin Jobs /\ n # NoJob
    BY <1>2 DEF StartJob
  <2>2. job_queue \in Seq(Jobs') /\ ~ Holds(job_queue, n)
    <3>1. job_queue \in Seq(Jobs')
      BY <2>1
    <3>2. \A i \in 1 .. Len(job_queue) : job_queue[i] \in Jobs
      OBVIOUS
    <3> QED BY <3>1, <3>2, <2>1 DEF Holds
  <2>3. /\ job_queue' = Append(job_queue, n) /\ quiet' = quiet /\ mgr' = mgr
        /\ ongoing_job_q' = ongoing_job_q /\ api'.call = "start"
    BY <1>2 DEF StartJob
  <2> HIDE DEF n
  <2>4. /\ job_queue' \in Seq(Jobs') /\ Once(job_queue')
        /\ \A j : Holds(job_queue', j) => Holds(job_queue, j) \/ j = n
    BY <2>1, <2>2, <2>3, AppendKeeps
  <2> QED BY <2>1, <2>3, <2>4
<1>3. CASE PostJob
  BY <1>3 DEF PostJob, Returns
<1>4. ASSUME NEW j, AbortJob(j) PROVE QueueInv'
  <2>1. /\ job_queue' = Without(job_queue, j) /\ ongoing_job_q' \subseteq Jobs
        /\ answers' = answers /\ mgr' = mgr
    BY <1>4 DEF AbortJob
  <2>2. /\ job_queue' \in Seq(Jobs) /\ Once(job_queue') /\ ~ Holds(job_queue', j)
        /\ \A k : Holds(job_queue', k) => Holds(job_queue, k)
    BY <2>1, WithoutKeeps, Zenon
  <2>3. CASE j \in ongoing_job_q
    <3>1. quiet' = quiet /\ api'.call = "abort" /\ api'.job = j
      BY <1>4, <2>3 DEF AbortJob
    <3> QED BY <2>1, <2>2, <2>3, <3>1
  <2>4. CASE j \notin ongoing_job_q
    <3>1. quiet' = quiet \cup ({j} \cap Jobs) /\ api' = api /\ mgr.job = NoJob /\ NoJob \notin Jobs
      BY <1>4, <2>4 DEF AbortJob, ApiIdle
    <3>2. api.call # "abort"
      BY <1>4 DEF AbortJob, ApiIdle
    <3> QED BY <2>1, <2>2, <3>1, <3>2
  <2> QED BY <2>3, <2>4
<1>5. CASE DestroySession
  <2>1. /\ job_queue' = <<>> /\ ongoing_job_q' = {} /\ api'.call = "destroy"
        /\ answers' = answers /\ mgr' = mgr /\ quiet' = quiet
    BY <1>5 DEF DestroySession
  <2>2. job_queue' \in Seq(Jobs') /\ Once(job_queue') /\ \A k : ~ Holds(job_queue', k)
    BY <2>1 DEF Once, Holds
  <2> QED BY <2>1, <2>2
<1>6. CASE SessionAbort
  BY <1>6 DEF SessionAbort, Aborted, Returns
<1>7. CASE SendIdle
  BY <1>7 DEF SendIdle
<1>8. CASE AbortCheck
  <2>1. /\ mgr' = mgr /\ answers' = answers /\ job_queue' = job_queue
        /\ ongoing_job_q' = ongoing_job_q /\ api.pc = "check"
    BY <1>8, Zenon DEF AbortCheck
  <2>2. mgr.job = NoJob /\ NoJob \notin Jobs
    BY <2>1
  <2>3. CASE abort_state = "INIT"
    <3>1. api' = [api EXCEPT !.pc = "aborting"] /\ quiet' = quiet
      BY <1>8, <2>3, Zenon DEF AbortCheck
    <3>2. api'.call = api.call /\ api'.job = api.job
      BY <3>1
    <3> QED BY <2>1, <3>1, <3>2
  <2>4. CASE abort_state # "INIT" /\ api.call = "abort"
    <3>1. quiet' = quiet \cup {api.job} /\ api'.call = "none"
      BY <1>8, <2>4 DEF AbortCheck, Aborted, Returns
    <3> QED BY <2>1, <2>2, <2>4, <3>1
  <2>5. CASE abort_state # "INIT" /\ api.call # "abort"
    <3>1. quiet' = quiet /\ api'.call # "abort"
      BY <1>8, <2>5 DEF AbortCheck, Aborted
    <3> QED BY <2>1, <3>1
  <2> QED BY <2>3, <2>4, <2>5
<1>9. CASE AbortWake
  BY <1>9 DEF AbortWake, Aborted, Returns
<1>10. CASE SessionDestroy
  BY <1>10 DEF SessionDestroy
<1>11. CASE Unloaded
  BY <1>11 DEF Unloaded
<1>12. CASE FreeSession
  <2>1. /\ job_queue' = <<>> /\ quiet' = Jobs /\ api'.call = "none" /\ mgr' = mgr
        /\ ongoing_job_q' = ongoing_job_q /\ answers' = answers
    BY <1>12 DEF FreeSession, Returns
  <2>2. job_queue' \in Seq(Jobs') /\ Once(job_queue') /\ \A k : ~ Holds(job_queue', k)
    BY <2>1 DEF Once, Holds
  <2>3. mgr.job = NoJob /\ NoJob \notin Jobs
    BY <1>12 DEF FreeSession
  <2> QED BY <2>1, <2>2, <2>3
<1>13. CASE JobMgrWakes
  BY <1>13 DEF JobMgrWakes
<1>14. CASE JobMgrTakes
  <2>1. CASE job_queue = <<>>
    BY <1>14, <2>1 DEF JobMgrTakes
  <2>2. CASE job_queue # <<>>
    <3>1. /\ job_queue' = Tail(job_queue) /\ mgr'.job = Head(job_queue) /\ api' = api
          /\ answers' = answers /\ quiet' = quiet /\ ongoing_job_q' = ongoing_job_q
      BY <1>14, <2>2 DEF JobMgrTakes
    <3>2. /\ Head(job_queue) \in Jobs /\ Holds(job_queue, Head(job_queue))
          /\ job_queue' \in Seq(Jobs) /\ Once(job_queue') /\ ~ Holds(job_queue', Head(job_queue))
          /\ \A k : Holds(job_queue', k) => Holds(job_queue, k)
      BY <2>2, <3>1, TailKeeps, Zenon
    <3> QED BY <3>1, <3>2
  <2> QED BY <2>1, <2>2
<1>15. CASE JobMgrPutsBack
  <2>1. /\ mgr'.job = NoJob /\ api' = api /\ answers' = answers /\ quiet' = quiet
        /\ ongoing_job_q' = ongoing_job_q
    BY <1>15 DEF JobMgrPutsBack
  <2>2. mgr.job \in Jobs /\ ~ Holds(job_queue, mgr.job) /\ api.call # "abort"
    BY <1>15 DEF JobMgrPutsBack
  <2>3. job_queue' \in {<<mgr.job>> \o job_queue, Append(job_queue, mgr.job)}
    BY <1>15 DEF JobMgrPutsBack
  <2>4. /\ job_queue' \in Seq(Jobs) /\ Once(job_queue')
        /\ \A k : Holds(job_queue', k) => Holds(job_queue, k) \/ k = mgr.job
    <3>1. CASE job_queue' = <<mgr.job>> \o job_queue
      BY <2>2, <3>1, ConsKeeps
    <3>2. CASE job_queue' = Append(job_queue, mgr.job)
      BY <2>2, <3>2, AppendKeeps
    <3> QED BY <2>3, <3>1, <3>2
  <2> QED BY <2>1, <2>2, <2>4, NoJobKept
<1>16. CASE EncodeBegins
  BY <1>16 DEF EncodeBegins
<1>17. CASE Encodes
  BY <1>17 DEF Encodes
<1>18. CASE Submits
  <2>1. /\ mgr'.job = NoJob /\ api' = api /\ answers' = answers /\ quiet' = quiet
        /\ ongoing_job_q' = ongoing_job_q /\ job_queue' = job_queue
    BY <1>18 DEF Submits
  <2> QED BY <2>1, NoJobKept
<1>19. CASE EncodeFails
  <2>1. jobId \in Jobs
    BY <1>19 DEF EncodeFails, CodecInv
  <2>2. answers' \in Seq(Nat) /\ Jobs' = Jobs
    BY <1>19, <2>1, JpegCbKeeps, Zenon DEF EncodeFails
  <2>3. /\ mgr'.job = mgr.job /\ api' = api /\ quiet' = quiet
        /\ ongoing_job_q' = ongoing_job_q /\ job_queue' = job_queue
    BY <1>19 DEF EncodeFails
  <2> QED BY <2>2, <2>3
<1>20. CASE FailedJobDone
  <2>1. /\ mgr'.job = NoJob /\ api' = api /\ answers' = answers /\ quiet' = quiet
        /\ ongoing_job_q' \subseteq Jobs /\ job_queue' = job_queue
    BY <1>20 DEF FailedJobDone
  <2> QED BY <2>1, NoJobKept
<1>21. CASE FillBufferDone
  <2>1. mgr' = mgr /\ api' = api /\ quiet' = quiet /\ queues' = queues
    BY <1>21 DEF FillBufferDone
  <2>2. CASE Delivers
    <3>1. jobId \in Jobs /\ JpegCb(jobId, "DONE")
      BY <1>21, <2>2 DEF FillBufferDone, Delivers, CodecInv, HandleInv
    <3>2. answers' \in Seq(Nat) /\ Jobs' = Jobs
      BY <3>1, JpegCbKeeps, Zenon
    <3> QED BY <2>1, <3>2
  <2>3. CASE ~ Delivers
    BY <1>21, <2>1, <2>3 DEF FillBufferDone
  <2> QED BY <2>2, <2>3
<1>22. CASE JobDoneRemoves
  BY <1>22 DEF JobDoneRemoves
<1>23. CASE JobDoneRequeues
  BY <1>23 DEF JobDoneRequeues
<1>24. CASE JobDonePosts
  BY <1>24 DEF JobDonePosts
<1>25. CASE EventError
  <2>1. mgr' = mgr /\ api' = api /\ quiet' = quiet /\ queues' = queues
    BY <1>25 DEF EventError
  <2>2. CASE abort_state # "INIT" /\ encoding
    <3>1. jobId \in Jobs /\ JpegCb(jobId, "ERROR")
      BY <1>25, <2>2 DEF EventError, CodecInv
    <3>2. answers' \in Seq(Nat) /\ Jobs' = Jobs
      BY <3>1, JpegCbKeeps, Zenon
    <3> QED BY <2>1, <3>2
  <2>3. CASE ~ (abort_state # "INIT" /\ encoding)
    BY <1>25, <2>1, <2>3 DEF EventError, EndsAbort
  <2> QED BY <2>2, <2>3
<1>26. CASE EventCmdComplete
  BY <1>26 DEF EventCmdComplete, EndsAbort
<1> QED BY <1>1, <1>2, <1>3, <1>4, <1>5, <1>6, <1>7, <1>8, <1>9, <1>10, <1>11, <1>12, <1>13, <1>14, <1>15, <1>16, <1>17, <1>18, <1>19, <1>20, <1>21, <1>22, <1>23, <1>24, <1>25, <1>26, Zenon DEF JpegStep, InCall, JobMgr, Codec, Callbacks, Answers

\* Who holds job_lock.
LEMMA LockKept == JpegInv /\ JpegStep => LockInv'
<1> SUFFICES ASSUME JpegInv, JpegStep PROVE LockInv'
  OBVIOUS
<1> USE DEF JpegInv, QueueInv, LockInv, Jobs, NoJob, Processing, Aborting, Destroying, session, queues, device, history
<1>1. CASE CreateSession
  BY <1>1 DEF CreateSession, ApiIdle
<1>2. CASE StartJob
  BY <1>2 DEF StartJob, ApiIdle
<1>3. CASE PostJob
  BY <1>3 DEF PostJob, Returns
<1>4. ASSUME NEW j, AbortJob(j) PROVE LockInv'
  <2>1. /\ mgr' = mgr /\ answers' = answers /\ job_lock = "none" /\ api.pc = "idle"
    BY <1>4 DEF AbortJob, ApiIdle
  <2>2. CASE j \in ongoing_job_q
    <3>1. api' = [call |-> "abort", pc |-> "abort", job |-> j] /\ job_lock' = "client"
      BY <1>4, <2>2 DEF AbortJob
    <3> QED BY <2>1, <2>2, <3>1
  <2>3. CASE j \notin ongoing_job_q
    <3>1. api' = api /\ job_lock' = job_lock
      BY <1>4, <2>3 DEF AbortJob
    <3> QED BY <2>1, <3>1
  <2> QED BY <2>2, <2>3
<1>5. CASE DestroySession
  BY <1>5 DEF DestroySession, ApiIdle
<1>6. CASE SessionAbort
  BY <1>6 DEF SessionAbort, Aborted, Returns
<1>7. CASE SendIdle
  BY <1>7 DEF SendIdle
<1>8. CASE AbortCheck
  BY <1>8 DEF AbortCheck, Aborted, Returns
<1>9. CASE AbortWake
  BY <1>9 DEF AbortWake, Aborted, Returns
<1>10. CASE SessionDestroy
  BY <1>10 DEF SessionDestroy
<1>11. CASE Unloaded
  BY <1>11 DEF Unloaded
<1>12. CASE FreeSession
  BY <1>12 DEF FreeSession, Returns
<1>13. CASE JobMgrWakes
  BY <1>13 DEF JobMgrWakes
<1>14. CASE JobMgrTakes
  <2>1. CASE job_queue = <<>>
    BY <1>14, <2>1 DEF JobMgrTakes
  <2>2. CASE job_queue # <<>>
    <3> DEFINE to == IF session_handle_q = 0 THEN "putback" ELSE "begin"
    <3>1. /\ mgr' = [pc |-> to, job |-> Head(job_queue), empty |-> Tail(job_queue) = <<>>]
          /\ api' = api /\ answers' = answers /\ job_lock = "none" /\ job_lock' = "mgr"
      BY <1>14, <2>2, Zenon DEF JobMgrTakes
    <3>2. to \in {"putback", "begin"} /\ Head(job_queue) \in Jobs /\ NoJob \notin Jobs
      BY <2>2
    <3>3. (Tail(job_queue) = <<>>) \in BOOLEAN
      BY Zenon
    <3> HIDE DEF to
    <3>4. /\ mgr' \in [pc : {"wait", "take", "putback"} \cup Processing,
                        job : Jobs \cup {NoJob}, empty : BOOLEAN]
          /\ mgr'.pc = to /\ mgr'.job = Head(job_queue)
      BY <3>1, <3>2, <3>3, Zenon
    <3> QED BY <3>1, <3>2, <3>4
  <2> QED BY <2>1, <2>2
<1>15. CASE JobMgrPutsBack
  <2>1. /\ mgr' = [mgr EXCEPT !.pc = "wait", !.job = NoJob] /\ job_lock' = "none"
        /\ api' = api /\ answers' = answers /\ job_lock = "mgr"
        /\ ongoing_job_q' = ongoing_job_q
    BY <1>15 DEF JobMgrPutsBack
  <2>2. /\ mgr' \in [pc : {"wait", "take", "putback"} \cup Processing,
                      job : Jobs \cup {NoJob}, empty : BOOLEAN]
        /\ mgr'.pc = "wait" /\ mgr'.job = NoJob
    BY <2>1
  <2>3. api.pc \notin Destroying /\ api.call # "destroy"
    BY <2>1
  <2> QED BY <2>1, <2>2, <2>3
<1>16. CASE EncodeBegins
  BY <1>16 DEF EncodeBegins
<1>17. CASE Encodes
  BY <1>17 DEF Encodes
<1>18. CASE Submits
  BY <1>18 DEF Submits
<1>19. CASE EncodeFails
  <2>1. jobId \in Jobs
    BY <1>19 DEF EncodeFails, CodecInv
  <2>2. Jobs' = Jobs
    BY <1>19, <2>1, JpegCbKeeps, Zenon DEF EncodeFails
  <2>3. /\ mgr' = [mgr EXCEPT !.pc = "failed"] /\ api' = api /\ job_lock' = job_lock
        /\ queues' = queues /\ mgr.pc \in Processing
    BY <1>19 DEF EncodeFails
  <2> QED BY <2>2, <2>3
<1>20. CASE FailedJobDone
  BY <1>20 DEF FailedJobDone
<1>21. CASE FillBufferDone
  BY <1>21 DEF FillBufferDone, JpegCb, Delivers
<1>22. CASE JobDoneRemoves
  BY <1>22 DEF JobDoneRemoves
<1>23. CASE JobDoneRequeues
  BY <1>23 DEF JobDoneRequeues
<1>24. CASE JobDonePosts
  BY <1>24 DEF JobDonePosts
<1>25. CASE EventError
  BY <1>25 DEF EventError, EndsAbort, JpegCb
<1>26. CASE EventCmdComplete
  BY <1>26 DEF EventCmdComplete, EndsAbort
<1> QED BY <1>1, <1>2, <1>3, <1>4, <1>5, <1>6, <1>7, <1>8, <1>9, <1>10, <1>11, <1>12, <1>13, <1>14, <1>15, <1>16, <1>17, <1>18, <1>19, <1>20, <1>21, <1>22, <1>23, <1>24, <1>25, <1>26, Zenon DEF JpegStep, InCall, JobMgr, Codec, Callbacks, Answers

\* Where the session's handle is.
LEMMA HandleKept == JpegInv /\ JpegStep => HandleInv'
<1> SUFFICES ASSUME JpegInv, JpegStep PROVE HandleInv'
  OBVIOUS
<1> USE DEF JpegInv, LockInv, HandleInv, CodecInv, Processing, Aborting, Destroying, session, queues, device, history
<1>1. CASE CreateSession
  BY <1>1 DEF CreateSession, ApiIdle
<1>2. CASE StartJob
  BY <1>2 DEF StartJob, ApiIdle
<1>3. CASE PostJob
  BY <1>3 DEF PostJob, Returns
<1>4. ASSUME NEW j, AbortJob(j) PROVE HandleInv'
  BY <1>4 DEF AbortJob, ApiIdle
<1>5. CASE DestroySession
  BY <1>5 DEF DestroySession, ApiIdle
<1>6. CASE SessionAbort
  BY <1>6 DEF SessionAbort, Aborted, Returns
<1>7. CASE SendIdle
  BY <1>7 DEF SendIdle
<1>8. CASE AbortCheck
  BY <1>8 DEF AbortCheck, Aborted, Returns
<1>9. CASE AbortWake
  BY <1>9 DEF AbortWake, Aborted, Returns
<1>10. CASE SessionDestroy
  BY <1>10 DEF SessionDestroy
<1>11. CASE Unloaded
  BY <1>11 DEF Unloaded
<1>12. CASE FreeSession
  BY <1>12 DEF FreeSession, Returns
<1>13. CASE JobMgrWakes
  BY <1>13 DEF JobMgrWakes
<1>14. CASE JobMgrTakes
  <2>1. /\ ongoing_job_q' = ongoing_job_q /\ api' = api /\ encoding' = encoding
        /\ abort_state' = abort_state /\ cb' = cb /\ lock' = lock /\ codec' = codec
        /\ commands' = commands /\ active' = active /\ job_lock = "none"
        /\ mgr.pc = "take"
    BY <1>14 DEF JobMgrTakes
  <2>2. \/ mgr'.pc \in {"wait", "putback"} /\ session_handle_q' = session_handle_q
        \/ /\ mgr'.pc = "begin" /\ session_handle_q = 1 /\ session_handle_q' = 0
    BY <1>14 DEF JobMgrTakes
  <2>3. CASE mgr'.pc \in {"wait", "putback"} /\ session_handle_q' = session_handle_q
    BY <2>1, <2>3
  <2>4. CASE mgr'.pc = "begin" /\ session_handle_q = 1 /\ session_handle_q' = 0
    <3>1. codec # "busy" /\ ~ encoding /\ cb \notin {"remove", "requeue"}
      BY <2>4
    <3>2. active /\ ~ commands > 0
      BY <2>1, <2>4
    <3> QED BY <2>1, <2>4, <3>1, <3>2
  <2> QED BY <2>2, <2>3, <2>4
<1>15. CASE JobMgrPutsBack
  BY <1>15 DEF JobMgrPutsBack
<1>16. CASE EncodeBegins
  BY <1>16 DEF EncodeBegins
<1>17. CASE Encodes
  BY <1>17 DEF Encodes
<1>18. CASE Submits
  BY <1>18 DEF Submits
<1>19. CASE EncodeFails
  BY <1>19 DEF EncodeFails, JpegCb
<1>20. CASE FailedJobDone
  BY <1>20 DEF FailedJobDone
<1>21. CASE FillBufferDone
  BY <1>21 DEF FillBufferDone, JpegCb, Delivers
<1>22. CASE JobDoneRemoves
  BY <1>22 DEF JobDoneRemoves
<1>23. CASE JobDoneRequeues
  BY <1>23 DEF JobDoneRequeues
<1>24. CASE JobDonePosts
  BY <1>24 DEF JobDonePosts
<1>25. CASE EventError
  BY <1>25 DEF EventError, EndsAbort, JpegCb
<1>26. CASE EventCmdComplete
  BY <1>26 DEF EventCmdComplete, EndsAbort
<1> QED BY <1>1, <1>2, <1>3, <1>4, <1>5, <1>6, <1>7, <1>8, <1>9, <1>10, <1>11, <1>12, <1>13, <1>14, <1>15, <1>16, <1>17, <1>18, <1>19, <1>20, <1>21, <1>22, <1>23, <1>24, <1>25, <1>26, Zenon DEF JpegStep, InCall, JobMgr, Codec, Callbacks, Answers

\* What the codec works at.
LEMMA CodecKept == JpegInv /\ JpegStep => CodecInv'
<1> SUFFICES ASSUME JpegInv, JpegStep PROVE CodecInv'
  OBVIOUS
<1> USE DEF JpegInv, QueueInv, LockInv, HandleInv, CodecInv, Jobs, NoJob, Processing, Aborting, Destroying, session, queues, device, history
<1>1. CASE CreateSession
  BY <1>1 DEF CreateSession, ApiIdle
<1>2. CASE StartJob
  BY <1>2 DEF StartJob, ApiIdle
<1>3. CASE PostJob
  BY <1>3 DEF PostJob, Returns
<1>4. ASSUME NEW j, AbortJob(j) PROVE CodecInv'
  BY <1>4 DEF AbortJob, ApiIdle
<1>5. CASE DestroySession
  BY <1>5 DEF DestroySession, ApiIdle
<1>6. CASE SessionAbort
  BY <1>6 DEF SessionAbort, Aborted, Returns
<1>7. CASE SendIdle
  BY <1>7 DEF SendIdle
<1>8. CASE AbortCheck
  BY <1>8 DEF AbortCheck, Aborted, Returns
<1>9. CASE AbortWake
  BY <1>9 DEF AbortWake, Aborted, Returns
<1>10. CASE SessionDestroy
  BY <1>10 DEF SessionDestroy
<1>11. CASE Unloaded
  BY <1>11 DEF Unloaded
<1>12. CASE FreeSession
  BY <1>12 DEF FreeSession, Returns
<1>13. CASE JobMgrWakes
  BY <1>13 DEF JobMgrWakes
<1>14. CASE JobMgrTakes
  BY <1>14 DEF JobMgrTakes
<1>15. CASE JobMgrPutsBack
  BY <1>15 DEF JobMgrPutsBack
<1>16. CASE EncodeBegins
  BY <1>16 DEF EncodeBegins
<1>17. CASE Encodes
  BY <1>17 DEF Encodes
<1>18. CASE Submits
  BY <1>18 DEF Submits
<1>19. CASE EncodeFails
  BY <1>19 DEF EncodeFails, JpegCb
<1>20. CASE FailedJobDone
  BY <1>20 DEF FailedJobDone
<1>21. CASE FillBufferDone
  BY <1>21 DEF FillBufferDone, JpegCb, Delivers
<1>22. CASE JobDoneRemoves
  BY <1>22 DEF JobDoneRemoves
<1>23. CASE JobDoneRequeues
  BY <1>23 DEF JobDoneRequeues
<1>24. CASE JobDonePosts
  BY <1>24 DEF JobDonePosts
<1>25. CASE EventError
  BY <1>25 DEF EventError, EndsAbort, JpegCb
<1>26. CASE EventCmdComplete
  BY <1>26 DEF EventCmdComplete, EndsAbort
<1> QED BY <1>1, <1>2, <1>3, <1>4, <1>5, <1>6, <1>7, <1>8, <1>9, <1>10, <1>11, <1>12, <1>13, <1>14, <1>15, <1>16, <1>17, <1>18, <1>19, <1>20, <1>21, <1>22, <1>23, <1>24, <1>25, <1>26, Zenon DEF JpegStep, InCall, JobMgr, Codec, Callbacks, Answers

-----------------------------------------------------------------------------
\* The whole invariant.
LEMMA JpegInvKept == JpegInv /\ JpegStep => JpegInv'
  BY QueueKept, LockKept, HandleKept, CodecKept DEF JpegInv

\* What the client reads or does beside the job manager disturbs nothing.
LEMMA JpegInvApart == JpegInv /\ UNCHANGED <<active, queues, job_lock, mgr, api,
                          session, woken, lock, device, answers, quiet>> => JpegInv'
  BY DEF JpegInv, QueueInv, LockInv, HandleInv, CodecInv, Jobs, queues, session, device

\* No step answers a job that is quiet.
LEMMA QuietUnanswered ==
  JpegInv /\ JpegStep => \A j \in quiet : answers'[j] = answers[j]
<1> SUFFICES ASSUME JpegInv, JpegStep PROVE \A j \in quiet : answers'[j] = answers[j]
  OBVIOUS
<1>1. quiet \subseteq Jobs /\ answers \in Seq(Nat) /\ QueueInv
  BY DEF JpegInv, QueueInv
<1>2. ASSUME NEW status, jobId \in Jobs, jobId \notin quiet, JpegCb(jobId, status)
      PROVE  \A j \in quiet : answers'[j] = answers[j]
  BY <1>1, <1>2, JpegCbKeeps
<1>3. CASE StartJob
  BY <1>1, <1>3 DEF StartJob, Jobs
<1>4. CASE EncodeFails
  <2>1. jobId \in Jobs /\ jobId \notin quiet /\ JpegCb(jobId, "ERROR")
    BY <1>4 DEF EncodeFails, JpegInv, QueueInv, LockInv, CodecInv, Processing
  <2> QED BY <1>2, <2>1
<1>5. CASE FillBufferDone /\ Delivers
  <2>1. jobId \in Jobs /\ jobId \notin quiet /\ JpegCb(jobId, "DONE")
    BY <1>5 DEF FillBufferDone, Delivers, JpegInv, HandleInv, CodecInv
  <2> QED BY <1>2, <2>1
<1>6. CASE EventError /\ abort_state # "INIT" /\ encoding
  <2>1. jobId \in Jobs /\ jobId \notin quiet /\ JpegCb(jobId, "ERROR")
    BY <1>6 DEF EventError, JpegInv, CodecInv
  <2> QED BY <1>2, <2>1
<1>7. CASE FillBufferDone /\ ~ Delivers
  BY <1>7 DEF FillBufferDone
<1>8. CASE EventError /\ ~ (abort_state # "INIT" /\ encoding)
  BY <1>8 DEF EventError, EndsAbort
<1>9. CASE InCall
  BY <1>9 DEF InCall, PostJob, SessionAbort, SendIdle, AbortCheck, AbortWake,
              SessionDestroy, Unloaded, FreeSession, history
<1>10. CASE JobMgr /\ ~ EncodeFails
  BY <1>10 DEF JobMgr, JobMgrWakes, JobMgrTakes, JobMgrPutsBack, EncodeBegins,
              Encodes, Submits, FailedJobDone, history
<1>11. CASE Callbacks \/ EventCmdComplete
  BY <1>11 DEF Callbacks, JobDoneRemoves, JobDoneRequeues, JobDonePosts,
               EventCmdComplete, EndsAbort, history
<1>12. CASE CreateSession \/ DestroySession \/ \E j : AbortJob(j)
  BY <1>12 DEF CreateSession, DestroySession, AbortJob, history
<1> QED BY <1>3, <1>4, <1>5, <1>6, <1>7, <1>9, <1>10, <1>11, <1>12, <1>8, Zenon
        DEF JpegStep, JobMgr, Codec, Answers
-----------------------------------------------------------------------------
(* The types of the job manager's variables.                                   *)

\* The variables JpegInv says nothing of.
JpegRest ==
    /\ active \in BOOLEAN /\ job_sem \in Nat
    /\ job_lock \in {"none", "mgr", "client"} /\ lock \in {"none", "codec"}
    /\ abort_state \in {"NONE", "INIT", "DONE"} /\ encoding \in BOOLEAN
    /\ config \in BOOLEAN /\ error_flag \in BOOLEAN
    /\ state_change_pending \in BOOLEAN /\ woken \in BOOLEAN
    /\ codec \in {"none", "ready", "busy", "failed"}
    /\ cb \in {"idle", "remove", "requeue", "post"}
JpegHistory ==
    /\ jobId \in 0 .. Len(answers)
    /\ events \in Seq([job : Jobs, status : {"DONE", "ERROR"}])

\* Together with the invariant they make the type invariant of MmJpeg.
LEMMA JpegTypesOf == JpegInv => (JpegTypeOK <=> JpegRest /\ JpegHistory)
<1> SUFFICES ASSUME JpegInv PROVE JpegTypeOK <=> JpegRest /\ JpegHistory
  OBVIOUS
<1>1. /\ answers \in Seq(Nat) /\ quiet \subseteq Jobs /\ job_queue \in Seq(Jobs)
      /\ ongoing_job_q \subseteq Jobs /\ session_handle_q \in Nat /\ commands \in Nat
  BY DEF JpegInv, QueueInv, HandleInv
<1>2. Jobs \cup {NoJob} = 0 .. Len(answers)
  <2>1. Len(answers) \in Nat
    BY <1>1
  <2> QED BY <2>1 DEF Jobs, NoJob
<1>3. mgr \in [pc : {"wait", "take", "putback", "begin", "encode", "submit", "failed"},
               job : 0 .. Len(answers), empty : BOOLEAN]
  <2>1. {"wait", "take", "putback"} \cup Processing
           = {"wait", "take", "putback", "begin", "encode", "submit", "failed"}
    BY DEF Processing
  <2> QED BY <1>2, <2>1, Zenon DEF JpegInv, LockInv
<1>4. api \in [call : {"none", "start", "abort", "destroy"},
               pc : {"idle", "post", "abort", "send", "check", "aborting",
                     "destroy", "unload", "free"},
               job : 0 .. Len(answers)]
  <2>1. {"idle", "post"} \cup Aborting \cup Destroying
           = {"idle", "post", "abort", "send", "check", "aborting", "destroy", "unload", "free"}
    BY DEF Aborting, Destroying
  <2> QED BY <1>2, <2>1, Zenon DEF JpegInv, LockInv
<1> QED BY <1>1, <1>3, <1>4, Zenon DEF JpegTypeOK, JpegRest, JpegHistory

\* Nothing is started yet.
LEMMA JpegTypesInit == JpegInit => JpegTypeOK
<1> SUFFICES ASSUME JpegInit PROVE JpegTypeOK
  OBVIOUS
<1>1. JpegRest
  BY DEF JpegInit, JpegRest
<1>2. JpegHistory
  BY DEF JpegInit, JpegHistory, NoJob
<1> QED BY <1>1, <1>2, JpegInvInit, JpegTypesOf

\* Every step keeps them.
LEMMA JpegRestKept == JpegInv /\ JpegRest /\ JpegStep => JpegRest'
<1> SUFFICES ASSUME JpegInv, JpegRest, JpegStep PROVE JpegRest'
  OBVIOUS
<1> USE DEF JpegRest, session, queues, device, history
<1>1. CASE CreateSession \/ StartJob \/ DestroySession
  BY <1>1 DEF CreateSession, StartJob, DestroySession
<1>2. ASSUME NEW j, AbortJob(j) PROVE JpegRest'
  BY <1>2 DEF AbortJob
<1>3. CASE PostJob \/ SendIdle \/ SessionDestroy \/ Unloaded \/ FreeSession
  <2>1. CASE PostJob
    BY <2>1 DEF PostJob
  <2>2. CASE SendIdle
    BY <2>2 DEF SendIdle
  <2>3. CASE SessionDestroy
    BY <2>3 DEF SessionDestroy
  <2>4. CASE Unloaded
    BY <2>4 DEF Unloaded
  <2>5. CASE FreeSession
    <3>1. job_sem' \in Nat
      BY <2>5 DEF FreeSession
    <3>2. /\ active' = FALSE /\ codec' = "none" /\ config' = FALSE /\ job_lock' = "none"
          /\ UNCHANGED <<abort_state, encoding, error_flag, state_change_pending,
                         woken, lock, cb>>
      BY <2>5, Zenon DEF FreeSession
    <3> QED BY <3>1, <3>2
  <2> QED BY <1>3, <2>1, <2>2, <2>3, <2>4, <2>5
<1>4. CASE SessionAbort \/ AbortCheck \/ AbortWake
  <2>1. Aborted => job_lock' \in {"none", "mgr", "client"}
    BY DEF Aborted
  <2>2. CASE SessionAbort
    BY <2>1, <2>2 DEF SessionAbort
  <2>3. CASE AbortCheck
    BY <2>1, <2>3 DEF AbortCheck
  <2>4. CASE AbortWake
    BY <2>1, <2>4 DEF AbortWake
  <2> QED BY <1>4, <2>2, <2>3, <2>4
<1>5. CASE JobMgr
  <2> USE <1>5 DEF JobMgr
  <2>1. CASE JobMgrWakes
    BY <2>1 DEF JobMgrWakes
  <2>2. CASE JobMgrTakes \/ JobMgrPutsBack \/ EncodeBegins \/ Encodes \/ Submits
    BY <2>2 DEF JobMgrTakes, JobMgrPutsBack, EncodeBegins, Encodes, Submits
  <2>3. CASE EncodeFails
    BY <2>3 DEF EncodeFails
  <2>4. CASE FailedJobDone
    <3>1. job_sem' \in Nat
      BY <2>4 DEF FailedJobDone
    <3>2. /\ encoding' = FALSE /\ job_lock' = "none"
          /\ UNCHANGED <<active, abort_state, config, error_flag, state_change_pending,
                         woken, lock, codec, cb>>
      BY <2>4, Zenon DEF FailedJobDone
    <3> QED BY <3>1, <3>2
  <2> QED BY <2>1, <2>2, <2>3, <2>4
<1>6. CASE FillBufferDone \/ EventError
  BY <1>6 DEF FillBufferDone, EventError, EndsAbort
<1>7. CASE EventCmdComplete \/ Callbacks
  <2>1. CASE EventCmdComplete
    BY <2>1 DEF EventCmdComplete, EndsAbort
  <2>2. CASE JobDoneRemoves \/ JobDoneRequeues
    BY <2>2 DEF JobDoneRemoves, JobDoneRequeues
  <2>3. CASE JobDonePosts
    BY <2>3 DEF JobDonePosts
  <2> QED BY <1>7, <2>1, <2>2, <2>3 DEF Callbacks
<1> QED BY <1>1, <1>2, <1>3, <1>4, <1>5, <1>6, <1>7, Zenon DEF JpegStep, InCall, Codec, Answers

\* The client is called about a job.
LEMMA JpegCbHistory ==
  ASSUME JpegInv, JpegHistory, jobId \in Jobs, jobId' = jobId,
         NEW status \in {"DONE", "ERROR"}, JpegCb(jobId, status)
  PROVE  JpegHistory'
<1> DEFINE E == [job : Jobs, status : {"DONE", "ERROR"}]
           e == [job |-> jobId, status |-> status]
<1>1. answers \in Seq(Nat) /\ answers' = [answers EXCEPT ![jobId] = @ + 1]
  BY DEF JpegInv, QueueInv, JpegCb
<1>2. Len(answers') = Len(answers) /\ Jobs' = Jobs
  BY <1>1 DEF Jobs
<1>3. e \in E /\ events \in Seq(E) /\ events' = Append(events, e)
  BY DEF JpegHistory, JpegCb
<1> HIDE DEF e, E
<1>4. events' \in Seq(E)
  BY <1>3
<1> QED BY <1>2, <1>4, Zenon DEF JpegHistory, E

\* Every step keeps the types of the history.
LEMMA JpegHistoryKept == JpegInv /\ JpegHistory /\ JpegStep => JpegHistory'
<1> SUFFICES ASSUME JpegInv, JpegHistory, JpegStep PROVE JpegHistory'
  OBVIOUS
<1> DEFINE E == [job : Jobs, status : {"DONE", "ERROR"}]
<1> USE DEF session, queues, device, history
<1>1. answers \in Seq(Nat) /\ Len(answers) \in Nat
  BY DEF JpegInv, QueueInv
<1>2. UNCHANGED <<jobId, answers, events>> => JpegHistory'
  BY DEF JpegHistory, Jobs
<1>3. CASE CreateSession
  <2>1. jobId' = 0 /\ UNCHANGED <<answers, events>>
    BY <1>3 DEF CreateSession, NoJob
  <2> QED BY <1>1, <2>1 DEF JpegHistory, Jobs
<1>4. CASE StartJob
  <2>1. /\ Len(answers') = Len(answers) + 1 /\ answers' = Append(answers, 0)
        /\ UNCHANGED <<jobId, events>>
    BY <1>1, <1>4 DEF StartJob
  <2>2. Jobs \subseteq Jobs' /\ jobId \in 0 .. Len(answers')
    BY <1>1, <2>1 DEF Jobs, JpegHistory
  <2> DEFINE E2 == [job : Jobs', status : {"DONE", "ERROR"}]
  <2>3. E \subseteq E2
    BY <2>2
  <2>4. events \in Seq(E)
    BY DEF JpegHistory
  <2> HIDE DEF E, E2
  <2>5. events \in Seq(E2)
    BY <2>3, <2>4
  <2> QED BY <2>1, <2>2, <2>5, Zenon DEF JpegHistory, E2
<1>5. CASE DestroySession
  BY <1>2, <1>5, Zenon DEF DestroySession
<1>6. ASSUME NEW j, AbortJob(j) PROVE JpegHistory'
  BY <1>2, <1>6, Zenon DEF AbortJob
<1>7. CASE InCall
  BY <1>2, <1>7, Zenon DEF InCall, PostJob, SessionAbort, SendIdle, AbortCheck, AbortWake,
     SessionDestroy, Unloaded, FreeSession
<1>8. CASE JobMgrWakes \/ JobMgrTakes \/ JobMgrPutsBack \/ Encodes \/ Submits \/ FailedJobDone
  BY <1>2, <1>8, Zenon DEF JobMgrWakes, JobMgrTakes, JobMgrPutsBack, Encodes, Submits, FailedJobDone
<1>9. CASE EncodeBegins
  <2>1. jobId' = mgr.job /\ UNCHANGED <<answers, events>>
    BY <1>9 DEF EncodeBegins
  <2>2. mgr.job \in 0 .. Len(answers)
    BY <1>1 DEF JpegInv, QueueInv, Jobs, NoJob
  <2> QED BY <2>1, <2>2 DEF JpegHistory, Jobs
<1>10. CASE EncodeFails
  <2>1. jobId \in Jobs
    BY <1>10 DEF EncodeFails, JpegInv, CodecInv, QueueInv
  <2>2. jobId' = jobId /\ JpegCb(jobId, "ERROR")
    BY <1>10 DEF EncodeFails
  <2> QED BY <2>1, <2>2, JpegCbHistory
<1>11. CASE FillBufferDone
  <2>1. CASE Delivers
    <3>1. jobId' = jobId /\ JpegCb(jobId, "DONE") /\ codec = "busy"
      BY <1>11, <2>1 DEF FillBufferDone, Delivers, JpegInv, HandleInv
    <3>2. jobId \in Jobs
      BY <3>1 DEF JpegInv, CodecInv
    <3> QED BY <3>1, <3>2, JpegCbHistory
  <2>2. CASE ~ Delivers
    BY <1>2, <1>11, <2>2, Zenon DEF FillBufferDone
  <2> QED BY <2>1, <2>2
<1>12. CASE EventError
  <2>1. jobId' = jobId /\ jobId \in Jobs
    BY <1>12 DEF EventError, JpegInv, CodecInv
  <2>2. CASE abort_state # "INIT" /\ encoding
    <3>1. JpegCb(jobId, "ERROR")
      BY <1>12, <2>2 DEF EventError
    <3> QED BY <2>1, <3>1, JpegCbHistory
  <2>3. CASE ~ (abort_state # "INIT" /\ encoding)
    <3>1. UNCHANGED <<jobId, answers, events>>
      BY <1>12, <2>3, <2>1 DEF EventError, EndsAbort
    <3> QED BY <1>2, <3>1
  <2> QED BY <2>2, <2>3
<1>13. CASE EventCmdComplete
  BY <1>2, <1>13, Zenon DEF EventCmdComplete, EndsAbort
<1>14. CASE Callbacks
  BY <1>2, <1>14, Zenon DEF Callbacks, JobDoneRemoves, JobDoneRequeues, JobDonePosts
<1> QED BY <1>3, <1>4, <1>5, <1>6, <1>7, <1>8, <1>9, <1>10, <1>11, <1>12, <1>13, <1>14, Zenon
        DEF JpegStep, JobMgr, Codec, Answers

\* Every step keeps the type invariant of the job manager.
LEMMA JpegTypesKept == JpegInv /\ JpegTypeOK /\ JpegStep => JpegTypeOK'
<1> SUFFICES ASSUME JpegInv, JpegTypeOK, JpegStep PROVE JpegTypeOK'
  OBVIOUS
<1>1. JpegRest /\ JpegHistory
  BY JpegTypesOf
<1>2. JpegInv' /\ JpegRest' /\ JpegHistory'
  BY <1>1, JpegInvKept, JpegRestKept, JpegHistoryKept
<1>3. (JpegTypeOK <=> JpegRest /\ JpegHistory)'
  BY <1>2, JpegTypesOf, PTL
<1> QED BY <1>2, <1>3
\* A job is never forgotten.
LEMMA JobsGrow ==
  ASSUME JpegInv, JpegStep
  PROVE  Len(answers) \in Nat /\ Len(answers') \in Nat /\ Len(answers) <= Len(answers')
<1> USE DEF session, queues, device, history
<1>1. answers \in Seq(Nat) /\ Len(answers) \in Nat
  BY DEF JpegInv, QueueInv
<1>2. answers' = answers => Len(answers') \in Nat /\ Len(answers) <= Len(answers')
  BY <1>1
<1>3. ASSUME NEW j, NEW status, JpegCb(j, status)
      PROVE  Len(answers') \in Nat /\ Len(answers) <= Len(answers')
  <2>1. answers' = [answers EXCEPT ![j] = @ + 1]
    BY <1>3 DEF JpegCb
  <2> QED BY <1>1, <2>1
<1>4. CASE StartJob
  BY <1>1, <1>4 DEF StartJob
<1>5. CASE CreateSession \/ DestroySession \/ (\E j : AbortJob(j))
  BY <1>2, <1>5, Zenon DEF CreateSession, DestroySession, AbortJob
<1>6. CASE InCall
  BY <1>2, <1>6, Zenon DEF InCall, PostJob, SessionAbort, SendIdle, AbortCheck, AbortWake,
     SessionDestroy, Unloaded, FreeSession
<1>7. CASE JobMgrWakes \/ JobMgrTakes \/ JobMgrPutsBack \/ EncodeBegins \/ Encodes \/ Submits
           \/ FailedJobDone
  BY <1>2, <1>7, Zenon DEF JobMgrWakes, JobMgrTakes, JobMgrPutsBack, EncodeBegins, Encodes,
     Submits, FailedJobDone
<1>8. CASE EncodeFails \/ FillBufferDone \/ EventError
  <2>1. answers' = answers \/ \E j, status : JpegCb(j, status)
    <3>1. CASE EncodeFails
      BY <3>1, Zenon DEF EncodeFails
    <3>2. CASE FillBufferDone
      BY <3>2, Zenon DEF FillBufferDone
    <3>3. CASE EventError
      BY <3>3, Zenon DEF EventError, EndsAbort
    <3> QED BY <1>8, <3>1, <3>2, <3>3
  <2> QED BY <1>2, <1>3, <2>1
<1>9. CASE EventCmdComplete \/ Callbacks
  BY <1>2, <1>9, Zenon DEF EventCmdComplete, EndsAbort, Callbacks, JobDoneRemoves,
     JobDoneRequeues, JobDonePosts
<1> QED BY <1>1, <1>4, <1>5, <1>6, <1>7, <1>8, <1>9, Zenon DEF JpegStep, JobMgr, Codec, Answers
=============================================================================
