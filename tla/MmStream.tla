------------------------------ MODULE MmStream ------------------------------
(* A stream of the camera interface, mm_camera_stream.c, together with the     *)
(* threads that share it:                                                      *)
(*   - the control thread, inside mm_channel_start / mm_channel_stop (ctl);    *)
(*   - the channel's data poll thread, inside mm_stream_data_notify (pp);      *)
(*   - the stream's own command thread (Cmd) and the client threads that give  *)
(*     buffers back with mm_camera_qbuf, all inside mm_stream_buf_done (pc).   *)
(* A section under buf_lock is one action; what runs between two sections, or  *)
(* under no lock at all, is another. The V4L2 driver is modelled by what the   *)
(* ioctls of the code expect from it. Among what may fail are the nodes that   *)
(* the poll thread passes a buffer on with: the code has counted the reference *)
(* by then and only logs the error, so that nobody ever gives it back. The     *)
(* auxiliary variable lost counts these; no guard reads it.                    *)
EXTENDS Naturals, Integers, Sequences, FiniteSets

CONSTANTS
  NumBufs,       \* buf_num, the number of buffers of the stream
  InitReg,       \* the buffers whose initial_reg_flag is set
  Client,        \* threads of the upper layer that give buffers back
  Cmd,           \* the stream's own command thread
  Bundled,       \* is_bundled: the channel has a super-buffer callback
  HasCb,         \* the stream has an asynchronous data callback
  Linkable,      \* another channel may link this stream
  MaxFail,       \* bound: ioctls and allocations that fail in a run
  MaxSession,    \* bound: times the channel is started in a run
  QuietRestart   \* timing: no callback of one session outlives its restart

Buf == 1 .. NumBufs
Releaser == Client \cup {Cmd}

\* HAL1 links metadata and preview streams only, and both carry a callback.
ASSUME StreamAssumption ==
  /\ NumBufs \in 1 .. 63
  /\ InitReg \subseteq Buf
  /\ IsFiniteSet(Client) /\ Cmd \notin Client
  /\ {Bundled, HasCb, Linkable, QuietRestart} \subseteq BOOLEAN
  /\ Linkable => HasCb
  /\ MaxFail \in Nat /\ MaxSession \in Nat

VARIABLES
  state,      \* mm_stream_t.state
  refcnt,     \* buf_status[b].buf_refcnt
  inKernel,   \* buf_status[b].in_kernel
  queued,     \* queued_buffer_count
  isLinked,   \* is_linked
  cmdActive,  \* cmd_thread.is_active
  cmdQ,       \* cmd_thread.cmd_queue, the DATA_CB nodes
  cmdExit,    \* an EXIT node was put on the queue
  cmdLock,    \* cmd_lock is held by the control thread
  entry,      \* poll_entries[idx] holds the stream's fd and callback
  polled,     \* poll_fds[idx + 1] holds the stream's fd
  pipe,       \* commands written to the poll thread's pipe
  sigDone,    \* the poll thread's answer to a synchronous command
  pp, pbuf,   \* poll thread: where it is, and the buffer in its hands
  pc, rbuf,   \* releasers: where they are, and the buffer in their hands
  given,      \* references in the hands of the channel and the application
  ctl,        \* where the control thread is
  startFailed,\* mm_channel_start is undoing what it did
  reqd,       \* driver: buffers were requested and not yet released
  streaming,  \* driver: VIDIOC_STREAMON is in force
  kq, doneQ,  \* driver: buffers queued to be filled; filled, in order
  fails, sessions,
  lost        \* auxiliary: references in refcnt whose node was not allocated

statusVars == <<refcnt, inKernel, queued>>
cmdVars    == <<cmdActive, cmdQ, cmdExit, cmdLock>>
pollVars   == <<entry, polled, pipe, sigDone>>
ppVars     == <<pp, pbuf>>
relVars    == <<pc, rbuf>>
drvVars    == <<reqd, streaming, kq, doneQ>>
boundVars  == <<startFailed, fails, sessions, lost>>
vars == <<state, statusVars, isLinked, cmdVars, pollVars, ppVars, relVars,
          given, ctl, drvVars, boundVars>>

Byte == 0 .. 255
StreamState == {"CFG", "BUFFED", "REG", "ACTIVE"}
PollPc == {"poll", "woken", "notify", "dq", "uncount", "refs", "bundle", "link", "own"}
RelPc  == {"off", "idle", "app", "fsm", "check", "dec", "count", "ioctl", "undo", "mark"}
CtlPc  == {"cfg", "getbuf", "launch", "on", "onfailwait", "active", "offwait", "streamoff",
           "quit", "join", "unreg", "put"}
PipeCmd == {"updated", "async"}

NoBuf == 0
Flag(c) == IF c THEN 1 ELSE 0
SeqRange(s) == {s[i] : i \in DOMAIN s}
InDriver(b) == b \in kq \/ b \in SeqRange(doneQ)

StatusOK ==
  /\ refcnt \in [Buf -> Byte] /\ inKernel \in [Buf -> {0, 1}]
  /\ given \in [Buf -> Nat] /\ lost \in [Buf -> Nat]

QueuesOK == cmdQ \in Seq(Buf) /\ doneQ \in Seq(Buf) /\ pipe \in Seq(PipeCmd)

ControlOK ==
  /\ state \in StreamState /\ ctl \in CtlPc
  /\ kq \subseteq Buf /\ queued \in Int /\ fails \in Nat /\ sessions \in Nat

ThreadsOK ==
  /\ pp \in PollPc /\ pbuf \in Buf \cup {NoBuf}
  /\ pp \in {"uncount", "refs", "bundle", "link", "own"} => pbuf \in Buf
  /\ pc \in [Releaser -> RelPc] /\ rbuf \in [Releaser -> Buf \cup {NoBuf}]
  /\ \A r \in Releaser : pc[r] \notin {"off", "idle"} => rbuf[r] \in Buf

FlagsOK ==
  /\ isLinked \in BOOLEAN /\ cmdActive \in BOOLEAN
  /\ cmdExit \in BOOLEAN /\ cmdLock \in BOOLEAN
  /\ entry \in BOOLEAN /\ polled \in BOOLEAN /\ sigDone \in BOOLEAN
  /\ startFailed \in BOOLEAN /\ reqd \in BOOLEAN /\ streaming \in BOOLEAN

TypeOK == StatusOK /\ QueuesOK /\ ControlOK /\ ThreadsOK /\ FlagsOK

\* The stream as mm_stream_config leaves it: configured, with no buffers.
Init ==
  /\ state = "CFG"
  /\ refcnt = [b \in Buf |-> 0] /\ inKernel = [b \in Buf |-> 0] /\ queued = 0
  /\ isLinked = FALSE
  /\ cmdActive = FALSE /\ cmdQ = <<>> /\ cmdExit = FALSE /\ cmdLock = FALSE
  /\ entry = FALSE /\ polled = FALSE /\ pipe = <<>> /\ sigDone = FALSE
  /\ pp = "poll" /\ pbuf = NoBuf
  /\ pc = [r \in Releaser |-> IF r = Cmd THEN "off" ELSE "idle"]
  /\ rbuf = [r \in Releaser |-> NoBuf]
  /\ given = [b \in Buf |-> 0]
  /\ ctl = "cfg" /\ startFailed = FALSE
  /\ reqd = FALSE /\ streaming = FALSE /\ kq = {} /\ doneQ = <<>>
  /\ fails = 0 /\ sessions = 0 /\ lost = [b \in Buf |-> 0]

\* An ioctl, a cache operation or an allocation that fails, at most MaxFail of
\* them in a run.
Fails == fails < MaxFail /\ fails' = fails + 1

\* No memory for the node: the reference to b stays counted and nobody has it.
Lose(b) == Fails /\ lost' = [lost EXCEPT ![b] = @ + 1]

-----------------------------------------------------------------------------
\* Variant for a mutation: the entry is changed and the poll thread not told.
AddPollFdUntold == entry' = TRUE /\ UNCHANGED pipe

\* mm_camera_poll_thread_add_poll_fd, asynchronous call.
AddPollFd == entry' = TRUE /\ pipe' = Append(pipe, "async")

\* mm_camera_poll_thread_del_poll_fd: an entry that is not there (handler 0)
\* returns 0 and writes nothing to the pipe, whatever the call type.
DelPollFd(cmd) ==
  /\ entry' = FALSE
  /\ pipe' = IF entry THEN Append(pipe, cmd) ELSE pipe

-----------------------------------------------------------------------------
(* mm_channel_start for this stream: GET_BUF, REG_BUF, START, and what undoes  *)
(* them on an error.                                                           *)

Quiet == pp = "poll" /\ \A r \in Client : pc[r] = "idle"

\* The upper layer keeps the buffers it does not register and forgets, when a
\* session starts, every reference of the session before.
GetBuf ==
  /\ ctl = "cfg" /\ sessions < MaxSession
  /\ QuietRestart => Quiet
  /\ sessions' = sessions + 1 /\ startFailed' = FALSE
  /\ \/ state' = "BUFFED" /\ ctl' = "getbuf" /\ UNCHANGED fails
     \/ Fails /\ UNCHANGED <<state, ctl>>
  /\ given' = [b \in Buf |-> 0] /\ UNCHANGED lost
  /\ UNCHANGED <<statusVars, isLinked, cmdVars, pollVars, ppVars, relVars, drvVars>>

\* What mm_stream_reg_buf counts: the buffers it queues, and for a buffer that
\* the upper layer keeps, the upper layer's reference.
RegisteredCount(first) == Cardinality(first)
RegisteredRefs(b) == Flag(b \notin InitReg)

\* REQBUFS is refused: no buffer was touched.
RegBufRefused ==
  /\ ctl = "getbuf" /\ Fails
  /\ startFailed' = TRUE /\ ctl' = "unreg"
  /\ UNCHANGED <<state, statusVars, isLinked, cmdVars, pollVars, ppVars, relVars, given,
                 drvVars, sessions, lost>>

\* mm_stream_reg_buf stops at the first buffer that is refused and leaves the
\* ones before it queued, with the poll entry they added. When it is the first
\* of all, its poll entry has been added and removed again, or nothing was if
\* the cache operation before failed.
RegBuf ==
  /\ ctl = "getbuf"
  /\ \E last \in 0 .. NumBufs :
       /\ \/ /\ last = NumBufs /\ state' = "REG" /\ ctl' = "launch"
             /\ UNCHANGED <<fails, startFailed>>
          \/ /\ last < NumBufs /\ last + 1 \in InitReg /\ Fails
             /\ startFailed' = TRUE /\ ctl' = "unreg" /\ UNCHANGED state
       /\ LET done == 1 .. last
              first == done \cap InitReg
          IN /\ refcnt' = [b \in Buf |-> IF b \in done THEN RegisteredRefs(b) ELSE refcnt[b]]
             /\ inKernel' = [b \in Buf |-> IF b \in done THEN Flag(b \in InitReg)
                                           ELSE inKernel[b]]
             /\ given' = [b \in Buf |-> Flag(b \in done \ InitReg)]
             /\ lost' = [b \in Buf |-> 0]
             /\ queued' = RegisteredCount(first)
             /\ kq' = first /\ doneQ' = <<>> /\ reqd' = TRUE
             /\ \/ /\ entry' = IF first # {} THEN TRUE ELSE entry /\ last = NumBufs
                   /\ pipe' = IF first # {} \/ last < NumBufs THEN Append(pipe, "async") ELSE pipe
                \/ first = {} /\ UNCHANGED <<entry, pipe>>
  /\ UNCHANGED <<isLinked, cmdVars, polled, sigDone, ppVars, relVars, streaming, sessions>>

\* MM_STREAM_EVT_START: the command thread first, then the state, then the ioctl.
Start ==
  /\ ctl = "launch" /\ ctl' = "on" /\ state' = "ACTIVE"
  /\ IF HasCb
       THEN /\ cmdActive' = TRUE /\ cmdQ' = <<>> /\ cmdExit' = FALSE
            /\ pc' = [pc EXCEPT ![Cmd] = "idle"]
       ELSE UNCHANGED <<cmdActive, cmdQ, cmdExit, pc>>
  /\ UNCHANGED <<statusVars, isLinked, cmdLock, pollVars, ppVars, rbuf, given, drvVars, boundVars>>

\* mm_stream_streamon: the wait for the mappings or VIDIOC_STREAMON may fail.
StreamOn ==
  /\ ctl = "on"
  /\ \/ /\ streaming' = TRUE /\ ctl' = "active"
        /\ UNCHANGED <<entry, pipe, sigDone, fails, startFailed>>
     \/ /\ Fails /\ startFailed' = TRUE /\ DelPollFd("updated") /\ sigDone' = FALSE
        /\ ctl' = IF entry THEN "onfailwait" ELSE "quit"
        /\ UNCHANGED streaming
  /\ UNCHANGED <<state, statusVars, isLinked, cmdVars, polled, ppVars, relVars, given,
                 reqd, kq, doneQ, sessions, lost>>

\* The synchronous removal returns once the poll thread has answered it.
WaitPoll ==
  /\ ctl \in {"onfailwait", "offwait"} /\ sigDone
  /\ ctl' = IF ctl = "offwait" THEN "streamoff" ELSE "quit"
  /\ UNCHANGED <<state, statusVars, isLinked, cmdVars, pollVars, ppVars, relVars, given,
                 drvVars, boundVars>>

-----------------------------------------------------------------------------
(* mm_channel_stop for this stream: STOP, UNREG_BUF, PUT_BUF.                  *)

\* mm_stream_streamoff, step 1: the fd leaves the poll thread.
StopPoll ==
  /\ ctl = "active" /\ ~isLinked
  /\ DelPollFd("updated") /\ sigDone' = FALSE
  /\ ctl' = IF entry THEN "offwait" ELSE "streamoff"
  /\ UNCHANGED <<state, statusVars, isLinked, cmdVars, polled, ppVars, relVars, given,
                 drvVars, boundVars>>

\* mm_stream_streamoff, step 2: the driver gives every buffer up.
StreamOff ==
  /\ ctl = "streamoff" /\ ctl' = "quit"
  /\ streaming' = FALSE /\ kq' = {} /\ doneQ' = <<>>
  /\ UNCHANGED <<state, statusVars, isLinked, cmdVars, pollVars, ppVars, relVars, given,
                 reqd, boundVars>>

\* Variant for a mutation: the join without the EXIT node.
QuitCmdWithoutExit ==
  /\ ctl = "quit" /\ HasCb
  /\ cmdLock' = TRUE /\ ctl' = "join"
  /\ UNCHANGED <<state, statusVars, isLinked, cmdActive, cmdQ, cmdExit, pollVars, ppVars,
                 relVars, given, drvVars, boundVars>>

\* mm_camera_cmd_thread_stop under cmd_lock: an EXIT node, then a join.
QuitCmd ==
  /\ ctl = "quit"
  /\ IF HasCb THEN cmdLock' = TRUE /\ cmdExit' = TRUE /\ ctl' = "join" /\ UNCHANGED state
              ELSE ctl' = "unreg" /\ state' = "REG" /\ UNCHANGED <<cmdLock, cmdExit>>
  /\ UNCHANGED <<statusVars, isLinked, cmdActive, cmdQ, pollVars, ppVars, relVars, given,
                 drvVars, boundVars>>

JoinCmd ==
  /\ ctl = "join" /\ pc[Cmd] = "off"
  /\ cmdLock' = FALSE /\ cmdActive' = FALSE /\ cmdExit' = FALSE
  /\ ctl' = "unreg" /\ state' = "REG"
  /\ UNCHANGED <<statusVars, isLinked, cmdQ, pollVars, ppVars, relVars, given, drvVars,
                 boundVars>>

\* UNREG_BUF acts in state REG only; after a failed REG_BUF it is ignored.
UnregBuf ==
  /\ ctl = "unreg" /\ ctl' = "put"
  /\ IF state = "REG"
       THEN /\ state' = "BUFFED" /\ reqd' = FALSE /\ kq' = {} /\ doneQ' = <<>>
            /\ refcnt' = [b \in Buf |-> 0] /\ inKernel' = [b \in Buf |-> 0]
       ELSE UNCHANGED <<state, reqd, kq, doneQ, refcnt, inKernel>>
  /\ UNCHANGED <<queued, isLinked, cmdVars, pollVars, ppVars, relVars, given, streaming,
                 boundVars>>

\* PUT_BUF: mm_channel_stop joined the channel's threads before it, the undoing
\* of a failed start did not. The upper layer's references end here.
PutBuf ==
  /\ ctl = "put" /\ (startFailed \/ \A r \in Client : pc[r] = "idle")
  /\ state' = "CFG" /\ ctl' = "cfg"
  /\ given' = [b \in Buf |-> 0]
  /\ UNCHANGED <<statusVars, isLinked, cmdVars, pollVars, ppVars, relVars, drvVars, boundVars>>

\* Another channel links or unlinks the stream, under buf_lock.
Link ==
  /\ Linkable /\ ctl = "active"
  /\ isLinked' = ~isLinked
  /\ UNCHANGED <<state, statusVars, cmdVars, pollVars, ppVars, relVars, given, ctl, drvVars,
                 boundVars>>

Control == GetBuf \/ RegBufRefused \/ RegBuf \/ Start \/ StreamOn \/ WaitPoll \/ StopPoll \/ StreamOff
           \/ QuitCmd \/ JoinCmd \/ UnregBuf \/ PutBuf

-----------------------------------------------------------------------------
(* The poll thread: mm_camera_poll_fn, then mm_stream_data_notify.             *)

\* mm_camera_poll_proc_pipe rebuilds poll_fds from the entries as they are now.
ProcPipe ==
  /\ pp = "poll" /\ pipe # <<>>
  /\ pipe' = Tail(pipe) /\ polled' = entry
  /\ sigDone' = (sigDone \/ Head(pipe) = "updated")
  /\ UNCHANGED <<state, statusVars, isLinked, cmdVars, entry, ppVars, relVars, given, ctl,
                 drvVars, boundVars>>

\* poll() reports the stream's fd; the pipe had nothing to read.
PollWake ==
  /\ pp = "poll" /\ pipe = <<>> /\ polled /\ doneQ # <<>>
  /\ pp' = "woken"
  /\ UNCHANGED <<state, statusVars, isLinked, cmdVars, pollVars, pbuf, relVars, given, ctl,
                 drvVars, boundVars>>

CallNotify ==
  /\ pp = "woken" /\ pp' = IF entry THEN "notify" ELSE "poll"
  /\ UNCHANGED <<state, statusVars, isLinked, cmdVars, pollVars, pbuf, relVars, given, ctl,
                 drvVars, boundVars>>

CheckActive ==
  /\ pp = "notify" /\ pp' = IF state = "ACTIVE" THEN "dq" ELSE "poll"
  /\ UNCHANGED <<state, statusVars, isLinked, cmdVars, pollVars, pbuf, relVars, given, ctl,
                 drvVars, boundVars>>

\* VIDIOC_DQBUF on a non-blocking fd: it fails when nothing is filled.
DqBuf ==
  /\ pp = "dq"
  /\ IF doneQ # <<>>
       THEN pbuf' = Head(doneQ) /\ doneQ' = Tail(doneQ) /\ pp' = "uncount"
       ELSE pp' = "poll" /\ UNCHANGED <<pbuf, doneQ>>
  /\ UNCHANGED <<state, statusVars, isLinked, cmdVars, pollVars, relVars, given, ctl, reqd,
                 streaming, kq, boundVars>>

\* Variant for a mutation: the last buffer leaves the poll entry in place.
UncountBufKeepsPolling ==
  /\ pp = "uncount" /\ pp' = "refs" /\ queued' = queued - 1
  /\ UNCHANGED <<state, refcnt, inKernel, isLinked, cmdVars, pollVars, pbuf, relVars, given,
                 ctl, drvVars, boundVars>>

\* mm_stream_read_msm_frame counts down; the last buffer stops the polling. When
\* the cache operation fails mm_stream_data_notify returns, and nobody has the
\* dequeued buffer.
UncountBuf ==
  /\ pp = "uncount"
  /\ queued' = queued - 1
  /\ IF queued' = 0 THEN DelPollFd("async") ELSE UNCHANGED <<entry, pipe>>
  /\ \/ pp' = "refs" /\ UNCHANGED <<pbuf, fails>>
     \/ Fails /\ pp' = "poll" /\ pbuf' = NoBuf
  /\ UNCHANGED <<state, refcnt, inKernel, isLinked, cmdVars, polled, sigDone, relVars,
                 given, ctl, drvVars, startFailed, sessions, lost>>

\* Variant for a mutation: only one of the two references is counted.
AddOneRef ==
  /\ pp = "refs" /\ pp' = "bundle"
  /\ inKernel' = [inKernel EXCEPT ![pbuf] = 0]
  /\ refcnt' = [refcnt EXCEPT ![pbuf] = (@ + 1) % 256]
  /\ UNCHANGED <<state, queued, isLinked, cmdVars, pollVars, pbuf, relVars, given, ctl,
                 drvVars, boundVars>>

AddRefs ==
  /\ pp = "refs" /\ pp' = "bundle"
  /\ inKernel' = [inKernel EXCEPT ![pbuf] = 0]
  /\ refcnt' = [refcnt EXCEPT ![pbuf] = (@ + Flag(Bundled) + Flag(HasCb)) % 256]
  /\ UNCHANGED <<state, queued, isLinked, cmdVars, pollVars, pbuf, relVars, given, ctl,
                 drvVars, boundVars>>

\* mm_stream_notify_channel for the stream's own channel.
NotifyBundle ==
  /\ pp = "bundle" /\ pp' = "link"
  /\ \/ given' = [given EXCEPT ![pbuf] = @ + Flag(Bundled)] /\ UNCHANGED <<fails, lost>>
     \/ Bundled /\ Lose(pbuf) /\ UNCHANGED given
  /\ UNCHANGED <<state, statusVars, isLinked, cmdVars, pollVars, pbuf, relVars, ctl, drvVars,
                 startFailed, sessions>>

\* Variant for a mutation: the linking channel's reference is not counted.
NotifyLinkedUncounted ==
  /\ pp = "link" /\ pp' = "own"
  /\ given' = [given EXCEPT ![pbuf] = @ + Flag(isLinked)]
  /\ UNCHANGED <<state, statusVars, isLinked, cmdVars, pollVars, pbuf, relVars, ctl, drvVars,
                 boundVars>>

\* The linking channel's reference is counted only now, under buf_lock.
NotifyLinked ==
  /\ pp = "link" /\ pp' = "own"
  /\ IF isLinked
       THEN /\ refcnt' = [refcnt EXCEPT ![pbuf] = (@ + 1) % 256]
            /\ \/ given' = [given EXCEPT ![pbuf] = @ + 1] /\ UNCHANGED <<fails, lost>>
               \/ Lose(pbuf) /\ UNCHANGED given
       ELSE UNCHANGED <<refcnt, given, fails, lost>>
  /\ UNCHANGED <<state, inKernel, queued, isLinked, cmdVars, pollVars, pbuf, relVars, ctl,
                 drvVars, startFailed, sessions>>

\* Variant for a mutation: the buffer never reaches the command thread.
NotifyNobody ==
  /\ pp = "own" /\ ~cmdLock /\ pp' = "poll" /\ pbuf' = NoBuf
  /\ UNCHANGED <<state, statusVars, isLinked, cmdVars, pollVars, relVars, given, ctl, drvVars,
                 boundVars>>

\* The reference for the callback goes to the command thread.
NotifyCmd ==
  /\ pp = "own" /\ ~cmdLock /\ pp' = "poll" /\ pbuf' = NoBuf
  /\ \/ /\ cmdQ' = IF HasCb /\ cmdActive THEN Append(cmdQ, pbuf) ELSE cmdQ
        /\ UNCHANGED <<fails, lost>>
     \/ HasCb /\ cmdActive /\ Lose(pbuf) /\ UNCHANGED cmdQ
  /\ UNCHANGED <<state, statusVars, isLinked, cmdActive, cmdExit, cmdLock, pollVars,
                 relVars, given, ctl, drvVars, startFailed, sessions>>

Poll == ProcPipe \/ PollWake \/ CallNotify \/ CheckActive \/ DqBuf \/ UncountBuf \/ AddRefs
        \/ NotifyBundle \/ NotifyLinked \/ NotifyCmd

-----------------------------------------------------------------------------
(* The stream's command thread: mm_stream_dispatch_app_data.                   *)

CmdPop ==
  /\ pc[Cmd] = "idle" /\ cmdQ # <<>>
  /\ cmdQ' = Tail(cmdQ)
  /\ pc' = [pc EXCEPT ![Cmd] = "app"] /\ rbuf' = [rbuf EXCEPT ![Cmd] = Head(cmdQ)]
  /\ UNCHANGED <<state, statusVars, isLinked, cmdActive, cmdExit, cmdLock, pollVars, ppVars,
                 given, ctl, drvVars, boundVars>>

\* Variant for a mutation: the application's reference is not counted.
AppCallbackUncounted ==
  /\ pc[Cmd] = "app"
  /\ given' = [given EXCEPT ![rbuf[Cmd]] = @ + 1]
  /\ pc' = [pc EXCEPT ![Cmd] = "check"]
  /\ UNCHANGED <<state, statusVars, isLinked, cmdVars, pollVars, ppVars, rbuf, ctl, drvVars,
                 boundVars>>

\* One more reference for the application, its callback, then buf_done.
AppCallback ==
  /\ pc[Cmd] = "app"
  /\ refcnt' = [refcnt EXCEPT ![rbuf[Cmd]] = (@ + 1) % 256]
  /\ given' = [given EXCEPT ![rbuf[Cmd]] = @ + 1]
  /\ pc' = [pc EXCEPT ![Cmd] = "check"]
  /\ UNCHANGED <<state, inKernel, queued, isLinked, cmdVars, pollVars, ppVars, rbuf, ctl,
                 drvVars, boundVars>>

\* The nodes behind EXIT are served before the thread ends.
CmdEnd ==
  /\ pc[Cmd] = "idle" /\ cmdExit /\ cmdQ = <<>>
  /\ pc' = [pc EXCEPT ![Cmd] = "off"]
  /\ UNCHANGED <<state, statusVars, isLinked, cmdVars, pollVars, ppVars, rbuf, given, ctl,
                 drvVars, boundVars>>

-----------------------------------------------------------------------------
(* mm_camera_qbuf by a client, and mm_stream_buf_done by every releaser.       *)

Goto(r, where) ==
  /\ pc' = [pc EXCEPT ![r] = where]
  /\ rbuf' = [rbuf EXCEPT ![r] = IF where = "idle" THEN NoBuf ELSE @]

\* Clients act in dataCB context: from the end of the start to PUT_BUF.
Qbuf(c, b) ==
  /\ pc[c] = "idle" /\ ctl \notin {"cfg", "getbuf", "launch", "on"}
  /\ given[b] > 0
  /\ given' = [given EXCEPT ![b] = @ - 1]
  /\ pc' = [pc EXCEPT ![c] = "fsm"] /\ rbuf' = [rbuf EXCEPT ![c] = b]
  /\ UNCHANGED <<state, statusVars, isLinked, cmdVars, pollVars, ppVars, ctl, drvVars,
                 boundVars>>

\* QBUF is an event of state ACTIVE; the default branch of the others returns 0.
QbufFsm(c) ==
  /\ pc[c] = "fsm"
  /\ Goto(c, IF state = "ACTIVE" THEN "check" ELSE "idle")
  /\ UNCHANGED <<state, statusVars, isLinked, cmdVars, pollVars, ppVars, given, ctl, drvVars,
                 boundVars>>

CheckRef(r) ==
  /\ pc[r] = "check"
  /\ Goto(r, IF refcnt[rbuf[r]] = 0 THEN "idle" ELSE "dec")
  /\ UNCHANGED <<state, statusVars, isLinked, cmdVars, pollVars, ppVars, given, ctl, drvVars,
                 boundVars>>

\* Variant for a mutation: a signed count.
DecRefSigned(r) ==
  /\ pc[r] = "dec"
  /\ refcnt' = [refcnt EXCEPT ![rbuf[r]] = @ - 1]
  /\ Goto(r, IF refcnt'[rbuf[r]] = 0 THEN "count" ELSE "idle")
  /\ UNCHANGED <<state, inKernel, queued, isLinked, cmdVars, pollVars, ppVars, given, ctl,
                 drvVars, boundVars>>

\* uint8_t: a count that was reset to 0 in between wraps to 255.
DecRef(r) ==
  /\ pc[r] = "dec"
  /\ refcnt' = [refcnt EXCEPT ![rbuf[r]] = (@ + 255) % 256]
  /\ Goto(r, IF refcnt'[rbuf[r]] = 0 THEN "count" ELSE "idle")
  /\ UNCHANGED <<state, inKernel, queued, isLinked, cmdVars, pollVars, ppVars, given, ctl,
                 drvVars, boundVars>>

\* mm_stream_qbuf counts up before the ioctl; the first buffer starts the polling.
\* It does nothing when the cache operation before fails.
CountBuf(r) ==
  /\ pc[r] = "count"
  /\ \/ /\ queued' = queued + 1
        /\ IF queued' = 1 THEN AddPollFd ELSE UNCHANGED <<entry, pipe>>
        /\ Goto(r, "ioctl") /\ UNCHANGED fails
     \/ Fails /\ Goto(r, "idle") /\ UNCHANGED <<queued, entry, pipe>>
  /\ UNCHANGED <<state, refcnt, inKernel, isLinked, cmdVars, polled, sigDone, ppVars, given,
                 ctl, drvVars, startFailed, sessions, lost>>

\* Variant for a mutation: a refused buffer stays counted.
QbufIoctlNoUndo(r) ==
  /\ pc[r] = "ioctl"
  /\ \/ reqd /\ kq' = kq \cup {rbuf[r]} /\ Goto(r, "mark") /\ UNCHANGED fails
     \/ ~reqd /\ Goto(r, "idle") /\ UNCHANGED <<kq, fails>>
     \/ reqd /\ Fails /\ Goto(r, "idle") /\ UNCHANGED kq
  /\ UNCHANGED <<state, statusVars, isLinked, cmdVars, pollVars, ppVars, given, ctl, reqd,
                 streaming, doneQ, startFailed, sessions, lost>>

\* VIDIOC_QBUF is refused when no buffers are requested.
QbufIoctl(r) ==
  /\ pc[r] = "ioctl"
  /\ \/ reqd /\ kq' = kq \cup {rbuf[r]} /\ Goto(r, "mark") /\ UNCHANGED fails
     \/ ~reqd /\ Goto(r, "undo") /\ UNCHANGED <<kq, fails>>
     \/ reqd /\ Fails /\ Goto(r, "undo") /\ UNCHANGED kq
  /\ UNCHANGED <<state, statusVars, isLinked, cmdVars, pollVars, ppVars, given, ctl, reqd,
                 streaming, doneQ, startFailed, sessions, lost>>

UncountFailed(r) ==
  /\ pc[r] = "undo"
  /\ queued' = queued - 1
  /\ IF queued' = 0 THEN DelPollFd("async") ELSE UNCHANGED <<entry, pipe>>
  /\ Goto(r, "idle")
  /\ UNCHANGED <<state, refcnt, inKernel, isLinked, cmdVars, polled, sigDone, ppVars, given,
                 ctl, drvVars, boundVars>>

\* The flag is written after the ioctl and outside buf_lock.
MarkInKernel(r) ==
  /\ pc[r] = "mark"
  /\ inKernel' = [inKernel EXCEPT ![rbuf[r]] = 1]
  /\ Goto(r, "idle")
  /\ UNCHANGED <<state, refcnt, queued, isLinked, cmdVars, pollVars, ppVars, given, ctl,
                 drvVars, boundVars>>

BufDone(r) == CheckRef(r) \/ DecRef(r) \/ CountBuf(r) \/ QbufIoctl(r) \/ UncountFailed(r)
              \/ MarkInKernel(r)

-----------------------------------------------------------------------------
(* The driver.                                                                 *)

FillBuf ==
  /\ streaming
  /\ \E b \in kq : kq' = kq \ {b} /\ doneQ' = Append(doneQ, b)
  /\ UNCHANGED <<state, statusVars, isLinked, cmdVars, pollVars, ppVars, relVars, given, ctl,
                 reqd, streaming, boundVars>>

\* mm_stream_cancel_buf: the driver hands back a buffer that nobody references.
CancelBuf ==
  /\ state = "ACTIVE"
  /\ \E b \in kq : refcnt[b] = 0 /\ kq' = kq \ {b} /\ doneQ' = Append(doneQ, b)
  /\ UNCHANGED <<state, statusVars, isLinked, cmdVars, pollVars, ppVars, relVars, given, ctl,
                 reqd, streaming, boundVars>>

\* Every session is over: the stream rests in CFG.
Done == ctl = "cfg" /\ sessions = MaxSession /\ UNCHANGED vars

Next ==
  \/ Control \/ Link
  \/ Poll
  \/ CmdPop \/ AppCallback \/ CmdEnd
  \/ \E c \in Client : QbufFsm(c) \/ \E b \in Buf : Qbuf(c, b)
  \/ \E r \in Releaser : BufDone(r)
  \/ FillBuf \/ CancelBuf
  \/ Done

Spec == Init /\ [][Next]_vars

\* Each thread keeps running, the control thread once it has begun to start or
\* to stop; whoever holds a buffer gives it back at some time.
Fairness ==
  /\ WF_vars(Control /\ ctl \notin {"cfg", "active"})
  /\ WF_vars(Poll)
  /\ WF_vars(CmdPop \/ AppCallback \/ CmdEnd \/ BufDone(Cmd))
  /\ \A c \in Client : WF_vars(QbufFsm(c) \/ BufDone(c))
  /\ \A b \in Buf : SF_vars(\E c \in Client : Qbuf(c, b))

FairSpec == Spec /\ Fairness
-----------------------------------------------------------------------------
(* What makes the stream correct.                                              *)

\* Where the poll thread still owes or holds a reference to the buffer it took.
PollHolds(b) ==
  /\ pbuf = b
  /\ \/ pp \in {"uncount", "refs"}
     \/ pp = "bundle" /\ (Bundled \/ HasCb)
     \/ pp \in {"link", "own"} /\ HasCb

At(places, b) == {r \in Releaser : pc[r] \in places /\ rbuf[r] = b}
InUse == {"fsm", "app", "check", "dec"}
OnTheWay == {"count", "ioctl"}

\* A buffer the driver may write is in nobody else's hands: no reference is
\* counted, held by the channel, the application or a thread, and no second
\* thread is about to queue it (buf_refcnt against VIDIOC_QBUF / VIDIOC_DQBUF).
DriverOwnsAlone ==
  \A b \in Buf : InDriver(b) =>
    /\ refcnt[b] = 0 /\ given[b] = 0 /\ b \notin SeqRange(cmdQ)
    /\ ~PollHolds(b) /\ At(InUse \cup OnTheWay, b) = {}

\* References to b: with the channel and the application, with threads, waiting
\* for the command thread, and those the poll thread has counted but not passed on.
Refs(b) ==
  given[b] + Cardinality(At(InUse, b)) + Cardinality({i \in DOMAIN cmdQ : cmdQ[i] = b})
  + (IF pbuf # b THEN 0
     ELSE IF pp = "bundle" THEN Flag(Bundled) + Flag(HasCb)
     ELSE IF pp \in {"link", "own"} THEN Flag(HasCb) ELSE 0)

\* While the stream runs buf_refcnt is the number of references that somebody
\* will give back, plus one for every node that could not be allocated, and no
\* others: one too few gives a buffer to the driver too early, one too many
\* never does.
RefsAccounted ==
  ctl = "active" => \A b \in Buf : refcnt[b] = Refs(b) + lost[b] /\ lost[b] <= fails

\* queued_buffer_count is what the driver has, plus the buffers counted before
\* their ioctl and the one dequeued but not yet uncounted.
CountMatchesDriver ==
  ctl \in {"on", "active"} =>
    queued = Cardinality({b \in Buf : InDriver(b)})
             + Cardinality({r \in Releaser : pc[r] \in {"ioctl", "undo"}})
             + Flag(pp = "uncount")

\* The stream's fd is in the poll entries exactly while buffers are queued, and
\* the poll set differs from the entries only while an update is in the pipe.
PolledWhileQueued ==
  /\ ctl \in {"on", "active"} => (entry <=> queued > 0)
  /\ polled # entry => pipe # <<>>

\* Once mm_channel_stop has begun it ends, whatever the poll thread, the command
\* thread behind cmd_lock and the clients are doing.
StopCompletes == ctl \in {"offwait", "streamoff", "quit", "join"} ~> ctl = "cfg"

\* A filled buffer of a running stream is dequeued: asynchronous updates of the
\* poll set never leave the poll thread blind to a stream that has buffers.
FilledIsDequeued ==
  \A b \in Buf : ctl = "active" /\ b \in SeqRange(doneQ) ~> b \notin SeqRange(doneQ)

\* A referenced buffer of a running stream gets back to the driver: no reference
\* is lost between the poll thread, the command thread and the clients.
BufferComesBack ==
  \A b \in Buf : ctl = "active" /\ refcnt[b] > 0 ~> InDriver(b) \/ ctl # "active"

-----------------------------------------------------------------------------
(* A running stream, with all its threads, is the abstract BufferOwnership.     *)

PhaseOf(b) ==
  IF InDriver(b) THEN "driver"
  ELSE IF pbuf = b /\ pp \in {"uncount", "refs"} THEN "taken"
  ELSE IF Refs(b) + lost[b] > 0 THEN "shared"
  ELSE IF At(OnTheWay, b) # {} THEN "returning" ELSE "stranded"

Ownership == INSTANCE BufferOwnership WITH
  open  <- ctl = "active",
  phase <- [b \in Buf |-> IF ctl = "active" THEN PhaseOf(b) ELSE "closed"],
  users <- [b \in Buf |-> IF ctl = "active" THEN Refs(b) ELSE 0],
  lost  <- [b \in Buf |-> IF ctl = "active" THEN lost[b] ELSE 0],
  failures <- fails

\* While the stream is on, every step of any thread moves a buffer the way
\* BufferOwnership allows or moves none: a reference is added only while one is
\* held, no reference disappears but by a release or by a failure, only the last
\* release sends the buffer back, the driver gets it from nowhere else, and only
\* a failure keeps it from the driver for good.
ImplementsOwnership == Ownership!Spec

=============================================================================
