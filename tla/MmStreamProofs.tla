--------------------------- MODULE MmStreamProofs ---------------------------
(* Theorems about MmStream, for every number of buffers and of clients: types  *)
(* and polling first, then who has a buffer, what counts it, and refinement.   *)
(* SMT does not relate a Boolean-valued variable to BOOLEAN and Zenon does no  *)
(* arithmetic, so Zenon takes the steps apart and SMT finishes them.           *)
EXTENDS MmStream, FiniteSetTheorems, SequenceTheorems, TLAPS

\* What the queue operators return stays in the set of sequences they work on.
LEMMA SeqFacts ==
  ASSUME NEW S, NEW q \in Seq(S)
  PROVE  /\ <<>> \in Seq(S)
         /\ \A e \in S : Append(q, e) \in Seq(S)
         /\ q # <<>> => Head(q) \in S /\ Tail(q) \in Seq(S)
  OBVIOUS

-----------------------------------------------------------------------------
\* The reference counts, flags and references of the buffers keep their types.
LEMMA StatusStep == StatusOK /\ ThreadsOK /\ [Next]_vars => StatusOK'
<1>1. ASSUME StatusOK, GetBuf PROVE StatusOK'
  BY <1>1, SMT DEF StatusOK, GetBuf, statusVars
<1>2. ASSUME StatusOK, RegBuf PROVE StatusOK'
  <2>1. PICK last \in 0 .. NumBufs : RegBuf!2!(last)
    BY <1>2, Zenon DEF RegBuf
  <2>2. /\ refcnt' = [b \in Buf |-> IF b \in 1 .. last THEN Flag(b \notin InitReg) ELSE refcnt[b]]
        /\ inKernel' = [b \in Buf |-> IF b \in 1 .. last THEN Flag(b \in InitReg) ELSE inKernel[b]]
        /\ given' = [b \in Buf |-> Flag(b \in (1 .. last) \ InitReg)]
        /\ lost' = [b \in Buf |-> 0]
    BY <2>1, Zenon DEF RegisteredRefs
  <2> QED
    BY <1>2, <2>2, SMT DEF StatusOK, Byte, Flag
<1>3. ASSUME StatusOK, UnregBuf PROVE StatusOK'
  <2>1. /\ UNCHANGED <<given, lost>>
        /\ \/ UNCHANGED <<refcnt, inKernel>>
           \/ refcnt' = [b \in Buf |-> 0] /\ inKernel' = [b \in Buf |-> 0]
    BY <1>3, Zenon DEF UnregBuf, boundVars
  <2> QED
    BY <1>3, <2>1, SMT DEF StatusOK, Byte
<1>4. ASSUME StatusOK, PutBuf PROVE StatusOK'
  BY <1>4, SMT DEF StatusOK, PutBuf, statusVars, boundVars
<1>5. ASSUME StatusOK, ThreadsOK, AddRefs PROVE StatusOK'
  BY <1>5, SMT DEF StatusOK, ThreadsOK, AddRefs, Byte, Flag, boundVars
<1>6. ASSUME StatusOK, ThreadsOK, NotifyBundle PROVE StatusOK'
  BY <1>6, SMT DEF StatusOK, ThreadsOK, NotifyBundle, Flag, statusVars, Lose
<1>7. ASSUME StatusOK, ThreadsOK, NotifyLinked PROVE StatusOK'
  BY <1>7, SMT DEF StatusOK, ThreadsOK, NotifyLinked, Byte, Lose
<1>8. ASSUME StatusOK, ThreadsOK, AppCallback PROVE StatusOK'
  <2>1. rbuf[Cmd] \in Buf
    BY <1>8, Zenon DEF ThreadsOK, AppCallback, Releaser
  <2>2. /\ refcnt' = [refcnt EXCEPT ![rbuf[Cmd]] = (@ + 1) % 256]
        /\ given' = [given EXCEPT ![rbuf[Cmd]] = @ + 1] /\ UNCHANGED <<inKernel, lost>>
    BY <1>8, Zenon DEF AppCallback, boundVars
  <2> QED
    BY <1>8, <2>1, <2>2, SMT DEF StatusOK, Byte
<1>9. ASSUME StatusOK, NEW c \in Client, NEW b \in Buf, Qbuf(c, b) PROVE StatusOK'
  BY <1>9, SMT DEF StatusOK, Qbuf, statusVars, boundVars
<1>10. ASSUME StatusOK, ThreadsOK, NEW r \in Releaser, DecRef(r) PROVE StatusOK'
  BY <1>10, SMT DEF StatusOK, ThreadsOK, DecRef, Byte, boundVars
<1>11. ASSUME StatusOK, ThreadsOK, NEW r \in Releaser, MarkInKernel(r) PROVE StatusOK'
  BY <1>11, SMT DEF StatusOK, ThreadsOK, MarkInKernel, boundVars
<1>12. ASSUME \/ Start \/ StreamOn \/ WaitPoll \/ StopPoll \/ StreamOff \/ QuitCmd \/ JoinCmd
              \/ RegBufRefused \/ Link \/ ProcPipe \/ PollWake \/ CallNotify \/ CheckActive
       PROVE  UNCHANGED <<statusVars, given, lost>>
  BY <1>12, Zenon DEF Start, StreamOn, WaitPoll, StopPoll, StreamOff, QuitCmd, JoinCmd,
     RegBufRefused, Link, ProcPipe, PollWake, CallNotify, CheckActive, boundVars
<1>13. ASSUME \/ DqBuf \/ UncountBuf \/ CmdPop \/ CmdEnd \/ FillBuf \/ CancelBuf
              \/ UNCHANGED vars
       PROVE  UNCHANGED <<refcnt, inKernel, given, lost>>
  BY <1>13, Zenon DEF DqBuf, UncountBuf, CmdPop, CmdEnd, FillBuf, CancelBuf, vars, statusVars,
     boundVars
<1>14. ASSUME NEW r \in Releaser,
              QbufFsm(r) \/ CheckRef(r) \/ CountBuf(r) \/ QbufIoctl(r) \/ UncountFailed(r)
       PROVE  UNCHANGED <<refcnt, inKernel, given, lost>>
  BY <1>14, Zenon DEF QbufFsm, CheckRef, CountBuf, QbufIoctl, UncountFailed, statusVars, boundVars
<1>15. ASSUME StatusOK, UNCHANGED <<refcnt, inKernel, given, lost>> PROVE StatusOK'
  BY <1>15 DEF StatusOK
<1>16. ASSUME StatusOK, ThreadsOK, NotifyCmd PROVE StatusOK'
  <2>1. /\ UNCHANGED <<refcnt, inKernel, given>>
        /\ lost' = lost \/ lost' = [lost EXCEPT ![pbuf] = @ + 1]
    BY <1>16, Zenon DEF NotifyCmd, Lose, statusVars
  <2>2. pbuf \in Buf
    BY <1>16, Zenon DEF ThreadsOK, NotifyCmd
  <2> QED
    BY <1>16, <2>1, <2>2, SMT DEF StatusOK
<1> QED
  BY <1>1, <1>2, <1>3, <1>4, <1>5, <1>6, <1>7, <1>8, <1>9, <1>10, <1>11, <1>12, <1>13, <1>14,
     <1>15, <1>16, Zenon
  DEF Next, Control, Poll, BufDone, Done, statusVars, Releaser

-----------------------------------------------------------------------------
\* The queues hold buffers of the stream and known commands.
LEMMA QueuesStep == QueuesOK /\ ThreadsOK /\ ControlOK /\ [Next]_vars => QueuesOK'
<1> "updated" \in PipeCmd /\ "async" \in PipeCmd
  BY DEF PipeCmd
<1>1. ASSUME RegBuf
      PROVE  doneQ' = <<>> /\ cmdQ' = cmdQ /\ pipe' \in {pipe, Append(pipe, "async")}
  <2>1. PICK last \in 0 .. NumBufs : RegBuf!2!(last)
    BY <1>1, Zenon DEF RegBuf
  <2>2. doneQ' = <<>> /\ (pipe' = pipe \/ pipe' = Append(pipe, "async"))
    BY <2>1, Zenon
  <2> QED
    BY <1>1, <2>2, Zenon DEF RegBuf, cmdVars
<1>2. ASSUME QueuesOK, Start PROVE QueuesOK'
  BY <1>2, SeqFacts, Zenon DEF QueuesOK, Start, pollVars, drvVars
<1>3. ASSUME StreamOn \/ StopPoll
      PROVE  UNCHANGED <<cmdQ, doneQ>> /\ pipe' \in {pipe, Append(pipe, "updated")}
  BY <1>3, Zenon DEF StreamOn, StopPoll, DelPollFd, cmdVars, drvVars
<1>4. ASSUME QueuesOK, StreamOff PROVE QueuesOK'
  BY <1>4, SeqFacts, Zenon DEF QueuesOK, StreamOff, pollVars, cmdVars
<1>5. ASSUME QueuesOK, UnregBuf PROVE QueuesOK'
  BY <1>5, SeqFacts, Zenon DEF QueuesOK, UnregBuf, pollVars, cmdVars
<1>6. ASSUME QueuesOK, ProcPipe PROVE QueuesOK'
  BY <1>6, SeqFacts, Zenon DEF QueuesOK, ProcPipe, cmdVars, drvVars
<1>7. ASSUME QueuesOK, DqBuf PROVE QueuesOK'
  BY <1>7, SeqFacts, Zenon DEF QueuesOK, DqBuf, pollVars, cmdVars
<1>8. ASSUME UncountBuf \/ \E r \in Releaser : CountBuf(r) \/ UncountFailed(r)
      PROVE  UNCHANGED <<cmdQ, doneQ>> /\ pipe' \in {pipe, Append(pipe, "async")}
  BY <1>8, Zenon DEF UncountBuf, CountBuf, UncountFailed, AddPollFd, DelPollFd, cmdVars, drvVars
<1>9. ASSUME QueuesOK, ThreadsOK, NotifyCmd PROVE QueuesOK'
  <2>1. pbuf \in Buf
    BY <1>9, Zenon DEF ThreadsOK, NotifyCmd
  <2> QED
    BY <1>9, <2>1, SeqFacts, Zenon DEF QueuesOK, NotifyCmd, pollVars, drvVars
<1>10. ASSUME QueuesOK, CmdPop PROVE QueuesOK'
  BY <1>10, SeqFacts, Zenon DEF QueuesOK, CmdPop, pollVars, drvVars
<1>11. ASSUME QueuesOK, ControlOK, FillBuf \/ CancelBuf PROVE QueuesOK'
  <2>1. UNCHANGED <<cmdQ, pipe>> /\ \E b \in kq : doneQ' = Append(doneQ, b)
    BY <1>11, Zenon DEF FillBuf, CancelBuf, cmdVars, pollVars
  <2>2. kq \subseteq Buf
    BY <1>11 DEF ControlOK
  <2> QED
    BY <1>11, <2>1, <2>2, SMT DEF QueuesOK
<1>12. ASSUME \/ GetBuf \/ RegBufRefused \/ WaitPoll \/ QuitCmd \/ JoinCmd \/ PutBuf \/ Link
              \/ PollWake \/ CallNotify \/ CheckActive \/ AddRefs
       PROVE  UNCHANGED <<cmdQ, doneQ, pipe>>
  BY <1>12, Zenon DEF GetBuf, RegBufRefused, WaitPoll, QuitCmd, JoinCmd, PutBuf, Link, PollWake,
     CallNotify, CheckActive, AddRefs, cmdVars, drvVars, pollVars
<1>13. ASSUME \/ NotifyBundle \/ NotifyLinked \/ AppCallback \/ CmdEnd \/ UNCHANGED vars
       PROVE  UNCHANGED <<cmdQ, doneQ, pipe>>
  BY <1>13, Zenon DEF NotifyBundle, NotifyLinked, AppCallback, CmdEnd, vars, cmdVars, drvVars,
     pollVars
<1>14. ASSUME \E r \in Releaser : QbufFsm(r) \/ (\E b \in Buf : Qbuf(r, b)) \/ CheckRef(r)
                                \/ DecRef(r) \/ QbufIoctl(r) \/ MarkInKernel(r)
       PROVE  UNCHANGED <<cmdQ, doneQ, pipe>>
  BY <1>14, Zenon DEF QbufFsm, Qbuf, CheckRef, DecRef, QbufIoctl, MarkInKernel, cmdVars,
     drvVars, pollVars
<1>15. ASSUME QueuesOK, UNCHANGED <<cmdQ, doneQ, pipe>> PROVE QueuesOK'
  BY <1>15 DEF QueuesOK
<1>16. ASSUME QueuesOK, cmdQ' = cmdQ, doneQ' \in {doneQ, <<>>}, NEW cmd \in PipeCmd,
              pipe' \in {pipe, Append(pipe, cmd)}
       PROVE  QueuesOK'
  <2>1. cmdQ' \in Seq(Buf)
    BY <1>16, Zenon DEF QueuesOK
  <2>2. doneQ' \in Seq(Buf)
    BY <1>16, SeqFacts, Zenon DEF QueuesOK
  <2>3. pipe' = pipe \/ pipe' = Append(pipe, cmd)
    BY <1>16, Zenon
  <2>4. pipe' \in Seq(PipeCmd)
    BY <1>16, <2>3, SMT DEF QueuesOK
  <2> QED
    BY <2>1, <2>2, <2>4, Zenon DEF QueuesOK
<1> SUFFICES ASSUME QueuesOK, ThreadsOK, ControlOK, [Next]_vars PROVE QueuesOK'
  OBVIOUS
<1>17. CASE RegBuf
  BY <1>1, <1>16, <1>17, SMT
<1>18. CASE StreamOn \/ StopPoll
  BY <1>3, <1>16, <1>18, SMT
<1>19. CASE UncountBuf \/ \E r \in Releaser : CountBuf(r) \/ UncountFailed(r)
  BY <1>8, <1>16, <1>19, SMT
<1> QED
  BY <1>2, <1>4, <1>5, <1>6, <1>7, <1>9, <1>10, <1>11, <1>12, <1>13, <1>14, <1>15, <1>17,
     <1>18, <1>19, Zenon
  DEF Next, Control, Poll, BufDone, Done, Releaser

-----------------------------------------------------------------------------
\* The states of the stream and of the control thread, and the counters.
LEMMA ControlStep == ControlOK /\ ThreadsOK /\ [Next]_vars => ControlOK'
<1>1. ASSUME ControlOK, GetBuf PROVE ControlOK'
  BY <1>1, SMT DEF ControlOK, GetBuf, Fails, StreamState, CtlPc, statusVars, drvVars
<1>2. ASSUME ControlOK, RegBuf PROVE ControlOK'
  <2>1. PICK last \in 0 .. NumBufs : RegBuf!2!(last)
    BY <1>2, Zenon DEF RegBuf
  <2> DEFINE first == (1 .. last) \cap InitReg
  <2>2. kq' = first /\ queued' = Cardinality(first) /\ sessions' = sessions
    BY <1>2, <2>1, Zenon DEF RegBuf, RegisteredCount
  <2>3. /\ state' \in StreamState /\ ctl' \in CtlPc /\ fails' \in Nat
    BY <1>2, <2>1, SMT DEF ControlOK, Fails, StreamState, CtlPc
  <2>4. IsFiniteSet(1 .. last)
    BY FS_Interval
  <2>5. IsFiniteSet(first)
    BY <2>4, FS_Subset, Zenon
  <2>6. Cardinality(first) \in Nat
    BY <2>5, FS_CardinalityType, Zenon
  <2>7. first \subseteq Buf
    BY StreamAssumption, SMT DEF StreamAssumption
  <2> QED
    BY <1>2, <2>2, <2>3, <2>6, <2>7, SMT DEF ControlOK
<1>3. ASSUME ControlOK, Start \/ WaitPoll \/ StopPoll \/ PutBuf PROVE ControlOK'
  BY <1>3, SMT DEF ControlOK, Start, WaitPoll, StopPoll, PutBuf, StreamState, CtlPc, statusVars,
     drvVars, boundVars
<1>4. ASSUME ControlOK, StreamOn PROVE ControlOK'
  BY <1>4, SMT DEF ControlOK, StreamOn, Fails, CtlPc, statusVars
<1>5. ASSUME ControlOK, StreamOff \/ QuitCmd \/ JoinCmd PROVE ControlOK'
  BY <1>5, SMT DEF ControlOK, StreamOff, QuitCmd, JoinCmd, StreamState, CtlPc, statusVars,
     drvVars, boundVars
<1>6. ASSUME ControlOK, UnregBuf PROVE ControlOK'
  BY <1>6, SMT DEF ControlOK, UnregBuf, StreamState, CtlPc, boundVars
<1>7. ASSUME ControlOK, UncountBuf PROVE ControlOK'
  BY <1>7, SMT DEF ControlOK, UncountBuf, Fails, drvVars
<1>8. ASSUME ControlOK, NEW r \in Releaser, CountBuf(r) \/ UncountFailed(r) PROVE ControlOK'
  BY <1>8, SMT DEF ControlOK, CountBuf, UncountFailed, Fails, drvVars, boundVars
<1>9. ASSUME ControlOK, ThreadsOK, NEW r \in Releaser, QbufIoctl(r) PROVE ControlOK'
  <2>1. /\ UNCHANGED <<state, ctl, queued, sessions>>
        /\ kq' = kq \/ kq' = kq \cup {rbuf[r]}
        /\ fails' = fails \/ fails' = fails + 1
        /\ pc[r] = "ioctl"
    BY <1>9, Zenon DEF QbufIoctl, Fails, statusVars
  <2>2. rbuf[r] \in Buf
    BY <1>9, <2>1, SMT DEF ThreadsOK
  <2> QED
    BY <1>9, <2>1, <2>2, SMT DEF ControlOK
<1>10. ASSUME ControlOK, FillBuf \/ CancelBuf PROVE ControlOK'
  BY <1>10, SMT DEF ControlOK, FillBuf, CancelBuf, statusVars, boundVars
<1>11. ASSUME \/ Link \/ ProcPipe \/ PollWake \/ CallNotify \/ CheckActive \/ DqBuf \/ AddRefs
       PROVE  UNCHANGED <<state, ctl, kq, queued, fails, sessions>>
  BY <1>11, Zenon DEF Link, ProcPipe, PollWake, CallNotify, CheckActive, DqBuf, AddRefs,
     statusVars, drvVars, boundVars
<1>12. ASSUME CmdPop \/ AppCallback \/ CmdEnd \/ UNCHANGED vars
       PROVE  UNCHANGED <<state, ctl, kq, queued, fails, sessions>>
  BY <1>12, Zenon DEF CmdPop, AppCallback, CmdEnd, vars, statusVars, drvVars, boundVars
<1>13. ASSUME \E r \in Releaser : QbufFsm(r) \/ (\E b \in Buf : Qbuf(r, b)) \/ CheckRef(r)
                                \/ DecRef(r) \/ MarkInKernel(r)
       PROVE  UNCHANGED <<state, ctl, kq, queued, fails, sessions>>
  BY <1>13, Zenon DEF QbufFsm, Qbuf, CheckRef, DecRef, MarkInKernel, statusVars, drvVars,
     boundVars
<1>14. ASSUME ControlOK, UNCHANGED <<state, ctl, kq, queued, fails, sessions>> PROVE ControlOK'
  BY <1>14 DEF ControlOK
<1>15. ASSUME ControlOK, RegBufRefused PROVE ControlOK'
  BY <1>15, SMT DEF ControlOK, RegBufRefused, Fails, CtlPc, statusVars, drvVars
<1>16. ASSUME ControlOK, NotifyBundle \/ NotifyLinked \/ NotifyCmd PROVE ControlOK'
  BY <1>16, SMT DEF ControlOK, NotifyBundle, NotifyLinked, NotifyCmd, Lose, Fails, statusVars,
     drvVars
<1> QED
  BY <1>1, <1>2, <1>3, <1>4, <1>5, <1>6, <1>7, <1>8, <1>9, <1>10, <1>11, <1>12, <1>13, <1>14,
     <1>15, <1>16, Zenon
  DEF Next, Control, Poll, BufDone, Done, Releaser

-----------------------------------------------------------------------------
\* A thread that works on a buffer has one of the stream's in its hands.
LEMMA ThreadsStep == ThreadsOK /\ QueuesOK /\ [Next]_vars => ThreadsOK'
<1>1. ASSUME ThreadsOK, Start PROVE ThreadsOK'
  <2>1. UNCHANGED <<pp, pbuf, rbuf>> /\ (pc' = pc \/ pc' = [pc EXCEPT ![Cmd] = "idle"])
    BY <1>1, Zenon DEF Start, ppVars
  <2> QED
    BY <1>1, <2>1, SMT DEF ThreadsOK, RelPc
<1>2. ASSUME ThreadsOK, PollWake \/ CallNotify \/ CheckActive PROVE ThreadsOK'
  BY <1>2, SMT DEF ThreadsOK, PollWake, CallNotify, CheckActive, PollPc, relVars
<1>3. ASSUME ThreadsOK, QueuesOK, DqBuf PROVE ThreadsOK'
  BY <1>3, SMT DEF ThreadsOK, QueuesOK, DqBuf, PollPc, relVars
<1>4. ASSUME ThreadsOK, UncountBuf \/ AddRefs \/ NotifyBundle \/ NotifyLinked PROVE ThreadsOK'
  BY <1>4, SMT DEF ThreadsOK, UncountBuf, AddRefs, NotifyBundle, NotifyLinked, PollPc, NoBuf, relVars
<1>5. ASSUME ThreadsOK, NotifyCmd PROVE ThreadsOK'
  BY <1>5, SMT DEF ThreadsOK, NotifyCmd, PollPc, relVars
<1>0. ASSUME ThreadsOK, NEW r \in Releaser, NEW b \in Buf, NEW where \in {"app", "fsm"},
             pc' = [pc EXCEPT ![r] = where], rbuf' = [rbuf EXCEPT ![r] = b], UNCHANGED ppVars
      PROVE  ThreadsOK'
  <2>1. pc' \in [Releaser -> RelPc] /\ rbuf' \in [Releaser -> Buf \cup {NoBuf}]
    BY <1>0, SMT DEF ThreadsOK, RelPc
  <2>2. \A o \in Releaser : pc'[o] \notin {"off", "idle"} => rbuf'[o] \in Buf
    BY <1>0, SMT DEF ThreadsOK
  <2> QED
    BY <1>0, <2>1, <2>2, Zenon DEF ThreadsOK, ppVars
<1>6. ASSUME ThreadsOK, QueuesOK, CmdPop PROVE ThreadsOK'
  <2>1. /\ pc' = [pc EXCEPT ![Cmd] = "app"] /\ rbuf' = [rbuf EXCEPT ![Cmd] = Head(cmdQ)]
        /\ UNCHANGED ppVars /\ Head(cmdQ) \in Buf
    BY <1>6, SeqFacts, Zenon DEF QueuesOK, CmdPop
  <2> QED
    BY <1>0, <1>6, <2>1, Zenon DEF Releaser
<1>7. ASSUME ThreadsOK, AppCallback \/ CmdEnd PROVE ThreadsOK'
  BY <1>7, SMT DEF ThreadsOK, AppCallback, CmdEnd, RelPc, ppVars
<1>8. ASSUME ThreadsOK, NEW c \in Client, NEW b \in Buf, Qbuf(c, b) PROVE ThreadsOK'
  BY <1>0, <1>8, Zenon DEF Qbuf, Releaser
<1>9. ASSUME ThreadsOK, NEW r \in Releaser, NEW where \in {"check", "dec", "count", "ioctl", "undo",
             "mark", "idle"}, pc[r] \notin {"off", "idle"}, Goto(r, where), UNCHANGED ppVars
      PROVE  ThreadsOK'
  BY <1>9, SMT DEF ThreadsOK, Goto, RelPc, ppVars, NoBuf
<1>10. ASSUME ThreadsOK, NEW r \in Releaser, QbufFsm(r) \/ CheckRef(r) \/ DecRef(r)
       PROVE  ThreadsOK'
  <2>1. /\ pc[r] \notin {"off", "idle"} /\ UNCHANGED ppVars
        /\ \E where \in {"check", "dec", "count", "idle"} : Goto(r, where)
    BY <1>10, Zenon DEF QbufFsm, CheckRef, DecRef
  <2> QED
    BY <1>9, <1>10, <2>1
<1>11. ASSUME ThreadsOK, NEW r \in Releaser,
              CountBuf(r) \/ QbufIoctl(r) \/ UncountFailed(r) \/ MarkInKernel(r)
       PROVE  ThreadsOK'
  <2>1. /\ pc[r] \notin {"off", "idle"} /\ UNCHANGED ppVars
        /\ \E where \in {"ioctl", "undo", "mark", "idle"} : Goto(r, where)
    BY <1>11, Zenon DEF CountBuf, QbufIoctl, UncountFailed, MarkInKernel
  <2> QED
    BY <1>9, <1>11, <2>1
<1>12. ASSUME \/ GetBuf \/ RegBufRefused \/ RegBuf \/ StreamOn \/ WaitPoll \/ StopPoll
              \/ StreamOff \/ QuitCmd \/ JoinCmd \/ UnregBuf \/ PutBuf
       PROVE  UNCHANGED <<pp, pbuf, pc, rbuf>>
  BY <1>12, Zenon DEF GetBuf, RegBufRefused, RegBuf, StreamOn, WaitPoll, StopPoll, StreamOff, QuitCmd, JoinCmd,
     UnregBuf, PutBuf, ppVars, relVars
<1>13. ASSUME Link \/ ProcPipe \/ FillBuf \/ CancelBuf \/ UNCHANGED vars
       PROVE  UNCHANGED <<pp, pbuf, pc, rbuf>>
  BY <1>13, Zenon DEF Link, ProcPipe, FillBuf, CancelBuf, vars, ppVars, relVars
<1>14. ASSUME ThreadsOK, UNCHANGED <<pp, pbuf, pc, rbuf>> PROVE ThreadsOK'
  BY <1>14 DEF ThreadsOK
<1> QED
  BY <1>1, <1>2, <1>3, <1>4, <1>5, <1>6, <1>7, <1>8, <1>10, <1>11, <1>12, <1>13, <1>14, Zenon
  DEF Next, Control, Poll, BufDone, Done, Releaser

-----------------------------------------------------------------------------
flagVars == <<isLinked, cmdActive, cmdExit, cmdLock, entry, polled, sigDone, startFailed, reqd,
              streaming>>

\* The flags stay truth values.
LEMMA FlagsStep == FlagsOK /\ [Next]_vars => FlagsOK'
<1>1. ASSUME FlagsOK, GetBuf PROVE FlagsOK'
  BY <1>1, Zenon DEF FlagsOK, GetBuf, cmdVars, pollVars, drvVars
<1>2. ASSUME FlagsOK, RegBuf PROVE FlagsOK'
  <2>1. PICK last \in 0 .. NumBufs : RegBuf!2!(last)
    BY <1>2, Zenon DEF RegBuf
  <2>2. reqd' = TRUE /\ startFailed' \in {startFailed, TRUE}
    BY <2>1, Zenon
  <2>3. entry' \in BOOLEAN
    BY <2>1, <1>2, Zenon DEF FlagsOK
  <2> QED
    BY <1>2, <2>2, <2>3, Zenon DEF FlagsOK, RegBuf, cmdVars
<1>3. ASSUME FlagsOK, Start PROVE FlagsOK'
  BY <1>3, Zenon DEF FlagsOK, Start, pollVars, drvVars, boundVars
<1>4. ASSUME FlagsOK, StreamOn PROVE FlagsOK'
  BY <1>4, Zenon DEF FlagsOK, StreamOn, DelPollFd, cmdVars
<1>5. ASSUME FlagsOK, StopPoll PROVE FlagsOK'
  BY <1>5, Zenon DEF FlagsOK, StopPoll, DelPollFd, cmdVars, drvVars, boundVars
<1>6. ASSUME FlagsOK, StreamOff PROVE FlagsOK'
  BY <1>6, Zenon DEF FlagsOK, StreamOff, cmdVars, pollVars, boundVars
<1>7. ASSUME FlagsOK, QuitCmd PROVE FlagsOK'
  BY <1>7, Zenon DEF FlagsOK, QuitCmd, pollVars, drvVars, boundVars
<1>8. ASSUME FlagsOK, JoinCmd PROVE FlagsOK'
  BY <1>8, Zenon DEF FlagsOK, JoinCmd, pollVars, drvVars, boundVars
<1>9. ASSUME FlagsOK, UnregBuf PROVE FlagsOK'
  BY <1>9, Zenon DEF FlagsOK, UnregBuf, cmdVars, pollVars, boundVars
<1>10. ASSUME FlagsOK, Link PROVE FlagsOK'
  BY <1>10, Zenon DEF FlagsOK, Link, cmdVars, pollVars, drvVars, boundVars
<1>11. ASSUME FlagsOK, ProcPipe PROVE FlagsOK'
  BY <1>11, Zenon DEF FlagsOK, ProcPipe, cmdVars, drvVars, boundVars
<1>12. ASSUME FlagsOK, UncountBuf PROVE FlagsOK'
  BY <1>12, Zenon DEF FlagsOK, UncountBuf, DelPollFd, cmdVars, drvVars, boundVars
<1>13. ASSUME FlagsOK, NEW r \in Releaser, CountBuf(r) PROVE FlagsOK'
  BY <1>13, Zenon DEF FlagsOK, CountBuf, AddPollFd, cmdVars, drvVars, boundVars
<1>14. ASSUME FlagsOK, NEW r \in Releaser, UncountFailed(r) PROVE FlagsOK'
  BY <1>14, Zenon DEF FlagsOK, UncountFailed, DelPollFd, cmdVars, drvVars, boundVars
<1>15. ASSUME \/ WaitPoll \/ PutBuf \/ PollWake \/ CallNotify \/ CheckActive \/ DqBuf \/ AddRefs
       PROVE  UNCHANGED flagVars
  BY <1>15, Zenon DEF WaitPoll, PutBuf, PollWake, CallNotify, CheckActive, DqBuf, AddRefs,
     flagVars, cmdVars, pollVars, drvVars, boundVars
<1>16. ASSUME \/ NotifyBundle \/ NotifyLinked \/ NotifyCmd \/ CmdPop \/ AppCallback \/ CmdEnd
       PROVE  UNCHANGED flagVars
  BY <1>16, Zenon DEF NotifyBundle, NotifyLinked, NotifyCmd, CmdPop, AppCallback, CmdEnd,
     flagVars, cmdVars, pollVars, drvVars, boundVars
<1>17. ASSUME FillBuf \/ CancelBuf \/ UNCHANGED vars PROVE UNCHANGED flagVars
  BY <1>17, Zenon DEF FillBuf, CancelBuf, vars, flagVars, cmdVars, pollVars, drvVars, boundVars
<1>18. ASSUME \E r \in Releaser : QbufFsm(r) \/ (\E b \in Buf : Qbuf(r, b)) \/ CheckRef(r)
       PROVE  UNCHANGED flagVars
  BY <1>18, Zenon DEF QbufFsm, Qbuf, CheckRef, flagVars, cmdVars, pollVars, drvVars, boundVars
<1>19. ASSUME \E r \in Releaser : DecRef(r) \/ QbufIoctl(r) \/ MarkInKernel(r)
       PROVE  UNCHANGED flagVars
  BY <1>19, Zenon DEF DecRef, QbufIoctl, MarkInKernel, flagVars, cmdVars, pollVars, drvVars,
     boundVars
<1>20. ASSUME FlagsOK, UNCHANGED flagVars PROVE FlagsOK'
  BY <1>20, Zenon DEF FlagsOK, flagVars
<1>21. ASSUME FlagsOK, RegBufRefused PROVE FlagsOK'
  BY <1>21, Zenon DEF FlagsOK, RegBufRefused, cmdVars, pollVars, drvVars
<1> QED
  BY <1>1, <1>2, <1>3, <1>4, <1>5, <1>6, <1>7, <1>8, <1>9, <1>10, <1>11, <1>12, <1>13, <1>14,
     <1>15, <1>16, <1>17, <1>18, <1>19, <1>20, <1>21, Zenon
  DEF Next, Control, Poll, BufDone, Done, Releaser

-----------------------------------------------------------------------------
\* Every variable keeps its type: buf_refcnt stays a byte, and a thread that is
\* past mm_camera_qbuf or VIDIOC_DQBUF has a buffer of the stream in its hands.
THEOREM TypeCorrect == Spec => []TypeOK
<1>1. Init => FlagsOK
  BY Zenon DEF Init, FlagsOK
<1>2. Init => StatusOK /\ QueuesOK /\ ControlOK
  BY SMT DEF Init, StatusOK, QueuesOK, ControlOK, Byte, StreamState, CtlPc
<1>3. Init => ThreadsOK
  BY SMT DEF Init, ThreadsOK, PollPc, RelPc, NoBuf
<1> QED
  BY <1>1, <1>2, <1>3, StatusStep, QueuesStep, ControlStep, ThreadsStep, FlagsStep, PTL
  DEF Spec, TypeOK

-----------------------------------------------------------------------------
(* Polling. The poll entry follows the count from the registration on, and the *)
(* poll set is behind the entry only while an update is in the pipe; the two   *)
(* are inductive together with the types of the count and of the pipe.         *)

Polling ==
  /\ ctl \in {"launch", "on", "active"} => (entry <=> queued > 0)
  /\ polled # entry => pipe # <<>>

\* The removal of the entry is announced, or there was no entry.
LEMMA DelAnnounced ==
  ASSUME pipe \in Seq(PipeCmd), NEW cmd \in PipeCmd, DelPollFd(cmd), polled' = polled,
         polled # entry => pipe # <<>>, entry \in BOOLEAN
  PROVE  entry' = FALSE /\ (polled' # entry' => pipe' # <<>>)
<1>1. CASE entry
  <2>1. entry' = FALSE /\ pipe' = Append(pipe, cmd)
    BY <1>1, Zenon DEF DelPollFd
  <2> QED
    BY <2>1, AppendProperties, Zenon
<1>2. CASE ~entry
  BY <1>2, Zenon DEF DelPollFd
<1> QED
  BY <1>1, <1>2

\* The addition of the entry is announced.
LEMMA AddAnnounced ==
  ASSUME pipe \in Seq(PipeCmd), AddPollFd PROVE entry' = TRUE /\ pipe' # <<>>
<1>1. "async" \in PipeCmd
  BY DEF PipeCmd
<1> QED
  BY <1>1, AppendProperties, Zenon DEF AddPollFd

\* A stream with a buffer to register registers at least one.
LEMMA SomeRegistered ==
  ASSUME InitReg # {} PROVE Cardinality((1 .. NumBufs) \cap InitReg) > 0
<1>0. NumBufs \in Int
  BY StreamAssumption, SMT
<1>1. IsFiniteSet(1 .. NumBufs)
  BY <1>0, FS_Interval, SMT
<1>2. IsFiniteSet(InitReg) /\ (1 .. NumBufs) \cap InitReg = InitReg
  BY <1>1, StreamAssumption, FS_Subset, Zenon DEF Buf
<1> QED
  BY <1>2, FS_EmptySet, FS_CardinalityType, SMT

\* With a buffer registered at the start, every step keeps the polling invariant.
LEMMA PollingStep ==
  ASSUME InitReg # {} PROVE TypeOK /\ Polling /\ [Next]_vars => Polling'
<1>3. "updated" \in PipeCmd /\ "async" \in PipeCmd
  BY DEF PipeCmd
<1>4. ASSUME Polling, GetBuf PROVE Polling'
  BY <1>4, Zenon DEF GetBuf, Polling, pollVars, statusVars
<1>5. ASSUME TypeOK, Polling, RegBuf PROVE Polling'
  <2>1. PICK last \in 0 .. NumBufs : RegBuf!2!(last)
    BY <1>5, Zenon DEF RegBuf
  <2> DEFINE first == (1 .. last) \cap InitReg
  <2>2. CASE last = NumBufs
    <3>1. Cardinality(first) > 0 /\ first # {}
      BY <2>2, SomeRegistered, FS_EmptySet
    <3>2. entry' = TRUE /\ queued' > 0
      BY <2>1, <3>1, Zenon DEF RegisteredCount
    <3>3. pipe' # <<>>
      <4>1. pipe' = Append(pipe, "async")
        BY <2>1, <3>1, Zenon
      <4>2. pipe \in Seq(PipeCmd)
        BY <1>5, Zenon DEF TypeOK, QueuesOK
      <4> QED
        BY <1>3, <4>1, <4>2, AppendProperties
    <3> QED
      BY <3>2, <3>3, Zenon DEF Polling
  <2>3. CASE last # NumBufs
    <3>1. /\ ctl' = "unreg"
          /\ pipe' = Append(pipe, "async") \/ UNCHANGED <<entry, pipe>>
          /\ polled' = polled
      <4>1. last < NumBufs /\ polled' = polled
        BY <1>5, <2>3, StreamAssumption, SMT DEF RegBuf, StreamAssumption
      <4> QED
        BY <2>1, <2>3, <4>1, Zenon
    <3>2. pipe \in Seq(PipeCmd)
      BY <1>5, Zenon DEF TypeOK, QueuesOK
    <3>3. Append(pipe, "async") # <<>>
      BY <1>3, <3>2, AppendProperties
    <3> QED
      BY <1>5, <3>1, <3>3 DEF Polling
  <2> QED
    BY <2>2, <2>3
<1>6. ASSUME TypeOK, Polling, NEW cmd \in PipeCmd, DelPollFd(cmd), polled' = polled,
             ctl' \notin {"launch", "on", "active"} \/ ~(queued' > 0)
      PROVE  Polling'
  BY <1>6, DelAnnounced, Zenon DEF Polling, TypeOK, QueuesOK, FlagsOK
<1>7. ASSUME Polling, Start PROVE Polling'
  BY <1>7, SMT DEF Start, Polling, pollVars, statusVars
<1>8. ASSUME TypeOK, Polling, StreamOn PROVE Polling'
  <2>1. CASE UNCHANGED pollVars /\ ctl' = "active" /\ queued' = queued
    BY <1>8, <2>1, Zenon DEF StreamOn, Polling, pollVars
  <2>2. CASE DelPollFd("updated") /\ ctl' \in {"onfailwait", "quit"}
    BY <1>6, <1>8, <2>2, SMT DEF StreamOn, PipeCmd
  <2> QED
    BY <1>8, <2>1, <2>2, Zenon DEF StreamOn, pollVars, statusVars
<1>9. ASSUME TypeOK, Polling, StopPoll PROVE Polling'
  <2>1. DelPollFd("updated") /\ polled' = polled /\ ctl' \in {"offwait", "streamoff"}
    BY <1>9, Zenon DEF StopPoll
  <2> QED
    BY <1>6, <1>9, <2>1, SMT DEF PipeCmd
<1>10. ASSUME Polling, RegBufRefused \/ WaitPoll \/ StreamOff \/ QuitCmd \/ JoinCmd \/ UnregBuf \/ PutBuf
       PROVE  Polling'
  <2>1. UNCHANGED pollVars
    BY <1>10, Zenon DEF RegBufRefused, WaitPoll, StreamOff, QuitCmd, JoinCmd, UnregBuf, PutBuf
  <2>2. ctl' \notin {"launch", "on", "active"}
    BY <1>10, SMT DEF RegBufRefused, WaitPoll, StreamOff, QuitCmd, JoinCmd, UnregBuf, PutBuf
  <2> QED
    BY <1>10, <2>1, <2>2, Zenon DEF Polling, pollVars
<1>11. ASSUME Polling, ProcPipe PROVE Polling'
  BY <1>11, Zenon DEF ProcPipe, Polling, statusVars
<1>12. ASSUME TypeOK, Polling, queued' = queued - 1, polled' = polled, ctl' = ctl,
              IF queued' = 0 THEN DelPollFd("async") ELSE UNCHANGED <<entry, pipe>>
       PROVE  Polling'
  <2>1. queued \in Int
    BY <1>12, Zenon DEF TypeOK, ControlOK
  <2>2. CASE queued' = 0
    <3>1. ~(queued' > 0)
      BY <2>2, SMT
    <3>2. DelPollFd("async")
      BY <1>12, <2>2, Zenon
    <3> QED
      BY <1>3, <1>6, <1>12, <3>1, <3>2, Zenon
  <2>3. CASE queued' # 0
    <3>1. queued' > 0 <=> queued > 0
      BY <1>12, <2>1, <2>3, SMT
    <3> QED
      BY <1>12, <2>3, <3>1, Zenon DEF Polling
  <2> QED
    BY <2>2, <2>3
<1>13. ASSUME Polling, TypeOK, NEW r \in Releaser, CountBuf(r) PROVE Polling'
  <2>1. queued \in Int /\ polled' = polled /\ ctl' = ctl
    BY <1>13, Zenon DEF TypeOK, ControlOK, CountBuf
  <2>2. CASE queued' = queued + 1 /\ queued' = 1 /\ AddPollFd
    <3>1. entry' = TRUE /\ pipe' # <<>>
      BY <1>13, <2>2, AddAnnounced, Zenon DEF TypeOK, QueuesOK
    <3>2. queued' > 0
      BY <2>2, SMT
    <3> QED
      BY <3>1, <3>2, Zenon DEF Polling
  <2>3. CASE queued' = queued + 1 /\ queued' # 1 /\ UNCHANGED <<entry, pipe>>
    <3>1. queued' > 0 <=> queued > 0
      BY <2>1, <2>3, SMT
    <3> QED
      BY <1>13, <2>1, <2>3, <3>1, Zenon DEF Polling
  <2>4. CASE UNCHANGED <<queued, entry, pipe>>
    BY <1>13, <2>1, <2>4, Zenon DEF Polling
  <2> QED
    BY <1>13, <2>2, <2>3, <2>4, Zenon DEF CountBuf
<1>14. ASSUME TypeOK, Polling, UncountBuf \/ \E r \in Releaser : UncountFailed(r) PROVE Polling'
  BY <1>12, <1>14, Zenon DEF UncountBuf, UncountFailed
<1>15. ASSUME \/ Link \/ PollWake \/ CallNotify \/ CheckActive \/ DqBuf \/ AddRefs
              \/ NotifyBundle \/ NotifyLinked
       PROVE  UNCHANGED <<ctl, queued, entry, polled, pipe>>
  BY <1>15, Zenon DEF Link, PollWake, CallNotify, CheckActive, DqBuf, AddRefs, NotifyBundle,
     NotifyLinked, statusVars, pollVars
<1>16. ASSUME \/ NotifyCmd \/ CmdPop \/ AppCallback \/ CmdEnd \/ FillBuf \/ CancelBuf
              \/ UNCHANGED vars
       PROVE  UNCHANGED <<ctl, queued, entry, polled, pipe>>
  BY <1>16, Zenon DEF NotifyCmd, CmdPop, AppCallback, CmdEnd, FillBuf, CancelBuf, vars,
     statusVars, pollVars
<1>17. ASSUME \E r \in Releaser : QbufFsm(r) \/ (\E b \in Buf : Qbuf(r, b)) \/ CheckRef(r)
                                \/ DecRef(r) \/ QbufIoctl(r) \/ MarkInKernel(r)
       PROVE  UNCHANGED <<ctl, queued, entry, polled, pipe>>
  BY <1>17, Zenon DEF QbufFsm, Qbuf, CheckRef, DecRef, QbufIoctl, MarkInKernel, statusVars,
     pollVars
<1>18. ASSUME Polling, UNCHANGED <<ctl, queued, entry, polled, pipe>> PROVE Polling'
  BY <1>18, Zenon DEF Polling
<1> QED
  BY <1>4, <1>5, <1>7, <1>8, <1>9, <1>10, <1>11, <1>13, <1>14, <1>15, <1>16, <1>17, <1>18, Zenon
  DEF Next, Control, Poll, BufDone, Done, Releaser

\* A stream that registers a buffer at its start is polled exactly while buffers
\* are queued: no sequence of starts, stops, failures and returned buffers leaves
\* the poll thread deaf to queued buffers, or polling for none.
THEOREM PollingCorrect == ASSUME InitReg # {} PROVE Spec => []PolledWhileQueued
<1>1. Init => Polling
  BY Zenon DEF Init, Polling
<1>2. TypeOK /\ Polling /\ [Next]_vars => Polling'
  BY PollingStep
<1>3. Polling => PolledWhileQueued
  BY Zenon DEF Polling, PolledWhileQueued
<1> QED
  BY <1>1, <1>2, <1>3, TypeCorrect, PTL DEF Spec

-----------------------------------------------------------------------------
(***************************************************************************)
(* Who has a buffer of the stream: references are counted right, the       *)
(* driver shares with nobody, and a running stream implements              *)
(* BufferOwnership, for every number of buffers, clients, sessions and     *)
(* failures.                                                               *)
(***************************************************************************)

-----------------------------------------------------------------------------
(* Counting. What the model counts with Cardinality is written with two        *)
(* operators of plain arguments, so that a step is a change of numbers.        *)

\* How many releasers are at one of these places with this buffer in hand.
Num(where, what, places, b) ==
  Cardinality({r \in Releaser : where[r] \in places /\ what[r] = b})

\* Whether a releaser there, with that in hand, is one of them.
Here(where, what, places, b) == IF where \in places /\ what = b THEN 1 ELSE 0

\* How often a buffer is in a queue.
Times(q, b) == Cardinality({i \in DOMAIN q : q[i] = b})

\* Two sets that agree but on one element.
LEMMA SetMoves ==
  ASSUME NEW S, NEW T, NEW x, IsFiniteSet(S), S \ {x} = T \ {x}
  PROVE  /\ IsFiniteSet(T)
         /\ Cardinality(T) = Cardinality(S) - Flag(x \in S) + Flag(x \in T)
<1> DEFINE U == S \ {x}
<1>1. IsFiniteSet(U) /\ Cardinality(U) = IF x \in S THEN Cardinality(S) - 1 ELSE Cardinality(S)
  BY FS_RemoveElement
<1>2. Cardinality(S) \in Nat /\ Cardinality(U) \in Nat
  BY <1>1, FS_CardinalityType
<1>3. CASE x \in T
  <2>1. T = U \cup {x} /\ x \notin U
    BY <1>3
  <2>2. IsFiniteSet(U \cup {x}) /\ Cardinality(U \cup {x}) = Cardinality(U) + 1
    BY <1>1, <2>1, FS_AddElement
  <2> QED
    BY <1>1, <1>2, <1>3, <2>1, <2>2 DEF Flag
<1>4. CASE x \notin T
  <2>1. T = U
    BY <1>4
  <2> QED
    BY <1>1, <1>2, <1>4, <2>1 DEF Flag
<1> QED
  BY <1>3, <1>4

\* There are finitely many who can give a buffer back.
LEMMA ReleaserFinite == IsFiniteSet(Releaser)
  BY StreamAssumption, FS_AddElement DEF StreamAssumption, Releaser

\* Any count of releasers is a number.
LEMMA NumType ==
  ASSUME NEW where, NEW what, NEW P, NEW b
  PROVE  /\ Num(where, what, P, b) \in Nat
         /\ Num(where, what, P, b) = 0
              <=> \A r \in Releaser : ~(where[r] \in P /\ what[r] = b)
<1> DEFINE S == {r \in Releaser : where[r] \in P /\ what[r] = b}
<1>1. IsFiniteSet(S)
  BY ReleaserFinite, FS_Subset
<1>2. Cardinality(S) \in Nat /\ (Cardinality(S) = 0 <=> S = {})
  BY <1>1, FS_CardinalityType, FS_EmptySet
<1> QED
  BY <1>2 DEF Num

\* One releaser moves, with this in hand.
Moves(r, w, v) == pc' = [pc EXCEPT ![r] = w] /\ rbuf' = [rbuf EXCEPT ![r] = v]

\* A releaser that moves with another buffer in hand moves each count by its own.
LEMMA NumMoves ==
  ASSUME TypeOK, NEW r \in Releaser, NEW w, NEW v, Moves(r, w, v), NEW P, NEW b
  PROVE  Num(pc', rbuf', P, b)
           = Num(pc, rbuf, P, b) - Here(pc[r], rbuf[r], P, b) + Here(w, v, P, b)
<1> DEFINE S == {o \in Releaser : pc[o] \in P /\ rbuf[o] = b}
           T == {o \in Releaser : pc'[o] \in P /\ rbuf'[o] = b}
<1>0. pc \in [Releaser -> RelPc] /\ rbuf \in [Releaser -> Buf \cup {NoBuf}]
  BY Zenon DEF TypeOK, ThreadsOK
<1>1. S \ {r} = T \ {r}
  BY <1>0 DEF Moves
<1>2. IsFiniteSet(S)
  BY ReleaserFinite, FS_Subset
<1>3. Cardinality(T) = Cardinality(S) - Flag(r \in S) + Flag(r \in T)
  <2> HIDE DEF S, T
  <2> QED
    BY <1>1, <1>2, SetMoves
<1>4. (r \in S <=> pc[r] \in P /\ rbuf[r] = b) /\ (r \in T <=> w \in P /\ v = b)
  BY <1>0 DEF Moves
<1>5. Num(pc', rbuf', P, b) = Cardinality(T) /\ Num(pc, rbuf, P, b) = Cardinality(S)
  BY Zenon DEF Num
<1>6. Flag(r \in S) = Here(pc[r], rbuf[r], P, b) /\ Flag(r \in T) = Here(w, v, P, b)
  BY <1>4, Zenon DEF Flag, Here
<1> QED
  BY <1>3, <1>5, <1>6

\* What the queue operators do to the count of a buffer.
LEMMA TimesFacts ==
  ASSUME NEW q \in Seq(Buf), NEW b \in Buf
  PROVE  /\ Times(q, b) \in Nat
         /\ Times(q, b) = 0 <=> b \notin SeqRange(q)
         /\ Times(<<>>, b) = 0
         /\ \A e \in Buf : Times(Append(q, e), b) = Times(q, b) + Flag(e = b)
         /\ q # <<>> => Times(Tail(q), b) = Times(q, b) - Flag(Head(q) = b)
<1> DEFINE At0(s) == {i \in DOMAIN s : s[i] = b}
<1>1. \A s \in Seq(Buf) : IsFiniteSet(At0(s)) /\ Cardinality(At0(s)) \in Nat
  <2> TAKE s \in Seq(Buf)
  <2>1. DOMAIN s = 1 .. Len(s) /\ Len(s) \in Nat
    OBVIOUS
  <2>2. IsFiniteSet(DOMAIN s)
    BY <2>1, FS_Interval
  <2>3. IsFiniteSet(At0(s))
    BY <2>2, FS_Subset
  <2> QED
    BY <2>3, FS_CardinalityType
<1>2. Times(q, b) \in Nat
  BY <1>1 DEF Times
<1>3. Times(q, b) = 0 <=> b \notin SeqRange(q)
  BY <1>1, FS_EmptySet DEF Times, SeqRange
<1>4. Times(<<>>, b) = 0
  BY FS_EmptySet DEF Times
<1>5. ASSUME NEW e \in Buf PROVE Times(Append(q, e), b) = Times(q, b) + Flag(e = b)
  <2> DEFINE n == Len(q) + 1
  <2>1. At0(q) \ {n} = At0(Append(q, e)) \ {n} /\ n \notin At0(q) /\ (n \in At0(Append(q, e)) <=> e = b)
    OBVIOUS
  <2>2. IsFiniteSet(At0(q)) /\ Cardinality(At0(q)) \in Nat
    BY <1>1
  <2>3. Cardinality(At0(Append(q, e)))
          = Cardinality(At0(q)) - Flag(n \in At0(q)) + Flag(n \in At0(Append(q, e)))
    <3> HIDE DEF At0, n
    <3> QED
      BY <2>1, <2>2, SetMoves
  <2>4. Flag(n \in At0(q)) = 0 /\ Flag(n \in At0(Append(q, e))) = Flag(e = b)
    BY <2>1, Zenon DEF Flag
  <2>5. Times(Append(q, e), b) = Cardinality(At0(Append(q, e))) /\ Times(q, b) = Cardinality(At0(q))
    BY Zenon DEF Times
  <2> HIDE DEF At0, n
  <2> QED
    BY <2>2, <2>3, <2>4, <2>5 DEF Flag
<1>6. ASSUME q # <<>> PROVE Times(Tail(q), b) = Times(q, b) - Flag(Head(q) = b)
  <2> DEFINE S == At0(q) \ {1}
             f == [i \in S |-> i - 1]
  <2>0. Tail(q) \in Seq(Buf) /\ Len(Tail(q)) = Len(q) - 1 /\ Len(q) \in Nat \ {0}
        /\ \A i \in 1 .. Len(q) - 1 : Tail(q)[i] = q[i + 1]
    BY <1>6
  <2>1. IsFiniteSet(At0(q)) /\ Cardinality(At0(q)) \in Nat
    BY <1>1
  <2>2. IsFiniteSet(S) /\ Cardinality(S) = Cardinality(At0(q)) - Flag(Head(q) = b)
    <3>1. 1 \in At0(q) <=> Head(q) = b
      BY <1>6
    <3>2. /\ IsFiniteSet(At0(q) \ {1})
          /\ Cardinality(At0(q) \ {1})
               = IF 1 \in At0(q) THEN Cardinality(At0(q)) - 1 ELSE Cardinality(At0(q))
      <4> HIDE DEF At0
      <4> QED
        BY <2>1, FS_RemoveElement, Zenon
    <3> HIDE DEF At0
    <3> QED
      BY <2>1, <3>1, <3>2 DEF Flag
  <2>3. \A i \in S : i \in 2 .. Len(q) /\ q[i] = b
    OBVIOUS
  <2>4. \A i \in S : f[i] \in At0(Tail(q))
    BY <2>0, <2>3
  <2>5. \A i, j \in S : f[i] = f[j] => i = j
    BY <2>3
  <2>6. \A k \in At0(Tail(q)) : k + 1 \in S /\ f[k + 1] = k
    BY <2>0
  <2>7. f \in Bijection(S, At0(Tail(q)))
    <3> HIDE DEF S, At0
    <3>1. f \in [S -> At0(Tail(q))]
      BY <2>4
    <3>2. \A k \in At0(Tail(q)) : \E i \in S : f[i] = k
      BY <2>6
    <3> HIDE DEF f
    <3> QED
      BY <2>5, <3>1, <3>2 DEF Bijection, Injection, Surjection, IsInjective
  <2>8. Cardinality(At0(Tail(q))) = Cardinality(S)
    <3> HIDE DEF S, At0, f
    <3> QED
      BY <2>2, <2>7, FS_Bijection DEF ExistsBijection
  <2> QED
    BY <2>2, <2>8 DEF Times
<1> QED
  BY <1>2, <1>3, <1>4, <1>5, <1>6
-----------------------------------------------------------------------------
(* The inductive invariant. First what the control thread and the command      *)
(* thread have done by each point of a session.                                *)

OnCtl == {"on", "onfailwait", "active", "offwait", "streamoff", "quit", "join"}

\* The buffers are registered: from the end of RegBuf to UnregBuf.
Up == ctl = "launch" \/ ctl \in OnCtl \/ (ctl = "unreg" /\ state = "REG")

\* The state follows the control thread, and so do the driver's two states.
ControlInv ==
  /\ ctl \in OnCtl => state = "ACTIVE"
  /\ ctl = "launch" => state = "REG"
  /\ ctl = "cfg" => state = "CFG"
  /\ ctl \in {"getbuf", "put"} => state = "BUFFED"
  /\ ctl = "unreg" => state \in {"REG", "BUFFED"}
  /\ Up => reqd
  /\ streaming => ctl \in {"active", "offwait", "streamoff"}

\* The command thread runs in an active stream with a callback, and a stream
\* that is linked has one; a thread that has ended left nothing in its queue.
CommandInv ==
  /\ cmdActive <=> HasCb /\ ctl \in OnCtl
  /\ cmdLock <=> ctl = "join"
  /\ cmdExit => ctl = "join"
  /\ pc[Cmd] = "off" => cmdQ = <<>> /\ (cmdActive => cmdExit)
  /\ ~cmdActive => pc[Cmd] = "off"
  /\ isLinked => HasCb

\* With no buffers requested the driver has none. After a refused REG_BUF it
\* keeps the ones before the refused one, and nobody else touches those.
DriverInv ==
  /\ ~reqd => kq = {} /\ doneQ = <<>>
  /\ reqd /\ ~Up =>
       /\ doneQ = <<>> /\ pp = "poll"
       /\ \A r \in Releaser : pc[r] \in {"off", "idle", "fsm"}
       /\ \A b \in kq : refcnt[b] = 0 /\ given[b] = 0
       /\ \A r \in Releaser : pc[r] = "fsm" => rbuf[r] \notin kq

\* Where QuietRestart holds, a session starts with idle threads.
QuietInv ==
  ctl \in {"getbuf", "launch"} => Quiet /\ doneQ = <<>>

\* The control thread alone moves through a session.
LEMMA ControlInvStep == ControlInv /\ [Next]_vars => ControlInv'
<1>1. ASSUME ControlInv, GetBuf \/ RegBufRefused PROVE ControlInv'
  BY <1>1, SMT DEF ControlInv, GetBuf, RegBufRefused, Up, OnCtl, drvVars
<1>2. ASSUME ControlInv, RegBuf PROVE ControlInv'
  <2>1. PICK last \in 0 .. NumBufs : RegBuf!2!(last)
    BY <1>2, Zenon DEF RegBuf
  <2>2. /\ ctl = "getbuf" /\ reqd' = TRUE /\ streaming' = streaming
        /\ \/ ctl' = "launch" /\ state' = "REG"
           \/ ctl' = "unreg" /\ state' = state
    BY <1>2, <2>1, Zenon DEF RegBuf
  <2> QED
    BY <1>2, <2>2, SMT DEF ControlInv, Up, OnCtl
<1>3. ASSUME ControlInv, Start \/ WaitPoll \/ StopPoll PROVE ControlInv'
  BY <1>3, SMT DEF ControlInv, Start, WaitPoll, StopPoll, Up, OnCtl, drvVars
<1>4. ASSUME ControlInv, StreamOn PROVE ControlInv'
  BY <1>4, SMT DEF ControlInv, StreamOn, Up, OnCtl
<1>5. ASSUME ControlInv, StreamOff \/ QuitCmd \/ JoinCmd PROVE ControlInv'
  BY <1>5, SMT DEF ControlInv, StreamOff, QuitCmd, JoinCmd, Up, OnCtl, drvVars
<1>6. ASSUME ControlInv, UnregBuf \/ PutBuf PROVE ControlInv'
  BY <1>6, SMT DEF ControlInv, UnregBuf, PutBuf, Up, OnCtl, drvVars
<1>7. ASSUME \/ Link \/ ProcPipe \/ PollWake \/ CallNotify \/ CheckActive \/ DqBuf \/ UncountBuf
             \/ AddRefs \/ NotifyBundle
      PROVE  UNCHANGED <<state, ctl, reqd, streaming>>
  BY <1>7, Zenon DEF Link, ProcPipe, PollWake, CallNotify, CheckActive, DqBuf, UncountBuf,
     AddRefs, NotifyBundle, drvVars
<1>8. ASSUME \/ NotifyLinked \/ NotifyCmd \/ CmdPop \/ AppCallback \/ CmdEnd \/ FillBuf
             \/ CancelBuf \/ UNCHANGED vars
      PROVE  UNCHANGED <<state, ctl, reqd, streaming>>
  BY <1>8, Zenon DEF NotifyLinked, NotifyCmd, CmdPop, AppCallback, CmdEnd, FillBuf, CancelBuf,
     vars, drvVars
<1>9. ASSUME \E r \in Releaser : QbufFsm(r) \/ (\E b \in Buf : Qbuf(r, b)) \/ BufDone(r)
      PROVE  UNCHANGED <<state, ctl, reqd, streaming>>
  BY <1>9, Zenon DEF QbufFsm, Qbuf, BufDone, CheckRef, DecRef, CountBuf, QbufIoctl,
     UncountFailed, MarkInKernel, drvVars
<1>10. ASSUME ControlInv, UNCHANGED <<state, ctl, reqd, streaming>> PROVE ControlInv'
  BY <1>10 DEF ControlInv, Up
<1> QED
  BY <1>1, <1>2, <1>3, <1>4, <1>5, <1>6, <1>7, <1>8, <1>9, <1>10, Zenon
  DEF Next, Control, Poll, Done, Releaser

\* The command thread is launched and joined with the session.
LEMMA CommandInvStep == TypeOK /\ CommandInv /\ [Next]_vars => CommandInv'
<1>0. Cmd \in Releaser /\ Cmd \notin Client
  BY StreamAssumption, Zenon DEF StreamAssumption, Releaser
<1>1. ASSUME CommandInv,
             GetBuf \/ RegBufRefused \/ PutBuf \/ WaitPoll \/ StopPoll \/ StreamOff
      PROVE  CommandInv'
  BY <1>1, SMT DEF CommandInv, GetBuf, RegBufRefused, PutBuf, WaitPoll, StopPoll, StreamOff, OnCtl, cmdVars,
     relVars
<1>2. ASSUME CommandInv, RegBuf PROVE CommandInv'
  <2>1. ctl = "getbuf" /\ ctl' \in {"launch", "unreg"}
    BY <1>2, SMT DEF RegBuf
  <2> QED
    BY <1>2, <2>1, SMT DEF CommandInv, RegBuf, OnCtl, cmdVars, relVars
<1>3. ASSUME TypeOK, CommandInv, Start PROVE CommandInv'
  BY <1>0, <1>3, SMT DEF TypeOK, ThreadsOK, FlagsOK, CommandInv, Start, OnCtl
<1>4. ASSUME CommandInv, StreamOn PROVE CommandInv'
  BY <1>4, SMT DEF CommandInv, StreamOn, OnCtl, cmdVars, relVars
<1>5. ASSUME CommandInv, QuitCmd PROVE CommandInv'
  BY <1>5, SMT DEF CommandInv, QuitCmd, OnCtl, relVars
<1>6. ASSUME CommandInv, JoinCmd PROVE CommandInv'
  BY <1>6, SMT DEF CommandInv, JoinCmd, OnCtl, relVars
<1>7. ASSUME CommandInv, UnregBuf PROVE CommandInv'
  BY <1>7, SMT DEF CommandInv, UnregBuf, OnCtl, cmdVars, relVars
<1>8. ASSUME CommandInv, Link PROVE CommandInv'
  <2>1. HasCb
    BY <1>8, StreamAssumption, Zenon DEF Link, StreamAssumption
  <2> QED
    BY <1>8, <2>1, SMT DEF CommandInv, Link, cmdVars, relVars
<1>9. ASSUME TypeOK, CommandInv, NotifyCmd PROVE CommandInv'
  BY <1>9, SMT DEF TypeOK, FlagsOK, CommandInv, NotifyCmd, relVars
<1>10. ASSUME TypeOK, CommandInv, CmdPop PROVE CommandInv'
  BY <1>0, <1>10, SMT DEF TypeOK, ThreadsOK, CommandInv, CmdPop
<1>11. ASSUME TypeOK, CommandInv, AppCallback \/ CmdEnd PROVE CommandInv'
  BY <1>0, <1>11, SMT DEF TypeOK, ThreadsOK, CommandInv, AppCallback, CmdEnd, cmdVars
<1>12. ASSUME TypeOK, CommandInv, NEW c \in Client, QbufFsm(c) \/ \E b \in Buf : Qbuf(c, b)
       PROVE  CommandInv'
  <2>1. pc'[Cmd] = pc[Cmd] /\ UNCHANGED <<cmdVars, isLinked, ctl>>
    BY <1>0, <1>12, SMT DEF TypeOK, ThreadsOK, QbufFsm, Qbuf, Goto
  <2> QED
    BY <1>12, <2>1, Zenon DEF CommandInv, cmdVars
<1>13. ASSUME TypeOK, CommandInv, NEW r \in Releaser, BufDone(r) PROVE CommandInv'
  <2>1. /\ UNCHANGED <<cmdVars, isLinked, ctl>> /\ pc[r] # "off"
        /\ \E where \in {"idle", "dec", "count", "ioctl", "undo", "mark"} : Goto(r, where)
    BY <1>13, Zenon DEF BufDone, CheckRef, DecRef, CountBuf, QbufIoctl, UncountFailed, MarkInKernel
  <2>2. pc'[Cmd] = "off" <=> pc[Cmd] = "off"
    BY <1>0, <1>13, <2>1, SMT DEF TypeOK, ThreadsOK, Goto
  <2> QED
    BY <1>13, <2>1, <2>2, Zenon DEF CommandInv, cmdVars
<1>14. ASSUME \/ ProcPipe \/ PollWake \/ CallNotify \/ CheckActive \/ DqBuf \/ UncountBuf
             \/ AddRefs \/ NotifyBundle \/ NotifyLinked \/ FillBuf \/ CancelBuf
             \/ UNCHANGED vars
       PROVE  UNCHANGED <<cmdVars, isLinked, ctl, pc>>
  BY <1>14, Zenon DEF ProcPipe, PollWake, CallNotify, CheckActive, DqBuf, UncountBuf,
     AddRefs, NotifyBundle, NotifyLinked, FillBuf, CancelBuf, vars, relVars
<1>15. ASSUME CommandInv, UNCHANGED <<cmdVars, isLinked, ctl, pc>> PROVE CommandInv'
  BY <1>15, Zenon DEF CommandInv, cmdVars
<1> QED
  BY <1>1, <1>2, <1>3, <1>4, <1>5, <1>6, <1>7, <1>8, <1>9, <1>10, <1>11, <1>12, <1>13, <1>14,
     <1>15, Zenon
  DEF Next, Control, Poll, Done
\* A session begins with idle threads and an idle driver, and they stay idle
\* until the command thread is launched.
LEMMA QuietInvStep ==
  ASSUME QuietRestart, TypeOK, ControlInv, DriverInv, QuietInv, [Next]_vars
  PROVE  QuietInv'
<1>0. Cmd \notin Client
  BY StreamAssumption, Zenon DEF StreamAssumption
<1>1. CASE GetBuf
  <2>1. Quiet /\ UNCHANGED <<ppVars, relVars, doneQ>> /\ ctl = "cfg"
    BY <1>1, Zenon DEF GetBuf, drvVars
  <2>2. doneQ = <<>>
    BY <2>1, SMT DEF DriverInv, Up, OnCtl
  <2> QED
    BY <2>1, <2>2, Zenon DEF QuietInv, Quiet, ppVars, relVars
<1>2. CASE RegBuf
  <2>1. PICK last \in 0 .. NumBufs : RegBuf!2!(last)
    BY <1>2, Zenon DEF RegBuf
  <2>2. doneQ' = <<>> /\ UNCHANGED <<ppVars, relVars>> /\ ctl = "getbuf"
    BY <1>2, <2>1, Zenon DEF RegBuf
  <2> QED
    BY <2>2, SMT DEF QuietInv, Quiet, ppVars, relVars
<1>3. CASE \/ RegBufRefused \/ Start \/ StreamOn \/ WaitPoll \/ StopPoll \/ StreamOff
           \/ QuitCmd \/ JoinCmd \/ UnregBuf \/ PutBuf \/ Link
  <2>1. ctl' \notin {"getbuf", "launch"}
    BY <1>3, SMT DEF RegBufRefused, Start, StreamOn, WaitPoll, StopPoll, StreamOff, QuitCmd, JoinCmd, UnregBuf,
       PutBuf, Link
  <2> QED
    BY <2>1, Zenon DEF QuietInv
<1> DEFINE early == ctl \in {"getbuf", "launch"}
<1>4. CASE PollWake \/ CallNotify \/ CheckActive \/ DqBuf \/ UncountBuf \/ AddRefs
  <2>1. ~early /\ ctl' = ctl
    BY <1>4, SMT DEF QuietInv, Quiet, PollWake, CallNotify, CheckActive, DqBuf, UncountBuf, AddRefs
  <2> QED
    BY <2>1, Zenon DEF QuietInv
<1>5. CASE NotifyBundle \/ NotifyLinked \/ NotifyCmd
  <2>1. ~early /\ ctl' = ctl
    BY <1>5, SMT DEF QuietInv, Quiet, NotifyBundle, NotifyLinked, NotifyCmd
  <2> QED
    BY <2>1, Zenon DEF QuietInv
<1>6. CASE FillBuf \/ CancelBuf
  <2>1. ~early /\ ctl' = ctl
    BY <1>6, SMT DEF ControlInv, FillBuf, CancelBuf
  <2> QED
    BY <2>1, Zenon DEF QuietInv
<1>7. ASSUME NEW c \in Client, \/ QbufFsm(c) \/ (\E b \in Buf : Qbuf(c, b))
                               \/ BufDone(c)
      PROVE  QuietInv'
  <2>1. ~early /\ ctl' = ctl
    BY <1>7, SMT DEF QuietInv, Quiet, QbufFsm, Qbuf, BufDone, CheckRef, DecRef, CountBuf,
       QbufIoctl, UncountFailed, MarkInKernel
  <2> QED
    BY <2>1, Zenon DEF QuietInv
<1>8. CASE CmdPop \/ AppCallback \/ CmdEnd \/ BufDone(Cmd)
  <2>1. /\ UNCHANGED <<ctl, ppVars, doneQ>>
        /\ \E where : pc' = [pc EXCEPT ![Cmd] = where]
    BY <1>8, Zenon DEF CmdPop, AppCallback, CmdEnd, BufDone, CheckRef, DecRef, CountBuf,
       QbufIoctl, UncountFailed, MarkInKernel, Goto, drvVars
  <2>2. \A c \in Client : pc'[c] = pc[c]
    BY <1>0, <2>1 DEF TypeOK, ThreadsOK, Releaser
  <2> QED
    BY <2>1, <2>2, Zenon DEF QuietInv, Quiet, ppVars
<1>9. CASE ProcPipe \/ UNCHANGED vars
  <2>1. UNCHANGED <<ctl, ppVars, relVars, doneQ>>
    BY <1>9, Zenon DEF ProcPipe, vars, drvVars
  <2> QED
    BY <2>1, Zenon DEF QuietInv, Quiet, ppVars, relVars
<1> QED
  BY <1>1, <1>2, <1>3, <1>4, <1>5, <1>6, <1>7, <1>8, <1>9, Zenon
  DEF Next, Control, Poll, Done, Releaser

\* Between two sessions nobody gives the driver a buffer.
LEMMA DriverInvStep ==
  ASSUME TypeOK, ControlInv, CommandInv, DriverInv, QuietInv, [Next]_vars
  PROVE  DriverInv'
<1>0. /\ Cmd \notin Client /\ Cmd \in Releaser
      /\ reqd \in BOOLEAN
  BY StreamAssumption, Zenon DEF StreamAssumption, TypeOK, FlagsOK, Releaser
<1>1. CASE GetBuf
  <2>1. /\ ctl = "cfg" /\ ctl' \in {"cfg", "getbuf"} /\ UNCHANGED <<refcnt, ppVars, relVars, drvVars>>
        /\ given' = [b \in Buf |-> 0]
    BY <1>1, SMT DEF GetBuf, statusVars
  <2>2. ~Up /\ ~Up'
    BY <2>1, SMT DEF Up, OnCtl
  <2>3. kq \subseteq Buf
    BY DEF TypeOK, ControlOK
  <2>4. \A b \in kq : given'[b] = 0
    BY <2>1, <2>3
  <2> QED
    BY <2>1, <2>2, <2>4, Zenon DEF DriverInv, ppVars, relVars, drvVars
<1>2. CASE RegBuf
  <2>1. PICK last \in 0 .. NumBufs : RegBuf!2!(last)
    BY <1>2, Zenon DEF RegBuf
  <2> DEFINE done == 1 .. last
  <2>2. /\ doneQ' = <<>> /\ UNCHANGED <<ppVars, relVars>> /\ ctl = "getbuf"
        /\ reqd' = TRUE
        /\ kq' = done \cap InitReg
        /\ refcnt' = [b \in Buf |-> IF b \in done THEN RegisteredRefs(b) ELSE refcnt[b]]
        /\ given' = [b \in Buf |-> Flag(b \in done \ InitReg)]
    BY <1>2, <2>1, Zenon DEF RegBuf
  <2>3. pp = "poll" /\ \A r \in Client : pc[r] = "idle"
    BY <2>2, SMT DEF QuietInv, Quiet
  <2>4. pc[Cmd] = "off"
    BY <2>2, SMT DEF CommandInv, OnCtl
  <2>5. \A r \in Releaser : pc'[r] \in {"off", "idle", "fsm"} /\ pc'[r] # "fsm"
    BY <2>2, <2>3, <2>4, SMT DEF Releaser, relVars
  <2>6. \A b \in kq' : refcnt'[b] = 0 /\ given'[b] = 0
    BY <2>2, StreamAssumption, SMT DEF StreamAssumption, RegisteredRefs, Flag
  <2> QED
    BY <2>2, <2>3, <2>5, <2>6, Zenon DEF DriverInv, ppVars
<1>3. CASE \/ Start \/ StreamOn \/ WaitPoll \/ StopPoll \/ StreamOff \/ QuitCmd \/ JoinCmd \/ Link
  <2>1. Up
    BY <1>3, SMT DEF Start, StreamOn, WaitPoll, StopPoll, StreamOff, QuitCmd, JoinCmd, Link, Up,
       OnCtl
  <2>2. Up' /\ reqd' = reqd
    BY <1>3, SMT DEF Start, StreamOn, WaitPoll, StopPoll, StreamOff, QuitCmd, JoinCmd, Link, Up,
       OnCtl, drvVars
  <2> QED
    BY <2>1, <2>2, Zenon DEF ControlInv, DriverInv
<1>4. CASE UnregBuf
  <2>1. ctl = "unreg" /\ ~Up' /\ UNCHANGED <<ppVars, relVars, given>>
    BY <1>4, SMT DEF UnregBuf, Up, OnCtl
  <2>2. CASE state = "REG"
    <3>1. reqd' = FALSE /\ kq' = {} /\ doneQ' = <<>>
      BY <1>4, <2>2, Zenon DEF UnregBuf
    <3> QED
      BY <3>1, Zenon DEF DriverInv
  <2>3. CASE state # "REG"
    <3>1. ~Up /\ UNCHANGED <<reqd, kq, doneQ, refcnt>>
      BY <1>4, <2>1, <2>3, SMT DEF UnregBuf, Up, OnCtl
    <3> QED
      BY <2>1, <3>1, Zenon DEF DriverInv, ppVars, relVars
  <2> QED
    BY <2>2, <2>3
<1>5. CASE PutBuf
  <2>1. /\ ctl = "put" /\ ctl' = "cfg" /\ UNCHANGED <<refcnt, ppVars, relVars, drvVars>>
        /\ given' = [b \in Buf |-> 0]
    BY <1>5, SMT DEF PutBuf, statusVars
  <2>2. ~Up /\ ~Up'
    BY <2>1, SMT DEF Up, OnCtl
  <2>3. kq \subseteq Buf
    BY DEF TypeOK, ControlOK
  <2>4. \A b \in kq : given'[b] = 0
    BY <2>1, <2>3
  <2> QED
    BY <2>1, <2>2, <2>4, Zenon DEF DriverInv, ppVars, relVars, drvVars
<1>15. CASE RegBufRefused
  <2>1. UNCHANGED <<refcnt, given, ppVars, relVars, drvVars>>
    BY <1>15, Zenon DEF RegBufRefused, statusVars
  <2>2. ~Up /\ ~Up'
    BY <1>15, SMT DEF RegBufRefused, ControlInv, Up, OnCtl
  <2> QED
    BY <2>1, <2>2, Zenon DEF DriverInv, ppVars, relVars, drvVars
<1> DEFINE still == UNCHANGED <<ctl, state, reqd>>
           idle  == reqd /\ ~Up
<1>6. ASSUME still PROVE (Up' <=> Up) /\ reqd' = reqd
  BY <1>6, Zenon DEF Up
<1>7. ASSUME idle PROVE /\ state # "ACTIVE" /\ ~streaming /\ pc[Cmd] = "off" /\ cmdQ = <<>>
  <2>1. ctl \in {"cfg", "getbuf", "unreg", "put"}
    BY <1>7, SMT DEF TypeOK, ControlOK, CtlPc, Up, OnCtl
  <2> QED
    BY <1>7, <2>1, SMT DEF ControlInv, CommandInv, OnCtl
<1>8. CASE \/ PollWake \/ CallNotify \/ CheckActive \/ DqBuf \/ UncountBuf \/ AddRefs
           \/ NotifyBundle \/ NotifyLinked \/ NotifyCmd
  <2>1. still /\ kq' = kq /\ (doneQ' = doneQ \/ doneQ # <<>>)
    BY <1>8, Zenon DEF PollWake, CallNotify, CheckActive, DqBuf, UncountBuf, AddRefs,
       NotifyBundle, NotifyLinked, NotifyCmd, drvVars
  <2>2. ~idle
    BY <1>8, SMT DEF DriverInv, PollWake, CallNotify, CheckActive, DqBuf, UncountBuf, AddRefs,
       NotifyBundle, NotifyLinked, NotifyCmd
  <2> QED
    BY <1>6, <2>1, <2>2, Zenon DEF DriverInv
<1>9. CASE FillBuf \/ CancelBuf
  <2>1. still /\ kq # {} /\ ~idle
    BY <1>7, <1>9, SMT DEF FillBuf, CancelBuf
  <2> QED
    BY <1>6, <2>1, Zenon DEF DriverInv
<1>10. CASE CmdPop \/ AppCallback \/ CmdEnd
  <2>1. still /\ UNCHANGED <<kq, doneQ>> /\ ~idle
    BY <1>7, <1>10, SMT DEF CmdPop, AppCallback, CmdEnd, drvVars
  <2> QED
    BY <1>6, <2>1, Zenon DEF DriverInv
<1>11. ASSUME NEW r \in Releaser, BufDone(r) PROVE DriverInv'
  <2>1. still /\ doneQ' = doneQ /\ (kq' = kq \/ reqd)
    BY <1>11, Zenon DEF BufDone, CheckRef, DecRef, CountBuf, QbufIoctl, UncountFailed,
       MarkInKernel, drvVars
  <2>2. ~idle
    BY <1>11, SMT DEF DriverInv, BufDone, CheckRef, DecRef, CountBuf, QbufIoctl, UncountFailed,
       MarkInKernel
  <2> QED
    BY <1>6, <2>1, <2>2, Zenon DEF DriverInv
<1>12. ASSUME NEW c \in Client, QbufFsm(c) PROVE DriverInv'
  <2>1. /\ still /\ UNCHANGED <<kq, doneQ, refcnt, given, ppVars>>
        /\ Goto(c, IF state = "ACTIVE" THEN "check" ELSE "idle")
    BY <1>12, Zenon DEF QbufFsm, statusVars, drvVars
  <2>2. CASE idle
    <3>1. c \in Releaser /\ pc' = [pc EXCEPT ![c] = "idle"]
          /\ rbuf' = [rbuf EXCEPT ![c] = NoBuf]
      BY <1>7, <2>1, <2>2 DEF Goto, Releaser
    <3>2. \A r \in Releaser : /\ pc'[r] \in {"off", "idle", "fsm"}
                              /\ pc'[r] = "fsm" => pc[r] = "fsm" /\ rbuf'[r] = rbuf[r]
      BY <2>2, <3>1, SMT DEF DriverInv, TypeOK, ThreadsOK
    <3> QED
      BY <1>6, <2>1, <2>2, <3>2, Zenon DEF DriverInv, ppVars
  <2>3. CASE ~idle
    BY <1>6, <2>1, <2>3, Zenon DEF DriverInv
  <2> QED
    BY <2>2, <2>3
<1>13. ASSUME NEW c \in Client, NEW b \in Buf, Qbuf(c, b) PROVE DriverInv'
  <2>1. /\ still /\ UNCHANGED <<kq, doneQ, refcnt, ppVars>> /\ given[b] > 0
        /\ given' = [given EXCEPT ![b] = @ - 1]
        /\ pc' = [pc EXCEPT ![c] = "fsm"] /\ rbuf' = [rbuf EXCEPT ![c] = b]
    BY <1>13, Zenon DEF Qbuf, statusVars, drvVars
  <2>2. CASE idle
    <3>1. b \notin kq
      BY <2>1, <2>2, SMT DEF DriverInv
    <3>2. \A e \in kq : given'[e] = 0
      BY <2>1, <2>2, <3>1, SMT DEF DriverInv, TypeOK, StatusOK, ControlOK
    <3>3. c \in Releaser
      BY DEF Releaser
    <3>4. \A r \in Releaser : pc'[r] \in {"off", "idle", "fsm"}
      BY <2>1, <2>2, <3>3, SMT DEF DriverInv, TypeOK, ThreadsOK
    <3>5. \A r \in Releaser : pc'[r] = "fsm" => rbuf'[r] \notin kq
      BY <2>1, <2>2, <3>1, <3>3, SMT DEF DriverInv, TypeOK, ThreadsOK
    <3> QED
      BY <1>6, <2>1, <2>2, <3>2, <3>4, <3>5, Zenon DEF DriverInv, ppVars
  <2>3. CASE ~idle
    BY <1>6, <2>1, <2>3, Zenon DEF DriverInv
  <2> QED
    BY <2>2, <2>3
<1>14. CASE ProcPipe \/ UNCHANGED vars
  <2>1. still /\ UNCHANGED <<kq, doneQ, refcnt, given, ppVars, relVars>>
    BY <1>14, Zenon DEF ProcPipe, vars, statusVars, drvVars
  <2> QED
    BY <1>6, <2>1, Zenon DEF DriverInv, ppVars, relVars
<1> QED
  BY <1>1, <1>2, <1>3, <1>4, <1>5, <1>8, <1>9, <1>10, <1>11, <1>12, <1>13, <1>14, <1>15, Zenon
  DEF Next, Control, Poll, Done, Releaser
-----------------------------------------------------------------------------
(* The fate of one buffer while the stream is up.                              *)

\* References the poll thread has counted and not yet passed on.
InPoll(b) ==
  IF pbuf # b THEN 0
  ELSE IF pp = "bundle" THEN Flag(Bundled) + Flag(HasCb)
  ELSE IF pp \in {"link", "own"} THEN Flag(HasCb) ELSE 0

\* References the poll thread will add, or the command thread on its behalf.
PollDue(b) ==
  IF pbuf # b THEN 0
  ELSE IF pp \in {"bundle", "link"} THEN 1 + Flag(HasCb)
  ELSE IF pp = "own" THEN Flag(HasCb) ELSE 0

\* Dequeued, and its references not yet counted.
Taken(b) == IF pbuf = b /\ pp \in {"uncount", "refs"} THEN 1 ELSE 0

\* References to the buffer, the lost ones included, and references that will be
\* added without a new trip through the driver.
Held(b) == given[b] + Num(pc, rbuf, InUse, b) + Times(cmdQ, b) + InPoll(b) + lost[b]
Due(b) == Times(cmdQ, b) + Num(pc, rbuf, {"app"}, b) + PollDue(b)

\* How often the buffer is with the driver, on its way back, or just dequeued.
Queued(b) == IF b \in kq THEN 1 ELSE 0
Away(b) == Queued(b) + Times(doneQ, b) + Taken(b) + Num(pc, rbuf, OnTheWay, b)

\* A buffer is in one place, or shared. buf_refcnt counts the references, until
\* the stop makes mm_camera_qbuf drop them, and stays far from the byte's limit.
Fate(b) ==
  /\ Held(b) <= refcnt[b]
  /\ ctl # "unreg" => refcnt[b] = Held(b)
  /\ refcnt[b] + Due(b) <= 4
  /\ Away(b) <= 1
  /\ Away(b) > 0 => refcnt[b] = 0

FateInv == Up => \A b \in Buf : Fate(b)

\* Each lost reference had its failure.
LostInv == \A b \in Buf : lost[b] <= fails

OwnInv == ControlInv /\ CommandInv /\ DriverInv /\ QuietInv /\ FateInv /\ LostInv

\* The references of the property are those of the invariant, but for lost ones.
LEMMA RefsHeld == \A b : Held(b) = Refs(b) + lost[b]
  BY Zenon DEF Refs, Held, At, Num, Times, InPoll

\* Everything that is counted is a number.
LEMMA Numbers ==
  ASSUME TypeOK, NEW b \in Buf
  PROVE  /\ \A P : Num(pc, rbuf, P, b) \in Nat
         /\ Times(cmdQ, b) \in Nat /\ Times(doneQ, b) \in Nat
         /\ given[b] \in Nat /\ lost[b] \in Nat /\ refcnt[b] \in Nat
         /\ Queued(b) \in {0, 1} /\ Taken(b) \in {0, 1}
         /\ InPoll(b) \in {0, 1, 2} /\ PollDue(b) \in {0, 1, 2}
<1>1. cmdQ \in Seq(Buf) /\ doneQ \in Seq(Buf)
  BY Zenon DEF TypeOK, QueuesOK
<1>2. given[b] \in Nat /\ lost[b] \in Nat /\ refcnt[b] \in Nat
  BY SMT DEF TypeOK, StatusOK, Byte
<1>3. Flag(HasCb) \in {0, 1} /\ Flag(Bundled) \in {0, 1}
  BY Zenon DEF Flag
<1>4. InPoll(b) \in {0, 1, 2} /\ PollDue(b) \in {0, 1, 2}
  BY <1>3, SMT DEF InPoll, PollDue
<1>5. Queued(b) \in {0, 1} /\ Taken(b) \in {0, 1}
  BY Zenon DEF Queued, Taken
<1> QED
  BY <1>1, <1>2, <1>4, <1>5, NumType, TimesFacts, Zenon

\* A releaser goes on with the buffer in its hands, or puts it down.
LEMMA GotoNums ==
  ASSUME TypeOK, NEW r \in Releaser, NEW where, Goto(r, where), NEW P, "idle" \notin P,
         NEW b \in Buf
  PROVE  Num(pc', rbuf', P, b)
           = Num(pc, rbuf, P, b) - Here(pc[r], rbuf[r], P, b)
             + Here(where, rbuf[r], P, b)
<1>1. PICK v : v = IF where = "idle" THEN NoBuf ELSE rbuf[r]
  OBVIOUS
<1>2. Moves(r, where, v)
  BY <1>1, Zenon DEF Goto, Moves
<1>3. Num(pc', rbuf', P, b)
        = Num(pc, rbuf, P, b) - Here(pc[r], rbuf[r], P, b) + Here(where, v, P, b)
  BY <1>2, NumMoves
<1>4. Here(where, v, P, b) = Here(where, rbuf[r], P, b)
  BY <1>1, SMT DEF Here
<1> QED
  BY <1>3, <1>4

\* Only the byte's limits make counting up or down anything else.
LEMMA SmallByte ==
  \A n \in 0 .. 8 : (n + 1) % 256 = n + 1 /\ (n > 0 => (n + 255) % 256 = n - 1)
  BY SMT

\* What the fate of a buffer depends on.
fateVars == <<refcnt, given, lost, cmdQ, doneQ, kq, relVars, ppVars>>

\* A step that leaves all of this alone keeps the fate of each buffer.
LEMMA SameFate ==
  ASSUME NEW b \in Buf, Fate(b), UNCHANGED fateVars, ctl' # "unreg" => ctl # "unreg"
  PROVE  Fate(b)'
  BY Zenon DEF Fate, Held, Away, Due, InPoll, PollDue, Queued, Taken, fateVars, relVars, ppVars
\* A releaser that is there is counted.
LEMMA NumOne ==
  ASSUME NEW r \in Releaser, NEW P, pc[r] \in P PROVE Num(pc, rbuf, P, rbuf[r]) >= 1
<1>1. Num(pc, rbuf, P, rbuf[r]) \in Nat /\ Num(pc, rbuf, P, rbuf[r]) # 0
  BY NumType
<1> QED
  BY <1>1

\* The registered buffers are the driver's, the others the upper layer's.
LEMMA FateRegBuf ==
  ASSUME TypeOK, CommandInv, QuietInv, RegBuf, Up', ControlInv, NEW b \in Buf PROVE Fate(b)'
<1>1. PICK last \in 0 .. NumBufs : RegBuf!2!(last)
  BY Zenon DEF RegBuf
<1>2. ctl = "getbuf" /\ state = "BUFFED" /\ UNCHANGED <<cmdQ, ppVars, relVars>>
  BY SMT DEF RegBuf, ControlInv, cmdVars
<1>3. last = NumBufs /\ ctl' = "launch"
  <2>1. ctl' = "unreg" /\ state' = state => ~Up'
    BY <1>2, SMT DEF Up, OnCtl
  <2> QED
    BY <1>1, <2>1, Zenon
<1>4. /\ refcnt'[b] = RegisteredRefs(b) /\ lost'[b] = 0
      /\ given'[b] = Flag(b \in (1 .. last) \ InitReg)
      /\ kq' = (1 .. last) \cap InitReg /\ doneQ' = <<>>
  <2>1. /\ refcnt' = [e \in Buf |-> IF e \in 1 .. last THEN RegisteredRefs(e) ELSE refcnt[e]]
        /\ given' = [e \in Buf |-> Flag(e \in (1 .. last) \ InitReg)]
        /\ lost' = [e \in Buf |-> 0]
        /\ kq' = (1 .. last) \cap InitReg /\ doneQ' = <<>>
    BY <1>1, Zenon
  <2> QED
    BY <1>3, <2>1, SMT DEF Buf
<1>5. /\ refcnt'[b] = given'[b] /\ given'[b] \in {0, 1}
      /\ b \in kq' <=> given'[b] = 0
  BY <1>3, <1>4, SMT DEF RegisteredRefs, Flag, Buf
<1>6. pp = "poll" /\ (\A r \in Client : pc[r] = "idle") /\ pc[Cmd] = "off" /\ cmdQ = <<>>
  BY <1>2, SMT DEF QuietInv, Quiet, CommandInv, OnCtl
<1>7. \A P : "idle" \notin P /\ "off" \notin P => Num(pc', rbuf', P, b) = 0
  <2> TAKE P
  <2> HAVE "idle" \notin P /\ "off" \notin P
  <2>1. \A r \in Releaser : pc'[r] \notin P
    BY <1>2, <1>6 DEF Releaser, relVars
  <2> QED
    BY <2>1, NumType
<1>8. Num(pc', rbuf', InUse, b) = 0 /\ Num(pc', rbuf', OnTheWay, b) = 0
      /\ Num(pc', rbuf', {"app"}, b) = 0
  BY <1>7, SMT DEF InUse, OnTheWay
<1>9. Times(cmdQ', b) = 0 /\ Times(doneQ', b) = 0
  <2>1. <<>> \in Seq(Buf)
    OBVIOUS
  <2> QED
    BY <1>2, <1>4, <1>6, <2>1, TimesFacts
<1>10. pp' = "poll"
  BY <1>2, <1>6, Zenon DEF ppVars
<1> QED
  <2>2. InPoll(b)' = 0 /\ PollDue(b)' = 0 /\ Taken(b)' = 0
    BY <1>10, SMT DEF InPoll, PollDue, Taken
  <2>3. Queued(b)' = 1 - given'[b]
    BY <1>5, SMT DEF Queued
  <2> QED
    BY <1>3, <1>4, <1>5, <1>8, <1>9, <2>2, <2>3, SMT DEF Fate, Held, Away, Due

\* The other steps of the control thread move no reference; the driver's part
\* ends with STREAMOFF.
LEMMA FateControl ==
  ASSUME TypeOK, ControlInv, CommandInv, NEW b \in Buf, Fate(b), Up',
         Control \/ Link, ~RegBuf
  PROVE  Fate(b)'
<1>0. Cmd \in Releaser
  BY DEF Releaser
<1>1. CASE GetBuf \/ RegBufRefused \/ UnregBuf \/ PutBuf
  <2>1. ~Up'
    BY <1>1, SMT DEF GetBuf, RegBufRefused, UnregBuf, PutBuf, ControlInv, Up, OnCtl
  <2> QED
    BY <2>1
<1>2. CASE StreamOn \/ WaitPoll \/ StopPoll \/ QuitCmd \/ JoinCmd \/ Link
  <2>1. UNCHANGED fateVars
    BY <1>2, Zenon DEF StreamOn, WaitPoll, StopPoll, QuitCmd, JoinCmd, Link, fateVars, statusVars,
       cmdVars, drvVars, boundVars
  <2>2. ctl # "unreg"
    BY <1>2, SMT DEF StreamOn, WaitPoll, StopPoll, QuitCmd, JoinCmd, Link
  <2> QED
    BY <2>1, <2>2, SameFate, Zenon
<1>3. CASE Start
  <2>1. /\ UNCHANGED <<refcnt, given, lost, kq, doneQ, ppVars, rbuf>> /\ ctl = "launch"
        /\ \/ pc' = pc /\ cmdQ' = cmdQ
           \/ pc' = [pc EXCEPT ![Cmd] = "idle"] /\ cmdQ' = <<>>
    BY <1>3, Zenon DEF Start, statusVars, drvVars, boundVars
  <2>2. pc[Cmd] = "off" /\ cmdQ = <<>>
    BY <2>1, SMT DEF CommandInv, OnCtl
  <2>3. CASE pc' = pc /\ cmdQ' = cmdQ
    BY <2>1, <2>3, SameFate, SMT DEF fateVars, relVars
  <2>4. CASE pc' = [pc EXCEPT ![Cmd] = "idle"] /\ cmdQ' = <<>>
    <3>1. Moves(Cmd, "idle", rbuf[Cmd])
      BY <2>1, <2>4 DEF Moves, TypeOK, ThreadsOK
    <3>2. \A P : Num(pc', rbuf', P, b) = Num(pc, rbuf, P, b) - Here(pc[Cmd], rbuf[Cmd], P, b)
                                         + Here("idle", rbuf[Cmd], P, b)
      BY <1>0, <3>1, NumMoves
    <3>3. Num(pc', rbuf', InUse, b) = Num(pc, rbuf, InUse, b)
      BY <2>2, <3>2, Numbers, SMT DEF InUse, Here
    <3>4. Num(pc', rbuf', OnTheWay, b) = Num(pc, rbuf, OnTheWay, b)
      BY <2>2, <3>2, Numbers, SMT DEF OnTheWay, Here
    <3>5. Num(pc', rbuf', {"app"}, b) = Num(pc, rbuf, {"app"}, b)
      BY <2>2, <3>2, Numbers, SMT DEF Here
    <3> QED
      BY <2>1, <2>2, <2>4, <3>3, <3>4, <3>5, Zenon
      DEF Fate, Held, Away, Due, InPoll, PollDue, Queued, Taken, ppVars
  <2> QED
    BY <2>1, <2>3, <2>4
<1>4. CASE StreamOff
  <2>1. /\ UNCHANGED <<refcnt, given, lost, cmdQ, ppVars, relVars>> /\ kq' = {}
        /\ doneQ' = <<>> /\ ctl # "unreg"
    BY <1>4, SMT DEF StreamOff, statusVars, cmdVars, boundVars
  <2>2. Times(doneQ', b) = 0
    BY <2>1, TimesFacts, Zenon DEF TypeOK, QueuesOK
  <2>3. /\ Held(b)' = Held(b) /\ Due(b)' = Due(b) /\ Taken(b)' = Taken(b)
        /\ Num(pc', rbuf', OnTheWay, b) = Num(pc, rbuf, OnTheWay, b)
        /\ Queued(b)' = 0
    BY <2>1, Zenon DEF Held, Due, InPoll, PollDue, Queued, Taken, ppVars, relVars
  <2>4. Away(b)' = Taken(b) + Num(pc, rbuf, OnTheWay, b)
    BY <2>2, <2>3, Numbers, SMT DEF Away
  <2> QED
    BY <2>1, <2>3, <2>4, Numbers, SMT DEF Fate, Away
<1> QED
  BY <1>1, <1>2, <1>3, <1>4, Zenon DEF Control

\* The poll thread takes a filled buffer, counts a reference for everyone it
\* is passed to, and counts the linking channel's while it holds another.
LEMMA FatePoll ==
  ASSUME TypeOK, CommandInv, QuietInv, NEW b \in Buf, Fate(b), Up, Poll
  PROVE  Fate(b)'
<1>0. ctl' = ctl /\ UNCHANGED <<kq, relVars>>
  BY Zenon DEF Poll, ProcPipe, PollWake, CallNotify, CheckActive, DqBuf, UncountBuf, AddRefs,
     NotifyBundle, NotifyLinked, NotifyCmd, drvVars
<1>00. Queued(b)' = Queued(b) /\ \A P : Num(pc', rbuf', P, b) = Num(pc, rbuf, P, b)
  BY <1>0, Zenon DEF relVars, Queued
<1>01. Flag(Bundled) \in {0, 1} /\ Flag(HasCb) \in {0, 1} /\ (isLinked => Flag(HasCb) = 1)
  BY Zenon DEF Flag, CommandInv
<1>1. CASE ProcPipe
  <2>1. UNCHANGED fateVars
    BY <1>1, Zenon DEF ProcPipe, fateVars, statusVars, cmdVars, drvVars, boundVars
  <2> QED
    BY <1>0, <2>1, SameFate, Zenon
<1>2. CASE PollWake \/ CallNotify \/ CheckActive
  <2>1. /\ UNCHANGED <<refcnt, given, lost, cmdQ, doneQ, pbuf>>
        /\ pp \in {"poll", "woken", "notify"} /\ pp' \in {"poll", "woken", "notify", "dq"}
    BY <1>2, SMT DEF PollWake, CallNotify, CheckActive, statusVars, cmdVars, drvVars, boundVars
  <2>2. InPoll(b)' = InPoll(b) /\ PollDue(b)' = PollDue(b) /\ Taken(b)' = Taken(b)
    BY <2>1, SMT DEF InPoll, PollDue, Taken
  <2> QED
    BY <1>0, <1>00, <2>1, <2>2, Zenon DEF Fate, Held, Away, Due
<1>3. CASE DqBuf
  <2>1. UNCHANGED <<refcnt, given, lost, cmdQ>> /\ pp = "dq"
    BY <1>3, Zenon DEF DqBuf, statusVars, cmdVars, boundVars
  <2>2. CASE doneQ # <<>>
    <3>1. pbuf' = Head(doneQ) /\ doneQ' = Tail(doneQ) /\ pp' = "uncount"
      BY <1>3, <2>2, Zenon DEF DqBuf
    <3>2. Times(doneQ', b) = Times(doneQ, b) - Flag(pbuf' = b)
      BY <2>2, <3>1, TimesFacts, Zenon DEF TypeOK, QueuesOK
    <3>3. Taken(b)' = Flag(pbuf' = b) /\ Taken(b) = 0
      BY <2>1, <3>1, SMT DEF Taken, Flag
    <3>4. InPoll(b)' = InPoll(b) /\ PollDue(b)' = PollDue(b)
      BY <2>1, <3>1, SMT DEF InPoll, PollDue
    <3>5. Away(b)' = Away(b)
      <4>1. Taken(b)' \in {0, 1}
        BY <3>3, Zenon DEF Flag
      <4> QED
        BY <1>00, <3>2, <3>3, <4>1, Numbers, SMT DEF Away
    <3> QED
      BY <1>0, <1>00, <2>1, <3>4, <3>5, Zenon DEF Fate, Held, Due
  <2>3. CASE doneQ = <<>>
    <3>1. UNCHANGED <<pbuf, doneQ>> /\ pp' = "poll"
      BY <1>3, <2>3, Zenon DEF DqBuf
    <3>2. InPoll(b)' = InPoll(b) /\ PollDue(b)' = PollDue(b) /\ Taken(b)' = Taken(b)
      BY <2>1, <3>1, SMT DEF InPoll, PollDue, Taken
    <3> QED
      BY <1>0, <1>00, <2>1, <3>1, <3>2, Zenon DEF Fate, Held, Away, Due
  <2> QED
    BY <2>2, <2>3
<1>4. CASE UncountBuf
  <2>0. UNCHANGED <<refcnt, given, lost, cmdQ, doneQ>> /\ pp = "uncount"
    BY <1>4, Zenon DEF UncountBuf, cmdVars, drvVars
  <2>1. \/ pp' = "refs" /\ pbuf' = pbuf
        \/ pp' = "poll" /\ pbuf' = NoBuf
    BY <1>4, Zenon DEF UncountBuf
  <2>2. InPoll(b)' = InPoll(b) /\ PollDue(b)' = PollDue(b) /\ Taken(b)' \in {0, Taken(b)}
    BY <2>0, <2>1, SMT DEF InPoll, PollDue, Taken
  <2>3. Held(b)' = Held(b) /\ Due(b)' = Due(b)
    BY <1>00, <2>0, <2>2, Zenon DEF Held, Due
  <2>4. Away(b)' <= Away(b) /\ Away(b) \in Nat /\ Away(b)' \in Nat
    BY <1>00, <2>0, <2>2, Numbers, SMT DEF Away
  <2> QED
    BY <1>0, <2>0, <2>3, <2>4, SMT DEF Fate
<1>5. CASE AddRefs
  <2>1. /\ UNCHANGED <<given, lost, cmdQ, doneQ, pbuf>> /\ pp = "refs" /\ pp' = "bundle"
        /\ refcnt' = [refcnt EXCEPT ![pbuf] = (@ + Flag(Bundled) + Flag(HasCb)) % 256]
    BY <1>5, Zenon DEF AddRefs, cmdVars, drvVars, boundVars
  <2>2. CASE b = pbuf
    <3>1. /\ Taken(b) = 1 /\ InPoll(b) = 0 /\ PollDue(b) = 0
          /\ Taken(b)' = 0 /\ InPoll(b)' = Flag(Bundled) + Flag(HasCb)
          /\ PollDue(b)' = 1 + Flag(HasCb)
      BY <2>1, <2>2, SMT DEF Taken, InPoll, PollDue
    <3>2. refcnt[b] = 0
      BY <3>1, Numbers, SMT DEF Fate, Away
    <3>3. refcnt'[b] = Flag(Bundled) + Flag(HasCb)
      <4>1. refcnt'[b] = (refcnt[b] + Flag(Bundled) + Flag(HasCb)) % 256
        BY <2>1, <2>2, SMT DEF TypeOK, StatusOK
      <4> QED
        BY <1>01, <3>2, <4>1, SMT
    <3>4. /\ Held(b) = 0 /\ Times(cmdQ, b) = 0 /\ Num(pc, rbuf, InUse, b) = 0
          /\ given[b] = 0 /\ lost[b] = 0
      BY <3>2, Numbers, SMT DEF Fate, Held
    <3>5. Num(pc, rbuf, {"app"}, b) = 0
      <4>1. \A r \in Releaser : ~(pc[r] \in InUse /\ rbuf[r] = b)
        BY <3>4, NumType
      <4>2. \A r \in Releaser : ~(pc[r] \in {"app"} /\ rbuf[r] = b)
        BY <4>1 DEF InUse
      <4> QED
        BY <4>2, NumType
    <3>6. Held(b)' = refcnt'[b]
      BY <1>00, <1>01, <2>1, <3>1, <3>3, <3>4, SMT DEF Held
    <3>7. Due(b)' = 1 + Flag(HasCb)
      BY <1>00, <1>01, <2>1, <3>1, <3>4, <3>5, SMT DEF Due
    <3>8. Away(b)' = 0
      <4>1. Away(b) <= 1
        BY Zenon DEF Fate
      <4> QED
        BY <1>00, <2>1, <3>1, <4>1, Numbers, SMT DEF Away
    <3> QED
      BY <1>01, <3>3, <3>6, <3>7, <3>8, SMT DEF Fate
  <2>3. CASE b # pbuf
    <3>1. refcnt'[b] = refcnt[b]
      BY <2>1, <2>3, SMT DEF TypeOK, StatusOK
    <3>2. InPoll(b)' = InPoll(b) /\ PollDue(b)' = PollDue(b) /\ Taken(b)' = Taken(b)
      BY <2>1, <2>3, SMT DEF InPoll, PollDue, Taken
    <3> QED
      BY <1>0, <1>00, <2>1, <3>1, <3>2, Zenon DEF Fate, Held, Away, Due
  <2> QED
    BY <2>2, <2>3
<1>6. CASE NotifyBundle
  <2>1. /\ UNCHANGED <<refcnt, cmdQ, doneQ, pbuf>> /\ pp = "bundle" /\ pp' = "link"
        /\ \/ given' = [given EXCEPT ![pbuf] = @ + Flag(Bundled)] /\ lost' = lost
           \/ Bundled /\ lost' = [lost EXCEPT ![pbuf] = @ + 1] /\ given' = given
    BY <1>6, Zenon DEF NotifyBundle, Lose, statusVars, cmdVars, drvVars
  <2>2. PollDue(b)' = PollDue(b) /\ Taken(b)' = Taken(b)
    BY <2>1, SMT DEF PollDue, Taken
  <2>3. /\ given'[b] \in Nat /\ lost'[b] \in Nat
        /\ given'[b] + lost'[b] = given[b] + lost[b] + (IF b = pbuf THEN Flag(Bundled) ELSE 0)
    <3>1. CASE given' = [given EXCEPT ![pbuf] = @ + Flag(Bundled)] /\ lost' = lost
      BY <1>01, <3>1, Numbers, SMT DEF TypeOK, StatusOK
    <3>2. CASE Bundled /\ lost' = [lost EXCEPT ![pbuf] = @ + 1] /\ given' = given
      <4>1. Flag(Bundled) = 1
        BY <3>2, Zenon DEF Flag
      <4>2. lost' = [lost EXCEPT ![pbuf] = @ + 1] /\ given' = given
        BY <3>2, Zenon
      <4> QED
        BY <4>1, <4>2, Numbers, SMT DEF TypeOK, StatusOK
    <3> QED
      BY <2>1, <3>1, <3>2, Zenon
  <2>4. Held(b)' = Held(b)
    <3>1. InPoll(b) = InPoll(b)' + (IF b = pbuf THEN Flag(Bundled) ELSE 0)
      BY <1>01, <2>1, SMT DEF InPoll
    <3>2. InPoll(b)' \in Nat
      BY <1>01, <2>1, SMT DEF InPoll
    <3> QED
      BY <1>00, <1>01, <2>1, <2>3, <3>1, <3>2, Numbers, SMT DEF Held
  <2> QED
    BY <1>0, <1>00, <2>1, <2>2, <2>4, Zenon DEF Fate, Away, Due
<1>7. CASE NotifyLinked
  <2>1. UNCHANGED <<cmdQ, doneQ, pbuf>> /\ pp = "link" /\ pp' = "own"
    BY <1>7, Zenon DEF NotifyLinked, cmdVars, drvVars
  <2>2. InPoll(b)' = InPoll(b) /\ Taken(b)' = Taken(b)
        /\ PollDue(b)' = PollDue(b) - (IF pbuf = b THEN 1 ELSE 0)
    BY <1>01, <2>1, SMT DEF InPoll, PollDue, Taken
  <2>3. CASE isLinked /\ b = pbuf
    <3>1. InPoll(b) = 1 /\ PollDue(b) = 2
      <4>1. Flag(HasCb) = 1
        BY <1>01, <2>3, Zenon
      <4> QED
        BY <2>1, <2>3, <4>1, SMT DEF InPoll, PollDue
    <3>2. refcnt[b] \in 1 .. 2
      <4>1. Held(b) >= 1 /\ Held(b) \in Nat
        BY <3>1, Numbers, SMT DEF Held
      <4>2. Due(b) >= 2 /\ Due(b) \in Nat
        BY <3>1, Numbers, SMT DEF Due
      <4>3. Held(b) <= refcnt[b] /\ refcnt[b] + Due(b) <= 4
        BY Zenon DEF Fate
      <4> QED
        BY <4>1, <4>2, <4>3, Numbers, SMT
    <3>3. /\ refcnt'[b] = refcnt[b] + 1 /\ given'[b] \in Nat /\ lost'[b] \in Nat
          /\ given'[b] + lost'[b] = given[b] + lost[b] + 1
      <4>1. /\ refcnt' = [refcnt EXCEPT ![pbuf] = (@ + 1) % 256]
            /\ \/ given' = [given EXCEPT ![pbuf] = @ + 1] /\ lost' = lost
               \/ lost' = [lost EXCEPT ![pbuf] = @ + 1] /\ given' = given
        BY <1>7, <2>3, Zenon DEF NotifyLinked, Lose
      <4>2. /\ refcnt'[b] = (refcnt[b] + 1) % 256
            /\ \/ given'[b] = given[b] + 1 /\ lost'[b] = lost[b]
               \/ lost'[b] = lost[b] + 1 /\ given'[b] = given[b]
        BY <2>3, <4>1, SMT DEF TypeOK, StatusOK
      <4> QED
        BY <3>2, <4>2, SmallByte, Numbers
    <3> QED
      BY <1>0, <1>00, <2>1, <2>2, <2>3, <3>1, <3>2, <3>3, Numbers, SMT
      DEF Fate, Held, Away, Due
  <2>4. CASE ~(isLinked /\ b = pbuf)
    <3>1. refcnt'[b] = refcnt[b] /\ given'[b] = given[b] /\ lost'[b] = lost[b]
      <4>1. CASE isLinked
        <5>1. b # pbuf
          BY <2>4, <4>1, Zenon
        <5>2. /\ refcnt' = [refcnt EXCEPT ![pbuf] = (@ + 1) % 256]
              /\ given' \in {given, [given EXCEPT ![pbuf] = @ + 1]}
              /\ lost' \in {lost, [lost EXCEPT ![pbuf] = @ + 1]}
          BY <1>7, <4>1, Zenon DEF NotifyLinked, Lose
        <5> QED
          BY <5>1, <5>2, SMT DEF TypeOK, StatusOK
      <4>2. CASE ~isLinked
        BY <1>7, <4>2, Zenon DEF NotifyLinked
      <4> QED
        BY <4>1, <4>2
    <3>2. Held(b)' = Held(b) /\ Away(b)' = Away(b)
      BY <1>00, <2>1, <2>2, <3>1, Zenon DEF Held, Away
    <3>3. Due(b)' <= Due(b) /\ Due(b) \in Nat /\ Due(b)' \in Int
      BY <1>00, <2>1, <2>2, Numbers, SMT DEF Due
    <3> QED
      BY <1>0, <3>1, <3>2, <3>3, Numbers, SMT DEF Fate
  <2> QED
    BY <2>3, <2>4
<1>8. CASE NotifyCmd
  <2>1. /\ UNCHANGED <<refcnt, given, doneQ>> /\ pp = "own" /\ pp' = "poll" /\ pbuf' = NoBuf
        /\ ~cmdLock
    BY <1>8, Zenon DEF NotifyCmd, statusVars, drvVars
  <2>9. \/ /\ cmdQ' = IF HasCb /\ cmdActive THEN Append(cmdQ, pbuf) ELSE cmdQ
           /\ lost' = lost
        \/ /\ HasCb /\ cmdActive
           /\ lost' = [lost EXCEPT ![pbuf] = @ + 1] /\ cmdQ' = cmdQ
    BY <1>8, Zenon DEF NotifyCmd, Lose
  <2>2. pbuf \in Buf /\ cmdQ \in Seq(Buf)
    BY <2>1, SMT DEF TypeOK, ThreadsOK, QueuesOK
  <2>3. ctl # "launch"
    BY <2>1, SMT DEF QuietInv, Quiet
  <2>4. /\ InPoll(b) = IF pbuf = b THEN Flag(HasCb) ELSE 0
        /\ PollDue(b) = IF pbuf = b THEN Flag(HasCb) ELSE 0
        /\ InPoll(b)' = 0 /\ PollDue(b)' = 0 /\ Taken(b)' = 0 /\ Taken(b) = 0
    BY <2>1, SMT DEF InPoll, PollDue, Taken
  <2>5. Away(b)' = Away(b)
    BY <1>00, <2>1, <2>4, Zenon DEF Away
  <2>6. CASE HasCb /\ cmdActive /\ cmdQ' = Append(cmdQ, pbuf) /\ lost' = lost
    <3>1. Times(cmdQ', b) = Times(cmdQ, b) + InPoll(b) /\ InPoll(b) = PollDue(b)
      <4>1. Times(cmdQ', b) = Times(cmdQ, b) + Flag(pbuf = b) /\ Flag(HasCb) = 1
        BY <2>1, <2>2, <2>6, TimesFacts, Zenon DEF Flag
      <4>2. InPoll(b) = Flag(pbuf = b) /\ InPoll(b) = PollDue(b)
        <5>1. Flag(pbuf = b) = IF pbuf = b THEN 1 ELSE 0
          BY Zenon DEF Flag
        <5> QED
          BY <2>4, <4>1, <5>1, SMT
      <4> QED
        BY <4>1, <4>2
    <3>2. Held(b)' = Held(b) /\ Due(b)' = Due(b)
      <4>1. lost'[b] = lost[b]
        BY <2>6, Zenon
      <4> QED
        BY <1>00, <2>1, <2>4, <3>1, <4>1, Numbers, SMT DEF Held, Due
    <3> QED
      BY <1>0, <2>1, <2>5, <3>2, Zenon DEF Fate
  <2>8. CASE HasCb /\ lost' = [lost EXCEPT ![pbuf] = @ + 1] /\ cmdQ' = cmdQ
    <3>1. Flag(HasCb) = 1
      BY <2>8, Zenon DEF Flag
    <3>2. lost' = [lost EXCEPT ![pbuf] = @ + 1] /\ cmdQ' = cmdQ
      BY <2>8, Zenon
    <3>3. lost'[b] = lost[b] + InPoll(b) /\ lost'[b] \in Nat
      BY <2>4, <3>1, <3>2, Numbers, SMT DEF TypeOK, StatusOK
    <3>4. Held(b)' = Held(b)
      BY <1>00, <2>1, <2>4, <3>2, <3>3, Numbers, SMT DEF Held
    <3>5. Due(b)' <= Due(b) /\ Due(b) \in Nat /\ Due(b)' \in Nat
      BY <1>00, <2>4, <3>2, Numbers, SMT DEF Due
    <3> QED
      BY <1>0, <2>1, <2>5, <3>4, <3>5, Numbers, SMT DEF Fate
  <2>7. CASE ~(HasCb /\ cmdActive)
    <3>1. cmdQ' = cmdQ /\ lost' = lost
      BY <2>7, <2>9, Zenon
    <3>2. ctl = "unreg" \/ Flag(HasCb) = 0
      BY <2>3, <2>7, Zenon DEF Up, CommandInv, Flag
    <3>3. /\ Held(b)' = Held(b) - InPoll(b) /\ Due(b)' = Due(b) - PollDue(b)
          /\ ctl = "unreg" \/ InPoll(b) = 0
      BY <1>00, <2>1, <2>4, <3>1, <3>2, Numbers, SMT DEF Held, Due
    <3>4. Held(b) \in Nat /\ Due(b) \in Nat
      BY Numbers, SMT DEF Held, Due
    <3> QED
      BY <1>0, <2>1, <2>5, <3>3, <3>4, Numbers, SMT DEF Fate
  <2> QED
    BY <2>6, <2>7, <2>8, <2>9, Zenon
<1> QED
  BY <1>1, <1>2, <1>3, <1>4, <1>5, <1>6, <1>7, <1>8, Zenon DEF Poll

\* The poll thread and the queues keep what they hold while a releaser moves.
stillVars == <<ctl, cmdQ, doneQ, lost, ppVars>>

\* What is waiting in queues and polled is unchanged by a releaser's step.
LEMMA Still ==
  ASSUME NEW b \in Buf, UNCHANGED stillVars
  PROVE  /\ ctl' = ctl /\ Times(cmdQ', b) = Times(cmdQ, b) /\ Times(doneQ', b) = Times(doneQ, b)
         /\ InPoll(b)' = InPoll(b) /\ PollDue(b)' = PollDue(b) /\ Taken(b)' = Taken(b)
         /\ lost'[b] = lost[b]
  BY Zenon DEF stillVars, ppVars, InPoll, PollDue, Taken

\* A releaser that goes on with its buffer moves the buffer's counts alone.
LEMMA GotoCounts ==
  ASSUME TypeOK, NEW r \in Releaser, NEW from, NEW to, pc[r] = from, Goto(r, to), NEW b \in Buf
  PROVE  LET mine == IF rbuf[r] = b THEN 1 ELSE 0
             in(P, w) == IF w \in P THEN mine ELSE 0
         IN  /\ Num(pc', rbuf', InUse, b)
                  = Num(pc, rbuf, InUse, b) - in(InUse, from) + in(InUse, to)
             /\ Num(pc', rbuf', OnTheWay, b)
                  = Num(pc, rbuf, OnTheWay, b) - in(OnTheWay, from) + in(OnTheWay, to)
             /\ Num(pc', rbuf', {"app"}, b)
                  = Num(pc, rbuf, {"app"}, b) - in({"app"}, from) + in({"app"}, to)
<1>1. "idle" \notin InUse /\ "idle" \notin OnTheWay /\ "idle" \notin {"app"}
  BY DEF InUse, OnTheWay
<1>2. \A P : "idle" \notin P =>
        Num(pc', rbuf', P, b)
          = Num(pc, rbuf, P, b) - Here(from, rbuf[r], P, b) + Here(to, rbuf[r], P, b)
  BY GotoNums
<1> DEFINE mine == IF rbuf[r] = b THEN 1 ELSE 0
           in(P, w) == IF w \in P THEN mine ELSE 0
<1>3. \A P, w : Here(w, rbuf[r], P, b) = in(P, w)
  BY Zenon DEF Here
<1>4. \A P : "idle" \notin P => Num(pc', rbuf', P, b) = Num(pc, rbuf, P, b) - in(P, from) + in(P, to)
  <2> HIDE DEF in
  <2> QED
    BY <1>2, <1>3, Zenon
<1>5. /\ Num(pc', rbuf', InUse, b)
           = Num(pc, rbuf, InUse, b) - in(InUse, from) + in(InUse, to)
      /\ Num(pc', rbuf', OnTheWay, b)
           = Num(pc, rbuf, OnTheWay, b) - in(OnTheWay, from) + in(OnTheWay, to)
      /\ Num(pc', rbuf', {"app"}, b)
           = Num(pc, rbuf, {"app"}, b) - in({"app"}, from) + in({"app"}, to)
  <2> HIDE DEF in
  <2> QED
    BY <1>1, <1>4, Zenon
<1> QED
  BY <1>5

\* mm_stream_buf_done counts a reference down and sends the buffer back with
\* the last one; it can only be the last one for one thread.
LEMMA FateBufDone ==
  ASSUME TypeOK, ControlInv, NEW r \in Releaser, NEW b \in Buf, Fate(b), Up, BufDone(r)
  PROVE  Fate(b)'
<1> DEFINE mine == IF rbuf[r] = b THEN 1 ELSE 0
<1>0. UNCHANGED stillVars /\ given' = given
  BY Zenon DEF BufDone, CheckRef, DecRef, CountBuf, QbufIoctl, UncountFailed, MarkInKernel,
     stillVars, cmdVars, drvVars, boundVars
<1>1. /\ ctl' = ctl /\ Times(cmdQ', b) = Times(cmdQ, b) /\ Times(doneQ', b) = Times(doneQ, b)
      /\ InPoll(b)' = InPoll(b) /\ PollDue(b)' = PollDue(b) /\ Taken(b)' = Taken(b)
      /\ lost'[b] = lost[b]
  BY <1>0, Still
<1>2. reqd
  BY Zenon DEF ControlInv
<1>3. mine \in {0, 1}
  OBVIOUS
<1>4. Held(b) \in Nat /\ Due(b) \in Nat /\ Away(b) \in Nat /\ refcnt[b] \in Nat
  BY Numbers, SMT DEF Held, Due, Away
<1>5. CASE CheckRef(r)
  <2>1. PICK to : to \in {"idle", "dec"} /\ Goto(r, to) /\ (to = "idle" => refcnt[rbuf[r]] = 0)
    <3>1. CASE refcnt[rbuf[r]] = 0
      <4>1. Goto(r, "idle")
        BY <1>5, <3>1, Zenon DEF CheckRef
      <4> QED
        BY <3>1, <4>1, Zenon
    <3>2. CASE refcnt[rbuf[r]] # 0
      <4>1. Goto(r, "dec") /\ "dec" # "idle"
        BY <1>5, <3>2, Zenon DEF CheckRef
      <4> QED
        BY <4>1, Zenon
    <3> QED
      BY <3>1, <3>2
  <2>2. pc[r] = "check" /\ UNCHANGED <<refcnt, kq>>
    BY <1>5, Zenon DEF CheckRef, statusVars, drvVars
  <2>3. rbuf[r] = b => refcnt[b] >= 1
    <3>1. HAVE rbuf[r] = b
    <3>2. Num(pc, rbuf, InUse, b) >= 1
      BY <2>2, <3>1, NumOne DEF InUse
    <3>3. Held(b) >= 1
      BY <3>2, Numbers, SMT DEF Held
    <3> QED
      BY <1>4, <3>3, SMT DEF Fate
  <2>4. CASE to = "dec"
    <3>1. /\ Num(pc', rbuf', InUse, b) = Num(pc, rbuf, InUse, b)
          /\ Num(pc', rbuf', OnTheWay, b) = Num(pc, rbuf, OnTheWay, b)
          /\ Num(pc', rbuf', {"app"}, b) = Num(pc, rbuf, {"app"}, b)
      BY <2>1, <2>2, <2>4, GotoCounts, Numbers, SMT DEF InUse, OnTheWay
    <3> QED
      BY <1>0, <1>1, <2>2, <3>1, Zenon DEF Fate, Held, Due, Away, Queued
  <2>5. CASE to = "idle"
    <3>1. rbuf[r] # b
      BY <2>1, <2>3, <2>5
    <3>2. /\ Num(pc', rbuf', InUse, b) = Num(pc, rbuf, InUse, b)
          /\ Num(pc', rbuf', OnTheWay, b) = Num(pc, rbuf, OnTheWay, b)
          /\ Num(pc', rbuf', {"app"}, b) = Num(pc, rbuf, {"app"}, b)
      BY <2>1, <2>2, <2>5, <3>1, GotoCounts, Numbers, SMT DEF InUse, OnTheWay
    <3> QED
      BY <1>0, <1>1, <2>2, <3>2, Zenon DEF Fate, Held, Due, Away, Queued
  <2> QED
    BY <2>1, <2>4, <2>5
<1>6. CASE DecRef(r)
  <2>1. /\ pc[r] = "dec" /\ kq' = kq
        /\ refcnt' = [refcnt EXCEPT ![rbuf[r]] = (@ + 255) % 256]
        /\ Goto(r, IF refcnt'[rbuf[r]] = 0 THEN "count" ELSE "idle")
    BY <1>6, Zenon DEF DecRef, drvVars
  <2>2. CASE rbuf[r] = b
    <3>1. Num(pc, rbuf, InUse, b) >= 1
      BY <2>1, <2>2, NumOne DEF InUse
    <3>2. Held(b) >= 1
      BY <3>1, Numbers, SMT DEF Held
    <3>3. refcnt[b] \in 1 .. 4 /\ Away(b) = 0
      BY <1>4, <3>2, SMT DEF Fate
    <3>4. refcnt'[b] = refcnt[b] - 1
      <4>1. refcnt'[b] = (refcnt[b] + 255) % 256
        BY <2>1, <2>2, SMT DEF TypeOK, StatusOK
      <4> QED
        BY <3>3, <4>1, SmallByte
    <3>5. /\ Num(pc', rbuf', InUse, b) = Num(pc, rbuf, InUse, b) - 1
          /\ Num(pc', rbuf', OnTheWay, b)
               = Num(pc, rbuf, OnTheWay, b) + (IF refcnt'[b] = 0 THEN 1 ELSE 0)
          /\ Num(pc', rbuf', {"app"}, b) = Num(pc, rbuf, {"app"}, b)
      <4>1. CASE refcnt'[b] = 0
        <5>1. Goto(r, "count")
          BY <2>1, <2>2, <4>1
        <5> QED
          BY <2>1, <2>2, <4>1, <5>1, GotoCounts, Numbers, SMT DEF InUse, OnTheWay
      <4>2. CASE refcnt'[b] # 0
        <5>1. Goto(r, "idle")
          BY <2>1, <2>2, <4>2
        <5> QED
          BY <2>1, <2>2, <4>2, <5>1, GotoCounts, Numbers, SMT DEF InUse, OnTheWay
      <4> QED
        BY <4>1, <4>2
    <3>6. Held(b)' = Held(b) - 1
      BY <1>0, <1>1, <3>5, Numbers, SMT DEF Held
    <3>7. Due(b)' = Due(b)
      BY <1>1, <3>5, Zenon DEF Due
    <3>8. Away(b)' = IF refcnt'[b] = 0 THEN 1 ELSE 0
      <4>1. Queued(b)' = Queued(b)
        BY <2>1, Zenon DEF Queued
      <4> QED
        BY <1>1, <3>3, <3>5, <4>1, Numbers, SMT DEF Away
    <3> QED
      BY <1>1, <1>4, <3>3, <3>4, <3>6, <3>7, <3>8, SMT DEF Fate
  <2>3. CASE rbuf[r] # b
    <3>1. refcnt'[b] = refcnt[b]
      BY <2>1, <2>3, SMT DEF TypeOK, StatusOK
    <3>2. PICK to : Goto(r, to)
      BY <2>1, Zenon
    <3>3. /\ Num(pc', rbuf', InUse, b) = Num(pc, rbuf, InUse, b)
          /\ Num(pc', rbuf', OnTheWay, b) = Num(pc, rbuf, OnTheWay, b)
          /\ Num(pc', rbuf', {"app"}, b) = Num(pc, rbuf, {"app"}, b)
      BY <2>3, <3>2, GotoCounts, Numbers, SMT
    <3> QED
      BY <1>0, <1>1, <2>1, <3>1, <3>3, Zenon DEF Fate, Held, Due, Away, Queued
  <2> QED
    BY <2>2, <2>3
<1>7. CASE CountBuf(r) \/ UncountFailed(r) \/ MarkInKernel(r)
  <2>1. /\ UNCHANGED <<refcnt, kq>>
        /\ \/ pc[r] = "count" /\ Goto(r, "ioctl")
           \/ pc[r] \in {"count", "undo", "mark"} /\ Goto(r, "idle")
    BY <1>7, Zenon DEF CountBuf, UncountFailed, MarkInKernel, drvVars
  <2>2. /\ Num(pc', rbuf', InUse, b) = Num(pc, rbuf, InUse, b)
        /\ Num(pc', rbuf', OnTheWay, b) <= Num(pc, rbuf, OnTheWay, b)
        /\ Num(pc', rbuf', {"app"}, b) = Num(pc, rbuf, {"app"}, b)
        /\ Num(pc', rbuf', OnTheWay, b) \in Nat
    <3>1. CASE pc[r] = "count" /\ Goto(r, "ioctl")
      BY <3>1, GotoCounts, Numbers, SMT DEF InUse, OnTheWay
    <3>2. CASE pc[r] \in {"count", "undo", "mark"} /\ Goto(r, "idle")
      BY <3>2, GotoCounts, Numbers, NumType, SMT DEF InUse, OnTheWay
    <3> QED
      BY <2>1, <3>1, <3>2
  <2>3. Held(b)' = Held(b) /\ Due(b)' = Due(b)
    BY <1>0, <1>1, <2>2, Zenon DEF Held, Due
  <2>4. Away(b)' <= Away(b) /\ Away(b)' \in Nat
    <3>1. Queued(b)' = Queued(b)
      BY <2>1, Zenon DEF Queued
    <3> QED
      BY <1>1, <2>2, <3>1, Numbers, SMT DEF Away
  <2> QED
    BY <1>1, <1>4, <2>1, <2>3, <2>4, SMT DEF Fate
<1>8. CASE QbufIoctl(r)
  <2>1. /\ refcnt' = refcnt /\ pc[r] = "ioctl"
        /\ \/ kq' = kq \cup {rbuf[r]} /\ Goto(r, "mark")
           \/ kq' = kq /\ Goto(r, "undo")
    BY <1>2, <1>8, Zenon DEF QbufIoctl, statusVars
  <2>2. PICK to \in {"mark", "undo"} : Goto(r, to)
    BY <2>1, Zenon
  <2>3. /\ Num(pc', rbuf', InUse, b) = Num(pc, rbuf, InUse, b)
        /\ Num(pc', rbuf', OnTheWay, b) = Num(pc, rbuf, OnTheWay, b) - mine
        /\ Num(pc', rbuf', {"app"}, b) = Num(pc, rbuf, {"app"}, b)
    BY <2>1, <2>2, GotoCounts, Numbers, SMT DEF InUse, OnTheWay
  <2>4. Queued(b)' \in {Queued(b), Queued(b) + mine} /\ Queued(b)' \in {0, 1}
    BY <2>1, SMT DEF Queued
  <2>5. Held(b)' = Held(b) /\ Due(b)' = Due(b)
    BY <1>0, <1>1, <2>3, Zenon DEF Held, Due
  <2>6. Num(pc, rbuf, OnTheWay, b) >= mine
    BY <2>1, NumOne, NumType, SMT DEF OnTheWay
  <2>7. Away(b)' <= Away(b) /\ Away(b)' \in Nat
    BY <1>1, <2>3, <2>4, <2>6, Numbers, SMT DEF Away
  <2> QED
    BY <1>1, <1>4, <2>1, <2>5, <2>7, SMT DEF Fate
<1> QED
  BY <1>5, <1>6, <1>7, <1>8, Zenon DEF BufDone

\* The command thread takes a reference from its queue and adds one of the
\* application's to it.
LEMMA FateCmd ==
  ASSUME TypeOK, NEW b \in Buf, Fate(b), CmdPop \/ AppCallback \/ CmdEnd
  PROVE  Fate(b)'
<1>0. Cmd \in Releaser
  BY DEF Releaser
<1>1. ctl' = ctl /\ UNCHANGED <<kq, doneQ, lost, ppVars>>
  BY Zenon DEF CmdPop, AppCallback, CmdEnd, drvVars, boundVars
<1>2. /\ Queued(b)' = Queued(b) /\ Taken(b)' = Taken(b) /\ Times(doneQ', b) = Times(doneQ, b)
      /\ InPoll(b)' = InPoll(b) /\ PollDue(b)' = PollDue(b) /\ lost'[b] = lost[b]
  BY <1>1, Zenon DEF Queued, Taken, InPoll, PollDue, ppVars
<1>3. Held(b) \in Nat /\ Due(b) \in Nat /\ Away(b) \in Nat /\ refcnt[b] \in Nat
  BY Numbers, SMT DEF Held, Due, Away
<1>4. ASSUME NEW w, NEW v, Moves(Cmd, w, v)
      PROVE  \A P : Num(pc', rbuf', P, b) = Num(pc, rbuf, P, b) - Here(pc[Cmd], rbuf[Cmd], P, b)
                                            + Here(w, v, P, b)
  BY <1>0, <1>4, NumMoves
<1>5. CASE CmdPop
  <2>1. /\ pc[Cmd] = "idle" /\ cmdQ # <<>> /\ cmdQ' = Tail(cmdQ) /\ UNCHANGED <<refcnt, given>>
        /\ Moves(Cmd, "app", Head(cmdQ))
    BY <1>5, Zenon DEF CmdPop, Moves, statusVars
  <2>2. PICK mine \in {0, 1} : mine = Flag(Head(cmdQ) = b)
    BY Zenon DEF Flag
  <2>3. Times(cmdQ', b) = Times(cmdQ, b) - mine
    BY <2>1, <2>2, TimesFacts, Zenon DEF TypeOK, QueuesOK
  <2>4. \A P : Here("app", Head(cmdQ), P, b) = IF "app" \in P THEN mine ELSE 0
    <3>1. mine = IF Head(cmdQ) = b THEN 1 ELSE 0
      BY <2>2, Zenon DEF Flag
    <3> QED
      BY <3>1, Zenon DEF Here
  <2>5. /\ Num(pc', rbuf', InUse, b) = Num(pc, rbuf, InUse, b) + mine
        /\ Num(pc', rbuf', OnTheWay, b) = Num(pc, rbuf, OnTheWay, b)
        /\ Num(pc', rbuf', {"app"}, b) = Num(pc, rbuf, {"app"}, b) + mine
    <3>1. \A P : "idle" \notin P => Here(pc[Cmd], rbuf[Cmd], P, b) = 0
      BY <2>1, Zenon DEF Here
    <3>2. /\ Here(pc[Cmd], rbuf[Cmd], InUse, b) = 0 /\ Here(pc[Cmd], rbuf[Cmd], OnTheWay, b) = 0
          /\ Here(pc[Cmd], rbuf[Cmd], {"app"}, b) = 0
      BY <3>1, SMT DEF InUse, OnTheWay
    <3>3. /\ Here("app", Head(cmdQ), InUse, b) = mine /\ Here("app", Head(cmdQ), OnTheWay, b) = 0
          /\ Here("app", Head(cmdQ), {"app"}, b) = mine
      BY <2>4, SMT DEF InUse, OnTheWay
    <3> QED
      BY <1>4, <2>1, <3>2, <3>3, Numbers, SMT
  <2>6. Held(b)' = Held(b) /\ Due(b)' = Due(b)
    <3>1. given'[b] = given[b]
      BY <2>1
    <3> QED
      BY <1>2, <2>3, <2>5, <3>1, Numbers, SMT DEF Held, Due
  <2>7. Away(b)' = Away(b)
    BY <1>2, <2>5, Zenon DEF Away
  <2> QED
    BY <1>1, <2>1, <2>6, <2>7, Zenon DEF Fate
<1>6. CASE AppCallback
  <2>1. /\ pc[Cmd] = "app" /\ cmdQ' = cmdQ /\ rbuf' = rbuf /\ pc' = [pc EXCEPT ![Cmd] = "check"]
        /\ refcnt' = [refcnt EXCEPT ![rbuf[Cmd]] = (@ + 1) % 256]
        /\ given' = [given EXCEPT ![rbuf[Cmd]] = @ + 1]
    BY <1>6, Zenon DEF AppCallback, cmdVars
  <2>2. Moves(Cmd, "check", rbuf[Cmd])
    BY <2>1 DEF Moves, TypeOK, ThreadsOK
  <2>3. \A P : Num(pc', rbuf', P, b) = Num(pc, rbuf, P, b) - Here("app", rbuf[Cmd], P, b)
                                       + Here("check", rbuf[Cmd], P, b)
    BY <1>4, <2>1, <2>2, Zenon
  <2>4. /\ Num(pc', rbuf', InUse, b) = Num(pc, rbuf, InUse, b)
        /\ Num(pc', rbuf', OnTheWay, b) = Num(pc, rbuf, OnTheWay, b)
        /\ Num(pc', rbuf', {"app"}, b) = Num(pc, rbuf, {"app"}, b) - (IF rbuf[Cmd] = b THEN 1 ELSE 0)
    BY <2>3, Numbers, SMT DEF InUse, OnTheWay, Here
  <2>5. Away(b)' = Away(b)
    BY <1>2, <2>4, Zenon DEF Away
  <2>6. CASE rbuf[Cmd] = b
    <3>1. Num(pc, rbuf, InUse, b) >= 1 /\ Num(pc, rbuf, {"app"}, b) >= 1
      BY <1>0, <2>1, <2>6, NumOne DEF InUse
    <3>2. Held(b) >= 1 /\ Due(b) >= 1
      BY <3>1, Numbers, SMT DEF Held, Due
    <3>3. refcnt[b] \in 1 .. 3 /\ Away(b) = 0
      BY <1>3, <3>2, SMT DEF Fate
    <3>4. refcnt'[b] = refcnt[b] + 1 /\ given'[b] = given[b] + 1
      <4>1. refcnt'[b] = (refcnt[b] + 1) % 256 /\ given'[b] = given[b] + 1
        BY <2>1, <2>6, SMT DEF TypeOK, StatusOK
      <4> QED
        BY <3>3, <4>1, SmallByte
    <3>5. Held(b)' = Held(b) + 1 /\ Due(b)' = Due(b) - 1
      BY <1>2, <2>1, <2>4, <2>6, <3>4, Numbers, SMT DEF Held, Due
    <3> QED
      BY <1>1, <1>3, <2>5, <3>3, <3>4, <3>5, SMT DEF Fate
  <2>7. CASE rbuf[Cmd] # b
    <3>1. refcnt'[b] = refcnt[b] /\ given'[b] = given[b]
      BY <2>1, <2>7, SMT DEF TypeOK, StatusOK
    <3>2. Num(pc', rbuf', {"app"}, b) = Num(pc, rbuf, {"app"}, b)
      BY <2>4, <2>7, Numbers, SMT
    <3> QED
      BY <1>1, <1>2, <2>1, <2>4, <2>5, <3>1, <3>2, Zenon DEF Fate, Held, Due
  <2> QED
    BY <2>6, <2>7
<1>7. CASE CmdEnd
  <2>1. /\ pc[Cmd] = "idle" /\ UNCHANGED <<cmdQ, refcnt, given, rbuf>>
        /\ pc' = [pc EXCEPT ![Cmd] = "off"]
    BY <1>7, Zenon DEF CmdEnd, cmdVars, statusVars
  <2>2. Moves(Cmd, "off", rbuf[Cmd])
    BY <2>1 DEF Moves, TypeOK, ThreadsOK
  <2>3. \A P : Num(pc', rbuf', P, b) = Num(pc, rbuf, P, b) - Here("idle", rbuf[Cmd], P, b)
                                       + Here("off", rbuf[Cmd], P, b)
    BY <1>4, <2>1, <2>2, Zenon
  <2>4. /\ Num(pc', rbuf', InUse, b) = Num(pc, rbuf, InUse, b)
        /\ Num(pc', rbuf', OnTheWay, b) = Num(pc, rbuf, OnTheWay, b)
        /\ Num(pc', rbuf', {"app"}, b) = Num(pc, rbuf, {"app"}, b)
    BY <2>3, Numbers, SMT DEF InUse, OnTheWay, Here
  <2> QED
    BY <1>1, <1>2, <2>1, <2>4, Zenon DEF Fate, Held, Due, Away
<1> QED
  BY <1>5, <1>6, <1>7

\* A client gives back a reference it has; a stream that is stopping forgets it.
LEMMA FateClient ==
  ASSUME TypeOK, ControlInv, Up, QuietInv, NEW b \in Buf, Fate(b), NEW c \in Client,
         QbufFsm(c) \/ \E e \in Buf : Qbuf(c, e)
  PROVE  Fate(b)'
<1>0. c \in Releaser
  BY DEF Releaser
<1>1. UNCHANGED <<stillVars, refcnt, kq>>
  BY Zenon DEF QbufFsm, Qbuf, stillVars, cmdVars, statusVars, drvVars, boundVars
<1>2. /\ ctl' = ctl /\ Times(cmdQ', b) = Times(cmdQ, b) /\ Times(doneQ', b) = Times(doneQ, b)
      /\ InPoll(b)' = InPoll(b) /\ PollDue(b)' = PollDue(b) /\ Taken(b)' = Taken(b)
      /\ Queued(b)' = Queued(b) /\ lost'[b] = lost[b]
  BY <1>1, Still, Zenon DEF Queued
<1>3. Held(b) \in Nat /\ Due(b) \in Nat /\ Away(b) \in Nat /\ refcnt[b] \in Nat
  BY Numbers, SMT DEF Held, Due, Away
<1>4. CASE QbufFsm(c)
  <2>1. /\ pc[c] = "fsm" /\ given' = given
        /\ Goto(c, IF state = "ACTIVE" THEN "check" ELSE "idle")
    BY <1>4, Zenon DEF QbufFsm
  <2>2. CASE state = "ACTIVE"
    <3>1. /\ Num(pc', rbuf', InUse, b) = Num(pc, rbuf, InUse, b)
          /\ Num(pc', rbuf', OnTheWay, b) = Num(pc, rbuf, OnTheWay, b)
          /\ Num(pc', rbuf', {"app"}, b) = Num(pc, rbuf, {"app"}, b)
      <4>1. Goto(c, "check")
        BY <2>1, <2>2, Zenon
      <4> QED
        BY <1>0, <2>1, <4>1, GotoCounts, Numbers, SMT DEF InUse, OnTheWay
    <3> QED
      BY <1>1, <1>2, <2>1, <3>1, Zenon DEF Fate, Held, Due, Away
  <2>3. CASE state # "ACTIVE"
    <3>1. ctl = "unreg"
      BY <2>1, <2>3, SMT DEF Up, ControlInv, QuietInv, Quiet
    <3>2. /\ Num(pc', rbuf', InUse, b) <= Num(pc, rbuf, InUse, b)
          /\ Num(pc', rbuf', OnTheWay, b) = Num(pc, rbuf, OnTheWay, b)
          /\ Num(pc', rbuf', {"app"}, b) = Num(pc, rbuf, {"app"}, b)
          /\ Num(pc', rbuf', InUse, b) \in Nat
      <4>1. Goto(c, "idle")
        BY <2>1, <2>3, Zenon
      <4> QED
        BY <1>0, <2>1, <4>1, GotoCounts, Numbers, NumType, SMT DEF InUse, OnTheWay
    <3>3. Held(b)' <= Held(b) /\ Held(b)' \in Nat
      BY <1>2, <2>1, <3>2, Numbers, SMT DEF Held
    <3>4. Due(b)' = Due(b) /\ Away(b)' = Away(b)
      BY <1>2, <3>2, Zenon DEF Due, Away
    <3> QED
      BY <1>1, <1>2, <1>3, <3>1, <3>3, <3>4, SMT DEF Fate
  <2> QED
    BY <2>2, <2>3
<1>5. ASSUME NEW e \in Buf, Qbuf(c, e) PROVE Fate(b)'
  <2>1. /\ pc[c] = "idle" /\ given' = [given EXCEPT ![e] = @ - 1] /\ Moves(c, "fsm", e)
    BY <1>5, Zenon DEF Qbuf, Moves
  <2>2. \A P : Num(pc', rbuf', P, b) = Num(pc, rbuf, P, b) - Here("idle", rbuf[c], P, b)
                                       + Here("fsm", e, P, b)
    BY <1>0, <2>1, NumMoves
  <2>3. /\ Num(pc', rbuf', InUse, b) = Num(pc, rbuf, InUse, b) + (IF e = b THEN 1 ELSE 0)
        /\ Num(pc', rbuf', OnTheWay, b) = Num(pc, rbuf, OnTheWay, b)
        /\ Num(pc', rbuf', {"app"}, b) = Num(pc, rbuf, {"app"}, b)
    BY <2>2, Numbers, SMT DEF InUse, OnTheWay, Here
  <2>4. given'[b] = given[b] - (IF e = b THEN 1 ELSE 0)
    BY <2>1, SMT DEF TypeOK, StatusOK
  <2>5. Held(b)' = Held(b)
    BY <1>2, <2>3, <2>4, Numbers, SMT DEF Held
  <2> QED
    BY <1>1, <1>2, <2>3, <2>5, Zenon DEF Fate, Due, Away
<1> QED
  BY <1>4, <1>5

\* The driver fills a buffer, or hands it back, and keeps it in its own queue.
LEMMA FateDriver ==
  ASSUME TypeOK, NEW b \in Buf, Fate(b), FillBuf \/ CancelBuf PROVE Fate(b)'
<1>1. /\ UNCHANGED <<ctl, refcnt, given, lost, cmdQ, relVars, ppVars>>
      /\ \E e \in kq : kq' = kq \ {e} /\ doneQ' = Append(doneQ, e)
  BY Zenon DEF FillBuf, CancelBuf, cmdVars, statusVars, boundVars
<1>2. PICK e \in kq : kq' = kq \ {e} /\ doneQ' = Append(doneQ, e)
  BY <1>1
<1>3. Times(doneQ', b) = Times(doneQ, b) + Flag(e = b)
  BY <1>2, TimesFacts DEF TypeOK, QueuesOK, ControlOK
<1>4. Queued(b)' = Queued(b) - Flag(e = b)
  BY <1>2, SMT DEF Queued, Flag
<1>5. Flag(e = b) \in {0, 1}
  BY Zenon DEF Flag
<1>6. Taken(b)' = Taken(b) /\ Num(pc', rbuf', OnTheWay, b) = Num(pc, rbuf, OnTheWay, b)
      /\ Held(b)' = Held(b) /\ Due(b)' = Due(b)
  BY <1>1, Zenon DEF Taken, Held, Due, InPoll, PollDue, relVars, ppVars
<1>7. Away(b)' = Away(b)
  BY <1>3, <1>4, <1>5, <1>6, Numbers, SMT DEF Away
<1> QED
  BY <1>1, <1>6, <1>7, Zenon DEF Fate

-----------------------------------------------------------------------------
(* The invariant holds, and what follows from it.                              *)

\* No step but a registration starts the life of a buffer in a session.
LEMMA FateStep ==
  ASSUME TypeOK, ControlInv, CommandInv, QuietInv, FateInv, [Next]_vars
  PROVE  FateInv'
<1> SUFFICES ASSUME Up', NEW b \in Buf PROVE Fate(b)'
  BY Zenon DEF FateInv
<1>1. CASE RegBuf
  BY <1>1, FateRegBuf
<1>2. ASSUME ctl' = ctl, state' = state PROVE Up /\ Fate(b)
  <2>1. Up
    BY <1>2, Zenon DEF Up
  <2> QED
    BY <2>1, Zenon DEF FateInv
<1>3. CASE (Control \/ Link) /\ ~RegBuf
  <2>1. CASE GetBuf \/ RegBufRefused \/ UnregBuf \/ PutBuf
    <3>1. ~Up'
      BY <2>1, SMT DEF GetBuf, RegBufRefused, UnregBuf, PutBuf, ControlInv, Up, OnCtl
    <3> QED
      BY <3>1
  <2>2. CASE ~(GetBuf \/ RegBufRefused \/ UnregBuf \/ PutBuf)
    <3>1. Start \/ StreamOn \/ WaitPoll \/ StopPoll \/ StreamOff \/ QuitCmd \/ JoinCmd \/ Link
      BY <1>3, <2>2, Zenon DEF Control
    <3>2. Up
      BY <3>1, SMT DEF Start, StreamOn, WaitPoll, StopPoll, StreamOff, QuitCmd, JoinCmd, Link, Up,
         OnCtl
    <3>3. Fate(b)
      BY <3>2, Zenon DEF FateInv
    <3> QED
      BY <1>3, <3>3, FateControl
  <2> QED
    BY <2>1, <2>2
<1>4. CASE Poll
  <2>1. ctl' = ctl /\ state' = state
    BY <1>4, Zenon DEF Poll, ProcPipe, PollWake, CallNotify, CheckActive, DqBuf, UncountBuf,
       AddRefs, NotifyBundle, NotifyLinked, NotifyCmd
  <2> QED
    BY <1>2, <1>4, <2>1, FatePoll
<1>5. CASE CmdPop \/ AppCallback \/ CmdEnd
  <2>1. ctl' = ctl /\ state' = state
    BY <1>5, Zenon DEF CmdPop, AppCallback, CmdEnd
  <2> QED
    BY <1>2, <1>5, <2>1, FateCmd
<1>6. ASSUME NEW c \in Client, QbufFsm(c) \/ \E e \in Buf : Qbuf(c, e) PROVE Fate(b)'
  <2>1. ctl' = ctl /\ state' = state
    BY <1>6, Zenon DEF QbufFsm, Qbuf
  <2> QED
    BY <1>2, <1>6, <2>1, FateClient
<1>7. ASSUME NEW r \in Releaser, BufDone(r) PROVE Fate(b)'
  <2>1. ctl' = ctl /\ state' = state
    BY <1>7, Zenon DEF BufDone, CheckRef, DecRef, CountBuf, QbufIoctl, UncountFailed, MarkInKernel
  <2> QED
    BY <1>2, <1>7, <2>1, FateBufDone
<1>8. CASE FillBuf \/ CancelBuf
  <2>1. ctl' = ctl /\ state' = state
    BY <1>8, Zenon DEF FillBuf, CancelBuf
  <2> QED
    BY <1>2, <1>8, <2>1, FateDriver
<1>9. CASE UNCHANGED vars
  <2>1. ctl' = ctl /\ state' = state /\ UNCHANGED fateVars
    BY <1>9, Zenon DEF vars, fateVars, statusVars, cmdVars, drvVars, boundVars
  <2> QED
    BY <1>2, <2>1, SameFate
<1> QED
  BY <1>1, <1>3, <1>4, <1>5, <1>6, <1>7, <1>8, <1>9, Zenon DEF Next, Done

\* A reference is lost by a failure alone, and a registration starts anew.
LEMMA LostInvStep == TypeOK /\ LostInv /\ [Next]_vars => LostInv'
<1> SUFFICES ASSUME TypeOK, LostInv, [Next]_vars PROVE LostInv'
  OBVIOUS
<1>1. fails \in Nat /\ fails' \in Nat /\ lost \in [Buf -> Nat]
  BY ControlStep, Zenon DEF TypeOK, ControlOK, StatusOK
<1>2. ASSUME lost' = lost, fails' \in {fails, fails + 1} PROVE LostInv'
  BY <1>1, <1>2, SMT DEF LostInv
<1>3. ASSUME NEW b \in Buf, Lose(b) PROVE LostInv'
  BY <1>1, <1>3, SMT DEF LostInv, Lose, Fails
<1>4. CASE RegBuf
  <2>1. lost' = [b \in Buf |-> 0]
    BY <1>4, Zenon DEF RegBuf
  <2> QED
    BY <1>1, <2>1, SMT DEF LostInv
<1>5. CASE (Control \/ Link) /\ ~RegBuf
  <2>1. lost' = lost /\ fails' \in {fails, fails + 1}
    BY <1>5, Zenon DEF Control, GetBuf, RegBufRefused, Start, StreamOn, WaitPoll, StopPoll,
       StreamOff, QuitCmd, JoinCmd, UnregBuf, PutBuf, Link, Fails, boundVars
  <2> QED
    BY <1>2, <2>1
<1>6. CASE NotifyBundle \/ NotifyLinked \/ NotifyCmd
  <2>1. pbuf \in Buf
    BY <1>6, SMT DEF NotifyBundle, NotifyLinked, NotifyCmd, TypeOK, ThreadsOK
  <2>2. Lose(pbuf) \/ (lost' = lost /\ fails' = fails)
    <3>1. CASE NotifyBundle
      BY <3>1, Zenon DEF NotifyBundle
    <3>2. CASE NotifyLinked
      BY <3>2, Zenon DEF NotifyLinked
    <3>3. CASE NotifyCmd
      BY <3>3, Zenon DEF NotifyCmd
    <3> QED
      BY <1>6, <3>1, <3>2, <3>3
  <2> QED
    BY <1>2, <1>3, <2>1, <2>2
<1>7. CASE ProcPipe \/ PollWake \/ CallNotify \/ CheckActive \/ DqBuf \/ UncountBuf \/ AddRefs
  <2>1. lost' = lost /\ fails' \in {fails, fails + 1}
    BY <1>7, Zenon DEF ProcPipe, PollWake, CallNotify, CheckActive, DqBuf, UncountBuf, AddRefs,
       Fails, boundVars
  <2> QED
    BY <1>2, <2>1
<1>8. CASE CmdPop \/ AppCallback \/ CmdEnd \/ FillBuf \/ CancelBuf \/ UNCHANGED vars
  <2>1. lost' = lost /\ fails' = fails
    BY <1>8, Zenon DEF CmdPop, AppCallback, CmdEnd, FillBuf, CancelBuf, boundVars, vars
  <2> QED
    BY <1>2, <2>1
<1>9. ASSUME NEW r \in Releaser, QbufFsm(r) \/ (\E b \in Buf : Qbuf(r, b)) \/ BufDone(r)
      PROVE  LostInv'
  <2>1. lost' = lost /\ fails' \in {fails, fails + 1}
    BY <1>9, Zenon DEF QbufFsm, Qbuf, BufDone, CheckRef, DecRef, CountBuf, QbufIoctl,
       UncountFailed, MarkInKernel, Fails, boundVars
  <2> QED
    BY <1>2, <2>1
<1> QED
  BY <1>4, <1>5, <1>6, <1>7, <1>8, <1>9, Zenon DEF Next, Control, Poll, Done, Releaser

\* A configured stream has given nothing to anybody.
LEMMA OwnInit == Init => OwnInv
<1> SUFFICES ASSUME Init PROVE OwnInv
  OBVIOUS
<1>0. Cmd \in Releaser
  BY DEF Releaser
<1>1. ctl = "cfg" /\ ~Up
  BY SMT DEF Init, Up, OnCtl
<1>2. pc[Cmd] = "off"
  BY <1>0, SMT DEF Init
<1>3. ControlInv
  BY <1>1, SMT DEF Init, ControlInv, OnCtl
<1>4. CommandInv
  BY <1>1, <1>2, SMT DEF Init, CommandInv, OnCtl
<1>5. DriverInv
  BY Zenon DEF Init, DriverInv
<1>6. QuietInv
  BY <1>1, SMT DEF QuietInv
<1>7. FateInv
  BY <1>1, Zenon DEF FateInv
<1>8. LostInv
  BY SMT DEF Init, LostInv
<1> QED
  BY <1>3, <1>4, <1>5, <1>6, <1>7, <1>8, Zenon DEF OwnInv

\* Where no callback of a session outlives its restart, every part of the
\* invariant holds: what the threads have done by each point of a session, the
\* fate of every buffer, and that each reference whose node could not be
\* allocated had a failure of its own. Any number of nodes may fail.
THEOREM OwnershipInductive == ASSUME QuietRestart PROVE Spec => []OwnInv
<1>1. Init => OwnInv
  BY OwnInit
<1>2. TypeOK /\ OwnInv /\ [Next]_vars => OwnInv'
  <2> SUFFICES ASSUME TypeOK, OwnInv, [Next]_vars PROVE OwnInv'
    OBVIOUS
  <2>0. ControlInv /\ CommandInv /\ DriverInv /\ QuietInv /\ FateInv /\ LostInv
    BY Zenon DEF OwnInv
  <2>1. ControlInv' /\ CommandInv'
    BY <2>0, ControlInvStep, CommandInvStep
  <2>2. DriverInv'
    BY <2>0, DriverInvStep
  <2>3. QuietInv'
    BY <2>0, QuietInvStep
  <2>4. FateInv'
    BY <2>0, FateStep
  <2>5. LostInv'
    BY <2>0, LostInvStep
  <2> QED
    BY <2>1, <2>2, <2>3, <2>4, <2>5, Zenon DEF OwnInv
<1> QED
  BY <1>1, <1>2, TypeCorrect, PTL DEF Spec

\* What the fate of a buffer says of one the driver has.
LEMMA DriverAlone ==
  ASSUME TypeOK, NEW b \in Buf, Fate(b), InDriver(b)
  PROVE  /\ refcnt[b] = 0 /\ given[b] = 0 /\ Held(b) = 0 /\ Taken(b) = 0
         /\ Times(cmdQ, b) = 0 /\ InPoll(b) = 0 /\ lost[b] = 0
         /\ Num(pc, rbuf, InUse, b) = 0 /\ Num(pc, rbuf, OnTheWay, b) = 0
<1>1. Queued(b) + Times(doneQ, b) >= 1
  <2>1. doneQ \in Seq(Buf)
    BY Zenon DEF TypeOK, QueuesOK
  <2>2. Times(doneQ, b) \in Nat /\ (Times(doneQ, b) = 0 => b \notin SeqRange(doneQ))
    BY <2>1, TimesFacts
  <2>3. CASE b \in kq
    BY <2>2, <2>3 DEF Queued
  <2>4. CASE b \notin kq
    BY <2>2, <2>4 DEF Queued, InDriver
  <2> QED
    BY <2>3, <2>4
<1>2. Away(b) = 1 /\ Taken(b) = 0 /\ Num(pc, rbuf, OnTheWay, b) = 0
  BY <1>1, Numbers, SMT DEF Fate, Away
<1>3. refcnt[b] = 0 /\ Held(b) <= 0
  BY <1>2, SMT DEF Fate
<1>4. given[b] = 0 /\ Held(b) = 0 /\ Times(cmdQ, b) = 0 /\ InPoll(b) = 0
      /\ Num(pc, rbuf, InUse, b) = 0 /\ lost[b] = 0
  <2>1. given[b] \in Nat /\ Num(pc, rbuf, InUse, b) \in Nat /\ Times(cmdQ, b) \in Nat
        /\ InPoll(b) \in Nat /\ lost[b] \in Nat
    BY Numbers, SMT
  <2>2. Held(b) = given[b] + Num(pc, rbuf, InUse, b) + Times(cmdQ, b) + InPoll(b) + lost[b]
    BY Zenon DEF Held
  <2>3. \A i, j, k, m, n \in Nat :
          i + j + k + m + n <= 0 => i = 0 /\ j = 0 /\ k = 0 /\ m = 0 /\ n = 0
    BY SMT
  <2>4. given[b] + Num(pc, rbuf, InUse, b) + Times(cmdQ, b) + InPoll(b) + lost[b] <= 0
    BY <1>3, <2>2, SMT
  <2>5. given[b] = 0 /\ Num(pc, rbuf, InUse, b) = 0 /\ Times(cmdQ, b) = 0 /\ InPoll(b) = 0
        /\ lost[b] = 0
    BY <2>1, <2>3, <2>4, Zenon
  <2> QED
    BY <2>2, <2>5, SMT
<1> QED
  BY <1>2, <1>3, <1>4

\* A buffer the driver may write is in nobody else's hands, with any number of
\* buffers and clients, through every start, stop, refusal and restart.
THEOREM DriverAloneCorrect == ASSUME QuietRestart PROVE Spec => []DriverOwnsAlone
<1>1. TypeOK /\ OwnInv => DriverOwnsAlone
  <2> SUFFICES ASSUME TypeOK, OwnInv, NEW b \in Buf, InDriver(b)
               PROVE  /\ refcnt[b] = 0 /\ given[b] = 0 /\ b \notin SeqRange(cmdQ)
                      /\ ~PollHolds(b) /\ At(InUse \cup OnTheWay, b) = {}
    BY Zenon DEF DriverOwnsAlone
  <2>1. CASE Up
    <3>0. Fate(b)
      BY <2>1, Zenon DEF OwnInv, FateInv
    <3>1. /\ refcnt[b] = 0 /\ given[b] = 0 /\ Taken(b) = 0 /\ Times(cmdQ, b) = 0 /\ InPoll(b) = 0
          /\ Num(pc, rbuf, InUse, b) = 0 /\ Num(pc, rbuf, OnTheWay, b) = 0
      BY <3>0, DriverAlone
    <3>2. b \notin SeqRange(cmdQ)
      BY <3>1, TimesFacts DEF TypeOK, QueuesOK
    <3>3. ~PollHolds(b)
      <4>1. HasCb => Flag(HasCb) = 1 /\ Flag(Bundled) \in {0, 1}
        BY Zenon DEF Flag
      <4>2. Bundled => Flag(Bundled) = 1 /\ Flag(HasCb) \in {0, 1}
        BY Zenon DEF Flag
      <4> QED
        BY <3>1, <4>1, <4>2, SMT DEF PollHolds, Taken, InPoll
    <3>4. At(InUse \cup OnTheWay, b) = {}
      <4>1. \A r \in Releaser : ~(pc[r] \in InUse /\ rbuf[r] = b) /\ ~(pc[r] \in OnTheWay /\ rbuf[r] = b)
        BY <3>1, NumType
      <4> QED
        BY <4>1, Zenon DEF At
    <3> QED
      BY <3>1, <3>2, <3>3, <3>4
  <2>2. CASE ~Up
    <3>1. reqd
      <4>1. CASE ~reqd
        <5>1. kq = {} /\ doneQ = <<>>
          BY <4>1, Zenon DEF OwnInv, DriverInv
        <5> QED
          BY <5>1 DEF InDriver, SeqRange
      <4> QED
        BY <4>1
    <3>2. /\ doneQ = <<>> /\ pp = "poll"
          /\ \A r \in Releaser : pc[r] \in {"off", "idle", "fsm"}
          /\ \A e \in kq : refcnt[e] = 0 /\ given[e] = 0
          /\ \A r \in Releaser : pc[r] = "fsm" => rbuf[r] \notin kq
      BY <2>2, <3>1, Zenon DEF OwnInv, DriverInv
    <3>3. b \in kq
      BY <3>2 DEF InDriver, SeqRange
    <3>4. cmdQ = <<>>
      <4>1. ctl \in {"cfg", "getbuf", "unreg", "put"}
        BY <2>2, SMT DEF TypeOK, ControlOK, CtlPc, Up, OnCtl
      <4> QED
        BY <4>1, SMT DEF OwnInv, CommandInv, OnCtl
    <3>5. At(InUse \cup OnTheWay, b) = {}
      <4>1. \A r \in Releaser : ~(pc[r] \in InUse \cup OnTheWay /\ rbuf[r] = b)
        BY <3>2, <3>3, SMT DEF InUse, OnTheWay
      <4> QED
        BY <4>1, Zenon DEF At
    <3>6. ~PollHolds(b)
      BY <3>2, SMT DEF PollHolds
    <3>7. b \notin SeqRange(cmdQ)
      BY <3>4 DEF SeqRange
    <3> QED
      BY <3>2, <3>3, <3>5, <3>6, <3>7
  <2> QED
    BY <2>1, <2>2
<1> QED
  BY <1>1, OwnershipInductive, TypeCorrect, PTL

\* buf_refcnt of a running stream is the number of references that somebody will
\* give back, plus one for every node that mm_stream_notify_channel or
\* mm_stream_handle_rcvd_buf could not allocate, whatever the poll thread, the
\* command thread and the clients do in between and however many of them fail.
THEOREM RefsCorrect == ASSUME QuietRestart PROVE Spec => []RefsAccounted
<1>1. OwnInv => RefsAccounted
  <2> SUFFICES ASSUME OwnInv, ctl = "active", NEW b \in Buf
               PROVE  refcnt[b] = Refs(b) + lost[b] /\ lost[b] <= fails
    BY Zenon DEF RefsAccounted
  <2>1. Up /\ ctl # "unreg"
    BY SMT DEF Up, OnCtl
  <2>2. Fate(b)
    BY <2>1, Zenon DEF OwnInv, FateInv
  <2>3. lost[b] <= fails
    BY Zenon DEF OwnInv, LostInv
  <2> QED
    BY <2>1, <2>2, <2>3, RefsHeld, Zenon DEF Fate
<1> QED
  BY <1>1, OwnershipInductive, PTL

-----------------------------------------------------------------------------
(* queued_buffer_count.                                                        *)

\* Releasers between counting a buffer and the end of its ioctl.
Counting == {"ioctl", "undo"}
Busy(where) == Cardinality({r \in Releaser : where[r] \in Counting})
Driven == {b \in Buf : InDriver(b)}

\* CountMatchesDriver, from the registration on.
CountInv ==
  ctl \in {"launch", "on", "active"} =>
    queued = Cardinality(Driven) + Busy(pc) + Flag(pp = "uncount")

\* One releaser moves, whatever it has in hand.
MovesTo(r, w) == pc' = [pc EXCEPT ![r] = w]

\* A releaser that moves changes the number of those at the count by its own share.
LEMMA BusyMoves ==
  ASSUME TypeOK, NEW r \in Releaser, NEW w, MovesTo(r, w)
  PROVE  /\ Busy(pc) \in Nat
         /\ Busy(pc') = Busy(pc) - Flag(pc[r] \in Counting) + Flag(w \in Counting)
<1> DEFINE S == {o \in Releaser : pc[o] \in Counting}
           T == {o \in Releaser : pc'[o] \in Counting}
<1>0. pc \in [Releaser -> RelPc]
  BY Zenon DEF TypeOK, ThreadsOK
<1>1. S \ {r} = T \ {r} /\ (r \in S <=> pc[r] \in Counting) /\ (r \in T <=> w \in Counting)
  BY <1>0 DEF MovesTo
<1>2. IsFiniteSet(S)
  BY ReleaserFinite, FS_Subset
<1>3. Busy(pc) = Cardinality(S) /\ Busy(pc') = Cardinality(T)
  BY Zenon DEF Busy
<1> HIDE DEF S, T
<1>4. Cardinality(T) = Cardinality(S) - Flag(r \in S) + Flag(r \in T)
  BY <1>1, <1>2, SetMoves
<1>5. Flag(r \in S) = Flag(pc[r] \in Counting) /\ Flag(r \in T) = Flag(w \in Counting)
  BY <1>1, Zenon DEF Flag
<1> QED
  BY <1>2, <1>3, <1>4, <1>5, FS_CardinalityType

\* The driver has a finite number of buffers.
LEMMA DrivenFinite == IsFiniteSet(Driven) /\ Cardinality(Driven) \in Nat
<1>1. IsFiniteSet(Buf)
  BY StreamAssumption, FS_Interval DEF StreamAssumption, Buf
<1>2. IsFiniteSet(Driven)
  BY <1>1, FS_Subset DEF Driven
<1> QED
  BY <1>2, FS_CardinalityType

\* A buffer is the driver's when it is queued or filled.
LEMMA InDriverCount ==
  ASSUME TypeOK, NEW b \in Buf PROVE InDriver(b) <=> Queued(b) + Times(doneQ, b) >= 1
<1>1. doneQ \in Seq(Buf)
  BY Zenon DEF TypeOK, QueuesOK
<1>2. Times(doneQ, b) \in Nat /\ (Times(doneQ, b) = 0 <=> b \notin SeqRange(doneQ))
  BY <1>1, TimesFacts
<1> QED
  BY <1>2 DEF Queued, InDriver

\* One buffer goes to the driver, or comes from it.
LEMMA DrivenMoves ==
  ASSUME NEW b \in Buf, \A e \in Buf \ {b} : InDriver(e)' <=> InDriver(e)
  PROVE  Cardinality(Driven)' = Cardinality(Driven) - Flag(InDriver(b)) + Flag(InDriver(b)')
<1>1. Driven \ {b} = Driven' \ {b} /\ (b \in Driven <=> InDriver(b)) /\ (b \in Driven' <=> InDriver(b)')
  BY DEF Driven
<1>2. Cardinality(Driven') = Cardinality(Driven) - Flag(b \in Driven) + Flag(b \in Driven')
  BY <1>1, DrivenFinite, SetMoves
<1>3. Flag(b \in Driven) = Flag(InDriver(b)) /\ Flag(b \in Driven') = Flag(InDriver(b)')
  BY <1>1, Zenon DEF Flag
<1> QED
  BY <1>2, <1>3

\* What happens to buffers and counts when a buffer is dequeued, counted, queued
\* or refused.
LEMMA CountInvStep ==
  ASSUME TypeOK, OwnInv, CountInv, [Next]_vars PROVE CountInv'
<1> DEFINE counts == ctl \in {"launch", "on", "active"}
<1>0. Cmd \in Releaser /\ Client \subseteq Releaser
  BY DEF Releaser
<1>1. counts => Up /\ reqd /\ (\A b \in Buf : Fate(b))
  <2>1. counts => Up
    BY SMT DEF Up, OnCtl
  <2> QED
    BY <2>1, Zenon DEF OwnInv, ControlInv, FateInv
<1>2. queued \in Int /\ Cardinality(Driven) \in Nat
  BY DrivenFinite DEF TypeOK, ControlOK
<1>3. ASSUME UNCHANGED <<kq, doneQ>>
      PROVE Cardinality(Driven)' = Cardinality(Driven) /\ \A b : InDriver(b)' = InDriver(b)
  <2>1. Driven' = Driven /\ \A b : InDriver(b)' = InDriver(b)
    BY <1>3, Zenon DEF Driven, InDriver
  <2> QED
    BY <2>1
<1>4. ASSUME counts' => counts, UNCHANGED <<queued, kq, doneQ>>, Busy(pc') = Busy(pc),
             (pp' = "uncount") <=> (pp = "uncount")
      PROVE  CountInv'
  <2>1. Flag(pp = "uncount")' = Flag(pp = "uncount")
    BY <1>4, Zenon DEF Flag
  <2> QED
    BY <1>3, <1>4, <2>1, Zenon DEF CountInv
<1>5. CASE RegBuf
  <2>1. PICK last \in 0 .. NumBufs : RegBuf!2!(last)
    BY <1>5, Zenon DEF RegBuf
  <2>2. /\ ctl = "getbuf" /\ UNCHANGED <<pp, pc>> /\ doneQ' = <<>>
        /\ kq' = (1 .. last) \cap InitReg /\ queued' = Cardinality((1 .. last) \cap InitReg)
        /\ (ctl' = "launch" /\ last = NumBufs) \/ ctl' = "unreg"
    BY <1>5, <2>1, Zenon DEF RegBuf, RegisteredCount, ppVars, relVars
  <2>3. CASE ctl' = "unreg"
    BY <2>3, SMT DEF CountInv
  <2>4. CASE last = NumBufs
    <3>1. Driven' = kq'
      BY <2>2, <2>4 DEF Driven, InDriver, SeqRange, Buf
    <3>2. pp = "poll" /\ \A r \in Releaser : pc[r] \notin Counting
      <4>1. Quiet /\ pc[Cmd] = "off"
        BY <2>2, SMT DEF OwnInv, QuietInv, CommandInv, OnCtl
      <4> QED
        BY <4>1, SMT DEF Quiet, Releaser, Counting
    <3>3. Busy(pc') = 0 /\ Flag(pp = "uncount")' = 0
      <4>1. {r \in Releaser : pc'[r] \in Counting} = {}
        BY <2>2, <3>2
      <4>2. Busy(pc') = 0
        BY <4>1, FS_EmptySet, Zenon DEF Busy
      <4>3. pp' # "uncount"
        BY <2>2, <3>2, SMT
      <4> QED
        BY <4>2, <4>3, Zenon DEF Flag
    <3>4. Cardinality(Driven)' = queued'
      BY <2>2, <3>1, Zenon
    <3>5. queued' \in Nat
      <4>1. IsFiniteSet(1 .. last) /\ (1 .. last) \cap InitReg \subseteq 1 .. last
        BY <2>1, FS_Interval, StreamAssumption DEF StreamAssumption
      <4> QED
        BY <2>2, <4>1, FS_Subset, FS_CardinalityType
    <3> QED
      BY <3>3, <3>4, <3>5, SMT DEF CountInv
  <2> QED
    BY <2>2, <2>3, <2>4
<1>6. CASE Start
  <2>1. /\ counts /\ UNCHANGED <<queued, kq, doneQ, pp>>
        /\ pc' = pc \/ MovesTo(Cmd, "idle")
    BY <1>6, SMT DEF Start, statusVars, drvVars, ppVars, MovesTo
  <2>2. pc[Cmd] = "off"
    BY <1>6, SMT DEF Start, OwnInv, CommandInv, OnCtl
  <2>3. Busy(pc') = Busy(pc)
    <3>1. CASE MovesTo(Cmd, "idle")
      <4>1. Flag(pc[Cmd] \in Counting) = 0 /\ Flag("idle" \in Counting) = 0
        BY <2>2, SMT DEF Flag, Counting
      <4> QED
        BY <1>0, <3>1, <4>1, BusyMoves
    <3> QED
      BY <2>1, <3>1
  <2> QED
    BY <1>4, <2>1, <2>3
<1>7. CASE \/ GetBuf \/ RegBufRefused \/ StreamOn \/ WaitPoll \/ StopPoll \/ StreamOff
           \/ QuitCmd \/ JoinCmd \/ UnregBuf \/ PutBuf
  <2>1. CASE counts'
    <3>1. StreamOn
      BY <1>7, <2>1, SMT DEF GetBuf, RegBufRefused, StreamOn, WaitPoll, StopPoll, StreamOff,
         QuitCmd, JoinCmd, UnregBuf, PutBuf
    <3>2. counts /\ UNCHANGED <<queued, kq, doneQ, pp, pc>>
      BY <3>1, SMT DEF StreamOn, statusVars, ppVars, relVars
    <3> QED
      BY <1>4, <3>2
  <2>2. CASE ~counts'
    BY <2>2, Zenon DEF CountInv
  <2> QED
    BY <2>1, <2>2
<1>8. CASE \/ Link \/ ProcPipe \/ PollWake \/ CallNotify \/ CheckActive \/ AddRefs \/ NotifyBundle
           \/ NotifyLinked \/ NotifyCmd \/ UNCHANGED vars
  <2>1. UNCHANGED <<ctl, queued, kq, doneQ, pc>>
    BY <1>8, Zenon DEF Link, ProcPipe, PollWake, CallNotify, CheckActive, AddRefs, NotifyBundle,
       NotifyLinked, NotifyCmd, statusVars, drvVars, relVars, vars
  <2>2. (pp' = "uncount") <=> (pp = "uncount")
    <3>1. CASE Link \/ ProcPipe \/ UNCHANGED vars
      BY <3>1, Zenon DEF Link, ProcPipe, ppVars, vars
    <3>2. CASE \/ PollWake \/ CallNotify \/ CheckActive \/ AddRefs \/ NotifyBundle
               \/ NotifyLinked \/ NotifyCmd
      BY <3>2, SMT DEF PollWake, CallNotify, CheckActive, AddRefs, NotifyBundle, NotifyLinked,
         NotifyCmd
    <3> QED
      BY <1>8, <3>1, <3>2
  <2> QED
    BY <1>4, <2>1, <2>2
<1>9. CASE DqBuf
  <2>1. UNCHANGED <<ctl, queued, kq, pc>> /\ pp = "dq"
    BY <1>9, Zenon DEF DqBuf, statusVars, relVars
  <2>2. CASE doneQ = <<>>
    <3>1. doneQ' = doneQ /\ pp' = "poll"
      BY <1>9, <2>2, Zenon DEF DqBuf
    <3>2. pp' # "uncount" /\ pp # "uncount"
      BY <2>1, <3>1, SMT
    <3> QED
      BY <1>4, <2>1, <3>1, <3>2
  <2>3. CASE doneQ # <<>> /\ counts
    <3>1. /\ doneQ' = Tail(doneQ) /\ pp' = "uncount"
          /\ doneQ \in Seq(Buf) /\ Tail(doneQ) \in Seq(Buf)
      BY <1>9, <2>3 DEF DqBuf, TypeOK, QueuesOK
    <3>0. doneQ' \in Seq(Buf)
      BY <3>1, Zenon
    <3>2. PICK b \in Buf : b = Head(doneQ)
      BY <2>3, <3>1
    <3>3. \A e \in Buf : Times(doneQ', e) = Times(doneQ, e) - Flag(Head(doneQ) = e)
      BY <2>3, <3>1, TimesFacts
    <3>4. \A e \in Buf \ {b} : InDriver(e)' <=> InDriver(e)
      <4> TAKE e \in Buf \ {b}
      <4>1. Flag(Head(doneQ) = e) = 0
        BY <3>2, Zenon DEF Flag
      <4>2. Times(doneQ', e) = Times(doneQ, e)
        BY <3>1, <3>3, <4>1, TimesFacts
      <4>3. e \in SeqRange(doneQ') <=> e \in SeqRange(doneQ)
        <5>1. Times(doneQ', e) = 0 <=> e \notin SeqRange(doneQ')
          BY <3>0, TimesFacts
        <5>2. Times(doneQ, e) = 0 <=> e \notin SeqRange(doneQ)
          BY <3>1, TimesFacts
        <5> QED
          BY <4>2, <5>1, <5>2, Zenon
      <4> QED
        BY <2>1, <4>3, Zenon DEF InDriver
    <3>5. InDriver(b) /\ ~InDriver(b)'
      <4>1. Flag(Head(doneQ) = b) = 1
        BY <3>2, Zenon DEF Flag
      <4>2. Times(doneQ', b) = Times(doneQ, b) - 1 /\ Times(doneQ, b) \in Nat
            /\ Times(doneQ', b) \in Nat
        BY <3>1, <3>3, <4>1, TimesFacts
      <4>3. Away(b) <= 1
        BY <1>1, <2>3 DEF Fate
      <4>4. Queued(b) = 0 /\ Times(doneQ, b) = 1
        BY <4>2, <4>3, Numbers, SMT DEF Away
      <4>5. b \notin kq' /\ Times(doneQ', b) = 0
        BY <2>1, <4>2, <4>4, SMT DEF Queued
      <4>6. b \notin SeqRange(doneQ')
        BY <3>0, <4>5, TimesFacts
      <4>7. InDriver(b)
        BY <4>4, InDriverCount
      <4> QED
        BY <4>5, <4>6, <4>7, Zenon DEF InDriver
    <3>6. Cardinality(Driven)' = Cardinality(Driven) - 1
      <4>1. Flag(InDriver(b)) = 1 /\ Flag(InDriver(b)') = 0
        BY <3>5, Zenon DEF Flag
      <4> QED
        BY <1>2, <3>4, <4>1, DrivenMoves
    <3>7. Flag(pp = "uncount") = 0 /\ Flag(pp = "uncount")' = 1
      BY <2>1, <3>1, SMT DEF Flag
    <3>8. Busy(pc') = Busy(pc) /\ Busy(pc) \in Nat
      <4>1. MovesTo(Cmd, pc[Cmd])
        BY <2>1 DEF MovesTo, TypeOK, ThreadsOK
      <4> QED
        BY <1>0, <2>1, <4>1, BusyMoves
    <3> QED
      BY <1>2, <2>1, <2>3, <3>6, <3>7, <3>8, SMT DEF CountInv
  <2>4. CASE ~counts
    BY <2>1, <2>4, Zenon DEF CountInv
  <2> QED
    BY <2>2, <2>3, <2>4
<1>10. CASE UncountBuf
  <2>1. /\ UNCHANGED <<ctl, kq, doneQ, pc>> /\ pp = "uncount" /\ pp' \in {"refs", "poll"}
        /\ queued' = queued - 1
    BY <1>10, Zenon DEF UncountBuf, drvVars, relVars
  <2>2. Flag(pp = "uncount") = 1 /\ Flag(pp = "uncount")' = 0
    BY <2>1, SMT DEF Flag
  <2>3. Busy(pc') = Busy(pc) /\ Busy(pc) \in Nat
    <3>1. MovesTo(Cmd, pc[Cmd])
      BY <2>1 DEF MovesTo, TypeOK, ThreadsOK
    <3> QED
      BY <1>0, <2>1, <3>1, BusyMoves
  <2> QED
    BY <1>2, <1>3, <2>1, <2>2, <2>3, SMT DEF CountInv
<1>11. CASE CmdPop \/ AppCallback \/ CmdEnd
  <2>1. /\ UNCHANGED <<ctl, queued, kq, doneQ, pp>> /\ pc[Cmd] \in {"idle", "app"}
        /\ \E w \in {"app", "check", "off"} : MovesTo(Cmd, w)
    BY <1>11, Zenon DEF CmdPop, AppCallback, CmdEnd, statusVars, drvVars, ppVars, MovesTo
  <2>2. PICK w \in {"app", "check", "off"} : MovesTo(Cmd, w)
    BY <2>1
  <2>3. Flag(pc[Cmd] \in Counting) = 0 /\ Flag(w \in Counting) = 0
    BY <2>1, SMT DEF Flag, Counting
  <2>4. Busy(pc') = Busy(pc)
    BY <1>0, <2>2, <2>3, BusyMoves
  <2> QED
    BY <1>4, <2>1, <2>4
<1>12. ASSUME NEW r \in Releaser, NEW from \in {"idle", "fsm", "check", "dec", "count", "mark"},
              NEW w \in {"idle", "fsm", "check", "dec", "count"}, pc[r] = from, MovesTo(r, w),
              UNCHANGED <<ctl, queued, kq, doneQ, pp>>
       PROVE  CountInv'
  <2>1. Flag(pc[r] \in Counting) = 0 /\ Flag(w \in Counting) = 0
    BY <1>12, SMT DEF Flag, Counting
  <2>2. Busy(pc') = Busy(pc)
    BY <1>12, <2>1, BusyMoves
  <2> QED
    BY <1>4, <1>12, <2>2
<1>13. ASSUME NEW c \in Client, QbufFsm(c) \/ \E b \in Buf : Qbuf(c, b) PROVE CountInv'
  <2>1. UNCHANGED <<ctl, queued, kq, doneQ, pp>>
    BY <1>13, Zenon DEF QbufFsm, Qbuf, statusVars, drvVars, ppVars
  <2>2. CASE QbufFsm(c)
    <3>1. pc[c] = "fsm" /\ (MovesTo(c, "check") \/ MovesTo(c, "idle"))
      BY <2>2, Zenon DEF QbufFsm, Goto, MovesTo
    <3> QED
      BY <1>0, <1>12, <2>1, <3>1
  <2>3. CASE \E b \in Buf : Qbuf(c, b)
    <3>1. pc[c] = "idle" /\ MovesTo(c, "fsm")
      BY <2>3, Zenon DEF Qbuf, MovesTo
    <3> QED
      BY <1>0, <1>12, <2>1, <3>1
  <2> QED
    BY <1>13, <2>2, <2>3
<1>14. ASSUME NEW r \in Releaser, CheckRef(r) \/ DecRef(r) \/ MarkInKernel(r) PROVE CountInv'
  <2>1. UNCHANGED <<ctl, queued, kq, doneQ, pp>>
    BY <1>14, Zenon DEF CheckRef, DecRef, MarkInKernel, statusVars, drvVars, ppVars
  <2>2. /\ pc[r] \in {"check", "dec", "mark"}
        /\ MovesTo(r, "idle") \/ MovesTo(r, "dec") \/ MovesTo(r, "count")
    BY <1>14, Zenon DEF CheckRef, DecRef, MarkInKernel, Goto, MovesTo
  <2> QED
    BY <1>12, <2>1, <2>2
<1>15. ASSUME NEW r \in Releaser, CountBuf(r) PROVE CountInv'
  <2>1. /\ UNCHANGED <<ctl, kq, doneQ, pp>> /\ pc[r] = "count"
        /\ \/ MovesTo(r, "ioctl") /\ queued' = queued + 1
           \/ MovesTo(r, "idle") /\ queued' = queued
    BY <1>15, Zenon DEF CountBuf, drvVars, ppVars, Goto, MovesTo
  <2>2. CASE MovesTo(r, "ioctl") /\ queued' = queued + 1
    <3>1. Flag(pc[r] \in Counting) = 0 /\ Flag("ioctl" \in Counting) = 1
      BY <2>1, SMT DEF Flag, Counting
    <3>2. Busy(pc') = Busy(pc) + 1 /\ Busy(pc) \in Nat
      BY <2>2, <3>1, BusyMoves
    <3>3. Flag(pp = "uncount")' = Flag(pp = "uncount") /\ Flag(pp = "uncount") \in {0, 1}
      BY <2>1, Zenon DEF Flag
    <3> QED
      BY <1>2, <1>3, <2>1, <2>2, <3>2, <3>3, SMT DEF CountInv
  <2>3. CASE MovesTo(r, "idle") /\ queued' = queued
    BY <1>12, <2>1, <2>3
  <2> QED
    BY <2>1, <2>2, <2>3
<1>16. ASSUME NEW r \in Releaser, UncountFailed(r) PROVE CountInv'
  <2>1. UNCHANGED <<ctl, kq, doneQ, pp>> /\ pc[r] = "undo" /\ MovesTo(r, "idle")
        /\ queued' = queued - 1
    BY <1>16, Zenon DEF UncountFailed, drvVars, ppVars, Goto, MovesTo
  <2>2. Flag(pc[r] \in Counting) = 1 /\ Flag("idle" \in Counting) = 0
    BY <2>1, SMT DEF Flag, Counting
  <2>3. Busy(pc') = Busy(pc) - 1 /\ Busy(pc) \in Nat
    BY <2>1, <2>2, BusyMoves
  <2>4. Flag(pp = "uncount")' = Flag(pp = "uncount") /\ Flag(pp = "uncount") \in {0, 1}
    BY <2>1, Zenon DEF Flag
  <2> QED
    BY <1>2, <1>3, <2>1, <2>3, <2>4, SMT DEF CountInv
<1>17. ASSUME NEW r \in Releaser, QbufIoctl(r) PROVE CountInv'
  <2>1. /\ UNCHANGED <<ctl, queued, doneQ, pp>> /\ pc[r] = "ioctl"
        /\ \/ kq' = kq \cup {rbuf[r]} /\ MovesTo(r, "mark")
           \/ kq' = kq /\ MovesTo(r, "undo")
    BY <1>17, Zenon DEF QbufIoctl, statusVars, ppVars, Goto, MovesTo
  <2>2. CASE kq' = kq /\ MovesTo(r, "undo")
    <3>1. Flag(pc[r] \in Counting) = 1 /\ Flag("undo" \in Counting) = 1
      BY <2>1, SMT DEF Flag, Counting
    <3>2. Busy(pc') = Busy(pc)
      BY <2>2, <3>1, BusyMoves
    <3> QED
      BY <1>4, <2>1, <2>2, <3>2
  <2>3. CASE kq' = kq \cup {rbuf[r]} /\ MovesTo(r, "mark") /\ counts
    <3>1. Flag(pc[r] \in Counting) = 1 /\ Flag("mark" \in Counting) = 0
      BY <2>1, SMT DEF Flag, Counting
    <3>2. Busy(pc') = Busy(pc) - 1 /\ Busy(pc) \in Nat
      BY <2>3, <3>1, BusyMoves
    <3>3. PICK b \in Buf : b = rbuf[r]
      BY <2>1, SMT DEF TypeOK, ThreadsOK
    <3>4. ~InDriver(b)
      <4>1. Num(pc, rbuf, OnTheWay, b) >= 1
        BY <2>1, <3>3, NumOne DEF OnTheWay
      <4>2. Away(b) <= 1
        BY <1>1, <2>3 DEF Fate
      <4>3. Queued(b) + Times(doneQ, b) = 0
        BY <4>1, <4>2, Numbers, SMT DEF Away
      <4> QED
        BY <4>3, InDriverCount
    <3>5. InDriver(b)' /\ \A e \in Buf \ {b} : InDriver(e)' <=> InDriver(e)
      BY <2>1, <2>3, <3>3 DEF InDriver
    <3>6. Flag(InDriver(b)) = 0 /\ Flag(InDriver(b)') = 1
      BY <3>4, <3>5, Zenon DEF Flag
    <3>7. Cardinality(Driven)' = Cardinality(Driven) + 1
      <4>1. \A e \in Buf \ {b} : InDriver(e)' <=> InDriver(e)
        BY <3>5
      <4>2. Cardinality(Driven)' = Cardinality(Driven) - Flag(InDriver(b)) + Flag(InDriver(b)')
        BY <4>1, DrivenMoves, Zenon
      <4> QED
        BY <1>2, <3>6, <4>2
    <3>8. Flag(pp = "uncount")' = Flag(pp = "uncount") /\ Flag(pp = "uncount") \in {0, 1}
      BY <2>1, Zenon DEF Flag
    <3> QED
      BY <1>2, <2>1, <2>3, <3>2, <3>7, <3>8, SMT DEF CountInv
  <2>4. CASE ~counts
    BY <2>1, <2>4, Zenon DEF CountInv
  <2> QED
    BY <2>1, <2>2, <2>3, <2>4
<1>18. CASE FillBuf \/ CancelBuf
  <2>1. UNCHANGED <<ctl, queued, pp, pc>>
    BY <1>18, Zenon DEF FillBuf, CancelBuf, statusVars, ppVars, relVars
  <2>2. PICK e \in kq : kq' = kq \ {e} /\ doneQ' = Append(doneQ, e)
    BY <1>18, Zenon DEF FillBuf, CancelBuf
  <2>3. doneQ \in Seq(Buf) /\ e \in Buf
    BY DEF TypeOK, QueuesOK, ControlOK
  <2>4. SeqRange(doneQ') = SeqRange(doneQ) \cup {e}
    BY <2>2, <2>3 DEF SeqRange
  <2>5. Driven' = Driven
    BY <2>2, <2>4, Zenon DEF Driven, InDriver
  <2> QED
    BY <2>1, <2>5, Zenon DEF CountInv
<1> QED
  BY <1>5, <1>6, <1>7, <1>8, <1>9, <1>10, <1>11, <1>13, <1>14, <1>15, <1>16, <1>17, <1>18, Zenon
  DEF Next, Control, Poll, BufDone, Done

\* queued_buffer_count of a running stream is what the driver has, but for the
\* buffers between the count and their ioctl: no interleaving of the poll thread
\* and the threads that give buffers back, and no refused ioctl, makes it drift.
THEOREM CountCorrect == ASSUME QuietRestart PROVE Spec => []CountMatchesDriver
<1>1. Init => CountInv
  BY SMT DEF Init, CountInv
<1>2. TypeOK /\ OwnInv /\ CountInv /\ [Next]_vars => CountInv'
  BY CountInvStep
<1>3. CountInv => CountMatchesDriver
  <2>1. Busy(pc) = Cardinality({r \in Releaser : pc[r] \in {"ioctl", "undo"}})
    BY Zenon DEF Busy, Counting
  <2>2. Driven = {b \in Buf : InDriver(b)}
    BY Zenon DEF Driven
  <2>3. ctl \in {"on", "active"} => ctl \in {"launch", "on", "active"}
    OBVIOUS
  <2> QED
    BY <2>1, <2>2, <2>3, Zenon DEF CountInv, CountMatchesDriver
<1> QED
  BY <1>1, <1>2, <1>3, OwnershipInductive, TypeCorrect, PTL DEF Spec
-----------------------------------------------------------------------------
(* The refinement. While the stream is on, where a buffer is follows from      *)
(* four facts: the driver has it, it was just dequeued, its count, and whether *)
(* a thread is about to queue it.                                              *)

\* The threads that have a buffer on its way to the driver.
Way(b) == Num(pc, rbuf, OnTheWay, b)

Shown(b) ==
  IF InDriver(b) THEN "driver" ELSE IF Taken(b) = 1 THEN "taken"
  ELSE IF refcnt[b] > 0 THEN "shared" ELSE IF Way(b) > 0 THEN "returning" ELSE "stranded"

\* The references to it that somebody will give back.
Live(b) == refcnt[b] - lost[b]

\* The abstract stream's variables.
Ph == [b \in Buf |-> IF ctl = "active" THEN PhaseOf(b) ELSE "closed"]
Us == [b \in Buf |-> IF ctl = "active" THEN Refs(b) ELSE 0]
Lo == [b \in Buf |-> IF ctl = "active" THEN lost[b] ELSE 0]

\* What they are in a state of the invariant.
ViewInv ==
  ctl = "active" =>
    /\ Ph = [b \in Buf |-> Shown(b)] /\ Us = [b \in Buf |-> Live(b)]
    /\ Lo = [b \in Buf |-> lost[b]]
    /\ \A b \in Buf : /\ refcnt[b] \in Nat /\ lost[b] \in Nat /\ Live(b) \in Nat
                      /\ lost[b] <= fails /\ fails \in Nat
                      /\ InDriver(b) \/ Taken(b) = 1 => refcnt[b] = 0

\* The count is the references somebody will give back and the lost ones.
LEMMA LiveHeld ==
  ASSUME TypeOK, NEW b \in Buf, refcnt[b] = Held(b)
  PROVE  /\ Live(b) = Refs(b) /\ Live(b) \in Nat /\ refcnt[b] = Refs(b) + lost[b]
         /\ Live(b) = given[b] + Num(pc, rbuf, InUse, b) + Times(cmdQ, b) + InPoll(b)
<1>1. Refs(b) = given[b] + Num(pc, rbuf, InUse, b) + Times(cmdQ, b) + InPoll(b)
  BY Zenon DEF Refs, At, Num, Times, InPoll
<1>2. refcnt[b] = Refs(b) + lost[b]
  BY RefsHeld
<1>3. Refs(b) \in Nat /\ lost[b] \in Nat
  BY <1>1, Numbers, SMT
<1>4. Live(b) = Refs(b)
  BY <1>2, <1>3, SMT DEF Live
<1> QED
  BY <1>1, <1>2, <1>3, <1>4, Zenon

\* The view holds in every state of the inductive invariant.
LEMMA ViewHolds == TypeOK /\ OwnInv => ViewInv
<1> SUFFICES ASSUME TypeOK, OwnInv, ctl = "active" PROVE ViewInv
  BY Zenon DEF ViewInv
<1>1. \A b \in Buf : Fate(b) /\ Up
  BY SMT DEF OwnInv, FateInv, Up, OnCtl
<1>2. ASSUME NEW b \in Buf
      PROVE  /\ Refs(b) = Live(b) /\ PhaseOf(b) = Shown(b)
             /\ refcnt[b] \in Nat /\ lost[b] \in Nat /\ Live(b) \in Nat
             /\ lost[b] <= fails /\ fails \in Nat
             /\ InDriver(b) \/ Taken(b) = 1 => refcnt[b] = 0
  <2>1. ctl # "unreg"
    BY SMT
  <2>2. refcnt[b] = Refs(b) + lost[b] /\ Live(b) = Refs(b) /\ Live(b) \in Nat
    BY <1>1, <2>1, LiveHeld, Zenon DEF Fate
  <2>3. Taken(b) = 1 <=> (pbuf = b /\ pp \in {"uncount", "refs"})
    BY SMT DEF Taken
  <2>4. At(OnTheWay, b) # {} <=> Way(b) > 0
    <3>1. Way(b) \in Nat /\ (Way(b) = 0 <=> \A r \in Releaser : ~(pc[r] \in OnTheWay /\ rbuf[r] = b))
      BY NumType, Zenon DEF Way
    <3>2. At(OnTheWay, b) = {} <=> \A r \in Releaser : ~(pc[r] \in OnTheWay /\ rbuf[r] = b)
      BY Zenon DEF At
    <3> QED
      BY <3>1, <3>2
  <2>5. PhaseOf(b) = Shown(b)
    BY <2>2, <2>3, <2>4, Zenon DEF PhaseOf, Shown
  <2>6. InDriver(b) => refcnt[b] = 0
    BY <1>1, DriverAlone
  <2>7. Taken(b) = 1 => refcnt[b] = 0
    <3>1. Taken(b) = 1 => Away(b) > 0
      BY Numbers, SMT DEF Away
    <3> QED
      BY <1>1, <3>1, Zenon DEF Fate
  <2>8. lost[b] <= fails /\ fails \in Nat
    BY Zenon DEF OwnInv, LostInv, TypeOK, ControlOK
  <2> QED
    BY <2>2, <2>5, <2>6, <2>7, <2>8, Numbers, Zenon
<1> QED
  BY <1>2, Zenon DEF ViewInv, Ph, Us, Lo

\* What the abstract stream sees of a buffer does not change.
Same(b) == Shown(b)' = Shown(b) /\ refcnt'[b] = refcnt[b] /\ lost'[b] = lost[b]

\* A step that it does not see at all.
Unseen == Ph' = Ph /\ Us' = Us /\ Lo' = Lo /\ fails' = fails

\* A step of a running stream that leaves all but one buffer where they are.
LEMMA OneShown ==
  ASSUME ViewInv, ViewInv', ctl = "active", ctl' = "active", NEW b \in Buf,
         \A e \in Buf \ {b} : Same(e)
  PROVE  /\ Ph' = [Ph EXCEPT ![b] = Shown(b)'] /\ Us' = [Us EXCEPT ![b] = Live(b)']
         /\ Lo' = [Lo EXCEPT ![b] = lost'[b]]
         /\ Ph[b] = Shown(b) /\ Us[b] = Live(b) /\ Lo[b] = lost[b] /\ Us'[b] = Live(b)'
<1>1. /\ Ph = [e \in Buf |-> Shown(e)] /\ Us = [e \in Buf |-> Live(e)]
      /\ Lo = [e \in Buf |-> lost[e]]
      /\ Ph' = [e \in Buf |-> Shown(e)'] /\ Us' = [e \in Buf |-> Live(e)']
      /\ Lo' = [e \in Buf |-> lost'[e]]
  BY Zenon DEF ViewInv
<1>2. \A e \in Buf \ {b} : Shown(e)' = Shown(e) /\ Live(e)' = Live(e) /\ lost'[e] = lost[e]
  BY Zenon DEF Same, Live
<1>3. Ph' = [Ph EXCEPT ![b] = Shown(b)']
  BY <1>1, <1>2
<1>4. Us' = [Us EXCEPT ![b] = Live(b)']
  BY <1>1, <1>2
<1>5. Lo' = [Lo EXCEPT ![b] = lost'[b]]
  BY <1>1, <1>2
<1>6. Ph[b] = Shown(b) /\ Us[b] = Live(b) /\ Lo[b] = lost[b] /\ Us'[b] = Live(b)'
  BY <1>1
<1> QED
  BY <1>3, <1>4, <1>5, <1>6

\* Where no buffer is shown to change, the abstract state does not.
LEMMA NoneShown ==
  ASSUME ViewInv, ViewInv', ctl = "active", ctl' = "active", fails' = fails,
         \A e \in Buf : Same(e)
  PROVE  Unseen
<1>1. /\ Ph = [e \in Buf |-> Shown(e)] /\ Us = [e \in Buf |-> Live(e)]
      /\ Lo = [e \in Buf |-> lost[e]]
      /\ Ph' = [e \in Buf |-> Shown(e)'] /\ Us' = [e \in Buf |-> Live(e)']
      /\ Lo' = [e \in Buf |-> lost'[e]]
  BY Zenon DEF ViewInv
<1>2. \A e \in Buf : Shown(e)' = Shown(e) /\ Live(e)' = Live(e) /\ lost'[e] = lost[e]
  BY Zenon DEF Same, Live
<1>3. Ph' = Ph /\ Us' = Us /\ Lo' = Lo
  BY <1>1, <1>2
<1> QED
  BY <1>3, Zenon DEF Unseen

\* The stream before it is on, and after, is a closed one.
LEMMA ShownClosed == ctl # "active" =>
  Ph = [b \in Buf |-> "closed"] /\ Us = [b \in Buf |-> 0] /\ Lo = [b \in Buf |-> 0]
  BY Zenon DEF Ph, Us, Lo

\* A step fails at most once, and one that turns the stream on or begins to stop
\* it does not fail.
LEMMA OneFailure ==
  ASSUME [Next]_vars
  PROVE  /\ fails' \in {fails, fails + 1}
         /\ (ctl = "active") # (ctl' = "active") => fails' = fails
<1>1. CASE Control
  <2>1. CASE StreamOn
    BY <2>1, SMT DEF StreamOn, Fails
  <2>2. CASE GetBuf \/ RegBufRefused \/ RegBuf
    <3>1. ctl # "active" /\ ctl' # "active"
      <4>1. CASE GetBuf
        BY <4>1, SMT DEF GetBuf
      <4>2. CASE RegBufRefused
        BY <4>2, SMT DEF RegBufRefused
      <4>3. CASE RegBuf
        <5>1. ctl = "getbuf" /\ ctl' \in {"launch", "unreg"}
          BY <4>3, SMT DEF RegBuf
        <5> QED
          BY <5>1
      <4> QED
        BY <2>2, <4>1, <4>2, <4>3
    <3>2. fails' \in {fails, fails + 1}
      BY <2>2, Zenon DEF GetBuf, RegBufRefused, RegBuf, Fails
    <3> QED
      BY <3>1, <3>2
  <2>3. CASE \/ Start \/ WaitPoll \/ StopPoll \/ StreamOff \/ QuitCmd \/ JoinCmd
             \/ UnregBuf \/ PutBuf
    BY <2>3, Zenon DEF Start, WaitPoll, StopPoll, StreamOff, QuitCmd, JoinCmd, UnregBuf, PutBuf,
       boundVars
  <2> QED
    BY <1>1, <2>1, <2>2, <2>3, Zenon DEF Control
<1>2. CASE Poll
  <2>1. ctl' = ctl
    BY <1>2, Zenon DEF Poll, ProcPipe, PollWake, CallNotify, CheckActive, DqBuf, UncountBuf,
       AddRefs, NotifyBundle, NotifyLinked, NotifyCmd
  <2>2. fails' \in {fails, fails + 1}
    BY <1>2, Zenon DEF Poll, ProcPipe, PollWake, CallNotify, CheckActive, DqBuf, UncountBuf,
       AddRefs, NotifyBundle, NotifyLinked, NotifyCmd, Lose, Fails, boundVars
  <2> QED
    BY <2>1, <2>2
<1>3. CASE Link \/ CmdPop \/ AppCallback \/ CmdEnd \/ FillBuf \/ CancelBuf \/ UNCHANGED vars
  <2>1. fails' = fails
    BY <1>3, Zenon DEF Link, CmdPop, AppCallback, CmdEnd, FillBuf, CancelBuf, boundVars, vars
  <2> QED
    BY <2>1
<1>4. ASSUME NEW r \in Releaser, QbufFsm(r) \/ (\E b \in Buf : Qbuf(r, b)) \/ BufDone(r)
      PROVE  ctl' = ctl /\ fails' \in {fails, fails + 1}
  BY <1>4, Zenon DEF QbufFsm, Qbuf, BufDone, CheckRef, DecRef, CountBuf, QbufIoctl, UncountFailed,
     MarkInKernel, Fails, boundVars
<1> QED
  BY <1>1, <1>2, <1>3, <1>4, Zenon DEF Next, Done, Releaser

\* Turning the stream on opens it, with every buffer somewhere.
LEMMA OpenStep ==
  ASSUME ViewInv', ctl # "active", ctl' = "active", fails' = fails PROVE Ownership!Next
<1>1. /\ Ph' = [e \in Buf |-> Shown(e)'] /\ Us' = [e \in Buf |-> Live(e)']
      /\ Lo' = [e \in Buf |-> lost'[e]]
      /\ \A e \in Buf : /\ refcnt'[e] \in Nat /\ lost'[e] \in Nat /\ Live(e)' \in Nat
                        /\ lost'[e] <= fails' /\ fails' \in Nat
                        /\ InDriver(e)' \/ Taken(e)' = 1 => refcnt'[e] = 0
  BY Zenon DEF ViewInv
<1>2. \A e \in Buf : /\ Shown(e)' \in {"driver", "taken", "shared", "returning", "stranded"}
                     /\ Shown(e)' = "shared" <=> refcnt'[e] > 0
  <2> TAKE e \in Buf
  <2>1. refcnt'[e] \in Nat /\ (InDriver(e)' \/ Taken(e)' = 1 => refcnt'[e] = 0)
    BY <1>1
  <2> QED
    BY <2>1, SMT DEF Shown
<1>3. \A e \in Buf : refcnt'[e] = Live(e)' + lost'[e] /\ lost'[e] \in 0 .. fails
  BY <1>1, SMT DEF Live
<1>4. /\ \A e \in Buf : /\ Ph'[e] \in Ownership!Phase \ {"closed"} /\ Us'[e] \in Nat
                        /\ Lo'[e] \in 0 .. fails
      /\ \A e \in Buf : Ph'[e] = "shared" <=> Us'[e] + Lo'[e] > 0
  BY <1>1, <1>2, <1>3, SMT DEF Ownership!Phase
<1>5. Ph' = [e \in Buf |-> Ph'[e]] /\ Us' = [e \in Buf |-> Us'[e]] /\ Lo' = [e \in Buf |-> Lo'[e]]
  BY <1>1
<1>6. Ownership!Open
  BY <1>4, <1>5, Zenon DEF Ownership!Open, Ownership!Consistent, Ph, Us, Lo
<1> QED
  BY <1>6, Zenon DEF Ownership!Next

\* Beginning to stop closes it.
LEMMA CloseStep ==
  ASSUME ctl = "active", ctl' # "active", fails' = fails PROVE Ownership!Next
<1>1. Ph' = [b \in Buf |-> "closed"] /\ Us' = [b \in Buf |-> 0] /\ Lo' = [b \in Buf |-> 0]
  BY Zenon DEF Ph, Us, Lo
<1>2. Ownership!Close
  BY <1>1, Zenon DEF Ownership!Close, Ownership!Nobody, Ph, Us, Lo
<1> QED
  BY <1>2, Zenon DEF Ownership!Next

\* A closed stream stays as it is, but for a failure.
LEMMA ClosedStep ==
  ASSUME ctl # "active", ctl' # "active", fails' \in {fails, fails + 1}
  PROVE  Ownership!Next \/ UNCHANGED Ownership!vars
<1>1. Ph' = Ph /\ Us' = Us /\ Lo' = Lo /\ (ctl = "active")' = (ctl = "active")
  <2>1. Ph' = [b \in Buf |-> "closed"] /\ Us' = [b \in Buf |-> 0] /\ Lo' = [b \in Buf |-> 0]
    BY Zenon DEF Ph, Us, Lo
  <2> QED
    BY <2>1, ShownClosed
<1>2. CASE fails' = fails
  BY <1>1, <1>2, Zenon DEF Ownership!vars, Ph, Us, Lo
<1>3. CASE fails' = fails + 1
  <2>1. Ownership!FailClosed
    BY <1>1, <1>3, Zenon DEF Ownership!FailClosed, Ownership!Fail, Ph, Us, Lo
  <2> QED
    BY <2>1, Zenon DEF Ownership!Next
<1> QED
  BY <1>2, <1>3

\* The ways in which one buffer moves without a failure, and with one.
MovesOn(b) ==
  /\ fails' = fails /\ lost'[b] = lost[b]
  /\ \/ Shown(b) = "driver" /\ Shown(b)' = "taken" /\ refcnt'[b] = refcnt[b]
     \/ Shown(b) = "taken" /\ Shown(b)' = "shared" /\ refcnt'[b] \in Nat \ {0} /\ lost[b] = 0
     \/ Shown(b) = "shared" /\ Shown(b)' = "shared" /\ refcnt'[b] = refcnt[b] + 1
     \/ /\ Shown(b) = "shared" /\ Shown(b)' = "shared"
        /\ Live(b) > 0 /\ refcnt[b] > 1 /\ refcnt'[b] = refcnt[b] - 1
     \/ /\ Shown(b) = "shared" /\ Shown(b)' = "returning"
        /\ lost[b] = 0 /\ refcnt[b] = 1 /\ refcnt'[b] = 0
     \/ Shown(b) = "returning" /\ Shown(b)' = "driver" /\ refcnt'[b] = refcnt[b]

Fallen(b) ==
  /\ fails' = fails + 1
  /\ \/ /\ Shown(b) = "shared" /\ Shown(b)' = "shared" /\ lost'[b] = lost[b] + 1
        /\ (refcnt'[b] = refcnt[b] /\ Live(b) > 0) \/ refcnt'[b] = refcnt[b] + 1
     \/ /\ Shown(b) \in {"taken", "returning"} /\ Shown(b)' = "stranded"
        /\ refcnt'[b] = refcnt[b] /\ lost'[b] = lost[b]

\* A step that moves one buffer on in its life is a step of the abstract ownership.
LEMMA MoveStep ==
  ASSUME ViewInv, ViewInv', ctl = "active", ctl' = "active", NEW b \in Buf, MovesOn(b),
         \A e \in Buf \ {b} : Same(e)
  PROVE  Ownership!Next
<1>1. /\ Ph' = [Ph EXCEPT ![b] = Shown(b)'] /\ Us' = [Us EXCEPT ![b] = Live(b)']
      /\ Lo' = [Lo EXCEPT ![b] = lost'[b]] /\ fails' = fails
      /\ Ph[b] = Shown(b) /\ Us[b] = Live(b) /\ Lo[b] = lost[b] /\ Us'[b] = Live(b)'
  BY OneShown DEF MovesOn
<1>2. Lo' = Lo
  <2>1. lost'[b] = lost[b]
    BY Zenon DEF MovesOn
  <2> QED
    BY <1>1, <2>1 DEF Lo
<1>3. refcnt'[b] = refcnt[b] => Us' = Us
  <2>1. refcnt'[b] = refcnt[b] => Live(b)' = Live(b)
    BY Zenon DEF Live, MovesOn
  <2> QED
    BY <1>1, <2>1 DEF Us
<1>4. Shown(b)' = Shown(b) => Ph' = Ph
  BY <1>1 DEF Ph
<1>0. refcnt[b] \in Nat /\ lost[b] \in Nat /\ lost'[b] = lost[b]
  BY Zenon DEF ViewInv, MovesOn
<1>5. CASE Shown(b) = "driver" /\ Shown(b)' = "taken" /\ refcnt'[b] = refcnt[b]
  <2>1. Ownership!Take(b)
    BY <1>1, <1>2, <1>3, <1>5, Zenon DEF Ownership!Take, Ownership!Move, Ph, Us, Lo
  <2> QED
    BY <2>1, Zenon DEF Ownership!Next
<1>6. CASE Shown(b) = "taken" /\ Shown(b)' = "shared" /\ refcnt'[b] \in Nat \ {0} /\ lost[b] = 0
  <2>1. Live(b)' \in Nat \ {0}
    BY <1>0, <1>6, SMT DEF Live
  <2>2. Us' = [Us EXCEPT ![b] = Us'[b]] /\ Us'[b] \in Nat \ {0}
    BY <1>1, <2>1, Zenon
  <2>3. Ownership!Share(b)
    BY <1>1, <1>2, <1>6, <2>2, Zenon DEF Ownership!Share, Ownership!Move, Ph, Us, Lo
  <2> QED
    BY <2>3, Zenon DEF Ownership!Next
<1>7. CASE Shown(b) = "shared" /\ Shown(b)' = "shared" /\ refcnt'[b] = refcnt[b] + 1
  <2>1. Live(b)' = Live(b) + 1
    BY <1>0, <1>7, SMT DEF Live
  <2>2. Us' = [Us EXCEPT ![b] = @ + 1] /\ Ph' = Ph
    BY <1>1, <1>4, <1>7, <2>1, Zenon
  <2>3. Ownership!AddUser(b)
    BY <1>1, <1>2, <1>7, <2>2, Zenon DEF Ownership!AddUser, Ph, Us, Lo
  <2> QED
    BY <2>3, Zenon DEF Ownership!Next
<1>8. CASE /\ Shown(b) = "shared" /\ Shown(b)' = "shared"
           /\ Live(b) > 0 /\ refcnt[b] > 1 /\ refcnt'[b] = refcnt[b] - 1
  <2>1. Live(b)' = Live(b) - 1 /\ Live(b) + lost[b] > 1
    BY <1>0, <1>8, SMT DEF Live
  <2>2. Us' = [Us EXCEPT ![b] = @ - 1] /\ Ph' = Ph /\ Us[b] > 0 /\ Us[b] + Lo[b] > 1
    BY <1>1, <1>4, <1>8, <2>1, Zenon
  <2>3. Ownership!Release(b)
    BY <1>1, <1>2, <1>8, <2>2, Zenon DEF Ownership!Release, Ph, Us, Lo
  <2> QED
    BY <2>3, Zenon DEF Ownership!Next
<1>9. CASE /\ Shown(b) = "shared" /\ Shown(b)' = "returning"
           /\ lost[b] = 0 /\ refcnt[b] = 1 /\ refcnt'[b] = 0
  <2>1. Live(b)' = 0 /\ Live(b) = 1
    BY <1>0, <1>9, SMT DEF Live
  <2>2. Us' = [Us EXCEPT ![b] = 0] /\ Us[b] = 1 /\ Lo[b] = 0
    BY <1>1, <1>9, <2>1, Zenon
  <2>3. Ownership!ReleaseLast(b)
    BY <1>1, <1>2, <1>9, <2>2, Zenon DEF Ownership!ReleaseLast, Ownership!Move, Ph, Us, Lo
  <2> QED
    BY <2>3, Zenon DEF Ownership!Next
<1>10. CASE Shown(b) = "returning" /\ Shown(b)' = "driver" /\ refcnt'[b] = refcnt[b]
  <2>1. Ownership!GiveBack(b)
    BY <1>1, <1>2, <1>3, <1>10, Zenon DEF Ownership!GiveBack, Ownership!Move, Ph, Us, Lo
  <2> QED
    BY <2>1, Zenon DEF Ownership!Next
<1> QED
  BY <1>5, <1>6, <1>7, <1>8, <1>9, <1>10, Zenon DEF MovesOn

\* So is a failure that costs one buffer a reference, or keeps it from the driver.
LEMMA FallStep ==
  ASSUME ViewInv, ViewInv', ctl = "active", ctl' = "active", NEW b \in Buf, Fallen(b),
         \A e \in Buf \ {b} : Same(e)
  PROVE  Ownership!Next
<1>1. /\ Ph' = [Ph EXCEPT ![b] = Shown(b)'] /\ Us' = [Us EXCEPT ![b] = Live(b)']
      /\ Lo' = [Lo EXCEPT ![b] = lost'[b]] /\ fails' = fails + 1
      /\ Ph[b] = Shown(b) /\ Us[b] = Live(b) /\ Lo[b] = lost[b]
  BY OneShown DEF Fallen
<1>2. refcnt[b] \in Nat /\ lost[b] \in Nat
  BY Zenon DEF ViewInv
<1>3. Live(b)' = Live(b) => Us' = Us
  BY <1>1 DEF Us
<1>4. CASE /\ Shown(b) = "shared" /\ Shown(b)' = "shared" /\ lost'[b] = lost[b] + 1
           /\ (refcnt'[b] = refcnt[b] /\ Live(b) > 0) \/ refcnt'[b] = refcnt[b] + 1
  <2>1. Ph' = Ph /\ Lo' = [Lo EXCEPT ![b] = @ + 1]
    <3>1. Ph' = Ph
      BY <1>1, <1>4 DEF Ph
    <3> QED
      BY <1>1, <1>4, <3>1, Zenon
  <2>2. \/ Us[b] > 0 /\ Us' = [Us EXCEPT ![b] = @ - 1]
        \/ Us' = Us
    <3>1. CASE refcnt'[b] = refcnt[b] /\ Live(b) > 0
      <4>1. Live(b)' = Live(b) - 1
        BY <1>2, <1>4, <3>1, SMT DEF Live
      <4> QED
        BY <1>1, <3>1, <4>1, Zenon
    <3>2. CASE refcnt'[b] = refcnt[b] + 1
      <4>1. Live(b)' = Live(b)
        BY <1>2, <1>4, <3>2, SMT DEF Live
      <4> QED
        BY <1>3, <4>1
    <3> QED
      BY <1>4, <3>1, <3>2
  <2>3. Ownership!Lose(b)
    BY <1>1, <1>4, <2>1, <2>2, Zenon DEF Ownership!Lose, Ownership!Fail, Ph, Us, Lo
  <2> QED
    BY <2>3, Zenon DEF Ownership!Next
<1>5. CASE /\ Shown(b) \in {"taken", "returning"} /\ Shown(b)' = "stranded"
           /\ refcnt'[b] = refcnt[b] /\ lost'[b] = lost[b]
  <2>1. Us' = Us
    <3>1. Live(b)' = Live(b)
      BY <1>5, Zenon DEF Live
    <3> QED
      BY <1>3, <3>1
  <2>2. Lo' = Lo
    BY <1>1, <1>5 DEF Lo
  <2>3. Ownership!Strand(b)
    BY <1>1, <1>5, <2>1, <2>2, Zenon
    DEF Ownership!Strand, Ownership!Fail, Ownership!Move, Ph, Us, Lo
  <2> QED
    BY <2>3, Zenon DEF Ownership!Next
<1> QED
  BY <1>4, <1>5, Zenon DEF Fallen

\* A releaser whose buffer is not on its way, before or after its step, or whose
\* buffer is another, leaves a buffer's way as it was.
LEMMA WayKept ==
  ASSUME TypeOK, NEW r \in Releaser, NEW w, NEW v, Moves(r, w, v),
         pc[r] \notin OnTheWay, w \notin OnTheWay, NEW b
  PROVE  Way(b)' = Way(b)
<1>1. Way(b)' = Way(b) - Here(pc[r], rbuf[r], OnTheWay, b) + Here(w, v, OnTheWay, b)
  <2>1. Num(pc', rbuf', OnTheWay, b)
          = Num(pc, rbuf, OnTheWay, b) - Here(pc[r], rbuf[r], OnTheWay, b) + Here(w, v, OnTheWay, b)
    BY NumMoves
  <2> QED
    BY <2>1, Zenon DEF Way, OnTheWay
<1>2. Here(pc[r], rbuf[r], OnTheWay, b) = 0 /\ Here(w, v, OnTheWay, b) = 0
  BY Zenon DEF Here
<1>3. Way(b) \in Nat
  BY NumType, Zenon DEF Way
<1> QED
  BY <1>1, <1>2, <1>3, SMT

LEMMA WayMoves ==
  ASSUME TypeOK, NEW r \in Releaser, NEW w, Goto(r, w), NEW b \in Buf,
         rbuf[r] # b \/ (pc[r] \in OnTheWay <=> w \in OnTheWay)
  PROVE  Way(b)' = Way(b)
<1>1. Way(b)' = Way(b) - Here(pc[r], rbuf[r], OnTheWay, b) + Here(w, rbuf[r], OnTheWay, b)
  <2>1. "idle" \notin OnTheWay
    BY DEF OnTheWay
  <2> QED
    BY <2>1, GotoNums, Zenon DEF Way
<1>2. /\ Here(pc[r], rbuf[r], OnTheWay, b) = Here(w, rbuf[r], OnTheWay, b)
      /\ Here(w, rbuf[r], OnTheWay, b) \in {0, 1}
  BY Zenon DEF Here
<1>3. Way(b) \in Nat
  BY NumType, Zenon DEF Way
<1> QED
  BY <1>1, <1>2, <1>3, SMT

\* What a thread does to one buffer of a running stream.
LEMMA RunningStep ==
  ASSUME TypeOK, OwnInv, ViewInv, ViewInv', ctl = "active", ctl' = "active",
         Bundled \/ HasCb, [Next]_vars
  PROVE  Ownership!Next \/ Unseen
<1>0. Cmd \in Releaser /\ Client \subseteq Releaser
  BY DEF Releaser
<1>00. (\A b \in Buf : Fate(b) /\ refcnt[b] = Held(b)) /\ reqd
  <2>1. Up /\ ctl # "unreg"
    BY SMT DEF Up, OnCtl
  <2> QED
    BY <2>1, Zenon DEF OwnInv, FateInv, ControlInv, Fate
<1>01. Flag(Bundled) \in {0, 1} /\ Flag(HasCb) \in {0, 1}
  BY Zenon DEF Flag
<1>1. ASSUME UNCHANGED <<kq, doneQ>> PROVE \A e : InDriver(e)' <=> InDriver(e)
  BY <1>1, Zenon DEF InDriver
<1>2. ASSUME NEW e, InDriver(e)' <=> InDriver(e), Taken(e)' = Taken(e), Way(e)' = Way(e),
             refcnt'[e] = refcnt[e], lost'[e] = lost[e]
      PROVE  Same(e)
  BY <1>2, Zenon DEF Same, Shown
<1>3. ASSUME UNCHANGED relVars PROVE \A e : Way(e)' = Way(e)
  BY <1>3, Zenon DEF Way, relVars
<1>03. ASSUME UNCHANGED ppVars PROVE \A e : Taken(e)' = Taken(e)
  BY <1>03, Zenon DEF Taken, ppVars
<1>4. ASSUME UNCHANGED <<refcnt, lost, fails>>,
             \A e \in Buf : (InDriver(e)' <=> InDriver(e)) /\ Taken(e)' = Taken(e)
                            /\ Way(e)' = Way(e)
      PROVE  Unseen
  BY <1>2, <1>4, NoneShown
<1>5. ASSUME UNCHANGED <<refcnt, lost, fails, kq, doneQ>>,
             \A e \in Buf : Taken(e)' = Taken(e) /\ Way(e)' = Way(e)
      PROVE  Unseen
  BY <1>1, <1>4, <1>5
\* A buffer with a reference that somebody has.
<1>6. ASSUME NEW b \in Buf, given[b] + Num(pc, rbuf, InUse, b) + Times(cmdQ, b) + InPoll(b) >= 1
      PROVE  /\ Shown(b) = "shared" /\ refcnt[b] \in 1 .. 4 /\ Live(b) >= 1 /\ lost[b] \in Nat
             /\ refcnt[b] >= Live(b) /\ refcnt[b] = Live(b) + lost[b]
             /\ Due(b) >= 1 => refcnt[b] \in 1 .. 3
             /\ ~InDriver(b) /\ Taken(b) # 1 /\ Way(b) = 0
  <2>1. Fate(b) /\ refcnt[b] \in Nat /\ Due(b) \in Nat /\ Away(b) \in Nat /\ lost[b] \in Nat
    BY <1>00, Numbers, SMT DEF Due, Away
  <2>2. Live(b) >= 1 /\ refcnt[b] = Live(b) + lost[b] /\ Live(b) \in Nat
    BY <1>00, <1>6, LiveHeld, Zenon
  <2>3. refcnt[b] \in 1 .. 4 /\ Away(b) = 0 /\ (Due(b) >= 1 => refcnt[b] \in 1 .. 3)
    BY <2>1, <2>2, SMT DEF Fate
  <2>4. ~InDriver(b)
    BY <2>3, DriverAlone, <2>1
  <2>5. Taken(b) # 1 /\ Way(b) = 0
    BY <2>3, Numbers, SMT DEF Away, Way
  <2>6. Shown(b) = "shared"
    <3>1. refcnt[b] > 0
      BY <2>3
    <3> QED
      BY <2>4, <2>5, <3>1, Zenon DEF Shown
  <2> QED
    BY <2>1, <2>2, <2>3, <2>4, <2>5, <2>6
\* Such a buffer stays where it is while it is counted.
<1>06. ASSUME UNCHANGED <<kq, doneQ>>, NEW b \in Buf, ~InDriver(b), Taken(b)' # 1
       PROVE  /\ refcnt'[b] \in Nat \ {0} => Shown(b)' = "shared"
              /\ refcnt'[b] = 0 /\ Way(b)' \in Nat \ {0} => Shown(b)' = "returning"
              /\ refcnt'[b] = 0 /\ Way(b)' = 0 => Shown(b)' = "stranded"
  <2>1. ~InDriver(b)'
    BY <1>1, <1>06
  <2> QED
    BY <1>06, <2>1, SMT DEF Shown
\* The poll thread could not allocate a node.
<1>20. ASSUME NEW b \in Buf, Lose(b), pp \notin {"uncount", "refs"}, pp' \notin {"uncount", "refs"},
              UNCHANGED <<kq, doneQ, relVars>>, InPoll(b) >= 1,
              refcnt'[b] \in {refcnt[b], refcnt[b] + 1},
              \A e \in Buf \ {b} : refcnt'[e] = refcnt[e]
       PROVE  Ownership!Next
  <2>1. fails' = fails + 1 /\ lost'[b] = lost[b] + 1 /\ \A e \in Buf \ {b} : lost'[e] = lost[e]
    BY <1>20 DEF Lose, Fails, TypeOK, StatusOK
  <2>2. \A e : Taken(e)' = Taken(e) /\ Taken(e)' = 0
    BY <1>20, Zenon DEF Taken
  <2>3. /\ Shown(b) = "shared" /\ refcnt[b] \in 1 .. 4 /\ Live(b) >= 1 /\ ~InDriver(b)
    <3>1. given[b] + Num(pc, rbuf, InUse, b) + Times(cmdQ, b) + InPoll(b) >= 1
      BY <1>20, Numbers, SMT
    <3> QED
      BY <1>6, <3>1
  <2>4. Shown(b)' = "shared"
    <3>1. refcnt'[b] \in Nat \ {0}
      BY <1>20, <2>3
    <3>2. UNCHANGED <<kq, doneQ>> /\ Taken(b)' # 1
      BY <1>20, <2>2
    <3> QED
      BY <1>06, <2>3, <3>1, <3>2
  <2>5. \A e \in Buf \ {b} : Same(e)
    <3>1. \A e : (InDriver(e)' <=> InDriver(e)) /\ Way(e)' = Way(e)
      BY <1>1, <1>3, <1>20
    <3> QED
      BY <1>2, <1>20, <2>1, <2>2, <3>1
  <2>6. Fallen(b)
    <3>1. (refcnt'[b] = refcnt[b] /\ Live(b) > 0) \/ refcnt'[b] = refcnt[b] + 1
      <4>1. Live(b) > 0
        BY <2>3 DEF ViewInv
      <4> QED
        BY <1>20, <4>1
    <3> QED
      BY <2>1, <2>3, <2>4, <3>1, Zenon DEF Fallen
  <2> QED
    BY <2>5, <2>6, FallStep
<1>7. CASE \/ GetBuf \/ RegBufRefused \/ RegBuf \/ Start \/ StreamOn \/ WaitPoll \/ StopPoll
           \/ StreamOff \/ QuitCmd \/ JoinCmd \/ UnregBuf \/ PutBuf
  BY <1>7, SMT DEF GetBuf, RegBufRefused, RegBuf, Start, StreamOn, WaitPoll, StopPoll, StreamOff,
     QuitCmd, JoinCmd, UnregBuf, PutBuf
<1>8. CASE Link \/ ProcPipe \/ UNCHANGED vars
  <2>1. UNCHANGED <<refcnt, lost, fails, kq, doneQ, ppVars, relVars>>
    BY <1>8, Zenon DEF Link, ProcPipe, vars, statusVars, drvVars, boundVars
  <2> QED
    BY <1>3, <1>03, <1>5, <2>1
<1>08. CASE CmdPop \/ CmdEnd
  <2>1. /\ UNCHANGED <<refcnt, lost, fails, kq, doneQ, ppVars>> /\ pc[Cmd] = "idle"
        /\ \/ Moves(Cmd, "app", Head(cmdQ))
           \/ pc' = [pc EXCEPT ![Cmd] = "off"] /\ rbuf' = rbuf
    BY <1>08, Zenon DEF CmdPop, CmdEnd, statusVars, drvVars, boundVars, Moves
  <2>2. \E w \in {"app", "off"} : \E v : Moves(Cmd, w, v)
    <3>1. CASE pc' = [pc EXCEPT ![Cmd] = "off"] /\ rbuf' = rbuf
      <4>1. Moves(Cmd, "off", rbuf[Cmd])
        BY <3>1 DEF Moves, TypeOK, ThreadsOK
      <4> QED
        BY <4>1
    <3> QED
      BY <2>1, <3>1
  <2>22. PICK w \in {"app", "off"} : \E v : Moves(Cmd, w, v)
    BY <2>2
  <2>3. PICK v : Moves(Cmd, w, v)
    BY <2>22
  <2>4. pc[Cmd] \notin OnTheWay /\ w \notin OnTheWay
    BY <2>1, SMT DEF OnTheWay
  <2>5. \A e : Way(e)' = Way(e)
    BY <1>0, <2>3, <2>4, WayKept
  <2> QED
    BY <1>03, <1>5, <2>1, <2>5
<1>9. CASE PollWake \/ CallNotify \/ CheckActive
  <2>1. UNCHANGED <<refcnt, lost, fails, kq, doneQ, relVars>>
    BY <1>9, Zenon DEF PollWake, CallNotify, CheckActive, statusVars, drvVars, boundVars
  <2>2. pp \notin {"uncount", "refs"} /\ pp' \notin {"uncount", "refs"}
    BY <1>9, SMT DEF PollWake, CallNotify, CheckActive
  <2>3. \A e : Taken(e)' = Taken(e)
    BY <2>2, Zenon DEF Taken
  <2> QED
    BY <1>3, <1>5, <2>1, <2>3
<1>09. CASE NotifyBundle
  <2>1. UNCHANGED <<refcnt, kq, doneQ, relVars, pbuf>> /\ pp = "bundle" /\ pp' = "link"
    BY <1>09, Zenon DEF NotifyBundle, statusVars, drvVars
  <2>2. pp \notin {"uncount", "refs"} /\ pp' \notin {"uncount", "refs"}
    BY <2>1, SMT
  <2>3. CASE Bundled /\ Lose(pbuf)
    <3>1. PICK b \in Buf : b = pbuf
      BY <2>1, SMT DEF TypeOK, ThreadsOK
    <3>2. Flag(Bundled) = 1
      BY <2>3, Zenon DEF Flag
    <3>3. InPoll(b) >= 1
      BY <1>01, <2>1, <3>1, <3>2, SMT DEF InPoll
    <3> QED
      BY <1>20, <2>1, <2>2, <2>3, <3>1, <3>3
  <2>4. CASE UNCHANGED <<fails, lost>>
    <3>1. \A e : Taken(e)' = Taken(e)
      BY <2>2, Zenon DEF Taken
    <3> QED
      BY <1>3, <1>5, <2>1, <2>4, <3>1
  <2> QED
    BY <1>09, <2>3, <2>4, Zenon DEF NotifyBundle
<1>19. CASE NotifyCmd
  <2>1. UNCHANGED <<refcnt, kq, doneQ, relVars>> /\ pp = "own" /\ pp' = "poll"
    BY <1>19, Zenon DEF NotifyCmd, statusVars, drvVars
  <2>2. pp \notin {"uncount", "refs"} /\ pp' \notin {"uncount", "refs"}
    BY <2>1, SMT
  <2>3. CASE HasCb /\ Lose(pbuf)
    <3>1. PICK b \in Buf : b = pbuf
      BY <2>1, SMT DEF TypeOK, ThreadsOK
    <3>2. Flag(HasCb) = 1
      BY <2>3, Zenon DEF Flag
    <3>3. InPoll(b) >= 1
      BY <2>1, <3>1, <3>2, SMT DEF InPoll
    <3> QED
      BY <1>20, <2>1, <2>2, <2>3, <3>1, <3>3
  <2>4. CASE UNCHANGED <<fails, lost>>
    <3>1. \A e : Taken(e)' = Taken(e)
      BY <2>2, Zenon DEF Taken
    <3> QED
      BY <1>3, <1>5, <2>1, <2>4, <3>1
  <2> QED
    BY <1>19, <2>3, <2>4, Zenon DEF NotifyCmd
<1>10. CASE UncountBuf
  <2>1. UNCHANGED <<refcnt, lost, kq, doneQ, relVars>> /\ pp = "uncount"
    BY <1>10, Zenon DEF UncountBuf, drvVars
  <2>2. \/ pp' = "refs" /\ pbuf' = pbuf /\ fails' = fails
        \/ pp' = "poll" /\ fails' = fails + 1
    BY <1>10, Zenon DEF UncountBuf, Fails
  <2>3. CASE pp' = "refs" /\ pbuf' = pbuf /\ fails' = fails
    <3>1. \A e : Taken(e)' = Taken(e)
      BY <2>1, <2>3, SMT DEF Taken
    <3> QED
      BY <1>3, <1>5, <2>1, <2>3, <3>1
  <2>4. CASE pp' = "poll" /\ fails' = fails + 1
    <3>1. PICK b \in Buf : b = pbuf
      BY <2>1, SMT DEF TypeOK, ThreadsOK
    <3>2. Taken(b) = 1 /\ (\A e \in Buf \ {b} : Taken(e) = 0) /\ \A e : Taken(e)' = 0
      BY <2>1, <2>4, <3>1, SMT DEF Taken
    <3>3. \A e : (InDriver(e)' <=> InDriver(e)) /\ Way(e)' = Way(e)
      BY <1>1, <1>3, <2>1
    <3>4. refcnt[b] = 0 /\ ~InDriver(b) /\ Way(b) = 0
      <4>1. refcnt[b] = 0
        BY <3>2, Zenon DEF ViewInv
      <4>2. InDriver(b) => Taken(b) = 0
        BY <1>00, DriverAlone
      <4>3. Way(b) = 0
        <5>1. Away(b) <= 1
          BY <1>00, Zenon DEF Fate
        <5> QED
          BY <3>2, <5>1, Numbers, SMT DEF Away, Way
      <4> QED
        BY <3>2, <4>1, <4>2, <4>3
    <3>5. Shown(b) = "taken" /\ Shown(b)' = "stranded"
      <4>1. Shown(b) = "taken"
        BY <3>2, <3>4, Zenon DEF Shown
      <4>2. refcnt'[b] = 0 /\ Way(b)' = 0 /\ Taken(b)' # 1 /\ UNCHANGED <<kq, doneQ>>
        BY <2>1, <3>2, <3>3, <3>4
      <4> QED
        BY <1>06, <3>4, <4>1, <4>2
    <3>6. Fallen(b)
      BY <2>1, <2>4, <3>5 DEF Fallen
    <3>7. \A e \in Buf \ {b} : Same(e)
      BY <1>2, <2>1, <3>2, <3>3
    <3> QED
      BY <3>6, <3>7, FallStep
  <2> QED
    BY <2>2, <2>3, <2>4
<1>11. CASE DqBuf
  <2>1. UNCHANGED <<refcnt, lost, fails, kq, relVars>> /\ pp = "dq"
    BY <1>11, Zenon DEF DqBuf, statusVars, boundVars
  <2>2. \A e : Taken(e) = 0
    BY <2>1, SMT DEF Taken
  <2>3. CASE doneQ = <<>>
    <3>1. doneQ' = doneQ /\ pp' = "poll"
      BY <1>11, <2>3, Zenon DEF DqBuf
    <3>2. \A e : Taken(e)' = 0
      BY <3>1, SMT DEF Taken
    <3> QED
      BY <1>3, <1>5, <2>1, <2>2, <3>1, <3>2
  <2>4. CASE doneQ # <<>>
    <3>1. doneQ' = Tail(doneQ) /\ pbuf' = Head(doneQ) /\ pp' = "uncount"
      BY <1>11, <2>4, Zenon DEF DqBuf
    <3>2. doneQ \in Seq(Buf) /\ Tail(doneQ) \in Seq(Buf)
      BY <2>4 DEF TypeOK, QueuesOK
    <3>3. PICK b \in Buf : b = Head(doneQ)
      BY <2>4, <3>2
    <3>4. doneQ' \in Seq(Buf)
      BY <3>1, <3>2, Zenon
    <3>5. \A e \in Buf : Times(doneQ', e) = Times(doneQ, e) - Flag(b = e) /\ Times(doneQ, e) \in Nat
      BY <2>4, <3>1, <3>2, <3>3, TimesFacts
    <3>6. \A e \in Buf : Times(doneQ', e) = 0 <=> e \notin SeqRange(doneQ')
      BY <3>4, TimesFacts
    <3>7. \A e \in Buf : Times(doneQ, e) = 0 <=> e \notin SeqRange(doneQ)
      BY <3>2, TimesFacts
    <3>8. \A e \in Buf \ {b} : InDriver(e)' <=> InDriver(e)
      <4> TAKE e \in Buf \ {b}
      <4>1. Flag(b = e) = 0
        BY Zenon DEF Flag
      <4>2. Times(doneQ', e) = Times(doneQ, e)
        BY <3>5, <4>1
      <4> QED
        BY <2>1, <3>6, <3>7, <4>2, Zenon DEF InDriver
    <3>9. InDriver(b) /\ ~InDriver(b)'
      <4>1. Flag(b = b) = 1
        BY Zenon DEF Flag
      <4>2. Times(doneQ', b) = Times(doneQ, b) - 1 /\ Times(doneQ, b) \in Nat
        BY <3>5, <4>1
      <4>3. Times(doneQ', b) \in Nat
        BY <3>4, TimesFacts
      <4>4. Away(b) <= 1
        BY <1>00 DEF Fate
      <4>5. Queued(b) = 0 /\ Times(doneQ, b) = 1
        BY <4>2, <4>3, <4>4, Numbers, SMT DEF Away
      <4>6. b \notin kq' /\ Times(doneQ', b) = 0 /\ Times(doneQ, b) # 0
        BY <2>1, <4>2, <4>5, SMT DEF Queued
      <4> QED
        BY <3>6, <3>7, <4>6, Zenon DEF InDriver
    <3>10. Taken(b)' = 1 /\ \A e \in Buf \ {b} : Taken(e)' = 0
      BY <3>1, <3>3, SMT DEF Taken
    <3>11. Shown(b) = "driver" /\ Shown(b)' = "taken" /\ refcnt'[b] = refcnt[b]
      BY <2>1, <3>9, <3>10, Zenon DEF Shown
    <3>12. \A e \in Buf \ {b} : Same(e)
      BY <1>2, <1>3, <2>1, <2>2, <3>8, <3>10
    <3>13. MovesOn(b)
      BY <2>1, <3>11, Zenon DEF MovesOn
    <3> QED
      BY <3>12, <3>13, MoveStep
  <2> QED
    BY <2>3, <2>4
<1>12. CASE AddRefs
  <2>1. /\ UNCHANGED <<lost, fails, kq, doneQ, pbuf, relVars>> /\ pp = "refs" /\ pp' = "bundle"
        /\ refcnt' = [refcnt EXCEPT ![pbuf] = (@ + Flag(Bundled) + Flag(HasCb)) % 256]
    BY <1>12, Zenon DEF AddRefs, drvVars, boundVars
  <2>2. PICK b \in Buf : b = pbuf
    BY <2>1, SMT DEF TypeOK, ThreadsOK
  <2>3. Taken(b) = 1 /\ \A e : Taken(e)' = 0
    BY <2>1, <2>2, SMT DEF Taken
  <2>4. \A e \in Buf \ {b} : Taken(e) = 0
    BY <2>2, Zenon DEF Taken
  <2>5. refcnt[b] = 0 /\ ~InDriver(b) /\ lost[b] = 0
    <3>1. refcnt[b] = 0
      BY <2>3, Zenon DEF ViewInv
    <3>2. InDriver(b) => Taken(b) = 0
      BY <1>00, DriverAlone
    <3>3. lost[b] = 0
      <4>1. refcnt[b] \in Nat /\ lost[b] \in Nat /\ Live(b) \in Nat
        BY Zenon DEF ViewInv
      <4> QED
        BY <3>1, <4>1, SMT DEF Live
    <3> QED
      BY <2>3, <3>1, <3>2, <3>3
  <2>6. refcnt'[b] \in Nat \ {0} /\ \A e \in Buf \ {b} : refcnt'[e] = refcnt[e]
    <3>1. Flag(Bundled) = 1 \/ Flag(HasCb) = 1
      BY Zenon DEF Flag
    <3>2. refcnt'[b] = (refcnt[b] + Flag(Bundled) + Flag(HasCb)) % 256
          /\ \A e \in Buf \ {b} : refcnt'[e] = refcnt[e]
      BY <2>1, <2>2 DEF TypeOK, StatusOK
    <3>3. refcnt'[b] = (Flag(Bundled) + Flag(HasCb)) % 256
      BY <1>01, <2>5, <3>2
    <3>4. Flag(Bundled) + Flag(HasCb) \in {1, 2}
      BY <1>01, <3>1
    <3> QED
      BY <3>2, <3>3, <3>4, SMT
  <2>7. Shown(b) = "taken" /\ Shown(b)' = "shared"
    <3>1. ~InDriver(b)' /\ Taken(b)' # 1 /\ refcnt'[b] > 0
      BY <1>1, <2>1, <2>3, <2>5, <2>6
    <3> QED
      BY <2>3, <2>5, <3>1, Zenon DEF Shown
  <2>8. \A e \in Buf \ {b} : Same(e)
    BY <1>1, <1>2, <1>3, <2>1, <2>3, <2>4, <2>6
  <2>9. MovesOn(b)
    BY <2>1, <2>5, <2>6, <2>7, Zenon DEF MovesOn
  <2> QED
    BY <2>8, <2>9, MoveStep
<1>13. CASE NotifyLinked
  <2>1. UNCHANGED <<kq, doneQ, pbuf, relVars>> /\ pp = "link" /\ pp' = "own"
    BY <1>13, Zenon DEF NotifyLinked, drvVars
  <2>2. \A e : Taken(e)' = Taken(e) /\ Taken(e) = 0
    BY <2>1, SMT DEF Taken
  <2>3. CASE isLinked
    <3>1. PICK b \in Buf : b = pbuf
      BY <2>1, SMT DEF TypeOK, ThreadsOK
    <3>2. Flag(HasCb) = 1
      BY <2>3, Zenon DEF OwnInv, CommandInv, Flag
    <3>3. InPoll(b) = 1 /\ PollDue(b) = 2
      BY <2>1, <3>1, <3>2, SMT DEF InPoll, PollDue
    <3>4. /\ given[b] + Num(pc, rbuf, InUse, b) + Times(cmdQ, b) + InPoll(b) >= 1 /\ Due(b) >= 1
      BY <3>3, Numbers, SMT DEF Due
    <3>5. Shown(b) = "shared" /\ refcnt[b] \in 1 .. 3 /\ ~InDriver(b) /\ Taken(b) # 1
      BY <1>6, <3>4
    <3>6. refcnt'[b] = refcnt[b] + 1 /\ \A e \in Buf \ {b} : refcnt'[e] = refcnt[e]
      <4>1. refcnt' = [refcnt EXCEPT ![pbuf] = (@ + 1) % 256]
        BY <1>13, <2>3, Zenon DEF NotifyLinked
      <4>2. refcnt'[b] = (refcnt[b] + 1) % 256 /\ \A e \in Buf \ {b} : refcnt'[e] = refcnt[e]
        BY <3>1, <4>1 DEF TypeOK, StatusOK
      <4> QED
        BY <3>5, <4>2, SmallByte
    <3>7. CASE Lose(b)
      <4>1. pp \notin {"uncount", "refs"} /\ pp' \notin {"uncount", "refs"}
        BY <2>1, SMT
      <4> QED
        BY <1>20, <2>1, <3>3, <3>6, <3>7, <4>1
    <3>8. CASE UNCHANGED <<fails, lost>>
      <4>1. Shown(b)' = "shared"
        <5>1. refcnt'[b] \in Nat \ {0} /\ Taken(b)' # 1
          BY <2>2, <3>5, <3>6
        <5> QED
          BY <1>06, <2>1, <3>5, <5>1
      <4>2. \A e \in Buf \ {b} : Same(e)
        BY <1>1, <1>2, <1>3, <2>1, <2>2, <3>6, <3>8
      <4>3. MovesOn(b)
        BY <3>5, <3>6, <3>8, <4>1, Zenon DEF MovesOn
      <4> QED
        BY <4>2, <4>3, MoveStep
    <3> QED
      BY <1>13, <2>3, <3>1, <3>7, <3>8, Zenon DEF NotifyLinked
  <2>4. CASE ~isLinked
    <3>1. UNCHANGED <<refcnt, lost, fails>>
      BY <1>13, <2>4, Zenon DEF NotifyLinked
    <3> QED
      BY <1>3, <1>5, <2>1, <2>2, <3>1
  <2> QED
    BY <2>3, <2>4
<1>14. CASE AppCallback
  <2>1. /\ UNCHANGED <<lost, fails, kq, doneQ, ppVars, rbuf>> /\ pc[Cmd] = "app"
        /\ refcnt' = [refcnt EXCEPT ![rbuf[Cmd]] = (@ + 1) % 256]
        /\ pc' = [pc EXCEPT ![Cmd] = "check"]
    BY <1>14, Zenon DEF AppCallback, drvVars, boundVars
  <2>2. PICK b \in Buf : b = rbuf[Cmd]
    BY <1>0, <2>1, SMT DEF TypeOK, ThreadsOK
  <2>3. Num(pc, rbuf, InUse, b) >= 1 /\ Num(pc, rbuf, {"app"}, b) >= 1
    BY <1>0, <2>1, <2>2, NumOne DEF InUse
  <2>4. /\ given[b] + Num(pc, rbuf, InUse, b) + Times(cmdQ, b) + InPoll(b) >= 1 /\ Due(b) >= 1
    BY <2>3, Numbers, SMT DEF Due
  <2>5. refcnt[b] \in 1 .. 3 /\ Shown(b) = "shared" /\ ~InDriver(b) /\ Taken(b) # 1
    BY <1>6, <2>4
  <2>6. refcnt'[b] = refcnt[b] + 1 /\ \A e \in Buf \ {b} : refcnt'[e] = refcnt[e]
    <3>1. refcnt'[b] = (refcnt[b] + 1) % 256 /\ \A e \in Buf \ {b} : refcnt'[e] = refcnt[e]
      BY <2>1, <2>2 DEF TypeOK, StatusOK
    <3> QED
      BY <2>5, <3>1, SmallByte
  <2>7. Shown(b)' = "shared"
    <3>1. refcnt'[b] \in Nat \ {0} /\ Taken(b)' # 1
      BY <1>03, <2>1, <2>5, <2>6
    <3> QED
      BY <1>06, <2>1, <2>5, <3>1
  <2>8. MovesOn(b)
    BY <2>1, <2>5, <2>6, <2>7, Zenon DEF MovesOn
  <2>9. \A e : Way(e)' = Way(e)
    <3>1. Moves(Cmd, "check", rbuf[Cmd])
      BY <2>1 DEF Moves, TypeOK, ThreadsOK
    <3>2. pc[Cmd] \notin OnTheWay /\ "check" \notin OnTheWay
      BY <2>1, SMT DEF OnTheWay
    <3> QED
      BY <1>0, <3>1, <3>2, WayKept
  <2>10. \A e \in Buf \ {b} : Same(e)
    BY <1>1, <1>03, <1>2, <2>1, <2>6, <2>9
  <2> QED
    BY <2>8, <2>10, MoveStep
<1>15. ASSUME NEW c \in Client, QbufFsm(c) \/ \E b \in Buf : Qbuf(c, b) PROVE Unseen
  <2>1. UNCHANGED <<refcnt, lost, fails, kq, doneQ, ppVars>>
    BY <1>15, Zenon DEF QbufFsm, Qbuf, statusVars, drvVars, boundVars
  <2>2. \A e \in Buf : Way(e)' = Way(e)
    <3>1. CASE QbufFsm(c)
      <4>1. pc[c] = "fsm" /\ \E w \in {"check", "idle"} : Goto(c, w)
        BY <3>1, Zenon DEF QbufFsm
      <4>2. pc[c] \notin OnTheWay /\ \A w \in {"check", "idle"} : w \notin OnTheWay
        BY <4>1, SMT DEF OnTheWay
      <4> QED
        BY <1>0, <4>1, <4>2, WayMoves
    <3>2. CASE \E b \in Buf : Qbuf(c, b)
      <4>1. pc[c] = "idle" /\ \E b \in Buf : Moves(c, "fsm", b)
        BY <3>2, Zenon DEF Qbuf, Moves
      <4>2. pc[c] \notin OnTheWay /\ "fsm" \notin OnTheWay
        BY <4>1, SMT DEF OnTheWay
      <4> QED
        BY <1>0, <4>1, <4>2, WayKept
    <3> QED
      BY <1>15, <3>1, <3>2
  <2> QED
    BY <1>03, <1>5, <2>1, <2>2
<1>16. ASSUME NEW r \in Releaser, NEW w, Goto(r, w), pc[r] \in OnTheWay <=> w \in OnTheWay,
              UNCHANGED <<refcnt, lost, fails, kq, doneQ, ppVars>>
       PROVE  Unseen
  <2>1. \A e \in Buf : Way(e)' = Way(e)
    BY <1>16, WayMoves
  <2> QED
    BY <1>03, <1>5, <1>16, <2>1
<1>21. ASSUME NEW r \in Releaser, CheckRef(r) \/ UncountFailed(r) \/ MarkInKernel(r) PROVE Unseen
  <2>1. UNCHANGED <<refcnt, lost, fails, kq, doneQ, ppVars>>
    BY <1>21, Zenon DEF CheckRef, UncountFailed, MarkInKernel, statusVars, drvVars, boundVars
  <2>2. pc[r] \in {"check", "undo", "mark"} /\ \E w \in {"idle", "dec"} : Goto(r, w)
    BY <1>21, Zenon DEF CheckRef, UncountFailed, MarkInKernel
  <2>3. pc[r] \notin OnTheWay /\ \A w \in {"idle", "dec"} : w \notin OnTheWay
    BY <2>2, SMT DEF OnTheWay
  <2> QED
    BY <1>16, <2>1, <2>2, <2>3
<1>17. ASSUME NEW r \in Releaser, DecRef(r) PROVE Ownership!Next
  <2>1. /\ UNCHANGED <<lost, fails, kq, doneQ, ppVars>> /\ pc[r] = "dec"
        /\ refcnt' = [refcnt EXCEPT ![rbuf[r]] = (@ + 255) % 256]
        /\ Goto(r, IF refcnt'[rbuf[r]] = 0 THEN "count" ELSE "idle")
    BY <1>17, Zenon DEF DecRef, drvVars, boundVars
  <2>2. PICK b \in Buf : b = rbuf[r]
    BY <2>1, SMT DEF TypeOK, ThreadsOK
  <2>3. Num(pc, rbuf, InUse, b) >= 1
    BY <2>1, <2>2, NumOne DEF InUse
  <2>4. given[b] + Num(pc, rbuf, InUse, b) + Times(cmdQ, b) + InPoll(b) >= 1
    BY <2>3, Numbers, SMT
  <2>5. /\ refcnt[b] \in 1 .. 4 /\ Shown(b) = "shared" /\ ~InDriver(b) /\ Taken(b) # 1
        /\ Live(b) >= 1 /\ lost[b] \in Nat /\ refcnt[b] = Live(b) + lost[b] /\ Way(b) = 0
    BY <1>6, <2>4
  <2>6. refcnt'[b] = refcnt[b] - 1 /\ \A e \in Buf \ {b} : refcnt'[e] = refcnt[e]
    <3>1. refcnt'[b] = (refcnt[b] + 255) % 256 /\ \A e \in Buf \ {b} : refcnt'[e] = refcnt[e]
      BY <2>1, <2>2 DEF TypeOK, StatusOK
    <3> QED
      BY <2>5, <3>1, SmallByte
  <2>9. \A e \in Buf \ {b} : Same(e)
    <3>1. \A e \in Buf \ {b} : Way(e)' = Way(e)
      <4>1. \E w : Goto(r, w)
        BY <2>1, Zenon
      <4> QED
        BY <2>2, <4>1, WayMoves
    <3> QED
      BY <1>1, <1>03, <1>2, <2>1, <2>6, <3>1
  <2>10. Taken(b)' # 1 /\ UNCHANGED <<kq, doneQ>> /\ Live(b) \in Nat
    <3>1. Live(b) \in Nat
      BY Zenon DEF ViewInv
    <3> QED
      BY <1>03, <2>1, <2>5, <3>1
  <2>7. CASE refcnt[b] = 1
    <3>1. refcnt'[b] = 0 /\ lost[b] = 0
      BY <2>5, <2>6, <2>7, <2>10
    <3>2. Way(b)' = 1
      <4>1. Goto(r, "count")
        BY <2>1, <2>2, <3>1
      <4>2. Way(b)' = Way(b) - Here(pc[r], rbuf[r], OnTheWay, b) + Here("count", rbuf[r], OnTheWay, b)
        BY <4>1, GotoNums, Zenon DEF Way, OnTheWay
      <4>3. Here(pc[r], rbuf[r], OnTheWay, b) = 0 /\ Here("count", rbuf[r], OnTheWay, b) = 1
        BY <2>1, <2>2, SMT DEF Here, OnTheWay
      <4> QED
        BY <2>5, <4>2, <4>3
    <3>3. Shown(b)' = "returning"
      <4>1. Way(b)' \in Nat \ {0}
        BY <3>2
      <4> QED
        BY <1>06, <2>5, <2>10, <3>1, <4>1
    <3>4. MovesOn(b)
      BY <2>1, <2>5, <2>7, <3>1, <3>3, Zenon DEF MovesOn
    <3> QED
      BY <2>9, <3>4, MoveStep
  <2>8. CASE refcnt[b] # 1
    <3>1. refcnt[b] > 1 /\ refcnt'[b] \in Nat \ {0} /\ Live(b) > 0
      BY <2>5, <2>6, <2>8, <2>10
    <3>2. Shown(b)' = "shared"
      BY <1>06, <2>5, <2>10, <3>1
    <3>3. MovesOn(b)
      BY <2>1, <2>5, <2>6, <3>1, <3>2, Zenon DEF MovesOn
    <3> QED
      BY <2>9, <3>3, MoveStep
  <2> QED
    BY <2>7, <2>8
\* A buffer on its way is nowhere else, and only one thread has it.
<1>22. ASSUME NEW r \in Releaser, pc[r] \in OnTheWay, NEW b \in Buf, b = rbuf[r]
       PROVE  /\ Shown(b) = "returning" /\ Way(b) = 1 /\ refcnt[b] = 0
              /\ ~InDriver(b) /\ Taken(b) = 0
  <2>1. Way(b) >= 1
    BY <1>22, NumOne DEF Way
  <2>2. Away(b) <= 1 /\ (Away(b) > 0 => refcnt[b] = 0)
    BY <1>00 DEF Fate
  <2>3. Away(b) = 1 /\ Way(b) = 1 /\ Taken(b) = 0 /\ Queued(b) = 0 /\ Times(doneQ, b) = 0
    BY <2>1, <2>2, Numbers, SMT DEF Away, Way
  <2>4. ~InDriver(b)
    <3>1. ~ (Queued(b) + Times(doneQ, b) >= 1)
      BY <2>3, SMT
    <3> QED
      BY <3>1, InDriverCount, Zenon
  <2>5. refcnt[b] = 0
    BY <2>2, <2>3
  <2> QED
    BY <2>3, <2>4, <2>5, SMT DEF Shown
\* The driver, or the cache operation before it, refuses a buffer.
<1>23. ASSUME NEW r \in Releaser, pc[r] \in OnTheWay, NEW w \in {"idle", "undo"}, Goto(r, w),
              UNCHANGED <<refcnt, lost, kq, doneQ, ppVars>>, fails' = fails + 1
       PROVE  Ownership!Next
  <2>1. PICK b \in Buf : b = rbuf[r]
    BY <1>23, SMT DEF TypeOK, ThreadsOK, OnTheWay
  <2>2. /\ Shown(b) = "returning" /\ Way(b) = 1 /\ refcnt[b] = 0
        /\ ~InDriver(b) /\ Taken(b) = 0
    BY <1>22, <1>23, <2>1
  <2>3. Way(b)' = 0
    <3>1. Way(b)' = Way(b) - Here(pc[r], rbuf[r], OnTheWay, b) + Here(w, rbuf[r], OnTheWay, b)
      BY <1>23, GotoNums, Zenon DEF Way, OnTheWay
    <3>2. Here(pc[r], rbuf[r], OnTheWay, b) = 1 /\ Here(w, rbuf[r], OnTheWay, b) = 0
      BY <1>23, <2>1, SMT DEF Here, OnTheWay
    <3> QED
      BY <2>2, <3>1, <3>2
  <2>4. Shown(b)' = "stranded"
    <3>1. refcnt'[b] = 0 /\ Taken(b)' # 1 /\ UNCHANGED <<kq, doneQ>>
      BY <1>03, <1>23, <2>2
    <3> QED
      BY <1>06, <2>2, <2>3, <3>1
  <2>5. Fallen(b)
    BY <1>23, <2>2, <2>4 DEF Fallen
  <2>6. \A e \in Buf \ {b} : Same(e)
    <3>1. \A e \in Buf \ {b} : Way(e)' = Way(e)
      BY <1>23, <2>1, WayMoves
    <3> QED
      BY <1>1, <1>03, <1>2, <1>23, <3>1
  <2> QED
    BY <2>5, <2>6, FallStep
<1>24. ASSUME NEW r \in Releaser, CountBuf(r) PROVE Ownership!Next \/ Unseen
  <2>1. /\ UNCHANGED <<refcnt, lost, kq, doneQ, ppVars>> /\ pc[r] = "count"
        /\ \/ Goto(r, "ioctl") /\ fails' = fails
           \/ Goto(r, "idle") /\ fails' = fails + 1
    BY <1>24, Zenon DEF CountBuf, Fails, drvVars
  <2>2. pc[r] \in OnTheWay /\ "ioctl" \in OnTheWay
    BY <2>1, SMT DEF OnTheWay
  <2>3. CASE Goto(r, "ioctl") /\ fails' = fails
    BY <1>16, <2>1, <2>2, <2>3
  <2>4. CASE Goto(r, "idle") /\ fails' = fails + 1
    BY <1>23, <2>1, <2>2, <2>4
  <2> QED
    BY <2>1, <2>3, <2>4
<1>18. ASSUME NEW r \in Releaser, QbufIoctl(r) PROVE Ownership!Next
  <2>1. /\ UNCHANGED <<refcnt, lost, doneQ, ppVars>> /\ pc[r] = "ioctl"
        /\ \/ kq' = kq \cup {rbuf[r]} /\ Goto(r, "mark") /\ fails' = fails
           \/ kq' = kq /\ Goto(r, "undo") /\ fails' = fails + 1
    BY <1>00, <1>18, Zenon DEF QbufIoctl, Fails, statusVars
  <2>2. pc[r] \in OnTheWay
    BY <2>1, SMT DEF OnTheWay
  <2>3. CASE kq' = kq /\ Goto(r, "undo") /\ fails' = fails + 1
    BY <1>23, <2>1, <2>2, <2>3
  <2>4. CASE kq' = kq \cup {rbuf[r]} /\ Goto(r, "mark") /\ fails' = fails
    <3>1. PICK b \in Buf : b = rbuf[r]
      BY <2>1, SMT DEF TypeOK, ThreadsOK
    <3>2. Shown(b) = "returning"
      BY <1>22, <2>2, <3>1
    <3>3. InDriver(b)' /\ \A e \in Buf \ {b} : InDriver(e)' <=> InDriver(e)
      BY <2>1, <2>4, <3>1, Zenon DEF InDriver
    <3>4. Shown(b)' = "driver"
      BY <3>3, Zenon DEF Shown
    <3>5. \A e \in Buf \ {b} : Same(e)
      <4>1. \A e \in Buf \ {b} : Way(e)' = Way(e)
        BY <2>4, <3>1, WayMoves
      <4> QED
        BY <1>03, <1>2, <2>1, <3>3, <4>1
    <3>6. MovesOn(b)
      BY <2>1, <2>4, <3>2, <3>4, Zenon DEF MovesOn
    <3> QED
      BY <3>5, <3>6, MoveStep
  <2> QED
    BY <2>1, <2>3, <2>4
<1>25. CASE FillBuf \/ CancelBuf
  <2>1. UNCHANGED <<refcnt, lost, fails, ppVars, relVars>>
    BY <1>25, Zenon DEF FillBuf, CancelBuf, statusVars, boundVars
  <2>2. PICK e \in kq : kq' = kq \ {e} /\ doneQ' = Append(doneQ, e)
    BY <1>25, Zenon DEF FillBuf, CancelBuf
  <2>3. doneQ \in Seq(Buf) /\ e \in Buf
    BY DEF TypeOK, QueuesOK, ControlOK
  <2>4. SeqRange(doneQ') = SeqRange(doneQ) \cup {e}
    BY <2>2, <2>3 DEF SeqRange
  <2>5. \A o : InDriver(o)' <=> InDriver(o)
    BY <2>2, <2>4, Zenon DEF InDriver
  <2> QED
    BY <1>3, <1>03, <1>4, <2>1, <2>5
<1>26. Control => \/ GetBuf \/ RegBufRefused \/ RegBuf \/ Start \/ StreamOn \/ WaitPoll \/ StopPoll
                  \/ StreamOff \/ QuitCmd \/ JoinCmd \/ UnregBuf \/ PutBuf
  BY Zenon DEF Control
<1> QED
  BY <1>7, <1>8, <1>08, <1>9, <1>09, <1>10, <1>11, <1>12, <1>13, <1>14, <1>15, <1>17, <1>18, <1>19,
     <1>21, <1>24, <1>25, <1>26, Zenon
  DEF Next, Poll, BufDone, Done

\* A stream with its poll thread, its command thread and any number of clients
\* implements BufferOwnership, if somebody asks for its frames (a callback of its
\* own, or the channel's super-buffer callback): any number of ioctls, cache
\* operations and nodes may fail, and each failure costs no more than the one
\* reference or the one buffer that BufferOwnership allows it.
THEOREM OwnershipRefined ==
  ASSUME QuietRestart, Bundled \/ HasCb PROVE Spec => ImplementsOwnership
<1>1. Init => Ownership!Init
  <2> SUFFICES ASSUME Init PROVE Ownership!Init
    OBVIOUS
  <2>1. ctl # "active" /\ fails \in Nat
    BY SMT DEF Init
  <2>2. Ph = [b \in Buf |-> "closed"] /\ Us = [b \in Buf |-> 0] /\ Lo = [b \in Buf |-> 0]
    BY <2>1, ShownClosed
  <2> QED
    BY <2>1, <2>2, Zenon DEF Ownership!Init, Ownership!Nobody, Ph, Us, Lo
<1>2. TypeOK /\ OwnInv /\ ViewInv /\ ViewInv' /\ [Next]_vars => [Ownership!Next]_(Ownership!vars)
  <2> SUFFICES ASSUME TypeOK, OwnInv, ViewInv, ViewInv', [Next]_vars
               PROVE  Ownership!Next \/ UNCHANGED (Ownership!vars)
    OBVIOUS
  <2>1. CASE ctl = "active" /\ ctl' = "active"
    <3>1. Ownership!Next \/ Unseen
      BY <2>1, RunningStep
    <3>2. ASSUME Unseen PROVE UNCHANGED (Ownership!vars)
      BY <2>1, <3>2, Zenon DEF Ownership!vars, Unseen, Ph, Us, Lo
    <3> QED
      BY <3>1, <3>2
  <2>2. CASE ctl # "active" /\ ctl' = "active"
    <3>1. fails' = fails
      BY <2>2, OneFailure
    <3> QED
      BY <2>2, <3>1, OpenStep
  <2>3. CASE ctl = "active" /\ ctl' # "active"
    <3>1. fails' = fails
      BY <2>3, OneFailure
    <3> QED
      BY <2>3, <3>1, CloseStep
  <2>4. CASE ctl # "active" /\ ctl' # "active"
    BY <2>4, OneFailure, ClosedStep
  <2> QED
    BY <2>1, <2>2, <2>3, <2>4
<1>3. TypeOK /\ OwnInv => ViewInv
  BY ViewHolds
<1> QED
  BY <1>1, <1>2, <1>3, OwnershipInductive, TypeCorrect, PTL
  DEF Spec, ImplementsOwnership, Ownership!Spec
=============================================================================
