--------------------------- MODULE QCamera3HWIProofs ---------------------------
(***************************************************************************)
(* Why every request of a HAL3 session is answered once and in order, and  *)
(* why a flush and a device error leave nothing behind, for every set of   *)
(* streams and requests and any number of frames; and why, without either, *)
(* every buffer the framework waits for is where it comes back from.       *)
(***************************************************************************)
EXTENDS QCamera3HWI, FiniteSetTheorems, SequenceTheorems, NaturalsInduction,
        WellFoundedInduction, TLAPS

Request == [kind : {"live", "input", "internal"}, streams : SUBSET Streams,
            refused : BOOLEAN]
Verdict == {"result", "error_result", "error_request"}
Answer  == [shutter : Nat, finals : Seq(Verdict), bufs : [Streams -> Nat]]

\* Requests are taken, and the camera works.
Alive == mState \in {"CONFIGURED", "STARTED"}

\* The buffers of frame f that the framework waits for.
Owes(f) == IF f \in DOMAIN mPendingBuffersMap THEN mPendingBuffersMap[f] ELSE {}

\* What the lists are.
ListsInv ==
    /\ req \in Seq(Request)
    /\ answers \in Seq(Answer) /\ Len(answers) = Len(req)
    /\ cached \in Seq(SUBSET Streams) /\ Len(cached) = Len(req)
    /\ mPendingRequestsList \subseteq Frames
    /\ DOMAIN mPendingBuffersMap \subseteq Frames
    /\ \A f \in Frames : Owes(f) \subseteq req[f].streams

\* What orchestrateRequest has still to send.
PlanInv ==
    /\ plan \in Seq(Request)
    /\ pc["request"] = "call" => plan # <<>>
    /\ \A i \in 1 .. Len(plan) : plan[i].kind = "input" => Len(plan) = 1

NothingPending == mPendingRequestsList = {} /\ mPendingBuffersMap = <<>>
NothingComes ==
    /\ metadata = {} /\ DOMAIN post = {} /\ DOMAIN reproc = {}
    /\ \A s \in Streams : images[s] = {}

\* While the camera works only the framework flushes, and mFlush withholds
\* requests until it has reported what was pending; a thread that gives the
\* device up finds nothing pending any more.
FlushInv ==
    /\ mState \in {"CONFIGURED", "STARTED", "ERROR", "DEINIT"}
    /\ pc \in [Threads -> {"idle", "call", "wait", "check", "flag", "stop", "notify", "deinit"}]
    /\ pc["flush"] \notin {"call", "wait"}
    /\ owed \in 0 .. Len(req)
    /\ Alive => /\ pc["request"] \in {"idle", "call", "wait"}
                /\ pc["flush"] \in {"idle", "flag", "stop", "notify"}
                /\ pc["flush"] # "idle" => restart
                /\ mFlush <=> pc["flush"] \in {"stop", "notify"}
                /\ pc["flush"] = "notify" => NothingComes
    /\ mState = "DEINIT" => NothingPending
    /\ \A t \in Threads : pc[t] = "deinit" => NothingPending

\* A pending request has all its buffers before it, those that came back kept,
\* and no live request is pending that is older than one that is not.
PendingInv ==
    /\ \A f \in mPendingRequestsList :
          /\ f \in DOMAIN mPendingBuffersMap
          /\ Owes(f) = req[f].streams
          /\ cached[f] \subseteq req[f].streams \ NeedsMeta
    /\ \A f, g \in Frames :
          f < g /\ f \in mPendingRequestsList /\ ~ IsInput(f) /\ ~ IsInput(g)
             => g \in mPendingRequestsList

\* A callback that is still to come brings a buffer that is still owed.
CallbackInv ==
    /\ images \in [Streams -> SUBSET Frames] /\ metadata \subseteq Frames
    /\ DOMAIN post \subseteq Frames /\ DOMAIN reproc \subseteq Frames
    /\ \A f \in DOMAIN reproc : IsInput(f)
    /\ \A s \in Streams : \A f \in images[s] : ~ IsInput(f) /\ s \in req[f].streams
    /\ Alive =>
        /\ \A s \in Streams \ NeedsMeta : \A f \in images[s] : s \in Owes(f) \ cached[f]
        /\ \A f \in DOMAIN post : "metadata" \in post[f] =>
              /\ f \notin mPendingRequestsList /\ ~ IsInput(f)
              /\ req[f].streams \cap NeedsMeta \subseteq Owes(f)
        /\ \A f \in DOMAIN reproc : Owes(f) = req[f].streams

\* What the framework has been told is what the lists no longer hold.
AnswerInv ==
    \A f \in Frames : Accepted(f) =>
        /\ answers[f].finals = <<>> <=> f \in mPendingRequestsList
        /\ \A s \in req[f].streams : answers[f].bufs[s] = IF s \in Owes(f) THEN 0 ELSE 1

\* While live and reprocess requests are never pending together, the entries
\* whose request was answered are older than every pending request, so that a
\* flush does not answer them again.
ApartInv ==
    /\ \A f \in mPendingRequestsList : IsInput(f) => mPendingRequestsList = {f}
    /\ plan # <<>> => IF plan[1].kind = "input" THEN mPendingRequestsList = {}
                      ELSE \A f \in mPendingRequestsList : ~ IsInput(f)
    /\ \A f \in mPendingRequestsList, g \in DOMAIN mPendingBuffersMap :
          g \in mPendingRequestsList \/ g < f

\* Every request the framework made is answered at most once, with a shutter if
\* the answer is its result.
OnceInv ==
    \A f \in Frames : Accepted(f) =>
        /\ answers[f].finals \in {<<>>} \cup { <<v>> : v \in Verdict }
        /\ answers[f].shutter = IF answers[f].finals = <<"result">> THEN 1 ELSE 0

ListInvs == ListsInv /\ PendingInv /\ AnswerInv
Inv == ListInvs /\ PlanInv /\ FlushInv /\ CallbackInv

-----------------------------------------------------------------------------
(* The operators.                                                            *)

\* A function on 1 .. n is a sequence of length n.
LEMMA FunIsSeq ==
  ASSUME NEW S, NEW n \in Nat, NEW q \in [1 .. n -> S]
  PROVE  q \in Seq(S) /\ Len(q) = n
<1>1. q \in Seq(S)
  BY SeqDef
<1>2. Len(q) \in Nat /\ DOMAIN q = 1 .. Len(q)
  BY <1>1, LenProperties
<1> QED BY <1>1, <1>2

\* What each of the three operators on answers changes.
LEMMA ReturnedIs ==
  ASSUME NEW a \in Answer, NEW S
  PROVE  /\ Returned(a, S) \in Answer
         /\ Returned(a, S).finals = a.finals /\ Returned(a, S).shutter = a.shutter
         /\ \A s \in Streams : Returned(a, S).bufs[s] = a.bufs[s] + IF s \in S THEN 1 ELSE 0
  BY DEF Returned, Answer

\* A verdict is appended, and the first one is the only one.
LEMMA FinalIs ==
  ASSUME NEW a \in Answer, NEW v \in Verdict
  PROVE  /\ Final(a, v) \in Answer
         /\ Final(a, v).finals # <<>>
         /\ a.finals = <<>> => Final(a, v).finals = <<v>>
         /\ Final(a, v).bufs = a.bufs /\ Final(a, v).shutter = a.shutter
<1>1. a.finals \in Seq(Verdict)
  BY DEF Answer
<1>2. Append(a.finals, v) \in Seq(Verdict) /\ Append(a.finals, v) # <<>>
  BY <1>1
<1>3. Append(<<>>, v) = <<v>>
  OBVIOUS
<1> QED BY <1>2, <1>3 DEF Final, Answer

\* A shutter is counted, and nothing else changes.
LEMMA ShutterIs ==
  ASSUME NEW a \in Answer
  PROVE  /\ Shutter(a) \in Answer
         /\ Shutter(a).finals = a.finals /\ Shutter(a).bufs = a.bufs
         /\ Shutter(a).shutter = a.shutter + 1
<1>1. a.shutter \in Nat /\ a.shutter + 1 \in Nat
  BY DEF Answer
<1>2. Shutter(a) = [a EXCEPT !.shutter = a.shutter + 1]
  BY DEF Shutter
<1> QED BY <1>1, <1>2 DEF Answer

\* A buffer that is removed is owed no more, and no other is forgotten.
LEMMA RemoveBufsIs ==
  ASSUME NEW F, NEW back, mPendingBuffersMap' = RemoveBufs(F, back)
  PROVE  /\ DOMAIN mPendingBuffersMap' \subseteq DOMAIN mPendingBuffersMap
         /\ DOMAIN mPendingBuffersMap \ F \subseteq DOMAIN mPendingBuffersMap'
         /\ \A f : Owes(f)' = IF f \in F THEN Owes(f) \ back[f] ELSE Owes(f)
  BY DEF RemoveBufs, Owes

\* A set of frames of a stream has a first one.
LEMMA FirstIs ==
  ASSUME NEW s, images[s] # {}, images[s] \subseteq Nat
  PROVE  First(s) \in images[s]
<1>1. PICK f \in images[s] : \A g \in images[s] : ~ <<g, f>> \in OpToRel(<, Nat)
  BY NatLessThanWellFounded, WFMin
<1>2. ASSUME NEW g \in images[s] PROVE f <= g
  <2>1. <<g, f>> \in Nat \X Nat /\ <<g, f>>[1] = g /\ <<g, f>>[2] = f
    OBVIOUS
  <2>2. ~ (<<g, f>>[1] < <<g, f>>[2])
    BY <1>1, <2>1, Zenon DEF OpToRel
  <2> QED BY <2>1, <2>2
<1> QED BY <1>2 DEF First

-----------------------------------------------------------------------------
(* What the actions do to the lists.                                         *)

\* An action that touches neither the lists nor the answers keeps what relates them.
LEMMA ListsKept ==
  ASSUME ListInvs, UNCHANGED <<lists, answers>>
  PROVE  ListInvs'
  BY DEF ListInvs, ListsInv, PendingInv, AnswerInv, lists, Frames, Owes, IsInput,
         Accepted, Hidden

\* The members of the lists are requests, answers and sets of streams.
LEMMA ElementsHaveTypes ==
  ASSUME ListsInv
  PROVE  /\ Len(req) \in Nat /\ \A g \in Frames : req[g] \in Request /\ answers[g] \in Answer
         /\ \A g \in Frames : req[g].streams \subseteq Streams /\ cached[g] \subseteq Streams
<1>1. Len(req) \in Nat
  BY DEF ListsInv
<1>2. \A g \in Frames : req[g] \in Request
  BY DEF ListsInv, Frames
<1>3. \A g \in Frames : answers[g] \in Answer
  BY DEF ListsInv, Frames
<1>4. \A g \in Frames : cached[g] \subseteq Streams
  BY DEF ListsInv, Frames
<1>5. \A r \in Request : r.streams \subseteq Streams
  BY DEF Request
<1> QED BY <1>1, <1>2, <1>3, <1>4, <1>5

\* A request enters the lists with all its buffers, and last.
LEMMA EnlistKeeps ==
  ASSUME ListInvs, NEW r \in Request, Enlist(r)
  PROVE  /\ ListInvs'
         /\ Frames' = Frames \cup {Len(req) + 1} /\ Frames \subseteq Frames'
         /\ \A f \in Frames : /\ f # Len(req) + 1 /\ req'[f] = req[f]
                              /\ Owes(f)' = Owes(f) /\ cached'[f] = cached[f]
                              /\ answers'[f] = answers[f]
         /\ \A n : n = Len(req) + 1 =>
               /\ req'[n] = r /\ Owes(n)' = r.streams
               /\ cached'[n] = {} /\ answers'[n] = NoAnswer
<1>0. PICK n : n = Len(req) + 1
  OBVIOUS
<1>1. /\ req \in Seq(Request) /\ answers \in Seq(Answer) /\ cached \in Seq(SUBSET Streams)
      /\ Len(answers) = Len(req) /\ Len(cached) = Len(req)
  BY DEF ListInvs, ListsInv
<1>2. NoAnswer \in Answer /\ NoAnswer.finals = <<>> /\ \A s \in Streams : NoAnswer.bufs[s] = 0
  BY DEF NoAnswer, Answer
<1>3. /\ req' \in Seq(Request) /\ Len(req') = n /\ req'[n] = r
      /\ \A f \in 1 .. Len(req) : req'[f] = req[f]
  BY <1>0, <1>1 DEF Enlist
<1>4. /\ answers' \in Seq(Answer) /\ Len(answers') = n /\ answers'[n] = NoAnswer
      /\ \A f \in 1 .. Len(req) : answers'[f] = answers[f]
  BY <1>0, <1>1, <1>2 DEF Enlist
<1>5. /\ cached' \in Seq(SUBSET Streams) /\ Len(cached') = n /\ cached'[n] = {}
      /\ \A f \in 1 .. Len(req) : cached'[f] = cached[f]
  BY <1>0, <1>1 DEF Enlist
<1>6. /\ Frames' = Frames \cup {n} /\ n \notin Frames /\ n \in Nat
      /\ \A f \in Frames : f \in Nat /\ f < n
  BY <1>0, <1>1, <1>3 DEF Frames
<1>7. /\ mPendingRequestsList' = mPendingRequestsList \cup {n}
      /\ DOMAIN mPendingBuffersMap' = DOMAIN mPendingBuffersMap \cup {n}
      /\ Owes(n)' = r.streams /\ \A f \in Frames : Owes(f)' = Owes(f)
  <2>1. mPendingBuffersMap' = [g \in DOMAIN mPendingBuffersMap \cup {n} |->
                                  IF g = n THEN r.streams ELSE mPendingBuffersMap[g]]
    BY <1>0 DEF Enlist
  <2>2. mPendingRequestsList' = mPendingRequestsList \cup {n}
    BY <1>0 DEF Enlist
  <2>3. DOMAIN mPendingBuffersMap' = DOMAIN mPendingBuffersMap \cup {n}
    BY <2>1
  <2>4. Owes(n)' = r.streams
    BY <2>1 DEF Owes
  <2>5. \A f \in Frames : Owes(f)' = Owes(f)
    BY <2>1, <1>6 DEF Owes
  <2> QED BY <2>2, <2>3, <2>4, <2>5
<1>8. r.streams \subseteq Streams
  BY DEF Request
<1>9. ListsInv'
  <2>1. mPendingRequestsList' \subseteq Frames' /\ DOMAIN mPendingBuffersMap' \subseteq Frames'
    BY <1>6, <1>7 DEF ListInvs, ListsInv
  <2>2. \A f \in Frames' : Owes(f)' \subseteq req'[f].streams
    BY <1>3, <1>6, <1>7 DEF ListInvs, ListsInv, Frames
  <2> QED BY <1>3, <1>4, <1>5, <2>1, <2>2 DEF ListsInv
<1>10. PendingInv'
  <2>1. \A f \in mPendingRequestsList : f \in Frames
    BY DEF ListInvs, ListsInv
  <2>2. \A f \in mPendingRequestsList' : /\ f \in DOMAIN mPendingBuffersMap'
          /\ Owes(f)' = req'[f].streams /\ cached'[f] \subseteq req'[f].streams \ NeedsMeta
    <3>1. ASSUME NEW f \in mPendingRequestsList
          PROVE  /\ f \in DOMAIN mPendingBuffersMap' /\ Owes(f)' = req'[f].streams
                 /\ cached'[f] \subseteq req'[f].streams \ NeedsMeta
      BY <1>3, <1>5, <1>7, <2>1, <3>1 DEF ListInvs, PendingInv, Frames
    <3> QED BY <1>3, <1>5, <1>7, <3>1
  <2>3. \A f \in Frames : IsInput(f)' <=> IsInput(f)
    BY <1>3 DEF IsInput, Frames
  <2>4. ASSUME NEW f \in Frames', NEW g \in Frames', f < g, f \in mPendingRequestsList',
               ~ IsInput(f)', ~ IsInput(g)'
        PROVE  g \in mPendingRequestsList'
    <3>1. CASE g = n
      BY <1>7, <3>1
    <3>2. CASE g # n
      <4>1. g \in Frames /\ f \in Frames
        BY <1>6, <2>4, <3>2
      <4> QED BY <4>1, <1>6, <1>7, <2>3, <2>4 DEF ListInvs, PendingInv
    <3> QED BY <3>1, <3>2
  <2> QED BY <2>2, <2>4 DEF PendingInv
<1>11. AnswerInv'
  <2> SUFFICES ASSUME NEW f \in Frames', Accepted(f)'
      PROVE  /\ answers'[f].finals = <<>> <=> f \in mPendingRequestsList'
             /\ \A s \in req'[f].streams : answers'[f].bufs[s] = IF s \in Owes(f)' THEN 0 ELSE 1
    BY DEF AnswerInv
  <2>1. CASE f = n
    <3>1. f \in mPendingRequestsList' /\ answers'[f].finals = <<>>
      BY <2>1, <1>2, <1>4, <1>7
    <3>2. \A s \in req'[f].streams : s \in Owes(f)' /\ answers'[f].bufs[s] = 0
      BY <2>1, <1>2, <1>3, <1>4, <1>7, <1>8
    <3> QED BY <3>1, <3>2
  <2>2. CASE f # n
    <3>1. f \in Frames /\ req'[f] = req[f] /\ answers'[f] = answers[f] /\ Owes(f)' = Owes(f)
      BY <2>2, <1>3, <1>4, <1>6, <1>7 DEF Frames
    <3>2. Accepted(f)
      BY <3>1 DEF Accepted, Hidden
    <3>3. f \in mPendingRequestsList' <=> f \in mPendingRequestsList
      BY <2>2, <1>7
    <3> QED BY <3>1, <3>2, <3>3 DEF ListInvs, AnswerInv
  <2> QED BY <2>1, <2>2
<1> QED BY <1>0, <1>3, <1>4, <1>5, <1>6, <1>7, <1>9, <1>10, <1>11 DEF ListInvs, Frames

\* notifyErrorForPendingRequests leaves nothing pending: every pending request
\* has an entry in the map, so that the first ones it takes are all of them.
LEMMA NotifyClears ==
  ASSUME ListInvs, NotifyErrorForPendingRequests
  PROVE  ListInvs' /\ mPendingRequestsList' = {} /\ mPendingBuffersMap' = <<>>
<1>1. /\ Len(req) \in Nat /\ mPendingRequestsList \subseteq Frames
      /\ DOMAIN mPendingBuffersMap \subseteq Frames
      /\ mPendingRequestsList \subseteq DOMAIN mPendingBuffersMap
  BY DEF ListInvs, ListsInv, PendingInv
<1>2. mPendingRequestsList \subseteq YoungEntries /\ IsFiniteSet(YoungEntries)
  <2>1. IsFiniteSet(Frames) /\ YoungEntries \subseteq Frames
    BY <1>1, FS_Interval DEF Frames, YoungEntries
  <2> QED BY <1>1, <2>1, FS_Subset DEF Frames, YoungEntries
<1>3. ASSUME NEW f \in mPendingRequestsList
      PROVE  ~ Cardinality({ q \in mPendingRequestsList : q < f }) >= Cardinality(YoungEntries)
  <2> DEFINE O == { q \in mPendingRequestsList : q < f }
  <2>1. O \subseteq YoungEntries /\ f \in YoungEntries /\ f \notin O
    BY <1>1, <1>2 DEF Frames
  <2>2. IsFiniteSet(O) /\ Cardinality(O) <= Cardinality(YoungEntries)
        /\ (Cardinality(O) = Cardinality(YoungEntries) => O = YoungEntries)
    BY <1>2, <2>1, FS_Subset
  <2>3. Cardinality(O) \in Nat /\ Cardinality(YoungEntries) \in Nat
    BY <1>2, <2>2, FS_CardinalityType
  <2> QED BY <2>1, <2>2, <2>3
<1>4. mPendingRequestsList' = {} /\ mPendingBuffersMap' = <<>> /\ req' = req
  BY <1>3 DEF NotifyErrorForPendingRequests
<1>5. DOMAIN mPendingBuffersMap' = {} /\ \A f : Owes(f)' = {}
  BY <1>4 DEF Owes
<1>6. Frames' = Frames
  BY <1>4 DEF Frames
<1>7. /\ answers \in Seq(Answer) /\ Len(answers) = Len(req)
      /\ \A f \in Frames : answers[f] \in Answer /\ Owes(f) \subseteq req[f].streams
      /\ \A f \in Frames : req[f].streams \subseteq Streams
  <2>1. \A f \in Frames : req[f] \in Request /\ answers[f] \in Answer
    BY DEF ListInvs, ListsInv, Frames
  <2> QED BY <2>1 DEF ListInvs, ListsInv, Request
<1>8. /\ cached' \in Seq(SUBSET Streams) /\ Len(cached') = Len(req)
  <2>1. cached' = [f \in 1 .. Len(req) |-> {}]
    BY <1>4 DEF NotifyErrorForPendingRequests, Frames
  <2> QED BY <1>1, <2>1, FunIsSeq
<1>9. ASSUME NEW f \in Frames
      PROVE  /\ answers'[f] \in Answer
             /\ answers[f].finals # <<>> \/ (f \in mPendingRequestsList /\ ~ Hidden(f))
                    => answers'[f].finals # <<>>
             /\ ~ Hidden(f) => \A s \in Streams : answers'[f].bufs[s] =
                      answers[f].bufs[s] + IF s \in Owes(f) THEN 1 ELSE 0
  <2> DEFINE a == answers[f]
  <2>1. answers'[f] = IF f \notin DOMAIN mPendingBuffersMap \/ Hidden(f) THEN a
              ELSE IF f \in YoungEntries
              THEN Returned(Final(a, "error_request"), mPendingBuffersMap[f])
              ELSE Returned(a, mPendingBuffersMap[f])
    BY DEF NotifyErrorForPendingRequests, OwedEntries
  <2>2. a \in Answer /\ Final(a, "error_request") \in Answer
        /\ Final(a, "error_request").finals # <<>> /\ Final(a, "error_request").bufs = a.bufs
    BY <1>7, FinalIs DEF Verdict
  <2>3. CASE f \notin DOMAIN mPendingBuffersMap \/ Hidden(f)
    <3>1. \A s \in Streams : a.bufs[s] \in Nat
      BY <2>2 DEF Answer
    <3> QED BY <1>1, <2>1, <2>2, <2>3, <3>1 DEF Owes
  <2>4. CASE f \in DOMAIN mPendingBuffersMap /\ ~ Hidden(f) /\ f \in YoungEntries
    BY <2>1, <2>2, <2>4, ReturnedIs DEF Owes
  <2>5. CASE f \in DOMAIN mPendingBuffersMap /\ ~ Hidden(f) /\ f \notin YoungEntries
    BY <1>2, <2>1, <2>2, <2>5, ReturnedIs DEF Owes
  <2> QED BY <2>3, <2>4, <2>5
<1>10. answers' \in Seq(Answer) /\ Len(answers') = Len(req)
  <2>1. answers' \in [1 .. Len(req) -> Answer]
    BY <1>9 DEF NotifyErrorForPendingRequests, Frames
  <2> QED BY <1>1, <2>1, FunIsSeq
<1>11. ListsInv' /\ PendingInv'
  BY <1>4, <1>5, <1>6, <1>8, <1>10 DEF ListInvs, ListsInv, PendingInv
<1>12. AnswerInv'
  <2> SUFFICES ASSUME NEW f \in Frames, Accepted(f)
      PROVE  answers'[f].finals # <<>> /\ \A s \in req[f].streams : answers'[f].bufs[s] = 1
    BY <1>4, <1>5, <1>6 DEF AnswerInv, Accepted, Hidden
  <2>1. ~ Hidden(f) /\ (answers[f].finals = <<>> <=> f \in mPendingRequestsList)
        /\ \A s \in req[f].streams : answers[f].bufs[s] = IF s \in Owes(f) THEN 0 ELSE 1
    BY DEF ListInvs, AnswerInv, Accepted
  <2> QED BY <1>7, <1>9, <2>1
<1> QED BY <1>4, <1>11, <1>12 DEF ListInvs
\* A buffer that comes back is kept, or handed on and owed no more.
LEMMA BufferKeeps ==
  ASSUME ListInvs, NEW f \in Frames, NEW s \in req[f].streams, HandleBuffer(f, s),
         ~ CallbacksOff => /\ s \in Owes(f)
                           /\ f \in mPendingRequestsList /\ ~ IsInput(f) => s \notin NeedsMeta
  PROVE  /\ ListInvs'
         /\ req' = req /\ mPendingRequestsList' \subseteq mPendingRequestsList
         /\ DOMAIN mPendingBuffersMap' \subseteq DOMAIN mPendingBuffersMap
         /\ mPendingRequestsList' = {} /\ mPendingRequestsList # {}
               => mPendingRequestsList = {f} /\ IsInput(f)
         /\ \A g \in Frames : \A x : x # s \/ g # f =>
               /\ x \in Owes(g)' <=> x \in Owes(g)
               /\ x \in cached'[g] <=> x \in cached[g]
<1>1. /\ Len(req) \in Nat /\ \A g \in Frames : req[g] \in Request /\ answers[g] \in Answer
      /\ \A g \in Frames : req[g].streams \subseteq Streams /\ cached[g] \subseteq Streams
  BY ElementsHaveTypes DEF ListInvs
<1>2. CASE CallbacksOff
  <2>1. UNCHANGED <<lists, answers>>
    BY <1>2 DEF HandleBuffer
  <2>2. ListInvs'
    BY <2>1, ListsKept
  <2> QED BY <2>1, <2>2 DEF lists, Owes
<1>3. CASE ~ CallbacksOff /\ (f \notin mPendingRequestsList \/ IsInput(f))
  <2> DEFINE a == IF f \in mPendingRequestsList THEN Final(Shutter(answers[f]), "result")
                  ELSE answers[f]
  <2>1. /\ mPendingBuffersMap' = RemoveBufs({f}, [g \in {f} |-> {s}])
        /\ mPendingRequestsList' = mPendingRequestsList \ {f}
        /\ answers' = [answers EXCEPT ![f] = Returned(a, {s})]
        /\ UNCHANGED <<req, cached>>
    BY <1>3 DEF HandleBuffer
  <2>2. /\ DOMAIN mPendingBuffersMap' \subseteq DOMAIN mPendingBuffersMap
        /\ DOMAIN mPendingBuffersMap \ {f} \subseteq DOMAIN mPendingBuffersMap'
        /\ \A g : Owes(g)' = IF g = f THEN Owes(g) \ {s} ELSE Owes(g)
    <3>1. /\ DOMAIN mPendingBuffersMap' \subseteq DOMAIN mPendingBuffersMap
          /\ DOMAIN mPendingBuffersMap \ {f} \subseteq DOMAIN mPendingBuffersMap'
          /\ \A g : Owes(g)' = IF g \in {f} THEN Owes(g) \ [h \in {f} |-> {s}][g] ELSE Owes(g)
      BY <2>1, RemoveBufsIs, Zenon
    <3> QED BY <3>1
  <2>3. Frames' = Frames /\ \A g \in Frames : /\ Accepted(g)' <=> Accepted(g)
                                              /\ IsInput(g)' <=> IsInput(g)
    BY <2>1 DEF Frames, Accepted, Hidden, IsInput
  <2>4. /\ a \in Answer /\ a.bufs = answers[f].bufs
        /\ f \in mPendingRequestsList => a.finals # <<>>
        /\ f \notin mPendingRequestsList => a = answers[f]
    BY <1>1, ShutterIs, FinalIs DEF Verdict
  <2>5. /\ Returned(a, {s}) \in Answer /\ Returned(a, {s}).finals = a.finals
        /\ \A x \in Streams : Returned(a, {s}).bufs[x] = a.bufs[x] + IF x = s THEN 1 ELSE 0
    BY <2>4, ReturnedIs
  <2>6. ListsInv'
    <3>1. answers' \in Seq(Answer) /\ Len(answers') = Len(answers)
      BY <2>1, <2>5 DEF ListInvs, ListsInv, Frames
    <3>2. \A g \in Frames : Owes(g)' \subseteq req[g].streams
      BY <2>2 DEF ListInvs, ListsInv
    <3> QED BY <2>1, <2>2, <2>3, <3>1, <3>2 DEF ListInvs, ListsInv
  <2>7. PendingInv'
    <3>1. \A g \in mPendingRequestsList' : /\ g \in mPendingRequestsList /\ g # f
                                           /\ g \in Frames
      BY <2>1 DEF ListInvs, ListsInv
    <3>2. \A g \in mPendingRequestsList' : /\ g \in DOMAIN mPendingBuffersMap'
                 /\ Owes(g)' = req'[g].streams /\ cached'[g] \subseteq req'[g].streams \ NeedsMeta
      BY <2>1, <2>2, <3>1 DEF ListInvs, PendingInv
    <3>3. ASSUME NEW g \in Frames, NEW h \in Frames, g < h, g \in mPendingRequestsList',
                 ~ IsInput(g), ~ IsInput(h)
          PROVE  h \in mPendingRequestsList'
      BY <1>3, <2>1, <3>1, <3>3 DEF ListInvs, PendingInv
    <3> QED BY <2>3, <3>2, <3>3 DEF PendingInv
  <2>8. AnswerInv'
    <3> SUFFICES ASSUME NEW g \in Frames, Accepted(g)
        PROVE  /\ answers'[g].finals = <<>> <=> g \in mPendingRequestsList'
               /\ \A x \in req[g].streams : answers'[g].bufs[x] = IF x \in Owes(g)' THEN 0 ELSE 1
      BY <2>1, <2>3 DEF AnswerInv
    <3>1. /\ answers[g].finals = <<>> <=> g \in mPendingRequestsList
          /\ \A x \in req[g].streams : answers[g].bufs[x] = IF x \in Owes(g) THEN 0 ELSE 1
      BY DEF ListInvs, AnswerInv
    <3>2. CASE g # f
      BY <2>1, <2>2, <3>1, <3>2
    <3>3. CASE g = f
      <4>1. answers'[f] = Returned(a, {s})
        BY <2>1, <1>1 DEF ListInvs, ListsInv, Frames
      <4>2. answers'[f].finals = <<>> <=> f \in mPendingRequestsList'
        BY <2>1, <2>4, <2>5, <3>1, <3>3, <4>1
      <4>3. ASSUME NEW x \in req[f].streams
            PROVE  answers'[f].bufs[x] = IF x \in Owes(f)' THEN 0 ELSE 1
        <5>1. x \in Streams /\ answers'[f].bufs[x] = answers[f].bufs[x] + IF x = s THEN 1 ELSE 0
          BY <1>1, <2>4, <2>5, <4>1
        <5>2. answers[f].bufs[x] = IF x \in Owes(f) THEN 0 ELSE 1
          BY <3>1, <3>3
        <5>3. Owes(f)' = Owes(f) \ {s} /\ s \in Owes(f)
          BY <1>3, <2>2
        <5> QED BY <5>1, <5>2, <5>3
      <4> QED BY <3>3, <4>2, <4>3
    <3> QED BY <3>2, <3>3
  <2>9. ListInvs'
    BY <2>6, <2>7, <2>8 DEF ListInvs
  <2>10. mPendingRequestsList' = {} /\ mPendingRequestsList # {}
               => mPendingRequestsList = {f} /\ IsInput(f)
    BY <2>1, <1>3
  <2> QED BY <2>1, <2>2, <2>9, <2>10
<1>4. CASE ~ CallbacksOff /\ f \in mPendingRequestsList /\ ~ IsInput(f)
  <2>1. /\ cached' = [cached EXCEPT ![f] = cached[f] \cup {s}]
        /\ req' = req /\ mPendingRequestsList' = mPendingRequestsList
        /\ mPendingBuffersMap' = mPendingBuffersMap /\ answers' = answers
    BY <1>4 DEF HandleBuffer, Keep
  <2>2. /\ Frames' = Frames
        /\ \A g \in Frames : Accepted(g)' <=> Accepted(g)
        /\ \A g \in Frames : IsInput(g)' <=> IsInput(g)
        /\ \A g : Owes(g)' = Owes(g)
    BY <2>1 DEF Frames, Accepted, Hidden, IsInput, Owes
  <2>3. cached' \in Seq(SUBSET Streams) /\ Len(cached') = Len(cached)
    <3>1. cached \in Seq(SUBSET Streams) /\ f \in 1 .. Len(cached)
          /\ cached[f] \cup {s} \in SUBSET Streams
      BY <1>1 DEF ListInvs, ListsInv, Frames
    <3> QED BY <2>1, <3>1
  <2>4. \A g \in Frames : cached'[g] = IF g = f THEN cached[g] \cup {s} ELSE cached[g]
    <3>1. DOMAIN cached = Frames
      BY DEF ListInvs, ListsInv, Frames
    <3> QED BY <2>1, <3>1
  <2>5. ListsInv'
    <3>1. \A g \in Frames : Owes(g)' \subseteq req'[g].streams
      BY <2>1, <2>2 DEF ListInvs, ListsInv
    <3> QED BY <2>1, <2>2, <2>3, <3>1 DEF ListInvs, ListsInv
  <2>6. AnswerInv'
    <3> SUFFICES ASSUME NEW g \in Frames, Accepted(g)
        PROVE  /\ answers[g].finals = <<>> <=> g \in mPendingRequestsList
               /\ \A x \in req[g].streams : answers[g].bufs[x] = IF x \in Owes(g) THEN 0 ELSE 1
      BY <2>1, <2>2 DEF AnswerInv
    <3> QED BY DEF ListInvs, AnswerInv
  <2>7. PendingInv'
    <3>1. ASSUME NEW g \in mPendingRequestsList
          PROVE  cached'[g] \subseteq req[g].streams \ NeedsMeta
      <4>1. g \in Frames /\ cached[g] \subseteq req[g].streams \ NeedsMeta
        BY DEF ListInvs, ListsInv, PendingInv
      <4> QED BY <1>4, <2>4, <4>1
    <3>2. \A g \in mPendingRequestsList : g \in Frames
      BY DEF ListInvs, ListsInv
    <3>3. \A g \in mPendingRequestsList' : /\ g \in DOMAIN mPendingBuffersMap'
                 /\ Owes(g)' = req'[g].streams /\ cached'[g] \subseteq req'[g].streams \ NeedsMeta
      BY <2>1, <2>2, <3>1, <3>2 DEF ListInvs, PendingInv
    <3>4. \A g, h \in Frames : g < h /\ g \in mPendingRequestsList /\ ~ IsInput(g) /\ ~ IsInput(h)
             => h \in mPendingRequestsList
      BY DEF ListInvs, PendingInv
    <3> QED BY <2>1, <2>2, <3>3, <3>4 DEF PendingInv
  <2>8. ListInvs'
    BY <2>5, <2>6, <2>7 DEF ListInvs
  <2>9. \A g \in Frames : \A x : x # s \/ g # f =>
               /\ x \in Owes(g)' <=> x \in Owes(g)
               /\ x \in cached'[g] <=> x \in cached[g]
    BY <2>2, <2>4
  <2> QED BY <2>1, <2>8, <2>9
<1> QED BY <1>2, <1>3, <1>4

\* Metadata answers live requests from the oldest on, with what was kept of them.
LEMMA MetadataKeeps ==
  ASSUME ListInvs, NEW m \in Frames,
         mPendingRequestsList' = mPendingRequestsList \ Done(m),
         answers' = [f \in Frames |->
             IF f \notin Done(m) \/ Hidden(f) THEN answers[f]
             ELSE Returned(IF f = m THEN Final(Shutter(answers[f]), "result")
                           ELSE Final(answers[f], "error_result"), cached[f])],
         mPendingBuffersMap' = RemoveBufs(Done(m), cached),
         cached' = [f \in Frames |-> IF f \in Done(m) THEN {} ELSE cached[f]],
         req' = req
  PROVE  /\ ListInvs'
         /\ DOMAIN mPendingBuffersMap' \subseteq DOMAIN mPendingBuffersMap
         /\ \A f \in Frames : /\ Owes(f)' = IF f \in Done(m) THEN Owes(f) \ cached[f] ELSE Owes(f)
                              /\ cached'[f] = IF f \in Done(m) THEN {} ELSE cached[f]
<1>1. /\ Len(req) \in Nat /\ \A g \in Frames : req[g] \in Request /\ answers[g] \in Answer
      /\ \A g \in Frames : req[g].streams \subseteq Streams /\ cached[g] \subseteq Streams
  BY ElementsHaveTypes DEF ListInvs
<1>2. /\ DOMAIN mPendingBuffersMap' \subseteq DOMAIN mPendingBuffersMap
      /\ DOMAIN mPendingBuffersMap \ Done(m) \subseteq DOMAIN mPendingBuffersMap'
      /\ \A g : Owes(g)' = IF g \in Done(m) THEN Owes(g) \ cached[g] ELSE Owes(g)
  BY RemoveBufsIs
<1>3. Frames' = Frames /\ \A g \in Frames : /\ Accepted(g)' <=> Accepted(g)
                                            /\ IsInput(g)' <=> IsInput(g)
  BY DEF Frames, Accepted, Hidden, IsInput
<1>4. \A g \in mPendingRequestsList : g \in Frames /\ cached[g] \subseteq Owes(g)
                                       /\ Owes(g) = req[g].streams
  BY DEF ListInvs, ListsInv, PendingInv
<1>5. ASSUME NEW g \in Frames
      PROVE  /\ answers'[g] \in Answer
             /\ g \notin Done(m) \/ Hidden(g) => answers'[g] = answers[g]
             /\ g \in Done(m) /\ ~ Hidden(g) => answers'[g].finals # <<>>
                     /\ \A x \in Streams : answers'[g].bufs[x] =
                             answers[g].bufs[x] + IF x \in cached[g] THEN 1 ELSE 0
  <2> DEFINE a == IF g = m THEN Final(Shutter(answers[g]), "result")
                  ELSE Final(answers[g], "error_result")
  <2>1. a \in Answer /\ a.finals # <<>> /\ a.bufs = answers[g].bufs
    BY <1>1, ShutterIs, FinalIs DEF Verdict
  <2>2. /\ Returned(a, cached[g]) \in Answer /\ Returned(a, cached[g]).finals = a.finals
        /\ \A x \in Streams : Returned(a, cached[g]).bufs[x] =
                a.bufs[x] + IF x \in cached[g] THEN 1 ELSE 0
    BY <2>1, ReturnedIs
  <2>3. answers'[g] = IF g \notin Done(m) \/ Hidden(g) THEN answers[g]
                      ELSE Returned(a, cached[g])
    OBVIOUS
  <2> QED BY <1>1, <2>1, <2>2, <2>3
<1>6. ListsInv'
  <2>1. answers' \in [1 .. Len(req) -> Answer]
    BY <1>5 DEF Frames
  <2>2. answers' \in Seq(Answer) /\ Len(answers') = Len(req)
    BY <1>1, <2>1, FunIsSeq
  <2>3. cached' \in [1 .. Len(req) -> SUBSET Streams]
    BY <1>1 DEF Frames
  <2>4. cached' \in Seq(SUBSET Streams) /\ Len(cached') = Len(req)
    BY <1>1, <2>3, FunIsSeq
  <2> QED BY <1>2, <1>3, <2>2, <2>4 DEF ListInvs, ListsInv
<1>7. PendingInv'
  <2>1. ASSUME NEW g \in mPendingRequestsList'
        PROVE  /\ g \in DOMAIN mPendingBuffersMap' /\ Owes(g)' = req[g].streams
               /\ cached'[g] \subseteq req[g].streams \ NeedsMeta
    BY <1>2, <1>4 DEF ListInvs, PendingInv
  <2>2. ASSUME NEW g \in Frames, NEW h \in Frames, g < h, g \in mPendingRequestsList',
               ~ IsInput(g), ~ IsInput(h)
        PROVE  h \in mPendingRequestsList'
    <3>1. h \in mPendingRequestsList /\ m < g
      BY <2>2 DEF ListInvs, PendingInv, Done, Frames
    <3> QED BY <1>1, <2>2, <3>1 DEF Done, Frames
  <2> QED BY <1>3, <2>1, <2>2 DEF PendingInv
<1>8. AnswerInv'
  <2> SUFFICES ASSUME NEW g \in Frames, Accepted(g)
      PROVE  /\ answers'[g].finals = <<>> <=> g \in mPendingRequestsList'
             /\ \A x \in req[g].streams : answers'[g].bufs[x] = IF x \in Owes(g)' THEN 0 ELSE 1
    BY <1>3 DEF AnswerInv
  <2>1. /\ ~ Hidden(g) /\ (answers[g].finals = <<>> <=> g \in mPendingRequestsList)
        /\ \A x \in req[g].streams : answers[g].bufs[x] = IF x \in Owes(g) THEN 0 ELSE 1
    BY DEF ListInvs, AnswerInv, Accepted
  <2>2. CASE g \notin Done(m)
    BY <1>2, <1>5, <2>1, <2>2
  <2>3. CASE g \in Done(m)
    <3>1. g \in mPendingRequestsList
      BY <2>3 DEF Done
    <3> QED BY <1>1, <1>2, <1>4, <1>5, <2>1, <2>3, <3>1
  <2> QED BY <2>2, <2>3
<1> QED BY <1>2, <1>6, <1>7, <1>8 DEF ListInvs

\* A reprocess job gives its input buffer back, and with it the result.
LEMMA InputKeeps ==
  ASSUME ListInvs, NEW f \in Frames, IsInput(f), f \in mPendingRequestsList,
         answers' = [answers EXCEPT ![f] = Final(Shutter(@), "result")],
         mPendingRequestsList' = mPendingRequestsList \ {f},
         UNCHANGED <<req, mPendingBuffersMap, cached>>
  PROVE  ListInvs'
<1>1. /\ Len(req) \in Nat /\ \A g \in Frames : req[g] \in Request /\ answers[g] \in Answer
      /\ \A g \in Frames : req[g].streams \subseteq Streams /\ cached[g] \subseteq Streams
  BY ElementsHaveTypes DEF ListInvs
<1>2. /\ Frames' = Frames
      /\ \A g \in Frames : Accepted(g)' <=> Accepted(g)
      /\ \A g \in Frames : IsInput(g)' <=> IsInput(g)
      /\ \A g : Owes(g)' = Owes(g)
  BY DEF Frames, Accepted, Hidden, IsInput, Owes
<1>3. /\ Final(Shutter(answers[f]), "result") \in Answer
      /\ Final(Shutter(answers[f]), "result").finals # <<>>
      /\ Final(Shutter(answers[f]), "result").bufs = answers[f].bufs
  BY <1>1, ShutterIs, FinalIs DEF Verdict
<1>4. ListsInv'
  <2>1. answers' \in Seq(Answer) /\ Len(answers') = Len(answers)
    BY <1>3 DEF ListInvs, ListsInv, Frames
  <2>2. \A g \in Frames : Owes(g)' \subseteq req[g].streams
    BY <1>2 DEF ListInvs, ListsInv
  <2> QED BY <1>2, <2>1, <2>2 DEF ListInvs, ListsInv
<1>5. PendingInv'
  <2>1. \A g \in mPendingRequestsList' : g \in mPendingRequestsList /\ g \in Frames
    BY DEF ListInvs, ListsInv
  <2>2. \A g \in mPendingRequestsList' : /\ g \in DOMAIN mPendingBuffersMap
           /\ Owes(g)' = req[g].streams /\ cached[g] \subseteq req[g].streams \ NeedsMeta
    BY <1>2, <2>1 DEF ListInvs, PendingInv
  <2>3. ASSUME NEW g \in Frames, NEW h \in Frames, g < h, g \in mPendingRequestsList',
               ~ IsInput(g), ~ IsInput(h)
        PROVE  h \in mPendingRequestsList'
    BY <2>1, <2>3 DEF ListInvs, PendingInv
  <2> QED BY <1>2, <2>2, <2>3 DEF PendingInv
<1>6. AnswerInv'
  <2> SUFFICES ASSUME NEW g \in Frames, Accepted(g)
      PROVE  /\ answers'[g].finals = <<>> <=> g \in mPendingRequestsList'
             /\ \A x \in req[g].streams : answers'[g].bufs[x] = IF x \in Owes(g) THEN 0 ELSE 1
    BY <1>2 DEF AnswerInv
  <2>1. /\ answers[g].finals = <<>> <=> g \in mPendingRequestsList
        /\ \A x \in req[g].streams : answers[g].bufs[x] = IF x \in Owes(g) THEN 0 ELSE 1
    BY DEF ListInvs, AnswerInv
  <2>2. DOMAIN answers = Frames
    BY DEF ListInvs, ListsInv, Frames
  <2>3. CASE g = f
    BY <1>3, <2>1, <2>2, <2>3
  <2>4. CASE g # f
    BY <2>1, <2>2, <2>4
  <2> QED BY <2>3, <2>4
<1> QED BY <1>4, <1>5, <1>6 DEF ListInvs

-----------------------------------------------------------------------------
(* Every step keeps the invariant.                                           *)

\* orchestrateRequest sends its requests one after the other.
LEMMA PlansAre ==
  ASSUME NEW p \in Plans
  PROVE  /\ p \in Seq(Request) /\ p # <<>>
         /\ \A i \in 1 .. Len(p) : p[i].kind = "input" => Len(p) = 1
         /\ p[1].kind # "input" => \A i \in 1 .. Len(p) : p[i].kind # "input"
<1>1. LiveRequests \cup InputRequests \cup HdrRequests \subseteq SUBSET Streams
  BY HWIAssumption
<1>2. CASE \E S \in LiveRequests : p = <<Live(S)>>
  BY <1>1, <1>2 DEF Live, Request
<1>3. CASE \E S \in InputRequests : p = <<Input(S)>>
  BY <1>1, <1>3 DEF Input, Request
<1>4. CASE \E S \in HdrRequests : p = HdrPlan(S)
  <2>1. PICK S \in HdrRequests : p = <<Internal, Live(S), Internal, Internal, Internal, Internal>>
    BY <1>4 DEF HdrPlan
  <2>2. /\ Internal \in Request /\ Internal.kind # "input"
        /\ Live(S) \in Request /\ Live(S).kind # "input"
    BY <1>1 DEF Internal, Live, Request
  <2>3. p \in Seq(Request) /\ Len(p) = 6 /\ \A i \in 1 .. 6 : p[i].kind # "input"
    BY <2>1, <2>2
  <2>4. p # <<>>
    BY <2>1
  <2>5. \A i \in 1 .. Len(p) : p[i].kind # "input"
    BY <2>3
  <2> QED BY <2>3, <2>4, <2>5, Zenon
<1> QED BY <1>2, <1>3, <1>4 DEF Plans

\* The request thread is in a call only while it has something to send.
LEMMA PlanKept ==
  ASSUME PlanInv, FlushInv, Next
  PROVE  PlanInv'
<1> DEFINE Pcs == {"idle", "call", "wait", "check", "flag", "stop", "notify", "deinit"}
<1>1. pc \in [Threads -> Pcs] /\ pc["flush"] \notin {"call", "wait"}
  BY DEF FlushInv
<1>2. ASSUME plan # <<>>, plan' = Tail(plan), pc'["request"] = "call" => plan' # <<>>
      PROVE  PlanInv'
  <2>1. plan \in Seq(Request) /\ \A i \in 1 .. Len(plan) : plan[i].kind = "input" => Len(plan) = 1
    BY DEF PlanInv
  <2>2. Tail(plan) \in Seq(Request) /\ Len(Tail(plan)) = Len(plan) - 1
        /\ \A i \in 1 .. Len(plan) - 1 : Tail(plan)[i] = plan[i + 1]
    BY <1>2, <2>1
  <2> QED BY <1>2, <2>1, <2>2 DEF PlanInv
<1>3. ASSUME UNCHANGED plan, pc'["request"] = "call" => pc["request"] = "call" \/ plan # <<>>
      PROVE  PlanInv'
  BY <1>3 DEF PlanInv
<1>4. CASE OrchestrateRequest
  <2>1. PICK p \in Plans : plan' = p
    BY <1>4 DEF OrchestrateRequest
  <2> QED BY <2>1, PlansAre DEF PlanInv
<1>5. CASE TakeRequest
  BY <1>1, <1>2, <1>5 DEF TakeRequest, Return, PlanInv, Threads
<1>6. CASE RefuseRequest
  BY <1>1, <1>2, <1>6 DEF RefuseRequest, Return, PlanInv, Threads
<1>7. CASE RejectRequest
  BY <1>1, <1>2, <1>7 DEF RejectRequest, Return, PlanInv, Threads
<1>8. CASE WakeUp
  BY <1>1, <1>3, <1>8 DEF WakeUp, Return, Threads
<1>9. CASE WaitTimesOut
  BY <1>1, <1>3, <1>9 DEF WaitTimesOut, Return, Threads
<1>10. CASE Flush
  BY <1>1, <1>3, <1>10 DEF Flush, Threads
<1>11. CASE ConfigureStreams
  BY <1>1, <1>3, <1>11 DEF ConfigureStreams, threads
<1>12. ASSUME NEW t \in Threads, HandleError(t)
       PROVE  PlanInv'
  BY <1>1, <1>3, <1>12 DEF HandleError, CheckError, Deinit, Return, Threads
<1>13. ASSUME NEW t \in Threads, FlushSteps(t)
       PROVE  PlanInv'
  BY <1>1, <1>3, <1>13 DEF FlushSteps, SetFlush, StopAllChannels, FlushPending, Return, Threads
<1>14. CASE Callbacks
  BY <1>1, <1>3, <1>14 DEF Callbacks, HandleMetadata, ImageArrives, ImageToPostProc,
     PostProcDone, ReprocessInputDone, ReprocessOutputDone, threads
<1>15. CASE DaemonDied \/ PullRequest
  BY <1>1, <1>3, <1>15 DEF DaemonDied, PullRequest, threads
<1> QED BY <1>4, <1>5, <1>6, <1>7, <1>8, <1>9, <1>10, <1>11, <1>12, <1>13, <1>14, <1>15, Zenon
        DEF Next, RequestThread

\* The daemon's death is for good, and what gives the device up has found
\* nothing pending: by then nobody takes requests and no callback is heard.
LEMMA FlushKept ==
  ASSUME Inv, Next
  PROVE  FlushInv'
<1> DEFINE Pcs == {"idle", "call", "wait", "check", "flag", "stop", "notify", "deinit"}
<1>1. FlushInv /\ pc \in [Threads -> Pcs] /\ Len(req) \in Nat
  BY DEF Inv, FlushInv, ListInvs, ListsInv
<1>2. CASE OrchestrateRequest
  BY <1>1, <1>2 DEF OrchestrateRequest, FlushInv, Threads, Alive, NothingPending,
     NothingComes, lists, backend, history
<1>3. CASE TakeRequest \/ RefuseRequest
  <2>1. Alive /\ Alive' /\ mState' # "DEINIT" /\ mState' \in {"CONFIGURED", "STARTED"}
    BY <1>3 DEF TakeRequest, RefuseRequest, TakesRequests, Alive
  <2>2. pc' \in [Threads -> Pcs] /\ pc'["request"] \in {"idle", "call", "wait"}
        /\ pc'["flush"] = pc["flush"] /\ UNCHANGED <<mFlush, restart, owed>>
    BY <1>1, <1>3 DEF TakeRequest, RefuseRequest, Return, Threads
  <2>3. Len(req') = Len(req) + 1
    BY <1>1, <1>3 DEF TakeRequest, RefuseRequest, Enlist, Inv, ListInvs, ListsInv
  <2>4. pc["flush"] = "notify" => UNCHANGED backend
    BY <1>1, <1>3, <2>1 DEF TakeRequest, RefuseRequest, FlushInv, Withheld, backend
  <2>5. pc["flush"] = "notify" => NothingComes'
    BY <1>1, <2>1, <2>4 DEF FlushInv, NothingComes, backend
  <2>6. \A t \in Threads : pc'[t] # "deinit"
    BY <1>1, <2>1, <2>2 DEF FlushInv, Threads
  <2> QED BY <1>1, <2>1, <2>2, <2>3, <2>5, <2>6 DEF FlushInv, Threads
<1>4. CASE RejectRequest
  BY <1>1, <1>4 DEF RejectRequest, TakesRequests, Return, FlushInv, Threads, Alive,
     NothingPending, NothingComes, lists, backend, history
<1>5. CASE WakeUp
  BY <1>1, <1>5 DEF WakeUp, Return, FlushInv, Threads, Alive,
     NothingPending, NothingComes, lists, backend, history
<1>6. CASE WaitTimesOut
  BY <1>1, <1>6 DEF WaitTimesOut, Return, FlushInv, Threads, Alive,
     NothingPending, NothingComes, lists, backend, history
<1>7. CASE Flush
  <2>1. /\ UNCHANGED <<mState, mFlush>> /\ UNCHANGED lists /\ owed' = Len(req)
        /\ restart' = (mState = "STARTED") /\ pc["flush"] = "idle"
        /\ pc' = [pc EXCEPT !["flush"] = IF mState = "STARTED" THEN "flag" ELSE "check"]
        /\ mState \in {"STARTED", "ERROR"}
    BY <1>7 DEF Flush
  <2>2. /\ pc' \in [Threads -> Pcs] /\ pc'["request"] = pc["request"]
        /\ pc'["flush"] = IF mState = "STARTED" THEN "flag" ELSE "check"
    BY <1>1, <2>1 DEF Threads
  <2>3. NothingPending' <=> NothingPending
    BY <2>1 DEF NothingPending, lists
  <2>4. req' = req
    BY <2>1 DEF lists
  <2>5. \A t \in Threads : pc'[t] = "deinit" => NothingPending'
    BY <1>1, <2>2, <2>3 DEF FlushInv, Threads
  <2>6. pc'["flush"] \notin {"call", "wait"} /\ owed' \in 0 .. Len(req')
        /\ (mState' = "DEINIT" => NothingPending')
    BY <1>1, <2>1, <2>2, <2>3, <2>4 DEF FlushInv
  <2>7. Alive' => /\ pc'["request"] \in {"idle", "call", "wait"} /\ pc'["flush"] = "flag"
                  /\ restart' /\ ~ mFlush'
    <3>1. Alive' => mState = "STARTED" /\ Alive
      BY <2>1 DEF Alive
    <3>2. Alive => pc["request"] \in {"idle", "call", "wait"} /\ ~ mFlush
      BY <1>1, <2>1 DEF FlushInv
    <3>3. mState = "STARTED" => restart'
      BY <2>1
    <3> QED BY <2>1, <2>2, <3>1, <3>2, <3>3
  <2> QED BY <1>1, <2>1, <2>2, <2>5, <2>6, <2>7 DEF FlushInv
<1>8. CASE ConfigureStreams
  BY <1>1, <1>8 DEF ConfigureStreams, FlushInv, Threads, Alive, threads, history
<1>9. ASSUME NEW t \in Threads, CheckError(t)
      PROVE  FlushInv'
  BY <1>1, <1>9 DEF CheckError, Return, FlushInv, Threads, Alive,
     NothingPending, NothingComes, lists, backend, history
<1>10. ASSUME NEW t \in Threads, Deinit(t)
       PROVE  FlushInv'
  BY <1>1, <1>10 DEF Deinit, Return, FlushInv, Threads, Alive,
     NothingPending, NothingComes, lists, backend
<1>11. ASSUME NEW t \in Threads, SetFlush(t)
       PROVE  FlushInv'
  BY <1>1, <1>11 DEF SetFlush, FlushInv, Threads, Alive,
     NothingPending, NothingComes, lists, backend, history
<1>12. ASSUME NEW t \in Threads, StopAllChannels(t)
       PROVE  FlushInv'
  <2>1. NothingComes'
    BY <1>12 DEF StopAllChannels, NothingComes
  <2> QED BY <1>1, <1>12, <2>1 DEF StopAllChannels, FlushInv, Threads, Alive,
             NothingPending, lists, history
<1>13. ASSUME NEW t \in Threads, FlushPending(t)
       PROVE  FlushInv'
  <2>1. NothingPending' /\ req' = req
    BY <1>13, NotifyClears DEF FlushPending, Inv, NothingPending, NotifyErrorForPendingRequests
  <2>2. UNCHANGED <<mState, restart, owed>> /\ mFlush' = FALSE
        /\ pc' = [pc EXCEPT ![t] = IF t = "flush" /\ restart THEN Return(t, plan) ELSE "deinit"]
    BY <1>13 DEF FlushPending
  <2>3. Alive => t = "flush" /\ restart
    BY <1>1, <1>13 DEF FlushPending, FlushInv, Threads
  <2>4. pc' \in [Threads -> Pcs] /\ pc'["flush"] \notin {"call", "wait"}
    BY <1>1, <2>2 DEF FlushInv, Return, Threads
  <2>5. Alive => pc'["flush"] = "idle" /\ pc'["request"] = pc["request"]
    BY <1>1, <2>2, <2>3 DEF Return, Threads
  <2>6. Alive' => /\ pc'["request"] \in {"idle", "call", "wait"} /\ pc'["flush"] = "idle"
                  /\ ~ mFlush'
    BY <1>1, <2>2, <2>5 DEF FlushInv, Alive
  <2>7. mState' \in {"CONFIGURED", "STARTED", "ERROR", "DEINIT"} /\ owed' \in 0 .. Len(req')
    BY <1>1, <2>1, <2>2 DEF FlushInv
  <2> QED BY <2>1, <2>4, <2>6, <2>7 DEF FlushInv
<1>14. CASE Callbacks
  <2>1. UNCHANGED <<mState, mFlush, pc, restart, owed, req>>
    BY <1>14 DEF Callbacks, HandleMetadata, ImageArrives, ImageToPostProc, PostProcDone,
       ReprocessInputDone, ReprocessOutputDone, HandleBuffer, threads, lists, history
  <2>2. NothingPending /\ ~ Alive => NothingPending'
    <3> SUFFICES ASSUME NothingPending, ~ Alive PROVE NothingPending'
      OBVIOUS
    <3>1. CallbacksOff
      BY <1>1 DEF FlushInv, Alive, CallbacksOff
    <3>2. \A f, s : HandleBuffer(f, s) => NothingPending'
      BY <3>1 DEF HandleBuffer, lists, NothingPending
    <3> QED BY <1>14, <3>1, <3>2 DEF Callbacks, HandleMetadata, ImageArrives, ImageToPostProc,
               PostProcDone, ReprocessInputDone, ReprocessOutputDone, lists, NothingPending
  <2>3. NothingComes => NothingComes'
    BY <1>14 DEF Callbacks, HandleMetadata, ImageArrives, ImageToPostProc, PostProcDone,
       ReprocessInputDone, ReprocessOutputDone, NothingComes
  <2>4. /\ mState' = "DEINIT" => NothingPending'
        /\ \A t \in Threads : pc'[t] = "deinit" => NothingPending'
    BY <1>1, <2>1, <2>2 DEF FlushInv, Alive, Threads
  <2>5. Alive' => (pc'["flush"] = "notify" => NothingComes')
    BY <1>1, <2>1, <2>3 DEF FlushInv, Alive
  <2> QED BY <1>1, <2>1, <2>4, <2>5 DEF FlushInv, Alive
<1>15. CASE DaemonDied
  BY <1>1, <1>15 DEF DaemonDied, FlushInv, Alive, NothingPending, lists, threads, history
<1>16. CASE PullRequest
  BY <1>1, <1>16 DEF PullRequest, FlushInv, Alive, NothingPending, NothingComes, lists,
     backend, history
<1> QED BY <1>2, <1>3, <1>4, <1>5, <1>6, <1>7, <1>8, <1>9, <1>10, <1>11, <1>12, <1>13, <1>14,
           <1>15, <1>16, Zenon DEF Next, RequestThread, HandleError, FlushSteps

\* The buffer a callback brings is owed, whichever callback it is.
LEMMA ArrivesOwed ==
  ASSUME Inv, NEW s \in Streams, ImageArrives(s)
  PROVE  /\ First(s) \in images[s] /\ First(s) \in Frames
         /\ s \in req[First(s)].streams /\ ~ IsInput(First(s)) /\ s \notin NeedsMeta
         /\ ~ CallbacksOff => s \in Owes(First(s))
<1>1. images[s] # {} /\ s \notin NeedsMeta
  BY DEF ImageArrives
<1>2. images[s] \subseteq Frames /\ Frames \subseteq Nat
  BY DEF Inv, CallbackInv, Frames
<1>3. First(s) \in images[s]
  BY <1>1, <1>2, FirstIs
<1>4. ~ CallbacksOff => Alive
  BY DEF Inv, FlushInv, Alive, CallbacksOff
<1> QED BY <1>1, <1>2, <1>3, <1>4 DEF Inv, CallbackInv

\* A picture is encoded after its result has left, and its buffer is still owed.
LEMMA PostProcOwed ==
  ASSUME Inv, NEW f \in Frames, NEW s \in Streams, PostProcDone(f, s)
  PROVE  /\ s \in req[f].streams /\ s \in NeedsMeta
         /\ ~ CallbacksOff => s \in Owes(f) /\ f \notin mPendingRequestsList /\ ~ IsInput(f)
<1>1. s \in NeedsMeta \cap req[f].streams /\ f \in DOMAIN post /\ "metadata" \in post[f]
  BY DEF PostProcDone
<1>2. ~ CallbacksOff => Alive
  BY DEF Inv, FlushInv, Alive, CallbacksOff
<1> QED BY <1>1, <1>2 DEF Inv, CallbackInv

\* The output of a reprocess job is owed until the job is done.
LEMMA OutputOwed ==
  ASSUME Inv, NEW f \in Frames, NEW s \in Streams, ReprocessOutputDone(f, s)
  PROVE  /\ s \in req[f].streams /\ IsInput(f)
         /\ ~ CallbacksOff => s \in Owes(f)
<1>1. s \in req[f].streams /\ f \in DOMAIN reproc
  BY DEF ReprocessOutputDone
<1>2. ~ CallbacksOff => Alive
  BY DEF Inv, FlushInv, Alive, CallbacksOff
<1> QED BY <1>1, <1>2 DEF Inv, CallbackInv

\* A request the framework makes is of the requests it may make.
LEMMA HeadIsRequest ==
  ASSUME PlanInv, pc["request"] = "call"
  PROVE  /\ Head(plan) \in Request /\ Head(plan) = plan[1] /\ plan # <<>>
         /\ [Head(plan) EXCEPT !.refused = TRUE] \in Request
         /\ [Head(plan) EXCEPT !.refused = TRUE].kind = Head(plan).kind
<1>1. plan \in Seq(Request) /\ plan # <<>>
  BY DEF PlanInv
<1>2. Head(plan) \in Request /\ Head(plan) = plan[1]
  BY <1>1
<1> QED BY <1>1, <1>2 DEF Request

\* The lists and what the framework was told.
LEMMA ListInvsKept ==
  ASSUME Inv, Next
  PROVE  ListInvs'
<1>1. ListInvs /\ PlanInv
  BY DEF Inv
<1>2. CASE UNCHANGED <<lists, answers>>
  BY <1>1, <1>2, ListsKept
<1>3. CASE TakeRequest
  <2>1. Enlist(Head(plan)) /\ Head(plan) \in Request
    BY <1>1, <1>3, HeadIsRequest DEF TakeRequest
  <2> QED BY <1>1, <2>1, EnlistKeeps
<1>4. CASE RefuseRequest
  <2>1. Enlist([Head(plan) EXCEPT !.refused = TRUE])
        /\ [Head(plan) EXCEPT !.refused = TRUE] \in Request
    BY <1>1, <1>4, HeadIsRequest DEF RefuseRequest
  <2> QED BY <1>1, <2>1, EnlistKeeps
<1>5. CASE ConfigureStreams
  <2>1. /\ mPendingRequestsList' = {} /\ mPendingBuffersMap' = <<>>
        /\ cached' = [f \in Frames |-> {}] /\ UNCHANGED <<req, answers>>
        /\ \A f \in Frames : Accepted(f) => Answered(f)
    BY <1>5 DEF ConfigureStreams
  <2>2. DOMAIN mPendingBuffersMap' = {} /\ (\A f : Owes(f)' = {}) /\ Frames' = Frames
    BY <2>1 DEF Owes, Frames
  <2>3. Len(req) \in Nat
    BY <1>1 DEF ListInvs, ListsInv
  <2>4. cached' \in Seq(SUBSET Streams) /\ Len(cached') = Len(req)
    BY <2>1, <2>3, FunIsSeq DEF Frames
  <2>5. ListsInv' /\ PendingInv'
    BY <1>1, <2>1, <2>2, <2>4 DEF ListInvs, ListsInv, PendingInv
  <2>6. ASSUME NEW f \in Frames, Accepted(f)
        PROVE  /\ answers[f].finals # <<>>
               /\ \A s \in req[f].streams : answers[f].bufs[s] = 1
    <3>1. answers[f].finals # <<>> /\ \A s \in req[f].streams : answers[f].bufs[s] > 0
      BY <2>1, <2>6 DEF Answered
    <3>2. \A s \in req[f].streams : answers[f].bufs[s] = IF s \in Owes(f) THEN 0 ELSE 1
      BY <1>1, <2>6 DEF ListInvs, AnswerInv
    <3> QED BY <3>1, <3>2
  <2>7. AnswerInv'
    BY <2>1, <2>2, <2>6 DEF AnswerInv, Accepted, Hidden
  <2> QED BY <2>5, <2>7 DEF ListInvs
<1>6. ASSUME NEW t \in Threads, FlushPending(t)
      PROVE  ListInvs'
  BY <1>1, <1>6, NotifyClears DEF FlushPending
<1>7. ASSUME NEW m \in Frames, HandleMetadata(m)
      PROVE  ListInvs'
  <2>1. CASE CallbacksOff
    BY <1>2, <1>7, <2>1 DEF HandleMetadata
  <2>2. CASE ~ CallbacksOff
    BY <1>1, <1>7, <2>2, MetadataKeeps DEF HandleMetadata
  <2> QED BY <2>1, <2>2
<1>8. ASSUME NEW s \in Streams, ImageArrives(s)
      PROVE  ListInvs'
  <2>1. HandleBuffer(First(s), s)
    BY <1>8 DEF ImageArrives
  <2> QED BY <1>1, <1>8, <2>1, ArrivesOwed, BufferKeeps
<1>9. ASSUME NEW f \in Frames, NEW s \in Streams, PostProcDone(f, s)
      PROVE  ListInvs'
  <2>1. HandleBuffer(f, s)
    BY <1>9 DEF PostProcDone
  <2> QED BY <1>1, <1>9, <2>1, PostProcOwed, BufferKeeps
<1>10. ASSUME NEW f \in Frames, NEW s \in Streams, ReprocessOutputDone(f, s)
       PROVE  ListInvs'
  <2>1. HandleBuffer(f, s)
    BY <1>10 DEF ReprocessOutputDone
  <2> QED BY <1>1, <1>10, <2>1, OutputOwed, BufferKeeps
<1>11. ASSUME NEW f \in Frames, ReprocessInputDone(f)
       PROVE  ListInvs'
  <2>1. IsInput(f) /\ UNCHANGED <<req, mPendingBuffersMap, cached>>
    BY <1>11 DEF ReprocessInputDone, Inv, CallbackInv
  <2>2. CASE f \in mPendingRequestsList
    BY <1>1, <1>11, <2>1, <2>2, InputKeeps DEF ReprocessInputDone
  <2>3. CASE f \notin mPendingRequestsList
    BY <1>2, <1>11, <2>1, <2>3 DEF ReprocessInputDone, lists
  <2> QED BY <2>2, <2>3
<1>12. CASE OrchestrateRequest \/ RejectRequest \/ WakeUp \/ WaitTimesOut \/ Flush
            \/ DaemonDied \/ PullRequest
  BY <1>2, <1>12 DEF OrchestrateRequest, RejectRequest, WakeUp, WaitTimesOut, Flush,
     DaemonDied, PullRequest
<1>13. ASSUME NEW t \in Threads, HandleError(t) \/ SetFlush(t) \/ StopAllChannels(t)
       PROVE  ListInvs'
  BY <1>2, <1>13 DEF HandleError, CheckError, Deinit, SetFlush, StopAllChannels
<1>14. ASSUME NEW s \in Streams, ImageToPostProc(s)
       PROVE  ListInvs'
  BY <1>2, <1>14 DEF ImageToPostProc
<1> QED BY <1>3, <1>4, <1>5, <1>6, <1>7, <1>8, <1>9, <1>10, <1>11, <1>12, <1>13, <1>14, Zenon
        DEF Next, RequestThread, FlushSteps, Callbacks

\* What is still to come.
LEMMA CallbackKept ==
  ASSUME Inv, Next
  PROVE  CallbackInv'
<1>1. ListInvs /\ PlanInv /\ FlushInv /\ CallbackInv
  BY DEF Inv
<1>2. mPendingRequestsList \subseteq Frames /\ Len(req) \in Nat
  BY <1>1 DEF ListInvs, ListsInv
\* Fewer frames may come when nothing is forgotten, or nothing is listened to.
<1>3. ASSUME UNCHANGED lists, UNCHANGED backend, Alive' => Alive
      PROVE  CallbackInv'
  BY <1>1, <1>3 DEF CallbackInv, lists, backend, Frames, IsInput, Owes
<1>4. ASSUME req' = req, NothingComes', images' \in [Streams -> SUBSET Frames]
      PROVE  CallbackInv'
  BY <1>4 DEF CallbackInv, NothingComes, Frames
<1>5. ASSUME req' = req, ~ Alive', UNCHANGED <<images, post>>,
             metadata' \subseteq metadata, DOMAIN reproc' \subseteq DOMAIN reproc
      PROVE  CallbackInv'
  BY <1>1, <1>5 DEF CallbackInv, Frames, IsInput
<1>6. CASE TakeRequest \/ RefuseRequest
  <2>0. PICK n : n = Len(req) + 1
    OBVIOUS
  <2>1. PICK r \in Request : /\ Enlist(r)
                             /\ UNCHANGED backend \/ Issue(r)
    BY <1>1, <1>6, HeadIsRequest DEF TakeRequest, RefuseRequest
  <2>2. /\ Frames' = Frames \cup {n} /\ n \notin Frames
        /\ \A f \in Frames : /\ req'[f] = req[f] /\ Owes(f)' = Owes(f)
                             /\ cached'[f] = cached[f]
        /\ req'[n] = r /\ Owes(n)' = r.streams /\ cached'[n] = {}
    BY <1>1, <2>0, <2>1, EnlistKeeps
  <2>3. mPendingRequestsList' = mPendingRequestsList \cup {n} /\ Alive
    BY <1>6, <2>0, <2>1 DEF Enlist, TakeRequest, RefuseRequest, TakesRequests, Alive
  <2>4. \A f \in Frames : IsInput(f)' <=> IsInput(f)
    BY <2>2 DEF IsInput
  <2>5. r.kind \in {"live", "input", "internal"} /\ r.streams \subseteq Streams
        /\ (IsInput(n)' <=> r.kind = "input")
    BY <2>2 DEF Request, IsInput
  <2>6. CASE UNCHANGED backend
    <3>1. UNCHANGED <<metadata, images, post, reproc>>
      BY <2>6 DEF backend
    <3>2. \A f \in DOMAIN post : f \in Frames /\ f # n
      BY <1>1, <2>2 DEF CallbackInv
    <3> QED BY <1>1, <2>2, <2>3, <2>4, <3>1, <3>2 DEF CallbackInv
  <2>7. CASE Issue(r)
    <3>1. /\ metadata' \subseteq metadata \cup {n} /\ post' = post
          /\ images' = [s \in Streams |->
                IF r.kind = "live" /\ s \in r.streams THEN images[s] \cup {n} ELSE images[s]]
      BY <2>0, <2>7 DEF Issue
    <3>2. /\ DOMAIN reproc' \subseteq DOMAIN reproc \cup {n}
          /\ n \in DOMAIN reproc' => r.kind = "input" \/ n \in DOMAIN reproc
      BY <2>0, <2>7 DEF Issue
    <3>3. images \in [Streams -> SUBSET Frames] /\ metadata \subseteq Frames
          /\ DOMAIN post \subseteq Frames /\ DOMAIN reproc \subseteq Frames
      BY <1>1 DEF CallbackInv
    <3>4. images' \in [Streams -> SUBSET Frames'] /\ metadata' \subseteq Frames'
          /\ DOMAIN post' \subseteq Frames' /\ DOMAIN reproc' \subseteq Frames'
      BY <2>2, <3>1, <3>2, <3>3
    <3>5. \A f \in DOMAIN reproc' : IsInput(f)' /\ Owes(f)' = req'[f].streams
      BY <1>1, <2>2, <2>3, <2>4, <2>5, <3>2, <3>3 DEF CallbackInv
    <3>6. ASSUME NEW s \in Streams, NEW f \in images'[s]
          PROVE  /\ ~ IsInput(f)' /\ s \in req'[f].streams
                 /\ s \notin NeedsMeta => s \in Owes(f)' \ cached'[f]
      <4>1. CASE f = n
        BY <2>2, <2>5, <3>1, <3>3, <4>1
      <4>2. CASE f # n
        <5>1. f \in images[s] /\ f \in Frames
          BY <3>1, <3>3, <4>2
        <5> QED BY <1>1, <2>2, <2>3, <2>4, <5>1 DEF CallbackInv
      <4> QED BY <4>1, <4>2
    <3>7. ASSUME NEW f \in DOMAIN post', "metadata" \in post'[f]
          PROVE  /\ f \notin mPendingRequestsList' /\ ~ IsInput(f)'
                 /\ req'[f].streams \cap NeedsMeta \subseteq Owes(f)'
      <4>1. f \in Frames /\ f \in DOMAIN post /\ "metadata" \in post[f]
        BY <3>1, <3>3, <3>7
      <4> QED BY <1>1, <2>2, <2>3, <2>4, <4>1 DEF CallbackInv
    <3> QED BY <3>4, <3>5, <3>6, <3>7 DEF CallbackInv
  <2> QED BY <2>1, <2>6, <2>7
<1>7. CASE ConfigureStreams
  BY <1>4, <1>7 DEF ConfigureStreams, NothingComes
<1>8. ASSUME NEW t \in Threads, StopAllChannels(t)
      PROVE  CallbackInv'
  BY <1>4, <1>8 DEF StopAllChannels, NothingComes, lists
<1>9. ASSUME NEW t \in Threads, FlushPending(t)
      PROVE  CallbackInv'
  <2>1. req' = req /\ UNCHANGED backend /\ mState' = mState
    BY <1>9 DEF FlushPending, NotifyErrorForPendingRequests
  <2>2. CASE Alive
    <3>1. NothingComes
      BY <1>1, <1>9, <2>2 DEF FlushPending, FlushInv, Threads
    <3> QED BY <1>1, <1>4, <2>1, <3>1 DEF NothingComes, backend, CallbackInv
  <2>3. CASE ~ Alive
    BY <1>5, <2>1, <2>3 DEF Alive, backend
  <2> QED BY <2>2, <2>3
<1>10. CASE DaemonDied
  BY <1>3, <1>10 DEF DaemonDied, Alive
<1>11. CASE OrchestrateRequest \/ RejectRequest \/ WakeUp \/ WaitTimesOut \/ Flush
            \/ PullRequest
  BY <1>3, <1>11 DEF OrchestrateRequest, RejectRequest, WakeUp, WaitTimesOut, Flush,
     PullRequest, Alive
<1>12. ASSUME NEW t \in Threads, HandleError(t) \/ SetFlush(t)
       PROVE  CallbackInv'
  BY <1>3, <1>12 DEF HandleError, CheckError, Deinit, SetFlush, Alive
<1>13. ASSUME NEW m \in Frames, HandleMetadata(m)
       PROVE  CallbackInv'
  <2>1. UNCHANGED <<mState, images, reproc>> /\ metadata' \subseteq metadata
    BY <1>13 DEF HandleMetadata
  <2>2. CASE CallbacksOff
    BY <1>5, <1>13, <2>1, <2>2 DEF HandleMetadata, lists, Alive, CallbacksOff
  <2>3. CASE ~ CallbacksOff
    <3>1. /\ DOMAIN mPendingBuffersMap' \subseteq DOMAIN mPendingBuffersMap
          /\ \A f \in Frames :
                /\ Owes(f)' = IF f \in Done(m) THEN Owes(f) \ cached[f] ELSE Owes(f)
                /\ cached'[f] = IF f \in Done(m) THEN {} ELSE cached[f]
      BY <1>1, <1>13, <2>3, MetadataKeeps DEF HandleMetadata
    <3>2. /\ req' = req /\ mPendingRequestsList' = mPendingRequestsList \ Done(m)
          /\ post' = IF m \in Done(m) /\ req[m].streams \cap NeedsMeta # {}
                     THEN Gather(m, "metadata") ELSE post
      BY <1>13, <2>3 DEF HandleMetadata
    <3>3. Frames' = Frames /\ \A f : IsInput(f)' <=> IsInput(f)
      BY <3>2 DEF Frames, IsInput
    <3>4. Alive
      BY <1>1, <2>3 DEF FlushInv, Alive, CallbacksOff
    <3>5. \A f \in Done(m) : f \in mPendingRequestsList /\ ~ IsInput(f) /\ f \in Frames
      BY <1>2 DEF Done
    <3>6. DOMAIN post' \subseteq Frames
      BY <1>1, <3>2 DEF Gather, CallbackInv
    <3>7. ASSUME NEW s \in Streams \ NeedsMeta, NEW f \in images[s]
          PROVE  s \in Owes(f)' \ cached'[f]
      <4>1. f \in Frames /\ s \in Owes(f) \ cached[f]
        BY <1>1, <3>4 DEF CallbackInv
      <4> QED BY <3>1, <4>1
    <3>8. ASSUME NEW f \in DOMAIN post', "metadata" \in post'[f]
          PROVE  /\ f \notin mPendingRequestsList' /\ ~ IsInput(f)
                 /\ req[f].streams \cap NeedsMeta \subseteq Owes(f)'
      <4>1. CASE f = m /\ m \in Done(m)
        <5>1. Owes(m) = req[m].streams /\ cached[m] \cap NeedsMeta = {}
          BY <1>1, <3>5, <4>1 DEF ListInvs, PendingInv
        <5> QED BY <3>1, <3>2, <3>5, <4>1, <5>1
      <4>2. CASE ~ (f = m /\ m \in Done(m))
        <5>1. f \in DOMAIN post /\ "metadata" \in post[f]
          BY <3>2, <3>8, <4>2 DEF Gather
        <5>2. /\ f \notin mPendingRequestsList /\ ~ IsInput(f) /\ f \in Frames
              /\ req[f].streams \cap NeedsMeta \subseteq Owes(f)
          BY <1>1, <3>4, <5>1 DEF CallbackInv
        <5>3. f \notin Done(m)
          BY <3>5, <5>2
        <5> QED BY <3>1, <3>2, <5>2, <5>3
      <4> QED BY <4>1, <4>2
    <3>9. \A f \in DOMAIN reproc : Owes(f)' = req[f].streams
      <4>1. \A f \in DOMAIN reproc : f \in Frames /\ IsInput(f) /\ Owes(f) = req[f].streams
        BY <1>1, <3>4 DEF CallbackInv
      <4> QED BY <3>1, <3>5, <4>1
    <3>10. /\ images \in [Streams -> SUBSET Frames] /\ metadata' \subseteq Frames
           /\ DOMAIN reproc \subseteq Frames /\ \A f \in DOMAIN reproc : IsInput(f)
           /\ \A s \in Streams : \A f \in images[s] : ~ IsInput(f) /\ s \in req[f].streams
      BY <1>1, <2>1 DEF CallbackInv
    <3> QED BY <2>1, <3>2, <3>3, <3>6, <3>7, <3>8, <3>9, <3>10 DEF CallbackInv
  <2> QED BY <2>2, <2>3
\* A buffer that came back is owed no more, and no other callback brings it.
<1>14. ASSUME NEW f \in Frames, NEW s \in req[f].streams, HandleBuffer(f, s),
              ~ CallbacksOff => /\ s \in Owes(f)
                                /\ f \in mPendingRequestsList /\ ~ IsInput(f) => s \notin NeedsMeta,
              UNCHANGED <<mState, metadata>>,
              images' \in [Streams -> SUBSET Frames],
              \A x \in Streams : images'[x] \subseteq images[x],
              s \notin NeedsMeta => IsInput(f) \/ f \notin images'[s],
              DOMAIN post' \subseteq DOMAIN post, DOMAIN reproc' \subseteq DOMAIN reproc,
              \A g \in DOMAIN post' : post'[g] = post[g],
              f \in DOMAIN post' => s \notin NeedsMeta \/ IsInput(f),
              f \in DOMAIN reproc' => ~ IsInput(f)
       PROVE  CallbackInv'
  <2>1. /\ req' = req /\ mPendingRequestsList' \subseteq mPendingRequestsList
        /\ \A g \in Frames : \A x : x # s \/ g # f =>
               /\ x \in Owes(g)' <=> x \in Owes(g)
               /\ x \in cached'[g] <=> x \in cached[g]
    BY <1>1, <1>14, BufferKeeps
  <2>2. Frames' = Frames /\ (Alive' <=> Alive) /\ \A g : IsInput(g)' <=> IsInput(g)
    BY <1>14, <2>1 DEF Frames, IsInput, Alive
  <2>3. ASSUME Alive, NEW x \in Streams \ NeedsMeta, NEW g \in images'[x]
        PROVE  x \in Owes(g)' \ cached'[g]
    <3>1. g \in Frames /\ x \in Owes(g) \ cached[g] /\ ~ IsInput(g) /\ g \in images[x]
      BY <1>1, <1>14, <2>3 DEF CallbackInv
    <3>2. x # s \/ g # f
      BY <1>14, <2>3, <3>1
    <3> QED BY <2>1, <3>1, <3>2
  <2>4. ASSUME Alive, NEW g \in DOMAIN post', "metadata" \in post'[g]
        PROVE  /\ g \notin mPendingRequestsList' /\ ~ IsInput(g)
               /\ req[g].streams \cap NeedsMeta \subseteq Owes(g)'
    <3>1. /\ g \in Frames /\ g \notin mPendingRequestsList /\ ~ IsInput(g)
          /\ req[g].streams \cap NeedsMeta \subseteq Owes(g)
      BY <1>1, <1>14, <2>4 DEF CallbackInv
    <3>2. \A x \in NeedsMeta : x # s \/ g # f
      BY <1>14, <3>1
    <3> QED BY <2>1, <3>1, <3>2
  <2>5. ASSUME Alive, NEW g \in DOMAIN reproc'
        PROVE  Owes(g)' = req[g].streams
    <3>1. g \in Frames /\ IsInput(g) /\ Owes(g) = req[g].streams /\ g # f
      BY <1>1, <1>14, <2>5 DEF CallbackInv
    <3> QED BY <2>1, <3>1
  <2>6. /\ metadata' \subseteq Frames /\ DOMAIN post' \subseteq Frames
        /\ DOMAIN reproc' \subseteq Frames /\ (\A g \in DOMAIN reproc' : IsInput(g))
        /\ \A x \in Streams : \A g \in images'[x] : ~ IsInput(g) /\ x \in req[g].streams
    BY <1>1, <1>14 DEF CallbackInv
  <2> QED BY <1>14, <2>1, <2>2, <2>3, <2>4, <2>5, <2>6 DEF CallbackInv
<1>15. ASSUME NEW s \in Streams, ImageArrives(s)
       PROVE  CallbackInv'
  <2>1. /\ HandleBuffer(First(s), s) /\ UNCHANGED <<mState, metadata, post, reproc>>
        /\ images' = [images EXCEPT ![s] = @ \ {First(s)}]
    BY <1>15 DEF ImageArrives
  <2>2. /\ First(s) \in Frames /\ s \in req[First(s)].streams /\ ~ IsInput(First(s))
        /\ s \notin NeedsMeta /\ (~ CallbacksOff => s \in Owes(First(s)))
    BY <1>15, ArrivesOwed
  <2>3. images \in [Streams -> SUBSET Frames] /\ \A f \in DOMAIN reproc : IsInput(f)
    BY <1>1 DEF CallbackInv
  <2>4. images' \in [Streams -> SUBSET Frames] /\ First(s) \notin images'[s]
        /\ \A x \in Streams : images'[x] \subseteq images[x]
    BY <2>1, <2>3
  <2> QED BY <1>14, <2>1, <2>2, <2>3, <2>4
<1>16. ASSUME NEW s \in Streams, ImageToPostProc(s)
       PROVE  CallbackInv'
  <2> DEFINE f == First(s)
  <2>1. /\ UNCHANGED lists /\ UNCHANGED <<mState, metadata, reproc>>
        /\ images' = [images EXCEPT ![s] = @ \ {f}] /\ post' = Gather(f, "image")
        /\ images[s] # {}
    BY <1>16 DEF ImageToPostProc
  <2>2. images \in [Streams -> SUBSET Frames] /\ DOMAIN post \subseteq Frames
    BY <1>1 DEF CallbackInv
  <2>3. f \in images[s] /\ f \in Frames
    BY <2>1, <2>2, FirstIs DEF Frames
  <2>4. DOMAIN post' \subseteq Frames
        /\ \A g \in DOMAIN post' : "metadata" \in post'[g] => g \in DOMAIN post /\ "metadata" \in post[g]
    BY <2>1, <2>2, <2>3 DEF Gather
  <2>5. images' \in [Streams -> SUBSET Frames] /\ \A x \in Streams : images'[x] \subseteq images[x]
    BY <2>1, <2>2
  <2>6. /\ Frames' = Frames /\ (Alive' <=> Alive) /\ UNCHANGED <<req, mPendingRequestsList, cached>>
        /\ \A g : Owes(g)' = Owes(g)
        /\ \A g : IsInput(g)' <=> IsInput(g)
    BY <2>1 DEF Frames, Alive, IsInput, Owes, lists
  <2> QED BY <1>1, <2>1, <2>4, <2>5, <2>6 DEF CallbackInv
<1>17. ASSUME NEW f \in Frames, NEW s \in Streams, PostProcDone(f, s)
       PROVE  CallbackInv'
  <2>1. /\ HandleBuffer(f, s) /\ UNCHANGED <<mState, metadata, images, reproc>>
        /\ post' = [g \in DOMAIN post \ {f} |-> post[g]] /\ f \in DOMAIN post
        /\ "metadata" \in post[f]
    BY <1>17 DEF PostProcDone
  <2>2. /\ s \in req[f].streams /\ s \in NeedsMeta
        /\ ~ CallbacksOff => s \in Owes(f) /\ f \notin mPendingRequestsList /\ ~ IsInput(f)
    BY <1>17, PostProcOwed
  <2>3. images \in [Streams -> SUBSET Frames]
    BY <1>1 DEF CallbackInv
  <2>4. CASE ~ CallbacksOff
    BY <1>14, <2>1, <2>2, <2>3, <2>4
  <2>5. CASE CallbacksOff
    BY <1>1, <2>1, <2>5 DEF HandleBuffer, lists, CallbackInv, Alive, CallbacksOff, Frames, IsInput
  <2> QED BY <2>4, <2>5
<1>18. ASSUME NEW f \in Frames, NEW s \in Streams, ReprocessOutputDone(f, s)
       PROVE  CallbackInv'
  <2>1. /\ HandleBuffer(f, s) /\ UNCHANGED <<mState, metadata, images, post>>
        /\ reproc' = [g \in DOMAIN reproc \ {f} |-> reproc[g]]
    BY <1>18 DEF ReprocessOutputDone
  <2>2. s \in req[f].streams /\ IsInput(f) /\ (~ CallbacksOff => s \in Owes(f))
    BY <1>18, OutputOwed
  <2>3. images \in [Streams -> SUBSET Frames]
    BY <1>1 DEF CallbackInv
  <2> QED BY <1>14, <2>1, <2>2, <2>3
<1>19. ASSUME NEW f \in Frames, ReprocessInputDone(f)
       PROVE  CallbackInv'
  <2>1. /\ UNCHANGED <<mState, metadata, images, post, req, mPendingBuffersMap, cached>>
        /\ DOMAIN reproc' = DOMAIN reproc
        /\ mPendingRequestsList' \subseteq mPendingRequestsList
    BY <1>19 DEF ReprocessInputDone
  <2>2. /\ Frames' = Frames /\ (Alive' <=> Alive)
        /\ \A g : Owes(g)' = Owes(g)
        /\ \A g : IsInput(g)' <=> IsInput(g)
    BY <2>1 DEF Frames, Alive, IsInput, Owes
  <2> QED BY <1>1, <2>1, <2>2 DEF CallbackInv
<1> QED BY <1>6, <1>7, <1>8, <1>9, <1>10, <1>11, <1>12, <1>13, <1>15, <1>16, <1>17, <1>18, <1>19, Zenon
        DEF Next, RequestThread, FlushSteps, Callbacks
\* At first there is nothing.
LEMMA InvInit ==
  ASSUME Init
  PROVE  Inv
<1>1. /\ req = <<>> /\ answers = <<>> /\ cached = <<>> /\ Len(req) = 0 /\ Frames = {}
      /\ mPendingRequestsList = {} /\ mPendingBuffersMap = <<>> /\ plan = <<>>
      /\ metadata = {} /\ images = [s \in Streams |-> {}]
      /\ DOMAIN post = {} /\ DOMAIN reproc = {} /\ DOMAIN mPendingBuffersMap = {}
  BY DEF Init, Frames
<1>2. ListsInv /\ PendingInv /\ AnswerInv
  BY <1>1 DEF ListsInv, PendingInv, AnswerInv
<1>3. pc["request"] = "idle" /\ pc["flush"] = "idle" /\ mState = "CONFIGURED" /\ ~ mFlush
      /\ pc \in [Threads -> {"idle"}] /\ owed = 0
  BY DEF Init, Threads
<1>4. PlanInv
  BY <1>1, <1>3 DEF PlanInv
<1>5. FlushInv
  BY <1>1, <1>3 DEF FlushInv, Threads, Alive
<1>6. CallbackInv
  BY <1>1 DEF CallbackInv
<1> QED BY <1>2, <1>4, <1>5, <1>6 DEF Inv, ListInvs

\* The invariant holds in every state.
LEMMA InvKept ==
  ASSUME Inv, [Next]_vars
  PROVE  Inv'
<1>1. CASE Next
  BY <1>1, ListInvsKept, PlanKept, FlushKept, CallbackKept DEF Inv
<1>2. CASE UNCHANGED vars
  <2>1. /\ UNCHANGED <<mState, mFlush, plan, pc, restart, owed, metadata, images, post, reproc>>
        /\ UNCHANGED <<lists, answers>>
    BY <1>2 DEF vars, backend, threads, history
  <2>2. UNCHANGED <<req, mPendingRequestsList, mPendingBuffersMap, cached>>
    BY <2>1 DEF lists
  <2>3. ListInvs'
    BY <2>1, ListsKept DEF Inv
  <2>4. PlanInv'
    BY <2>1 DEF Inv, PlanInv
  <2>5. FlushInv'
    BY <2>1, <2>2 DEF Inv, FlushInv, Alive, NothingPending, NothingComes
  <2>6. CallbackInv'
    BY <2>1, <2>2 DEF Inv, CallbackInv, Alive, Frames, IsInput, Owes
  <2> QED BY <2>3, <2>4, <2>5, <2>6 DEF Inv
<1> QED BY <1>1, <1>2

-----------------------------------------------------------------------------
(* What follows.                                                             *)

\* A device that is given up leaves no request and no buffer unanswered.
THEOREM DeinitIsAnswered == Spec => []DeinitAnswered
<1>1. Inv => DeinitAnswered
  BY DEF Inv, FlushInv, NothingPending, DeinitAnswered
<1> QED BY <1>1, InvInit, InvKept, PTL DEF Spec

\* Live requests are answered from the oldest on, whatever metadata is missed,
\* whoever flushes and wherever reprocess requests come between.
THEOREM LiveAnsweredInOrder == Spec => []LiveInOrder
<1>1. ASSUME Inv PROVE LiveInOrder
  <2> SUFFICES ASSUME NEW f \in Frames, NEW g \in Frames, f < g, Accepted(f), Accepted(g),
                      ~ IsInput(f), ~ IsInput(g), answers[f].finals = <<>>
      PROVE  answers[g].finals = <<>>
    BY DEF LiveInOrder
  <2>1. f \in mPendingRequestsList
    BY <1>1 DEF Inv, ListInvs, AnswerInv
  <2>2. g \in mPendingRequestsList
    BY <1>1, <2>1 DEF Inv, ListInvs, PendingInv
  <2> QED BY <1>1, <2>2 DEF Inv, ListInvs, AnswerInv
<1> QED BY <1>1, InvInit, InvKept, PTL DEF Spec

\* flush returns only when it has answered every request taken before it, with
\* a device that lives on, one that dies meanwhile and one that is dead.
THEOREM FlushHasAnswered == Spec => FlushAnswersAll
<1>1. ASSUME Inv, Next, Inv', FlushReturns
      PROVE  \A f \in 1 .. owed : Accepted(f) => Answered(f)'
  <2>1. pc["flush"] # "idle" /\ pc'["flush"] = "idle" /\ DOMAIN pc = Threads
    BY <1>1 DEF FlushReturns, Inv, FlushInv
  <2>2. \/ CheckError("flush") \/ Deinit("flush") \/ FlushPending("flush")
    <3>1. ASSUME pc' = pc \/ \E v : pc' = [pc EXCEPT !["request"] = v]
          PROVE  FALSE
      BY <2>1, <3>1 DEF Threads
    <3>2. ~ (OrchestrateRequest \/ RequestThread \/ WaitTimesOut)
      BY <3>1 DEF RequestThread, OrchestrateRequest, TakeRequest, RefuseRequest,
         RejectRequest, WakeUp, WaitTimesOut
    <3>3. ~ (Flush \/ ConfigureStreams \/ DaemonDied \/ PullRequest)
      BY <2>1, <3>1 DEF Flush, ConfigureStreams, DaemonDied, PullRequest, threads
    <3>4. ~ Callbacks
      BY <3>1 DEF Callbacks, HandleMetadata, ImageArrives, ImageToPostProc, PostProcDone,
         ReprocessInputDone, ReprocessOutputDone, threads
    <3>5. \A t \in Threads : ~ SetFlush(t) /\ ~ StopAllChannels(t)
      BY <2>1 DEF SetFlush, StopAllChannels, Threads
    <3>6. ~ CheckError("request") /\ ~ Deinit("request") /\ ~ FlushPending("request")
      BY <3>1 DEF CheckError, Deinit, FlushPending
    <3> QED BY <1>1, <3>2, <3>3, <3>4, <3>5, <3>6, Zenon
            DEF Next, HandleError, FlushSteps, Threads
  <2>3. NothingPending' /\ req' = req
    <3>1. CASE CheckError("flush")
      <4>1. pc["flush"] = "check" /\ mState # "ERROR" /\ mState' = mState /\ req' = req
        BY <2>1, <3>1 DEF CheckError, Threads, lists
      <4>2. mState = "DEINIT"
        BY <1>1, <4>1 DEF Inv, FlushInv, Alive
      <4> QED BY <1>1, <4>1, <4>2 DEF Inv, FlushInv
    <3>2. CASE Deinit("flush")
      <4>1. mState' = "DEINIT" /\ req' = req
        BY <3>2 DEF Deinit, lists
      <4> QED BY <1>1, <4>1 DEF Inv, FlushInv
    <3>3. CASE FlushPending("flush")
      BY <1>1, <3>3, NotifyClears
         DEF FlushPending, NotifyErrorForPendingRequests, Inv, NothingPending
    <3> QED BY <2>2, <3>1, <3>2, <3>3
  <2>4. \A f \in Frames' : Accepted(f)' => Answered(f)'
    <3>1. mPendingRequestsList' = {} /\ \A f : Owes(f)' = {}
      BY <2>3 DEF NothingPending, Owes
    <3> QED BY <1>1, <3>1 DEF Inv, ListInvs, AnswerInv, Answered
  <2>5. 1 .. owed \subseteq Frames /\ Frames' = Frames /\ \A f : Accepted(f)' <=> Accepted(f)
    BY <1>1, <2>3 DEF Inv, FlushInv, ListInvs, ListsInv, Frames, Accepted, Hidden
  <2> QED BY <2>4, <2>5
<1>2. ASSUME Inv, [Next]_vars
      PROVE  [FlushReturns => \A f \in 1 .. owed : Accepted(f) => Answered(f)']_vars
  BY <1>1, <1>2, InvKept
<1> QED BY <1>2, InvInit, InvKept, PTL DEF Spec, FlushAnswersAll
-----------------------------------------------------------------------------
(* Exactly one answer, when live and reprocess requests are never pending    *)
(* together.                                                                 *)

\* A plan is all reprocess requests or has none, and what is pending with it
\* is of its kind; a live request is removed with all older ones.
LEMMA ApartKept ==
  ASSUME Inv, ApartInv, ~ Mixed, Next
  PROVE  ApartInv'
<1>1. ListInvs /\ PlanInv /\ mPendingRequestsList \subseteq Frames /\ Len(req) \in Nat
      /\ DOMAIN mPendingBuffersMap \subseteq Frames
  BY DEF Inv, ListInvs, ListsInv
<1>2. ASSUME UNCHANGED lists, UNCHANGED plan
      PROVE  ApartInv'
  BY <1>2 DEF ApartInv, lists, IsInput
<1>3. ASSUME mPendingRequestsList' = {}, UNCHANGED plan
      PROVE  ApartInv'
  BY <1>3 DEF ApartInv
<1>4. ASSUME pc["request"] = "call"
      PROVE  /\ plan # <<>> /\ Head(plan) = plan[1]
             /\ Tail(plan) # <<>> => /\ plan[1].kind # "input" /\ Tail(plan)[1].kind # "input"
                                     /\ \A f \in mPendingRequestsList : ~ IsInput(f)
  <2>1. plan \in Seq(Request) /\ plan # <<>>
        /\ \A i \in 1 .. Len(plan) : plan[i].kind = "input" => Len(plan) = 1
    BY <1>1, <1>4 DEF PlanInv
  <2>2. Len(plan) \in Nat /\ Len(plan) >= 1 /\ Head(plan) = plan[1]
    BY <2>1
  <2>3. Tail(plan) # <<>> => Len(plan) >= 2 /\ Tail(plan)[1] = plan[2]
    BY <2>1, <2>2
  <2>4. Tail(plan) # <<>> => plan[1].kind # "input" /\ Tail(plan)[1].kind # "input"
    BY <2>1, <2>2, <2>3
  <2> QED BY <2>1, <2>2, <2>4 DEF ApartInv
<1>5. CASE OrchestrateRequest
  <2>1. PICK p \in Plans : /\ plan' = p
                           /\ IF p[1].kind = "input" THEN mPendingRequestsList = {}
                              ELSE \A f \in mPendingRequestsList : ~ IsInput(f)
    BY <1>5 DEF OrchestrateRequest
  <2>2. UNCHANGED <<req, mPendingRequestsList, mPendingBuffersMap>>
    BY <1>5 DEF OrchestrateRequest, lists
  <2> QED BY <2>1, <2>2 DEF ApartInv, IsInput
<1>6. CASE TakeRequest \/ RefuseRequest
  <2>0. PICK n : n = Len(req) + 1
    OBVIOUS
  <2>1. PICK r \in Request : /\ Enlist(r) /\ r.kind = Head(plan).kind
                             /\ plan' = Tail(plan) /\ pc["request"] = "call"
    BY <1>1, <1>6, HeadIsRequest DEF TakeRequest, RefuseRequest
  <2>2. /\ \A f \in Frames : f # n /\ req'[f] = req[f] /\ f < n
        /\ req'[n] = r
    BY <1>1, <2>0, <2>1, EnlistKeeps DEF Frames
  <2>3. mPendingRequestsList' = mPendingRequestsList \cup {n}
        /\ DOMAIN mPendingBuffersMap' = DOMAIN mPendingBuffersMap \cup {n}
    BY <2>0, <2>1 DEF Enlist
  <2>4. (IsInput(n)' <=> plan[1].kind = "input")
        /\ \A f \in mPendingRequestsList : f \in Frames /\ (IsInput(f)' <=> IsInput(f))
    BY <1>1, <1>4, <2>1, <2>2 DEF IsInput
  <2>5. IF plan[1].kind = "input" THEN mPendingRequestsList = {}
        ELSE \A f \in mPendingRequestsList : ~ IsInput(f)
    BY <1>4, <2>1 DEF ApartInv
  <2>6. \A f \in mPendingRequestsList' : IsInput(f)' => mPendingRequestsList' = {f}
    BY <2>3, <2>4, <2>5
  <2>7. plan' # <<>> => IF plan'[1].kind = "input" THEN mPendingRequestsList' = {}
                        ELSE \A f \in mPendingRequestsList' : ~ IsInput(f)'
    BY <1>4, <2>1, <2>3, <2>4
  <2>8. \A f \in mPendingRequestsList', g \in DOMAIN mPendingBuffersMap' :
           g \in mPendingRequestsList' \/ g < f
    BY <1>1, <2>2, <2>3 DEF ApartInv
  <2> QED BY <2>6, <2>7, <2>8 DEF ApartInv
<1>7. CASE RejectRequest
  <2>1. pc["request"] = "call" /\ plan' = Tail(plan)
        /\ UNCHANGED <<req, mPendingRequestsList, mPendingBuffersMap>>
    BY <1>7 DEF RejectRequest, lists
  <2> QED BY <1>4, <2>1 DEF ApartInv, IsInput
<1>8. ASSUME NEW m \in Frames, HandleMetadata(m)
      PROVE  ApartInv'
  <2>1. CASE CallbacksOff
    BY <1>2, <1>8, <2>1 DEF HandleMetadata
  <2>2. CASE ~ CallbacksOff
    <3>1. /\ mPendingRequestsList' = mPendingRequestsList \ Done(m) /\ req' = req /\ plan' = plan
          /\ mPendingBuffersMap' = RemoveBufs(Done(m), cached)
      BY <1>8, <2>2 DEF HandleMetadata
    <3>2. DOMAIN mPendingBuffersMap' \subseteq DOMAIN mPendingBuffersMap
      BY <3>1, RemoveBufsIs
    <3>3. ASSUME NEW f \in mPendingRequestsList', NEW g \in DOMAIN mPendingBuffersMap'
          PROVE  g \in mPendingRequestsList' \/ g < f
      <4>1. CASE g \in Done(m)
        <5>1. g \in mPendingRequestsList /\ g <= m /\ ~ IsInput(g)
          BY <4>1 DEF Done
        <5>2. f \in mPendingRequestsList /\ f \notin Done(m)
          BY <3>1
        <5>3. ~ IsInput(f)
          BY <5>1, <5>2 DEF ApartInv
        <5> QED BY <1>1, <1>8, <5>1, <5>2, <5>3 DEF Done, Frames
      <4>2. CASE g \notin Done(m)
        BY <3>1, <3>2, <4>2 DEF ApartInv
      <4> QED BY <4>1, <4>2
    <3> QED BY <3>1, <3>3 DEF ApartInv, IsInput
  <2> QED BY <2>1, <2>2
\* Only a reprocess request is removed alone, and it was alone.
<1>9. ASSUME NEW f, NEW s, HandleBuffer(f, s), UNCHANGED plan
      PROVE  ApartInv'
  <2>1. CASE CallbacksOff
    BY <1>2, <1>9, <2>1 DEF HandleBuffer
  <2>2. CASE ~ CallbacksOff /\ f \in mPendingRequestsList /\ IsInput(f)
    BY <1>3, <1>9, <2>2 DEF HandleBuffer, ApartInv
  <2>3. CASE ~ CallbacksOff /\ f \notin mPendingRequestsList
    <3>1. /\ mPendingRequestsList' = mPendingRequestsList /\ req' = req
          /\ mPendingBuffersMap' = RemoveBufs({f}, [g \in {f} |-> {s}])
      BY <1>9, <2>3 DEF HandleBuffer
    <3>2. DOMAIN mPendingBuffersMap' \subseteq DOMAIN mPendingBuffersMap
      BY <3>1, RemoveBufsIs
    <3> QED BY <1>9, <3>1, <3>2 DEF ApartInv, IsInput
  <2>4. CASE ~ CallbacksOff /\ f \in mPendingRequestsList /\ ~ IsInput(f)
    BY <1>9, <2>4 DEF HandleBuffer, ApartInv, IsInput
  <2> QED BY <2>1, <2>2, <2>3, <2>4
<1>10. ASSUME NEW f \in Frames, ReprocessInputDone(f)
       PROVE  ApartInv'
  <2>1. IsInput(f) /\ UNCHANGED <<req, mPendingBuffersMap, plan>>
    BY <1>10 DEF ReprocessInputDone, Inv, CallbackInv, threads
  <2>2. CASE f \in mPendingRequestsList
    BY <1>3, <1>10, <2>1, <2>2 DEF ReprocessInputDone, ApartInv
  <2>3. CASE f \notin mPendingRequestsList
    BY <1>10, <2>1, <2>3 DEF ReprocessInputDone, ApartInv, IsInput
  <2> QED BY <2>2, <2>3
<1>11. ASSUME NEW f, NEW s, \/ ImageArrives(s) \/ PostProcDone(f, s) \/ ReprocessOutputDone(f, s)
       PROVE  ApartInv'
  BY <1>9, <1>11 DEF ImageArrives, PostProcDone, ReprocessOutputDone, threads
<1>12. ASSUME NEW t \in Threads, FlushPending(t)
       PROVE  ApartInv'
  BY <1>1, <1>3, <1>12, NotifyClears DEF FlushPending
<1>13. CASE ConfigureStreams
  BY <1>3, <1>13 DEF ConfigureStreams, threads
<1>14. CASE WakeUp \/ WaitTimesOut \/ Flush \/ DaemonDied \/ PullRequest
  BY <1>2, <1>14 DEF WakeUp, WaitTimesOut, Flush, DaemonDied, PullRequest, threads
<1>15. ASSUME NEW t \in Threads, HandleError(t) \/ SetFlush(t) \/ StopAllChannels(t)
       PROVE  ApartInv'
  BY <1>2, <1>15 DEF HandleError, CheckError, Deinit, SetFlush, StopAllChannels
<1>16. ASSUME NEW s \in Streams, ImageToPostProc(s)
       PROVE  ApartInv'
  BY <1>2, <1>16 DEF ImageToPostProc, threads
<1> QED BY <1>5, <1>6, <1>7, <1>8, <1>10, <1>11, <1>12, <1>13, <1>14, <1>15, <1>16, Zenon
        DEF Next, RequestThread, FlushSteps, Callbacks

\* Whoever answers a request finds it pending, and so not yet answered.
LEMMA OnceKept ==
  ASSUME Inv, ApartInv, OnceInv, Next
  PROVE  OnceInv'
<1>1. /\ Len(req) \in Nat /\ \A g \in Frames : req[g] \in Request /\ answers[g] \in Answer
      /\ ListInvs /\ PlanInv
  BY ElementsHaveTypes DEF Inv, ListInvs
<1>2. ASSUME req' = req,
             \A f \in Frames : Accepted(f) =>
                \/ /\ answers'[f].finals = answers[f].finals
                   /\ answers'[f].shutter = answers[f].shutter
                \/ /\ f \in mPendingRequestsList
                   /\ \/ \E v \in {"error_result", "error_request"} :
                            answers'[f].finals = Final(answers[f], v).finals
                            /\ answers'[f].shutter = answers[f].shutter
                      \/ /\ answers'[f].finals = Final(Shutter(answers[f]), "result").finals
                         /\ answers'[f].shutter = answers[f].shutter + 1
      PROVE  OnceInv'
  <2> SUFFICES ASSUME NEW f \in Frames, Accepted(f)
      PROVE  /\ answers'[f].finals \in {<<>>} \cup { <<v>> : v \in Verdict }
             /\ answers'[f].shutter = IF answers'[f].finals = <<"result">> THEN 1 ELSE 0
    BY <1>2 DEF OnceInv, Frames, Accepted, Hidden
  <2>1. /\ answers[f].finals \in {<<>>} \cup { <<v>> : v \in Verdict }
        /\ answers[f].shutter = IF answers[f].finals = <<"result">> THEN 1 ELSE 0
        /\ answers[f] \in Answer
    BY <1>1 DEF OnceInv
  <2>2. CASE answers'[f].finals = answers[f].finals /\ answers'[f].shutter = answers[f].shutter
    BY <2>1, <2>2
  <2>3. ASSUME f \in mPendingRequestsList
        PROVE  answers[f].finals = <<>> /\ answers[f].shutter = 0
    <3>1. answers[f].finals = <<>>
      BY <1>1, <2>3 DEF ListInvs, AnswerInv
    <3>2. <<>> # <<"result">>
      OBVIOUS
    <3> QED BY <2>1, <3>1, <3>2
  <2>4. ASSUME f \in mPendingRequestsList, NEW v \in {"error_result", "error_request"},
               answers'[f].finals = Final(answers[f], v).finals,
               answers'[f].shutter = answers[f].shutter
        PROVE  answers'[f].finals = <<v>> /\ answers'[f].shutter = 0 /\ <<v>> # <<"result">>
    BY <2>1, <2>3, <2>4, FinalIs DEF Verdict
  <2>5. ASSUME f \in mPendingRequestsList,
               answers'[f].finals = Final(Shutter(answers[f]), "result").finals,
               answers'[f].shutter = answers[f].shutter + 1
        PROVE  answers'[f].finals = <<"result">> /\ answers'[f].shutter = 1
    BY <2>1, <2>3, <2>5, ShutterIs, FinalIs DEF Verdict
  <2> QED BY <1>2, <2>2, <2>4, <2>5 DEF Verdict
<1>3. ASSUME UNCHANGED <<req, answers>>
      PROVE  OnceInv'
  BY <1>2, <1>3
<1>4. CASE TakeRequest \/ RefuseRequest
  <2>0. PICK n : n = Len(req) + 1
    OBVIOUS
  <2>1. PICK r \in Request : Enlist(r)
    BY <1>1, <1>4, HeadIsRequest DEF TakeRequest, RefuseRequest
  <2>2. /\ Frames' = Frames \cup {n}
        /\ \A f \in Frames : req'[f] = req[f] /\ answers'[f] = answers[f]
        /\ answers'[n] = NoAnswer
    BY <1>1, <2>0, <2>1, EnlistKeeps
  <2>3. NoAnswer.finals = <<>> /\ NoAnswer.shutter = 0 /\ <<>> # <<"result">>
    BY DEF NoAnswer
  <2> QED BY <2>2, <2>3 DEF OnceInv, Accepted, Hidden
<1>5. ASSUME NEW t \in Threads, FlushPending(t)
      PROVE  OnceInv'
  <2>1. req' = req /\ NotifyErrorForPendingRequests
    BY <1>5 DEF FlushPending, NotifyErrorForPendingRequests
  <2>2. \A f \in YoungEntries : f \in mPendingRequestsList
    BY <1>1 DEF YoungEntries, ApartInv, ListInvs, ListsInv, Frames
  <2>3. ASSUME NEW f \in Frames, Accepted(f)
        PROVE  \/ /\ answers'[f].finals = answers[f].finals
                  /\ answers'[f].shutter = answers[f].shutter
               \/ /\ f \in mPendingRequestsList
                  /\ answers'[f].finals = Final(answers[f], "error_request").finals
                  /\ answers'[f].shutter = answers[f].shutter
    <3>1. answers'[f] = IF f \notin DOMAIN mPendingBuffersMap \/ Hidden(f) THEN answers[f]
              ELSE IF f \in YoungEntries
              THEN Returned(Final(answers[f], "error_request"), mPendingBuffersMap[f])
              ELSE Returned(answers[f], mPendingBuffersMap[f])
      BY <2>1 DEF NotifyErrorForPendingRequests, OwedEntries
    <3>2. /\ answers[f] \in Answer /\ Final(answers[f], "error_request") \in Answer
          /\ Final(answers[f], "error_request").shutter = answers[f].shutter
      BY <1>1, FinalIs DEF Verdict
    <3> QED BY <2>2, <3>1, <3>2, ReturnedIs
  <2> QED BY <1>2, <2>1, <2>3
<1>6. ASSUME NEW m \in Frames, HandleMetadata(m)
      PROVE  OnceInv'
  <2>1. CASE CallbacksOff
    BY <1>3, <1>6, <2>1 DEF HandleMetadata, lists
  <2>2. CASE ~ CallbacksOff
    <3>1. /\ req' = req
          /\ answers' = [f \in Frames |->
                IF f \notin Done(m) \/ Hidden(f) THEN answers[f]
                ELSE Returned(IF f = m THEN Final(Shutter(answers[f]), "result")
                              ELSE Final(answers[f], "error_result"), cached[f])]
      BY <1>6, <2>2 DEF HandleMetadata
    <3>2. ASSUME NEW f \in Frames
          PROVE  \/ /\ answers'[f].finals = answers[f].finals
                    /\ answers'[f].shutter = answers[f].shutter
                 \/ /\ f \in mPendingRequestsList
                    /\ \/ /\ answers'[f].finals = Final(answers[f], "error_result").finals
                          /\ answers'[f].shutter = answers[f].shutter
                       \/ /\ answers'[f].finals = Final(Shutter(answers[f]), "result").finals
                          /\ answers'[f].shutter = answers[f].shutter + 1
      <4>1. /\ Final(answers[f], "error_result") \in Answer
            /\ Final(answers[f], "error_result").shutter = answers[f].shutter
            /\ Shutter(answers[f]) \in Answer
        BY <1>1, FinalIs, ShutterIs DEF Verdict
      <4>2. /\ Final(Shutter(answers[f]), "result") \in Answer
            /\ Final(Shutter(answers[f]), "result").shutter = answers[f].shutter + 1
        BY <1>1, <4>1, FinalIs, ShutterIs DEF Verdict
      <4>3. f \in Done(m) => f \in mPendingRequestsList
        BY DEF Done
      <4> QED BY <3>1, <4>1, <4>2, <4>3, ReturnedIs
    <3> QED BY <1>2, <3>1, <3>2
  <2> QED BY <2>1, <2>2
<1>7. ASSUME NEW f \in Frames, NEW s, HandleBuffer(f, s)
      PROVE  OnceInv'
  <2>1. CASE CallbacksOff \/ (f \in mPendingRequestsList /\ ~ IsInput(f))
    BY <1>3, <1>7, <2>1 DEF HandleBuffer, lists
  <2>2. CASE ~ CallbacksOff /\ (f \notin mPendingRequestsList \/ IsInput(f))
    <3> DEFINE a == IF f \in mPendingRequestsList THEN Final(Shutter(answers[f]), "result")
                    ELSE answers[f]
    <3>1. req' = req /\ answers' = [answers EXCEPT ![f] = Returned(a, {s})]
      BY <1>7, <2>2 DEF HandleBuffer
    <3>2. a \in Answer /\ (f \in mPendingRequestsList => a.shutter = answers[f].shutter + 1)
      BY <1>1, FinalIs, ShutterIs DEF Verdict
    <3>3. Returned(a, {s}).finals = a.finals /\ Returned(a, {s}).shutter = a.shutter
      BY <3>2, ReturnedIs
    <3>4. DOMAIN answers = Frames
      BY <1>1 DEF ListInvs, ListsInv, Frames
    <3>5. answers'[f].finals = a.finals /\ answers'[f].shutter = a.shutter
          /\ \A g \in Frames : g # f => answers'[g] = answers[g]
      BY <3>1, <3>3, <3>4
    <3> QED BY <1>2, <3>1, <3>2, <3>5
  <2> QED BY <2>1, <2>2
<1>8. ASSUME NEW f \in Frames, ReprocessInputDone(f)
      PROVE  OnceInv'
  <2>1. CASE f \notin mPendingRequestsList
    BY <1>3, <1>8, <2>1 DEF ReprocessInputDone
  <2>2. CASE f \in mPendingRequestsList
    <3>1. req' = req /\ answers' = [answers EXCEPT ![f] = Final(Shutter(answers[f]), "result")]
      BY <1>8, <2>2 DEF ReprocessInputDone
    <3>2. Final(Shutter(answers[f]), "result").shutter = answers[f].shutter + 1
      BY <1>1, FinalIs, ShutterIs DEF Verdict
    <3>3. DOMAIN answers = Frames
      BY <1>1 DEF ListInvs, ListsInv, Frames
    <3>4. answers'[f] = Final(Shutter(answers[f]), "result")
          /\ \A g \in Frames : g # f => answers'[g] = answers[g]
      BY <3>1, <3>3
    <3> QED BY <1>2, <2>2, <3>1, <3>2, <3>4
  <2> QED BY <2>1, <2>2
<1>9. ASSUME NEW s \in Streams, ImageArrives(s)
      PROVE  OnceInv'
  BY <1>7, <1>9, ArrivesOwed DEF ImageArrives
<1>10. ASSUME NEW f \in Frames, NEW s, PostProcDone(f, s) \/ ReprocessOutputDone(f, s)
       PROVE  OnceInv'
  BY <1>7, <1>10 DEF PostProcDone, ReprocessOutputDone
<1>11. CASE OrchestrateRequest \/ RejectRequest \/ WakeUp \/ WaitTimesOut \/ Flush
            \/ ConfigureStreams \/ DaemonDied \/ PullRequest
  BY <1>3, <1>11 DEF OrchestrateRequest, RejectRequest, WakeUp, WaitTimesOut, Flush,
     ConfigureStreams, DaemonDied, PullRequest, lists
<1>12. ASSUME NEW t \in Threads, HandleError(t) \/ SetFlush(t) \/ StopAllChannels(t)
       PROVE  OnceInv'
  BY <1>3, <1>12 DEF HandleError, CheckError, Deinit, SetFlush, StopAllChannels, lists
<1>13. ASSUME NEW s \in Streams, ImageToPostProc(s)
       PROVE  OnceInv'
  BY <1>3, <1>13 DEF ImageToPostProc, lists
<1> QED BY <1>4, <1>5, <1>6, <1>8, <1>9, <1>10, <1>11, <1>12, <1>13, Zenon
        DEF Next, RequestThread, FlushSteps, Callbacks

\* Every request is answered exactly once, by whichever of metadata, buffers,
\* reprocess jobs and flushes comes first, and each of its buffers comes back
\* exactly once, if the framework does not mix live and reprocess requests.
THEOREM EachAnsweredOnce == ASSUME ~ Mixed PROVE Spec => []AnsweredOnce
<1> DEFINE All == Inv /\ ApartInv /\ OnceInv
<1>1. ASSUME Init PROVE All
  <2>1. mPendingRequestsList = {} /\ plan = <<>> /\ Frames = {}
    BY <1>1 DEF Init, Frames
  <2> QED BY <1>1, <2>1, InvInit DEF ApartInv, OnceInv
<1>2. ASSUME All, [Next]_vars PROVE All'
  <2>1. CASE Next
    BY <1>2, <2>1, InvKept, ApartKept, OnceKept
  <2>2. CASE UNCHANGED vars
    <3>1. UNCHANGED <<req, mPendingRequestsList, mPendingBuffersMap, plan, answers>>
      BY <2>2 DEF vars, lists, threads
    <3> QED BY <1>2, <3>1, InvKept DEF ApartInv, OnceInv, Frames, IsInput, Accepted, Hidden
  <2> QED BY <1>2, <2>1, <2>2
<1>3. ASSUME All PROVE AnsweredOnce
  <2> SUFFICES ASSUME NEW f \in Frames, Accepted(f)
      PROVE  /\ Len(answers[f].finals) = IF f \in mPendingRequestsList THEN 0 ELSE 1
             /\ \A s \in req[f].streams : answers[f].bufs[s] =
                   IF f \in DOMAIN mPendingBuffersMap /\ s \in mPendingBuffersMap[f] THEN 0 ELSE 1
             /\ answers[f].shutter = Cardinality({ i \in DOMAIN answers[f].finals :
                                                     answers[f].finals[i] = "result" })
    BY DEF AnsweredOnce
  <2> DEFINE results == { i \in DOMAIN answers[f].finals : answers[f].finals[i] = "result" }
  <2>1. /\ answers[f].finals = <<>> <=> f \in mPendingRequestsList
        /\ \A s \in req[f].streams : answers[f].bufs[s] = IF s \in Owes(f) THEN 0 ELSE 1
        /\ answers[f].finals \in {<<>>} \cup { <<v>> : v \in Verdict }
        /\ answers[f].shutter = IF answers[f].finals = <<"result">> THEN 1 ELSE 0
    BY <1>3 DEF Inv, ListInvs, AnswerInv, OnceInv
  <2>2. CASE answers[f].finals = <<>>
    <3>1. results = {} /\ Len(answers[f].finals) = 0 /\ <<>> # <<"result">>
      BY <2>2
    <3> QED BY <2>1, <2>2, <3>1, FS_EmptySet DEF Owes
  <2>3. CASE answers[f].finals = <<"result">>
    <3>1. results = {1} /\ Len(answers[f].finals) = 1 /\ <<>> # <<"result">>
      BY <2>3
    <3> QED BY <2>1, <2>3, <3>1, FS_Singleton DEF Owes
  <2>4. ASSUME NEW v \in Verdict, answers[f].finals = <<v>>, v # "result"
        PROVE  results = {} /\ Len(answers[f].finals) = 1 /\ <<v>> # <<"result">> /\ <<v>> # <<>>
    BY <2>4
  <2>5. CASE \E v \in Verdict : answers[f].finals = <<v>> /\ v # "result"
    BY <2>1, <2>4, <2>5, FS_EmptySet DEF Owes
  <2> QED BY <2>1, <2>2, <2>3, <2>5
<1> QED BY <1>1, <1>2, <1>3, PTL DEF Spec
-----------------------------------------------------------------------------
(* The count that holds process_capture_request back.                        *)

LivePending == { f \in mPendingRequestsList : ~ IsInput(f) }

\* The count is right from the first request on, and before it nothing is
\* pending; the bound on the frames keeps it below the width it counts modulo.
CountInv ==
    /\ Len(req) + Len(plan) <= MaxFrame
    /\ (Alive /\ ~ mFlush /\ ~ miscounted) =>
          IF mState = "STARTED" THEN mPendingLiveRequest = Cardinality(LivePending)
          ELSE mPendingRequestsList = {}

\* A count below its width does not wrap.
LEMMA ModSmall ==
  ASSUME NEW x \in Nat, NEW n \in Nat, x < n
  PROVE  x % n = x
  OBVIOUS

\* Every request that is counted is uncounted when its metadata ends it.
LEMMA CountKept ==
  ASSUME Inv, CountInv, Next
  PROVE  CountInv'
<1>1. /\ ListInvs /\ PlanInv /\ FlushInv /\ mPendingRequestsList \subseteq Frames
      /\ Len(req) \in Nat /\ plan \in Seq(Request) /\ Len(plan) \in Nat
  BY DEF Inv, ListInvs, ListsInv, PlanInv
<1>2. /\ MaxFrame \in Nat /\ CountWidth \in Nat /\ CountWidth > MaxFrame
      /\ MaxPlain \in Nat /\ MaxPlain <= MaxFrame
  BY HWIAssumption
<1>3. /\ IsFiniteSet(LivePending) /\ Cardinality(LivePending) \in Nat
      /\ Cardinality(LivePending) <= Len(req)
  <2>1. IsFiniteSet(1 .. Len(req)) /\ Cardinality(1 .. Len(req)) = Len(req)
    <3>1. PICK n \in Nat : n = Len(req)
      BY <1>1
    <3>2. IsFiniteSet(1 .. n) /\ Cardinality(1 .. n) = IF 1 > n THEN 0 ELSE n - 1 + 1
      BY FS_Interval
    <3>3. Cardinality(1 .. n) = n
      BY <3>2
    <3> QED BY <3>1, <3>2, <3>3
  <2>2. LivePending \subseteq 1 .. Len(req)
    BY <1>1 DEF LivePending, Frames
  <2> QED BY <2>1, <2>2, FS_Subset, FS_CardinalityType
<1>4. ASSUME UNCHANGED <<req, plan, mPendingLiveRequest, mFlush, miscounted>>,
             mPendingRequestsList' \subseteq mPendingRequestsList,
             \A f \in mPendingRequestsList \ mPendingRequestsList' : IsInput(f),
             mState' = mState \/ ~ Alive'
      PROVE  CountInv'
  <2>1. LivePending' = LivePending
    BY <1>4 DEF LivePending, IsInput
  <2> QED BY <1>4, <2>1 DEF CountInv, Alive
<1>5. pc["request"] = "call" =>
         /\ plan # <<>> /\ Len(plan) >= 1 /\ Head(plan) \in Request
         /\ Len(Tail(plan)) = Len(plan) - 1
  BY <1>1 DEF PlanInv
<1>6. CASE OrchestrateRequest
  <2>1. PICK p \in Plans : plan' = p /\ Len(req) + Len(p) <= IF Len(p) = 1 THEN MaxPlain ELSE MaxFrame
    BY <1>6 DEF OrchestrateRequest
  <2>2. Len(req) + Len(p) <= MaxFrame
    <3>1. Len(p) \in Nat
      BY PlansAre
    <3> QED BY <1>1, <1>2, <2>1, <3>1
  <2>3. UNCHANGED <<req, mPendingRequestsList, mPendingLiveRequest, mFlush, miscounted, mState>>
    BY <1>6 DEF OrchestrateRequest, lists, history
  <2> QED BY <2>1, <2>2, <2>3 DEF CountInv, Alive, LivePending, IsInput
<1>7. CASE TakeRequest
  <2>0. PICK n : n = Len(req) + 1
    OBVIOUS
  <2>1. PICK r \in Request : r = Head(plan)
    BY <1>5, <1>7 DEF TakeRequest
  <2>2. /\ Enlist(r) /\ StartCounting /\ plan' = Tail(plan) /\ mFlush' = mFlush
        /\ ~ mFlush => mState' = "STARTED"
        /\ ~ mFlush => mPendingLiveRequest' = IF r.kind = "input" THEN CountAtStart
                                              ELSE (CountAtStart + 1) % CountWidth
        /\ mState \in {"CONFIGURED", "STARTED"} /\ pc["request"] = "call"
    BY <1>7, <2>1 DEF TakeRequest, Withheld, TakesRequests
  <2>3. Len(req') = Len(req) + 1
    BY <1>1, <2>2 DEF Enlist, ListInvs, ListsInv
  <2>4. Len(req') + Len(plan') <= MaxFrame
    BY <1>1, <1>2, <1>5, <2>2, <2>3 DEF CountInv
  <2>5. ASSUME ~ mFlush, ~ miscounted'
        PROVE  mPendingLiveRequest' = Cardinality(LivePending')
    <3>1. CountAtStart = Cardinality(LivePending)
      <4>1. CASE Starting
        <5>1. mPendingRequestsList = {}
          BY <2>2, <2>5, <4>1 DEF StartCounting, CountInv, Starting, Alive
        <5>2. LivePending = {}
          BY <5>1 DEF LivePending
        <5> QED BY <4>1, <5>2, FS_EmptySet DEF CountAtStart
      <4>2. CASE ~ Starting
        BY <2>2, <2>5, <4>2 DEF StartCounting, CountInv, Starting, Alive, CountAtStart
      <4> QED BY <4>1, <4>2
    <3>2. /\ \A f \in Frames : f # n /\ req'[f] = req[f]
          /\ req'[n] = r /\ mPendingRequestsList' = mPendingRequestsList \cup {n}
      BY <1>1, <2>0, <2>2, EnlistKeeps DEF Enlist
    <3>3. LivePending' = LivePending \cup (IF r.kind = "input" THEN {} ELSE {n})
          /\ n \notin LivePending
      BY <1>1, <3>2 DEF LivePending, IsInput
    <3>4. CASE r.kind = "input"
      BY <2>2, <2>5, <3>1, <3>3, <3>4
    <3>5. CASE r.kind # "input"
      <4>1. Cardinality(LivePending') = Cardinality(LivePending) + 1
        BY <1>3, <3>3, <3>5, FS_AddElement
      <4>2. Cardinality(LivePending) + 1 < CountWidth /\ Cardinality(LivePending) + 1 \in Nat
        BY <1>1, <1>2, <1>3, <1>5, <2>2 DEF CountInv
      <4>3. (Cardinality(LivePending) + 1) % CountWidth = Cardinality(LivePending) + 1
        BY <1>2, <4>2, ModSmall
      <4> QED BY <2>2, <2>5, <3>1, <3>5, <4>1, <4>3
    <3> QED BY <3>4, <3>5
  <2> QED BY <2>2, <2>4, <2>5 DEF CountInv
<1>8. CASE RefuseRequest
  <2>1. Len(req') = Len(req) + 1
    BY <1>1, <1>8 DEF RefuseRequest, Enlist, ListInvs, ListsInv
  <2>2. Len(req') + Len(plan') <= MaxFrame
    BY <1>1, <1>2, <1>5, <1>8, <2>1 DEF RefuseRequest, CountInv
  <2> QED BY <1>8, <2>2 DEF RefuseRequest, CountInv
<1>9. CASE RejectRequest
  <2>1. Len(plan') = Len(plan) - 1
    BY <1>5, <1>9 DEF RejectRequest
  <2>2. UNCHANGED <<req, mState>> /\ ~ Alive
    BY <1>1, <1>9 DEF RejectRequest, TakesRequests, Alive, lists
  <2> QED BY <1>1, <1>2, <2>1, <2>2 DEF CountInv, Alive
<1>10. ASSUME NEW t \in Threads, FlushPending(t)
       PROVE  CountInv'
  <2>1. /\ mPendingRequestsList' = {} /\ req' = req /\ plan' = plan
        /\ mPendingLiveRequest' = 0
    BY <1>1, <1>10, NotifyClears DEF FlushPending, NotifyErrorForPendingRequests
  <2>2. LivePending' = {}
    BY <2>1 DEF LivePending
  <2> QED BY <2>1, <2>2, FS_EmptySet DEF CountInv
<1>11. CASE ConfigureStreams
  BY <1>11 DEF ConfigureStreams, CountInv, threads
<1>12. ASSUME NEW m \in Frames, HandleMetadata(m)
       PROVE  CountInv'
  <2>1. CASE CallbacksOff
    BY <1>4, <1>12, <2>1 DEF HandleMetadata, lists, history
  <2>2. CASE ~ CallbacksOff
    <3>1. /\ mPendingRequestsList' = mPendingRequestsList \ Done(m)
          /\ mPendingLiveRequest' = (mPendingLiveRequest - Cardinality(Done(m))) % CountWidth
          /\ UNCHANGED <<req, plan, mFlush, mState, miscounted>>
      BY <1>12, <2>2 DEF HandleMetadata, Uncount, history
    <3>2. Done(m) \subseteq LivePending /\ LivePending' = LivePending \ Done(m)
      BY <3>1 DEF Done, LivePending, IsInput
    <3>3. /\ Cardinality(LivePending') = Cardinality(LivePending) - Cardinality(Done(m))
          /\ Cardinality(LivePending') \in Nat /\ Cardinality(LivePending') <= Cardinality(LivePending)
      <4>1. LivePending \cap Done(m) = Done(m)
        BY <3>2
      <4>2. Cardinality(LivePending \ Done(m)) = Cardinality(LivePending) - Cardinality(LivePending \cap Done(m))
            /\ IsFiniteSet(LivePending \ Done(m))
        BY <1>3, FS_Difference
      <4>3. Cardinality(LivePending \ Done(m)) <= Cardinality(LivePending)
        BY <1>3, FS_Subset
      <4> QED BY <3>2, <4>1, <4>2, <4>3, FS_CardinalityType
    <3>4. Cardinality(LivePending') % CountWidth = Cardinality(LivePending')
      <4>1. Cardinality(LivePending') < CountWidth
        BY <1>1, <1>2, <1>3, <3>3 DEF CountInv
      <4> QED BY <1>2, <3>3, <4>1, ModSmall
    <3> QED BY <3>1, <3>3, <3>4 DEF CountInv, Alive
  <2> QED BY <2>1, <2>2
<1>13. ASSUME NEW f, NEW s, HandleBuffer(f, s),
              UNCHANGED <<plan, mPendingLiveRequest, mFlush, miscounted, mState>>
       PROVE  CountInv'
  BY <1>4, <1>13 DEF HandleBuffer, lists
<1>14. ASSUME NEW f, NEW s, \/ ImageArrives(s) \/ PostProcDone(f, s) \/ ReprocessOutputDone(f, s)
       PROVE  CountInv'
  BY <1>13, <1>14 DEF ImageArrives, PostProcDone, ReprocessOutputDone, threads, history
<1>15. ASSUME NEW f \in Frames, ReprocessInputDone(f)
       PROVE  CountInv'
  <2>1. IsInput(f)
    BY <1>15 DEF ReprocessInputDone, Inv, CallbackInv
  <2> QED BY <1>4, <1>15, <2>1 DEF ReprocessInputDone, threads, history
<1>16. CASE WakeUp \/ WaitTimesOut \/ Flush \/ PullRequest
  BY <1>4, <1>16 DEF WakeUp, WaitTimesOut, Flush, PullRequest, lists, threads, history
<1>17. CASE DaemonDied
  BY <1>4, <1>17 DEF DaemonDied, Alive, lists, threads, history
<1>18. ASSUME NEW t \in Threads, CheckError(t) \/ StopAllChannels(t)
       PROVE  CountInv'
  BY <1>4, <1>18 DEF CheckError, StopAllChannels, lists, history
<1>19. ASSUME NEW t \in Threads, Deinit(t)
       PROVE  CountInv'
  BY <1>4, <1>19 DEF Deinit, Alive, lists, history
<1>20. ASSUME NEW t \in Threads, SetFlush(t)
       PROVE  CountInv'
  BY <1>20 DEF SetFlush, CountInv, lists
<1>21. ASSUME NEW s \in Streams, ImageToPostProc(s)
       PROVE  CountInv'
  BY <1>4, <1>21 DEF ImageToPostProc, lists, threads, history
<1> QED BY <1>6, <1>7, <1>8, <1>9, <1>10, <1>11, <1>12, <1>14, <1>15, <1>16, <1>17, <1>18,
           <1>19, <1>20, <1>21, Zenon
        DEF Next, RequestThread, HandleError, FlushSteps, Callbacks

\* The count that blocks process_capture_request is the number of live requests
\* whose metadata is owed, whatever was missed, answered early or flushed, as
\* long as no channel refuses a request.
THEOREM CountIsRight == Spec => []CountMatches
<1>1. ASSUME Init PROVE CountInv
  <2>1. Len(req) = 0 /\ Len(plan) = 0 /\ mPendingRequestsList = {} /\ mState = "CONFIGURED"
    BY <1>1 DEF Init
  <2> QED BY <2>1, HWIAssumption DEF CountInv
<1>2. ASSUME Inv, CountInv, [Next]_vars PROVE CountInv'
  <2>1. CASE UNCHANGED vars
    <3>1. UNCHANGED <<req, plan, mPendingLiveRequest, mFlush, miscounted, mState,
                      mPendingRequestsList>>
      BY <2>1 DEF vars, lists, threads, history
    <3> QED BY <1>2, <3>1 DEF CountInv, Alive, LivePending, IsInput
  <2> QED BY <1>2, <2>1, CountKept
<1>3. CountInv => CountMatches
  BY DEF CountInv, CountMatches, Alive, LivePending
<1> QED BY <1>1, <1>2, <1>3, InvInit, InvKept, PTL DEF Spec
-----------------------------------------------------------------------------
(* Types.                                                                    *)

\* What Inv leaves out of TypeOK.
RestInv ==
    /\ mPendingLiveRequest \in 0 .. CountWidth - 1
    /\ mFlush \in BOOLEAN /\ mWokenUpByDaemon \in BOOLEAN
    /\ restart \in BOOLEAN /\ signalled \in BOOLEAN
    /\ deviceError \in BOOLEAN /\ miscounted \in BOOLEAN
    /\ \A f \in Frames : cached[f] \subseteq req[f].streams

\* The count wraps at its width.
LEMMA ModInWidth ==
  ASSUME NEW x \in Int
  PROVE  x % CountWidth \in 0 .. CountWidth - 1
<1>1. CountWidth \in Nat /\ CountWidth > 0
  BY HWIAssumption
<1> QED BY <1>1

\* The rest is typed too.
LEMMA RestKept ==
  ASSUME Inv, RestInv, Next
  PROVE  RestInv'
<1>1. /\ ListInvs /\ PlanInv /\ Len(req) \in Nat
      /\ 0 \in 0 .. CountWidth - 1 /\ mPendingLiveRequest \in Int
  <2>1. CountWidth \in Nat /\ CountWidth > 0
    BY HWIAssumption
  <2> QED BY <2>1 DEF Inv, ListInvs, ListsInv, RestInv
<1>2. ASSUME UNCHANGED lists
      PROVE  \A f \in Frames' : cached'[f] \subseteq req'[f].streams
  BY <1>2 DEF RestInv, lists, Frames
<1>3. ASSUME Len(req') = Len(req), req' = req,
             \A f \in Frames : cached'[f] \subseteq cached[f]
      PROVE  \A f \in Frames' : cached'[f] \subseteq req'[f].streams
  BY <1>3 DEF RestInv, Frames
<1>4. CASE OrchestrateRequest \/ RejectRequest \/ WakeUp \/ WaitTimesOut \/ Flush
           \/ DaemonDied \/ PullRequest
  <2>1. UNCHANGED lists
    BY <1>4 DEF OrchestrateRequest, RejectRequest, WakeUp, WaitTimesOut, Flush, DaemonDied,
       PullRequest
  <2>2. /\ mWokenUpByDaemon' \in BOOLEAN /\ restart' \in BOOLEAN /\ signalled' \in BOOLEAN
        /\ UNCHANGED <<mPendingLiveRequest, mFlush, deviceError, miscounted>>
    BY <1>4, Zenon DEF OrchestrateRequest, RejectRequest, WakeUp, WaitTimesOut, Flush, DaemonDied,
       PullRequest, RestInv, history, threads, Signal
  <2> QED BY <1>2, <2>1, <2>2 DEF RestInv
<1>5. CASE TakeRequest \/ RefuseRequest
  <2>0. PICK n : n = Len(req) + 1
    OBVIOUS
  <2>1. PICK r \in Request : Enlist(r)
    BY <1>1, <1>5, HeadIsRequest DEF TakeRequest, RefuseRequest
  <2>2. /\ Frames' = Frames \cup {n}
        /\ \A f \in Frames : req'[f] = req[f] /\ cached'[f] = cached[f]
        /\ cached'[n] = {}
    BY <1>1, <2>0, <2>1, EnlistKeeps
  <2>3. CountAtStart \in 0 .. CountWidth - 1 /\ CountAtStart \in Int
    BY <1>1 DEF CountAtStart, RestInv
  <2>4. mPendingLiveRequest' \in 0 .. CountWidth - 1
    <3>1. (CountAtStart + 1) % CountWidth \in 0 .. CountWidth - 1
      BY <2>3, ModInWidth
    <3>2. mPendingLiveRequest' \in {CountAtStart, (CountAtStart + 1) % CountWidth}
      BY <1>5 DEF TakeRequest, RefuseRequest
    <3> QED BY <2>3, <3>1, <3>2
  <2>5. mWokenUpByDaemon' \in BOOLEAN /\ miscounted' \in BOOLEAN
        /\ UNCHANGED <<mFlush, restart, signalled, deviceError>>
    BY <1>5, Zenon DEF TakeRequest, RefuseRequest, StartCounting, RestInv
  <2> QED BY <2>2, <2>4, <2>5 DEF RestInv
<1>6. CASE ConfigureStreams
  <2>1. req' = req /\ \A f \in Frames : cached'[f] = {}
    BY <1>6 DEF ConfigureStreams
  <2> QED BY <1>3, <1>6, <2>1 DEF ConfigureStreams, RestInv, threads, history
<1>7. ASSUME NEW t \in Threads, HandleError(t) \/ SetFlush(t) \/ StopAllChannels(t)
      PROVE  RestInv'
  <2>1. UNCHANGED lists
    BY <1>7 DEF HandleError, CheckError, Deinit, SetFlush, StopAllChannels
  <2>2. deviceError' \in BOOLEAN /\ mFlush' \in BOOLEAN
        /\ UNCHANGED <<mPendingLiveRequest, mWokenUpByDaemon, restart, signalled, miscounted>>
    BY <1>7, Zenon DEF HandleError, CheckError, Deinit, SetFlush, StopAllChannels, RestInv, history
  <2> QED BY <1>2, <2>1, <2>2 DEF RestInv
<1>8. ASSUME NEW t \in Threads, FlushPending(t)
      PROVE  RestInv'
  <2>1. req' = req /\ NotifyErrorForPendingRequests
    BY <1>8 DEF FlushPending, NotifyErrorForPendingRequests
  <2>2. \A f \in Frames : cached'[f] \subseteq cached[f]
    BY <2>1 DEF NotifyErrorForPendingRequests
  <2>3. signalled' \in BOOLEAN /\ mPendingLiveRequest' = 0 /\ mFlush' = FALSE /\ miscounted' = FALSE
        /\ UNCHANGED <<mWokenUpByDaemon, restart, deviceError>>
    BY <1>8, Zenon DEF FlushPending, RestInv
  <2> QED BY <1>1, <1>3, <2>1, <2>2, <2>3 DEF RestInv
<1>9. ASSUME NEW m \in Frames, HandleMetadata(m)
      PROVE  RestInv'
  <2>1. signalled' \in BOOLEAN
        /\ UNCHANGED <<mFlush, mWokenUpByDaemon, restart, deviceError, miscounted>>
    BY <1>9, Zenon DEF HandleMetadata, Signal, RestInv, history
  <2>2. CASE CallbacksOff
    BY <1>2, <1>9, <2>1, <2>2 DEF HandleMetadata, RestInv
  <2>3. CASE ~ CallbacksOff
    <3>1. /\ req' = req /\ cached' = [f \in Frames |-> IF f \in Done(m) THEN {} ELSE cached[f]]
          /\ mPendingLiveRequest' = (mPendingLiveRequest - Cardinality(Done(m))) % CountWidth
      BY <1>9, <2>3 DEF HandleMetadata, Uncount
    <3>2. Cardinality(Done(m)) \in Nat
      <4>1. IsFiniteSet(1 .. Len(req))
        BY <1>1, FS_Interval
      <4>2. Done(m) \subseteq 1 .. Len(req)
        BY <1>1 DEF Frames, Done, ListInvs, ListsInv
      <4> QED BY <4>1, <4>2, FS_Subset, FS_CardinalityType
    <3>3. mPendingLiveRequest' \in 0 .. CountWidth - 1
      BY <1>1, <3>1, <3>2, ModInWidth
    <3>4. \A f \in Frames : cached'[f] \subseteq cached[f]
      BY <3>1
    <3> QED BY <1>3, <2>1, <3>1, <3>3, <3>4 DEF RestInv
  <2> QED BY <2>2, <2>3
<1>10. ASSUME NEW f \in Frames, NEW s \in req[f].streams, HandleBuffer(f, s),
              UNCHANGED <<mPendingLiveRequest, mFlush, mWokenUpByDaemon, threads, history>>
       PROVE  RestInv'
  <2>1. req' = req /\ \A g \in Frames : cached'[g] \subseteq req[g].streams
    <3>1. DOMAIN cached = Frames
      BY <1>1 DEF ListInvs, ListsInv, Frames
    <3>2. req' = req /\ (cached' = cached \/ cached' = [cached EXCEPT ![f] = cached[f] \cup {s}])
      BY <1>10 DEF HandleBuffer, Keep, lists
    <3> QED BY <3>1, <3>2 DEF RestInv
  <2> QED BY <1>10, <2>1 DEF RestInv, threads, history, Frames
<1>11. ASSUME NEW s \in Streams, ImageArrives(s)
       PROVE  RestInv'
  BY <1>10, <1>11, ArrivesOwed DEF ImageArrives
<1>12. ASSUME NEW f \in Frames, NEW s \in Streams, PostProcDone(f, s)
       PROVE  RestInv'
  BY <1>10, <1>12, PostProcOwed DEF PostProcDone
<1>13. ASSUME NEW f \in Frames, NEW s \in Streams, ReprocessOutputDone(f, s)
       PROVE  RestInv'
  BY <1>10, <1>13, OutputOwed DEF ReprocessOutputDone
<1>14. ASSUME NEW f \in Frames, ReprocessInputDone(f)
       PROVE  RestInv'
  BY <1>14 DEF ReprocessInputDone, RestInv, threads, history, Frames
<1>15. ASSUME NEW s \in Streams, ImageToPostProc(s)
       PROVE  RestInv'
  BY <1>2, <1>15 DEF ImageToPostProc, RestInv, threads, history
<1> QED BY <1>4, <1>5, <1>6, <1>7, <1>8, <1>9, <1>11, <1>12, <1>13, <1>14, <1>15, Zenon
        DEF Next, RequestThread, FlushSteps, Callbacks

\* Every variable has its type.
THEOREM TypeCorrect == Spec => []TypeOK
<1>1. ASSUME Init PROVE RestInv
  <2>1. CountWidth \in Nat /\ CountWidth > 0
    BY HWIAssumption
  <2>2. mPendingLiveRequest = 0 /\ Frames = {}
    BY <1>1 DEF Init, Frames
  <2>3. /\ mFlush = FALSE /\ mWokenUpByDaemon = FALSE /\ restart = FALSE /\ signalled = FALSE
        /\ deviceError = FALSE /\ miscounted = FALSE
    BY <1>1 DEF Init
  <2>4. mPendingLiveRequest \in 0 .. CountWidth - 1
    BY <2>1, <2>2
  <2>5. \A f \in Frames : cached[f] \subseteq req[f].streams
    BY <2>2
  <2> QED BY <2>3, <2>4, <2>5, Zenon DEF RestInv
<1>2. ASSUME Inv, RestInv, [Next]_vars PROVE RestInv'
  <2>1. CASE UNCHANGED vars
    <3>1. UNCHANGED <<mPendingLiveRequest, mFlush, mWokenUpByDaemon, restart, signalled,
                      deviceError, miscounted, req, cached>>
      BY <2>1 DEF vars, lists, threads, history
    <3> QED BY <1>2, <3>1 DEF RestInv, Frames
  <2> QED BY <1>2, <2>1, RestKept
<1>3. ASSUME Inv, RestInv PROVE TypeOK
  <2>1. /\ req \in Seq(Request) /\ mPendingRequestsList \subseteq Frames
        /\ DOMAIN mPendingBuffersMap \subseteq Frames
        /\ DOMAIN cached = Frames /\ DOMAIN answers = Frames
    BY <1>3 DEF Inv, ListInvs, ListsInv, Frames
  <2>2. \A f \in DOMAIN mPendingBuffersMap : mPendingBuffersMap[f] \subseteq req[f].streams
    BY <1>3, <2>1 DEF Inv, ListInvs, ListsInv, Owes
  <2>3. /\ metadata \subseteq Frames /\ images \in [Streams -> SUBSET Frames]
        /\ DOMAIN post \subseteq Frames /\ DOMAIN reproc \subseteq Frames
    BY <1>3 DEF Inv, CallbackInv
  <2>4. /\ mState \in {"CONFIGURED", "STARTED", "ERROR", "DEINIT"}
        /\ pc \in [Threads -> {"idle", "call", "wait", "check", "flag", "stop", "notify", "deinit"}]
        /\ owed \in 0 .. Len(req)
    BY <1>3 DEF Inv, FlushInv
  <2> QED BY <1>3, <2>1, <2>2, <2>3, <2>4 DEF TypeOK, RestInv, Request
<1> QED BY <1>1, <1>2, <1>3, InvInit, InvKept, PTL DEF Spec

-----------------------------------------------------------------------------
(* What is owed is on its way.                                               *)

\* A picture needs one image and has one stream to go to, since a configuration
\* with two stalling streams is refused; a reprocess job has one output.
OnePicture == \A x, y \in NeedsMeta : x = y
OneOutput  == \A S \in InputRequests : \A x, y \in S : x = y
Shaped(r) ==
    /\ r.kind = "internal" => r.streams = {}
    /\ r.kind = "input" => \A x, y \in r.streams : x = y
ShapeInv ==
    /\ \A f \in Frames : Shaped(req[f])
    /\ \A i \in 1 .. Len(plan) : Shaped(plan[i])

\* The daemon will send metadata only for requests that are pending, and of a
\* picture the post-processor has the image, the metadata or both.
MetadataInv ==
    /\ Alive => metadata \subseteq mPendingRequestsList
    /\ \A f \in metadata : ~ IsInput(f)
    /\ \A f \in DOMAIN post : post[f] \in {{"image"}, {"metadata"}, {"image", "metadata"}}

HasImage(f) == f \in DOMAIN post /\ "image" \in post[f]

\* The metadata that an image in the post-processor, or on its way there, waits
\* for is there, will come, or was missed.
Joined(f) ==
    \/ f \in metadata
    \/ f \in DOMAIN post /\ "metadata" \in post[f]
    \/ answers[f].finals = <<"error_result">>
    \/ req[f].refused
JoinInv ==
    Alive => \A f \in Frames : \A s \in NeedsMeta \cap Owes(f) :
                f \in images[s] \/ HasImage(f) => Joined(f)

\* Where a buffer may be that the framework waits for.
Somewhere(f, s) ==
    \/ f \in images[s]
    \/ s \in cached[f]
    \/ f \in DOMAIN reproc
    \/ s \in NeedsMeta /\ HasImage(f)
    \/ req[f].refused
WhereInv == (Alive /\ ~ mFlush) => \A f \in Frames : \A s \in Owes(f) : Somewhere(f, s)

\* Every request that orchestrateRequest may send has its shape.
LEMMA PlansShaped ==
  ASSUME OneOutput, NEW p \in Plans
  PROVE  \A i \in 1 .. Len(p) : Shaped(p[i])
<1>1. CASE \E S \in LiveRequests : p = <<Live(S)>>
  BY <1>1 DEF Live, Shaped
<1>2. CASE \E S \in InputRequests : p = <<Input(S)>>
  BY <1>2 DEF Input, Shaped, OneOutput
<1>3. CASE \E S \in HdrRequests : p = HdrPlan(S)
  <2>1. PICK S \in HdrRequests : p = <<Internal, Live(S), Internal, Internal, Internal, Internal>>
    BY <1>3 DEF HdrPlan
  <2>2. Shaped(Internal) /\ Shaped(Live(S))
    BY DEF Internal, Live, Shaped
  <2>3. /\ Len(p) = 6 /\ p[1] = Internal /\ p[2] = Live(S) /\ p[3] = Internal
        /\ p[4] = Internal /\ p[5] = Internal /\ p[6] = Internal
    BY <2>1
  <2>4. \A i \in 1 .. 6 : i = 1 \/ i = 2 \/ i = 3 \/ i = 4 \/ i = 5 \/ i = 6
    OBVIOUS
  <2> QED BY <2>2, <2>3, <2>4
<1> QED BY <1>1, <1>2, <1>3 DEF Plans

\* Requests keep their shape, and so does what is still to be sent.
LEMMA ShapeKept ==
  ASSUME OneOutput, Inv, ShapeInv, Next
  PROVE  ShapeInv'
<1>1. ListInvs /\ PlanInv /\ plan \in Seq(Request)
  BY DEF Inv, PlanInv
<1>2. ASSUME UNCHANGED <<req, plan>>
      PROVE  ShapeInv'
  BY <1>2 DEF ShapeInv, Frames
<1>3. ASSUME plan # <<>>, plan' = Tail(plan)
      PROVE  \A i \in 1 .. Len(plan') : Shaped(plan'[i])
  <2>1. Len(plan') = Len(plan) - 1 /\ \A i \in 1 .. Len(plan) - 1 : plan'[i] = plan[i + 1]
    BY <1>1, <1>3
  <2>2. Len(plan) \in Nat
    BY <1>1
  <2>3. \A i \in 1 .. Len(plan) - 1 : i + 1 \in 1 .. Len(plan)
    BY <2>2
  <2> QED BY <2>1, <2>3 DEF ShapeInv
<1>4. CASE TakeRequest \/ RefuseRequest
  <2>1. PICK r \in Request : Enlist(r) /\ r.kind = Head(plan).kind /\ r.streams = Head(plan).streams
    BY <1>1, <1>4, HeadIsRequest DEF TakeRequest, RefuseRequest, Request
  <2>2. Head(plan) = plan[1] /\ plan # <<>> /\ plan' = Tail(plan)
    BY <1>1, <1>4, HeadIsRequest DEF TakeRequest, RefuseRequest
  <2>3. 1 \in 1 .. Len(plan)
    BY <1>1, <2>2
  <2>4. Shaped(r)
    BY <2>1, <2>2, <2>3 DEF ShapeInv, Shaped
  <2>5. \A f \in Frames' : Shaped(req'[f])
    BY <1>1, <2>1, <2>4, EnlistKeeps DEF ShapeInv
  <2> QED BY <1>3, <2>2, <2>5 DEF ShapeInv
<1>5. CASE OrchestrateRequest
  <2>1. req' = req /\ plan' \in Plans
    BY <1>5 DEF OrchestrateRequest, lists
  <2> QED BY <2>1, PlansShaped DEF ShapeInv, Frames
<1>6. CASE RejectRequest
  <2>1. req' = req /\ plan # <<>> /\ plan' = Tail(plan)
    BY <1>1, <1>6 DEF RejectRequest, lists, PlanInv
  <2> QED BY <1>3, <2>1 DEF ShapeInv, Frames
<1>7. ASSUME WakeUp \/ WaitTimesOut \/ Flush \/ ConfigureStreams \/ DaemonDied \/ PullRequest
      PROVE  UNCHANGED <<req, plan>>
  BY <1>7 DEF WakeUp, WaitTimesOut, Flush, ConfigureStreams, DaemonDied, PullRequest, lists, threads
<1>8. ASSUME NEW t \in Threads, HandleError(t) \/ FlushSteps(t)
      PROVE  UNCHANGED <<req, plan>>
  BY <1>8 DEF HandleError, CheckError, Deinit, FlushSteps, SetFlush, StopAllChannels,
     FlushPending, NotifyErrorForPendingRequests, lists
<1>9. ASSUME Callbacks
      PROVE  UNCHANGED <<req, plan>>
  <2>1. ASSUME NEW f, NEW s, HandleBuffer(f, s)
        PROVE  UNCHANGED req
    BY <2>1 DEF HandleBuffer, lists
  <2>2. ASSUME NEW m \in Frames, HandleMetadata(m)
        PROVE  UNCHANGED <<req, plan>>
    BY <2>2 DEF HandleMetadata, lists
  <2>3. ASSUME NEW s \in Streams, ImageArrives(s) \/ ImageToPostProc(s)
        PROVE  UNCHANGED <<req, plan>>
    BY <2>1, <2>3 DEF ImageArrives, ImageToPostProc, lists, threads
  <2>4. ASSUME NEW f \in Frames, NEW s \in Streams, PostProcDone(f, s) \/ ReprocessOutputDone(f, s)
        PROVE  UNCHANGED <<req, plan>>
    BY <2>1, <2>4 DEF PostProcDone, ReprocessOutputDone, threads
  <2>5. ASSUME NEW f \in Frames, ReprocessInputDone(f)
        PROVE  UNCHANGED <<req, plan>>
    BY <2>5 DEF ReprocessInputDone, threads
  <2> QED BY <1>9, <2>2, <2>3, <2>4, <2>5 DEF Callbacks
<1> QED BY <1>2, <1>4, <1>5, <1>6, <1>7, <1>8, <1>9 DEF Next, RequestThread

\* A buffer that is back is kept or handed on, and no other is disturbed; the
\* request ends with it only when it is a reprocess request.
LEMMA BufferMoves ==
  ASSUME ListInvs, ~ CallbacksOff, NEW f \in Frames, NEW s, HandleBuffer(f, s)
  PROVE  /\ req' = req
         /\ \A g : Owes(g)' \subseteq Owes(g)
         /\ \A g \in Frames : cached[g] \subseteq cached'[g]
         /\ s \in Owes(f)' => s \in cached'[f] /\ f \in mPendingRequestsList /\ ~ IsInput(f)
         /\ \A g \in mPendingRequestsList : ~ IsInput(g) => g \in mPendingRequestsList'
         /\ \A g \in Frames : g \notin mPendingRequestsList => answers'[g].finals = answers[g].finals
<1>1. /\ answers \in Seq(Answer) /\ Len(answers) = Len(req) /\ cached \in Seq(SUBSET Streams)
      /\ Len(cached) = Len(req)
  BY DEF ListInvs, ListsInv
<1>2. \A g \in Frames : g \in DOMAIN answers /\ g \in DOMAIN cached /\ answers[g] \in Answer
  BY <1>1 DEF Frames
<1>3. CASE f \notin mPendingRequestsList \/ IsInput(f)
  <2>1. /\ mPendingBuffersMap' = RemoveBufs({f}, [g \in {f} |-> {s}])
        /\ mPendingRequestsList' = mPendingRequestsList \ {f}
        /\ answers' = [answers EXCEPT ![f] =
               Returned(IF f \in mPendingRequestsList THEN Final(Shutter(@), "result") ELSE @, {s})]
        /\ req' = req /\ cached' = cached
    BY <1>3 DEF HandleBuffer
  <2>2. \A g : Owes(g)' = IF g \in {f} THEN Owes(g) \ [h \in {f} |-> {s}][g] ELSE Owes(g)
    BY <2>1, RemoveBufsIs
  <2>3. Owes(f)' = Owes(f) \ {s} /\ \A g : Owes(g)' \subseteq Owes(g)
    BY <2>2
  <2>4. ASSUME NEW g \in Frames, g \notin mPendingRequestsList
        PROVE  answers'[g].finals = answers[g].finals
    <3>1. CASE g = f
      <4>1. answers'[g] = Returned(answers[g], {s})
        BY <1>2, <2>1, <2>4, <3>1
      <4> QED BY <1>2, <4>1, ReturnedIs
    <3>2. CASE g # f
      BY <1>2, <2>1, <3>2
    <3> QED BY <3>1, <3>2
  <2> QED BY <1>3, <2>1, <2>3, <2>4
<1>4. CASE ~ (f \notin mPendingRequestsList \/ IsInput(f))
  <2>1. /\ cached' = [cached EXCEPT ![f] = cached[f] \cup {s}]
        /\ UNCHANGED <<req, mPendingRequestsList, mPendingBuffersMap, answers>>
    BY <1>4 DEF HandleBuffer, Keep
  <2>2. s \in cached'[f] /\ \A g \in Frames : cached[g] \subseteq cached'[g]
    BY <1>2, <2>1
  <2>3. \A g : Owes(g)' = Owes(g)
    BY <2>1 DEF Owes
  <2> QED BY <1>4, <2>1, <2>2, <2>3
<1> QED BY <1>3, <1>4

\* A frame that still has metadata to come or an image in the post-processor
\* stays so, and a request that was answered is not pending.
LEMMA JoinedStays ==
  ASSUME ListInvs, ShapeInv, NEW f \in Frames, NEW s \in Owes(f), Joined(f), req'[f] = req[f],
         f \in metadata => f \in metadata',
         f \in DOMAIN post /\ "metadata" \in post[f] => f \in DOMAIN post' /\ "metadata" \in post'[f],
         f \notin mPendingRequestsList => answers'[f].finals = answers[f].finals
  PROVE  Joined(f)'
<1>1. s \in req[f].streams
  BY DEF ListInvs, ListsInv
<1>2. ~ Hidden(f)
  BY <1>1 DEF ShapeInv, Shaped, Hidden
<1>3. CASE answers[f].finals = <<"error_result">> /\ ~ req[f].refused
  <2>1. f \notin mPendingRequestsList
    BY <1>2, <1>3 DEF ListInvs, AnswerInv, Accepted
  <2> QED BY <1>3, <2>1 DEF Joined
<1> QED BY <1>3 DEF Joined

\* Metadata is still to come only for requests that are pending, and a picture
\* has at most an image and its metadata.
LEMMA MetadataKept ==
  ASSUME Inv, MetadataInv, Next
  PROVE  MetadataInv'
<1> DEFINE Gathered == {{"image"}, {"metadata"}, {"image", "metadata"}}
<1>1. /\ ListInvs /\ PlanInv /\ FlushInv /\ CallbackInv
      /\ mPendingRequestsList \subseteq Frames
  BY DEF Inv, ListInvs, ListsInv
<1>2. ASSUME UNCHANGED <<metadata, post, req, mPendingRequestsList>>, Alive' => Alive
      PROVE  MetadataInv'
  BY <1>2 DEF MetadataInv, IsInput
<1>3. ASSUME metadata' = {}, DOMAIN post' = {}
      PROVE  MetadataInv'
  BY <1>3 DEF MetadataInv
<1>4. CASE TakeRequest \/ RefuseRequest
  <2>0. PICK n : n = Len(req) + 1
    OBVIOUS
  <2>1. PICK r \in Request : Enlist(r) /\ (UNCHANGED backend \/ Issue(r))
    BY <1>1, <1>4, HeadIsRequest DEF TakeRequest, RefuseRequest
  <2>2. /\ n \notin Frames /\ req'[n] = r /\ \A f \in Frames : req'[f] = req[f]
    BY <1>1, <2>0, <2>1, EnlistKeeps
  <2>3. mPendingRequestsList' = mPendingRequestsList \cup {n} /\ Alive
    BY <1>4, <2>0, <2>1 DEF Enlist, TakeRequest, RefuseRequest, TakesRequests, Alive
  <2>4. post' = post /\ \A f \in metadata' : f \in metadata \/ (f = n /\ r.kind # "input")
    BY <2>0, <2>1 DEF Issue, backend
  <2>5. metadata \subseteq Frames
    BY <1>1 DEF CallbackInv
  <2> QED BY <2>2, <2>3, <2>4, <2>5 DEF MetadataInv, IsInput
<1>5. CASE ConfigureStreams
  BY <1>3, <1>5 DEF ConfigureStreams
<1>6. ASSUME NEW t \in Threads, StopAllChannels(t)
      PROVE  MetadataInv'
  BY <1>3, <1>6 DEF StopAllChannels
<1>7. ASSUME NEW t \in Threads, FlushPending(t)
      PROVE  MetadataInv'
  <2>1. req' = req /\ UNCHANGED <<metadata, post, mState>>
    BY <1>7 DEF FlushPending, NotifyErrorForPendingRequests, backend
  <2>2. Alive => metadata = {}
    BY <1>1, <1>7 DEF FlushPending, FlushInv, Threads, NothingComes
  <2> QED BY <2>1, <2>2 DEF MetadataInv, Alive, IsInput
<1>8. CASE OrchestrateRequest \/ RejectRequest \/ WakeUp \/ WaitTimesOut \/ Flush
           \/ PullRequest \/ DaemonDied
  BY <1>2, <1>8 DEF OrchestrateRequest, RejectRequest, WakeUp, WaitTimesOut, Flush,
     PullRequest, DaemonDied, Alive, lists, backend
<1>9. ASSUME NEW t \in Threads, HandleError(t) \/ SetFlush(t)
      PROVE  MetadataInv'
  BY <1>2, <1>9 DEF HandleError, CheckError, Deinit, SetFlush, Alive, lists, backend
<1>10. ASSUME NEW f, NEW what \in {"image", "metadata"}
       PROVE  \A g \in DOMAIN Gather(f, what) : Gather(f, what)[g] \in Gathered
  <2>1. \A g \in DOMAIN post : post[g] \in Gathered
    BY DEF MetadataInv
  <2>2. \A P \in Gathered : P \cup {what} \in Gathered
    OBVIOUS
  <2>3. {what} \in Gathered
    OBVIOUS
  <2> HIDE DEF Gathered
  <2> QED BY <2>1, <2>2, <2>3 DEF Gather
<1>11. ASSUME NEW m \in Frames, HandleMetadata(m)
       PROVE  MetadataInv'
  <2>1. metadata' = { f \in metadata : f > m } /\ mState' = mState /\ req' = req
    BY <1>11 DEF HandleMetadata, lists
  <2>2. \A g \in DOMAIN post' : post'[g] \in Gathered
    BY <1>10, <1>11 DEF HandleMetadata, MetadataInv
  <2>3. ASSUME Alive, NEW f \in metadata'
        PROVE  f \in mPendingRequestsList'
    <3>1. f \in metadata /\ f > m /\ f \in Frames
      BY <1>1, <2>1 DEF CallbackInv
    <3>2. f \in mPendingRequestsList /\ f \notin Done(m)
      BY <2>3, <3>1 DEF MetadataInv, Done, Frames
    <3>3. ~ CallbacksOff
      BY <2>3 DEF Alive, CallbacksOff
    <3> QED BY <1>11, <3>2, <3>3 DEF HandleMetadata
  <2> QED BY <2>1, <2>2, <2>3 DEF MetadataInv, Alive, IsInput
<1>12. ASSUME NEW f \in Frames, NEW s \in Streams, HandleBuffer(f, s),
              UNCHANGED <<mState, metadata>>, DOMAIN post' \subseteq DOMAIN post,
              \A g \in DOMAIN post' : post'[g] = post[g]
       PROVE  MetadataInv'
  <2>1. CASE CallbacksOff
    BY <1>12, <2>1 DEF HandleBuffer, lists, MetadataInv, Alive, CallbacksOff, IsInput
  <2>2. CASE ~ CallbacksOff
    <3>1. req' = req /\ \A g \in mPendingRequestsList : ~ IsInput(g) => g \in mPendingRequestsList'
      BY <1>1, <1>12, <2>2, BufferMoves
    <3> QED BY <1>12, <3>1 DEF MetadataInv, Alive, IsInput
  <2> QED BY <2>1, <2>2
<1>13. ASSUME NEW s \in Streams, ImageArrives(s)
       PROVE  MetadataInv'
  <2>1. First(s) \in Frames
    BY <1>13, ArrivesOwed
  <2> QED BY <1>12, <1>13, <2>1 DEF ImageArrives
<1>14. ASSUME NEW s \in Streams, ImageToPostProc(s)
       PROVE  MetadataInv'
  <2>1. UNCHANGED <<mState, metadata, req, mPendingRequestsList>> /\ post' = Gather(First(s), "image")
    BY <1>14 DEF ImageToPostProc, lists
  <2> QED BY <1>10, <2>1 DEF MetadataInv, Alive, IsInput
<1>15. ASSUME NEW f \in Frames, NEW s \in Streams, PostProcDone(f, s) \/ ReprocessOutputDone(f, s)
       PROVE  MetadataInv'
  BY <1>12, <1>15 DEF PostProcDone, ReprocessOutputDone
<1>16. ASSUME NEW f \in Frames, ReprocessInputDone(f)
       PROVE  MetadataInv'
  <2>1. f \in DOMAIN reproc /\ UNCHANGED <<mState, metadata, post, req>>
        /\ mPendingRequestsList \ {f} \subseteq mPendingRequestsList'
    BY <1>16 DEF ReprocessInputDone
  <2>2. IsInput(f)
    BY <1>1, <2>1 DEF CallbackInv
  <2> QED BY <2>1, <2>2 DEF MetadataInv, Alive, IsInput
<1> QED BY <1>4, <1>5, <1>6, <1>7, <1>8, <1>9, <1>11, <1>13, <1>14, <1>15, <1>16, Zenon
        DEF Next, RequestThread, FlushSteps, Callbacks

\* What metadata of frame m does to the images that wait for theirs: those of
\* older requests have missed it, and that of m has it.
LEMMA MetadataJoins ==
  ASSUME Inv, ShapeInv, MetadataInv, Alive, NEW m \in Frames, HandleMetadata(m),
         NEW f \in Frames, NEW s \in NeedsMeta \cap Owes(f), Joined(f)
  PROVE  Joined(f)'
<1>1. /\ ListInvs /\ \A g \in Frames : req[g] \in Request /\ answers[g] \in Answer
      /\ \A g \in Frames : cached[g] \subseteq Streams
  BY ElementsHaveTypes DEF Inv, ListInvs
<1>2. s \in req[f].streams /\ ~ Hidden(f)
  <2>1. s \in req[f].streams
    BY <1>1 DEF ListInvs, ListsInv
  <2> QED BY <2>1 DEF ShapeInv, Shaped, Hidden
<1>3. /\ metadata' = { g \in metadata : g > m } /\ req' = req
      /\ answers' = [g \in Frames |->
            IF g \notin Done(m) \/ Hidden(g) THEN answers[g]
            ELSE Returned(IF g = m THEN Final(Shutter(answers[g]), "result")
                          ELSE Final(answers[g], "error_result"), cached[g])]
      /\ post' = IF m \in Done(m) /\ req[m].streams \cap NeedsMeta # {}
                 THEN Gather(m, "metadata") ELSE post
  BY DEF HandleMetadata, CallbacksOff, Alive
<1>4. CASE f \in metadata /\ ~ f > m /\ ~ req[f].refused
  <2>1. f \in mPendingRequestsList /\ ~ IsInput(f) /\ f <= m
    BY <1>4 DEF MetadataInv, Frames
  <2>2. f \in Done(m)
    BY <2>1 DEF Done
  <2>3. CASE f = m
    <3>1. post' = Gather(m, "metadata")
      BY <1>2, <1>3, <2>2, <2>3
    <3>2. f \in DOMAIN post' /\ "metadata" \in post'[f]
      BY <2>3, <3>1 DEF Gather
    <3> QED BY <3>2 DEF Joined
  <2>4. CASE f # m
    <3>1. answers'[f] = Returned(Final(answers[f], "error_result"), cached[f])
      BY <1>2, <1>3, <2>2, <2>4
    <3>2. answers[f] \in Answer /\ answers[f].finals = <<>>
      BY <1>1, <1>2, <1>4, <2>1 DEF ListInvs, AnswerInv, Accepted
    <3>3. /\ Final(answers[f], "error_result") \in Answer
          /\ Final(answers[f], "error_result").finals = <<"error_result">>
      BY <3>2, FinalIs DEF Verdict
    <3>4. answers'[f].finals = <<"error_result">>
      BY <3>1, <3>3, ReturnedIs
    <3> QED BY <3>4 DEF Joined
  <2> QED BY <2>3, <2>4
<1>5. CASE ~ (f \in metadata /\ ~ f > m) \/ req[f].refused
  <2>1. f \in metadata /\ ~ req[f].refused => f \in metadata'
    BY <1>3, <1>5
  <2>2. f \in DOMAIN post /\ "metadata" \in post[f] => f \in DOMAIN post' /\ "metadata" \in post'[f]
    BY <1>3 DEF Gather
  <2>3. f \notin mPendingRequestsList => answers'[f].finals = answers[f].finals
    BY <1>3 DEF Done
  <2>4. CASE req[f].refused
    BY <1>3, <2>4 DEF Joined
  <2>5. CASE ~ req[f].refused
    BY <1>1, <1>3, <2>1, <2>2, <2>3, <2>5, JoinedStays
  <2> QED BY <2>4, <2>5
<1> QED BY <1>4, <1>5

\* An image in the post-processor has its metadata, will have it or has missed it.
LEMMA JoinKept ==
  ASSUME OnePicture, Inv, ShapeInv, MetadataInv, JoinInv, Next
  PROVE  JoinInv'
<1>1. /\ ListInvs /\ PlanInv /\ FlushInv /\ CallbackInv
  BY DEF Inv
\* No image comes to wait, and what is joined stays joined.
<1>2. ASSUME Alive' => Alive, req' = req, \A f \in Frames : Owes(f)' \subseteq Owes(f),
             \A f \in Frames : \A s \in NeedsMeta \cap Owes(f)' :
                 /\ f \in images'[s] \/ HasImage(f)' => f \in images[s] \/ HasImage(f)
                 /\ Alive /\ Joined(f) => Joined(f)'
      PROVE  JoinInv'
  <2>1. Frames' = Frames
    BY <1>2 DEF Frames
  <2> SUFFICES ASSUME Alive, NEW f \in Frames, NEW s \in NeedsMeta \cap Owes(f)',
                      f \in images'[s] \/ HasImage(f)'
      PROVE  Joined(f)'
    BY <1>2, <2>1 DEF JoinInv
  <2>2. s \in NeedsMeta \cap Owes(f) /\ (f \in images[s] \/ HasImage(f))
    BY <1>2
  <2>3. Joined(f)
    BY <2>2 DEF JoinInv
  <2> QED BY <1>2, <2>3
<1>3. ASSUME UNCHANGED <<lists, backend, answers>>, Alive' => Alive
      PROVE  JoinInv'
  <2>1. UNCHANGED <<req, mPendingBuffersMap, metadata, images, post>>
    BY <1>3 DEF lists, backend
  <2> QED BY <1>2, <1>3, <2>1 DEF Owes, HasImage, Joined
<1>4. ASSUME DOMAIN post' = {}, \A s \in Streams : images'[s] = {}
      PROVE  JoinInv'
  BY <1>4, HWIAssumption DEF JoinInv, HasImage
<1>5. CASE TakeRequest \/ RefuseRequest
  <2>0. PICK n : n = Len(req) + 1
    OBVIOUS
  <2>1. PICK r \in Request : Enlist(r) /\ (UNCHANGED backend \/ Issue(r))
    BY <1>1, <1>5, HeadIsRequest DEF TakeRequest, RefuseRequest
  <2>2. /\ Frames' = Frames \cup {n} /\ n \notin Frames
        /\ \A f \in Frames : /\ req'[f] = req[f] /\ Owes(f)' = Owes(f)
                             /\ answers'[f] = answers[f]
    BY <1>1, <2>0, <2>1, EnlistKeeps
  <2>3. Alive
    BY <1>5 DEF TakeRequest, RefuseRequest, TakesRequests, Alive
  <2>4. /\ images \in [Streams -> SUBSET Frames] /\ DOMAIN post \subseteq Frames
        /\ NeedsMeta \subseteq Streams
    BY <1>1, HWIAssumption DEF CallbackInv
  <2>5. /\ post' = post /\ metadata \subseteq metadata'
        /\ \A s \in Streams : \A f \in images'[s] : f \in images[s] \/ (f = n /\ n \in metadata')
    <3>1. CASE UNCHANGED backend
      BY <3>1 DEF backend
    <3>2. CASE Issue(r)
      <4>1. /\ post' = post
            /\ metadata' = IF r.kind = "input" THEN metadata ELSE metadata \cup {n}
            /\ images' = [s \in Streams |->
                  IF r.kind = "live" /\ s \in r.streams THEN images[s] \cup {n} ELSE images[s]]
        BY <2>0, <3>2 DEF Issue
      <4> QED BY <4>1
    <3> QED BY <2>1, <3>1, <3>2
  <2> SUFFICES ASSUME NEW f \in Frames', NEW s \in NeedsMeta \cap Owes(f)',
                      f \in images'[s] \/ HasImage(f)'
      PROVE  Joined(f)'
    BY DEF JoinInv
  <2>6. CASE f = n
    <3>1. ~ HasImage(f)'
      BY <2>2, <2>4, <2>5, <2>6 DEF HasImage
    <3>2. n \in metadata'
      BY <2>2, <2>4, <2>5, <2>6, <3>1
    <3> QED BY <2>6, <3>2 DEF Joined
  <2>7. CASE f # n
    <3>1. f \in Frames /\ s \in NeedsMeta \cap Owes(f) /\ (f \in images[s] \/ HasImage(f))
      BY <2>2, <2>4, <2>5, <2>7 DEF HasImage
    <3>2. Joined(f)
      BY <2>3, <3>1 DEF JoinInv
    <3> QED BY <2>2, <2>5, <3>1, <3>2 DEF Joined
  <2> QED BY <2>6, <2>7
<1>6. CASE ConfigureStreams
  BY <1>4, <1>6 DEF ConfigureStreams
<1>7. ASSUME NEW t \in Threads, StopAllChannels(t)
      PROVE  JoinInv'
  BY <1>4, <1>7 DEF StopAllChannels
<1>8. ASSUME NEW t \in Threads, FlushPending(t)
      PROVE  JoinInv'
  <2>1. mPendingBuffersMap' = <<>>
    BY <1>8 DEF FlushPending, NotifyErrorForPendingRequests
  <2>2. \A f : Owes(f)' = {}
    BY <2>1 DEF Owes
  <2> QED BY <2>2 DEF JoinInv
<1>9. CASE OrchestrateRequest \/ RejectRequest \/ WakeUp \/ WaitTimesOut \/ Flush
           \/ PullRequest \/ DaemonDied
  BY <1>3, <1>9 DEF OrchestrateRequest, RejectRequest, WakeUp, WaitTimesOut, Flush,
     PullRequest, DaemonDied, Alive
<1>10. ASSUME NEW t \in Threads, HandleError(t) \/ SetFlush(t)
       PROVE  JoinInv'
  BY <1>3, <1>10 DEF HandleError, CheckError, Deinit, SetFlush, Alive
<1>11. ASSUME NEW m \in Frames, HandleMetadata(m)
       PROVE  JoinInv'
  <2>1. mState' = mState
    BY <1>11 DEF HandleMetadata
  <2>2. CASE ~ Alive
    BY <2>1, <2>2 DEF JoinInv, Alive
  <2>3. CASE Alive
    <3>1. /\ UNCHANGED <<req, images>> /\ mPendingBuffersMap' = RemoveBufs(Done(m), cached)
          /\ post' = IF m \in Done(m) /\ req[m].streams \cap NeedsMeta # {}
                     THEN Gather(m, "metadata") ELSE post
      BY <1>11, <2>3 DEF HandleMetadata, CallbacksOff, Alive
    <3>2. \A f : Owes(f)' \subseteq Owes(f)
      BY <3>1, RemoveBufsIs
    <3>3. \A f : HasImage(f)' => HasImage(f)
      BY <3>1 DEF Gather, HasImage
    <3>4. ASSUME NEW f \in Frames, NEW s \in NeedsMeta \cap Owes(f)', Joined(f)
          PROVE  Joined(f)'
      BY <1>11, <2>3, <3>2, <3>4, MetadataJoins
    <3> QED BY <1>2, <2>1, <3>1, <3>2, <3>3, <3>4 DEF Alive
  <2> QED BY <2>2, <2>3
\* A buffer is back, and the metadata of no other is lost.
<1>12. ASSUME NEW f \in Frames, NEW s \in Streams, HandleBuffer(f, s), UNCHANGED <<mState, metadata>>,
              \A x \in Streams : images'[x] \subseteq images[x], DOMAIN post' \subseteq DOMAIN post,
              \A g \in DOMAIN post' : post'[g] = post[g],
              \A g \in DOMAIN post \ DOMAIN post' : ~ CallbacksOff =>
                  g = f /\ NeedsMeta \cap Owes(f)' = {}
       PROVE  JoinInv'
  <2>1. CASE CallbacksOff
    BY <1>12, <2>1 DEF JoinInv, Alive, CallbacksOff
  <2>2. CASE ~ CallbacksOff
    <3>1. /\ req' = req /\ \A g : Owes(g)' \subseteq Owes(g)
          /\ \A g \in Frames : g \notin mPendingRequestsList => answers'[g].finals = answers[g].finals
      BY <1>1, <1>12, <2>2, BufferMoves
    <3>2. ASSUME NEW g \in Frames, NEW x \in NeedsMeta \cap Owes(g)', Joined(g)
          PROVE  Joined(g)'
      <4>1. g \in DOMAIN post => g \in DOMAIN post' /\ post'[g] = post[g]
        BY <1>12, <2>2, <3>2
      <4> QED BY <1>1, <1>12, <3>1, <3>2, <4>1, JoinedStays
    <3>3. NeedsMeta \subseteq Streams /\ \A g : HasImage(g)' => HasImage(g)
      BY <1>12, HWIAssumption DEF HasImage
    <3> QED BY <1>2, <1>12, <3>1, <3>2, <3>3 DEF Alive
  <2> QED BY <2>1, <2>2
<1>13. ASSUME NEW s \in Streams, ImageArrives(s)
       PROVE  JoinInv'
  <2>1. First(s) \in Frames /\ images \in [Streams -> SUBSET Frames]
    BY <1>1, <1>13, ArrivesOwed DEF CallbackInv
  <2>2. /\ HandleBuffer(First(s), s) /\ UNCHANGED <<mState, metadata, post>>
        /\ images' = [images EXCEPT ![s] = images[s] \ {First(s)}]
    BY <1>13 DEF ImageArrives
  <2> QED BY <1>12, <2>1, <2>2
<1>14. ASSUME NEW s \in Streams, ImageToPostProc(s)
       PROVE  JoinInv'
  <2> DEFINE f == First(s)
  <2>1. /\ UNCHANGED <<lists, answers, mState, metadata>> /\ s \in NeedsMeta /\ images[s] # {}
        /\ images' = [images EXCEPT ![s] = @ \ {f}] /\ post' = Gather(f, "image")
    BY <1>14 DEF ImageToPostProc
  <2>2. images \in [Streams -> SUBSET Frames]
    BY <1>1 DEF CallbackInv
  <2>3. f \in images[s] /\ f \in Frames
    BY <2>1, <2>2, FirstIs DEF Frames
  <2>4. /\ req' = req /\ mPendingBuffersMap' = mPendingBuffersMap /\ \A g : Owes(g)' = Owes(g)
    BY <2>1 DEF lists, Owes
  <2>5. ASSUME NEW g, Joined(g)
        PROVE  Joined(g)'
    BY <2>1, <2>4, <2>5 DEF Joined, Gather
  <2>6. ASSUME NEW g \in Frames, NEW x \in NeedsMeta, g \in images'[x] \/ HasImage(g)'
        PROVE  g \in images[x] \/ HasImage(g)
    <3>1. x = s
      BY <2>1 DEF OnePicture
    <3>2. images'[s] \subseteq images[s]
      BY <2>1, <2>2
    <3>3. HasImage(g)' => g = f \/ HasImage(g)
      BY <2>1 DEF HasImage, Gather
    <3> QED BY <2>3, <2>6, <3>1, <3>2, <3>3
  <2> QED BY <1>2, <2>1, <2>4, <2>5, <2>6 DEF Alive
<1>15. ASSUME NEW f \in Frames, NEW s \in Streams, PostProcDone(f, s)
       PROVE  JoinInv'
  <2>1. /\ HandleBuffer(f, s) /\ UNCHANGED <<mState, metadata, images>>
        /\ post' = [g \in DOMAIN post \ {f} |-> post[g]]
    BY <1>15 DEF PostProcDone
  <2>2. s \in NeedsMeta /\ (~ CallbacksOff => f \notin mPendingRequestsList)
    BY <1>15, PostProcOwed
  <2>3. ~ CallbacksOff => s \notin Owes(f)'
    BY <1>1, <2>1, <2>2, BufferMoves
  <2>4. ~ CallbacksOff => NeedsMeta \cap Owes(f)' = {}
    BY <2>2, <2>3 DEF OnePicture
  <2> QED BY <1>12, <2>1, <2>4
<1>16. ASSUME NEW f \in Frames, NEW s \in Streams, ReprocessOutputDone(f, s)
       PROVE  JoinInv'
  BY <1>12, <1>16 DEF ReprocessOutputDone
<1>17. ASSUME NEW f \in Frames, ReprocessInputDone(f)
       PROVE  JoinInv'
  <2>1. /\ UNCHANGED <<mState, metadata, images, post, req, mPendingBuffersMap>>
        /\ \/ UNCHANGED answers
           \/ /\ answers' = [answers EXCEPT ![f] = Final(Shutter(@), "result")]
              /\ f \in mPendingRequestsList
    BY <1>17 DEF ReprocessInputDone
  <2>2. \A g \in Frames : g \notin mPendingRequestsList => answers'[g] = answers[g]
    <3>1. \A g \in Frames : g \in DOMAIN answers
      BY <1>1 DEF ListInvs, ListsInv, Frames
    <3> QED BY <2>1, <3>1
  <2>3. \A g : Owes(g)' = Owes(g)
    BY <2>1 DEF Owes
  <2>4. ASSUME NEW g \in Frames, NEW x \in NeedsMeta \cap Owes(g), Joined(g)
        PROVE  Joined(g)'
    BY <1>1, <2>1, <2>2, <2>4, JoinedStays
  <2> QED BY <1>2, <2>1, <2>3, <2>4 DEF Alive, HasImage
<1> QED BY <1>5, <1>6, <1>7, <1>8, <1>9, <1>10, <1>11, <1>13, <1>14, <1>15, <1>16, <1>17, Zenon
        DEF Next, RequestThread, FlushSteps, Callbacks

\* A buffer that is owed stays somewhere until it is back, while no flush is on.
LEMMA WhereKept ==
  ASSUME OnePicture, Inv, ShapeInv, WhereInv, Next
  PROVE  WhereInv'
<1>1. /\ ListInvs /\ PlanInv /\ FlushInv /\ CallbackInv
  BY DEF Inv
\* What is owed was owed, and stays where it was or moves on.
<1>2. ASSUME Alive' => Alive, ~ mFlush' => ~ mFlush, req' = req,
             \A f \in Frames : Owes(f)' \subseteq Owes(f),
             \A f \in Frames : \A s \in Owes(f)' :
                 Alive /\ Somewhere(f, s) => Somewhere(f, s)'
      PROVE  WhereInv'
  <2>1. Frames' = Frames
    BY <1>2 DEF Frames
  <2> QED BY <1>2, <2>1 DEF WhereInv
<1>3. ASSUME UNCHANGED <<lists, backend>>, Alive' => Alive, ~ mFlush' => ~ mFlush
      PROVE  WhereInv'
  <2>1. UNCHANGED <<req, mPendingBuffersMap, cached, images, post, reproc>>
    BY <1>3 DEF lists, backend
  <2> QED BY <1>2, <1>3, <2>1 DEF Owes, HasImage, Somewhere
<1>4. ASSUME mPendingBuffersMap' = <<>>
      PROVE  WhereInv'
  BY <1>4 DEF WhereInv, Owes
<1>5. CASE TakeRequest \/ RefuseRequest
  <2>0. PICK n : n = Len(req) + 1
    OBVIOUS
  <2>1. PICK r \in Request : /\ Enlist(r)
                             /\ \/ mFlush /\ UNCHANGED backend
                                \/ Issue(r) /\ (r.kind = "internal" => r.streams = {})
                                \/ r.refused /\ UNCHANGED backend
    <3>1. Head(plan) \in Request /\ Head(plan) = plan[1] /\ 1 \in 1 .. Len(plan)
          /\ [Head(plan) EXCEPT !.refused = TRUE] \in Request
          /\ [Head(plan) EXCEPT !.refused = TRUE].refused
      <4>1. pc["request"] = "call"
        BY <1>5 DEF TakeRequest, RefuseRequest
      <4>2. plan \in Seq(Request) /\ plan # <<>> /\ Head(plan) \in Request /\ Head(plan) = plan[1]
            /\ [Head(plan) EXCEPT !.refused = TRUE] \in Request
        BY <1>1, <4>1, HeadIsRequest DEF PlanInv
      <4>3. [Head(plan) EXCEPT !.refused = TRUE].refused
        BY <4>2 DEF Request
      <4> QED BY <4>2, <4>3
    <3>2. Head(plan).kind = "internal" => Head(plan).streams = {}
      BY <3>1 DEF ShapeInv, Shaped
    <3>3. CASE TakeRequest
      BY <3>1, <3>2, <3>3 DEF TakeRequest, Withheld
    <3>4. CASE RefuseRequest
      BY <3>1, <3>4 DEF RefuseRequest
    <3> QED BY <1>5, <3>3, <3>4
  <2>2. /\ Frames' = Frames \cup {n} /\ n \notin Frames
        /\ \A f \in Frames : /\ req'[f] = req[f] /\ Owes(f)' = Owes(f)
                             /\ cached'[f] = cached[f]
        /\ req'[n] = r /\ Owes(n)' = r.streams
    BY <1>1, <2>0, <2>1, EnlistKeeps
  <2>3. Alive /\ mFlush' = mFlush
    BY <1>5 DEF TakeRequest, RefuseRequest, TakesRequests, Alive
  <2>4. images \in [Streams -> SUBSET Frames] /\ r.streams \subseteq Streams
        /\ r.kind \in {"live", "input", "internal"}
        /\ \A f \in Frames : Owes(f) \subseteq Streams
    BY <1>1, ElementsHaveTypes DEF CallbackInv, Request, ListInvs, ListsInv
  <2>5. /\ post' = post /\ DOMAIN reproc \subseteq DOMAIN reproc'
        /\ \A s \in Streams : images[s] \subseteq images'[s]
    <3>1. CASE UNCHANGED backend
      BY <3>1 DEF backend
    <3>2. CASE Issue(r)
      BY <2>4, <3>2 DEF Issue
    <3> QED BY <2>1, <3>1, <3>2
  <2> SUFFICES ASSUME ~ mFlush, NEW f \in Frames', NEW s \in Owes(f)'
      PROVE  Somewhere(f, s)'
    BY <2>3 DEF WhereInv
  <2>6. CASE f = n
    <3>1. CASE r.refused
      BY <2>2, <2>6, <3>1 DEF Somewhere
    <3>2. CASE Issue(r) /\ (r.kind = "internal" => r.streams = {})
      <4>1. s \in r.streams /\ s \in Streams
        BY <2>2, <2>4, <2>6
      <4>2. r.kind = "live" => n \in images'[s]
        BY <2>0, <3>2, <4>1 DEF Issue
      <4>3. r.kind = "input" => n \in DOMAIN reproc'
        BY <2>0, <3>2 DEF Issue
      <4> QED BY <2>4, <2>6, <3>2, <4>1, <4>2, <4>3 DEF Somewhere
    <3> QED BY <2>1, <3>1, <3>2
  <2>7. CASE f # n
    <3>1. f \in Frames /\ s \in Owes(f) /\ s \in Streams
      BY <2>2, <2>4, <2>7
    <3>2. Somewhere(f, s)
      BY <2>3, <3>1 DEF WhereInv
    <3> QED BY <2>2, <2>5, <3>1, <3>2 DEF Somewhere, HasImage
  <2> QED BY <2>6, <2>7
<1>6. CASE ConfigureStreams
  BY <1>4, <1>6 DEF ConfigureStreams
<1>7. ASSUME NEW t \in Threads, StopAllChannels(t)
      PROVE  WhereInv'
  <2>1. mState' = mState /\ mFlush' = mFlush /\ pc[t] = "stop"
    BY <1>7 DEF StopAllChannels
  <2>2. Alive => mFlush
    BY <1>1, <2>1 DEF FlushInv, Threads
  <2> QED BY <2>1, <2>2 DEF WhereInv, Alive
<1>8. ASSUME NEW t \in Threads, FlushPending(t)
      PROVE  WhereInv'
  BY <1>4, <1>8 DEF FlushPending, NotifyErrorForPendingRequests
<1>9. CASE OrchestrateRequest \/ RejectRequest \/ WakeUp \/ WaitTimesOut \/ Flush
           \/ PullRequest \/ DaemonDied
  BY <1>3, <1>9 DEF OrchestrateRequest, RejectRequest, WakeUp, WaitTimesOut, Flush,
     PullRequest, DaemonDied, Alive
<1>10. ASSUME NEW t \in Threads, HandleError(t)
       PROVE  WhereInv'
  BY <1>3, <1>10 DEF HandleError, CheckError, Deinit, Alive
<1>11. ASSUME NEW t \in Threads, SetFlush(t)
       PROVE  WhereInv'
  BY <1>11 DEF SetFlush, WhereInv
<1>12. ASSUME NEW m \in Frames, HandleMetadata(m)
       PROVE  WhereInv'
  <2>1. mState' = mState /\ mFlush' = mFlush
    BY <1>12 DEF HandleMetadata
  <2>2. CASE ~ Alive
    BY <2>1, <2>2 DEF WhereInv, Alive
  <2>3. CASE Alive
    <3>1. /\ UNCHANGED <<req, images, reproc>> /\ mPendingBuffersMap' = RemoveBufs(Done(m), cached)
          /\ post' = IF m \in Done(m) /\ req[m].streams \cap NeedsMeta # {}
                     THEN Gather(m, "metadata") ELSE post
          /\ cached' = [f \in Frames |-> IF f \in Done(m) THEN {} ELSE cached[f]]
      BY <1>12, <2>3 DEF HandleMetadata, CallbacksOff, Alive
    <3>2. \A f : Owes(f)' = IF f \in Done(m) THEN Owes(f) \ cached[f] ELSE Owes(f)
      BY <3>1, RemoveBufsIs
    <3>3. \A f : HasImage(f) => HasImage(f)'
      BY <3>1 DEF Gather, HasImage
    <3>4. ASSUME NEW f \in Frames, NEW s \in Owes(f)', Somewhere(f, s)
          PROVE  Somewhere(f, s)'
      BY <3>1, <3>2, <3>3, <3>4 DEF Somewhere
    <3> QED BY <1>2, <2>1, <3>1, <3>2, <3>4 DEF Alive
  <2> QED BY <2>2, <2>3
\* A buffer is back, and nothing else that is owed was in the same place.
<1>13. ASSUME NEW f \in Frames, NEW s \in Streams, HandleBuffer(f, s), UNCHANGED <<mState, mFlush>>,
              ~ CallbacksOff => \A g \in Frames : \A x \in Owes(g)' :
                  (g # f \/ x # s) /\ Somewhere(g, x) =>
                     \/ g \in images'[x] \/ g \in DOMAIN reproc' \/ (x \in NeedsMeta /\ HasImage(g)')
                     \/ x \in cached[g] \/ req[g].refused
       PROVE  WhereInv'
  <2>1. CASE CallbacksOff
    BY <1>13, <2>1 DEF WhereInv, Alive, CallbacksOff
  <2>2. CASE ~ CallbacksOff
    <3>1. /\ req' = req /\ \A g : Owes(g)' \subseteq Owes(g)
          /\ \A g \in Frames : cached[g] \subseteq cached'[g]
          /\ s \in Owes(f)' => s \in cached'[f]
      BY <1>1, <1>13, <2>2, BufferMoves
    <3>2. ASSUME NEW g \in Frames, NEW x \in Owes(g)', Somewhere(g, x)
          PROVE  Somewhere(g, x)'
      <4>1. CASE g = f /\ x = s
        BY <3>1, <3>2, <4>1 DEF Somewhere
      <4>2. CASE g # f \/ x # s
        BY <1>13, <2>2, <3>1, <3>2, <4>2 DEF Somewhere
      <4> QED BY <4>1, <4>2
    <3> QED BY <1>2, <1>13, <3>1, <3>2 DEF Alive
  <2> QED BY <2>1, <2>2
<1>14. ASSUME NEW s \in Streams, ImageArrives(s)
       PROVE  WhereInv'
  <2>0. PICK f : f = First(s)
    OBVIOUS
  <2>1. f \in Frames /\ images \in [Streams -> SUBSET Frames]
    BY <2>0, <1>1, <1>14, ArrivesOwed DEF CallbackInv
  <2>2. /\ HandleBuffer(f, s) /\ UNCHANGED <<mState, mFlush, reproc, post>>
        /\ images' = [images EXCEPT ![s] = images[s] \ {f}]
    BY <2>0, <1>14 DEF ImageArrives
  <2>3. \A g, x : (g # f \/ x # s) /\ g \in images[x] /\ x \in Streams => g \in images'[x]
    BY <2>1, <2>2
  <2>4. ~ CallbacksOff => \A g \in Frames : Owes(g)' \subseteq Streams
    <3>1. ~ CallbacksOff => \A g : Owes(g)' \subseteq Owes(g)
      BY <1>1, <2>1, <2>2, BufferMoves
    <3> QED BY <1>1, <3>1, ElementsHaveTypes DEF ListInvs, ListsInv
  <2> QED BY <1>13, <2>1, <2>2, <2>3, <2>4 DEF Somewhere, HasImage
<1>15. ASSUME NEW s \in Streams, ImageToPostProc(s)
       PROVE  WhereInv'
  <2>0. PICK f : f = First(s)
    OBVIOUS
  <2>1. /\ UNCHANGED <<lists, mState, mFlush, reproc>> /\ s \in NeedsMeta
        /\ images' = [images EXCEPT ![s] = @ \ {f}] /\ post' = Gather(f, "image")
    BY <2>0, <1>15 DEF ImageToPostProc
  <2>2. images \in [Streams -> SUBSET Frames]
    BY <1>1 DEF CallbackInv
  <2>3. /\ UNCHANGED <<req, cached, mPendingBuffersMap>> /\ \A g : Owes(g)' = Owes(g)
    BY <2>1 DEF lists, Owes
  <2>4. HasImage(f)' /\ \A g : HasImage(g) => HasImage(g)'
    BY <2>1 DEF HasImage, Gather
  <2>5. ASSUME NEW g \in Frames, NEW x \in Owes(g), Somewhere(g, x)
        PROVE  Somewhere(g, x)'
    <3>1. x \in Streams
      BY <1>1, ElementsHaveTypes DEF ListInvs, ListsInv
    <3>2. g \in images[x] => g \in images'[x] \/ (g = f /\ x = s)
      BY <2>1, <2>2, <3>1
    <3> QED BY <2>1, <2>3, <2>4, <2>5, <3>2 DEF Somewhere
  <2> QED BY <1>2, <2>1, <2>3, <2>5 DEF Alive
<1>16. ASSUME NEW f \in Frames, NEW s \in Streams, PostProcDone(f, s)
       PROVE  WhereInv'
  <2>1. /\ HandleBuffer(f, s) /\ UNCHANGED <<mState, mFlush, images, reproc>>
        /\ post' = [g \in DOMAIN post \ {f} |-> post[g]]
    BY <1>16 DEF PostProcDone
  <2>2. s \in NeedsMeta
    BY <1>16, PostProcOwed
  <2>3. \A g : g # f /\ HasImage(g) => HasImage(g)'
    BY <2>1 DEF HasImage
  <2>4. \A x \in NeedsMeta : x = s
    BY <2>2 DEF OnePicture
  <2> QED BY <1>13, <2>1, <2>3, <2>4 DEF Somewhere
<1>17. ASSUME NEW f \in Frames, NEW s \in Streams, ReprocessOutputDone(f, s)
       PROVE  WhereInv'
  <2>1. /\ HandleBuffer(f, s) /\ UNCHANGED <<mState, mFlush, images, post>>
        /\ reproc' = [g \in DOMAIN reproc \ {f} |-> reproc[g]]
    BY <1>17 DEF ReprocessOutputDone
  <2>2. s \in req[f].streams /\ IsInput(f)
    BY <1>17, OutputOwed
  <2>3. ~ CallbacksOff => \A x \in Owes(f)' : x = s
    <3>1. ~ CallbacksOff => Owes(f)' \subseteq Owes(f)
      BY <1>1, <2>1, BufferMoves
    <3>2. \A x \in Owes(f) : x = s
      BY <1>1, <2>2 DEF ListInvs, ListsInv, ShapeInv, Shaped, IsInput
    <3> QED BY <3>1, <3>2
  <2>4. \A g : HasImage(g) => HasImage(g)'
    BY <2>1 DEF HasImage
  <2> QED BY <1>13, <2>1, <2>3, <2>4 DEF Somewhere
<1>18. ASSUME NEW f \in Frames, ReprocessInputDone(f)
       PROVE  WhereInv'
  <2>1. /\ UNCHANGED <<mState, mFlush, images, post, req, mPendingBuffersMap, cached>>
        /\ DOMAIN reproc' = DOMAIN reproc
    BY <1>18 DEF ReprocessInputDone
  <2> QED BY <1>2, <2>1 DEF Alive, HasImage, Somewhere, Owes
<1> QED BY <1>5, <1>6, <1>7, <1>8, <1>9, <1>10, <1>11, <1>12, <1>14, <1>15, <1>16, <1>17, <1>18, Zenon
        DEF Next, RequestThread, FlushSteps, Callbacks

\* While the camera works and nobody flushes, a buffer the framework waits for
\* is where it comes back from by itself: no path through the channels, the
\* cache, the post-processor and a reprocess job drops one.
THEOREM BufferIsSomewhere ==
  ASSUME OnePicture, OneOutput
  PROVE  Spec => []BufferComesBack
<1> DEFINE All == Inv /\ ShapeInv /\ MetadataInv /\ JoinInv /\ WhereInv
<1>1. ASSUME Init PROVE All
  <2>1. /\ Frames = {} /\ Len(plan) = 0 /\ metadata = {} /\ DOMAIN post = {}
    BY <1>1 DEF Init, Frames
  <2> QED BY <1>1, <2>1, InvInit DEF ShapeInv, MetadataInv, JoinInv, WhereInv
<1>2. ASSUME All, [Next]_vars PROVE All'
  <2>1. CASE Next
    BY <1>2, <2>1, InvKept, ShapeKept, MetadataKept, JoinKept, WhereKept
  <2>2. CASE UNCHANGED vars
    <3>1. UNCHANGED <<mState, mFlush, req, plan, mPendingRequestsList, mPendingBuffersMap, cached,
                      metadata, images, post, reproc, answers>>
      BY <2>2 DEF vars, lists, backend, threads
    <3>2. Inv'
      BY <1>2, InvKept
    <3>3. ShapeInv' /\ MetadataInv'
      BY <1>2, <3>1 DEF ShapeInv, MetadataInv, Frames, Alive, IsInput
    <3>4. JoinInv'
      BY <1>2, <3>1 DEF JoinInv, Frames, Alive, Owes, HasImage, Joined
    <3>5. WhereInv'
      BY <1>2, <3>1 DEF WhereInv, Frames, Alive, Owes, HasImage, Somewhere
    <3> QED BY <3>2, <3>3, <3>4, <3>5
  <2> QED BY <1>2, <2>1, <2>2
<1>3. ASSUME All PROVE BufferComesBack
  <2> SUFFICES ASSUME mState = "STARTED", ~ mFlush, NEW f \in DOMAIN mPendingBuffersMap,
                      NEW s \in mPendingBuffersMap[f]
      PROVE  \/ f \in images[s] \/ s \in cached[f] \/ f \in DOMAIN reproc
             \/ /\ s \in NeedsMeta /\ f \in DOMAIN post
                /\ \/ post[f] = {"image", "metadata"} \/ f \in metadata
                   \/ answers[f].finals = <<"error_result">>
             \/ req[f].refused
    BY DEF BufferComesBack
  <2>1. f \in Frames /\ s \in Owes(f) /\ Alive
    BY <1>3 DEF Inv, ListInvs, ListsInv, Owes, Alive
  <2>2. Somewhere(f, s)
    BY <1>3, <2>1 DEF WhereInv
  <2>3. CASE s \in NeedsMeta /\ HasImage(f)
    <3>1. Joined(f)
      BY <1>3, <2>1, <2>3 DEF JoinInv
    <3>2. f \in DOMAIN post /\ "image" \in post[f]
          /\ post[f] \in {{"image"}, {"metadata"}, {"image", "metadata"}}
      BY <1>3, <2>3 DEF HasImage, MetadataInv
    <3>3. "metadata" \in post[f] => post[f] = {"image", "metadata"}
      BY <3>2
    <3> QED BY <2>3, <3>1, <3>2, <3>3 DEF Joined
  <2> QED BY <2>2, <2>3 DEF Somewhere
<1> QED BY <1>1, <1>2, <1>3, PTL DEF Spec
=============================================================================
