------------------------ MODULE BufferOwnershipProofs ------------------------
(* What BufferOwnership promises holds, for every set of buffers.              *)
EXTENDS BufferOwnership, TLAPS

\* At first the driver has nothing, nor has anybody else.
LEMMA OwnershipInit == Init => OwnershipInv
<1> SUFFICES ASSUME Init PROVE OwnershipInv
  OBVIOUS
<1>1. open \in BOOLEAN /\ ~ open
  BY Zenon DEF Init
<1>2. phase \in [Buf -> Phase] /\ users \in [Buf -> Nat] /\ lost \in [Buf -> Nat]
  BY SMT DEF Init, Phase, Nobody
<1>3. \A b \in Buf : phase[b] = "closed" /\ users[b] = 0 /\ lost[b] = 0
  BY Zenon DEF Init, Nobody
<1>4. \A b \in Buf : phase[b] = "shared" <=> users[b] + lost[b] > 0
  <2> TAKE b \in Buf
  <2>1. phase[b] # "shared"
    BY <1>3, SMT
  <2>2. ~ (users[b] + lost[b] > 0)
    BY <1>3, SMT
  <2> QED BY <2>1, <2>2, Zenon
<1>5. Consistent(phase, users, lost)
  BY <1>4, Zenon DEF Consistent
<1>6. failures \in Nat /\ \A b \in Buf : lost[b] <= failures
  BY <1>3, SMT DEF Init
<1> QED BY <1>1, <1>2, <1>5, <1>6, Zenon DEF OwnershipInv

\* One buffer moves from one phase to another, with the references, lost ones
\* included, that fit.
LEMMA OneMoves ==
  ASSUME OwnershipInv, NEW b \in Buf, NEW to \in Phase \ {"closed"}, NEW n \in Nat, NEW m \in Nat,
         (to = "shared") <=> n + m > 0,
         phase' = [phase EXCEPT ![b] = to], users' = [users EXCEPT ![b] = n],
         lost' = [lost EXCEPT ![b] = m], open' = open,
         failures' \in {failures, failures + 1}, m <= failures'
  PROVE  OwnershipInv'
<1>1. /\ open' \in BOOLEAN /\ phase' \in [Buf -> Phase] /\ users' \in [Buf -> Nat]
      /\ lost' \in [Buf -> Nat] /\ failures' \in Nat
  BY DEF OwnershipInv
<1>2. ASSUME NEW c \in Buf
      PROVE  /\ phase'[c] = "shared" <=> users'[c] + lost'[c] > 0
             /\ lost'[c] <= failures'
  <2>1. CASE c = b
    <3>1. phase'[b] = to /\ users'[b] = n /\ lost'[b] = m
      BY DEF OwnershipInv
    <3>2. ("shared" = phase'[b]) <=> users'[b] + lost'[b] > 0
      BY <3>1, Zenon
    <3>3. lost'[b] <= failures'
      BY <3>1, SMT
    <3> QED BY <2>1, <3>2, <3>3, Zenon
  <2>2. CASE c # b
    <3>1. phase'[c] = phase[c] /\ users'[c] = users[c] /\ lost'[c] = lost[c]
      BY <2>2 DEF OwnershipInv
    <3>2. phase[c] = "shared" <=> users[c] + lost[c] > 0
      BY Zenon DEF OwnershipInv, Consistent
    <3>3. lost[c] \in Nat /\ failures \in Nat /\ lost[c] <= failures
      BY SMT DEF OwnershipInv
    <3>4. lost'[c] <= failures'
      BY <3>1, <3>3, SMT
    <3> QED BY <3>1, <3>2, <3>4, Zenon
  <2> QED BY <2>1, <2>2
<1>3. open' => \A c \in Buf : phase'[c] # "closed"
  BY DEF OwnershipInv
<1>4. Consistent(phase, users, lost)'
  BY <1>2, Zenon DEF Consistent
<1> QED BY <1>1, <1>2, <1>3, <1>4 DEF OwnershipInv

\* No reference is lost: the buffer only moves.
LEMMA OneKeeps ==
  ASSUME OwnershipInv, NEW b \in Buf, NEW to \in Phase \ {"closed"}, NEW n \in Nat,
         (to = "shared") <=> n + lost[b] > 0,
         phase' = [phase EXCEPT ![b] = to], users' = [users EXCEPT ![b] = n],
         lost' = lost, open' = open, failures' \in {failures, failures + 1}
  PROVE  OwnershipInv'
<1>1. lost' = [lost EXCEPT ![b] = lost[b]] /\ lost[b] \in Nat /\ lost[b] <= failures'
  BY DEF OwnershipInv
<1> DEFINE m == lost[b]
<1>2. m \in Nat /\ lost' = [lost EXCEPT ![b] = m] /\ m <= failures' /\ ((to = "shared") <=> n + m > 0)
  BY <1>1
<1> HIDE DEF m
<1> QED BY <1>2, OneMoves, Zenon

\* A buffer that leaves a phase nobody has a reference in, for another such phase.
LEMMA OnePasses ==
  ASSUME OwnershipInv, NEW b \in Buf, NEW from, from # "shared",
         NEW to \in Phase \ {"closed"}, to # "shared", Move(b, from, to),
         UNCHANGED <<open, users, lost>>, failures' \in {failures, failures + 1}
  PROVE  OwnershipInv'
<1>1. users[b] \in Nat /\ lost[b] \in Nat /\ users \in [Buf -> Nat]
  BY DEF OwnershipInv
<1>2. ~ (users[b] + lost[b] > 0)
  <2>1. phase[b] # "shared"
    BY Zenon DEF Move
  <2> QED BY <2>1, Zenon DEF OwnershipInv, Consistent
<1>3. users[b] = 0 /\ lost[b] = 0
  BY <1>1, <1>2, SMT
<1>4. users' = [users EXCEPT ![b] = 0]
  BY <1>1, <1>3, SMT
<1>5. ~ (0 + lost[b] > 0)
  BY <1>3, SMT
<1>6. (to = "shared") <=> 0 + lost[b] > 0
  BY <1>5, Zenon
<1>7. phase' = [phase EXCEPT ![b] = to] /\ 0 \in Nat
  BY SMT DEF Move
<1> QED BY <1>4, <1>6, <1>7, OneKeeps, Zenon

\* Each way of handing a buffer on keeps phases and references together.
LEMMA OwnershipStep == OwnershipInv /\ [Next]_vars => OwnershipInv'
<1> SUFFICES ASSUME OwnershipInv, [Next]_vars PROVE OwnershipInv'
  OBVIOUS
<1>0. failures \in Nat /\ users \in [Buf -> Nat] /\ lost \in [Buf -> Nat] /\ phase \in [Buf -> Phase]
  BY Zenon DEF OwnershipInv
<1>1. CASE Open
  <2>1. /\ open' = TRUE /\ failures' = failures
        /\ phase' = [b \in Buf |-> phase'[b]] /\ users' = [b \in Buf |-> users'[b]]
        /\ lost' = [b \in Buf |-> lost'[b]]
        /\ \A b \in Buf : phase'[b] \in Phase \ {"closed"} /\ users'[b] \in Nat
                          /\ lost'[b] \in 0 .. failures
        /\ Consistent(phase, users, lost)'
    BY <1>1, Zenon DEF Open, Consistent
  <2>2. \A b \in Buf : lost'[b] \in Nat /\ lost'[b] <= failures'
    BY <1>0, <2>1, SMT
  <2>3. phase' \in [Buf -> Phase] /\ users' \in [Buf -> Nat] /\ lost' \in [Buf -> Nat]
    BY <2>1, <2>2, Zenon
  <2>4. \A b \in Buf : phase'[b] # "closed"
    BY <2>1, SMT
  <2> QED BY <1>0, <2>1, <2>2, <2>3, <2>4, Zenon DEF OwnershipInv
<1>2. CASE Close
  <2>1. open' \in BOOLEAN /\ ~ open' /\ failures' \in Nat
    BY <1>0, <1>2, Zenon DEF Close
  <2>2. /\ phase' \in [Buf -> Phase] /\ users' \in [Buf -> Nat] /\ lost' \in [Buf -> Nat]
        /\ \A b \in Buf : lost'[b] <= failures'
    BY <1>0, <1>2, SMT DEF Close, Phase, Nobody
  <2>3. Consistent(phase, users, lost)'
    BY <1>2, SMT DEF Close, Consistent, Nobody
  <2> QED BY <2>1, <2>2, <2>3, Zenon DEF OwnershipInv
<1>10. CASE FailClosed
  <2>1. failures' \in Nat /\ \A b \in Buf : lost'[b] <= failures'
    BY <1>10 DEF FailClosed, Fail, OwnershipInv
  <2> QED BY <1>10, <2>1, Zenon DEF FailClosed, OwnershipInv, Consistent
<1>3. ASSUME NEW b \in Buf, Take(b) PROVE OwnershipInv'
  <2>1. /\ Move(b, "driver", "taken") /\ UNCHANGED <<open, users, lost>>
        /\ failures' \in {failures, failures + 1}
    BY <1>3, Zenon DEF Take
  <2>2. "taken" \in Phase \ {"closed"} /\ "taken" # "shared" /\ "driver" # "shared"
    BY SMT DEF Phase
  <2> QED BY <2>1, <2>2, OnePasses, Zenon
<1>4. ASSUME NEW b \in Buf, Share(b) PROVE OwnershipInv'
  <2> DEFINE n == users'[b]
  <2>1. phase' = [phase EXCEPT ![b] = "shared"] /\ open' = open /\ lost' = lost
        /\ failures' \in {failures, failures + 1}
    BY <1>4, Zenon DEF Share, Move
  <2>2. n \in Nat \ {0} /\ users' = [users EXCEPT ![b] = n]
    BY <1>4, Zenon DEF Share
  <2> HIDE DEF n
  <2>3. n + lost[b] > 0
    BY <1>0, <2>2
  <2>4. "shared" \in Phase \ {"closed"} /\ n \in Nat
    BY <2>2, SMT DEF Phase
  <2> QED BY <2>1, <2>2, <2>3, <2>4, OneKeeps, Zenon
<1>5. ASSUME NEW b \in Buf, AddUser(b) PROVE OwnershipInv'
  <2>1. phase' = [phase EXCEPT ![b] = "shared"]
    BY <1>0, <1>5, SMT DEF AddUser
  <2>2. /\ users' = [users EXCEPT ![b] = users[b] + 1] /\ open' = open /\ lost' = lost
        /\ failures' \in {failures, failures + 1}
    BY <1>5, SMT DEF AddUser
  <2>3. "shared" \in Phase \ {"closed"} /\ users[b] + 1 \in Nat /\ users[b] + 1 + lost[b] > 0
    BY <1>0, SMT DEF Phase
  <2> QED BY <2>1, <2>2, <2>3, OneKeeps, Zenon
<1>6. ASSUME NEW b \in Buf, Release(b) PROVE OwnershipInv'
  <2>1. phase' = [phase EXCEPT ![b] = "shared"]
    BY <1>0, <1>6, SMT DEF Release
  <2>2. users[b] - 1 \in Nat /\ users[b] - 1 + lost[b] > 0
    BY <1>0, <1>6, SMT DEF Release
  <2>3. /\ users' = [users EXCEPT ![b] = users[b] - 1] /\ open' = open /\ lost' = lost
        /\ failures' \in {failures, failures + 1} /\ "shared" \in Phase \ {"closed"}
    BY <1>6, SMT DEF Release, Phase
  <2> QED BY <2>1, <2>2, <2>3, OneKeeps, Zenon
<1>7. ASSUME NEW b \in Buf, ReleaseLast(b) PROVE OwnershipInv'
  <2>1. /\ phase' = [phase EXCEPT ![b] = "returning"] /\ open' = open /\ lost' = lost
        /\ users' = [users EXCEPT ![b] = 0] /\ failures' \in {failures, failures + 1}
    BY <1>7, Zenon DEF ReleaseLast, Move
  <2>2. "returning" \in Phase \ {"closed"} /\ 0 \in Nat /\ "returning" # "shared"
        /\ ~ (0 + lost[b] > 0)
    BY <1>7, SMT DEF Phase, ReleaseLast
  <2> QED BY <2>1, <2>2, OneKeeps, Zenon
<1>8. ASSUME NEW b \in Buf, GiveBack(b) PROVE OwnershipInv'
  <2>1. /\ Move(b, "returning", "driver") /\ UNCHANGED <<open, users, lost>>
        /\ failures' \in {failures, failures + 1}
    BY <1>8, Zenon DEF GiveBack
  <2>2. "driver" \in Phase \ {"closed"} /\ "driver" # "shared" /\ "returning" # "shared"
    BY SMT DEF Phase
  <2> QED BY <2>1, <2>2, OnePasses, Zenon
<1>11. ASSUME NEW b \in Buf, Lose(b) PROVE OwnershipInv'
  <2>1. /\ phase' = [phase EXCEPT ![b] = "shared"] /\ open' = open
        /\ failures' = failures + 1 /\ lost' = [lost EXCEPT ![b] = lost[b] + 1]
    BY <1>0, <1>11, SMT DEF Lose, Fail
  <2>2. lost[b] + 1 \in Nat /\ lost[b] + 1 <= failures' /\ "shared" \in Phase \ {"closed"}
    BY <1>0, <2>1, SMT DEF OwnershipInv, Phase
  <2>3. PICK n \in {users[b], users[b] - 1} : n \in Nat /\ users' = [users EXCEPT ![b] = n]
    <3>1. CASE users[b] > 0 /\ users' = [users EXCEPT ![b] = @ - 1]
      <4>1. users[b] - 1 \in Nat
        BY <1>0, <3>1, SMT
      <4> QED BY <3>1, <4>1, SMT
    <3>2. CASE UNCHANGED users
      BY <1>0, <3>2, SMT
    <3> QED BY <1>11, <3>1, <3>2, Zenon DEF Lose
  <2>4. n + (lost[b] + 1) > 0
    BY <1>0, <2>3, SMT
  <2> QED BY <2>1, <2>2, <2>3, <2>4, OneMoves, Zenon
<1>12. ASSUME NEW b \in Buf, Strand(b) PROVE OwnershipInv'
  <2>1. PICK from \in {"taken", "returning"} : Move(b, from, "stranded")
    BY <1>12, Zenon DEF Strand
  <2>2. UNCHANGED <<open, users, lost>> /\ failures' \in {failures, failures + 1}
    BY <1>12, SMT DEF Strand, Fail
  <2>3. "stranded" \in Phase \ {"closed"} /\ "stranded" # "shared" /\ from # "shared"
    BY <2>1, SMT DEF Phase
  <2> QED BY <2>1, <2>2, <2>3, OnePasses, Zenon
<1>9. CASE UNCHANGED vars
  BY <1>9, Zenon DEF vars, OwnershipInv, Consistent
<1> QED BY <1>1, <1>2, <1>3, <1>4, <1>5, <1>6, <1>7, <1>8, <1>9, <1>10, <1>11, <1>12, Zenon DEF Next

\* A buffer is with the driver, on its way to or from it, or stranded, only while
\* nobody has a reference to it, and each reference that is lost had a failure:
\* whatever implements BufferOwnership, mm_camera_stream.c among them, keeps this.
THEOREM OwnershipCorrect == Spec => []OwnershipInv
  BY OwnershipInit, OwnershipStep, PTL DEF Spec
=============================================================================
