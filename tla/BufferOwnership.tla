-------------------------- MODULE BufferOwnership --------------------------
(***************************************************************************)
(* What a stream promises about its buffers, whatever threads it uses.     *)
(* While the stream is open a buffer goes round: the driver owns it; it is *)
(* taken from the driver; users share it, each with a reference; when the  *)
(* last reference is released it is on its way back; the driver owns it    *)
(* again.  A reference can be added only to a buffer that is shared, and   *)
(* only the release of the last one sends the buffer back.                 *)
(*                                                                         *)
(* A failure may cost a reference, which then stays counted but can never  *)
(* be released, or may strand a buffer between the driver and its users.   *)
(* Each failure costs at most one of them, until the stream is closed.     *)
(*                                                                         *)
(* MmStream implements this: mm_camera_stream.c with its poll thread, its  *)
(* command thread and the clients of mm_camera_qbuf.                       *)
(***************************************************************************)
EXTENDS Naturals

CONSTANT Buf

VARIABLES
    open,    \* the stream is on
    phase,   \* where each buffer is
    users,   \* how many references to it there are that will be released
    lost,    \* how many references to it are lost
    failures \* how many failures there have been

vars == <<open, phase, users, lost, failures>>

Phase == {"closed", "driver", "taken", "shared", "returning", "stranded"}

\* References are what a shared buffer has and no other buffer has.
Consistent(ph, us, lo) == \A b \in Buf : ph[b] = "shared" <=> us[b] + lo[b] > 0

Nobody == [b \in Buf |-> 0]

Init ==
    /\ open = FALSE /\ phase = [b \in Buf |-> "closed"]
    /\ users = Nobody /\ lost = Nobody /\ failures \in Nat

\* The upper layer keeps some buffers, with a reference, and queues the others.
\* Threads of an earlier session may have failed by then.
Open ==
    /\ ~ open /\ open' = TRUE
    /\ phase' = [b \in Buf |-> phase'[b]] /\ users' = [b \in Buf |-> users'[b]]
    /\ lost' = [b \in Buf |-> lost'[b]]
    /\ \A b \in Buf : phase'[b] \in Phase \ {"closed"} /\ users'[b] \in Nat
                      /\ lost'[b] \in 0 .. failures
    /\ Consistent(phase', users', lost') /\ UNCHANGED failures

Close ==
    /\ open /\ open' = FALSE
    /\ phase' = [b \in Buf |-> "closed"] /\ users' = Nobody /\ lost' = Nobody
    /\ UNCHANGED failures

Fail == failures' = failures + 1

\* Failures of a start or a stop.
FailClosed == ~ open /\ Fail /\ UNCHANGED <<open, phase, users, lost>>

Move(b, from, to) == phase[b] = from /\ phase' = [phase EXCEPT ![b] = to]

Take(b) == Move(b, "driver", "taken") /\ UNCHANGED <<open, users, lost, failures>>

Share(b) ==
    /\ Move(b, "taken", "shared")
    /\ users'[b] \in Nat \ {0} /\ users' = [users EXCEPT ![b] = users'[b]]
    /\ UNCHANGED <<open, lost, failures>>

AddUser(b) ==
    /\ phase[b] = "shared"
    /\ users' = [users EXCEPT ![b] = @ + 1] /\ UNCHANGED <<open, phase, lost, failures>>

Release(b) ==
    /\ phase[b] = "shared" /\ users[b] > 0 /\ users[b] + lost[b] > 1
    /\ users' = [users EXCEPT ![b] = @ - 1] /\ UNCHANGED <<open, phase, lost, failures>>

ReleaseLast(b) ==
    /\ Move(b, "shared", "returning") /\ users[b] = 1 /\ lost[b] = 0
    /\ users' = [users EXCEPT ![b] = 0] /\ UNCHANGED <<open, lost, failures>>

GiveBack(b) ==
    Move(b, "returning", "driver") /\ UNCHANGED <<open, users, lost, failures>>

\* A user, or one about to be added, never learns of the buffer.
Lose(b) ==
    /\ Fail /\ phase[b] = "shared"
    /\ \/ users[b] > 0 /\ users' = [users EXCEPT ![b] = @ - 1]
       \/ UNCHANGED users
    /\ lost' = [lost EXCEPT ![b] = @ + 1] /\ UNCHANGED <<open, phase>>

\* Nobody is told of a buffer that was taken, or the driver refuses one.
Strand(b) ==
    /\ Fail
    /\ Move(b, "taken", "stranded") \/ Move(b, "returning", "stranded")
    /\ UNCHANGED <<open, users, lost>>

Next ==
    \/ Open \/ Close \/ FailClosed
    \/ \E b \in Buf : \/ Take(b) \/ Share(b) \/ AddUser(b)
                      \/ Release(b) \/ ReleaseLast(b) \/ GiveBack(b)
                      \/ Lose(b) \/ Strand(b)

Spec == Init /\ [][Next]_vars

\* A buffer is with the driver, on its way to or from it, or stranded, only
\* while nobody has a reference to it; a lost reference had its failure.
OwnershipInv ==
    /\ open \in BOOLEAN /\ phase \in [Buf -> Phase] /\ users \in [Buf -> Nat]
    /\ lost \in [Buf -> Nat] /\ failures \in Nat
    /\ Consistent(phase, users, lost)
    /\ \A b \in Buf : lost[b] <= failures
    /\ open => \A b \in Buf : phase[b] # "closed"
=============================================================================
