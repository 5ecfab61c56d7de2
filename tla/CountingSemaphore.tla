-------------------------- MODULE CountingSemaphore -------------------------
(***************************************************************************)
(* What a semaphore promises: tokens are neither lost nor made up.  A      *)
(* caller takes a token that is there or waits; a release hands its token  *)
(* to a waiter or keeps it; a waiter that is given up on gets no token.    *)
(***************************************************************************)
EXTENDS Naturals

CONSTANTS Caller, Start    \* the callers and the number of tokens at the start

VARIABLES count,    \* tokens nobody has
          call      \* the state of each caller's call

vars == <<count, call>>

Init == count = Start /\ call = [c \in Caller |-> "none"]

Waiting == {c \in Caller : call[c] = "waiting"}

Take == count > 0 /\ count' = count - 1 /\ UNCHANGED call

Wait(c) ==
    /\ count = 0 /\ call[c] = "none"
    /\ call' = [call EXCEPT ![c] = "waiting"]
    /\ UNCHANGED count

Release == Waiting = {} /\ count' = count + 1 /\ UNCHANGED call

Grant(c) ==
    /\ c \in Waiting
    /\ call' = [call EXCEPT ![c] = "granted"]
    /\ UNCHANGED count

\* The waiting time is over, or the semaphore goes away.
Refuse(c) ==
    /\ c \in Waiting
    /\ call' = [call EXCEPT ![c] = "refused"]
    /\ UNCHANGED count

Return(c) ==
    /\ call[c] \in {"granted", "refused"}
    /\ call' = [call EXCEPT ![c] = "none"]
    /\ UNCHANGED count

\* Everybody is sent away and the semaphore starts again.
Reset ==
    /\ count' \in Nat
    /\ call' = [c \in Caller |-> IF c \in Waiting THEN "refused" ELSE call[c]]

Next ==
    \/ Take \/ Release \/ Reset
    \/ \E c \in Caller : Wait(c) \/ Grant(c) \/ Refuse(c) \/ Return(c)

Spec == Init /\ [][Next]_vars

=============================================================================
