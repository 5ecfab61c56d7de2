----------------------------- MODULE Completion -----------------------------
(***************************************************************************)
(* A completion: one thread waits until another one, or an interrupt, says *)
(* that something is done.                                                 *)
(***************************************************************************)
EXTENDS Core

CONSTANTS Queue,         \* suspended_list
          TimedWait      \* whether the waiter gives a timeout

VARIABLES flag,      \* RT_COMPLETED
          pending    \* done was said and no wait has returned RT_EOK for it

vars == <<k, pc, flag, pending>>

Init == CoreInit /\ flag = FALSE /\ pending = FALSE

Waits == IF TimedWait THEN Timeout ELSE {"zero", "forever"}

\* The caller's duty: one thread at a time is inside rt_completion_wait.
Alone == \A t \in Thread : pc[t] \notin {"wait_sched", "wait_again"}

rt_completion_wait(t) ==
    /\ Free(t) /\ Alone
    /\ \/ /\ flag
          /\ flag' = FALSE /\ pending' = FALSE
          /\ UNCHANGED <<k, pc>>
       \/ /\ ~flag                        \* with timeout zero the call returns
          /\ \E timeout \in Waits \ {"zero"} : k' = Suspended(t, Queue, "FIFO", timeout)
          /\ Goto(t, "wait_sched")
          /\ UNCHANGED <<flag, pending>>

\* The second section: the result is the thread's error, whatever the flag.
wait_again(t) ==
    /\ At(t, "wait_again")
    /\ flag' = FALSE
    /\ pending' = (pending /\ k.error[t] # "EOK")
    /\ Goto(t, "run")
    /\ UNCHANGED k

\* rt_completion_done looks at the flag with interrupts enabled.
rt_completion_done(t) ==
    /\ Free(t) /\ ~flag
    /\ Goto(t, "done")
    /\ UNCHANGED <<k, flag, pending>>

Done == flag' = TRUE /\ pending' = TRUE

Resumed == IF k.lists[Queue] # << >> THEN rt_ipc_list_resume(k, Queue) ELSE k

done_section(t) ==
    /\ At(t, "done")
    /\ Done
    /\ k' = Resumed
    /\ Goto(t, IF k.lists[Queue] # << >> THEN "sched" ELSE "run")

irq_done ==
    /\ ~flag
    /\ Done
    /\ k' = IF k.lists[Queue] # << >> THEN rt_schedule(Resumed) ELSE k
    /\ UNCHANGED pc

schedule(t) ==
    /\ \/ reschedule(t, "wait_sched", "wait_again")
       \/ reschedule(t, "sched", "run")
       \/ Delay(t)
    /\ UNCHANGED <<flag, pending>>

tick ==
    /\ tick_yield \/ \E t \in Thread : tick_expire(t)
    /\ UNCHANGED <<flag, pending>>

Next ==
    \/ \E t \in Thread :
           \/ rt_completion_wait(t) \/ wait_again(t) \/ rt_completion_done(t)
           \/ done_section(t) \/ schedule(t)
    \/ irq_done
    \/ tick

Spec == Init /\ [][Next]_vars

-----------------------------------------------------------------------------
(* Properties *)

\* What was done is never forgotten: the flag tells the next wait, or a wait
\* has been resumed and returns RT_EOK; nobody waits beside the flag.
NoWaiterForgotten ==
    /\ pending => flag \/ Woken(Queue, "wait_sched", "wait_again") # {}
    /\ flag => k.lists[Queue] = << >>

=============================================================================
