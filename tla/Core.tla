-------------------------------- MODULE Core --------------------------------
(***************************************************************************)
(* The core of the Cortex-M3 under the IPC objects: the threads are        *)
(* started, one of them is current, and an interrupt may come wherever a   *)
(* kernel function has interrupts enabled.  Module Scheduler has the       *)
(* windows inside the handlers; here a handler is one step.                *)
(*                                                                         *)
(* pc[t] is where thread t is in the kernel function it is executing,      *)
(* "run" outside of them.  A function that has a call of rt_schedule ahead *)
(* is at a point of its own, so that interrupts come before the call.      *)
(***************************************************************************)
EXTENDS Kernel

CONSTANT BasePriority    \* the priority each thread is created with

ASSUME CoreAssumption == BasePriority \in [Thread -> Priority]

VARIABLES k,    \* the kernel state
          pc    \* where each thread is

\* Every thread started, as rt_thread_startup leaves it.
Booted ==
    LET ready == [p \in Priority |-> SetToSeq({t \in Thread : BasePriority[t] = p})]
    IN  rt_schedule(
            [ stat |-> [t \in Thread |-> "ready"], error |-> [t \in Thread |-> "EOK"],
              priority |-> BasePriority, init_priority |-> BasePriority,
              mask |-> [t \in Thread |-> {BasePriority[t]}], timer |-> {},
              lists |-> [l \in ListId |-> IF l \in Priority THEN ready[l] ELSE << >>],
              group |-> {BasePriority[t] : t \in Thread},
              current |-> NoThread, lock_nest |-> 0 ])

CoreInit ==
    /\ k = Booted
    /\ pc = [t \in Thread |-> "run"]

At(t, where) == k.current = t /\ pc[t] = where

\* An application thread outside of the kernel.  The idle thread calls nothing.
Free(t) == t # Idle /\ At(t, "run")

Goto(t, where) == pc' = [pc EXCEPT ![t] = where]

\* rt_schedule at the end of a kernel function that goes on at "then".
reschedule(t, where, then) ==
    /\ At(t, where)
    /\ k' = rt_schedule(k)
    /\ Goto(t, then)

\* rt_thread_delay: the thread leaves the core to others and comes back at a
\* tick of its own.
rt_thread_delay(t) ==
    /\ Free(t)
    /\ k' = rt_timer_start(rt_thread_suspend(k, t), t)
    /\ Goto(t, "delay_sched")

delay_ret(t) ==
    /\ At(t, "delay_ret")
    /\ k' = [k EXCEPT !.error[t] = IF @ = "ETIMEOUT" THEN "EOK" ELSE @]
    /\ Goto(t, "run")

Delay(t) == rt_thread_delay(t) \/ reschedule(t, "delay_sched", "delay_ret") \/ delay_ret(t)

\* The tick: the time slice of the current thread is used up ...
tick_yield ==
    /\ k.stat[k.current] = "ready" /\ Len(k.lists[k.priority[k.current]]) > 1
    /\ k' = rt_schedule(rt_list_insert_before(rt_list_remove(k, k.current),
                                              k.priority[k.current], k.current))
    /\ UNCHANGED pc

\* ... or a thread timer expires.
tick_expire(t) ==
    /\ t \in k.timer
    /\ k' = rt_thread_timeout(k, t)
    /\ UNCHANGED pc

\* A device interrupt that resumes the first waiter of a queue.
irq_resume(w) == k' = rt_schedule(rt_ipc_list_resume(k, w)) /\ UNCHANGED pc

\* rt_ipc_list_resume_all with interrupts disabled ...
resume_refused(kk, t) == rt_thread_resume([kk EXCEPT !.error[t] = "ERROR"], t)

rt_ipc_list_resume_all(kk, w) == FoldLeft(resume_refused, kk, kk.lists[w])

\* ... and one round of it with interrupts enabled between the rounds.
resume_all_round(t, where, w, then) ==
    /\ At(t, where)
    /\ IF k.lists[w] # << >>
         THEN k' = resume_refused(k, Head(k.lists[w])) /\ UNCHANGED pc
         ELSE UNCHANGED k /\ Goto(t, then)

-----------------------------------------------------------------------------
(* Calls that wait in a loop: a timeout is none, some ticks or for ever *)

Timeout == {"zero", "some", "forever"}

\* The caller waits in queue w; the timer runs unless it waits for ever.
Suspended(t, w, flag, timeout) ==
    LET s == rt_ipc_list_suspend([k EXCEPT !.error[t] = "EOK"], w, t, flag)
    IN  IF timeout = "some" THEN rt_timer_start(s, t) ELSE s

\* Back from rt_schedule, what is left of the timeout is computed.
Left(timeout) == IF timeout = "some" THEN {"some", "zero"} ELSE {timeout}

\* Threads that were resumed in queue w and look at the object next.
Woken(w, sched, again) ==
    {t \in Thread : pc[t] \in {sched, again} /\ t \notin On(k, w) /\ k.error[t] = "EOK"}

=============================================================================
