----------------------------- MODULE Semaphore ------------------------------
(***************************************************************************)
(* A semaphore: rt_sem_take, rt_sem_release from threads and from device   *)
(* interrupts, RT_IPC_CMD_RESET, rt_sem_detach and a later rt_sem_init.    *)
(***************************************************************************)
EXTENDS Core

CONSTANTS Sem,          \* the wait queue of the semaphore
          Flag,         \* "FIFO" or "PRIO"
          InitValue,    \* the value rt_sem_init sets
          SemMax,       \* callers keep the value (rt_uint16_t) below its wrap
          QuietDetach   \* nobody with a timeout waits when the semaphore is detached

VARIABLES value,    \* sem->value
          valid     \* the semaphore is initialised and not being detached

vars == <<k, pc, value, valid>>

Init ==
    /\ CoreInit
    /\ value = InitValue
    /\ valid = TRUE

-----------------------------------------------------------------------------

\* A call with time = 0 that finds no token returns -RT_ETIMEOUT and changes
\* nothing.
rt_sem_take(t) ==
    /\ Free(t) /\ valid
    /\ \/ /\ value > 0
          /\ value' = value - 1
          /\ UNCHANGED <<k, pc>>
       \/ /\ value = 0
          /\ \E timed \in BOOLEAN :
                 LET s == rt_ipc_list_suspend([k EXCEPT !.error[t] = "EOK"], Sem, t, Flag)
                 IN  k' = IF timed THEN rt_timer_start(s, t) ELSE s
          /\ Goto(t, "take_sched")
          /\ UNCHANGED value
    /\ UNCHANGED valid

\* The return value is thread->error.
take_ret(t) ==
    /\ At(t, "take_ret")
    /\ Goto(t, "run")
    /\ UNCHANGED <<k, value, valid>>


rt_sem_release(t) ==
    /\ Free(t) /\ valid
    /\ IF k.lists[Sem] # << >>
         THEN /\ k' = rt_ipc_list_resume(k, Sem)
              /\ Goto(t, "sched")
              /\ UNCHANGED value
         ELSE /\ value < SemMax
              /\ value' = value + 1
              /\ UNCHANGED <<k, pc>>
    /\ UNCHANGED valid

\* rt_sem_release in a device interrupt.
irq_release ==
    /\ valid
    /\ IF k.lists[Sem] # << >>
         THEN irq_resume(Sem) /\ UNCHANGED value
         ELSE value < SemMax /\ value' = value + 1 /\ UNCHANGED <<k, pc>>
    /\ UNCHANGED valid

\* RT_IPC_CMD_RESET, one section.
rt_sem_control(t) ==
    /\ Free(t) /\ valid
    /\ k' = rt_ipc_list_resume_all(k, Sem)
    /\ value' \in 0 .. SemMax
    /\ Goto(t, "sched")
    /\ UNCHANGED valid

\* Nobody calls the semaphore from here on: detached objects are not used.
rt_sem_detach(t) ==
    /\ Free(t) /\ valid
    /\ QuietDetach => On(k, Sem) \cap k.timer = {}
    /\ valid' = FALSE
    /\ Goto(t, "detach")
    /\ UNCHANGED <<k, value>>

\* The loop condition of rt_ipc_list_resume_all, read with interrupts enabled.
detach_check(t) ==
    /\ At(t, "detach")
    /\ Goto(t, IF k.lists[Sem] # << >> THEN "detach_resume" ELSE "run")
    /\ UNCHANGED <<k, value, valid>>

\* The loop body; on an empty list it would take the list head for a thread.
detach_resume(t) ==
    /\ At(t, "detach_resume")
    /\ k.lists[Sem] # << >>
    /\ k' = resume_refused(k, Head(k.lists[Sem]))
    /\ Goto(t, "detach")
    /\ UNCHANGED <<value, valid>>

Detaching == \E t \in Thread : pc[t] \in {"detach", "detach_resume"}

rt_sem_init(t) ==
    /\ Free(t) /\ ~valid /\ ~Detaching
    /\ value' = InitValue
    /\ valid' = TRUE
    /\ UNCHANGED <<k, pc>>

schedule(t) ==
    /\ \/ reschedule(t, "take_sched", "take_ret")
       \/ reschedule(t, "sched", "run")
       \/ Delay(t)
    /\ UNCHANGED <<value, valid>>

tick ==
    /\ tick_yield \/ \E t \in Thread : tick_expire(t)
    /\ UNCHANGED <<value, valid>>

Next ==
    \/ \E t \in Thread :
           \/ rt_sem_take(t) \/ take_ret(t) \/ rt_sem_release(t) \/ rt_sem_control(t)
           \/ rt_sem_detach(t) \/ detach_check(t) \/ detach_resume(t) \/ rt_sem_init(t)
           \/ schedule(t)
    \/ irq_release
    \/ tick

Spec == Init /\ [][Next]_vars

-----------------------------------------------------------------------------
(* Properties *)

\* No wakeup is lost: while somebody waits in rt_sem_take there is no token
\* that rt_sem_release or the reset left in the value, and nobody is left
\* waiting when rt_sem_detach has returned.
NoTokenWhileWaiting ==
    k.lists[Sem] # << >> => IF valid THEN value = 0 ELSE Detaching

\* rt_sem_release serves the waiter of the highest priority when the
\* semaphore was made with RT_IPC_FLAG_PRIO, whoever joined or left the
\* queue by a timeout before.
HighestServedFirst ==
    [][ \A t \in On(k, Sem) \ On(k', Sem) :
            Flag = "PRIO" /\ k'.error[t] = "EOK" =>
                \A u \in On(k', Sem) : k.priority[t] <= k.priority[u] ]_vars

\* rt_ipc_list_resume_all resumes a thread that waits: its list is not empty
\* when the body of its loop takes the first thread of it.
ResumesAWaiter == \A t \in Thread : pc[t] = "detach_resume" => k.lists[Sem] # << >>

\* The state of a call: a thread waits in the queue, and when it is out of
\* it its error code says whether it has a token.
Call(t) ==
    IF pc[t] \notin {"take_sched", "take_ret"} THEN "none"
    ELSE IF t \in On(k, Sem) THEN "waiting"
    ELSE IF k.error[t] = "EOK" THEN "granted"
    ELSE "refused"

Abstract == INSTANCE CountingSemaphore WITH
    Caller <- Thread, Start <- InitValue, count <- value, call <- [t \in Thread |-> Call(t)]


=============================================================================
