----------------------------- MODULE DataQueue -----------------------------
(***************************************************************************)
(* A data queue: pointers to data in a ring with free-running indices.  A  *)
(* thread that pushes into a full queue is woken up by the pops that leave *)
(* no more than lwm items.  The serial driver has one for its DMA.         *)
(***************************************************************************)
EXTENDS Core

CONSTANTS Mail, Nothing,
          Size, Lwm,            \* of rt_data_queue_init
          IndexBits,            \* width of put_index and get_index
          Wraps,                \* whether enough is pushed for them to wrap
          Pushers, Poppers      \* suspended_push_list, suspended_pop_list

VARIABLES dq,      \* put_index, get_index, the ring
          taken,   \* the item popped last (for the properties)
          local    \* what a waiting pusher wants to push, its timeout

vars == <<k, pc, dq, taken, local>>

NoCall == [mail |-> Nothing, timeout |-> "zero"]

Init ==
    /\ CoreInit
    /\ dq = [put |-> 0, get |-> 0, ring |-> [i \in 0 .. Size - 1 |-> Nothing]]
    /\ taken = Nothing
    /\ local = [t \in Thread |-> NoCall]

Set(t, call) == local' = [local EXCEPT ![t] = call]

\* The indices are promoted to int before they are subtracted.
Full == dq.put - dq.get = Size
Empty == dq.get = dq.put

Step(i) == (i + 1) % 2^IndexBits

\* Before they wrap, only the remainder and the difference of the indices
\* matter, and both may be reduced.
Reduced(q) == IF ~Wraps /\ q.get >= Size
              THEN [q EXCEPT !.put = @ - Size, !.get = @ - Size] ELSE q

-----------------------------------------------------------------------------
(* rt_data_queue_push *)

Pushed(m) == [dq EXCEPT !.ring[dq.put % Size] = m, !.put = Step(@)]

\* One pass through the loop; the timeout starts anew in each of them.
push(t, m, timeout) ==
    \/ /\ Full /\ timeout # "zero"
       /\ k' = Suspended(t, Pushers, "FIFO", timeout)
       /\ Goto(t, "push_sched") /\ Set(t, [mail |-> m, timeout |-> timeout])
       /\ UNCHANGED <<dq, taken>>
    \/ /\ ~Full
       /\ dq' = Pushed(m)
       /\ IF k.lists[Poppers] # << >>
            THEN k' = rt_ipc_list_resume(k, Poppers) /\ Goto(t, "sched")
            ELSE UNCHANGED k /\ Goto(t, "run")
       /\ Set(t, NoCall)
       /\ UNCHANGED taken

rt_data_queue_push(t) ==
    /\ Free(t)
    /\ \E m \in Mail, timeout \in Timeout : push(t, m, timeout)

push_again(t) ==
    /\ At(t, "push_again") /\ k.error[t] = "EOK"
    /\ push(t, local[t].mail, local[t].timeout)

-----------------------------------------------------------------------------
(* rt_data_queue_pop *)

Low == dq.put - Step(dq.get) <= Lwm

Popped == Reduced([dq EXCEPT !.get = Step(@)])

Wakes == Low /\ k.lists[Pushers] # << >>

pop(t, timeout) ==
    \/ /\ Empty /\ timeout # "zero"
       /\ k' = Suspended(t, Poppers, "FIFO", timeout)
       /\ Goto(t, "pop_sched") /\ Set(t, [NoCall EXCEPT !.timeout = timeout])
       /\ UNCHANGED <<dq, taken>>
    \/ /\ ~Empty
       /\ dq' = Popped
       /\ taken' = dq.ring[dq.get % Size]
       /\ IF Wakes THEN k' = rt_ipc_list_resume(k, Pushers) /\ Goto(t, "sched")
          ELSE UNCHANGED k /\ Goto(t, "run")
       /\ Set(t, NoCall)

rt_data_queue_pop(t) ==
    /\ Free(t)
    /\ \E timeout \in Timeout : pop(t, timeout)

pop_again(t) ==
    /\ At(t, "pop_again") /\ k.error[t] = "EOK"
    /\ pop(t, local[t].timeout)

give_up(t) ==
    /\ At(t, "push_again") \/ At(t, "pop_again")
    /\ k.error[t] # "EOK"
    /\ Goto(t, "run") /\ Set(t, NoCall)
    /\ UNCHANGED <<k, dq, taken>>

Resetting == \E t \in Thread : pc[t] \in {"reset_pop", "reset_push", "reset_exit"}

\* Both calls in interrupts, with timeout zero.
irq_push ==
    /\ ~Resetting /\ ~Full
    /\ \E m \in Mail : dq' = Pushed(m)
    /\ IF k.lists[Poppers] # << >> THEN irq_resume(Poppers) ELSE UNCHANGED <<k, pc>>
    /\ UNCHANGED <<taken, local>>

irq_pop ==
    /\ ~Resetting /\ ~Empty
    /\ dq' = Popped
    /\ taken' = dq.ring[dq.get % Size]
    /\ IF Wakes THEN irq_resume(Pushers) ELSE UNCHANGED <<k, pc>>
    /\ UNCHANGED local

-----------------------------------------------------------------------------

\* rt_data_queue_reset resumes all, with the scheduler locked, and leaves the
\* items.  The caller's duty: no timer or interrupt takes a thread off the
\* queues meanwhile.
rt_data_queue_reset(t) ==
    /\ Free(t) /\ (On(k, Pushers) \cup On(k, Poppers)) \cap k.timer = {}
    /\ k' = [k EXCEPT !.lock_nest = @ + 1]
    /\ Goto(t, "reset_pop")
    /\ UNCHANGED <<dq, taken, local>>

reset_round(t) ==
    /\ \/ resume_all_round(t, "reset_pop", Poppers, "reset_push")
       \/ resume_all_round(t, "reset_push", Pushers, "reset_exit")
       \/ /\ At(t, "reset_exit")
          /\ k' = rt_schedule([k EXCEPT !.lock_nest = @ - 1]) /\ Goto(t, "sched")
    /\ UNCHANGED <<dq, taken, local>>

schedule(t) ==
    /\ \/ reschedule(t, "push_sched", "push_again")
       \/ reschedule(t, "pop_sched", "pop_again")
       \/ reschedule(t, "sched", "run")
       \/ Delay(t)
    /\ UNCHANGED <<dq, taken, local>>

tick ==
    /\ tick_yield \/ \E t \in Thread : tick_expire(t)
    /\ UNCHANGED <<dq, taken, local>>

Next ==
    \/ \E t \in Thread :
           \/ rt_data_queue_push(t) \/ push_again(t) \/ rt_data_queue_pop(t) \/ pop_again(t)
           \/ give_up(t) \/ rt_data_queue_reset(t) \/ reset_round(t) \/ schedule(t)
    \/ irq_push \/ irq_pop
    \/ tick

Spec == Init /\ [][Next]_vars

-----------------------------------------------------------------------------
(* Properties *)

Count == dq.put - dq.get

\* No popper sleeps beside an item and no pusher once lwm items are left,
\* unless others have been woken up for them.
NoWaiterForgotten ==
    \/ Resetting
    \/ /\ k.lists[Poppers] # << >> =>
              Count <= Cardinality(Woken(Poppers, "pop_sched", "pop_again"))
       /\ k.lists[Pushers] # << >> =>
              Lwm + 1 - Count <= Cardinality(Woken(Pushers, "push_sched", "push_again"))

Abstract == INSTANCE BoundedFifo WITH
    Capacity <- Size, Urgent <- FALSE, got <- taken,
    queue <- [i \in 1 .. Count |-> dq.ring[(dq.get + i - 1) % Size]]

\* Items are popped in the order in which they were pushed, each of them once.
DeliversInOrder == Abstract!Spec

=============================================================================
