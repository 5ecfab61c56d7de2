------------------------------- MODULE Mutex --------------------------------
(***************************************************************************)
(* Mutexes with priority inheritance: rt_mutex_init, rt_mutex_take,        *)
(* rt_mutex_release and rt_mutex_detach, called by threads only.           *)
(***************************************************************************)
EXTENDS Core

CONSTANTS Flag,      \* "FIFO" or "PRIO"
          HoldMax,   \* bound on the nesting of one mutex (hold, rt_uint8_t)
          Nested,    \* a thread may take a mutex while it holds another one
          DetachHeld \* a mutex may be detached while somebody holds it

VARIABLES mutex,   \* the mutexes, known by their wait queues
          want     \* the mutex a thread waits for in rt_mutex_take or detaches

vars == <<k, pc, mutex, want>>

\* What rt_mutex_init leaves.
NoPriority == 255

Fresh == [value |-> 1, owner |-> NoThread, original_priority |-> NoPriority, hold |-> 0,
          valid |-> TRUE]

Init ==
    /\ CoreInit
    /\ mutex = [m \in WaitList |-> Fresh]
    /\ want = [t \in Thread |-> NoThread]

-----------------------------------------------------------------------------

MayTake(t, m) ==
    /\ mutex[m].valid
    /\ Nested \/ \A n \in WaitList \ {m} : mutex[n].owner # t

\* A slip: the owner keeps its priority.
inherit_never(kk, o, p) == kk

\* The owner runs with the priority of the thread that waits for it.
inherit(kk, o, p) == IF p < kk.priority[o] THEN change_priority(kk, o, p) ELSE kk

rt_mutex_take(t, m) ==
    LET u == [k EXCEPT !.error[t] = "EOK"]
        o == mutex[m].owner
    IN  /\ Free(t) /\ MayTake(t, m)
        /\ \/ /\ o = t /\ mutex[m].hold < HoldMax
              /\ mutex' = [mutex EXCEPT ![m].hold = @ + 1]
              /\ k' = u
              /\ UNCHANGED <<pc, want>>
           \/ /\ o # t /\ mutex[m].value > 0
              /\ mutex' = [mutex EXCEPT ![m] =
                             [@ EXCEPT !.value = @ - 1, !.owner = t,
                                       !.original_priority = k.priority[t],
                                       !.hold = @ + 1]]
              /\ k' = u
              /\ UNCHANGED <<pc, want>>
           \/ /\ o # t /\ mutex[m].value = 0             \* time = 0
              /\ k' = [k EXCEPT !.error[t] = "ETIMEOUT"]
              /\ UNCHANGED <<pc, mutex, want>>
           \/ /\ o # t /\ mutex[m].value = 0
              /\ \E timed \in BOOLEAN :
                     LET s == rt_ipc_list_suspend(inherit(u, o, k.priority[t]), m, t, Flag)
                     IN  k' = IF timed THEN rt_timer_start(s, t) ELSE s
              /\ Goto(t, "take_sched")
              /\ want' = [want EXCEPT ![t] = m]
              /\ UNCHANGED mutex

take_ret(t) ==
    /\ At(t, "take_ret")
    /\ Goto(t, "run")
    /\ want' = [want EXCEPT ![t] = NoThread]
    /\ UNCHANGED <<k, mutex>>

-----------------------------------------------------------------------------

\* A slip: the inherited priority is kept.
restore_never(kk, m) == kk

\* The owner gets back the priority it had when it took the mutex.
restore(kk, m) ==
    IF mutex[m].original_priority # kk.priority[mutex[m].owner]
      THEN change_priority(kk, mutex[m].owner, mutex[m].original_priority)
      ELSE kk

\* A slip: the new owner is written, the value is put back as well.
handover_twice(m, t) ==
    [mutex EXCEPT ![m] = [@ EXCEPT !.value = 1, !.owner = t,
                                   !.original_priority = k.priority[t], !.hold = 1]]

\* The mutex goes to the waiter t without ever being available.
handover(m, t) ==
    [mutex EXCEPT ![m] = [@ EXCEPT !.owner = t,
                                   !.original_priority = k.priority[t], !.hold = 1]]

rt_mutex_release(t, m) ==
    /\ Free(t) /\ mutex[m].valid
    /\ \/ /\ mutex[m].owner # t
          /\ k' = [k EXCEPT !.error[t] = "ERROR"]
          /\ UNCHANGED <<pc, mutex>>
       \/ /\ mutex[m].owner = t /\ mutex[m].hold > 1
          /\ mutex' = [mutex EXCEPT ![m].hold = @ - 1]
          /\ UNCHANGED <<k, pc>>
       \/ /\ mutex[m].owner = t /\ mutex[m].hold = 1
          /\ IF k.lists[m] # << >>
               THEN /\ mutex' = handover(m, Head(k.lists[m]))
                    /\ k' = rt_ipc_list_resume(restore(k, m), m)
                    /\ Goto(t, "sched")
               ELSE /\ mutex' = [mutex EXCEPT ![m] =
                                   [Fresh EXCEPT !.value = mutex[m].value + 1]]
                    /\ k' = restore(k, m)
                    /\ UNCHANGED pc
    /\ UNCHANGED want

\* Nobody calls the mutex from here on; what its waiters lent to the owner is
\* not taken back.
rt_mutex_detach(t, m) ==
    /\ Free(t) /\ mutex[m].valid
    /\ mutex[m].owner = NoThread \/ DetachHeld
    /\ mutex' = [mutex EXCEPT ![m] = [Fresh EXCEPT !.valid = FALSE]]
    /\ want' = [want EXCEPT ![t] = m]
    /\ Goto(t, "detach")
    /\ UNCHANGED k

detach_resume(t) ==
    /\ resume_all_round(t, "detach", want[t], "run")
    /\ want' = IF pc'[t] = "run" THEN [want EXCEPT ![t] = NoThread] ELSE want
    /\ UNCHANGED mutex

rt_mutex_init(t, m) ==
    /\ Free(t) /\ ~mutex[m].valid /\ \A u \in Thread : want[u] # m
    /\ mutex' = [mutex EXCEPT ![m] = Fresh]
    /\ UNCHANGED <<k, pc, want>>

schedule(t) ==
    /\ \/ reschedule(t, "take_sched", "take_ret")
       \/ reschedule(t, "sched", "run")
       \/ Delay(t)
    /\ UNCHANGED <<mutex, want>>

tick ==
    /\ tick_yield \/ \E t \in Thread : tick_expire(t)
    /\ UNCHANGED <<mutex, want>>

Next ==
    \/ \E t \in Thread :
           \/ \E m \in WaitList :
                  \/ rt_mutex_take(t, m) \/ rt_mutex_release(t, m)
                  \/ rt_mutex_detach(t, m) \/ rt_mutex_init(t, m)
           \/ take_ret(t) \/ detach_resume(t)
           \/ schedule(t)
    \/ tick

Spec == Init /\ [][Next]_vars

-----------------------------------------------------------------------------
(* Properties *)

\* Nobody waits for a mutex that is available, and nobody is left waiting when
\* rt_mutex_detach has returned.
NoWaiterForgotten ==
    \A m \in WaitList : k.lists[m] # << >> =>
        IF mutex[m].valid THEN mutex[m].value = 0
        ELSE \E t \in Thread : pc[t] = "detach" /\ want[t] = m

\* A mutex is available, without owner and without waiters, or it is taken:
\* rt_mutex_release hands it over without a moment in which a third thread
\* could take it from the waiter.
AvailableOrOwned ==
    \A m \in WaitList : mutex[m].valid =>
        \/ mutex[m] = Fresh /\ k.lists[m] = << >>
        \/ mutex[m].value = 0 /\ mutex[m].owner \in Thread /\ mutex[m].hold > 0

\* rt_mutex_take returns RT_EOK exactly to the thread that is the owner: a
\* waiter that times out just before or after the release is not left with
\* a mutex it does not know of, nor without one it believes to hold.
GrantMeansOwner ==
    \A t \in Thread :
        pc[t] \in {"take_sched", "take_ret"} /\ t \notin On(k, want[t]) =>
            (k.error[t] = "EOK" <=> mutex[want[t]].owner = t)

\* A thread that owns no mutex has the priority it was created with.
OriginalPriorityRestored ==
    \A t \in Thread :
        (\A m \in WaitList : mutex[m].owner # t) => k.priority[t] = BasePriority[t]

\* No priority inversion: when the owner of a mutex could run, nobody of a
\* lower priority than a waiter of that mutex has the core, other than on
\* its way into rt_schedule. It holds while the system has one mutex: with a
\* second one, rt_mutex_release of a mutex nobody waits for can lower the
\* caller's priority and return without rt_schedule.
NoInversion ==
    \A m \in WaitList : \A w \in On(k, m) : mutex[m].valid =>
        (k.stat[mutex[m].owner] = "ready" /\ pc[k.current] \in {"run", "take_ret", "delay_ret"}
            => k.priority[k.current] <= k.priority[w])

=============================================================================
