----------------------------- MODULE Scheduler ------------------------------
(***************************************************************************)
(* Threads, the scheduler, the system tick and the idle thread, on the one *)
(* core of the Cortex-M3.                                                  *)
(*                                                                         *)
(* A step is one section the code runs with interrupts disabled, or one    *)
(* stretch of code between two of them.  pc[a] says where actor a is in    *)
(* the function it is executing.  The actors are the threads, SysTick      *)
(* ("tick", the lowest interrupt priority) and a device interrupt ("irq"). *)
(* Only the actor on top runs: irq over tick over the current thread.      *)
(***************************************************************************)
EXTENDS Kernel

CONSTANTS Static,        \* threads set up by rt_thread_init, never freed
          HasCleanup,    \* threads whose cleanup function is set
          InitThread,    \* the thread rt_application_init starts
          InitPriority,  \* its priority
          InitTick,      \* init_tick, the time slice of every thread
          MaxNest        \* bound on rt_scheduler_lock_nest

ASSUME SchedulerAssumption ==
    /\ Static \subseteq Thread
    /\ HasCleanup \subseteq Thread
    /\ Idle \in Static
    /\ InitThread \in Thread \ {Idle}
    /\ InitPriority \in Priority
    /\ InitTick \in Nat \ {0}
    /\ MaxNest \in Nat
    /\ "tick" \notin Thread
    /\ "irq" \notin Thread

VARIABLES k,      \* the kernel state
          pc,     \* where each actor is
          slice   \* remaining_tick of each thread

vars == <<k, pc, slice>>

Isr == {"tick", "irq"}

Actor == Thread \cup Isr

ThreadOp == {"run", "resume_unlink", "resume_insert", "sched", "block_sched", "unlock_sched",
             "yield_sched", "sleep_sched", "slept", "exit_sched", "dead", "idle_lock", "idle_free"}

TickOp == {"off", "tick_yield", "tick_sched", "tick_timer", "tick_loop"}

IrqOp == {"off", "irq_sched"}

\* The actor whose code the core executes.
Running ==
    IF pc["irq"].op # "off" THEN "irq"
    ELSE IF pc["tick"].op # "off" THEN "tick"
    ELSE k.current

At(a, op) == Running = a /\ pc[a].op = op

Goto(a, op, t) == pc' = [pc EXCEPT ![a] = [op |-> op, arg |-> t]]

\* An application thread that is free to call a kernel function.
Free(a) == a # Idle /\ At(a, "run")

-----------------------------------------------------------------------------
(* The state rtthread_startup hands to the scheduler: the first application *)
(* thread and the idle thread are ready and the highest of them runs.       *)

Started(kk, t, p) ==
    rt_schedule_insert_thread(
        [SetPriority(kk, t, p) EXCEPT !.init_priority[t] = p, !.stat[t] = "suspend"], t)

Empty ==
    [ stat |-> [t \in Thread |-> "none"], error |-> [t \in Thread |-> "EOK"],
      priority |-> [t \in Thread |-> 0], init_priority |-> [t \in Thread |-> 0],
      mask |-> [t \in Thread |-> {}], timer |-> {},
      lists |-> [l \in ListId |-> << >>], group |-> {},
      current |-> NoThread, lock_nest |-> 0 ]

Init ==
    /\ k = rt_schedule(Started(Started(Empty, InitThread, InitPriority),
                               Idle, PriorityMax - 1))
    /\ pc = [a \in Actor |-> [op |-> IF a \in Isr THEN "off" ELSE "run", arg |-> NoThread]]
    /\ slice = [t \in Thread |-> InitTick]

-----------------------------------------------------------------------------
(* Creating and starting a thread *)

rt_thread_create(a, t, p) ==
    /\ Free(a)
    /\ k.stat[t] = "none"
    /\ k' = [k EXCEPT !.stat[t] = "init", !.error[t] = "EOK", !.mask[t] = {},
                      !.priority[t] = p, !.init_priority[t] = p]
    /\ pc' = [pc EXCEPT ![t] = [op |-> "run", arg |-> NoThread]]
    /\ slice' = [slice EXCEPT ![t] = InitTick]

\* Up to the check at the head of rt_thread_resume, which sees the new stat.
rt_thread_startup(a, t) ==
    /\ Free(a)
    /\ k.stat[t] = "init"
    /\ k' = [SetPriority(k, t, k.init_priority[t]) EXCEPT !.stat[t] = "suspend"]
    /\ Goto(a, "resume_unlink", t)
    /\ UNCHANGED slice

resume_unlink(a) ==
    /\ At(a, "resume_unlink")
    /\ k' = rt_timer_stop(rt_list_remove(k, pc[a].arg), pc[a].arg)
    /\ Goto(a, "resume_insert", pc[a].arg)
    /\ UNCHANGED slice

\* Interrupts were enabled since resume_unlink.
resume_insert(a) ==
    /\ At(a, "resume_insert")
    /\ k' = rt_schedule_insert_thread(k, pc[a].arg)
    /\ Goto(a, "sched", NoThread)
    /\ UNCHANGED slice

-----------------------------------------------------------------------------
(* rt_schedule at the end of a kernel function, and where its caller goes  *)
(* on when it has the core again.                                          *)

AfterSched == [sched |-> "run", block_sched |-> "run", unlock_sched |-> "run",
               yield_sched |-> "run", sleep_sched |-> "slept", exit_sched |-> "dead"]

schedule(a) ==
    /\ Running = a
    /\ pc[a].op \in DOMAIN AfterSched
    /\ k' = rt_schedule(k)
    /\ Goto(a, AfterSched[pc[a].op], NoThread)
    /\ UNCHANGED slice

\* Sharing its priority: tlist.next # tlist.prev in a ring with a head.
Shares(kk, t) == kk.stat[t] = "ready" /\ Len(kk.lists[kk.priority[t]]) > 1

\* A slip: the thread that yields is put back in front.
to_head(kk, t) == rt_list_insert_after(rt_list_remove(kk, t), kk.priority[t], t)

ToTail(kk, t) == rt_list_insert_before(rt_list_remove(kk, t), kk.priority[t], t)

rt_thread_yield(a) ==
    /\ Free(a)
    /\ Shares(k, a)
    /\ k' = ToTail(k, a)
    /\ Goto(a, "yield_sched", NoThread)
    /\ UNCHANGED slice

\* Blocking calls are made with the scheduler unlocked.
rt_thread_sleep(a) ==
    /\ Free(a)
    /\ k.lock_nest = 0
    /\ k' = rt_timer_start(rt_thread_suspend(k, a), a)
    /\ Goto(a, "sleep_sched", NoThread)
    /\ UNCHANGED slice

slept(a) ==
    /\ At(a, "slept")
    /\ k' = [k EXCEPT !.error[a] = IF @ = "ETIMEOUT" THEN "EOK" ELSE @]
    /\ Goto(a, "run", NoThread)
    /\ UNCHANGED slice

\* The entry function returned.
rt_thread_exit(a) ==
    LET r == [rt_timer_stop(rt_schedule_remove_thread(k, a), a)
                EXCEPT !.stat[a] = "close"]
    IN  /\ Free(a)
        /\ k.lock_nest = 0
        /\ k' = IF a \in Static \ HasCleanup THEN r
                ELSE rt_list_insert_after(r, Defunct, a)
        /\ Goto(a, "exit_sched", NoThread)
        /\ UNCHANGED slice

-----------------------------------------------------------------------------
(* What every IPC object does to the scheduler: a caller that must wait is *)
(* queued, with or without a timeout, and the first waiter is resumed.     *)

block(a, w) ==
    /\ Free(a)
    /\ k.lock_nest = 0
    /\ \E flag \in {"FIFO", "PRIO"}, timed \in BOOLEAN :
           LET s == rt_ipc_list_suspend([k EXCEPT !.error[a] = "EOK"], w, a, flag)
           IN  k' = IF timed THEN rt_timer_start(s, a) ELSE s
    /\ Goto(a, "block_sched", NoThread)
    /\ UNCHANGED slice

wake(a, w) ==
    /\ Free(a)
    /\ k.lists[w] # << >>
    /\ k' = rt_ipc_list_resume(k, w)
    /\ Goto(a, "sched", NoThread)
    /\ UNCHANGED slice

rt_enter_critical(a) ==
    /\ Free(a)
    /\ k.lock_nest < MaxNest
    /\ k' = [k EXCEPT !.lock_nest = @ + 1]
    /\ UNCHANGED <<pc, slice>>

\* A slip: no rt_schedule when the lock is given up.
exit_critical_unscheduled(a) ==
    /\ Free(a)
    /\ k' = [k EXCEPT !.lock_nest = IF @ <= 1 THEN 0 ELSE @ - 1]
    /\ UNCHANGED <<pc, slice>>

\* A call that is not nested leaves the count at 0 and schedules as well.
rt_exit_critical(a) ==
    /\ Free(a)
    /\ k' = [k EXCEPT !.lock_nest = IF @ <= 1 THEN 0 ELSE @ - 1]
    /\ IF k.lock_nest <= 1 THEN Goto(a, "unlock_sched", NoThread) ELSE UNCHANGED pc
    /\ UNCHANGED slice

-----------------------------------------------------------------------------
(* The idle thread *)

has_defunct_thread ==
    /\ At(Idle, "run")
    /\ k.lists[Defunct] # << >>
    /\ Goto(Idle, "idle_lock", NoThread)
    /\ UNCHANGED <<k, slice>>

\* A slip: the dead thread is freed and stays on the defunct list.
idle_free_linked ==
    /\ At(Idle, "idle_lock")
    /\ LET t == Head(k.lists[Defunct])
       IN  IF t \in Static THEN Goto(Idle, "run", NoThread) ELSE Goto(Idle, "idle_free", t)
    /\ UNCHANGED <<k, slice>>

\* The list is looked at again under the lock.
idle_lock ==
    /\ At(Idle, "idle_lock")
    /\ IF k.lists[Defunct] = << >>
         THEN Goto(Idle, "run", NoThread) /\ UNCHANGED k
         ELSE LET t == Head(k.lists[Defunct])
              IN  /\ k' = rt_list_remove(k, t)
                  /\ IF t \in Static THEN Goto(Idle, "run", NoThread)
                                     ELSE Goto(Idle, "idle_free", t)
    /\ UNCHANGED slice


\* The stack and the thread object go back to the heap.
idle_free ==
    /\ At(Idle, "idle_free")
    /\ k' = [k EXCEPT !.stat[pc[Idle].arg] = "none"]
    /\ Goto(Idle, "run", NoThread)
    /\ UNCHANGED slice

-----------------------------------------------------------------------------
(* Interrupts *)

SysTick_Handler ==
    /\ pc["tick"].op = "off" /\ pc["irq"].op = "off"
    /\ slice' = [slice EXCEPT ![k.current] = IF @ = 1 THEN InitTick ELSE @ - 1]
    /\ Goto("tick", IF slice[k.current] = 1 THEN "tick_yield" ELSE "tick_timer", NoThread)
    /\ UNCHANGED k

\* rt_thread_yield called by rt_tick_increase: it reads rt_current_thread again.
tick_yield ==
    /\ At("tick", "tick_yield")
    /\ IF Shares(k, k.current)
         THEN k' = ToTail(k, k.current) /\ Goto("tick", "tick_sched", NoThread)
         ELSE Goto("tick", "tick_timer", NoThread) /\ UNCHANGED k
    /\ UNCHANGED slice

tick_sched ==
    /\ At("tick", "tick_sched")
    /\ k' = rt_schedule(k)
    /\ Goto("tick", "tick_timer", NoThread)
    /\ UNCHANGED slice

\* rt_timer_check runs every expired thread timer in one section.
tick_expire(t) ==
    /\ Running = "tick" /\ pc["tick"].op \in {"tick_timer", "tick_loop"}
    /\ t \in k.timer
    /\ k' = rt_thread_timeout(k, t)
    /\ Goto("tick", "tick_loop", NoThread)
    /\ UNCHANGED slice

tick_leave ==
    /\ Running = "tick" /\ pc["tick"].op \in {"tick_timer", "tick_loop"}
    /\ Goto("tick", "off", NoThread)
    /\ UNCHANGED <<k, slice>>

\* A device interrupt that releases what a thread waits for.
irq_wake(w) ==
    /\ pc["irq"].op = "off" /\ pc["tick"].op # "tick_loop"
    /\ k.lists[w] # << >>
    /\ k' = rt_ipc_list_resume(k, w)
    /\ Goto("irq", "irq_sched", NoThread)
    /\ UNCHANGED slice

irq_sched ==
    /\ At("irq", "irq_sched")
    /\ k' = rt_schedule(k)
    /\ Goto("irq", "off", NoThread)
    /\ UNCHANGED slice

-----------------------------------------------------------------------------

ThreadStep(a) ==
    \/ resume_unlink(a) \/ resume_insert(a) \/ schedule(a) \/ slept(a)

ThreadCall(a) ==
    \/ \E t \in Thread, p \in Priority : rt_thread_create(a, t, p)
    \/ \E t \in Thread : rt_thread_startup(a, t)
    \/ rt_thread_yield(a) \/ rt_thread_sleep(a) \/ rt_thread_exit(a)
    \/ \E w \in WaitList : block(a, w) \/ wake(a, w)
    \/ rt_enter_critical(a) \/ rt_exit_critical(a)

IdleStep == has_defunct_thread \/ idle_lock \/ idle_free

TickStep == tick_yield \/ tick_sched \/ tick_leave \/ \E t \in Thread : tick_expire(t)

Next ==
    \/ \E a \in Thread : ThreadStep(a) \/ ThreadCall(a)
    \/ IdleStep
    \/ SysTick_Handler \/ TickStep
    \/ \E w \in WaitList : irq_wake(w)
    \/ irq_sched

Spec == Init /\ [][Next]_vars

\* The core keeps executing: every interrupt handler returns, a pending
\* SysTick is latched until no other handler runs, and the thread that has
\* the core again and again finishes the kernel function it is in.  When it
\* calls one is its own affair.
Fairness ==
    /\ \A a \in Thread : SF_vars(ThreadStep(a))
    /\ SF_vars(IdleStep)
    /\ WF_vars(irq_sched)
    /\ SF_vars(SysTick_Handler)
    /\ SF_vars(tick_yield \/ tick_sched \/ tick_leave)

FairSpec == Spec /\ Fairness

-----------------------------------------------------------------------------
(* Properties *)

TypeOK ==
    /\ k \in KernelState
    /\ pc \in [Actor -> [op : ThreadOp \cup TickOp \cup IrqOp, arg : Thread \cup {NoThread}]]
    /\ \A a \in Thread : pc[a].op \in ThreadOp
    /\ pc["tick"].op \in TickOp /\ pc["irq"].op \in IrqOp
    /\ slice \in [Thread -> 1 .. InitTick]

\* The list node of a thread is in at most one ring, once: no insertion of
\* rt_schedule_insert_thread, rt_ipc_list_suspend or rt_thread_exit meets a
\* node that is still linked, which would break both rings.
LinkedOnce == NodesLinkedOnce(k)

\* What rt_schedule reads is exact: a thread is in the ready queue of its
\* current priority iff its stat is READY, threads in the other rings have
\* the stat that goes with the ring, and the priority bitmap has a bit for
\* exactly the ready queues that are not empty.
ReadyQueueExact == StatTellsList(k) /\ BitmapExact(k)

\* The actor that still owes a call of rt_schedule for what it changed.
Owes(a) == pc[a].op \in DOMAIN AfterSched \cup {"tick_sched", "irq_sched"}

\* Priority scheduling: unless the scheduler is locked, or the current thread
\* or an interrupt handler has an rt_schedule ahead of it, the current thread
\* is the first of the highest ready priority, whatever the order in which
\* tick, device interrupt and threads changed the queues.
HighestRuns ==
    \/ k.lock_nest > 0
    \/ k.current = HighestReady(k) /\ k.current # NoThread
    \/ k.current \in Thread /\ Owes(k.current)
    \/ Owes("tick") \/ Owes("irq")

\* A thread object that the idle thread has given back to the heap is
\* referenced by nothing: no ring, no timer, not the scheduler, no function
\* in progress.
FreedUnreferenced ==
    \A t \in Thread : k.stat[t] = "none" =>
        /\ ~Linked(k, t)
        /\ t \notin k.timer
        /\ k.current # t
        /\ \A a \in Actor : pc[a].arg # t

\* A thread timer runs only for a thread that is suspended, which is what
\* rt_thread_timeout asserts when the timer fires.
TimerImpliesSuspended == TimersOfSuspended(k)

\* Between rt_enter_critical and rt_exit_critical no other thread gets the
\* core, whatever interrupts resume meanwhile.
LockedIsNotPreempted == [][k.lock_nest > 0 => k'.current = k.current]_vars

\* No thread of the highest ready priority starves: the tick rotates the
\* ready queue until each of them has had the core again.
RoundRobin ==
    \A t \in Thread :
        <>[](k.stat[t] = "ready" /\ k.priority[t] = Min(k.group) /\ k.lock_nest = 0)
        => []<>(k.current = t)

=============================================================================
