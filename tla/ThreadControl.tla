--------------------------- MODULE ThreadControl ----------------------------
(***************************************************************************)
(* What a thread does to ANOTHER thread: rt_thread_suspend,                *)
(* rt_thread_resume, rt_thread_delete, rt_thread_detach and                *)
(* rt_thread_control, on top of everything in module Scheduler.            *)
(*                                                                         *)
(* These functions read thread->stat, or leave the thread half changed,    *)
(* with interrupts enabled.  With Exclusive the caller makes sure that     *)
(* neither an interrupt nor another thread can change the thread during    *)
(* the call; the functions themselves do not.                              *)
(***************************************************************************)
EXTENDS Scheduler

CONSTANT Exclusive

ASSUME ThreadControlAssumption == Exclusive \in BOOLEAN

ControlOp == {"suspend", "suspend_done", "delete_timer", "delete_close",
              "delete_defunct", "detach_timer", "detach_close", "detach_defunct"}

\* A thread that exists, and that nothing but the caller can change.
Controls(t, x) ==
    /\ Free(t) /\ x \notin {t, Idle}
    /\ k.stat[x] \in {"init", "ready", "suspend"}
    /\ Exclusive => /\ \A a \in Actor : pc[a].arg # x
                    /\ x \notin k.timer
                    /\ \A w \in WaitList : x \notin On(k, w)
                    /\ k.stat[x] = "ready" => k.priority[x] > k.priority[t]

\* Where the function goes on, about the same thread.
Step(t, here, there) == At(t, here) /\ Goto(t, there, pc[t].arg) /\ UNCHANGED slice

-----------------------------------------------------------------------------
(* rt_thread_suspend and rt_thread_resume *)

\* The check of thread->stat, with interrupts enabled.
suspend_check(t, x) ==
    /\ Controls(t, x)
    /\ k.stat[x] = "ready"
    /\ Goto(t, "suspend", x)
    /\ UNCHANGED <<k, slice>>

\* A slip: the thread stays in its ready queue.
suspend_in_place(t) ==
    /\ Step(t, "suspend", "suspend_done")
    /\ k' = rt_timer_stop([k EXCEPT !.stat[pc[t].arg] = "suspend"], pc[t].arg)

suspend(t) ==
    LET x == pc[t].arg
    IN  /\ Step(t, "suspend", "suspend_done")
        /\ k' = rt_timer_stop(
                    rt_schedule_remove_thread([k EXCEPT !.stat[x] = "suspend"], x), x)

suspend_done(t) ==
    /\ At(t, "suspend_done")
    /\ Goto(t, "run", NoThread)
    /\ UNCHANGED <<k, slice>>

\* A thread that suspends itself calls rt_schedule next.
suspend_self(t) ==
    /\ Free(t) /\ k.lock_nest = 0
    /\ k' = rt_thread_suspend(k, t)
    /\ Goto(t, "block_sched", NoThread)
    /\ UNCHANGED slice

\* The sections of rt_thread_resume are resume_unlink and resume_insert; the
\* caller calls rt_schedule after it.
resume_check(t, x) ==
    /\ Controls(t, x)
    /\ k.stat[x] = "suspend"
    /\ Goto(t, "resume_unlink", x)
    /\ UNCHANGED <<k, slice>>

-----------------------------------------------------------------------------
(* rt_thread_delete for threads from the heap, rt_thread_detach for static *)
(* ones.                                                                   *)

delete(t, x) ==
    /\ Controls(t, x)
    /\ k' = rt_schedule_remove_thread(k, x)
    /\ Goto(t, IF x \in Static THEN "detach_timer" ELSE "delete_timer", x)
    /\ UNCHANGED slice

\* rt_timer_detach
delete_timer(t) ==
    /\ Step(t, "delete_timer", "delete_close") \/ Step(t, "detach_timer", "detach_close")
    /\ k' = rt_timer_stop(k, pc[t].arg)

delete_close(t) ==
    /\ Step(t, "delete_close", "delete_defunct") \/ Step(t, "detach_close", "detach_defunct")
    /\ k' = [k EXCEPT !.stat[pc[t].arg] = "close"]

delete_defunct(t) ==
    LET x == pc[t].arg
    IN  /\ \/ At(t, "delete_defunct") /\ k' = rt_list_insert_after(k, Defunct, x)
           \/ At(t, "detach_defunct") /\ k' = IF x \in HasCleanup
                                                THEN rt_list_insert_after(k, Defunct, x)
                                                ELSE k
        /\ Goto(t, "run", NoThread)
        /\ UNCHANGED slice

\* RT_THREAD_CTRL_CHANGE_PRIORITY, one section; the caller calls rt_schedule.
control_priority(t, x, p) ==
    /\ Controls(t, x)
    /\ k' = change_priority(k, x, p)
    /\ Goto(t, "sched", NoThread)
    /\ UNCHANGED slice

-----------------------------------------------------------------------------

Control(t) ==
    \/ \E x \in Thread :
           \/ suspend_check(t, x) \/ resume_check(t, x) \/ delete(t, x)
           \/ \E p \in Priority : control_priority(t, x, p)
    \/ suspend(t) \/ suspend_done(t) \/ suspend_self(t)
    \/ delete_timer(t) \/ delete_close(t) \/ delete_defunct(t)

ControlNext == Next \/ \E t \in Thread : Control(t)

ControlSpec == Init /\ [][ControlNext]_vars

-----------------------------------------------------------------------------
(* Properties *)

\* The threads a call of rt_thread_delete or rt_thread_detach is taking apart.
Closing == {pc[t].arg : t \in {u \in Thread : pc[u].op \in ControlOp \ {"suspend", "suspend_done"}}}

\* Controlling a thread leaves the rings and the bitmap as rt_schedule needs
\* them in every window of these functions: nobody is linked twice, the
\* bitmap is exact, and only a thread that is being deleted can be READY
\* without being in its ready queue.
ControlKeepsQueues ==
    /\ NodesLinkedOnce(k)
    /\ BitmapExact(k)
    /\ \A t \in Thread \ Closing :
           k.stat[t] = "ready" <=> \E p \in Priority : t \in On(k, p)


\* A thread that rt_thread_resume took off its suspend list is in no list when
\* rt_thread_resume inserts it into its ready queue.
ResumeInsertsUnlinked ==
    \A t \in Thread : pc[t].op = "resume_insert" => ~Linked(k, pc[t].arg)

\* A deleted thread is out of the ready queues.
DeletedIsRemoved == \A t \in Thread, p \in Priority : k.stat[t] = "close" => t \notin On(k, p)

=============================================================================
