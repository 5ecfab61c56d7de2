------------------------------- MODULE Kernel -------------------------------
(***************************************************************************)
(* The kernel data structures every other module works on, and the kernel  *)
(* functions that change them, each as an operator from the kernel state   *)
(* before the call to the kernel state after it.  The operators carry the  *)
(* names of the C functions.                                               *)
(*                                                                         *)
(* A thread has ONE list node, tlist, that links it into a ready queue, a  *)
(* wait queue of an IPC object or the defunct list.  The doubly linked     *)
(* rings are sequences of threads; the head of a ring is not an element.   *)
(***************************************************************************)
EXTENDS Integers, Sequences, FiniteSets, SequencesExt

CONSTANTS Thread,        \* thread objects (struct rt_thread)
          Idle,          \* the idle thread
          NoThread,      \* what rt_list_entry makes of the head of a ring
          WaitList,      \* wait queues of the IPC objects
          Defunct,       \* rt_thread_defunct
          PriorityMax    \* RT_THREAD_PRIORITY_MAX

Priority == 0 .. PriorityMax - 1

ListId == Priority \cup WaitList \cup {Defunct}

ASSUME KernelAssumption ==
    /\ PriorityMax \in Nat \ {0}
    /\ Idle \in Thread
    /\ NoThread \notin Thread
    /\ Priority \cap WaitList = {}
    /\ Defunct \notin Priority \cup WaitList

\* "none" is memory that holds no thread object
Stat == {"none", "init", "ready", "suspend", "close"}

Error == {"EOK", "ETIMEOUT", "ERROR"}

KernelState ==
    [ stat         : [Thread -> Stat],
      error        : [Thread -> Error],
      priority     : [Thread -> Priority],           \* current_priority
      init_priority: [Thread -> Priority],
      mask         : [Thread -> SUBSET Priority],    \* number_mask
      timer        : SUBSET Thread,                  \* running thread_timers
      lists        : [ListId -> Seq(Thread)],
      group        : SUBSET Priority,                \* rt_thread_ready_priority_group
      current      : Thread \cup {NoThread},         \* rt_current_thread
      lock_nest    : Nat ]                           \* rt_scheduler_lock_nest

-----------------------------------------------------------------------------
(* Lists *)

On(k, l) == ToSet(k.lists[l])

Linked(k, t) == \E l \in ListId : t \in On(k, l)

\* The node is taken out of whatever ring it is in; a node in no ring stays so.
rt_list_remove(k, t) ==
    [k EXCEPT !.lists = [l \in ListId |-> RemoveFirst(k.lists[l], t)]]

\* rt_list_insert_before(head, node) puts the node at the end of the ring,
\* rt_list_insert_after(head, node) at its beginning.
rt_list_insert_before(k, l, t) == [k EXCEPT !.lists[l] = Append(@, t)]

rt_list_insert_after(k, l, t) == [k EXCEPT !.lists[l] = <<t>> \o @]

-----------------------------------------------------------------------------
(* The scheduler *)

rt_schedule_insert_thread(k, t) ==
    [rt_list_insert_before(k, k.priority[t], t) EXCEPT
        !.stat[t] = "ready",
        !.group = @ \cup k.mask[t]]

\* A slip: the bit of a queue that became empty stays set.
remove_thread_keep_bit(k, t) == rt_list_remove(k, t)

rt_schedule_remove_thread(k, t) ==
    LET u == rt_list_remove(k, t)
    IN  [u EXCEPT !.group = IF u.lists[k.priority[t]] = << >>
                              THEN @ \ k.mask[t] ELSE @]

\* The first thread of the highest ready priority; the head of an empty ring
\* is read as if it were inside a thread object.
HighestReady(k) ==
    IF k.group = {} \/ k.lists[Min(k.group)] = << >>
      THEN NoThread
      ELSE Head(k.lists[Min(k.group)])

\* A slip: rt_scheduler_lock_nest is not looked at.
schedule_locked(k) == [k EXCEPT !.current = HighestReady(k)]

rt_schedule(k) ==
    IF k.lock_nest = 0 THEN [k EXCEPT !.current = HighestReady(k)] ELSE k

-----------------------------------------------------------------------------
(* Threads.  The thread timer is running or not; how long it runs is left  *)
(* open, so a timeout may come at any tick after it is started.            *)

rt_timer_start(k, t) == [k EXCEPT !.timer = @ \cup {t}]

rt_timer_stop(k, t) == [k EXCEPT !.timer = @ \ {t}]

rt_thread_suspend(k, t) ==
    IF k.stat[t] # "ready" THEN k
    ELSE rt_timer_stop(
             rt_schedule_remove_thread([k EXCEPT !.stat[t] = "suspend"], t), t)

rt_thread_resume(k, t) ==
    IF k.stat[t] # "suspend" THEN k
    ELSE rt_schedule_insert_thread(rt_timer_stop(rt_list_remove(k, t), t), t)

\* A slip: the thread that timed out stays in its wait queue.
timeout_still_queued(k, t) ==
    rt_schedule(
        rt_schedule_insert_thread([rt_timer_stop(k, t) EXCEPT !.error[t] = "ETIMEOUT"], t))

\* Called by rt_timer_check, which has taken the timer off its list.
rt_thread_timeout(k, t) ==
    rt_schedule(
        rt_schedule_insert_thread(
            rt_list_remove([rt_timer_stop(k, t) EXCEPT !.error[t] = "ETIMEOUT"], t),
            t))

SetPriority(k, t, p) == [k EXCEPT !.priority[t] = p, !.mask[t] = {p}]

\* rt_thread_control(thread, RT_THREAD_CTRL_CHANGE_PRIORITY, &p)
change_priority(k, t, p) ==
    IF k.stat[t] = "ready"
      THEN rt_schedule_insert_thread(
               SetPriority(rt_schedule_remove_thread(k, t), t, p), t)
      ELSE SetPriority(k, t, p)

-----------------------------------------------------------------------------
(* Wait queues of IPC objects *)

\* A slip: priorities compared the wrong way round.
prio_reversed(k, l, t) ==
    LET s == k.lists[l]
    IN  Min({i \in 1 .. Len(s) : k.priority[t] > k.priority[s[i]]} \cup {Len(s) + 1})

\* Where RT_IPC_FLAG_PRIO puts a thread: before the first waiter of a lower
\* priority (a larger number), else at the end.
PrioPosition(k, l, t) ==
    LET s == k.lists[l]
    IN  Min({i \in 1 .. Len(s) : k.priority[t] < k.priority[s[i]]} \cup {Len(s) + 1})

rt_ipc_list_suspend(k, l, t, flag) ==
    LET s == rt_thread_suspend(k, t)
    IN  [s EXCEPT !.lists[l] = IF flag = "FIFO"
                                 THEN Append(@, t)
                                 ELSE InsertAt(@, PrioPosition(s, l, t), t)]

rt_ipc_list_resume(k, l) == rt_thread_resume(k, Head(k.lists[l]))

-----------------------------------------------------------------------------
(* What the kernel functions keep true of the kernel state *)

\* The list node of a thread is in at most one ring, and once in it.
NodesLinkedOnce(k) ==
    /\ \A l \in ListId : IsInjective(k.lists[l])
    /\ \A l1, l2 \in ListId : l1 # l2 => On(k, l1) \cap On(k, l2) = {}

\* The ready queues hold the READY threads by current priority, the wait
\* queues suspended threads, the defunct list closed ones.
StatTellsList(k) ==
    \A t \in Thread :
        /\ \A p \in Priority :
               t \in On(k, p) <=> k.stat[t] = "ready" /\ k.priority[t] = p
        /\ \A w \in WaitList : t \in On(k, w) => k.stat[t] = "suspend"
        /\ t \in On(k, Defunct) => k.stat[t] = "close"

\* The bitmap has a bit for exactly the ready queues that are not empty.
BitmapExact(k) == k.group = {p \in Priority : On(k, p) # {}}

\* number_mask goes with current_priority from rt_thread_startup on.
MaskExact(k) ==
    \A t \in Thread : k.stat[t] \in {"ready", "suspend"} => k.mask[t] = {k.priority[t]}

\* Only suspended threads have a running timer.
TimersOfSuspended(k) == \A t \in k.timer : k.stat[t] = "suspend"

KernelInv(k) ==
    /\ k \in KernelState
    /\ NodesLinkedOnce(k)
    /\ StatTellsList(k)
    /\ BitmapExact(k)
    /\ MaskExact(k)
    /\ TimersOfSuspended(k)

=============================================================================
