------------------------------ MODULE MemPool ------------------------------
(***************************************************************************)
(* A memory pool: blocks of one size on a list, and a count of the threads *)
(* that wait for one (suspend_thread_count), kept beside the queue of them *)
(* and used in its place.                                                  *)
(***************************************************************************)
EXTENDS Core

CONSTANTS Piece,        
          Queue,         \* the suspended threads, the last one first
          TimedWait      \* whether callers give rt_mp_alloc a waiting time

VARIABLES mp,       \* block_list, block_free_count, suspend_thread_count, valid
          own,      \* the blocks each thread has allocated
          left      \* the waiting time of a call in progress

vars == <<k, pc, mp, own, left>>

rt_mp_init == [block_list |-> SetToSeq(Piece), block_free_count |-> Cardinality(Piece),
               suspend_thread_count |-> 0, valid |-> TRUE]

Init ==
    /\ CoreInit
    /\ mp = rt_mp_init
    /\ own = [t \in Thread |-> {}]
    /\ left = [t \in Thread |-> "zero"]

Waits == IF TimedWait THEN Timeout ELSE {"zero", "forever"}

\* One pass through the loop of rt_mp_alloc.
alloc(t, time) ==
    \/ /\ mp.block_free_count = 0 /\ time = "zero"       \* RT_NULL, -RT_ETIMEOUT
       /\ k' = [k EXCEPT !.error[t] = "ETIMEOUT"]
       /\ Goto(t, "run") /\ left' = [left EXCEPT ![t] = "zero"]
       /\ UNCHANGED <<mp, own>>
    \/ /\ mp.block_free_count = 0 /\ time # "zero"
       /\ LET s == [rt_thread_suspend([k EXCEPT !.error[t] = "EOK"], t)
                       EXCEPT !.lists[Queue] = <<t>> \o @]
          IN  k' = IF time = "some" THEN rt_timer_start(s, t) ELSE s
       /\ mp' = [mp EXCEPT !.suspend_thread_count = @ + 1]
       /\ Goto(t, "alloc_sched") /\ left' = [left EXCEPT ![t] = time]
       /\ UNCHANGED own
    \/ /\ mp.block_free_count > 0
       /\ mp' = [mp EXCEPT !.block_free_count = @ - 1, !.block_list = Tail(@)]
       /\ own' = [own EXCEPT ![t] = @ \cup {Head(mp.block_list)}]
       /\ Goto(t, "run") /\ left' = [left EXCEPT ![t] = "zero"]
       /\ UNCHANGED k

rt_mp_alloc(t) ==
    /\ Free(t) /\ mp.valid
    /\ \E time \in Waits : alloc(t, time)

alloc_again(t) ==
    /\ At(t, "alloc_again") /\ k.error[t] = "EOK"
    /\ \E time \in Left(left[t]) : alloc(t, time)

give_up(t) ==
    /\ At(t, "alloc_again") /\ k.error[t] # "EOK"
    /\ Goto(t, "run") /\ left' = [left EXCEPT ![t] = "zero"]
    /\ UNCHANGED <<k, mp, own>>

-----------------------------------------------------------------------------
(* rt_mp_free *)

Freed(b) ==
    mp' = [mp EXCEPT !.block_list = <<b>> \o @, !.block_free_count = @ + 1,
                     !.suspend_thread_count = IF @ > 0 THEN @ - 1 ELSE @]

\* Whether rt_mp_free takes the list head for a thread: the count is wrong.
Astray == mp.suspend_thread_count > 0 /\ k.lists[Queue] = << >>

\* The thread at the head of the queue, when the count says there is one.
Resumed ==
    LET u == Head(k.lists[Queue])
    IN  IF mp.suspend_thread_count = 0 THEN k
        ELSE rt_thread_resume([k EXCEPT !.error[u] = "EOK"], u)

rt_mp_free(t) ==
    /\ Free(t) /\ mp.valid /\ ~Astray
    /\ \E b \in own[t] :
           /\ Freed(b)
           /\ own' = [own EXCEPT ![t] = @ \ {b}]
    /\ k' = Resumed
    /\ Goto(t, IF mp.suspend_thread_count > 0 THEN "sched" ELSE "run")
    /\ UNCHANGED left

\* An interrupt handler frees a block that a thread has handed to its device.
irq_free ==
    /\ mp.valid /\ ~Astray
    /\ \E t \in Thread : \E b \in own[t] :
           /\ Freed(b)
           /\ own' = [own EXCEPT ![t] = @ \ {b}]
    /\ k' = IF mp.suspend_thread_count > 0 THEN rt_schedule(Resumed) ELSE k
    /\ UNCHANGED <<pc, left>>

-----------------------------------------------------------------------------

\* rt_mp_detach and rt_mp_delete, one round after the other; the caller's
\* duty: all callers wait without a timeout, and nobody calls from here on.
rt_mp_detach(t) ==
    /\ Free(t) /\ mp.valid /\ On(k, Queue) \cap k.timer = {}
    /\ \A u \in Thread : pc[u] \in {"alloc_sched", "alloc_again"} => u \in On(k, Queue)
    /\ mp' = [mp EXCEPT !.valid = FALSE]
    /\ Goto(t, "detach")
    /\ UNCHANGED <<k, own, left>>

detach_resume(t) ==
    /\ At(t, "detach")
    /\ resume_all_round(t, "detach", Queue, "run")
    /\ mp' = IF k.lists[Queue] # << >> THEN [mp EXCEPT !.suspend_thread_count = @ - 1] ELSE mp
    /\ UNCHANGED <<own, left>>

Detaching == \E t \in Thread : pc[t] = "detach"

\* Over the same memory: the blocks that were allocated are void.
init_again(t) ==
    /\ Free(t) /\ ~mp.valid /\ ~Detaching
    /\ mp' = rt_mp_init
    /\ own' = [u \in Thread |-> {}]
    /\ UNCHANGED <<k, pc, left>>

schedule(t) ==
    /\ \/ reschedule(t, "alloc_sched", "alloc_again")
       \/ reschedule(t, "sched", "run")
       \/ Delay(t)
    /\ UNCHANGED <<mp, own, left>>

tick ==
    /\ tick_yield \/ \E t \in Thread : tick_expire(t)
    /\ UNCHANGED <<mp, own, left>>

Next ==
    \/ \E t \in Thread :
           \/ rt_mp_alloc(t) \/ alloc_again(t) \/ give_up(t) \/ rt_mp_free(t)
           \/ rt_mp_detach(t) \/ detach_resume(t) \/ init_again(t) \/ schedule(t)
    \/ irq_free
    \/ tick

Spec == Init /\ [][Next]_vars

-----------------------------------------------------------------------------
(* Properties *)

\* No thread waits beside a free block that nobody is on the way to.
NoWaiterForgotten ==
    k.lists[Queue] # << >> =>
        IF mp.valid
          THEN mp.block_free_count <= Cardinality(Woken(Queue, "alloc_sched", "alloc_again"))
          ELSE Detaching

\* Every block is on the list or belongs to one thread, and the counts are
\* those of the lists; rt_mp_free relies on the second one.
BlocksConserved ==
    LET all == mp.block_list \o FoldLeft(LAMBDA s, t : s \o SetToSeq(own[t]), << >>,
                                         SetToSeq(Thread))
    IN  mp.valid => /\ IsInjective(all) /\ ToSet(all) = Piece
                    /\ mp.block_free_count = Len(mp.block_list)
                    /\ mp.suspend_thread_count = Len(k.lists[Queue])

=============================================================================
