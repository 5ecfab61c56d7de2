---------------------------- MODULE MessageQueue ----------------------------
(***************************************************************************)
(* A message queue: messages are copied into buffers of a pool and out of  *)
(* them with interrupts enabled, between a section that takes a buffer and *)
(* one that gives it on.  The linked lists of buffers are sequences.       *)
(***************************************************************************)
EXTENDS Core

CONSTANTS Mail, Nothing,   \* the messages, and one not received yet
          Buffer, NoBuffer,
          Receivers, Flag  \* the wait queue, "FIFO" or "PRIO"

VARIABLES mq,      \* msg_queue_free, the list from msg_queue_head to _tail, entry,
                   \* what is in the buffers; valid: initialised and not being detached
          local,   \* of each thread: its buffer, its message, urgent, its timeout
          taken    \* the message that left the queue last (for the properties)

vars == <<k, pc, mq, local, taken>>

NoCall == [msg |-> NoBuffer, mail |-> Nothing, urgent |-> FALSE, timeout |-> "zero"]

rt_mq_init(data) ==
    [free |-> SetToSeq(Buffer), queue |-> << >>, entry |-> 0, data |-> data, valid |-> TRUE]

Init ==
    /\ CoreInit
    /\ mq = rt_mq_init([b \in Buffer |-> Nothing])
    /\ local = [t \in Thread |-> NoCall]
    /\ taken = Nothing

Set(t, call) == local' = [local EXCEPT ![t] = call]

-----------------------------------------------------------------------------
(* rt_mq_send and rt_mq_urgent *)

\* First section; without a free buffer the call returns -RT_EFULL.
rt_mq_send(t) ==
    /\ Free(t) /\ mq.valid /\ mq.free # << >>
    /\ \E m \in Mail, urgent \in BOOLEAN :
           Set(t, [NoCall EXCEPT !.msg = Head(mq.free), !.mail = m, !.urgent = urgent])
    /\ mq' = [mq EXCEPT !.free = Tail(@)]
    /\ Goto(t, "send_copy")
    /\ UNCHANGED <<k, taken>>

send_copy(t) ==
    /\ At(t, "send_copy")
    /\ mq' = [mq EXCEPT !.data[local[t].msg] = local[t].mail]
    /\ Goto(t, "send_link")
    /\ UNCHANGED <<k, local, taken>>

Link(q, b, urgent) ==
    [q EXCEPT !.queue = IF urgent THEN <<b>> \o @ ELSE Append(@, b), !.entry = @ + 1]

\* Second section.
send_link(t) ==
    /\ At(t, "send_link")
    /\ mq' = Link(mq, local[t].msg, local[t].urgent)
    /\ IF k.lists[Receivers] # << >>
         THEN k' = rt_ipc_list_resume(k, Receivers) /\ Goto(t, "sched")
         ELSE UNCHANGED k /\ Goto(t, "run")
    /\ Set(t, NoCall)
    /\ UNCHANGED taken

\* The whole call in a device interrupt.
irq_send ==
    /\ mq.valid /\ mq.free # << >>
    /\ \E m \in Mail, urgent \in BOOLEAN :
           LET b == Head(mq.free)
           IN  mq' = Link([mq EXCEPT !.free = Tail(@), !.data[b] = m], b, urgent)
    /\ IF k.lists[Receivers] # << >> THEN irq_resume(Receivers) ELSE UNCHANGED <<k, pc>>
    /\ UNCHANGED <<local, taken>>

-----------------------------------------------------------------------------
(* rt_mq_recv *)

\* A slip: the buffer goes back to the pool before it is copied.
free_first(t, b) == mq' = [mq EXCEPT !.queue = Tail(@), !.entry = @ - 1,
                                     !.free = <<b>> \o @]

Unlink(t, b) == mq' = [mq EXCEPT !.queue = Tail(@), !.entry = @ - 1]

\* One pass through the loop.
recv(t, timeout) ==
    \/ /\ mq.entry = 0 /\ timeout = "zero"           \* -RT_ETIMEOUT
       /\ k' = IF pc[t] = "run" THEN k ELSE [k EXCEPT !.error[t] = "ETIMEOUT"]
       /\ Goto(t, "run") /\ Set(t, NoCall)
       /\ UNCHANGED <<mq, taken>>
    \/ /\ mq.entry = 0 /\ timeout # "zero"
       /\ k' = Suspended(t, Receivers, Flag, timeout)
       /\ Goto(t, "recv_sched") /\ Set(t, [NoCall EXCEPT !.timeout = timeout])
       /\ UNCHANGED <<mq, taken>>
    \/ /\ mq.entry # 0
       /\ Unlink(t, Head(mq.queue))
       /\ taken' = mq.data[Head(mq.queue)]
       /\ Goto(t, "recv_copy")
       /\ Set(t, [NoCall EXCEPT !.msg = Head(mq.queue), !.mail = taken'])
       /\ UNCHANGED k

rt_mq_recv(t) ==
    /\ Free(t) /\ mq.valid
    /\ \E timeout \in Timeout : recv(t, timeout)

recv_again(t) ==
    /\ At(t, "recv_again") /\ k.error[t] = "EOK"
    /\ \E timeout \in Left(local[t].timeout) : recv(t, timeout)

give_up(t) ==
    /\ At(t, "recv_again") /\ k.error[t] # "EOK"
    /\ Goto(t, "run") /\ Set(t, NoCall)
    /\ UNCHANGED <<k, mq, taken>>

\* The copy, and the section that gives the buffer back.
recv_copy(t) ==
    /\ At(t, "recv_copy")
    /\ Goto(t, "recv_free")
    /\ UNCHANGED <<k, mq, local, taken>>

recv_free(t) ==
    /\ At(t, "recv_free")
    /\ mq' = [mq EXCEPT !.free = <<local[t].msg>> \o @]
    /\ Goto(t, "run") /\ Set(t, NoCall)
    /\ UNCHANGED <<k, taken>>

-----------------------------------------------------------------------------

\* RT_IPC_CMD_RESET, one section.
rt_mq_control(t) ==
    /\ Free(t) /\ mq.valid
    /\ k' = rt_ipc_list_resume_all(k, Receivers)
    /\ mq' = [mq EXCEPT !.free = Reverse(mq.queue) \o @, !.queue = << >>, !.entry = 0]
    /\ Goto(t, "sched")
    /\ UNCHANGED <<local, taken>>

InCall == {t \in Thread : local[t] # NoCall /\ t \notin On(k, Receivers)}

\* The caller's duty: nobody is inside a call, other than waiting without a
\* timeout, and nobody calls the queue from here on.
rt_mq_detach(t) ==
    /\ Free(t) /\ mq.valid /\ InCall = {} /\ On(k, Receivers) \cap k.timer = {}
    /\ mq' = [mq EXCEPT !.valid = FALSE]
    /\ Goto(t, "detach")
    /\ UNCHANGED <<k, local, taken>>

detach_resume(t) ==
    /\ resume_all_round(t, "detach", Receivers, "run")
    /\ UNCHANGED <<mq, local, taken>>

Detaching == \E t \in Thread : pc[t] = "detach"

init_again(t) ==
    /\ Free(t) /\ ~mq.valid /\ ~Detaching
    /\ mq' = rt_mq_init(mq.data)
    /\ UNCHANGED <<k, pc, local, taken>>

schedule(t) ==
    /\ \/ reschedule(t, "recv_sched", "recv_again")
       \/ reschedule(t, "sched", "run")
       \/ Delay(t)
    /\ UNCHANGED <<mq, local, taken>>

tick ==
    /\ tick_yield \/ \E t \in Thread : tick_expire(t)
    /\ UNCHANGED <<mq, local, taken>>

Next ==
    \/ \E t \in Thread :
           \/ rt_mq_send(t) \/ send_copy(t) \/ send_link(t) \/ rt_mq_recv(t) \/ recv_again(t)
           \/ give_up(t) \/ recv_copy(t) \/ recv_free(t) \/ rt_mq_control(t)
           \/ rt_mq_detach(t) \/ detach_resume(t) \/ init_again(t) \/ schedule(t)
    \/ irq_send
    \/ tick

Spec == Init /\ [][Next]_vars

-----------------------------------------------------------------------------
(* Properties *)

\* No receiver sleeps beside a message, although it was linked after the
\* receiver had looked, or taken by another one first.
NoWaiterForgotten ==
    k.lists[Receivers] # << >> =>
        IF mq.valid THEN mq.entry <= Cardinality(Woken(Receivers, "recv_sched", "recv_again"))
        ELSE Detaching

\* Every buffer is in one place: free, in the queue or in the hands of one
\* caller that copies into it or out of it; and what is copied out is what
\* was in the buffer when it left the queue.
BuffersConserved ==
    LET held == {t \in Thread : local[t].msg # NoBuffer}
        all == mq.free \o mq.queue \o SetToSeq({local[t].msg : t \in held})
    IN  mq.valid =>
          /\ IsInjective(all) /\ ToSet(all) = Buffer
          /\ \A t, u \in held : local[t].msg = local[u].msg => t = u
          /\ \A t \in held : pc[t] = "recv_copy" => mq.data[local[t].msg] = local[t].mail

Abstract == INSTANCE BoundedFifo WITH
    Capacity <- Cardinality(Buffer), Urgent <- TRUE, got <- taken,
    queue <- [i \in 1 .. mq.entry |-> mq.data[mq.queue[i]]]

\* Messages leave the queue in the order in which they were linked, urgent
\* ones first, each of them once.
DeliversInOrder == Abstract!Spec

=============================================================================
