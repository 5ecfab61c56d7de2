------------------------------ MODULE Mailbox -------------------------------
(***************************************************************************)
(* A mailbox: a ring of mails with one queue of waiting receivers and one  *)
(* of waiting senders.  Threads send and receive with or without waiting,  *)
(* device interrupts without; a thread may reset or detach the mailbox.    *)
(***************************************************************************)
EXTENDS Core

CONSTANTS Mail, Nothing,       \* the mails, and a mail not received yet
          Size,                \* mb->size
          Receivers, Senders,  \* suspend_thread, suspend_sender_thread
          Flag                 \* "FIFO" or "PRIO"

VARIABLES mb,      \* msg_pool, entry, in_offset and out_offset
          local,   \* the mail to send and the timeout of the call in progress
          value,   \* the mail that was received last
          valid    \* the mailbox is initialised and not being detached

vars == <<k, pc, mb, local, value, valid>>

NoCall == [mail |-> Nothing, timeout |-> "zero"]

\* What rt_mb_init leaves in the offsets.
Empty(pool) == [msg_pool |-> pool, entry |-> 0, in_offset |-> 0, out_offset |-> 0]

Init ==
    /\ CoreInit
    /\ mb = Empty([i \in 0 .. Size - 1 |-> Nothing])
    /\ local = [t \in Thread |-> NoCall]
    /\ value = Nothing
    /\ valid = TRUE

-----------------------------------------------------------------------------
(* The ring *)

Advance(i) == IF i + 1 >= Size THEN 0 ELSE i + 1

Store(m) == [mb EXCEPT !.msg_pool[mb.in_offset] = m,
                       !.in_offset = Advance(@),
                       !.entry = @ + 1]

\* A slip: the newest mail is taken.
fetch_last == [mb EXCEPT !.in_offset = (@ + Size - 1) % Size, !.entry = @ - 1]

Fetch == [mb EXCEPT !.out_offset = Advance(@), !.entry = @ - 1]

\* The first waiter of queue w is resumed and rt_schedule called, or nothing.
Wake(t, w) ==
    IF k.lists[w] # << >>
      THEN k' = rt_ipc_list_resume(k, w) /\ Goto(t, "sched")
      ELSE UNCHANGED k /\ Goto(t, "run")

-----------------------------------------------------------------------------
(* rt_mb_send_wait and rt_mb_recv: one pass through the loop *)

send(t, m, timeout) ==
    \/ /\ mb.entry = Size /\ timeout = "zero"        \* -RT_EFULL
       /\ Goto(t, "run")
       /\ local' = [local EXCEPT ![t] = NoCall]
       /\ UNCHANGED <<k, mb, value>>
    \/ /\ mb.entry = Size /\ timeout # "zero"
       /\ k' = Suspended(t, Senders, Flag, timeout)
       /\ Goto(t, "send_sched")
       /\ local' = [local EXCEPT ![t] = [mail |-> m, timeout |-> timeout]]
       /\ UNCHANGED <<mb, value>>
    \/ /\ mb.entry # Size
       /\ mb' = Store(m)
       /\ Wake(t, Receivers)
       /\ local' = [local EXCEPT ![t] = NoCall]
       /\ UNCHANGED value

recv(t, timeout) ==
    \/ /\ mb.entry = 0 /\ timeout = "zero"           \* -RT_ETIMEOUT
       /\ k' = IF pc[t] = "run" THEN k ELSE [k EXCEPT !.error[t] = "ETIMEOUT"]
       /\ Goto(t, "run")
       /\ local' = [local EXCEPT ![t] = NoCall]
       /\ UNCHANGED <<mb, value>>
    \/ /\ mb.entry = 0 /\ timeout # "zero"
       /\ k' = Suspended(t, Receivers, Flag, timeout)
       /\ Goto(t, "recv_sched")
       /\ local' = [local EXCEPT ![t] = [mail |-> Nothing, timeout |-> timeout]]
       /\ UNCHANGED <<mb, value>>
    \/ /\ mb.entry # 0
       /\ value' = mb.msg_pool[mb.out_offset]
       /\ mb' = Fetch
       /\ Wake(t, Senders)
       /\ local' = [local EXCEPT ![t] = NoCall]

rt_mb_send_wait(t) ==
    /\ Free(t) /\ valid
    /\ \E m \in Mail, timeout \in Timeout : send(t, m, timeout)
    /\ UNCHANGED valid

rt_mb_recv(t) ==
    /\ Free(t) /\ valid
    /\ \E timeout \in Timeout : recv(t, timeout)
    /\ UNCHANGED valid

\* Back from rt_schedule: an error ends the call, else the mailbox is looked
\* at again with what is left of the timeout.
send_again(t) ==
    /\ At(t, "send_again") /\ k.error[t] = "EOK"
    /\ \E timeout \in Left(local[t].timeout) : send(t, local[t].mail, timeout)
    /\ UNCHANGED valid

recv_again(t) ==
    /\ At(t, "recv_again") /\ k.error[t] = "EOK"
    /\ \E timeout \in Left(local[t].timeout) : recv(t, timeout)
    /\ UNCHANGED valid

give_up(t) ==
    /\ At(t, "send_again") \/ At(t, "recv_again")
    /\ k.error[t] # "EOK"
    /\ Goto(t, "run")
    /\ local' = [local EXCEPT ![t] = NoCall]
    /\ UNCHANGED <<k, mb, value, valid>>

irq_wake(w) == IF k.lists[w] # << >> THEN irq_resume(w) ELSE UNCHANGED <<k, pc>>

\* rt_mb_send and rt_mb_recv without a timeout in a device interrupt.
irq_send(m) ==
    /\ valid /\ mb.entry # Size
    /\ mb' = Store(m)
    /\ irq_wake(Receivers)
    /\ UNCHANGED <<local, value, valid>>

irq_recv ==
    /\ valid /\ mb.entry # 0
    /\ value' = mb.msg_pool[mb.out_offset]
    /\ mb' = Fetch
    /\ irq_wake(Senders)
    /\ UNCHANGED <<local, valid>>

\* RT_IPC_CMD_RESET, one section.
rt_mb_control(t) ==
    /\ Free(t) /\ valid
    /\ k' = rt_ipc_list_resume_all(rt_ipc_list_resume_all(k, Receivers), Senders)
    /\ mb' = Empty(mb.msg_pool)
    /\ Goto(t, "sched")
    /\ UNCHANGED <<local, value, valid>>

WokenReceivers == Woken(Receivers, "recv_sched", "recv_again")

WokenSenders == Woken(Senders, "send_sched", "send_again")

\* The caller's duty: nobody calls the mailbox from here on, nobody with a
\* timeout waits for it, and no thread is on its way to look at it again.
rt_mb_detach(t) ==
    /\ Free(t) /\ valid
    /\ (On(k, Receivers) \cup On(k, Senders)) \cap k.timer = {}
    /\ WokenReceivers = {} /\ WokenSenders = {}
    /\ valid' = FALSE
    /\ Goto(t, "detach_recv")
    /\ UNCHANGED <<k, mb, local, value>>

\* A round of rt_ipc_list_resume_all; then the detach goes on at "then".
detach_round(t, where, w, then) ==
    /\ resume_all_round(t, where, w, then)
    /\ UNCHANGED <<mb, local, value, valid>>

detach_resume(t) ==
    \/ detach_round(t, "detach_recv", Receivers, "detach_send")
    \/ detach_round(t, "detach_send", Senders, "run")

Detaching == \E t \in Thread : pc[t] \in {"detach_recv", "detach_send"}

rt_mb_init(t) ==
    /\ Free(t) /\ ~valid /\ ~Detaching
    /\ mb' = Empty(mb.msg_pool)
    /\ valid' = TRUE
    /\ UNCHANGED <<k, pc, local, value>>

schedule(t) ==
    /\ \/ reschedule(t, "send_sched", "send_again")
       \/ reschedule(t, "recv_sched", "recv_again")
       \/ reschedule(t, "sched", "run")
       \/ Delay(t)
    /\ UNCHANGED <<mb, local, value, valid>>

tick ==
    /\ tick_yield \/ \E t \in Thread : tick_expire(t)
    /\ UNCHANGED <<mb, local, value, valid>>

Next ==
    \/ \E t \in Thread :
           \/ rt_mb_send_wait(t) \/ rt_mb_recv(t) \/ send_again(t) \/ recv_again(t)
           \/ give_up(t) \/ rt_mb_control(t) \/ rt_mb_detach(t) \/ detach_resume(t)
           \/ rt_mb_init(t) \/ schedule(t)
    \/ \E m \in Mail : irq_send(m)
    \/ irq_recv
    \/ tick

Spec == Init /\ [][Next]_vars

-----------------------------------------------------------------------------
(* Properties *)

\* No receiver sleeps beside a mail: while receivers wait, each mail in the
\* box has a resumed receiver on its way to it, although others may take the
\* mail first and resumed receivers may have to wait again; and none is left
\* waiting when rt_mb_detach has returned.
NoReceiverForgotten ==
    k.lists[Receivers] # << >> =>
        IF valid THEN mb.entry <= Cardinality(WokenReceivers) ELSE Detaching

\* The same for senders in rt_mb_send_wait and free places.
NoSenderForgotten ==
    k.lists[Senders] # << >> =>
        IF valid THEN Size - mb.entry <= Cardinality(WokenSenders) ELSE Detaching

Contents == [i \in 1 .. mb.entry |-> mb.msg_pool[(mb.out_offset + i - 1) % Size]]

Abstract == INSTANCE BoundedFifo WITH
    Capacity <- Size, Urgent <- FALSE, queue <- Contents, got <- value

\* The mailbox is a bounded first-in first-out queue for all its senders and
\* receivers, blocking, timed, non-blocking or in an interrupt.
DeliversInOrder == Abstract!Spec

=============================================================================
