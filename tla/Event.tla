-------------------------------- MODULE Event -------------------------------
(***************************************************************************)
(* An event: a set of bits that threads wait for, any of them or all, with *)
(* or without taking them.  One send may resume several waiters.           *)
(***************************************************************************)
EXTENDS Core

CONSTANTS Bit,          \* the bits of the set (32 in the code)
          Queue, Flag   \* the wait queue, "FIFO" or "PRIO"

VARIABLES event,   \* set, and valid: initialised and not being detached
          local    \* event_set and event_info of each thread

vars == <<k, pc, event, local>>

NoInfo == [set |-> {}, all |-> FALSE, clear |-> FALSE]

Init ==
    /\ CoreInit
    /\ event = [set |-> {}, valid |-> TRUE]
    /\ local = [t \in Thread |-> NoInfo]

-----------------------------------------------------------------------------

\* RT_EVENT_FLAG_AND, RT_EVENT_FLAG_OR
Satisfied(set, info) ==
    IF info.all THEN info.set \subseteq set ELSE info.set \cap set # {}

rt_event_recv(t) ==
    /\ Free(t) /\ event.valid
    /\ \E want \in SUBSET Bit \ {{}}, all, clear \in BOOLEAN, timeout \in Timeout :
           LET info == [set |-> want, all |-> all, clear |-> clear]
           IN  IF Satisfied(event.set, info)
                 THEN /\ event' = IF clear THEN [event EXCEPT !.set = @ \ want] ELSE event
                      /\ k' = [k EXCEPT !.error[t] = "EOK"]
                      /\ UNCHANGED <<pc, local>>
               ELSE IF timeout = "zero"
                 THEN /\ k' = [k EXCEPT !.error[t] = "ETIMEOUT"]
                      /\ UNCHANGED <<pc, event, local>>
               ELSE   /\ k' = Suspended(t, Queue, Flag, timeout)
                      /\ local' = [local EXCEPT ![t] = info]
                      /\ Goto(t, "recv_sched")
                      /\ UNCHANGED event

\* What was received is left in event_set; an error says that it was not.
recv_ret(t) ==
    /\ At(t, "recv_ret")
    /\ local' = [local EXCEPT ![t] = NoInfo]
    /\ Goto(t, "run")
    /\ UNCHANGED <<k, event>>

-----------------------------------------------------------------------------

\* A slip: the search ends with the first thread that is resumed.
serve_first(s, t) ==
    LET info == s.local[t] IN
    IF s.k # k \/ ~Satisfied(s.set, info) THEN s
    ELSE [k |-> rt_thread_resume(s.k, t), local |-> s.local,
          set |-> IF info.clear THEN s.set \ info.set ELSE s.set]

\* One waiter in the loop of rt_event_send: the bits it takes are gone for the
\* waiters behind it.
Serve(s, t) ==
    LET info == s.local[t]
        got == IF info.all THEN info.set ELSE info.set \cap s.set
    IN  IF ~Satisfied(s.set, info) THEN s
        ELSE [k |-> rt_thread_resume(s.k, t), local |-> [s.local EXCEPT ![t].set = got],
              set |-> IF info.clear THEN s.set \ got ELSE s.set]

Sent(set) ==
    FoldLeft(Serve, [k |-> k, local |-> local, set |-> event.set \cup set], k.lists[Queue])

SendAs(s) == event' = [event EXCEPT !.set = s.set] /\ local' = s.local

rt_event_send(t) ==
    /\ Free(t) /\ event.valid
    /\ \E set \in SUBSET Bit \ {{}} :
           LET s == Sent(set)
           IN  k' = s.k /\ Goto(t, IF s.k # k THEN "sched" ELSE "run") /\ SendAs(s)

\* rt_event_send in a device interrupt.
irq_send ==
    /\ event.valid
    /\ \E set \in SUBSET Bit \ {{}} :
           LET s == Sent(set)
           IN  k' = (IF s.k # k THEN rt_schedule(s.k) ELSE k) /\ SendAs(s)
    /\ UNCHANGED pc

\* RT_IPC_CMD_RESET, one section.
rt_event_control(t) ==
    /\ Free(t) /\ event.valid
    /\ k' = rt_ipc_list_resume_all(k, Queue)
    /\ event' = [event EXCEPT !.set = {}]
    /\ Goto(t, "sched")
    /\ UNCHANGED local

\* Nobody calls the event from here on, and nobody with a timeout waits.
rt_event_detach(t) ==
    /\ Free(t) /\ event.valid /\ On(k, Queue) \cap k.timer = {}
    /\ event' = [event EXCEPT !.valid = FALSE]
    /\ Goto(t, "detach")
    /\ UNCHANGED <<k, local>>

detach_resume(t) ==
    /\ resume_all_round(t, "detach", Queue, "run")
    /\ UNCHANGED <<event, local>>

Detaching == \E t \in Thread : pc[t] = "detach"

rt_event_init(t) ==
    /\ Free(t) /\ ~event.valid /\ ~Detaching
    /\ event' = [set |-> {}, valid |-> TRUE]
    /\ UNCHANGED <<k, pc, local>>

schedule(t) ==
    /\ \/ reschedule(t, "recv_sched", "recv_ret")
       \/ reschedule(t, "sched", "run")
       \/ Delay(t)
    /\ UNCHANGED <<event, local>>

tick ==
    /\ tick_yield \/ \E t \in Thread : tick_expire(t)
    /\ UNCHANGED <<event, local>>

Next ==
    \/ \E t \in Thread :
           \/ rt_event_recv(t) \/ recv_ret(t) \/ rt_event_send(t) \/ rt_event_control(t)
           \/ rt_event_detach(t) \/ detach_resume(t) \/ rt_event_init(t) \/ schedule(t)
    \/ irq_send
    \/ tick

Spec == Init /\ [][Next]_vars

-----------------------------------------------------------------------------
(* Properties *)

\* No waiter sleeps although the bits it waits for are set, whoever was served
\* before it in the same rt_event_send and whatever they took; none is left
\* waiting when rt_event_detach has returned.
NoWaiterForgotten ==
    \A t \in On(k, Queue) :
        IF event.valid THEN ~Satisfied(event.set, local[t]) ELSE Detaching

=============================================================================
