-------------------------------- MODULE Timer -------------------------------
(***************************************************************************)
(* The system timers: one list sorted by deadline on a tick counter that   *)
(* wraps, timers started and stopped by a thread with interrupts enabled   *)
(* inside the calls, and rt_timer_check in the tick interrupt, which calls *)
(* the timeout functions with interrupts disabled.                         *)
(***************************************************************************)
EXTENDS Integers, Sequences, FiniteSets, SequencesExt

CONSTANTS Timer, NoTimer,
          TickMod,      \* 2^w for the w-bit rt_tick_t
          InitTick,     \* the periods and delays timers are given
          Delay,        \* a thread is kept from ending rt_timer_start so long
          CallbackOps   \* what a timeout function does to its own timer

TickMax == TickMod - 1
Half == TickMax \div 2

ASSUME TimerAssumption ==
    /\ NoTimer \notin Timer
    /\ TickMod \in Nat /\ Half > 0
    /\ Delay \in Nat
    /\ InitTick \subseteq Nat \ {0}
    /\ \A i \in InitTick : i + Delay < Half
    /\ CallbackOps \subseteq {"none", "stop", "start", "detach"}

VARIABLES tick,   \* rt_tick
          q,      \* the list and, per timer, deadline, period and flags
          live,   \* the timers that are initialised
          pc,     \* where the thread is, and with which timer
          isr     \* "off", in the loop of rt_timer_check, or the timer
                  \* whose timeout function it calls
vars == <<tick, q, live, pc, isr>>

Minus(a, b) == (a - b) % TickMod

-----------------------------------------------------------------------------
(* The list *)

\* The deadline of a timer that is not in the list is never read: it is 0.
_rt_timer_remove(s, t) == [s EXCEPT !.list = SelectSeq(@, LAMBDA u : u # t),
                                    !.timeout_tick[t] = 0]

Deactivated(s, t) == [s EXCEPT !.activated = @ \ {t}]

\* A slip: plain comparison of two ticks.
before_no_wrap(s, t, u) == s.timeout_tick[u] > s.timeout_tick[t]

\* Timer u is due later than t: the search for the place of t ends there.
DueBefore(s, t, u) == Minus(s.timeout_tick[u], s.timeout_tick[t]) \in 1 .. Half - 1

\* t goes before the first timer that is due later, behind equal ones.
Inserted(s, t) ==
    LET later == {i \in DOMAIN s.list : DueBefore(s, t, s.list[i])}
        place == IF later = {} THEN Len(s.list) + 1
                 ELSE CHOOSE i \in later : \A j \in later : i <= j
    IN  [s EXCEPT !.list = InsertAt(@, place, t), !.activated = @ \cup {t}]

WithDeadline(s, t) == [s EXCEPT !.timeout_tick[t] = (tick + s.init_tick[t]) % TickMod]

\* The calls in one go, as in a timeout function.
Started(s, t) == Inserted(WithDeadline(Deactivated(_rt_timer_remove(s, t), t), t), t)

Stopped(s, t) == IF t \in s.activated THEN Deactivated(_rt_timer_remove(s, t), t) ELSE s

-----------------------------------------------------------------------------
(* The thread *)

Idle == [op |-> "none", timer |-> NoTimer]

Init ==
    /\ tick \in 0 .. TickMax
    /\ q = [list |-> << >>, timeout_tick |-> [t \in Timer |-> 0],
            init_tick |-> [t \in Timer |-> CHOOSE i \in InitTick : TRUE],
            activated |-> {}, periodic |-> {}]
    /\ live = Timer
    /\ pc = Idle
    /\ isr = "off"

Free == isr = "off" /\ pc = Idle
At(op) == isr = "off" /\ pc.op = op
Goto(op, t) == pc' = [op |-> op, timer |-> t]

rt_timer_start(t) ==
    /\ Free /\ t \in live
    /\ q' = Deactivated(_rt_timer_remove(q, t), t)
    /\ Goto("start_get", t)
    /\ UNCHANGED <<tick, live, isr>>

start_get ==
    /\ At("start_get")
    /\ q' = WithDeadline(q, pc.timer)
    /\ Goto("start_insert", pc.timer)
    /\ UNCHANGED <<tick, live, isr>>

start_insert ==
    /\ At("start_insert")
    /\ q' = Inserted(q, pc.timer)
    /\ pc' = Idle
    /\ UNCHANGED <<tick, live, isr>>

\* -RT_ERROR for a timer that is not activated.
rt_timer_stop(t) ==
    /\ Free /\ t \in live
    /\ t \in q.activated
    /\ Goto("stop_remove", t)
    /\ UNCHANGED <<tick, q, live, isr>>

stop_remove ==
    /\ At("stop_remove")
    /\ q' = _rt_timer_remove(q, pc.timer)
    /\ Goto("stop_clear", pc.timer)
    /\ UNCHANGED <<tick, live, isr>>

stop_clear ==
    /\ At("stop_clear")
    /\ q' = Deactivated(q, pc.timer)
    /\ pc' = Idle
    /\ UNCHANGED <<tick, live, isr>>

rt_timer_control(t) ==
    /\ Free /\ t \in live
    /\ \/ \E i \in InitTick : q' = [q EXCEPT !.init_tick[t] = i]
       \/ q' = [q EXCEPT !.periodic = @ \cup {t}]
       \/ q' = [q EXCEPT !.periodic = @ \ {t}]
    /\ UNCHANGED <<tick, live, pc, isr>>

rt_timer_detach(t) ==
    /\ Free /\ t \in live
    /\ q' = _rt_timer_remove(q, t)
    /\ live' = live \ {t}
    /\ UNCHANGED <<tick, pc, isr>>

\* Timers are not initialised while they are in the list.
rt_timer_init(t) ==
    /\ Free /\ t \notin live /\ t \notin Range(q.list)
    /\ \E i \in InitTick, periodic \in SUBSET {t} :
           q' = [Deactivated(q, t) EXCEPT !.init_tick[t] = i,
                                     !.periodic = (@ \ {t}) \cup periodic]
    /\ live' = live \cup {t}
    /\ UNCHANGED <<tick, pc, isr>>

-----------------------------------------------------------------------------
(* The tick interrupt *)

\* How many ticks ago the thread in rt_timer_start read the tick.
Lag == Minus(tick + q.init_tick[pc.timer], q.timeout_tick[pc.timer])

rt_tick_increase ==
    /\ isr = "off"
    /\ pc.op = "start_insert" => Lag < Delay
    /\ tick' = (tick + 1) % TickMod
    /\ isr' = "check"
    /\ UNCHANGED <<q, live, pc>>

Expired(t) == Minus(tick, q.timeout_tick[t]) < Half

rt_timer_check ==
    /\ isr = "check"
    /\ IF q.list # << >> /\ Expired(Head(q.list))
         THEN isr' = Head(q.list) /\ q' = _rt_timer_remove(q, Head(q.list))
         ELSE isr' = "off" /\ UNCHANGED q
    /\ UNCHANGED <<tick, live, pc>>


\* After the timeout function: a periodic timer that is still activated
\* starts again.
Rearmed(s, t) ==
    IF t \in s.periodic \cap s.activated THEN Started(s, t) ELSE Deactivated(s, t)

\* What the timeout function may do to other timers: those that are
\* initialised and that the thread is not starting or stopping.
Others(t) == live \ {t, pc.timer}

timeout_func ==
    LET t == isr
        Return(s) == q' = Rearmed(s, t)
    IN  /\ t \in Timer
        /\ \/ "none" \in CallbackOps /\ Return(q) /\ UNCHANGED live
           \/ "stop" \in CallbackOps /\ Return(Stopped(q, t)) /\ UNCHANGED live
           \/ "start" \in CallbackOps /\ Return(Started(q, t)) /\ UNCHANGED live
           \/ /\ "detach" \in CallbackOps
              /\ Return(_rt_timer_remove(q, t))
              /\ live' = live \ {t}
           \/ \E u \in Others(t) : Return(Started(q, u)) /\ UNCHANGED live
           \/ \E u \in Others(t) : Return(Stopped(q, u)) /\ UNCHANGED live
        /\ isr' = "check"
        /\ UNCHANGED <<tick, pc>>

-----------------------------------------------------------------------------

ThreadStep == start_get \/ start_insert \/ stop_remove \/ stop_clear

TickStep == rt_tick_increase \/ rt_timer_check \/ timeout_func

Next ==
    \/ \E t \in Timer :
           \/ rt_timer_start(t) \/ rt_timer_stop(t) \/ rt_timer_control(t)
           \/ rt_timer_detach(t) \/ rt_timer_init(t)
    \/ ThreadStep
    \/ TickStep

Spec == Init /\ [][Next]_vars

\* Ticks keep coming, the handler ends, and a thread inside a call goes on.
FairSpec == Spec /\ WF_vars(TickStep) /\ WF_vars(ThreadStep)

-----------------------------------------------------------------------------
(* Properties *)

\* rt_timer_start keeps the list sorted by deadline, across the wrap of the
\* tick and with timers that were inserted after their deadline.
SortedByDeadline ==
    \A i, j \in DOMAIN q.list :
        i < j => Minus(q.timeout_tick[q.list[j]], q.timeout_tick[q.list[i]]) < Half

\* The list is sorted, and rt_timer_check leaves no due timer in it: one that
\* is overdue was put there by a delayed rt_timer_start, and not longer ago
\* than the delay.
NoneOverdue ==
    /\ SortedByDeadline
    /\ isr = "off" => \A t \in Range(q.list) :
                       Expired(t) => Minus(tick, q.timeout_tick[t]) < Delay

\* A timer in the list has RT_TIMER_FLAG_ACTIVATED, on which rt_timer_stop
\* depends, except between the two halves of a call that changes both.
ListedIsActivated == \A t \in Range(q.list) : t \in q.activated

\* A detached timer is not in the list and so is never called again.
DetachedIsUnlisted == \A t \in Range(q.list) : t \in live

ListedFor(t, d) == t \in Range(q.list) /\ q.timeout_tick[t] = d


=============================================================================
