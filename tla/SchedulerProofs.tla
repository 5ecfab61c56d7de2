-------------------------- MODULE SchedulerProofs ---------------------------
(***************************************************************************)
(* The safety properties of module Scheduler for every set of threads,     *)
(* every number of priorities and wait queues and every interleaving of    *)
(* the threads, the tick and the device interrupt.  The invariant and the  *)
(* steps of the application threads are in SchedulerThreadProofs; here are *)
(* the idle thread, the interrupts and the theorems.                       *)
(***************************************************************************)
EXTENDS SchedulerThreadProofs

-----------------------------------------------------------------------------
(* The idle thread *)

\* The idle thread finds a dead thread.
LEMMA HasDefunctStep == ASSUME IInv, has_defunct_thread PROVE IInv'
<1>1. Idle \in Thread /\ Idle = k.current /\ Idle \in Actor /\ pc[Idle].op = "run"
      /\ Running = Idle /\ UNCHANGED <<k, slice>>
  BY RunningThread, KernelAssumption DEF has_defunct_thread, At
<1>2. /\ pc' \in [Actor -> [op : ThreadOp \cup TickOp \cup IrqOp, arg : Thread \cup {NoThread}]]
      /\ \A b \in Thread : pc'[b].op \in ThreadOp
      /\ pc'["tick"].op \in TickOp /\ pc'["irq"].op \in IrqOp
      /\ pc'[Idle].op = "idle_lock" /\ pc'[Idle].arg = NoThread
      /\ \A b \in Actor \ {Idle} : pc'[b] = pc[b]
  <2>1. "idle_lock" \in ThreadOp /\ TypeOK /\ Goto(Idle, "idle_lock", NoThread)
    BY DEF ThreadOp, IInv, has_defunct_thread
  <2>2. QED BY <1>1, <2>1, GotoEffect
<1>3. On(k, Defunct) # {}
  <2>1. k.lists[Defunct] \in Seq(Thread)
    BY ListIdFacts DEF IInv, KernelInv, KernelState
  <2>2. QED BY <2>1, EmptyLemma DEF On, has_defunct_thread
<1>4. IdleInv'
  BY <1>1, <1>3 DEF IInv, IdleInv
<1>5. ArgInv'
  <2>1. \A b \in Thread : b \in Actor
    BY DEF Actor
  <2>2. "idle_lock" \notin ResumeOp /\ "idle_lock" # "idle_free"
    BY DEF ResumeOp
  <2>3. QED BY <1>1, <1>2, <2>1, <2>2 DEF IInv, ArgInv
<1>6. TypeOK'
  BY <1>1, <1>2 DEF IInv, TypeOK
<1>7. CurrentInv'
  BY <1>1 DEF IInv, IdleInv, CurrentInv
<1>8. HighestRuns'
  BY <1>1, KeepHighest DEF Owes, AfterSched
<1>9. QED BY <1>1, <1>4, <1>5, <1>6, <1>7, <1>8 DEF IInv

\* The idle thread takes the first dead thread off the defunct list.
LEMMA IdleLockStep == ASSUME IInv, idle_lock PROVE IInv'
<1> DEFINE t == Head(k.lists[Defunct])
<1>1. Idle \in Thread /\ Idle = k.current /\ Idle \in Actor /\ pc[Idle].op = "idle_lock"
      /\ Running = Idle /\ UNCHANGED slice
  BY RunningThread, KernelAssumption DEF idle_lock, At
<1>2. t \in Thread /\ t \in On(k, Defunct)
  <2>1. k.lists[Defunct] \in Seq(Thread) /\ On(k, Defunct) # {}
    BY <1>1, ListIdFacts DEF IInv, KernelInv, KernelState, IdleInv
  <2>2. k.lists[Defunct] # << >>
    BY <2>1, EmptyLemma DEF On
  <2>3. QED BY <2>1, <2>2, HeadLemma DEF On
<1>3. k.stat[t] = "close" /\ \A b \in Actor : pc[b].arg # t
  <2>1. k.stat[t] = "close"
    BY <1>2 DEF IInv, KernelInv, StatTellsList
  <2>2. Linked(k, t)
    BY <1>2, ListIdFacts DEF Linked
  <2>3. QED BY <1>2, <2>1, <2>2, NotHeld
<1>4. /\ k' = rt_list_remove(k, t)
      /\ Goto(Idle, "run", NoThread) \/ Goto(Idle, "idle_free", t)
  <2>1. k.lists[Defunct] # << >>
    BY <1>2, ListIdFacts, EmptyLemma DEF On, IInv, KernelInv, KernelState
  <2>2. QED BY <2>1 DEF idle_lock
<1> HIDE DEF t
<1>5. /\ KernelInv(k') /\ SameThreads(k, k') /\ k'.group = k.group /\ ~Linked(k', t)
      /\ \A l \in ListId : On(k', l) = On(k, l) \ {t}
      /\ \A p \in Priority : k'.lists[p] = k.lists[p]
  BY <1>2, <1>3, <1>4, ReapInv DEF IInv
<1>6. Touch(t) /\ Reaped(k', t)
  BY <1>3, <1>5 DEF Touch, Reaped, SameThreads
<1>7. /\ pc' \in [Actor -> [op : ThreadOp \cup TickOp \cup IrqOp, arg : Thread \cup {NoThread}]]
      /\ \A b \in Thread : pc'[b].op \in ThreadOp
      /\ pc'["tick"].op \in TickOp /\ pc'["irq"].op \in IrqOp
      /\ \/ pc'[Idle].op = "run" /\ pc'[Idle].arg = NoThread
         \/ pc'[Idle].op = "idle_free" /\ pc'[Idle].arg = t
      /\ \A b \in Actor \ {Idle} : pc'[b] = pc[b]
  <2>1. "run" \in ThreadOp /\ "idle_free" \in ThreadOp /\ TypeOK
    BY DEF ThreadOp, IInv
  <2>2. CASE Goto(Idle, "run", NoThread)
    BY <1>1, <2>1, <2>2, GotoEffect
  <2>3. CASE Goto(Idle, "idle_free", t)
    BY <1>1, <1>2, <2>1, <2>3, GotoEffect
  <2>4. QED BY <1>4, <2>2, <2>3
<1>8. ArgInv'
  <2>1. \A b \in Thread : b \in Actor
    BY DEF Actor
  <2>2. "run" \notin ResumeOp /\ "idle_free" \notin ResumeOp /\ NoThread \notin Thread
    BY KernelAssumption DEF ResumeOp
  <2>3. ASSUME NEW b \in Thread, pc'[b].op \in ResumeOp
        PROVE  pc'[b].arg \in Thread /\ InFlight(k', pc'[b].arg)
    <3>1. b # Idle /\ pc'[b] = pc[b]
      BY <1>7, <2>1, <2>2, <2>3
    <3>2. pc[b].arg \in Thread /\ InFlight(k, pc[b].arg) /\ pc[b].arg # t
      BY <1>3, <2>1, <2>3, <3>1 DEF IInv, ArgInv
    <3>3. QED BY <1>2, <1>6, <3>1, <3>2, UntouchedKept
  <2>4. pc'[Idle].op = "idle_free" => pc'[Idle].arg \in Thread /\ Reaped(k', pc'[Idle].arg)
    BY <1>2, <1>6, <1>7
  <2>5. ASSUME NEW b \in Actor, pc'[b].arg # NoThread
        PROVE  \/ b \in Thread /\ pc'[b].op \in ResumeOp
               \/ b = Idle /\ pc'[b].op = "idle_free"
    BY <1>7, <2>5 DEF IInv, ArgInv
  <2>6. ASSUME NEW b \in Thread, NEW c \in Thread, b # c, pc'[b].arg # NoThread
        PROVE  pc'[c].arg # pc'[b].arg
    BY <1>2, <1>3, <1>7, <2>1, <2>2, <2>6 DEF IInv, ArgInv
  <2>7. QED BY <2>3, <2>4, <2>5, <2>6 DEF ArgInv
<1>9. IdleInv'
  BY <1>5, <1>7 DEF IInv, IdleInv, SameThreads
<1>10. TypeOK'
  BY <1>1, <1>5, <1>7 DEF IInv, TypeOK, KernelInv
<1>11. CurrentInv'
  BY <1>1, <1>5, <1>9 DEF IdleInv, CurrentInv, SameThreads
<1>12. HighestRuns'
  BY <1>1, <1>5, KeepHighest DEF Owes, AfterSched, SameThreads
<1>13. QED BY <1>5, <1>8, <1>9, <1>10, <1>11, <1>12 DEF IInv

\* The idle thread gives a dead thread back to the heap.
LEMMA IdleFreeStep == ASSUME IInv, idle_free PROVE IInv'
<1> DEFINE t == pc[Idle].arg
<1>1. Idle \in Thread /\ Idle = k.current /\ Idle \in Actor /\ pc[Idle].op = "idle_free"
      /\ Running = Idle /\ UNCHANGED slice /\ Goto(Idle, "run", NoThread)
  BY RunningThread, KernelAssumption DEF idle_free, At
<1>2. t \in Thread /\ k.stat[t] = "close" /\ ~Linked(k, t)
  BY <1>1 DEF IInv, ArgInv, Reaped
<1>3. \A b \in Thread : b # Idle => pc[b].arg # t
  BY <1>1, <1>2, KernelAssumption DEF IInv, ArgInv
<1>4. k' = [k EXCEPT !.stat[t] = "none"]
  BY DEF idle_free
<1> HIDE DEF t
<1>5. /\ k' \in KernelState /\ k'.lists = k.lists /\ k'.group = k.group
      /\ k'.stat = [k.stat EXCEPT ![t] = "none"] /\ k'.timer = k.timer
      /\ k'.priority = k.priority /\ k'.mask = k.mask
      /\ k'.current = k.current /\ k'.lock_nest = k.lock_nest
  BY <1>4, ZenonT(60) DEF IInv, KernelInv, KernelState, Stat
<1>6. \A x \in Thread : k'.stat[x] = IF x = t THEN "none" ELSE k.stat[x]
  BY <1>5 DEF IInv, KernelInv, KernelState
<1>7. KernelInv(k')
  <2>1. t \notin k.timer
    BY <1>2 DEF IInv, KernelInv, TimersOfSuspended
  <2>2. FreeChange(k, k', t)
    BY <1>2, <1>5, <1>6, <2>1 DEF FreeChange
  <2>3. QED BY <1>2, <2>2, FreeStatInv DEF IInv
<1>8. Touch(t) /\ On(k, Defunct) \subseteq On(k', Defunct)
  BY <1>5, <1>6 DEF Touch, On
<1>9. /\ pc' \in [Actor -> [op : ThreadOp \cup TickOp \cup IrqOp, arg : Thread \cup {NoThread}]]
      /\ \A b \in Thread : pc'[b].op \in ThreadOp
      /\ pc'["tick"].op \in TickOp /\ pc'["irq"].op \in IrqOp
      /\ pc'[Idle].op = "run" /\ pc'[Idle].arg = NoThread
      /\ \A b \in Actor \ {Idle} : pc'[b] = pc[b]
  <2>1. "run" \in ThreadOp /\ TypeOK
    BY DEF ThreadOp, IInv
  <2>2. QED BY <1>1, <2>1, GotoEffect
<1>10. Quiet
  BY <1>9 DEF Quiet, ResumeOp
<1>11. k'.stat[Idle] = "ready"
  BY <1>1, <1>2, <1>6 DEF IInv, IdleInv
<1>12. ArgInv' /\ IdleInv'
  BY <1>2, <1>3, <1>8, <1>9, <1>10, <1>11, RestKept
<1>13. TypeOK'
  BY <1>1, <1>5, <1>9 DEF IInv, TypeOK
<1>14. CurrentInv'
  BY <1>1, <1>5, <1>11 DEF CurrentInv
<1>15. HighestRuns'
  BY <1>1, <1>5, KeepHighest DEF Owes, AfterSched
<1>16. QED BY <1>7, <1>12, <1>13, <1>14, <1>15 DEF IInv

\* A step of an interrupt handler leaves the threads where they are.
LEMMA IsrGoto ==
    ASSUME IInv, NEW i \in Isr, NEW o, Goto(i, o, NoThread),
           (i = "tick" /\ o \in TickOp) \/ (i = "irq" /\ o \in IrqOp)
    PROVE  /\ pc' \in [Actor -> [op : ThreadOp \cup TickOp \cup IrqOp, arg : Thread \cup {NoThread}]]
           /\ \A b \in Thread : pc'[b].op \in ThreadOp
           /\ pc'["tick"].op \in TickOp /\ pc'["irq"].op \in IrqOp
           /\ pc'[i].op = o
           /\ \A b \in Actor \ {i} : pc'[b] = pc[b]
           /\ Quiet /\ pc'[k.current] = pc[k.current]
<1>1. i \in Actor /\ i \notin Thread /\ k.current \in Thread /\ k.current \in Actor /\ TypeOK
  BY SchedulerAssumption DEF Actor, Isr, IInv, CurrentInv
<1>2. /\ pc' \in [Actor -> [op : ThreadOp \cup TickOp \cup IrqOp, arg : Thread \cup {NoThread}]]
      /\ \A b \in Thread : pc'[b].op \in ThreadOp
      /\ pc'["tick"].op \in TickOp /\ pc'["irq"].op \in IrqOp
      /\ pc'[i].op = o /\ pc'[i].arg = NoThread
      /\ \A b \in Actor \ {i} : pc'[b] = pc[b]
  BY <1>1, GotoEffect
<1>3. o \notin ResumeOp \cup {"idle_lock", "idle_free"}
  BY DEF TickOp, IrqOp, ResumeOp
<1>4. Quiet
  BY <1>2, <1>3 DEF Quiet
<1>5. QED BY <1>1, <1>2, <1>4

\* A step of an interrupt handler that only calls rt_schedule.
LEMMA IsrSched ==
    ASSUME IInv, NEW i \in Isr, NEW o, Goto(i, o, NoThread),
           (i = "tick" /\ o \in TickOp) \/ (i = "irq" /\ o \in IrqOp),
           k' = rt_schedule(k), UNCHANGED slice
    PROVE  IInv'
<1>1. /\ pc' \in [Actor -> [op : ThreadOp \cup TickOp \cup IrqOp, arg : Thread \cup {NoThread}]]
      /\ \A b \in Thread : pc'[b].op \in ThreadOp
      /\ pc'["tick"].op \in TickOp /\ pc'["irq"].op \in IrqOp /\ Quiet
  BY IsrGoto
<1>2. k.lock_nest > 0 => k.stat[k.current] = "ready"
  BY DEF IInv, CurrentInv
<1>3. /\ KernelInv(k') /\ CurrentInv' /\ HighestRuns'
      /\ k'.stat = k.stat /\ k'.timer = k.timer /\ k'.lists = k.lists
  BY <1>2, ScheduleStep DEF IInv, IdleInv
<1>4. ArgInv' /\ IdleInv'
  BY <1>1, <1>3, UntouchedRest
<1>5. TypeOK'
  BY <1>1, <1>3 DEF IInv, TypeOK, KernelInv
<1>6. QED BY <1>3, <1>4, <1>5 DEF IInv

\* A step of an interrupt handler that changes no kernel data.
LEMMA IsrSilent ==
    ASSUME IInv, NEW i \in Isr, NEW o, Goto(i, o, NoThread), ~Owes(i),
           (i = "tick" /\ o \in TickOp) \/ (i = "irq" /\ o \in IrqOp),
           UNCHANGED k, slice' \in [Thread -> 1 .. InitTick]
    PROVE  IInv'
<1>1. /\ pc' \in [Actor -> [op : ThreadOp \cup TickOp \cup IrqOp, arg : Thread \cup {NoThread}]]
      /\ \A b \in Thread : pc'[b].op \in ThreadOp
      /\ pc'["tick"].op \in TickOp /\ pc'["irq"].op \in IrqOp
      /\ pc'[i].op = o
      /\ \A b \in Actor \ {i} : pc'[b] = pc[b]
      /\ Quiet /\ pc'[k.current] = pc[k.current]
  BY IsrGoto
<1>2. ArgInv' /\ IdleInv'
  BY <1>1, UntouchedRest
<1>3. TypeOK'
  BY <1>1 DEF IInv, TypeOK
<1>4. CurrentInv'
  BY <1>1, CurrentKept
<1>5. HighestRuns'
  <2>1. "tick" \in Actor /\ "irq" \in Actor
    BY DEF Actor, Isr
  <2>2. QED BY <1>1, <2>1 DEF IInv, HighestRuns, Owes, HighestReady
<1>6. QED BY <1>2, <1>3, <1>4, <1>5 DEF IInv

\* rt_tick_increase counts the time slice down.
LEMMA SysTickStep == ASSUME IInv, SysTick_Handler PROVE IInv'
<1>1. k.current \in Thread /\ slice \in [Thread -> 1 .. InitTick] /\ InitTick \in Nat \ {0}
  BY SchedulerAssumption DEF IInv, CurrentInv, TypeOK
<1>2. slice' = [slice EXCEPT ![k.current] =
                   IF slice[k.current] = 1 THEN InitTick ELSE slice[k.current] - 1]
  BY <1>1 DEF SysTick_Handler
<1>3. (IF slice[k.current] = 1 THEN InitTick ELSE slice[k.current] - 1) \in 1 .. InitTick
  <2>1. slice[k.current] \in 1 .. InitTick
    BY <1>1
  <2>2. QED BY <1>1, <2>1
<1>4. slice' \in [Thread -> 1 .. InitTick]
  BY <1>1, <1>2, <1>3
<1>5. "tick" \in Isr /\ ~Owes("tick") /\ UNCHANGED k
  BY DEF SysTick_Handler, Owes, AfterSched, Isr
<1>6. CASE slice[k.current] = 1
  <2>1. Goto("tick", "tick_yield", NoThread) /\ "tick_yield" \in TickOp
    BY <1>6 DEF SysTick_Handler, TickOp
  <2>2. QED BY <1>4, <1>5, <2>1, IsrSilent
<1>7. CASE slice[k.current] # 1
  <2>1. Goto("tick", "tick_timer", NoThread) /\ "tick_timer" \in TickOp
    BY <1>7 DEF SysTick_Handler, TickOp
  <2>2. QED BY <1>4, <1>5, <2>1, IsrSilent
<1>8. QED BY <1>6, <1>7

\* rt_thread_yield called by the tick.
LEMMA TickYieldStep == ASSUME IInv, tick_yield PROVE IInv'
<1>1. /\ "tick" \in Isr /\ pc["tick"].op = "tick_yield" /\ ~Owes("tick") /\ UNCHANGED slice
      /\ slice' \in [Thread -> 1 .. InitTick]
  BY DEF tick_yield, At, Owes, AfterSched, Isr, IInv, TypeOK
<1>2. CASE ~Shares(k, k.current)
  <2>1. Goto("tick", "tick_timer", NoThread) /\ UNCHANGED k /\ "tick_timer" \in TickOp
    BY <1>2 DEF tick_yield, TickOp
  <2>2. QED BY <1>1, <2>1, IsrSilent
<1>3. CASE Shares(k, k.current)
  <2>1. Goto("tick", "tick_sched", NoThread) /\ "tick_sched" \in TickOp
    BY <1>3 DEF tick_yield, TickOp
  <2>2. k.current \in Thread /\ k.stat[k.current] = "ready"
    BY <1>3 DEF Shares, IInv, CurrentInv
  <2>3. k' = rt_list_insert_before(rt_list_remove(k, k.current), k.priority[k.current], k.current)
    BY <1>3 DEF tick_yield, ToTail
  <2>4. KernelInv(k') /\ SameThreads(k, k') /\ \A l \in ListId : On(k', l) = On(k, l)
    BY <2>2, <2>3, RotateInv DEF IInv
  <2>5. /\ pc' \in [Actor -> [op : ThreadOp \cup TickOp \cup IrqOp, arg : Thread \cup {NoThread}]]
        /\ \A b \in Thread : pc'[b].op \in ThreadOp
        /\ pc'["tick"].op \in TickOp /\ pc'["irq"].op \in IrqOp
        /\ pc'["tick"].op = "tick_sched"
        /\ Quiet /\ pc'[k.current] = pc[k.current]
    BY <1>1, <2>1, IsrGoto
  <2>6. Touch(k.current) /\ On(k, Defunct) \subseteq On(k', Defunct) /\ k'.stat[Idle] = "ready"
    BY <2>4, ListIdFacts DEF Touch, SameThreads, IInv, IdleInv
  <2>7. \A b \in Thread : pc[b].arg # k.current
    BY <2>2, NotHeld DEF Actor
  <2>8. ArgInv' /\ IdleInv'
    BY <2>2, <2>5, <2>6, <2>7, RestKept
  <2>9. CurrentInv'
    BY <2>4, <2>5, CurrentKept DEF SameThreads
  <2>10. TypeOK'
    BY <1>1, <2>4, <2>5 DEF TypeOK, KernelInv
  <2>11. HighestRuns'
    BY <2>5 DEF HighestRuns, Owes
  <2>12. QED BY <2>4, <2>8, <2>9, <2>10, <2>11 DEF IInv
<1>4. QED BY <1>2, <1>3

\* rt_thread_timeout for one expired timer.
LEMMA TickExpireStep == ASSUME IInv, NEW t \in Thread, tick_expire(t) PROVE IInv'
<1> DEFINE j == rt_schedule_insert_thread(
                  rt_list_remove([rt_timer_stop(k, t) EXCEPT !.error[t] = "ETIMEOUT"], t), t)
<1>1. t \in k.timer /\ k' = rt_schedule(j) /\ Goto("tick", "tick_loop", NoThread) /\ UNCHANGED slice
  BY DEF tick_expire, rt_thread_timeout
<1>2. /\ KernelInv(j) /\ j.stat = [k.stat EXCEPT ![t] = "ready"]
      /\ j.timer = k.timer \ {t} /\ j.priority = k.priority
      /\ j.current = k.current /\ j.lock_nest = k.lock_nest
      /\ \A l \in ListId \ Priority : On(j, l) = On(k, l) \ {t}
  BY <1>1, TimeoutInv DEF IInv
<1> HIDE DEF j
<1>3. \A x \in Thread : j.stat[x] = IF x = t THEN "ready" ELSE k.stat[x]
  BY <1>2 DEF IInv, KernelInv, KernelState
<1>4. k.stat[t] = "suspend"
  BY <1>1 DEF IInv, KernelInv, TimersOfSuspended
<1>5. j.stat[Idle] = "ready" /\ (k.lock_nest > 0 => j.stat[k.current] = "ready")
  BY <1>3, KernelAssumption DEF IInv, IdleInv, CurrentInv
<1>6. /\ KernelInv(k') /\ CurrentInv' /\ HighestRuns'
      /\ k'.stat = j.stat /\ k'.timer = j.timer /\ k'.lists = j.lists
  <2>1. KernelInv(j) /\ j.current = k.current /\ j.lock_nest = k.lock_nest
    BY <1>2
  <2>2. QED BY <1>1, <1>5, <2>1, ScheduleStep
<1>7. \A l : On(k', l) = On(j, l)
  BY <1>6 DEF On
<1>8. \A l \in ListId : On(k', l) \subseteq On(k, l) \cup {t}
  <2>1. \A x \in Thread \ {t}, p \in Priority : x \in On(j, p) <=> x \in On(k, p)
    BY <1>2, <1>3 DEF IInv, KernelInv, StatTellsList
  <2>2. \A l \in ListId : On(k', l) \subseteq Thread
    <3>1. \A l \in ListId : k'.lists[l] \in Seq(Thread)
      BY <1>6 DEF KernelInv, KernelState
    <3>2. QED BY <3>1, ToSetLemma DEF On
  <2>3. QED BY <1>2, <1>7, <2>1, <2>2
<1>9. Touch(t)
  BY <1>2, <1>3, <1>6, <1>8 DEF Touch
<1>10. On(k, Defunct) \subseteq On(k', Defunct)
  <2>1. Defunct \in ListId \ Priority /\ t \notin On(k, Defunct)
    BY <1>4, ListIdFacts DEF IInv, KernelInv, StatTellsList
  <2>2. QED BY <1>2, <1>7, <2>1
<1>11. /\ pc' \in [Actor -> [op : ThreadOp \cup TickOp \cup IrqOp, arg : Thread \cup {NoThread}]]
       /\ \A b \in Thread : pc'[b].op \in ThreadOp
       /\ pc'["tick"].op \in TickOp /\ pc'["irq"].op \in IrqOp /\ Quiet
  <2>1. "tick" \in Isr /\ "tick_loop" \in TickOp
    BY DEF Isr, TickOp
  <2>2. QED BY <1>1, <2>1, IsrGoto
<1>12. \A b \in Thread : pc[b].arg # t
  BY <1>1, NotHeld DEF Actor
<1>13. ArgInv' /\ IdleInv'
  BY <1>5, <1>6, <1>9, <1>10, <1>11, <1>12, RestKept
<1>14. TypeOK'
  BY <1>1, <1>6, <1>11 DEF IInv, TypeOK, KernelInv
<1>15. QED BY <1>6, <1>13, <1>14 DEF IInv

\* A device interrupt resumes the first waiter of an object.
LEMMA IrqWakeStep == ASSUME IInv, NEW w \in WaitList, irq_wake(w) PROVE IInv'
<1> DEFINE t == Head(k.lists[w])
<1>1. t \in Thread /\ t \in On(k, w) /\ k.stat[t] = "suspend" /\ k' = rt_thread_resume(k, t)
      /\ Goto("irq", "irq_sched", NoThread) /\ UNCHANGED slice
  BY WaiterFacts DEF irq_wake, rt_ipc_list_resume
<1> HIDE DEF t
<1>2. /\ KernelInv(k') /\ Touch(t) /\ On(k, Defunct) = On(k', Defunct)
      /\ k'.stat[Idle] = "ready" /\ k'.current = k.current /\ k'.lock_nest = k.lock_nest
      /\ \A x \in Thread : k'.stat[x] = k.stat[x] \/ k'.stat[x] = "ready"
      /\ \A b \in Actor : pc[b].arg # t
  BY <1>1, ResumeTouch
<1>3. /\ pc' \in [Actor -> [op : ThreadOp \cup TickOp \cup IrqOp, arg : Thread \cup {NoThread}]]
      /\ \A b \in Thread : pc'[b].op \in ThreadOp
      /\ pc'["tick"].op \in TickOp /\ pc'["irq"].op \in IrqOp
      /\ pc'["irq"].op = "irq_sched"
      /\ Quiet /\ pc'[k.current] = pc[k.current]
  <2>1. "irq" \in Isr /\ "irq_sched" \in IrqOp
    BY DEF Isr, IrqOp
  <2>2. QED BY <1>1, <2>1, IsrGoto
<1>4. \A b \in Thread : pc[b].arg # t
  BY <1>2 DEF Actor
<1>5. ArgInv' /\ IdleInv'
  BY <1>1, <1>2, <1>3, <1>4, RestKept
<1>6. CurrentInv'
  BY <1>2, <1>3, CurrentKept DEF IInv, CurrentInv
<1>7. TypeOK'
  BY <1>1, <1>2, <1>3 DEF IInv, TypeOK, KernelInv
<1>8. HighestRuns'
  BY <1>3 DEF HighestRuns, Owes
<1>9. QED BY <1>2, <1>5, <1>6, <1>7, <1>8 DEF IInv

-----------------------------------------------------------------------------
(* The theorems *)

\* Nothing is started.
LEMMA EmptyInv == KernelInv(Empty)
<1>1. 0 \in Priority
  BY KernelAssumption DEF Priority
<1>2. \A l \in ListId : Empty.lists[l] = << >>
  BY DEF Empty
<1>3. << >> \in Seq(Thread) /\ ToSet(<< >>) = {} /\ IsInjective(<< >>)
  <2>1. << >> \in Seq(Thread)
    OBVIOUS
  <2>2. ToSet(<< >>) = {}
    BY <2>1, EmptyLemma, ZenonT(60)
  <2>3. IsInjective(<< >>)
    BY DEF IsInjective
  <2>4. QED BY <2>1, <2>2, <2>3
<1>4. Empty \in KernelState
  BY <1>1, <1>3 DEF Empty, KernelState, Stat, Error
<1>5. \A l \in ListId : On(Empty, l) = {} /\ IsInjective(Empty.lists[l])
  BY <1>2, <1>3 DEF On
<1>6. NodesLinkedOnce(Empty)
  BY <1>5 DEF NodesLinkedOnce
<1>7. \A t \in Thread : Empty.stat[t] = "none"
  BY DEF Empty
<1>8. Empty.group = {} /\ Empty.timer = {}
  BY DEF Empty
<1>9. StatTellsList(Empty)
  BY <1>5, <1>7, ListIdFacts DEF StatTellsList
<1>10. BitmapExact(Empty)
  BY <1>5, <1>8, ListIdFacts DEF BitmapExact
<1>11. MaskExact(Empty)
  BY <1>7 DEF MaskExact
<1>12. TimersOfSuspended(Empty)
  BY <1>8 DEF TimersOfSuspended
<1>13. QED BY <1>4, <1>6, <1>9, <1>10, <1>11, <1>12 DEF KernelInv

\* rt_thread_startup before the scheduler runs.
LEMMA StartedInv ==
    ASSUME NEW j, KernelInv(j), NEW t \in Thread, j.stat[t] = "none", NEW p \in Priority
    PROVE  LET v == Started(j, t, p) IN
           /\ KernelInv(v) /\ v.stat = [j.stat EXCEPT ![t] = "ready"]
           /\ v.timer = j.timer /\ v.lock_nest = j.lock_nest
<1> DEFINE i == SetPriority(j, t, p)
           u == [i EXCEPT !.init_priority[t] = p, !.stat[t] = "suspend"]
<1>1. /\ i \in KernelState /\ i.lists = j.lists /\ i.group = j.group
      /\ i.stat = j.stat /\ i.timer = j.timer /\ i.lock_nest = j.lock_nest
      /\ \A x \in Thread \ {t} : i.priority[x] = j.priority[x] /\ i.mask[x] = j.mask[x]
      /\ i.mask[t] = {i.priority[t]}
  BY ZenonT(60) DEF KernelInv, KernelState, SetPriority
<1>2. Started(j, t, p) = rt_schedule_insert_thread(u, t)
  BY DEF Started
<1> HIDE DEF i
<1>3. /\ u \in KernelState /\ u.lists = j.lists /\ u.group = j.group
      /\ u.stat = [j.stat EXCEPT ![t] = "suspend"] /\ u.timer = j.timer
      /\ u.lock_nest = j.lock_nest
      /\ \A x \in Thread \ {t} : u.priority[x] = j.priority[x] /\ u.mask[x] = j.mask[x]
      /\ u.mask[t] = {u.priority[t]}
  BY <1>1, ZenonT(60) DEF KernelState, Stat
<1> HIDE DEF u
<1>4. \A x \in Thread : u.stat[x] = IF x = t THEN "suspend" ELSE j.stat[x]
  BY <1>3 DEF KernelInv, KernelState
<1>5. ~Linked(j, t) /\ t \notin j.timer /\ j.stat[t] # "ready"
  BY ListIdFacts DEF KernelInv, StatTellsList, TimersOfSuspended, Linked
<1>6. FreeChange(j, u, t)
  BY <1>3, <1>4, <1>5 DEF FreeChange
<1>7. KernelInv(u)
  BY <1>6, FreeStatInv
<1>8. u.stat[t] = "suspend" /\ ~Linked(u, t) /\ t \notin u.timer
  BY <1>3, <1>4, <1>5 DEF Linked, On
<1>9. LET v == rt_schedule_insert_thread(u, t) IN
      /\ KernelInv(v) /\ v.stat = [u.stat EXCEPT ![t] = "ready"]
      /\ v.timer = u.timer /\ v.lock_nest = u.lock_nest
  BY <1>7, <1>8, ScheduleInsertInv
<1>10. [u.stat EXCEPT ![t] = "ready"] = [j.stat EXCEPT ![t] = "ready"]
  BY <1>3 DEF KernelInv, KernelState
<1>11. QED BY <1>2, <1>3, <1>9, <1>10

\* rtthread_startup hands over a state that satisfies the invariant.
LEMMA InitInv == Init => IInv
<1> SUFFICES ASSUME Init PROVE IInv
  OBVIOUS
<1> DEFINE u == Started(Empty, InitThread, InitPriority)
           v == Started(u, Idle, PriorityMax - 1)
<1>1. /\ InitThread \in Thread /\ Idle \in Thread /\ InitThread # Idle /\ InitPriority \in Priority
      /\ PriorityMax - 1 \in Priority
  BY KernelAssumption, SchedulerAssumption DEF Priority
<1>2. /\ KernelInv(u) /\ u.stat = [Empty.stat EXCEPT ![InitThread] = "ready"]
      /\ u.timer = Empty.timer /\ u.lock_nest = Empty.lock_nest
  <2>1. Empty.stat[InitThread] = "none"
    BY <1>1 DEF Empty
  <2>2. QED BY <1>1, <2>1, EmptyInv, StartedInv
<1>3. k = rt_schedule(v)
  BY DEF Init
<1> HIDE DEF u
<1>4. u.stat[Idle] = "none" /\ u.lock_nest = 0
  BY <1>1, <1>2 DEF Empty
<1>5. KernelInv(v) /\ v.stat = [u.stat EXCEPT ![Idle] = "ready"] /\ v.lock_nest = 0
  <2> DEFINE q == PriorityMax - 1
  <2>1. KernelInv(u) /\ q \in Priority
    BY <1>1, <1>2
  <2> HIDE DEF q
  <2>2. LET w == Started(u, Idle, q) IN
        KernelInv(w) /\ w.stat = [u.stat EXCEPT ![Idle] = "ready"] /\ w.lock_nest = u.lock_nest
    BY <1>1, <1>4, <2>1, StartedInv
  <2>3. QED BY <1>4, <2>2 DEF q
<1> HIDE DEF v
<1>6. v.stat[Idle] = "ready"
  BY <1>1, <1>2, <1>5 DEF KernelInv, KernelState
<1>7. /\ KernelInv(k) /\ HighestReady(v) \in Thread /\ v.stat[HighestReady(v)] = "ready"
      /\ HighestReady(k) = HighestReady(v)
      /\ k.current = HighestReady(v) /\ k.stat = v.stat
  <2>1. KernelInv(v) /\ v.lock_nest = 0
    BY <1>5
  <2>2. QED BY <1>1, <1>3, <1>6, <2>1, ScheduleInv
<1>8. /\ pc \in [Actor -> [op : ThreadOp \cup TickOp \cup IrqOp, arg : Thread \cup {NoThread}]]
      /\ \A a \in Thread : pc[a].op = "run"
      /\ pc["tick"].op = "off" /\ pc["irq"].op = "off"
      /\ \A a \in Actor : pc[a].arg = NoThread
  BY SchedulerAssumption DEF Init, Actor, Isr, ThreadOp, TickOp
<1>9. slice \in [Thread -> 1 .. InitTick]
  <2>1. InitTick \in 1 .. InitTick
    BY SchedulerAssumption
  <2>2. QED BY <2>1 DEF Init
<1>10. TypeOK
  BY <1>7, <1>8, <1>9 DEF TypeOK, KernelInv, ThreadOp, TickOp, IrqOp
<1>11. ArgInv
  BY <1>1, <1>8 DEF ArgInv, ResumeOp, Actor
<1>12. CurrentInv /\ IdleInv
  BY <1>1, <1>6, <1>7, <1>8 DEF CurrentInv, IdleInv
<1>13. HighestRuns
  BY <1>7, KernelAssumption DEF HighestRuns
<1>14. QED BY <1>7, <1>10, <1>11, <1>12, <1>13 DEF IInv

\* Every step of every actor keeps the invariant.
LEMMA NextInv == IInv /\ [Next]_vars => IInv'
<1> SUFFICES ASSUME IInv, [Next]_vars PROVE IInv'
  OBVIOUS
<1>1. CASE \E a \in Thread : ThreadStep(a)
  BY <1>1, ResumeUnlinkStep, ResumeInsertStep, SchedStep, SleptStep DEF ThreadStep
<1>2. CASE \E a \in Thread : ThreadCall(a)
  BY <1>2, CreateStep, StartupStep, YieldStep, SleepStep, ExitStep, BlockStep, WakeStep,
     EnterCriticalStep, ExitCriticalStep DEF ThreadCall
<1>3. CASE IdleStep
  BY <1>3, HasDefunctStep, IdleLockStep, IdleFreeStep DEF IdleStep
<1>4. CASE SysTick_Handler
  BY <1>4, SysTickStep
<1>5. CASE TickStep
  <2>1. CASE tick_yield
    BY <2>1, TickYieldStep
  <2>2. CASE tick_sched
    <3>1. /\ "tick" \in Isr /\ "tick_timer" \in TickOp /\ Goto("tick", "tick_timer", NoThread)
          /\ k' = rt_schedule(k) /\ UNCHANGED slice
      BY <2>2 DEF tick_sched, Isr, TickOp
    <3>2. QED BY <3>1, IsrSched
  <2>3. CASE tick_leave
    <3>1. /\ "tick" \in Isr /\ "off" \in TickOp /\ Goto("tick", "off", NoThread)
          /\ UNCHANGED k /\ ~Owes("tick") /\ slice' \in [Thread -> 1 .. InitTick]
      BY <2>3 DEF tick_leave, Isr, TickOp, Owes, AfterSched, IInv, TypeOK
    <3>2. QED BY <3>1, IsrSilent
  <2>4. CASE \E t \in Thread : tick_expire(t)
    BY <2>4, TickExpireStep
  <2>5. QED BY <1>5, <2>1, <2>2, <2>3, <2>4 DEF TickStep
<1>6. CASE \E w \in WaitList : irq_wake(w)
  BY <1>6, IrqWakeStep
<1>7. CASE irq_sched
  <2>1. /\ "irq" \in Isr /\ "off" \in IrqOp /\ Goto("irq", "off", NoThread)
        /\ k' = rt_schedule(k) /\ UNCHANGED slice
    BY <1>7 DEF irq_sched, Isr, IrqOp
  <2>2. QED BY <2>1, IsrSched
<1>8. CASE UNCHANGED vars
  BY <1>8 DEF vars, IInv, TypeOK, ArgInv, CurrentInv, IdleInv, HighestRuns, Owes
<1>9. QED BY <1>1, <1>2, <1>3, <1>4, <1>5, <1>6, <1>7, <1>8 DEF Next

\* The invariant holds in every reachable state.
THEOREM Inductive == Spec => []IInv
  BY InitInv, NextInv, PTL DEF Spec

\* Every kernel variable keeps its type.
THEOREM TypeCorrect == Spec => []TypeOK
<1>1. IInv => TypeOK
  BY DEF IInv
<1>2. QED BY <1>1, Inductive, PTL

\* rt_schedule_insert_thread, rt_ipc_list_suspend and rt_thread_exit never
\* meet a list node that is still linked.
THEOREM ListsIntact == Spec => []LinkedOnce
<1>1. IInv => LinkedOnce
  BY DEF IInv, KernelInv, LinkedOnce
<1>2. QED BY <1>1, Inductive, PTL

\* Ready queues, stat, priorities and bitmap agree in every state, so that
\* rt_schedule never looks into an empty queue.
THEOREM QueuesExact == Spec => []ReadyQueueExact
<1>1. IInv => ReadyQueueExact
  BY DEF IInv, KernelInv, ReadyQueueExact
<1>2. QED BY <1>1, Inductive, PTL

\* rt_thread_timeout only ever finds a suspended thread.
THEOREM TimersSound == Spec => []TimerImpliesSuspended
<1>1. IInv => TimerImpliesSuspended
  BY DEF IInv, KernelInv, TimerImpliesSuspended
<1>2. QED BY <1>1, Inductive, PTL

\* The core executes the first thread of the highest ready priority unless an
\* rt_schedule is still to come or the scheduler is locked.
THEOREM PriorityScheduling == Spec => []HighestRuns
<1>1. IInv => HighestRuns
  BY DEF IInv
<1>2. QED BY <1>1, Inductive, PTL

\* A thread object given back to the heap by the idle thread is referenced by
\* nothing.
THEOREM NoUseAfterFree == Spec => []FreedUnreferenced
<1>1. ASSUME IInv, NEW t \in Thread, k.stat[t] = "none"
      PROVE  ~Linked(k, t) /\ t \notin k.timer /\ k.current # t /\ \A a \in Actor : pc[a].arg # t
  <2>1. ~Linked(k, t) /\ t \notin k.timer
    BY <1>1, ListIdFacts DEF IInv, KernelInv, StatTellsList, TimersOfSuspended, Linked
  <2>2. k.current # t
    BY <1>1 DEF IInv, CurrentInv
  <2>3. QED BY <1>1, <2>1, <2>2, NotHeld
<1>2. IInv => FreedUnreferenced
  BY <1>1 DEF FreedUnreferenced
<1>3. QED BY <1>2, Inductive, PTL

\* No step takes the core from the thread that holds the scheduler lock.
LEMMA LockStep == IInv /\ [Next]_vars => (k.lock_nest > 0 => k'.current = k.current)
<1> SUFFICES ASSUME IInv, [Next]_vars, k.lock_nest > 0 PROVE k'.current = k.current
  OBVIOUS
<1>1. KernelInv(k) /\ k \in KernelState /\ ~(k.lock_nest = 0) /\ k.current \in Thread
  BY DEF IInv, KernelInv, CurrentInv
<1>2. rt_schedule(k) = k
  BY <1>1 DEF rt_schedule
<1>3. ASSUME NEW t \in Thread, k.stat[t] = "ready", k' = ToTail(k, t) PROVE k'.current = k.current
  BY <1>1, <1>3, RotateInv DEF ToTail, SameThreads
<1>4. ASSUME NEW w \in WaitList, k.lists[w] # << >>, k' = rt_ipc_list_resume(k, w)
      PROVE  k'.current = k.current
  BY <1>4, WaiterFacts, ResumeTouch DEF rt_ipc_list_resume
<1>5. CASE \E a \in Thread : ThreadStep(a)
  <2>1. PICK a \in Thread : ThreadStep(a)
    BY <1>5
  <2>2. CASE resume_unlink(a)
    BY <1>1, <2>2 DEF resume_unlink, rt_timer_stop, rt_list_remove, KernelState
  <2>3. CASE resume_insert(a)
    BY <1>1, <2>3 DEF resume_insert, rt_schedule_insert_thread, rt_list_insert_before, KernelState
  <2>4. CASE schedule(a)
    BY <1>2, <2>4 DEF schedule
  <2>5. CASE slept(a)
    BY <1>1, <2>5 DEF slept, KernelState
  <2>6. QED BY <2>1, <2>2, <2>3, <2>4, <2>5 DEF ThreadStep
<1>6. CASE \E a \in Thread : ThreadCall(a)
  <2>1. PICK a \in Thread : ThreadCall(a)
    BY <1>6
  <2>2. CASE \E t \in Thread, p \in Priority : rt_thread_create(a, t, p)
    BY <1>1, <2>2 DEF rt_thread_create, KernelState
  <2>3. CASE \E t \in Thread : rt_thread_startup(a, t)
    BY <1>1, <2>3 DEF rt_thread_startup, SetPriority, KernelState
  <2>4. CASE rt_thread_yield(a)
    BY <1>3, <2>4 DEF rt_thread_yield, Shares
  <2>5. CASE rt_thread_sleep(a) \/ rt_thread_exit(a)
    BY <1>1, <2>5 DEF rt_thread_sleep, rt_thread_exit
  <2>6. CASE \E w \in WaitList : block(a, w)
    BY <1>1, <2>6 DEF block
  <2>7. CASE \E w \in WaitList : wake(a, w)
    BY <1>4, <2>7 DEF wake
  <2>8. CASE rt_enter_critical(a) \/ rt_exit_critical(a)
    BY <1>1, <2>8 DEF rt_enter_critical, rt_exit_critical, KernelState
  <2>9. QED BY <2>1, <2>2, <2>3, <2>4, <2>5, <2>6, <2>7, <2>8 DEF ThreadCall
<1>7. CASE IdleStep
  BY <1>1, <1>7 DEF IdleStep, has_defunct_thread, idle_lock, idle_free, rt_list_remove, KernelState
<1>8. CASE SysTick_Handler
  BY <1>8 DEF SysTick_Handler
<1>9. CASE TickStep
  <2>1. CASE tick_yield
    BY <1>1, <1>3, <2>1 DEF tick_yield, Shares
  <2>2. CASE tick_sched \/ tick_leave
    BY <1>2, <2>2 DEF tick_sched, tick_leave
  <2>3. CASE \E t \in Thread : tick_expire(t)
    <3>1. PICK t \in Thread : tick_expire(t)
      BY <2>3
    <3> DEFINE j == rt_schedule_insert_thread(
                      rt_list_remove([rt_timer_stop(k, t) EXCEPT !.error[t] = "ETIMEOUT"], t), t)
    <3>2. k' = rt_schedule(j) /\ t \in k.timer
      BY <3>1 DEF tick_expire, rt_thread_timeout
    <3>3. j.current = k.current /\ j.lock_nest = k.lock_nest
      BY <1>1, <3>2, TimeoutInv, ZenonT(60)
    <3> HIDE DEF j
    <3>4. QED BY <1>1, <3>2, <3>3 DEF rt_schedule
  <2>4. QED BY <1>9, <2>1, <2>2, <2>3 DEF TickStep
<1>10. CASE \E w \in WaitList : irq_wake(w)
  BY <1>4, <1>10 DEF irq_wake
<1>11. CASE irq_sched
  BY <1>2, <1>11 DEF irq_sched
<1>12. CASE UNCHANGED vars
  BY <1>12 DEF vars
<1>13. QED BY <1>5, <1>6, <1>7, <1>8, <1>9, <1>10, <1>11, <1>12 DEF Next

\* Between rt_enter_critical and rt_exit_critical the core stays with the
\* thread, whatever interrupts resume.
THEOREM LockKeepsCore == Spec => LockedIsNotPreempted
<1>1. IInv /\ [Next]_vars => [k.lock_nest > 0 => k'.current = k.current]_vars
  BY LockStep
<1>2. QED BY <1>1, Inductive, PTL DEF Spec, LockedIsNotPreempted

=============================================================================
